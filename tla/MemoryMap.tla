------------------------------ MODULE MemoryMap ------------------------------
(***************************************************************************)
(* The physical memory map (memory.cpp): early_init copies the map of the  *)
(* boot loader, sorts it and takes the memory of the BIOS and of the       *)
(* kernel out of it.  pma::early_init then takes the first entry for the   *)
(* physical memory it manages.                                             *)
(***************************************************************************)
EXTENDS Integers, Sequences

CONSTANTS
  Maps,                   \* the maps a boot loader may hand over
  Width,                  \* lengths are unsigned numbers below Width
  BiosEnd,                \* 0x500
  KernelStart, KernelEnd, \* 0x100000, 0x300000
  MAX_MEMORY_MAP_ENTRIES

memory_map_entry == [base : Nat, length : Nat, type : {"usable", "reserved"}]
Frames(entry) == entry.base .. entry.base + entry.length - 1

(* The regions of a map are not empty and do not overlap. *)
MemoryMapAssumption ==
  /\ {Width, BiosEnd, KernelStart, KernelEnd, MAX_MEMORY_MAP_ENTRIES} \subseteq Nat
  /\ 0 < BiosEnd /\ BiosEnd < KernelStart /\ KernelStart < KernelEnd
  /\ \A m \in Maps :
       /\ m \in Seq(memory_map_entry)
       /\ \A k \in DOMAIN m : m[k].length > 0 /\ m[k].base + m[k].length < Width
       /\ \A k, l \in DOMAIN m : k # l => Frames(m[k]) \cap Frames(m[l]) = {}

VARIABLES
  given,         \* the boot loader's map
  g_memory_map,
  pc,            \* "init", "sort", "shift", "bios", "kernel", "done", "assert"
  i, j, v        \* of insertion_sort; i and j count from one

vars == <<given, g_memory_map, pc, i, j, v>>

Num == Len(g_memory_map)

early_init ==
  /\ pc = "init"
  /\ IF Len(given) < MAX_MEMORY_MAP_ENTRIES
     THEN pc' = "sort" /\ g_memory_map' = given /\ i' = 2
     ELSE pc' = "assert" /\ UNCHANGED <<g_memory_map, i>>
  /\ UNCHANGED <<given, j, v>>

-----------------------------------------------------------------------------
(* The comparison sort_memory_map sorts by. *)
Usable(entry) == entry.type = "usable"
LargerIsBetter(lhs, rhs) == lhs.length > rhs.length
less(lhs, rhs) == Usable(lhs) /\ (Usable(rhs) => lhs.length > rhs.length)

NextElement ==
  /\ pc = "sort"
  /\ IF i <= Num
     THEN pc' = "shift" /\ v' = g_memory_map[i] /\ j' = i - 1
     ELSE pc' = "bios" /\ UNCHANGED <<v, j>>
  /\ UNCHANGED <<given, g_memory_map, i>>

MustShift == j >= 1 /\ ~less(g_memory_map[j], v)

ShiftElement ==
  /\ pc = "shift" /\ MustShift
  /\ g_memory_map' = [g_memory_map EXCEPT ![j + 1] = g_memory_map[j]]
  /\ j' = j - 1
  /\ UNCHANGED <<given, pc, i, v>>

PlaceElement ==
  /\ pc = "shift" /\ ~MustShift
  /\ g_memory_map' = [g_memory_map EXCEPT ![j + 1] = v]
  /\ i' = i + 1
  /\ pc' = "sort"
  /\ UNCHANGED <<given, j, v>>

-----------------------------------------------------------------------------
(* mark_unusable: the first entry that starts in the range is cut. *)
StartsIn(entry, start, end) == start <= entry.base /\ entry.base < end
BaseMoved(entry, start, end) == [entry EXCEPT !.base = end]
Cut(entry, start, end) ==
  [entry EXCEPT !.length = (@ - (end - entry.base) + Width) % Width, !.base = end]

mark_unusable(start, end) ==
  g_memory_map' =
    [k \in DOMAIN g_memory_map |->
       IF /\ StartsIn(g_memory_map[k], start, end)
          /\ \A l \in 1 .. k - 1 : ~StartsIn(g_memory_map[l], start, end)
       THEN Cut(g_memory_map[k], start, end)
       ELSE g_memory_map[k]]

MarkBios ==
  /\ pc = "bios"
  /\ mark_unusable(0, BiosEnd)
  /\ pc' = "kernel"
  /\ UNCHANGED <<given, i, j, v>>

MarkKernel ==
  /\ pc = "kernel"
  /\ mark_unusable(KernelStart, KernelEnd)
  /\ pc' = "done"
  /\ UNCHANGED <<given, i, j, v>>

-----------------------------------------------------------------------------
UsableFrames(m) == UNION { Frames(m[k]) : k \in {l \in DOMAIN m : Usable(m[l])} }

LargestFirst(m) ==
  \A k, l \in DOMAIN m : k < l /\ Usable(m[l]) => Usable(m[k]) /\ m[k].length >= m[l].length

(* insertion_sort puts the usable regions first, the largest of them at    *)
(* the front, and keeps every region of the boot loader's map.             *)
SortOrdersTheMap ==
  pc = "bios" =>
    /\ LargestFirst(g_memory_map)
    /\ \A e \in {given[k] : k \in DOMAIN given} :
         \E k \in DOMAIN g_memory_map : g_memory_map[k] = e

(* The map is one the marking can express: the memory from start to end,   *)
(* if usable, begins a region that reaches at least to end.                *)
Cuttable(start, end) ==
  \A k \in DOMAIN given :
    Frames(given[k]) \cap (start .. end - 1) # {} =>
      \/ given[k].base = start /\ given[k].base + given[k].length >= end
      \/ ~Usable(given[k]) /\ ~StartsIn(given[k], start, end)

(* What is left usable is what was usable, less the memory of the BIOS and *)
(* of the kernel, wherever the sort moved their regions: pma never hands   *)
(* out a page of the kernel.                                               *)
OnlyReservedIsLost ==
  pc = "done" /\ Cuttable(0, BiosEnd) /\ Cuttable(KernelStart, KernelEnd) =>
    UsableFrames(g_memory_map) =
      UsableFrames(given) \ ((0 .. BiosEnd - 1) \cup (KernelStart .. KernelEnd - 1))
=============================================================================

----------------------------- MODULE BootProofs ------------------------------
(***************************************************************************)
(* The kernel's memory map, for every map of the boot loader: sorting it   *)
(* rearranges it into order, and marking takes out of it the memory of the *)
(* BIOS and of the kernel and no other.  And the low memory: what the      *)
(* kernel is given of it is behind everything the loader wrote.            *)
(***************************************************************************)
EXTENDS Boot, SequenceTheorems, TLAPS

(* What is assumed of the memory map. *)
LEMMA MapAssumption == Map!MemoryMapAssumption
BY BootAssumption DEF BootAssumption

(* The order of the sorted map. *)
Before(a, b) == Map!Usable(b) => Map!Usable(a) /\ a.length >= b.length

(* The sequences with the entries of the given map, each of them once. *)
Rearranged(s) ==
  /\ Len(s) = Len(given)
  /\ \A k \in 1 .. Len(s) : \E l \in 1 .. Len(given) : s[k] = given[l]
  /\ \A l \in 1 .. Len(given) : \E k \in 1 .. Len(s) : s[k] = given[l]
  /\ \A k, l \in 1 .. Len(s) : k # l => s[k] # s[l]
Lists == {s \in Seq(Map!memory_map_entry) : Rearranged(s)}

(* The list while entries are shifted, with the entry that is inserted in  *)
(* the gap: the code has it in a variable of its own, and the gap holds an *)
(* entry that is there twice.                                              *)
Whole == [g_memory_map EXCEPT ![j + 1] = v]
(* What mark_unusable makes of s. *)
Marked(s, start, end) ==
  [k \in DOMAIN s |->
     IF Map!StartsIn(s[k], start, end) /\ \A l \in 1 .. k - 1 : ~Map!StartsIn(s[l], start, end)
     THEN Map!Cut(s[k], start, end) ELSE s[k]]

(* Between two insertions the entries before i are in order. *)
Sorting ==
  /\ g_memory_map \in Lists
  /\ i \in Nat /\ i >= 2
  /\ \A k, l \in 1 .. Map!Num : k < l /\ l < i => Before(g_memory_map[k], g_memory_map[l])
(* During one, the entries up to i but the gap are in order, and those     *)
(* behind the gap come after the entry that is inserted.                   *)
Shifting ==
  /\ g_memory_map \in Seq(Map!memory_map_entry) /\ v \in Map!memory_map_entry
  /\ i \in 2 .. Map!Num /\ j \in 0 .. i - 1
  /\ Whole \in Lists
  /\ \A k, l \in 1 .. i : k < l /\ k # j + 1 /\ l # j + 1 =>
       Before(g_memory_map[k], g_memory_map[l])
  /\ \A l \in j + 2 .. i : Before(v, g_memory_map[l])

(* The map at each step of the kernel. *)
MapInv ==
  /\ kernel_pc \in {"init", "sort", "shift", "bios", "kernel", "done", "assert"}
  /\ kernel_pc # "init" => given \in Maps
  /\ kernel_pc = "sort" => Sorting
  /\ kernel_pc = "shift" => Shifting
  /\ kernel_pc = "bios" =>
       /\ g_memory_map \in Lists
       /\ \A k, l \in 1 .. Map!Num : k < l => Before(g_memory_map[k], g_memory_map[l])
  /\ kernel_pc = "kernel" => \E s \in Lists : g_memory_map = Marked(s, 0, BiosEnd)
  /\ kernel_pc = "done" =>
       \E s \in Lists :
         g_memory_map = Marked(Marked(s, 0, BiosEnd), KernelStart, KernelEnd)

(* Base and length of an entry are numbers. *)
LEMMA EntryFields ==
  ASSUME NEW e \in Map!memory_map_entry
  PROVE  e.base \in Nat /\ e.length \in Nat
BY DEF Map!memory_map_entry

(* The maps of the boot loader: entries that are not empty, do not overlap *)
(* and so are all different.                                               *)
LEMMA MapsAre ==
  ASSUME NEW m \in Maps
  PROVE  /\ m \in Seq(Map!memory_map_entry) /\ Len(m) \in Nat /\ DOMAIN m = 1 .. Len(m)
         /\ \A k \in 1 .. Len(m) :
              /\ m[k] \in Map!memory_map_entry /\ m[k].base \in Nat /\ m[k].length \in Nat
              /\ m[k].length > 0 /\ m[k].base + m[k].length < Width
         /\ \A k, l \in 1 .. Len(m) : k # l => Map!Frames(m[k]) \cap Map!Frames(m[l]) = {}
         /\ \A k, l \in 1 .. Len(m) : k # l => m[k] # m[l]
<1>1. /\ m \in Seq(Map!memory_map_entry) /\ Len(m) \in Nat /\ DOMAIN m = 1 .. Len(m)
      /\ \A k \in 1 .. Len(m) : m[k] \in Map!memory_map_entry
  BY MapAssumption DEF Map!MemoryMapAssumption
<1>2. \A k \in 1 .. Len(m) :
        /\ m[k] \in Map!memory_map_entry /\ m[k].base \in Nat /\ m[k].length \in Nat
        /\ m[k].length > 0 /\ m[k].base + m[k].length < Width
  BY <1>1, MapAssumption, EntryFields DEF Map!MemoryMapAssumption
<1>3. \A k, l \in 1 .. Len(m) : k # l => Map!Frames(m[k]) \cap Map!Frames(m[l]) = {}
  BY <1>1, MapAssumption DEF Map!MemoryMapAssumption
<1>4. ASSUME NEW k \in 1 .. Len(m), NEW l \in 1 .. Len(m), k # l, m[k] = m[l] PROVE FALSE
  <2>1. m[k].base \in Map!Frames(m[k]) BY <1>2 DEF Map!Frames
  <2> QED BY <2>1, <1>3, <1>4
<1> QED BY <1>1, <1>2, <1>3, <1>4

(* What the comparison of the sort says of two entries. *)
LEMMA BeforeOrders ==
  ASSUME NEW a \in Map!memory_map_entry, NEW b \in Map!memory_map_entry
  PROVE  /\ Map!less(a, b) => Before(a, b)
         /\ ~Map!less(a, b) => Before(b, a)
         /\ \A c \in Map!memory_map_entry : Before(a, b) /\ Before(b, c) => Before(a, c)
BY EntryFields DEF Map!less, Before

(* early_init starts the sort with the boot loader's map. *)
LEMMA MapEarlyInit == ASSUME MapInv, given \in Maps, Map!early_init PROVE MapInv'
<1>1. /\ kernel_pc = "init" /\ given' = given
      /\ \/ kernel_pc' = "sort" /\ g_memory_map' = given /\ i' = 2
         \/ kernel_pc' = "assert"
  BY DEF Map!early_init
<1>2. CASE kernel_pc' = "assert" BY <1>1, <1>2 DEF MapInv
<1>3. CASE kernel_pc' = "sort"
  <2>1. Rearranged(given) BY MapsAre DEF Rearranged
  <2>2. given \in Lists BY <2>1, MapsAre DEF Lists
  <2>3. g_memory_map' \in Lists' BY <1>1, <1>3, <2>2 DEF Lists, Rearranged
  <2>4. Sorting' BY <1>1, <1>3, <2>3 DEF Sorting, Map!Num
  <2> QED BY <1>1, <1>3, <2>4 DEF MapInv
<1> QED BY <1>1, <1>2, <1>3

(* Rearrangements of the map are sequences of its entries. *)
LEMMA ListsAre ==
  ASSUME NEW s \in Lists
  PROVE  /\ s \in Seq(Map!memory_map_entry) /\ Len(s) \in Nat /\ DOMAIN s = 1 .. Len(s)
         /\ Len(s) = Len(given)
         /\ \A k \in 1 .. Len(s) : s[k] \in Map!memory_map_entry
         /\ Rearranged(s)
<1>1. s \in Seq(Map!memory_map_entry) /\ Rearranged(s) BY DEF Lists
<1> QED BY <1>1 DEF Rearranged

(* The sort takes the next entry, or is done. *)
LEMMA MapNextElement == ASSUME MapInv, Map!NextElement PROVE MapInv'
<1>1. /\ kernel_pc = "sort" /\ given' = given /\ g_memory_map' = g_memory_map /\ i' = i
      /\ Sorting /\ given \in Maps
  BY DEF Map!NextElement, MapInv
<1>2. Lists' = Lists BY <1>1 DEF Lists, Rearranged
<1>3. g_memory_map \in Lists BY <1>1 DEF Sorting
<1>4. /\ Map!Num \in Nat /\ Map!Num' = Map!Num /\ g_memory_map \in Seq(Map!memory_map_entry)
      /\ \A k \in 1 .. Map!Num : g_memory_map[k] \in Map!memory_map_entry
  BY <1>1, <1>3, ListsAre DEF Map!Num
<1>5. CASE i <= Map!Num
  <2>1. kernel_pc' = "shift" /\ v' = g_memory_map[i] /\ j' = i - 1
    BY <1>5 DEF Map!NextElement
  <2>2. i \in 2 .. Map!Num /\ j' \in 0 .. i - 1 /\ j' + 1 = i
    BY <1>1, <1>4, <1>5, <2>1 DEF Sorting
  <2>3. Whole' = g_memory_map
    BY <1>1, <1>4, <2>1, <2>2 DEF Whole, Map!Num
  <2>4. Shifting'
    BY <1>1, <1>2, <1>3, <1>4, <2>1, <2>2, <2>3 DEF Shifting, Sorting
  <2> QED BY <1>1, <2>1, <2>4 DEF MapInv
<1>6. CASE ~(i <= Map!Num)
  <2>1. kernel_pc' = "bios" BY <1>6 DEF Map!NextElement
  <2>2. \A k, l \in 1 .. Map!Num : k < l => Before(g_memory_map[k], g_memory_map[l])
    BY <1>1, <1>4, <1>6 DEF Sorting
  <2> QED BY <1>1, <1>2, <1>3, <1>4, <2>1, <2>2 DEF MapInv
<1> QED BY <1>5, <1>6

(* While entries are shifted, the list with the entry that is inserted in  *)
(* its gap is a rearrangement.                                             *)
LEMMA ShiftingIs ==
  ASSUME Shifting
  PROVE  /\ Map!Num \in Nat /\ g_memory_map \in Seq(Map!memory_map_entry)
         /\ DOMAIN g_memory_map = 1 .. Map!Num
         /\ \A k \in 1 .. Map!Num : g_memory_map[k] \in Map!memory_map_entry
         /\ v \in Map!memory_map_entry /\ i \in 2 .. Map!Num /\ j \in 0 .. i - 1
         /\ j + 1 \in 1 .. Map!Num
         /\ Whole \in Lists /\ Len(Whole) = Map!Num
         /\ \A k \in 1 .. Map!Num : Whole[k] = IF k = j + 1 THEN v ELSE g_memory_map[k]
<1>1. /\ Map!Num \in Nat /\ g_memory_map \in Seq(Map!memory_map_entry)
      /\ DOMAIN g_memory_map = 1 .. Map!Num
      /\ \A k \in 1 .. Map!Num : g_memory_map[k] \in Map!memory_map_entry
  BY DEF Shifting, Map!Num
<1>2. v \in Map!memory_map_entry /\ i \in 2 .. Map!Num /\ j \in 0 .. i - 1 /\ Whole \in Lists
  BY DEF Shifting
<1>3. j + 1 \in 1 .. Map!Num BY <1>1, <1>2
<1>4. /\ Len(Whole) = Map!Num
      /\ \A k \in 1 .. Map!Num : Whole[k] = IF k = j + 1 THEN v ELSE g_memory_map[k]
  BY <1>1, <1>2, <1>3, ExceptSeq DEF Whole, Map!Num
<1> QED BY <1>1, <1>2, <1>3, <1>4

(* Two entries of a rearrangement may trade places. *)
LEMMA RearrangedSwap ==
  ASSUME NEW s, NEW t, NEW a \in 1 .. Len(s), NEW b \in 1 .. Len(s), a # b,
         Len(t) = Len(s), Rearranged(s),
         \A k \in 1 .. Len(s) :
           t[k] = IF k = a THEN s[b] ELSE IF k = b THEN s[a] ELSE s[k]
  PROVE  Rearranged(t)
<1> DEFINE turn(k) == IF k = a THEN b ELSE IF k = b THEN a ELSE k
<1>1. \A k \in 1 .. Len(s) : turn(k) \in 1 .. Len(s) /\ t[k] = s[turn(k)]
                            /\ turn(turn(k)) = k
  OBVIOUS
<1>2. \A k, l \in 1 .. Len(s) : k # l => turn(k) # turn(l)
  OBVIOUS
<1> HIDE DEF turn
<1>3. \A k \in 1 .. Len(t) : \E l \in 1 .. Len(given) : t[k] = given[l]
  <2> SUFFICES ASSUME NEW k \in 1 .. Len(t)
               PROVE  \E l \in 1 .. Len(given) : t[k] = given[l]
    OBVIOUS
  <2>1. turn(k) \in 1 .. Len(s) /\ t[k] = s[turn(k)] BY <1>1
  <2>2. PICK l \in 1 .. Len(given) : s[turn(k)] = given[l] BY <2>1 DEF Rearranged
  <2> QED BY <2>1, <2>2
<1>4. \A l \in 1 .. Len(given) : \E k \in 1 .. Len(t) : t[k] = given[l]
  <2> SUFFICES ASSUME NEW l \in 1 .. Len(given)
               PROVE  \E k \in 1 .. Len(t) : t[k] = given[l]
    OBVIOUS
  <2>1. PICK k \in 1 .. Len(s) : s[k] = given[l] BY DEF Rearranged
  <2>2. turn(k) \in 1 .. Len(t) /\ t[turn(k)] = s[k] BY <1>1
  <2> QED BY <2>1, <2>2
<1>5. \A k, l \in 1 .. Len(t) : k # l => t[k] # t[l]
  <2> SUFFICES ASSUME NEW k \in 1 .. Len(t), NEW l \in 1 .. Len(t), k # l
               PROVE  t[k] # t[l]
    OBVIOUS
  <2>1. /\ turn(k) \in 1 .. Len(s) /\ t[k] = s[turn(k)]
        /\ turn(l) \in 1 .. Len(s) /\ t[l] = s[turn(l)] /\ turn(k) # turn(l)
    BY <1>1, <1>2
  <2>2. \A m, n \in 1 .. Len(s) : m # n => s[m] # s[n] BY DEF Rearranged
  <2> QED BY <2>1, <2>2, Zenon
<1> QED BY <1>3, <1>4, <1>5 DEF Rearranged

(* Moving the gap one entry towards the front trades two entries of the    *)
(* whole list, and keeps the entries around the gap in order.              *)
LEMMA MapShiftElement == ASSUME MapInv, Map!ShiftElement PROVE MapInv'
<1>1. /\ kernel_pc = "shift" /\ Map!MustShift
      /\ given' = given /\ kernel_pc' = kernel_pc /\ i' = i /\ v' = v
      /\ j' = j - 1 /\ g_memory_map' = [g_memory_map EXCEPT ![j + 1] = g_memory_map[j]]
      /\ Shifting /\ given \in Maps
  BY DEF Map!ShiftElement, MapInv
<1>2. /\ Map!Num \in Nat /\ g_memory_map \in Seq(Map!memory_map_entry)
      /\ \A k \in 1 .. Map!Num : g_memory_map[k] \in Map!memory_map_entry
      /\ v \in Map!memory_map_entry /\ i \in 2 .. Map!Num /\ j \in 0 .. i - 1
      /\ j + 1 \in 1 .. Map!Num
      /\ Whole \in Lists /\ Len(Whole) = Map!Num
      /\ \A k \in 1 .. Map!Num : Whole[k] = IF k = j + 1 THEN v ELSE g_memory_map[k]
  BY <1>1, ShiftingIs
<1>3. j \in 1 .. i - 1 /\ j \in 1 .. Map!Num /\ ~Map!less(g_memory_map[j], v)
  BY <1>1, <1>2 DEF Map!MustShift
<1>4. /\ g_memory_map' \in Seq(Map!memory_map_entry) /\ Map!Num' = Map!Num
      /\ \A k \in 1 .. Map!Num :
           g_memory_map'[k] = IF k = j + 1 THEN g_memory_map[j] ELSE g_memory_map[k]
  BY <1>1, <1>2, <1>3, ExceptSeq DEF Map!Num
<1>5. /\ Whole' \in Seq(Map!memory_map_entry) /\ Len(Whole') = Map!Num
      /\ \A k \in 1 .. Map!Num : Whole'[k] = IF k = j THEN v ELSE g_memory_map'[k]
  <2>0. j' + 1 = j BY <1>1, <1>2
  <2>1. Whole' = [g_memory_map' EXCEPT ![j] = v]
    BY <1>1, <2>0, Zenon DEF Whole
  <2>2. Len(g_memory_map') = Map!Num BY <1>4 DEF Map!Num
  <2> QED BY <1>2, <1>3, <1>4, <2>1, <2>2, ExceptSeq
<1>6. \A k \in 1 .. Map!Num :
        Whole'[k] = IF k = j THEN Whole[j + 1] ELSE IF k = j + 1 THEN Whole[j] ELSE Whole[k]
  BY <1>2, <1>3, <1>4, <1>5
<1>7. Whole' \in Lists'
  <2>1. Rearranged(Whole) BY <1>2, ListsAre
  <2>2. Rearranged(Whole')
    <3>1. j + 1 \in 1 .. Len(Whole) /\ j \in 1 .. Len(Whole) /\ j # j + 1
      BY <1>2, <1>3
    <3>2. /\ Len(Whole') = Len(Whole)
          /\ \A k \in 1 .. Len(Whole) :
               Whole'[k] = IF k = j THEN Whole[j + 1]
                           ELSE IF k = j + 1 THEN Whole[j] ELSE Whole[k]
      BY <1>2, <1>5, <1>6
    <3>3. ASSUME NEW s, NEW t, s = Whole, t = Whole', NEW a, NEW b, a = j, b = j + 1
          PROVE  Rearranged(t)
      <4>1. /\ Len(t) = Len(s) /\ a \in 1 .. Len(s) /\ b \in 1 .. Len(s) /\ a # b
            /\ Rearranged(s)
            /\ \A k \in 1 .. Len(s) :
                 t[k] = IF k = a THEN s[b] ELSE IF k = b THEN s[a] ELSE s[k]
        BY <2>1, <3>1, <3>2, <3>3
      <4> QED BY <4>1, RearrangedSwap
    <3> QED BY <3>3
  <2>3. (Rearranged(Whole))' BY <1>1, <2>2 DEF Rearranged
  <2> QED BY <1>5, <2>3 DEF Lists
<1>8. \A k, l \in 1 .. i : k < l /\ k # j /\ l # j =>
        Before(g_memory_map'[k], g_memory_map'[l])
  <2>1. \A k, l \in 1 .. i : k < l /\ k # j + 1 /\ l # j + 1 =>
          Before(g_memory_map[k], g_memory_map[l])
    BY <1>1 DEF Shifting
  <2>2. ASSUME NEW k \in 1 .. i, NEW l \in 1 .. i, k < l, k # j, l # j
        PROVE  Before(g_memory_map'[k], g_memory_map'[l])
    <3>1. k \in 1 .. Map!Num /\ l \in 1 .. Map!Num /\ j \in 1 .. i /\ j # j + 1
      BY <1>2, <1>3
    <3>2. CASE l = j + 1
      <4>1. k < j /\ k # j + 1 BY <1>3, <2>2, <3>2
      <4>2. g_memory_map'[k] = g_memory_map[k] /\ g_memory_map'[l] = g_memory_map[j]
        BY <1>4, <3>1, <3>2, <4>1
      <4> QED BY <2>1, <3>1, <4>1, <4>2
    <3>3. CASE k = j + 1
      <4>1. j < l /\ l # j + 1 BY <1>3, <2>2, <3>3
      <4>2. g_memory_map'[k] = g_memory_map[j] /\ g_memory_map'[l] = g_memory_map[l]
        BY <1>4, <3>1, <3>3, <4>1
      <4> QED BY <2>1, <3>1, <4>1, <4>2
    <3>4. CASE k # j + 1 /\ l # j + 1 BY <1>4, <2>1, <2>2, <3>1, <3>4
    <3> QED BY <3>2, <3>3, <3>4
  <2> QED BY <2>2
<1>9. \A l \in j + 1 .. i : Before(v, g_memory_map'[l])
  <2>1. \A l \in j + 2 .. i : Before(v, g_memory_map[l]) BY <1>1 DEF Shifting
  <2>2. Before(v, g_memory_map[j]) BY <1>2, <1>3, BeforeOrders
  <2>3. ASSUME NEW l \in j + 1 .. i PROVE Before(v, g_memory_map'[l])
    <3>1. l \in 1 .. Map!Num BY <1>2, <1>3
    <3>2. CASE l = j + 1 BY <1>4, <2>2, <3>1, <3>2
    <3>3. CASE l # j + 1
      <4>1. l \in j + 2 .. i BY <1>2, <1>3, <3>3
      <4> QED BY <1>4, <2>1, <3>1, <3>3, <4>1
    <3> QED BY <3>2, <3>3
  <2> QED BY <2>3
<1>10. Shifting'
  <2>1. j' + 1 = j /\ j' + 2 = j + 1 /\ j' \in 0 .. i - 1 BY <1>1, <1>2, <1>3
  <2> QED BY <1>1, <1>2, <1>4, <1>7, <1>8, <1>9, <2>1 DEF Shifting
<1> QED BY <1>1, <1>10 DEF MapInv

(* The entry is inserted where those before it are not smaller and those   *)
(* behind it are not larger.                                               *)
LEMMA MapPlaceElement == ASSUME MapInv, Map!PlaceElement PROVE MapInv'
<1>1. /\ kernel_pc = "shift" /\ ~Map!MustShift
      /\ given' = given /\ kernel_pc' = "sort" /\ i' = i + 1
      /\ g_memory_map' = Whole /\ Shifting /\ given \in Maps
  BY DEF Map!PlaceElement, MapInv, Whole
<1>2. /\ Map!Num \in Nat /\ g_memory_map \in Seq(Map!memory_map_entry)
      /\ \A k \in 1 .. Map!Num : g_memory_map[k] \in Map!memory_map_entry
      /\ v \in Map!memory_map_entry /\ i \in 2 .. Map!Num /\ j \in 0 .. i - 1
      /\ j + 1 \in 1 .. Map!Num
      /\ Whole \in Lists /\ Len(Whole) = Map!Num
      /\ \A k \in 1 .. Map!Num : Whole[k] = IF k = j + 1 THEN v ELSE g_memory_map[k]
  BY <1>1, ShiftingIs
<1>3. Map!Num' = Map!Num BY <1>1, <1>2 DEF Map!Num
<1>4. Lists' = Lists BY <1>1 DEF Lists, Rearranged
<1>5. /\ \A k, l \in 1 .. i : k < l /\ k # j + 1 /\ l # j + 1 =>
           Before(g_memory_map[k], g_memory_map[l])
      /\ \A l \in j + 2 .. i : Before(v, g_memory_map[l])
  BY <1>1 DEF Shifting
<1>6. \A k \in 1 .. j : Before(g_memory_map[k], v)
  <2> SUFFICES ASSUME NEW k \in 1 .. j PROVE Before(g_memory_map[k], v)
    OBVIOUS
  <2>1. j \in 1 .. i /\ k \in 1 .. Map!Num /\ j \in 1 .. Map!Num /\ k \in 1 .. i BY <1>2
  <2>2. Map!less(g_memory_map[j], v) BY <1>1, <2>1 DEF Map!MustShift
  <2>3. Before(g_memory_map[j], v) BY <1>2, <2>1, <2>2, BeforeOrders
  <2>4. CASE k = j BY <2>3, <2>4
  <2>5. CASE k # j
    <3>1. k < j BY <1>2, <2>1, <2>5
    <3>2. Before(g_memory_map[k], g_memory_map[j]) BY <1>2, <1>5, <2>1, <3>1
    <3> QED BY <1>2, <2>1, <2>3, <3>2, BeforeOrders
  <2> QED BY <2>4, <2>5
<1>7. \A k, l \in 1 .. Map!Num : k < l /\ l < i + 1 => Before(Whole[k], Whole[l])
  BY <1>2, <1>5, <1>6
<1>8. Sorting' BY <1>1, <1>2, <1>3, <1>4, <1>7 DEF Sorting
<1> QED BY <1>1, <1>8 DEF MapInv

(* mark_unusable cuts the first entry that starts in the range. *)
LEMMA MapMarks == ASSUME MapInv, Map!MarkBios \/ Map!MarkKernel PROVE MapInv'
<1>1. CASE Map!MarkBios
  <2>1. /\ kernel_pc = "bios" /\ kernel_pc' = "kernel" /\ given' = given /\ given \in Maps
        /\ g_memory_map \in Lists /\ g_memory_map' = Marked(g_memory_map, 0, BiosEnd)
    BY <1>1 DEF Map!MarkBios, MapInv, Map!mark_unusable, Marked
  <2>2. Lists' = Lists BY <2>1 DEF Lists, Rearranged
  <2> QED BY <2>1, <2>2 DEF MapInv
<1>2. CASE Map!MarkKernel
  <2>1. /\ kernel_pc = "kernel" /\ kernel_pc' = "done" /\ given' = given /\ given \in Maps
        /\ g_memory_map' = Marked(g_memory_map, KernelStart, KernelEnd)
    BY <1>2 DEF Map!MarkKernel, MapInv, Map!mark_unusable, Marked
  <2>2. PICK s \in Lists : g_memory_map = Marked(s, 0, BiosEnd) BY <2>1 DEF MapInv
  <2>3. Lists' = Lists BY <2>1 DEF Lists, Rearranged
  <2>4. \E t \in Lists :
          g_memory_map' = Marked(Marked(t, 0, BiosEnd), KernelStart, KernelEnd)
    BY <2>1, <2>2
  <2> QED BY <2>1, <2>3, <2>4 DEF MapInv
<1> QED BY <1>1, <1>2

(* When the sort is done, the whole map is in order and nothing is lost. *)
LEMMA SortedIsOrdered == MapInv => Map!SortOrdersTheMap
<1> SUFFICES ASSUME MapInv, kernel_pc = "bios" PROVE Map!SortOrdersTheMap
  BY DEF Map!SortOrdersTheMap
<1>1. /\ g_memory_map \in Lists /\ given \in Maps
      /\ \A k, l \in 1 .. Map!Num : k < l => Before(g_memory_map[k], g_memory_map[l])
  BY DEF MapInv
<1>2. /\ Map!Num = Len(g_memory_map) /\ DOMAIN g_memory_map = 1 .. Map!Num
      /\ Rearranged(g_memory_map)
      /\ DOMAIN given = 1 .. Len(given)
  BY <1>1, ListsAre, MapsAre DEF Map!Num
<1>3. Map!LargestFirst(g_memory_map) BY <1>1, <1>2 DEF Map!LargestFirst, Before
<1>4. \A e \in {given[k] : k \in DOMAIN given} :
        \E k \in DOMAIN g_memory_map : g_memory_map[k] = e
  <2>1. \A l \in 1 .. Len(given) : \E k \in 1 .. Map!Num : g_memory_map[k] = given[l]
    BY <1>2 DEF Rearranged
  <2> QED BY <1>2, <2>1, Zenon
<1> QED BY <1>3, <1>4 DEF Map!SortOrdersTheMap

(* An entry that reaches to the end of the range is cut without its length *)
(* wrapping.                                                               *)
LEMMA CutIs ==
  ASSUME NEW e \in Map!memory_map_entry, NEW start \in Nat, NEW end \in Nat, start < end,
         e.base = start, e.base + e.length >= end, e.base + e.length < Width
  PROVE  /\ Map!Cut(e, start, end) \in Map!memory_map_entry
         /\ Map!Cut(e, start, end).base = end
         /\ Map!Cut(e, start, end).length = e.base + e.length - end
         /\ Map!Cut(e, start, end).type = e.type
<1> DEFINE n == (e.length - (end - e.base) + Width) % Width
           d == [e EXCEPT !.length = n, !.base = end]
<1>1. Width \in Nat /\ e.base \in Nat /\ e.length \in Nat
  BY MapAssumption, EntryFields DEF Map!MemoryMapAssumption
<1>2. n = e.base + e.length - end /\ n \in Nat
  <2> DEFINE x == e.base + e.length - end
  <2>1. x \in 0 .. Width - 1 BY <1>1
  <2>2. e.length - (end - e.base) + Width = x + Width BY <1>1
  <2> HIDE DEF x
  <2>3. (x + Width) % Width = x BY <1>1, <2>1
  <2> QED BY <2>1, <2>2, <2>3 DEF x
<1>3. Map!Cut(e, start, end) = d BY Zenon DEF Map!Cut
<1> HIDE DEF n
<1>4. d \in Map!memory_map_entry /\ d.base = end /\ d.length = n /\ d.type = e.type
  BY <1>2, Zenon DEF Map!memory_map_entry
<1> HIDE DEF d
<1> QED BY <1>2, <1>3, <1>4

(* The entries of a rearrangement, like those of the map, are not empty    *)
(* and do not overlap.                                                     *)
LEMMA Pieces ==
  ASSUME given \in Maps, NEW s \in Lists
  PROVE  /\ \A k \in 1 .. Len(s) :
              /\ s[k] \in Map!memory_map_entry /\ s[k].base \in Nat /\ s[k].length \in Nat
              /\ s[k].length > 0 /\ s[k].base + s[k].length < Width
         /\ \A k, l \in 1 .. Len(s) : k # l => Map!Frames(s[k]) \cap Map!Frames(s[l]) = {}
<1>1. \A k \in 1 .. Len(s) : \E l \in 1 .. Len(given) : s[k] = given[l]
  BY ListsAre DEF Rearranged
<1>2. \A k, l \in 1 .. Len(s) : k # l => s[k] # s[l]
  BY ListsAre DEF Rearranged
<1>3. ASSUME NEW k \in 1 .. Len(s), NEW l \in 1 .. Len(s), k # l
      PROVE  Map!Frames(s[k]) \cap Map!Frames(s[l]) = {}
  <2>1. PICK a \in 1 .. Len(given) : s[k] = given[a] BY <1>1
  <2>2. PICK b \in 1 .. Len(given) : s[l] = given[b] BY <1>1
  <2>3. a # b BY <1>2, <1>3, <2>1, <2>2
  <2> QED BY <2>1, <2>2, <2>3, MapsAre
<1>4. ASSUME NEW k \in 1 .. Len(s)
      PROVE  /\ s[k] \in Map!memory_map_entry /\ s[k].base \in Nat /\ s[k].length \in Nat
             /\ s[k].length > 0 /\ s[k].base + s[k].length < Width
  <2>1. PICK a \in 1 .. Len(given) : s[k] = given[a] BY <1>1
  <2> QED BY <2>1, MapsAre
<1> QED BY <1>3, <1>4

(* If the marking can express the range, an entry that starts in it, or is *)
(* usable and meets it, begins with it and reaches to its end; only one    *)
(* entry starts in it.                                                     *)
LEMMA CuttableIs ==
  ASSUME given \in Maps, NEW s \in Lists, NEW start \in Nat, NEW end \in Nat,
         Map!Cuttable(start, end)
  PROVE  /\ \A k \in 1 .. Len(s) :
              /\ Map!StartsIn(s[k], start, end) =>
                   s[k].base = start /\ s[k].base + s[k].length >= end
              /\ \A x \in start .. end - 1 : Map!Usable(s[k]) /\ x \in Map!Frames(s[k]) =>
                   s[k].base = start /\ s[k].base + s[k].length >= end
         /\ \A k, l \in 1 .. Len(s) :
              Map!StartsIn(s[k], start, end) /\ Map!StartsIn(s[l], start, end) => k = l
<1>1. ASSUME NEW k \in 1 .. Len(s), NEW x \in start .. end - 1, x \in Map!Frames(s[k]),
             Map!Usable(s[k]) \/ Map!StartsIn(s[k], start, end)
      PROVE  s[k].base = start /\ s[k].base + s[k].length >= end
  <2>1. PICK l \in 1 .. Len(given) : s[k] = given[l] BY ListsAre DEF Rearranged
  <2>2. l \in DOMAIN given BY MapsAre
  <2>3. Map!Frames(given[l]) \cap (start .. end - 1) # {} BY <1>1, <2>1
  <2> QED BY <1>1, <2>1, <2>2, <2>3 DEF Map!Cuttable
<1>2. ASSUME NEW k \in 1 .. Len(s), Map!StartsIn(s[k], start, end)
      PROVE  /\ s[k].base \in Map!Frames(s[k]) /\ s[k].base \in start .. end - 1
             /\ s[k].base = start /\ s[k].base + s[k].length >= end
  <2>1. s[k].base \in Map!Frames(s[k]) /\ s[k].base \in start .. end - 1
    BY <1>2, Pieces DEF Map!Frames, Map!StartsIn
  <2> QED BY <1>1, <1>2, <2>1
<1>3. ASSUME NEW k \in 1 .. Len(s), NEW l \in 1 .. Len(s),
             Map!StartsIn(s[k], start, end), Map!StartsIn(s[l], start, end)
      PROVE  k = l
  <2>1. start \in Map!Frames(s[k]) /\ start \in Map!Frames(s[l]) BY <1>2, <1>3
  <2> QED BY <2>1, Pieces
<1> QED BY <1>1, <1>2, <1>3

(* If only one entry starts in the range, mark_unusable cuts exactly that  *)
(* one.                                                                    *)
LEMMA MarkedIs ==
  ASSUME NEW s, NEW n \in Nat, DOMAIN s = 1 .. n, NEW start, NEW end,
         \A k, l \in 1 .. n :
           Map!StartsIn(s[k], start, end) /\ Map!StartsIn(s[l], start, end) => k = l
  PROVE  /\ DOMAIN Marked(s, start, end) = 1 .. n
         /\ \A k \in 1 .. n :
              Marked(s, start, end)[k] =
                IF Map!StartsIn(s[k], start, end) THEN Map!Cut(s[k], start, end) ELSE s[k]
<1>1. ASSUME NEW k \in 1 .. n, Map!StartsIn(s[k], start, end), NEW l \in 1 .. k - 1
      PROVE  ~Map!StartsIn(s[l], start, end)
  <2>1. l \in 1 .. n /\ l # k OBVIOUS
  <2> QED BY <1>1, <2>1
<1>2. DOMAIN Marked(s, start, end) = 1 .. n BY DEF Marked
<1>3. ASSUME NEW k \in 1 .. n
      PROVE  Marked(s, start, end)[k] =
                IF Map!StartsIn(s[k], start, end) THEN Map!Cut(s[k], start, end) ELSE s[k]
  BY <1>1 DEF Marked
<1> QED BY <1>2, <1>3

(* The memory of the BIOS and of the kernel. *)
Taken == (0 .. BiosEnd - 1) \cup (KernelStart .. KernelEnd - 1)
(* A range less its beginning. *)
LEMMA RestOfRange ==
  ASSUME NEW b \in Nat, NEW n \in Nat, NEW end \in Nat, b <= end, end <= b + n
  PROVE  end .. end + (b + n - end) - 1 = (b .. b + n - 1) \ (b .. end - 1)
OBVIOUS

(* After both marks each entry has its frames less those of the BIOS and   *)
(* of the kernel: the first cut moves no entry into the second range.      *)
LEMMA TwoMarks ==
  ASSUME given \in Maps, NEW s \in Lists, Map!Cuttable(0, BiosEnd),
         Map!Cuttable(KernelStart, KernelEnd),
         NEW f, f = Marked(Marked(s, 0, BiosEnd), KernelStart, KernelEnd)
  PROVE  /\ DOMAIN f = 1 .. Len(s)
         /\ \A k \in 1 .. Len(s) :
              /\ Map!Usable(f[k]) <=> Map!Usable(s[k])
              /\ Map!Usable(s[k]) => Map!Frames(f[k]) = Map!Frames(s[k]) \ Taken
<1> DEFINE m == Marked(s, 0, BiosEnd)
<1>1. /\ BiosEnd \in Nat /\ KernelStart \in Nat /\ KernelEnd \in Nat /\ Width \in Nat
      /\ 0 < BiosEnd /\ BiosEnd < KernelStart /\ KernelStart < KernelEnd
  BY MapAssumption DEF Map!MemoryMapAssumption
<1>2. DOMAIN s = 1 .. Len(s) /\ Len(s) \in Nat BY ListsAre
<1>3. /\ DOMAIN m = 1 .. Len(s)
      /\ \A k \in 1 .. Len(s) :
           m[k] = IF Map!StartsIn(s[k], 0, BiosEnd) THEN Map!Cut(s[k], 0, BiosEnd) ELSE s[k]
  BY <1>1, <1>2, CuttableIs, MarkedIs
<1> HIDE DEF m
<1>4. ASSUME NEW k \in 1 .. Len(s)
      PROVE  /\ Map!StartsIn(m[k], KernelStart, KernelEnd) =>
                  m[k] = s[k] /\ Map!StartsIn(s[k], KernelStart, KernelEnd)
             /\ Map!StartsIn(s[k], 0, BiosEnd) =>
                  /\ s[k].base = 0 /\ s[k].length >= BiosEnd
                  /\ m[k] \in Map!memory_map_entry /\ m[k].type = s[k].type /\ m[k].base = BiosEnd
                  /\ m[k].length = s[k].length - BiosEnd
             /\ ~Map!StartsIn(s[k], 0, BiosEnd) => m[k] = s[k]
  <2>1. CASE Map!StartsIn(s[k], 0, BiosEnd)
    <3>1. s[k].base = 0 /\ s[k].base + s[k].length >= BiosEnd
      BY <1>1, <2>1, CuttableIs
    <3>2. /\ s[k] \in Map!memory_map_entry /\ s[k].length \in Nat
          /\ s[k].base + s[k].length < Width
      BY Pieces
    <3>3. m[k] = Map!Cut(s[k], 0, BiosEnd) BY <1>3, <2>1
    <3>4. /\ m[k] \in Map!memory_map_entry /\ m[k].type = s[k].type /\ m[k].base = BiosEnd
          /\ m[k].length = s[k].base + s[k].length - BiosEnd
      BY <1>1, <3>1, <3>2, <3>3, CutIs
    <3> QED BY <1>1, <2>1, <3>1, <3>2, <3>4 DEF Map!StartsIn
  <2>2. CASE ~Map!StartsIn(s[k], 0, BiosEnd) BY <1>3, <2>2
  <2> QED BY <2>1, <2>2
<1>5. \A k, l \in 1 .. Len(s) :
        /\ Map!StartsIn(m[k], KernelStart, KernelEnd)
        /\ Map!StartsIn(m[l], KernelStart, KernelEnd)
        => k = l
  BY <1>1, <1>4, CuttableIs
<1>6. /\ DOMAIN f = 1 .. Len(s)
      /\ \A k \in 1 .. Len(s) :
           f[k] = IF Map!StartsIn(m[k], KernelStart, KernelEnd)
                  THEN Map!Cut(m[k], KernelStart, KernelEnd) ELSE m[k]
  BY <1>2, <1>3, <1>5, MarkedIs DEF m
<1>7. ASSUME NEW k \in 1 .. Len(s)
      PROVE  /\ Map!Usable(f[k]) <=> Map!Usable(s[k])
             /\ Map!Usable(s[k]) => Map!Frames(f[k]) = Map!Frames(s[k]) \ Taken
  <2>0. /\ s[k] \in Map!memory_map_entry /\ s[k].base \in Nat /\ s[k].length \in Nat
        /\ s[k].length > 0 /\ s[k].base + s[k].length < Width
    BY Pieces
  <2>1. /\ \A x \in 0 .. BiosEnd - 1 : Map!Usable(s[k]) /\ x \in Map!Frames(s[k]) =>
             s[k].base = 0 /\ s[k].base + s[k].length >= BiosEnd
        /\ \A x \in KernelStart .. KernelEnd - 1 : Map!Usable(s[k]) /\ x \in Map!Frames(s[k]) =>
             s[k].base = KernelStart /\ s[k].base + s[k].length >= KernelEnd
    BY <1>1, CuttableIs
  <2>2. CASE Map!StartsIn(m[k], KernelStart, KernelEnd)
    <3>1. m[k] = s[k] /\ Map!StartsIn(s[k], KernelStart, KernelEnd) BY <1>4, <2>2
    <3>2. s[k].base = KernelStart /\ s[k].base + s[k].length >= KernelEnd
      BY <1>1, <3>1, CuttableIs
    <3>3. f[k] = Map!Cut(s[k], KernelStart, KernelEnd) BY <1>6, <2>2, <3>1
    <3>4. /\ f[k].type = s[k].type /\ f[k].base = KernelEnd
          /\ f[k].length = s[k].base + s[k].length - KernelEnd
      BY <1>1, <2>0, <3>2, <3>3, CutIs
    <3>5. \A x \in Map!Frames(s[k]) : x \in Int /\ x \notin 0 .. BiosEnd - 1
      BY <1>1, <2>0, <3>2 DEF Map!Frames
    <3>6. Map!Frames(f[k]) = Map!Frames(s[k]) \ (KernelStart .. KernelEnd - 1)
      <4>1. /\ s[k].base = KernelStart
            /\ KernelStart <= KernelEnd /\ KernelEnd <= KernelStart + s[k].length
            /\ f[k].base = KernelEnd /\ f[k].length = KernelStart + s[k].length - KernelEnd
        BY <1>1, <2>0, <3>2, <3>4
      <4>2. /\ Map!Frames(f[k]) =
                KernelEnd .. KernelEnd + (KernelStart + s[k].length - KernelEnd) - 1
            /\ Map!Frames(s[k]) = KernelStart .. KernelStart + s[k].length - 1
        BY <4>1 DEF Map!Frames
      <4>3. PICK n \in Nat : n = s[k].length BY <2>0
      <4>4. KernelEnd .. KernelEnd + (KernelStart + n - KernelEnd) - 1
              = (KernelStart .. KernelStart + n - 1) \ (KernelStart .. KernelEnd - 1)
        <5>1. KernelStart <= KernelEnd /\ KernelEnd <= KernelStart + n BY <1>1, <4>1, <4>3
        <5> QED BY <1>1, <5>1, RestOfRange
      <4> QED BY <4>2, <4>3, <4>4, Zenon
    <3> QED BY <3>4, <3>5, <3>6 DEF Map!Usable, Taken
  <2>3. CASE ~Map!StartsIn(m[k], KernelStart, KernelEnd)
    <3>1. f[k] = m[k] BY <1>6, <2>3
    <3>2. CASE Map!StartsIn(s[k], 0, BiosEnd)
      <4>1. /\ s[k].base = 0 /\ s[k].length >= BiosEnd /\ f[k].type = s[k].type
            /\ f[k].base = BiosEnd /\ f[k].length = s[k].length - BiosEnd
        BY <1>4, <3>1, <3>2
      <4>2. Map!Usable(s[k]) => \A x \in KernelStart .. KernelEnd - 1 : x \notin Map!Frames(s[k])
        BY <1>1, <2>1, <4>1
      <4>3. Map!Frames(f[k]) = Map!Frames(s[k]) \ (0 .. BiosEnd - 1)
        <5>1. /\ s[k].base = 0
              /\ 0 <= BiosEnd /\ BiosEnd <= 0 + s[k].length
              /\ f[k].base = BiosEnd /\ f[k].length = 0 + s[k].length - BiosEnd
          BY <1>1, <2>0, <4>1
        <5>2. /\ Map!Frames(f[k]) = BiosEnd .. BiosEnd + (0 + s[k].length - BiosEnd) - 1
              /\ Map!Frames(s[k]) = 0 .. 0 + s[k].length - 1
          BY <5>1 DEF Map!Frames
        <5>3. PICK n \in Nat : n = s[k].length BY <2>0
        <5>4. BiosEnd .. BiosEnd + (0 + n - BiosEnd) - 1 = (0 .. 0 + n - 1) \ (0 .. BiosEnd - 1)
          BY <1>1, <5>1, <5>3, RestOfRange
        <5> QED BY <5>2, <5>3, <5>4, Zenon
      <4> QED BY <4>1, <4>2, <4>3 DEF Map!Usable, Taken
    <3>3. CASE ~Map!StartsIn(s[k], 0, BiosEnd)
      <4>1. f[k] = s[k] BY <1>4, <3>1, <3>3
      <4>2. \A x \in 0 .. BiosEnd - 1 : Map!Usable(s[k]) => x \notin Map!Frames(s[k])
        BY <1>1, <2>0, <2>1, <3>3 DEF Map!StartsIn
      <4>3. \A x \in KernelStart .. KernelEnd - 1 : Map!Usable(s[k]) => x \notin Map!Frames(s[k])
        BY <1>1, <2>0, <2>1, <2>3, <3>1, <4>1 DEF Map!StartsIn
      <4> QED BY <4>1, <4>2, <4>3 DEF Taken
    <3> QED BY <3>2, <3>3
  <2> QED BY <2>2, <2>3
<1> QED BY <1>6, <1>7

(* The usable frames of the marked map are those of the given one, less    *)
(* the two ranges.                                                         *)
LEMMA MarkedIsLost == MapInv => Map!OnlyReservedIsLost
<1> SUFFICES ASSUME MapInv, kernel_pc = "done", Map!Cuttable(0, BiosEnd),
                    Map!Cuttable(KernelStart, KernelEnd)
             PROVE  Map!UsableFrames(g_memory_map) = Map!UsableFrames(given) \ Taken
  BY DEF Map!OnlyReservedIsLost, Taken
<1>1. PICK s \in Lists :
        g_memory_map = Marked(Marked(s, 0, BiosEnd), KernelStart, KernelEnd)
  BY DEF MapInv
<1>2. given \in Maps BY DEF MapInv
<1>3. /\ DOMAIN g_memory_map = 1 .. Len(s)
      /\ \A k \in 1 .. Len(s) :
           /\ Map!Usable(g_memory_map[k]) <=> Map!Usable(s[k])
           /\ Map!Usable(s[k]) => Map!Frames(g_memory_map[k]) = Map!Frames(s[k]) \ Taken
  BY <1>1, <1>2, TwoMarks
<1>4. /\ \A k \in 1 .. Len(s) : \E l \in 1 .. Len(given) : s[k] = given[l]
      /\ \A l \in 1 .. Len(given) : \E k \in 1 .. Len(s) : s[k] = given[l]
      /\ DOMAIN given = 1 .. Len(given)
  BY <1>2, ListsAre, MapsAre DEF Rearranged
<1>5. ASSUME NEW x, x \in Map!UsableFrames(g_memory_map)
      PROVE  x \in Map!UsableFrames(given) \ Taken
  <2>1. PICK k \in 1 .. Len(s) : Map!Usable(g_memory_map[k]) /\ x \in Map!Frames(g_memory_map[k])
    BY <1>3, <1>5 DEF Map!UsableFrames
  <2>2. Map!Usable(s[k]) /\ x \in Map!Frames(s[k]) /\ x \notin Taken BY <1>3, <2>1
  <2>3. PICK l \in 1 .. Len(given) : s[k] = given[l] BY <1>4
  <2> QED BY <1>4, <2>2, <2>3 DEF Map!UsableFrames
<1>6. ASSUME NEW x, x \in Map!UsableFrames(given) \ Taken
      PROVE  x \in Map!UsableFrames(g_memory_map)
  <2>1. PICK l \in 1 .. Len(given) : Map!Usable(given[l]) /\ x \in Map!Frames(given[l])
    BY <1>4, <1>6 DEF Map!UsableFrames
  <2>2. PICK k \in 1 .. Len(s) : s[k] = given[l] BY <1>4
  <2>3. Map!Usable(g_memory_map[k]) /\ x \in Map!Frames(g_memory_map[k]) BY <1>3, <1>6, <2>1, <2>2
  <2> QED BY <1>3, <2>3 DEF Map!UsableFrames
<1> QED BY <1>5, <1>6

(* The kernel sorts and marks a map of the boot loader; before it is       *)
(* entered there is none.                                                  *)
BootInv ==
  /\ MapInv
  /\ stage # "kernel" => kernel_pc = "init"
  /\ stage = "kernel" => given \in Maps

(* No step of the boot breaks it. *)
LEMMA BootMapStep == ASSUME BootInv, [Next]_vars PROVE BootInv'
<1>1. CASE EnterKernel
  <2>1. kernel_pc' = "init" /\ given' \in Maps /\ stage' = "kernel"
    BY <1>1 DEF EnterKernel, BootInv
  <2> QED BY <2>1 DEF BootInv, MapInv
<1>2. CASE KernelStep
  <2>1. /\ stage = "kernel" /\ stage' = "kernel" /\ given \in Maps /\ MapInv
        /\ \/ Map!early_init \/ Map!NextElement \/ Map!ShiftElement \/ Map!PlaceElement
           \/ Map!MarkBios \/ Map!MarkKernel
    BY <1>2 DEF KernelStep, BootInv
  <2>2. given' = given
    BY <2>1 DEF Map!early_init, Map!NextElement, Map!ShiftElement, Map!PlaceElement,
                Map!MarkBios, Map!MarkKernel
  <2>3. MapInv'
    BY <2>1, MapEarlyInit, MapNextElement, MapShiftElement, MapPlaceElement, MapMarks
  <2> QED BY <2>1, <2>2, <2>3 DEF BootInv
<1>3. CASE LoaderStep \/ StartCall \/ WriteEntry \/ Stopped \/ UNCHANGED vars
  <2>1. UNCHANGED <<stage, map_vars>>
    BY <1>3 DEF LoaderStep, StartCall, WriteEntry, Stopped, vars
  <2>2. /\ stage' = stage /\ given' = given /\ g_memory_map' = g_memory_map
        /\ kernel_pc' = kernel_pc /\ i' = i /\ j' = j /\ v' = v
    BY <2>1 DEF map_vars
  <2>3. Lists' = Lists /\ Whole' = Whole /\ Map!Num' = Map!Num
    BY <2>2 DEF Lists, Rearranged, Whole, Map!Num
  <2>4. Sorting => Sorting' BY <2>2, <2>3 DEF Sorting
  <2>5. Shifting => Shifting' BY <2>2, <2>3 DEF Shifting
  <2>6. MapInv' BY <2>2, <2>3, <2>4, <2>5 DEF BootInv, MapInv
  <2> QED BY <2>2, <2>6 DEF BootInv
<1>4. CASE StartPaging
  <2>1. stage = "loader" /\ stage' = "paging" /\ UNCHANGED map_vars BY <1>4 DEF StartPaging
  <2>2. kernel_pc = "init" /\ kernel_pc' = "init" BY <2>1 DEF BootInv, map_vars
  <2> QED BY <2>1, <2>2 DEF BootInv, MapInv
<1> QED BY <1>1, <1>2, <1>3, <1>4 DEF Next

(* It holds from the start on. *)
LEMMA BootMapAlways == Spec => []BootInv
<1>1. Init => BootInv BY DEF Init, BootInv, MapInv
<1> QED BY <1>1, BootMapStep, PTL DEF Spec

(* Whatever map the boot loader hands over, when insertion_sort is done    *)
(* the usable regions come first, the largest at the front, and every      *)
(* region is still there.                                                  *)
THEOREM BootSortOrdersTheMap == Spec => []SortOrdersTheMap
<1>1. BootInv => SortOrdersTheMap BY SortedIsOrdered DEF BootInv, SortOrdersTheMap
<1> QED BY <1>1, BootMapAlways, PTL

(* Whatever map the boot loader hands over, of the kind the marking can    *)
(* express, the memory left usable is the usable memory less that of the   *)
(* BIOS and of the kernel.                                                 *)
THEOREM BootOnlyReservedIsLost == Spec => []OnlyReservedIsLost
<1>1. BootInv => OnlyReservedIsLost BY MarkedIsLost DEF BootInv, OnlyReservedIsLost
<1> QED BY <1>1, BootMapAlways, PTL

-----------------------------------------------------------------------------
(* The low memory: from address a on it holds nothing of the loader's. *)
Unused(m, a) ==
  \A s \in DOMAIN m : s * BytesPerSector >= a => m[s] \in {Loader!Junk, Loader!Zero}

(* What the loader has written is below the place it writes to next, or    *)
(* below what it has allocated, and each table is read to its own pages.   *)
Allocating == {"map_page", "map", "root_pages", "fat_pages", "root", "fat", "scan",
               "kernel_pages"}
LoaderAt ==
  /\ map_entries \in Nat
  /\ loader_pc \in {"stage1", "stage2"} => ebx \in Nat /\ Unused(mem, ebx)
  /\ loader_pc \in Allocating => avail_mem_start \in Nat /\ Unused(mem, avail_mem_start)
  /\ loader_pc = "map" => map_base \in Nat /\ map_base + PageBytes = avail_mem_start
  /\ loader_pc = "fat_pages" =>
       /\ root_dir_table \in Nat
       /\ root_dir_table + BytesPerSector * Loader!root_dir_sectors < avail_mem_start
  /\ loader_pc = "root" =>
       /\ fat_table \in Nat /\ fat_table + BytesPerSector * SectorsPerFat < avail_mem_start
  /\ loader_pc \in {"root", "fat"} =>
       /\ ebx \in Nat /\ ax \in Int /\ ebx < avail_mem_start
       /\ ax > 1 => ebx + BytesPerSector * ax < avail_mem_start
  /\ loader_pc \in {"cluster", "tables"} =>
       kernel_load_end \in Nat /\ Unused(mem, kernel_load_end)
  /\ loader_pc = "done" => page_tables_start \in Nat /\ Unused(mem, page_tables_start)

(* The page tables follow the image. *)
LowInv ==
  /\ stage \in {"loader", "paging", "kernel"}
  /\ stage # "kernel" =>
       /\ low_mem_size \in Nat /\ mem = [s \in Loader!Slots |-> mem[s]]
  /\ stage = "loader" => LoaderAt /\ last = 0
  /\ stage = "paging" =>
       /\ loader_pc = "done" /\ last \in Nat /\ page_tables_start \in Nat
       /\ Unused(mem, page_tables_end(last))

(* The sizes are numbers. *)
LEMMA LoaderConstants ==
  /\ BytesPerSector \in Nat \ {0} /\ SectorsPerFat \in Nat \ {0} /\ RootEntries \in Nat \ {0}
  /\ EntryBytes \in Nat \ {0} /\ PageBytes \in Nat \ {0} /\ Stage2Base \in Nat
  /\ LowMems \subseteq Nat /\ MapEntryBytes \in Nat \ {0} /\ MaxMapEntries \in Nat \ {0}
  /\ MaxMapEntries * MapEntryBytes <= PageBytes
BY BootAssumption DEF BootAssumption, Loader!Fat12Assumption, Loader!BootDiskAssumption

(* Addresses are in the slots that begin at or below them. *)
LEMMA SlotBelow ==
  ASSUME NEW a \in Nat
  PROVE  Loader!Slot(a) \in Nat /\ Loader!Slot(a) * BytesPerSector <= a
<1>1. BytesPerSector \in Nat \ {0} BY LoaderConstants
<1>2. PICK q \in Nat, r \in 0 .. BytesPerSector - 1 :
        q = a \div BytesPerSector /\ a = q * BytesPerSector + r
  BY <1>1
<1>3. q * BytesPerSector \in Nat BY <1>1, <1>2
<1> QED BY <1>1, <1>2, <1>3 DEF Loader!Slot

(* The pages allocated for some bytes hold them. *)
LEMMA PagesForHolds ==
  ASSUME NEW b \in Nat
  PROVE  Loader!PagesFor(b) \in Nat /\ Loader!PagesFor(b) * PageBytes > b
         /\ Loader!PagesFor(b) * PageBytes \in Nat
<1>1. PageBytes \in Nat \ {0} BY LoaderConstants
<1>2. PICK q \in Nat, r \in 0 .. PageBytes - 1 :
        q = b \div PageBytes /\ b = q * PageBytes + r
  BY <1>1
<1>3. (q + 1) * PageBytes = q * PageBytes + PageBytes /\ q * PageBytes \in Nat BY <1>1, <1>2
<1> QED BY <1>1, <1>2, <1>3 DEF Loader!PagesFor

(* So do those behind the end of what is used. *)
LEMMA AlignUpIsAbove ==
  ASSUME NEW a \in Nat PROVE Loader!AlignUp(a) \in Nat /\ Loader!AlignUp(a) > a
<1>1. PageBytes \in Nat \ {0} BY LoaderConstants
<1>2. PICK q \in Nat, r \in 0 .. PageBytes - 1 :
        q = a \div PageBytes /\ a = q * PageBytes + r
  BY <1>1
<1>3. q * PageBytes \in Nat BY <1>1, <1>2
<1> QED BY <1>1, <1>2, <1>3 DEF Loader!AlignUp

(* Memory is unused from any higher address on too. *)
LEMMA UnusedAbove ==
  ASSUME stage # "kernel", LowInv, NEW a \in Nat, NEW b \in Nat, a <= b, Unused(mem, a)
  PROVE  Unused(mem, b)
<1>1. DOMAIN mem = Loader!Slots /\ low_mem_size \in Nat BY DEF LowInv
<1>2. BytesPerSector \in Nat \ {0} BY LoaderConstants
<1>3. \A s \in DOMAIN mem : s \in Nat /\ s * BytesPerSector \in Nat
  <2>1. Loader!Slot(low_mem_size) \in Nat BY <1>1, SlotBelow
  <2>2. Loader!Slots \subseteq Nat BY <2>1 DEF Loader!Slots
  <2>3. \A s \in Nat : s * BytesPerSector \in Nat BY <1>2
  <2> QED BY <1>1, <2>2, <2>3
<1> QED BY <1>3 DEF Unused

(* A slot that is written below a leaves the memory from a on unused. *)
LEMMA WriteBelow ==
  ASSUME stage # "kernel", LowInv, NEW a \in Nat, NEW x, NEW at \in Nat, at < a,
         Unused(mem, a), mem' = [mem EXCEPT ![Loader!Slot(at)] = x],
         low_mem_size' = low_mem_size
  PROVE  Unused(mem', a) /\ mem' = [s \in Loader!Slots' |-> mem'[s]]
<1>1. mem = [s \in Loader!Slots |-> mem[s]] BY DEF LowInv
<1>2. DOMAIN mem' = DOMAIN mem /\ Loader!Slots' = Loader!Slots
  BY <1>1 DEF Loader!Slots, Loader!Slot
<1>3. Loader!Slot(at) \in Nat /\ Loader!Slot(at) * BytesPerSector < a
  <2>1. BytesPerSector \in Nat BY LoaderConstants
  <2>2. Loader!Slot(at) * BytesPerSector \in Nat BY <2>1, SlotBelow
  <2> QED BY <2>2, SlotBelow
<1>4. \A s \in DOMAIN mem : s * BytesPerSector >= a => mem'[s] = mem[s]
  <2>1. BytesPerSector \in Nat BY LoaderConstants
  <2>2. PICK w \in Nat : w = Loader!Slot(at) * BytesPerSector BY <1>3, <2>1
  <2> QED BY <1>1, <1>3, <2>2
<1> QED BY <1>1, <1>2, <1>4 DEF Unused
(* So does clearing memory, wherever it is. *)
LEMMA ClearKeeps ==
  ASSUME stage # "kernel", LowInv, NEW a, NEW C,
         Unused(mem, a), low_mem_size' = low_mem_size,
         mem' = [s \in Loader!Slots |-> IF s \in C THEN Loader!Zero ELSE mem[s]]
  PROVE  Unused(mem', a) /\ mem' = [s \in Loader!Slots' |-> mem'[s]]
<1>1. mem = [s \in Loader!Slots |-> mem[s]] /\ DOMAIN mem = Loader!Slots BY DEF LowInv
<1>2. Loader!Slots' = Loader!Slots BY DEF Loader!Slots, Loader!Slot
<1>3. \A s \in DOMAIN mem : mem'[s] \in {mem[s], Loader!Zero} BY <1>1
<1> QED BY <1>1, <1>2, <1>3 DEF Unused

-----------------------------------------------------------------------------
(* The loader has written nothing before its first step. *)
LEMMA LowInit == ASSUME Init PROVE LowInv
<1>1. low_mem_size \in Nat BY LoaderConstants DEF Init, Loader!Init
<1>2. mem = [s \in Loader!Slots |-> Loader!Junk] BY DEF Init, Loader!Init
<1>3. LoaderAt
  BY <1>2, LoaderConstants DEF Init, Loader!Init, LoaderAt, Unused, Allocating
<1> QED BY <1>1, <1>2, <1>3 DEF Init, Loader!Init, Paging!Init, LowInv

(* Reading a sector of stage 2 to the end of what was read. *)
LEMMA LowStage1 ==
  ASSUME stage = "loader", LowInv, Loader!Stage1, UNCHANGED <<stage, last>> PROVE LowInv'
<1>1. ebx \in Nat /\ Unused(mem, ebx) /\ map_entries \in Nat
  BY DEF LowInv, LoaderAt, Loader!Stage1
<1>2. BytesPerSector \in Nat \ {0} BY LoaderConstants
<1>3. ebx' = ebx + BytesPerSector /\ ebx' \in Nat /\ ebx < ebx' BY <1>1, <1>2 DEF Loader!Stage1
<1>4. Unused(mem, ebx + BytesPerSector) BY <1>1, <1>2, UnusedAbove
<1>5. mem' = [mem EXCEPT ![Loader!Slot(ebx)] = Loader!SectorRead(cx)]
      /\ low_mem_size' = low_mem_size
  BY DEF Loader!Stage1, Loader!read_floppy_sector
<1>6. Unused(mem', ebx + BytesPerSector) /\ mem' = [s \in Loader!Slots' |-> mem'[s]]
  <2>1. ebx + BytesPerSector \in Nat /\ ebx < ebx + BytesPerSector BY <1>1, <1>2
  <2> QED BY <1>1, <1>4, <1>5, <2>1, WriteBelow
<1> QED BY <1>1, <1>3, <1>5, <1>6 DEF LowInv, LoaderAt, Loader!Stage1, Allocating, Loader!tables
(* Giving the memory behind stage 2 to the allocator. *)
LEMMA LowStage2 ==
  ASSUME stage = "loader", LowInv, Loader!Stage2, UNCHANGED <<stage, last>> PROVE LowInv'
<1>1. ebx \in Nat /\ Unused(mem, ebx) /\ map_entries \in Nat
  BY DEF LowInv, LoaderAt, Loader!Stage2
<1>2. Loader!AlignUp(ebx) \in Nat /\ ebx <= Loader!AlignUp(ebx) BY <1>1, AlignUpIsAbove
<1>3. Unused(mem, Loader!AlignUp(ebx)) BY <1>1, <1>2, UnusedAbove
<1>4. Unused(mem', Loader!AlignUp(ebx)) /\ mem' = [s \in Loader!Slots' |-> mem'[s]]
  BY <1>3, ClearKeeps DEF Loader!Stage2
<1> QED
  BY <1>1, <1>2, <1>4 DEF LowInv, LoaderAt, Loader!Stage2, Allocating, Loader!tables

(* allocate_pages: the memory behind the pages is as unused as before. *)
LEMMA LowAllocate ==
  ASSUME stage = "loader", LowInv, loader_pc \in Allocating, NEW n \in Nat,
         Loader!allocate_pages(n), low_mem_size' = low_mem_size
  PROVE  /\ avail_mem_start \in Nat /\ n * PageBytes \in Nat
         /\ avail_mem_start' = avail_mem_start + n * PageBytes
         /\ Unused(mem', avail_mem_start')
         /\ mem' = [s \in Loader!Slots' |-> mem'[s]]
<1>1. avail_mem_start \in Nat /\ Unused(mem, avail_mem_start) BY DEF LowInv, LoaderAt
<1>2. n * PageBytes \in Nat BY LoaderConstants
<1>3. avail_mem_start' = avail_mem_start + n * PageBytes BY DEF Loader!allocate_pages
<1>4. avail_mem_start' \in Nat /\ avail_mem_start <= avail_mem_start' BY <1>1, <1>2, <1>3
<1>5. Unused(mem, avail_mem_start') BY <1>1, <1>4, UnusedAbove
<1>6. Unused(mem', avail_mem_start') /\ mem' = [s \in Loader!Slots' |-> mem'[s]]
  BY <1>5, ClearKeeps DEF Loader!allocate_pages
<1> QED BY <1>1, <1>2, <1>3, <1>6

(* The page of the memory map. *)
LEMMA LowAllocateMap ==
  ASSUME stage = "loader", LowInv, Loader!AllocateMap, UNCHANGED <<stage, last>> PROVE LowInv'
<1>1. Loader!allocate_pages(1) /\ loader_pc \in Allocating /\ low_mem_size' = low_mem_size
  BY DEF Loader!AllocateMap, Allocating
<1>2. /\ avail_mem_start \in Nat /\ avail_mem_start' = avail_mem_start + 1 * PageBytes
      /\ Unused(mem', avail_mem_start') /\ mem' = [s \in Loader!Slots' |-> mem'[s]]
  BY <1>1, LowAllocate
<1>3. avail_mem_start' = avail_mem_start + PageBytes /\ avail_mem_start' \in Nat
  BY <1>2, LoaderConstants
<1> QED
  BY <1>2, <1>3 DEF LowInv, LoaderAt, Loader!AllocateMap, Allocating
(* Every entry of the memory map is in that page. *)
LEMMA LowBuildMap ==
  ASSUME stage = "loader", LowInv, Loader!BuildMap, UNCHANGED <<stage, last>> PROVE LowInv'
<1>1. /\ map_entries \in Nat /\ map_base \in Nat /\ map_entries < MaxMapEntries
      /\ avail_mem_start \in Nat /\ Unused(mem, avail_mem_start)
      /\ avail_mem_start = map_base + PageBytes
  BY DEF LowInv, LoaderAt, Loader!BuildMap, Allocating
<1>2. map_entries * MapEntryBytes \in Nat /\ map_entries * MapEntryBytes < PageBytes
  <2>1. /\ MapEntryBytes \in Nat \ {0} /\ MaxMapEntries \in Nat \ {0} /\ PageBytes \in Nat
        /\ MaxMapEntries * MapEntryBytes <= PageBytes
    BY LoaderConstants
  <2>2. PICK d \in Nat : MaxMapEntries = map_entries + 1 + d
    <3>1. MaxMapEntries - map_entries - 1 \in Nat BY <1>1, <2>1
    <3> QED BY <1>1, <2>1, <3>1
  <2>3. MaxMapEntries * MapEntryBytes
          = map_entries * MapEntryBytes + MapEntryBytes + d * MapEntryBytes
    BY <1>1, <2>1, <2>2
  <2>4. map_entries * MapEntryBytes \in Nat /\ d * MapEntryBytes \in Nat
    BY <1>1, <2>1, <2>2
  <2> QED BY <2>1, <2>3, <2>4
<1>3. PICK at \in Nat : at = map_base + map_entries * MapEntryBytes /\ at < avail_mem_start
  <2>1. PageBytes \in Nat BY LoaderConstants
  <2> QED BY <1>1, <1>2, <2>1
<1>4. mem' = [mem EXCEPT ![Loader!Slot(at)] = Loader!MapEntry] /\ low_mem_size' = low_mem_size
  BY <1>3 DEF Loader!BuildMap
<1>5. Unused(mem', avail_mem_start) /\ mem' = [s \in Loader!Slots' |-> mem'[s]]
  BY <1>1, <1>3, <1>4, WriteBelow
<1> QED
  BY <1>1, <1>5 DEF LowInv, LoaderAt, Loader!BuildMap, Allocating, Loader!regs

(* The directory and the table have a number of sectors. *)
LEMMA RootSectorsIsNat ==
  Loader!root_dir_sectors \in Nat /\ BytesPerSector * Loader!root_dir_sectors \in Nat
<1>1. /\ BytesPerSector \in Nat \ {0} /\ RootEntries \in Nat /\ EntryBytes \in Nat
  BY LoaderConstants
<1>2. PICK b \in Nat : b = RootEntries * EntryBytes BY <1>1
<1>3. (b + BytesPerSector - 1) \div BytesPerSector \in Nat BY <1>1
<1>4. Loader!root_dir_sectors \in Nat BY <1>2, <1>3 DEF Loader!root_dir_sectors
<1> QED BY <1>1, <1>4

(* The pages of the directory hold its sectors. *)
LEMMA LowAllocateRoot ==
  ASSUME stage = "loader", LowInv, Loader!AllocateRoot, UNCHANGED <<stage, last>> PROVE LowInv'
<1> DEFINE bytes == Loader!root_dir_sectors * BytesPerSector
           n == Loader!PagesFor(bytes)
<1>1. bytes \in Nat /\ bytes = BytesPerSector * Loader!root_dir_sectors
  BY RootSectorsIsNat, LoaderConstants
<1>2. n \in Nat /\ n * PageBytes > bytes /\ n * PageBytes \in Nat BY <1>1, PagesForHolds
<1>3. Loader!allocate_pages(n) /\ loader_pc \in Allocating /\ low_mem_size' = low_mem_size
  BY DEF Loader!AllocateRoot, Allocating
<1> HIDE DEF n
<1>4. /\ avail_mem_start \in Nat /\ avail_mem_start' = avail_mem_start + n * PageBytes
      /\ Unused(mem', avail_mem_start') /\ mem' = [s \in Loader!Slots' |-> mem'[s]]
  BY <1>2, <1>3, LowAllocate
<1> HIDE DEF bytes
<1>5. avail_mem_start' \in Nat /\ avail_mem_start + bytes < avail_mem_start'
  BY <1>1, <1>2, <1>4
<1>6. BytesPerSector * Loader!root_dir_sectors = BytesPerSector * Loader!root_dir_sectors'
  BY DEF Loader!root_dir_sectors
<1> QED
  BY <1>1, <1>4, <1>5, <1>6 DEF LowInv, LoaderAt, Loader!AllocateRoot, Allocating
(* The pages of the table of clusters hold its sectors. *)
LEMMA LowAllocateFat ==
  ASSUME stage = "loader", LowInv, Loader!AllocateFat, UNCHANGED <<stage, last>> PROVE LowInv'
<1> DEFINE bytes == SectorsPerFat * BytesPerSector
           n == Loader!PagesFor(bytes)
<1>1. bytes \in Nat /\ bytes = BytesPerSector * SectorsPerFat BY LoaderConstants
<1>2. n \in Nat /\ n * PageBytes > bytes /\ n * PageBytes \in Nat BY <1>1, PagesForHolds
<1>3. Loader!allocate_pages(n) /\ loader_pc \in Allocating /\ low_mem_size' = low_mem_size
  BY DEF Loader!AllocateFat, Allocating
<1> HIDE DEF n
<1>4. /\ avail_mem_start \in Nat /\ avail_mem_start' = avail_mem_start + n * PageBytes
      /\ Unused(mem', avail_mem_start') /\ mem' = [s \in Loader!Slots' |-> mem'[s]]
  BY <1>2, <1>3, LowAllocate
<1> HIDE DEF bytes
<1>5. /\ avail_mem_start' \in Nat /\ avail_mem_start + bytes < avail_mem_start'
      /\ avail_mem_start <= avail_mem_start'
  BY <1>1, <1>2, <1>4
<1>6. PICK root \in Nat : root = BytesPerSector * Loader!root_dir_sectors
  BY RootSectorsIsNat
<1>7. /\ root_dir_table \in Nat /\ root_dir_table + root < avail_mem_start'
      /\ root_dir_table < avail_mem_start' /\ map_entries \in Nat
  BY <1>4, <1>5, <1>6 DEF LowInv, LoaderAt, Loader!AllocateFat
<1>8. ax' = Loader!root_dir_sectors /\ ebx' = root_dir_table /\ ax' \in Nat
  BY RootSectorsIsNat DEF Loader!AllocateFat
<1>9. ebx' + BytesPerSector * ax' < avail_mem_start' BY <1>6, <1>7, <1>8
<1> QED
  BY <1>1, <1>4, <1>5, <1>7, <1>8, <1>9 DEF LowInv, LoaderAt, Loader!AllocateFat, Allocating

(* The sectors of both are read to their pages. *)
LEMMA LowReadNext ==
  ASSUME stage = "loader", LowInv, loader_pc \in {"root", "fat"}, Loader!ReadNext
  PROVE  /\ Unused(mem', avail_mem_start') /\ avail_mem_start' = avail_mem_start
         /\ mem' = [s \in Loader!Slots' |-> mem'[s]]
<1>1. /\ ebx \in Nat /\ avail_mem_start \in Nat /\ ebx < avail_mem_start
      /\ Unused(mem, avail_mem_start)
  BY DEF LowInv, LoaderAt, Allocating
<1>2. /\ mem' = [mem EXCEPT ![Loader!Slot(ebx)] = Loader!SectorRead(cx)]
      /\ low_mem_size' = low_mem_size /\ avail_mem_start' = avail_mem_start
  BY DEF Loader!ReadNext, Loader!read_floppy_sector
<1>3. Unused(mem', avail_mem_start) /\ mem' = [s \in Loader!Slots' |-> mem'[s]]
  BY <1>1, <1>2, WriteBelow
<1> QED BY <1>2, <1>3

(* One sector on, the others still fit. *)
LEMMA NextSectorFits ==
  ASSUME NEW b \in Nat, NEW n \in Int, NEW top \in Nat, n > 1, b + BytesPerSector * n < top
  PROVE  /\ b + BytesPerSector \in Nat /\ b + BytesPerSector < top
         /\ b + BytesPerSector + BytesPerSector * (n - 1) < top
<1>1. BytesPerSector \in Nat \ {0} BY LoaderConstants
<1>2. BytesPerSector * n = BytesPerSector + BytesPerSector * (n - 1) BY <1>1
<1>3. BytesPerSector * (n - 1) \in Nat
  <2>1. n - 1 \in Nat OBVIOUS
  <2> QED BY <1>1, <2>1
<1> QED BY <1>1, <1>2, <1>3
(* Reading the directory, behind which the table is read. *)
LEMMA LowReadRoot ==
  ASSUME stage = "loader", LowInv, Loader!ReadRoot, UNCHANGED <<stage, last>> PROVE LowInv'
<1>1. /\ loader_pc = "root" /\ Loader!ReadNext /\ map_entries \in Nat
      /\ ebx \in Nat /\ ax \in Int /\ avail_mem_start \in Nat
      /\ ax > 1 => ebx + BytesPerSector * ax < avail_mem_start
      /\ fat_table \in Nat /\ fat_table + BytesPerSector * SectorsPerFat < avail_mem_start
  BY DEF LowInv, LoaderAt, Loader!ReadRoot, Allocating
<1>2. /\ Unused(mem', avail_mem_start') /\ avail_mem_start' = avail_mem_start
      /\ mem' = [s \in Loader!Slots' |-> mem'[s]]
  BY <1>1, LowReadNext
<1>3. low_mem_size' = low_mem_size /\ map_entries' = map_entries /\ fat_table' = fat_table
  BY <1>1 DEF Loader!ReadNext, Loader!tables
<1>4. CASE ax > 1
  <2>1. /\ ebx + BytesPerSector \in Nat /\ ebx + BytesPerSector < avail_mem_start
        /\ ebx + BytesPerSector + BytesPerSector * (ax - 1) < avail_mem_start
    BY <1>1, <1>4, NextSectorFits
  <2>2. ebx' = ebx + BytesPerSector /\ ax' = ax - 1 /\ loader_pc' = "root"
    BY <1>1, <1>4 DEF Loader!ReadRoot
  <2> QED BY <1>1, <1>2, <1>3, <2>1, <2>2 DEF LowInv, LoaderAt, Allocating
<1>5. CASE ~(ax > 1)
  <2>1. ebx' = fat_table /\ ax' = SectorsPerFat /\ loader_pc' = "fat"
    BY <1>5 DEF Loader!ReadRoot
  <2>2. PICK b \in Nat : b = BytesPerSector * SectorsPerFat BY LoaderConstants
  <2>3. SectorsPerFat \in Int BY LoaderConstants
  <2>4. fat_table < avail_mem_start BY <1>1, <2>2
  <2> QED BY <1>1, <1>2, <1>3, <2>1, <2>3, <2>4 DEF LowInv, LoaderAt, Allocating
<1> QED BY <1>4, <1>5
(* Reading the table of clusters. *)
LEMMA LowReadFat ==
  ASSUME stage = "loader", LowInv, Loader!ReadFat, UNCHANGED <<stage, last>> PROVE LowInv'
<1>1. /\ loader_pc = "fat" /\ Loader!ReadNext /\ map_entries \in Nat
      /\ ebx \in Nat /\ ax \in Int /\ avail_mem_start \in Nat
      /\ ax > 1 => ebx + BytesPerSector * ax < avail_mem_start
  BY DEF LowInv, LoaderAt, Loader!ReadFat, Allocating
<1>2. /\ Unused(mem', avail_mem_start') /\ avail_mem_start' = avail_mem_start
      /\ mem' = [s \in Loader!Slots' |-> mem'[s]]
  BY <1>1, LowReadNext
<1>3. low_mem_size' = low_mem_size /\ map_entries' = map_entries
  BY <1>1 DEF Loader!ReadNext, Loader!tables
<1>4. CASE ax > 1
  <2>1. /\ ebx + BytesPerSector \in Nat /\ ebx + BytesPerSector < avail_mem_start
        /\ ebx + BytesPerSector + BytesPerSector * (ax - 1) < avail_mem_start
    BY <1>1, <1>4, NextSectorFits
  <2>2. ebx' = ebx + BytesPerSector /\ ax' = ax - 1 /\ loader_pc' = "fat"
    BY <1>1, <1>4 DEF Loader!ReadFat
  <2> QED BY <1>1, <1>2, <1>3, <2>1, <2>2 DEF LowInv, LoaderAt, Allocating
<1>5. CASE ~(ax > 1)
  <2>1. loader_pc' = "scan" BY <1>5 DEF Loader!ReadFat
  <2> QED BY <1>1, <1>2, <1>3, <2>1 DEF LowInv, LoaderAt, Allocating
<1> QED BY <1>4, <1>5

(* The kernel is read from the first page that is not allocated yet on. *)
LEMMA LowAllocateKernel ==
  ASSUME stage = "loader", LowInv, Loader!AllocateKernel, UNCHANGED <<stage, last>>
  PROVE  LowInv'
<1>1. /\ loader_pc = "kernel_pages" /\ map_entries \in Nat /\ avail_mem_start \in Nat
      /\ Unused(mem, avail_mem_start)
  BY DEF LowInv, LoaderAt, Loader!AllocateKernel, Allocating
<1>2. Unused(mem', avail_mem_start) /\ mem' = [s \in Loader!Slots' |-> mem'[s]]
  BY <1>1, ClearKeeps DEF Loader!AllocateKernel, Loader!allocate_pages
<1> QED
  BY <1>1, <1>2 DEF LowInv, LoaderAt, Loader!AllocateKernel, Allocating, Loader!tables
(* A cluster is read behind the last one. *)
LEMMA LowReadCluster ==
  ASSUME stage = "loader", LowInv, Loader!ReadCluster, UNCHANGED <<stage, last>> PROVE LowInv'
<1> DEFINE end == kernel_load_end + BytesPerSector
<1>1. kernel_load_end \in Nat /\ Unused(mem, kernel_load_end) /\ map_entries \in Nat
  BY DEF LowInv, LoaderAt, Loader!ReadCluster
<1>2. end \in Nat /\ kernel_load_end < end /\ kernel_load_end <= end BY <1>1, LoaderConstants
<1>3. Unused(mem, end) BY <1>1, <1>2, UnusedAbove
<1>4. /\ mem' = [mem EXCEPT ![Loader!Slot(kernel_load_end)] =
                    Loader!SectorRead(Loader!SectorOf(cx))]
      /\ low_mem_size' = low_mem_size /\ kernel_load_end' = end
  BY DEF Loader!ReadCluster, Loader!read_floppy_sector
<1> HIDE DEF end
<1>5. Unused(mem', end) /\ mem' = [s \in Loader!Slots' |-> mem'[s]]
  BY <1>1, <1>2, <1>3, <1>4, WriteBelow
<1>6. loader_pc' \in {"cluster", "tables"} BY DEF Loader!ReadCluster
<1> QED
  BY <1>1, <1>2, <1>4, <1>5, <1>6
  DEF LowInv, LoaderAt, Loader!ReadCluster, Allocating, Loader!tables
(* The page tables begin behind the image. *)
LEMMA LowPageTables ==
  ASSUME stage = "loader", LowInv, Loader!PageTables, UNCHANGED <<stage, last>> PROVE LowInv'
<1> DEFINE start == Loader!AlignUp(kernel_load_end)
<1>1. kernel_load_end \in Nat /\ Unused(mem, kernel_load_end) /\ map_entries \in Nat
  BY DEF LowInv, LoaderAt, Loader!PageTables
<1>2. start \in Nat /\ kernel_load_end <= start BY <1>1, AlignUpIsAbove
<1>3. Unused(mem, start) BY <1>1, <1>2, UnusedAbove
<1>4. mem' = mem /\ low_mem_size' = low_mem_size /\ page_tables_start' = start
  BY DEF Loader!PageTables
<1> HIDE DEF start
<1>5. Unused(mem', page_tables_start') /\ mem' = [s \in Loader!Slots' |-> mem'[s]]
  BY <1>3, <1>4 DEF LowInv, Loader!Slots, Loader!Slot
<1> QED
  BY <1>1, <1>2, <1>4, <1>5 DEF LowInv, LoaderAt, Loader!PageTables, Allocating, Loader!tables

(* Searching the directory writes nothing, and neither does a trap. *)
LEMMA LowScan ==
  ASSUME stage = "loader", LowInv, Loader!Scan \/ Loader!OutOfMemory,
         UNCHANGED <<stage, last>>
  PROVE  LowInv'
<1>1. /\ mem' = mem /\ low_mem_size' = low_mem_size /\ map_entries' = map_entries
      /\ avail_mem_start' = avail_mem_start
  BY DEF Loader!Scan, Loader!OutOfMemory, Loader!tables
<1>2. /\ loader_pc' \in {"scan", "kernel_pages", "trap"}
      /\ loader_pc \in Allocating
  BY DEF Loader!Scan, Loader!OutOfMemory, Allocating
<1>3. mem' = [s \in Loader!Slots' |-> mem'[s]] BY <1>1 DEF LowInv, Loader!Slots, Loader!Slot
<1> QED BY <1>1, <1>2, <1>3 DEF LowInv, LoaderAt, Allocating
(* A step that leaves memory and the loader's registers alone changes nothing. *)
LEMMA LowSame ==
  ASSUME LowInv, UNCHANGED <<stage, loader_vars, last>> PROVE LowInv'
<1>1. Loader!Slots' = Loader!Slots BY DEF loader_vars, Loader!Slots, Loader!Slot
<1>2. Loader!root_dir_sectors' = Loader!root_dir_sectors BY DEF Loader!root_dir_sectors
<1>3. LoaderAt => LoaderAt' BY <1>2 DEF LoaderAt, loader_vars
<1>4. page_tables_end(last)' = page_tables_end(last) BY DEF loader_vars, page_tables_end
<1> QED BY <1>1, <1>3, <1>4 DEF LowInv, loader_vars

(* The loader takes its steps before it builds page tables. *)
LEMMA LowLoader == ASSUME LowInv, LoaderStep PROVE LowInv'
<1>1. UNCHANGED <<stage, last>> BY DEF LoaderStep, paging_vars
<1>2. CASE stage = "loader"
  <2>1. CASE Loader!Stage1 BY <1>1, <1>2, <2>1, LowStage1
  <2>2. CASE Loader!Stage2 BY <1>1, <1>2, <2>2, LowStage2
  <2>3. CASE Loader!AllocateMap BY <1>1, <1>2, <2>3, LowAllocateMap
  <2>4. CASE Loader!BuildMap BY <1>1, <1>2, <2>4, LowBuildMap
  <2>5. CASE Loader!AllocateRoot BY <1>1, <1>2, <2>5, LowAllocateRoot
  <2>6. CASE Loader!AllocateFat BY <1>1, <1>2, <2>6, LowAllocateFat
  <2>7. CASE Loader!ReadRoot BY <1>1, <1>2, <2>7, LowReadRoot
  <2>8. CASE Loader!ReadFat BY <1>1, <1>2, <2>8, LowReadFat
  <2>9. CASE Loader!Scan \/ Loader!OutOfMemory BY <1>1, <1>2, <2>9, LowScan
  <2>10. CASE Loader!AllocateKernel BY <1>1, <1>2, <2>10, LowAllocateKernel
  <2>11. CASE Loader!ReadCluster BY <1>1, <1>2, <2>11, LowReadCluster
  <2>12. CASE Loader!PageTables BY <1>1, <1>2, <2>12, LowPageTables
  <2>13. CASE Loader!Retry
    <3>1. UNCHANGED loader_vars
      BY <2>13 DEF Loader!Retry, Loader!vars, Loader!regs, Loader!tables, Loader!kernel,
                   loader_vars
    <3> QED BY <1>1, <3>1, LowSame
  <2> QED
    BY <2>1, <2>2, <2>3, <2>4, <2>5, <2>6, <2>7, <2>8, <2>9, <2>10, <2>11, <2>12, <2>13
    DEF LoaderStep
<1>3. CASE stage = "paging"
  <2>1. loader_pc = "done" BY <1>3 DEF LowInv
  <2> QED
    BY <2>1 DEF LoaderStep, Loader!Stage1, Loader!Stage2, Loader!AllocateMap, Loader!BuildMap,
                Loader!AllocateRoot, Loader!AllocateFat, Loader!ReadRoot, Loader!ReadFat,
                Loader!Scan, Loader!AllocateKernel, Loader!ReadCluster, Loader!PageTables,
                Loader!OutOfMemory, Loader!Retry
<1>4. CASE stage = "kernel" BY <1>1, <1>4 DEF LowInv
<1> QED BY <1>2, <1>3, <1>4 DEF LowInv

(* A table that is allocated follows the last one. *)
LEMMA LevelGrows ==
  ASSUME NEW s, s.last \in Nat, NEW k
  PROVE  /\ Paging!get_or_allocate_level(s, k).last \in Nat
         /\ Paging!get_or_allocate_level(s, k).last >= s.last
<1>1. s.last + 1 \in Nat /\ s.last + 1 >= s.last OBVIOUS
<1>2. \A e, n, t : Paging!State(e, n, t).last = n BY DEF Paging!State
<1>3. Paging!get_or_allocate_level(s, k).last \in {s.last, s.last + 1}
  <2>1. CASE s.ents[<<s.table, k>>] # Paging!Nothing
    BY <1>2, <2>1 DEF Paging!get_or_allocate_level
  <2>2. CASE ~(s.ents[<<s.table, k>>] # Paging!Nothing)
    BY <1>2, <2>2 DEF Paging!get_or_allocate_level
  <2> QED BY <2>1, <2>2
<1> QED BY <1>1, <1>3
(* So do all that a call of map_contiguous_pages allocates. *)
LEMMA StartGrows ==
  ASSUME last \in Nat, Paging!Start PROVE last' \in Nat /\ last' >= last
<1> DEFINE c == Paging!calls[done + 1]
           l3 == Paging!get_or_allocate_level(Paging!RootState, Paging!Offset(c.page, 4))
           l2 == Paging!get_or_allocate_level(l3, Paging!Offset(c.page, 3))
           l1 == Paging!get_or_allocate_level(l2, Paging!Offset(c.page, 2))
<1>1. Paging!RootState.last \in Nat /\ Paging!RootState.last >= last
  BY DEF Paging!RootState, Paging!State, Paging!Root
<1>2. l3.last \in Nat /\ l3.last >= Paging!RootState.last BY <1>1, LevelGrows
<1> HIDE DEF l3
<1>3. l2.last \in Nat /\ l2.last >= l3.last BY <1>2, LevelGrows
<1> HIDE DEF l2
<1>4. l1.last \in Nat /\ l1.last >= l2.last BY <1>3, LevelGrows
<1> HIDE DEF l1
<1>5. last' = last \/ last' = l1.last BY Zenon DEF Paging!Start, l1, l2, l3
<1> QED BY <1>1, <1>2, <1>3, <1>4, <1>5

(* Before the first page table their end is their start. *)
LEMMA LowStartPaging == ASSUME LowInv, StartPaging PROVE LowInv'
<1>1. /\ page_tables_start \in Nat /\ Unused(mem, page_tables_start) /\ last = 0
      /\ low_mem_size \in Nat /\ mem = [s \in Loader!Slots |-> mem[s]]
  BY DEF LowInv, LoaderAt, StartPaging
<1>2. UNCHANGED <<mem, low_mem_size, page_tables_start, loader_pc, last>> /\ stage' = "paging"
      /\ loader_pc = "done"
  BY DEF StartPaging, loader_vars, paging_vars
<1>3. page_tables_end(last)' = page_tables_start
  BY <1>1, <1>2, LoaderConstants DEF page_tables_end
<1> QED BY <1>1, <1>2, <1>3 DEF LowInv, Loader!Slots, Loader!Slot
(* The page tables of a call end where its last one does. *)
LEMMA LowStartCall == ASSUME LowInv, StartCall PROVE LowInv'
<1> DEFINE top == page_tables_end(last')
<1>1. /\ page_tables_start \in Nat /\ last \in Nat /\ loader_pc = "done" /\ stage = "paging"
      /\ Unused(mem, page_tables_end(last))
      /\ low_mem_size \in Nat /\ mem = [s \in Loader!Slots |-> mem[s]]
  BY DEF LowInv, StartCall
<1>2. UNCHANGED <<low_mem_size, page_tables_start, loader_pc, stage>>
  BY DEF StartCall, Paging!Start
<1>3. last' \in Nat /\ last' >= last BY <1>1, StartGrows DEF StartCall
<1>4. page_tables_end(last) \in Nat /\ top \in Nat /\ page_tables_end(last) <= top
  <2>1. PageBytes \in Nat BY LoaderConstants
  <2>2. PICK d \in Nat : last' = last + d
    <3>1. last' - last \in Nat BY <1>1, <1>3
    <3> QED BY <1>1, <1>3, <3>1
  <2>3. last' * PageBytes = last * PageBytes + d * PageBytes BY <1>1, <2>1, <2>2
  <2>4. last * PageBytes \in Nat /\ d * PageBytes \in Nat BY <1>1, <2>1, <2>2
  <2> QED BY <1>1, <2>3, <2>4 DEF page_tables_end
<1>5. Unused(mem, top)
  <2>1. stage # "kernel" BY <1>1
  <2> HIDE DEF top
  <2> QED BY <1>1, <1>4, <2>1, UnusedAbove
<1>6. mem' = [s \in Loader!Slots |-> IF InTables(s, last') THEN Table ELSE mem[s]]
  <2>1. DOMAIN mem = Loader!Slots BY <1>1
  <2> QED BY <2>1 DEF StartCall
<1>7. Loader!Slots' = Loader!Slots BY <1>2 DEF Loader!Slots, Loader!Slot
<1>8. \A s \in Loader!Slots : s * BytesPerSector >= top => ~InTables(s, last')
  <2>1. Loader!Slot(low_mem_size) \in Nat BY <1>1, SlotBelow
  <2>2. Loader!Slots \subseteq Nat BY <2>1 DEF Loader!Slots
  <2>3. \A s \in Nat : s * BytesPerSector \in Nat BY LoaderConstants
  <2>4. \A s \in Loader!Slots : s * BytesPerSector \in Nat BY <2>2, <2>3
  <2> QED BY <1>4, <2>4 DEF InTables
<1>9. Unused(mem', top)
  <2>1. DOMAIN mem = Loader!Slots BY <1>1
  <2> HIDE DEF top
  <2> QED BY <1>5, <1>6, <1>8, <2>1 DEF Unused
<1>10. page_tables_end(last)' = top BY <1>2 DEF page_tables_end
<1> QED BY <1>1, <1>2, <1>3, <1>6, <1>7, <1>9, <1>10 DEF LowInv

(* Every step keeps the memory behind what was written unused. *)
LEMMA LowStep == ASSUME LowInv, [Next]_vars PROVE LowInv'
<1>1. CASE LoaderStep BY <1>1, LowLoader
<1>2. CASE StartPaging BY <1>2, LowStartPaging
<1>3. CASE StartCall BY <1>3, LowStartCall
<1>4. CASE WriteEntry BY <1>4, LowSame DEF WriteEntry, Paging!WriteEntry
<1>5. CASE EnterKernel BY <1>5 DEF EnterKernel, LowInv
<1>6. CASE KernelStep BY <1>6, LowSame DEF KernelStep, paging_vars
<1>7. CASE UNCHANGED vars BY <1>7, LowSame DEF vars, paging_vars
<1> QED BY <1>1, <1>2, <1>3, <1>4, <1>5, <1>6, <1>7 DEF Next, Stopped

(* The low memory stage2.asm tells the kernel it may use, from the end of  *)
(* the last page table on, holds no page table, no part of the image and   *)
(* no memory map, for every disk, size of low memory and memory map, and   *)
(* whichever clusters are read: low_memory::allocate takes the floppy's    *)
(* DMA buffer from there.                                                  *)
THEOREM BootLowMemoryIsUnused == Spec => []LowMemoryIsUnused
<1>1. LowInv => LowMemoryIsUnused
  <2> SUFFICES ASSUME LowInv, stage = "paging", NEW s \in DOMAIN mem,
                      avail_low_mem_start <= s * BytesPerSector
               PROVE  mem[s] = Loader!Junk \/ mem[s] = Loader!Zero
    BY DEF LowMemoryIsUnused
  <2>1. Unused(mem, avail_low_mem_start) BY DEF LowInv, avail_low_mem_start
  <2> QED BY <2>1 DEF Unused
<1> QED BY <1>1, LowInit, LowStep, PTL DEF Spec
=============================================================================

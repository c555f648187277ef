------------------------------- MODULE Paging -------------------------------
(***************************************************************************)
(* The page tables of the kernel (paging.cpp, paging.h): a radix tree of   *)
(* tables, whose tables come from a static pool and, once finish_init ran, *)
(* from a dynamic one.  Addresses are page numbers, frames are physical    *)
(* page numbers, and a frame f is visible in kernel space as the page      *)
(* KernelVma + f.                                                          *)
(*                                                                         *)
(* Module Alloc has the boot sequence and the callers that map and unmap   *)
(* pages after it.                                                         *)
(***************************************************************************)
EXTENDS Integers, Sequences, SequencesExt, FiniteSets

CONSTANTS
  Entries,        \* NUM_PAGE_TABLE_ENTRIES
  Levels,         \* 4 in the code
  SignPages,      \* pages that virtual_page_address tells apart: 2^30
  StaticTables,   \* MAX_STATIC_TABLES
  DynamicTables,  \* MAX_DYNAMIC_TABLES
  KernelVma,      \* page of KERNEL_VMA_OFFSET
  KernelFirst,    \* first frame of the kernel image
  TextPages, RodataPages, DataPages, BssPages,  \* the segments of the image
  StackBase,      \* frame behind the kernel stack
  StackPages,     \* KERNEL_STACK_SIZE, 0x10 in the code
  VgaFrame, AcpiFrame, AcpiPages,  \* device memory below the kernel
  Region,         \* first frame of the largest usable region
  BitmapPages     \* frames of the bitmap of pma.cpp

NumPages == Entries ^ Levels

PagingAssumption ==
  /\ {Entries, Levels, SignPages} \subseteq Nat \ {0, 1}
  /\ {StaticTables, DynamicTables, StackPages} \subseteq Nat \ {0}
  /\ KernelVma % Entries = 0 /\ KernelVma >= Entries
  /\ KernelFirst + TextPages + RodataPages + DataPages + BssPages + StackPages
       < StackBase
  /\ StackBase <= Entries
  /\ VgaFrame < AcpiFrame /\ AcpiFrame + AcpiPages <= KernelFirst
  /\ KernelVma + Region + BitmapPages + DynamicTables + 2 < NumPages

VARIABLES
  entries,  \* the entries of all tables, those still in the pools included
  static,   \* num_static_tables_left
  dynamic,  \* num_dynamic_tables_left, -1 while dynamic_tables is null
  mapped,   \* what the callers have mapped: page -> frame and attributes
  tlb,      \* the translations the processor has cached: at most one, the
            \* processor may drop the others at any moment
  paging_machine  \* "ok", or the assertion or panic that stopped the machine

-----------------------------------------------------------------------------
(* Tables and entries. *)
Null == <<"null", 0>>
Root == <<"root", 0>>
Pool == ({"static"} \X (1 .. StaticTables)) \cup ({"dynamic"} \X (1 .. DynamicTables))
BootTables == {"kernel", "identity"} \X (1 .. Levels - 1)
Tables == {Root} \cup BootTables \cup Pool
Frame(f) == <<"frame", f>>

entry(to, flags) == [to |-> to, flags |-> flags]
TableFlags == {"RW", "PRESENT"}
Present(e) == "PRESENT" \in e.flags

index(v, level) == (v \div Entries ^ (level - 1)) % Entries

(* The entry for v in the table t of that level. *)
Slot(t, v, level) == <<t, index(v, level)>>

(* early_init: the kernel's frames and the lowest frames but the first one *)
(* are mapped read-only and not executable, each behind a path of tables.  *)
EarlyTables(path, v) ==
  { <<Slot(IF k = Levels THEN Root ELSE <<path, k>>, v, k), <<path, k - 1>> >>
      : k \in 2 .. Levels }
EarlyFrames(path, frames) ==
  { << <<<<path, 1>>, f>>, Frame(f)>> : f \in frames }
EarlyLinks == EarlyTables("kernel", KernelVma) \cup EarlyTables("identity", 0)
EarlyLeaves ==
  EarlyFrames("kernel", KernelFirst .. Entries - 1)
    \cup EarlyFrames("identity", 1 .. Entries - 1)

early_init ==
  [s \in Tables \X (0 .. Entries - 1) |->
     IF \E l \in EarlyLinks : l[1] = s
       THEN entry((CHOOSE l \in EarlyLinks : l[1] = s)[2], TableFlags)
     ELSE IF \E l \in EarlyLeaves : l[1] = s
       THEN entry((CHOOSE l \in EarlyLeaves : l[1] = s)[2], {"XD", "PRESENT"})
     ELSE entry(Null, {})]

-----------------------------------------------------------------------------
(* Walks. A cursor holds the tables, the pools and the table it is at; once*)
(* an assertion failed or the kernel panicked it stays as it is.           *)
Cursor ==
  [entries |-> entries, static |-> static, dynamic |-> dynamic,
   table |-> Root, machine |-> "ok"]

Stop(c, why) == [c EXCEPT !.machine = why]

(* The table that a table entry s refers to from now on. *)
Link(c, s, t) ==
  [c EXCEPT !.entries[s] = entry(t, TableFlags), !.table = t]

(* allocate_page_level, for the entry s. *)
allocate_page_level(c, s) ==
  IF c.static > 0
    THEN Link([c EXCEPT !.static = @ - 1], s, <<"static", c.static>>)
  ELSE IF c.dynamic = -1
    THEN Stop(c, "no_dynamic_tables_yet")
  ELSE IF c.dynamic > 0
    THEN Link([c EXCEPT !.dynamic = @ - 1], s, <<"dynamic", c.dynamic>>)
  ELSE Stop(c, "no_more_page_tables")

allocate_and_descend(c, s) ==
  IF c.machine # "ok" THEN c
  ELSE IF c.entries[s].to = Null THEN allocate_page_level(c, s)
  ELSE [c EXCEPT !.table = c.entries[s].to]

(* get: the cursor at level 1 for v, with the tables that were missing. *)
get(c, v) ==
  LET Down(d, k) == allocate_and_descend(d, Slot(d.table, v, Levels + 1 - k))
  IN  FoldLeft(Down, [c EXCEPT !.table = Root], [k \in 1 .. Levels - 1 |-> k])

(* find: the table of level 1 that holds the entry of v, or Null. *)
find(ents, v) ==
  LET Down(t, k) ==
        LET s == Slot(t, v, Levels + 1 - k)
        IN  IF t # Null /\ Present(ents[s]) THEN ents[s].to ELSE Null
  IN  FoldLeft(Down, Root, [k \in 1 .. Levels - 1 |-> k])

(* What the processor and get_physical_address read for v: the entry when  *)
(* it is present.                                                          *)
Translate(ents, v) ==
  LET t == find(ents, v)
      e == ents[Slot(t, v, 1)]
  IN  IF t # Null /\ Present(e) THEN e ELSE entry(Null, {})

(* virtual_page_address sign-extends from 42 bits. *)
ZeroExtended(v) == v % SignPages
virtual_page_address(v) ==
  LET low == v % SignPages
  IN  IF low < SignPages \div 2 THEN low ELSE NumPages - SignPages + low

-----------------------------------------------------------------------------
(* map_page on a cursor at level 1. *)
MapLeaf(c, f, v, attrs) ==
  LET s == Slot(c.table, v, 1) IN
  IF c.machine # "ok" THEN c
  ELSE IF Present(c.entries[s]) THEN Stop(c, "already_present")
  ELSE [c EXCEPT !.entries[s] = entry(Frame(f), attrs \cup {"PRESENT"})]

(* The step of map_range to the next page: ascend while the index of the   *)
(* level is at its end, then allocate and descend to level 1, which is     *)
(* done behind the last page, too. The tables above the level it ascends   *)
(* to are those of v, so this is a walk from the root.                     *)
StayInTable(c, v) == c
NextPage(c, v) ==
  IF c.machine # "ok" THEN c
  ELSE IF v + 1 = NumPages THEN Stop(c, "ascend_from_root")
  ELSE get(c, v + 1)

map_range(f, v, n, attrs) ==
  LET Page(c, i) ==
        IF c.machine = "ok" /\ virtual_page_address(v + i) # v + i
          THEN Stop(c, "out_of_sync")
          ELSE NextPage(MapLeaf(c, f + i, v + i, attrs), v + i)
  IN  FoldLeft(Page, get(Cursor, v), [i \in 1 .. n |-> i - 1])

(* map_page of each frame of a sequence to the pages from v on. *)
map_pages(frames, v, attrs) ==
  LET Page(c, i) == MapLeaf(get(c, v + i - 1), frames[i], v + i - 1, attrs)
  IN  FoldLeft(Page, Cursor, [i \in 1 .. Len(frames) |-> i])

Record(frames, v, attrs) ==
  mapped' = [w \in DOMAIN mapped \cup (v .. v + Len(frames) - 1) |->
               IF w \in v .. v + Len(frames) - 1
                 THEN entry(Frame(frames[w - v + 1]), attrs \cup {"PRESENT"})
                 ELSE mapped[w]]
FramesFrom(f, n) == [i \in 1 .. n |-> f + i - 1]

(* The state that a cursor leaves behind. *)
Store(c) ==
  /\ entries' = c.entries
  /\ static' = c.static
  /\ paging_machine' = c.machine

invlpg(pages) == tlb' = { t \in tlb : t.page \notin pages }
NoFlush(pages) == tlb' = tlb

(* identity_map_page_range_into_kernel_space *)
IdentityMap(f, n) ==
  LET c == map_range(f, KernelVma + f, n, {"RW", "XD"}) IN
  /\ Store(c)
  /\ dynamic' = c.dynamic
  /\ Record(FramesFrom(f, n), KernelVma + f, {"RW", "XD"})
  /\ invlpg(KernelVma + f .. KernelVma + f + n - 1)

MapPages(frames, v, attrs) ==
  LET c == map_pages(frames, v, attrs) IN
  /\ Store(c)
  /\ dynamic' = c.dynamic
  /\ Record(frames, v, attrs)
  /\ invlpg({virtual_page_address(w) : w \in v .. v + Len(frames) - 1})

(* unmap_page, for each of the pages. *)
InvalidatePages(pages) == invlpg(pages)
UnmapPages(pages) ==
  LET At(v) == Slot(find(entries, v), v, 1)
      slots == {At(v) : v \in pages} IN
  /\ IF \E v \in pages : Translate(entries, v).to = Null
       THEN paging_machine' = "not_present" /\ UNCHANGED entries
       ELSE /\ entries' = [s \in DOMAIN entries |->
                             IF s \in slots
                               THEN [entries[s] EXCEPT !.flags = @ \ {"PRESENT"}]
                               ELSE entries[s]]
            /\ UNCHANGED paging_machine
  /\ mapped' = [w \in DOMAIN mapped \ pages |-> mapped[w]]
  /\ InvalidatePages(pages)
  /\ UNCHANGED <<static, dynamic>>

-----------------------------------------------------------------------------
(* The pages of the segments, of the stack and of its guard. *)
TextStart == KernelVma + KernelFirst
RodataStart == TextStart + TextPages
DataStart == RodataStart + RodataPages
BssStart == DataStart + DataPages
BssEnd == BssStart + BssPages
StackTop == KernelVma + StackBase - StackPages
Text == TextStart .. RodataStart - 1
Rodata == RodataStart .. DataStart - 1
Writable == (DataStart .. BssEnd - 1) \cup (StackTop .. KernelVma + StackBase - 1)
Guard == StackTop - 1
Image == Text \cup Rodata \cup Writable \cup {Guard}

ProtectAllWritable(v, flags) ==
  CASE v \in Text -> flags \ {"XD"}
    [] v \in Rodata \cup Writable -> flags \cup {"XD", "RW", "PRESENT"}
    [] v = Guard -> flags \ {"PRESENT"}
Protected(v, flags) ==
  CASE v \in Text -> flags \ {"XD", "RW"}
    [] v \in Rodata -> (flags \cup {"XD"}) \ {"RW"}
    [] v \in Writable -> flags \cup {"XD", "RW", "PRESENT"}
    [] v = Guard -> flags \ {"PRESENT"}

enable_kernel_page_protection ==
  LET At(v) == Slot(find(entries, v), v, 1) IN
  /\ entries' =
       [s \in DOMAIN entries |->
          IF \E v \in Image : At(v) = s
            THEN LET v == CHOOSE w \in Image : At(w) = s
                 IN  [entries[s] EXCEPT !.flags = Protected(v, @)]
            ELSE entries[s]]
  /\ paging_machine' =
       IF \E v \in Image : Translate(entries, v).to = Null
         THEN "not_mapped" ELSE "ok"
  /\ mapped' =
       [v \in DOMAIN mapped \ {Guard} |->
          IF v \in Image
            THEN [mapped[v] EXCEPT !.flags = Protected(v, @)] ELSE mapped[v]]
  /\ tlb' = {}
  /\ UNCHANGED <<static, dynamic>>

(* finish_init: the frames are mapped with the tables of the static pool,  *)
(* then become the dynamic pool, and the translations are flushed.         *)
finish_init(f) ==
  LET c == map_range(f, KernelVma + f, DynamicTables, {"RW", "XD"}) IN
  /\ Store(c)
  /\ dynamic' = DynamicTables
  /\ Record(FramesFrom(f, DynamicTables), KernelVma + f, {"RW", "XD"})
  /\ tlb' = {}

-----------------------------------------------------------------------------
PagingInit ==
  /\ entries = early_init
  /\ static = StaticTables
  /\ dynamic = -1
  /\ mapped = [v \in { w \in 0 .. NumPages - 1 : Present(Translate(early_init, w)) } |->
                 Translate(early_init, v)]
  /\ tlb = {}
  /\ paging_machine = "ok"

(* The processor uses a page and caches its translation. *)
Access(v) ==
  /\ Translate(entries, v).to # Null
  /\ tlb' = {[page |-> v, as |-> Translate(entries, v)]}
  /\ UNCHANGED <<entries, static, dynamic, mapped, paging_machine>>

-----------------------------------------------------------------------------
(* The tables of level 1 that present entries lead to, with the pages      *)
(* before the first of theirs, in tables.                                  *)
PresentIn(t) == {i \in 0 .. Entries - 1 : Present(entries[t, i])}
LeafTables ==
  LET Down(S, k) ==
        UNION { { <<entries[s[1], i].to, s[2] * Entries + i>> : i \in PresentIn(s[1]) } : s \in S }
  IN  FoldLeft(Down, {<<Root, 0>>}, [k \in 1 .. Levels - 1 |-> k])
PresentPages ==
  UNION { { <<s[2] * Entries + i, entries[s[1], i]>> : i \in PresentIn(s[1]) } : s \in LeafTables }

(* A walk from the root finds for every page exactly what was mapped there *)
(* and not unmapped since: tables that were created, reused or passed over *)
(* by map_range never change or hide the translation of another page.      *)
LookupFindsWhatWasMapped ==
  paging_machine = "ok" => PresentPages = { <<v, mapped[v]>> : v \in DOMAIN mapped }

(* No cached translation survives a change of its page: unmap_page         *)
(* invalidates the page and the changes of the boot sequence reload cr3.   *)
TlbIsCoherent == \A t \in tlb : Translate(entries, t.page) = t.as

(* With the pages of vma and the frames of pma, mapping and unmapping never*)
(* fails an assertion of map_page, map_range, unmap_page or the protection *)
(* of the image; the only panics left are those of the table pools.        *)
AssertionsHold == paging_machine \in {"ok", "no_dynamic_tables_yet", "no_more_page_tables"}

ImageHasAttributes ==
  /\ \A v \in Text : Translate(entries, v).flags = {"PRESENT"}
  /\ \A v \in Rodata : Translate(entries, v).flags = {"PRESENT", "XD"}
  /\ \A v \in Writable : Translate(entries, v).flags = {"PRESENT", "XD", "RW"}
  /\ Translate(entries, Guard).to = Null
=============================================================================

----------------------------- MODULE BootPaging ------------------------------
(***************************************************************************)
(* map_contiguous_pages of the boot loader (paging.asm) and the two calls  *)
(* stage2.asm makes of it: low memory is mapped to itself, and the first   *)
(* two megabytes to where the kernel runs.  Tables are numbered in the     *)
(* order they are allocated, pages and frames by their numbers.            *)
(***************************************************************************)
EXTENDS Integers, Sequences

CONSTANTS
  E,          \* ENTRIES_PER_TABLE
  PageBytes,  \* PAGE_SIZE
  MaxTables   \* bound: tables the calls may need

BootPagingAssumption ==
  /\ E \in Nat \ {0} /\ E % 4 = 0
  /\ PageBytes \in Nat \ {0} /\ MaxTables \in Nat \ {0}

VARIABLES
  low_mem_size, \* bytes of low memory
  done,         \* how many of the calls have returned
  pc,           \* "call", "write", "full", "fail"
  entries,      \* the entries of the tables that are present
  last,         \* page_tables_end: the last table that was allocated
  table,        \* the PML1 table that is written
  di,           \* the entry that is written next
  edx, ecx,     \* the number of entries that counts as written, and when to stop
  esi           \* the frame

Root == 1
Nothing == 0
NoEntries == [s \in (1 .. MaxTables) \X (0 .. E - 1) |-> Nothing]

(* The calls of stage2.asm: low memory is mapped to itself, and as many    *)
(* pages as a table has to where the kernel is linked, the last entry but  *)
(* one of the last PML3.                                                   *)
call(frame, page, pages) == [frame |-> frame, page |-> page, pages |-> pages]
KernelBase == (E - 1) * E^3 + (E - 2) * E^2
calls == << call(0, 0, low_mem_size \div PageBytes), call(0, KernelBase, E) >>

Init ==
  /\ done = 0 /\ pc = "call"
  /\ entries = NoEntries
  /\ last = 0
  /\ table = 0 /\ di = 0 /\ edx = 0 /\ ecx = 0 /\ esi = 0

-----------------------------------------------------------------------------
(* The offsets of a page in the tables. PML4_MASK is applied to bits that  *)
(* were already shifted: seven bits of the index are lost, and the sign of *)
(* the address fills them.                                                 *)
index(v, level) == (v \div E^(level - 1)) % E
Level4Index(v) ==
  LET top == index(v, 4) \div (E \div 4)
  IN IF index(v, 4) < E \div 2 THEN top ELSE E - 4 + top
Offset(v, level) == IF level = 4 THEN Level4Index(v) ELSE index(v, level)

(* A table below table t, allocated if the entry is not present. ents and  *)
(* n are the entries and the last table so far.                            *)
State(ents, n, t) == [ents |-> ents, last |-> n, table |-> t]
get_or_allocate_level(s, i) ==
  IF s.ents[<<s.table, i>>] # Nothing
  THEN State(s.ents, s.last, s.ents[<<s.table, i>>])
  ELSE State([s.ents EXCEPT ![<<s.table, i>>] = s.last + 1], s.last + 1, s.last + 1)

(* The first call allocates the root. *)
RootState == State(entries, IF last = 0 THEN Root ELSE last, Root)

Start ==
  /\ pc = "call" /\ done < Len(calls)
  /\ LET c == calls[done + 1]
         l3 == get_or_allocate_level(RootState, Offset(c.page, 4))
         l2 == get_or_allocate_level(l3, Offset(c.page, 3))
         l1 == get_or_allocate_level(l2, Offset(c.page, 2))
     IN IF c.pages > E
        THEN /\ pc' = "fail"
             /\ UNCHANGED <<entries, last, table, di, edx, ecx, esi>>
        ELSE /\ pc' = "write"
             /\ entries' = l1.ents /\ last' = l1.last /\ table' = l1.table
             /\ di' = Offset(c.page, 1)
             /\ edx' = Offset(c.page, 1) /\ ecx' = c.pages /\ esi' = c.frame
  /\ UNCHANGED <<done, low_mem_size>>

(* .write_page_table_entry, which ends at .table_full, where the table has *)
(* no more entries. A frame is kept as its number plus one.                *)
StopLate == edx = ecx
Stop == edx + 1 = ecx
Full == edx + 1 >= E

WriteEntry ==
  /\ pc = "write"
  /\ entries' = [entries EXCEPT ![<<table, di>>] = esi + 1]
  /\ esi' = esi + 1
  /\ di' = di + 1
  /\ edx' = edx + 1
  /\ IF Stop THEN pc' = "call" /\ done' = done + 1
     ELSE pc' = (IF Full THEN "full" ELSE "write") /\ UNCHANGED done
  /\ UNCHANGED <<low_mem_size, last, table, ecx>>

-----------------------------------------------------------------------------
(* What the processor finds for a page: a frame plus one, or nothing. *)
Below(t, i) == IF t \in 1 .. MaxTables THEN entries[<<t, i>>] ELSE Nothing
Translate(v) ==
  Below(Below(Below(Below(Root, index(v, 4)), index(v, 3)), index(v, 2)), index(v, 1))

(* The pages of the table that holds the call's first page.               *)
Behind(c) == (c.page + c.pages) .. ((c.page \div E + 1) * E - 1)
Mapped(c) ==
  /\ \A i \in 0 .. c.pages - 1 : Translate(c.page + i) = c.frame + i + 1
  /\ \A v \in Behind(c) : Translate(v) = Nothing

(* Each of the calls maps every one of its pages to its frame and none of  *)
(* the table behind them, and the pages stay so mapped in the call behind  *)
(* it: low memory is where it was, and the kernel where it is linked.      *)
CallsMapTheirPages == \A i \in 1 .. done : Mapped(calls[i])
=============================================================================

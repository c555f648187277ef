--------------------------------- MODULE Vma ---------------------------------
(***************************************************************************)
(* The virtual memory allocator (vma.cpp): a first-fit free list of areas  *)
(* of virtual pages, kept in one page.  Addresses are page numbers, modulo *)
(* the size of the address space.                                          *)
(*                                                                         *)
(* A new node is written behind the last one of the list, and a node that  *)
(* is reused becomes the last one, so the list always is a prefix of the   *)
(* page in address order: it is modelled as a sequence.                    *)
(***************************************************************************)
EXTENDS Naturals, Sequences, FiniteSets

CONSTANTS
  NumPages,                \* pages of the address space
  LowEnd,                  \* first page above the identity-mapped low memory
  PosEnd,                  \* last page of the lower canonical half
  NegStart,                \* first page of the upper canonical half
  KernelStart, KernelEnd,  \* the kernel image: KernelStart .. KernelEnd - 1
  ListPage,                \* the page the free list resides in
  TablesBase, TablesSize,  \* the dynamic page tables (paging::finish_init)
  MaxNodes,                \* NODES_PER_PAGE
  MaxSize                  \* bound: pages of the largest request

ASSUME VmaAssumption ==
  /\ {NumPages, LowEnd, PosEnd, NegStart, KernelStart, KernelEnd, ListPage,
      TablesBase, TablesSize, MaxNodes, MaxSize} \subseteq Nat
  /\ 0 < LowEnd /\ LowEnd < PosEnd
  /\ PosEnd + 1 < NegStart /\ NegStart < KernelStart /\ KernelStart < KernelEnd
  /\ KernelEnd < ListPage /\ ListPage < TablesBase
  /\ TablesBase + TablesSize < NumPages
  /\ 0 < TablesSize /\ 4 < MaxNodes /\ 0 < MaxSize

Area == [base : 0 .. NumPages - 1, size : 0 .. NumPages]
area(base, size) == [base |-> base, size |-> size]

VARIABLES
  nodes,    \* the list virtual_free_list
  count,    \* free_list_size
  inUse,    \* the areas handed out by get_virtual_pages and not freed
  pinned,   \* the areas taken at boot, which are never freed
  boot,     \* how far the boot sequence got
  machine   \* "ok", or the panic that stopped the machine

vars == <<nodes, count, inUse, pinned, boot, machine>>

WrapLate(p) == IF p > NumPages THEN p - NumPages ELSE p
Wrap(p) == IF p >= NumPages THEN p - NumPages ELSE p
Last(a) == IF a.base + a.size = 0 THEN NumPages - 1 ELSE a.base + a.size - 1
End(a) == Wrap(a.base + a.size)

-----------------------------------------------------------------------------
(* The node that is reused when nothing merges: the first empty one. The   *)
(* walk skips it when it looks for a node to merge with.                   *)
IsEmptyNode(f, i) == f[i].size = 0 /\ \A j \in 1 .. i - 1 : f[j].size # 0
CanMerge(f, i, a) ==
  ~IsEmptyNode(f, i) /\ (f[i].base = End(a) \/ a.base = End(f[i]))

MergedKeepingBase(n, a) == area(n.base, n.size + a.size)
Merged(n, a) ==
  area(IF n.base = End(a) THEN a.base ELSE n.base, n.size + a.size)

(* The list f after the empty node i was overwritten: its next is null. *)
Reuse(f, i, a) == Append(SubSeq(f, 1, i - 1), a)

NodesExhaustedLate(c) == c = MaxNodes + 1
NodesExhausted(c) == c = MaxNodes

(* add_node_to_free_list(a) on the list f. *)
add_node_to_free_list(f, a) ==
  \/ \E i \in 1 .. Len(f) :
       /\ CanMerge(f, i, a)
       /\ \A j \in 1 .. i - 1 : ~CanMerge(f, j, a)
       /\ nodes' = [f EXCEPT ![i] = Merged(f[i], a)]
       /\ UNCHANGED <<count, machine>>
  \/ /\ \A i \in 1 .. Len(f) : ~CanMerge(f, i, a)
     /\ \E i \in 1 .. Len(f) : IsEmptyNode(f, i) /\ nodes' = Reuse(f, i, a)
     /\ UNCHANGED <<count, machine>>
  \/ /\ \A i \in 1 .. Len(f) : ~CanMerge(f, i, a) /\ f[i].size # 0
     /\ count' = count + 1
     /\ IF NodesExhausted(count')
          THEN machine' = "out_of_nodes" /\ nodes' = f
          ELSE nodes' = Append(f, a) /\ UNCHANGED machine

(* The area lies in the node, as remove_from_free_list compares them. *)
Contains(n, a) == a.base >= n.base /\ Last(a) <= Last(n)

Front(n, a) == area(n.base, a.base - n.base)
Rest(n, a) == area(Wrap(Last(a) + 1), Last(n) - Last(a))

remove_from_free_list(a) ==
  IF \E i \in 1 .. Len(nodes) : Contains(nodes[i], a)
  THEN /\ \E i \in 1 .. Len(nodes) :
            /\ Contains(nodes[i], a)
            /\ \A j \in 1 .. i - 1 : ~Contains(nodes[j], a)
            /\ add_node_to_free_list([nodes EXCEPT ![i] = Front(nodes[i], a)],
                                     Rest(nodes[i], a))
       /\ pinned' = pinned \cup {a}
  ELSE machine' = "not_in_list" /\ UNCHANGED <<nodes, count, pinned>>

(* The node f after an area of n pages was taken from its front. *)
ShrunkKeepingBase(f, n) == area(f.base, f.size - n)
Shrunk(f, n) == area(Wrap(f.base + n), f.size - n)

FirstFit(i, n) == nodes[i].size >= n /\ \A j \in 1 .. i - 1 : nodes[j].size < n

get_virtual_pages(n) ==
  \/ /\ \A i \in 1 .. Len(nodes) : nodes[i].size < n
     /\ machine' = "out_of_pages"
     /\ UNCHANGED nodes
  \/ \E i \in 1 .. Len(nodes) :
       /\ FirstFit(i, n)
       /\ nodes' = [nodes EXCEPT ![i] = Shrunk(nodes[i], n)]
       /\ UNCHANGED machine

(* The area it returns, none when it panics. *)
Returned(n) ==
  { area(nodes[i].base, n) : i \in { k \in 1 .. Len(nodes) : FirstFit(k, n) } }

free_virtual_pages(a) == add_node_to_free_list(nodes, a)

-----------------------------------------------------------------------------
(* The areas init() marks free. *)
LowHalf == area(LowEnd, PosEnd - LowEnd + 1)
HighHalf == area(NegStart, KernelStart - NegStart)
AboveKernel == area(KernelEnd, NumPages - KernelEnd)

(* The boot sequence: init(), then alloc::init() takes a page for its      *)
(* list, then paging::finish_init() removes the pages of the page tables.  *)
BootFree == << LowHalf, HighHalf, AboveKernel >>

Booted == boot = 7

Init ==
  /\ nodes = << area(0, 0) >>
  /\ count = 0
  /\ inUse = {}
  /\ pinned = {}
  /\ boot = 1
  /\ machine = "ok"

BootMarkFree ==
  /\ boot <= 3
  /\ add_node_to_free_list(nodes, BootFree[boot])
  /\ UNCHANGED <<inUse, pinned>>

BootRemoveListPage ==
  /\ boot = 4
  /\ remove_from_free_list(area(ListPage, 1))
  /\ UNCHANGED inUse

BootAllocInit ==
  /\ boot = 5
  /\ get_virtual_pages(1)
  /\ pinned' = pinned \cup Returned(1)
  /\ UNCHANGED <<count, inUse>>

BootRemoveTables ==
  /\ boot = 6
  /\ remove_from_free_list(area(TablesBase, TablesSize))
  /\ UNCHANGED inUse

Boot ==
  /\ machine = "ok"
  /\ boot' = boot + 1
  /\ BootMarkFree \/ BootRemoveListPage \/ BootAllocInit \/ BootRemoveTables

Get(n) ==
  /\ machine = "ok" /\ Booted
  /\ get_virtual_pages(n)
  /\ inUse' = inUse \cup Returned(n)
  /\ UNCHANGED <<count, pinned, boot>>

Free(a) ==
  /\ machine = "ok" /\ Booted
  /\ free_virtual_pages(a)
  /\ inUse' = inUse \ {a}
  /\ UNCHANGED <<pinned, boot>>

(* kstd::panic does not return. *)
Panicked == machine # "ok" /\ UNCHANGED vars

Next ==
  \/ Boot
  \/ \E n \in 1..MaxSize : Get(n)
  \/ \E a \in inUse : Free(a)
  \/ Panicked

Spec == Init /\ [][Next]_vars

-----------------------------------------------------------------------------
(* Types of the free list and of the areas around it. *)
TypeOK ==
  /\ nodes \in Seq(Area)
  /\ count \in 0..MaxNodes
  /\ inUse \subseteq Area
  /\ pinned \subseteq Area
  /\ boot \in 1..7
  /\ machine \in {"ok", "out_of_nodes", "out_of_pages", "not_in_list"}

Disjoint(a, b) == a.base + a.size <= b.base \/ b.base + b.size <= a.base
Managed(a) ==
  \E m \in {LowHalf, HighHalf, AboveKernel} :
    m.base <= a.base /\ a.base + a.size <= m.base + m.size

(* No page is in two nodes of the free list, in a node and an area in use, *)
(* or in two areas in use, and all of them are pages init() marked free:   *)
(* get_virtual_pages never hands out a page twice, a page of the kernel or *)
(* of the list, whatever was merged, reused or split before.               *)
NoOverlap ==
  /\ \A i \in 1 .. Len(nodes) : nodes[i].size > 0 =>
       /\ Managed(nodes[i])
       /\ \A j \in 1 .. Len(nodes) : nodes[j].size > 0 /\ j # i => Disjoint(nodes[i], nodes[j])
       /\ \A a \in inUse \cup pinned : Disjoint(nodes[i], a)
  /\ \A a \in inUse \cup pinned :
       /\ Managed(a)
       /\ \A b \in inUse \cup pinned : a # b => Disjoint(a, b)

(* The nodes fit into the page of the list, although truncating the list   *)
(* leaves free_list_size too large and never too small.                    *)
NodesFitInPage == Len(nodes) <= MaxNodes

PagesOf(a) == a.base .. a.base + a.size - 1
FreePages == UNION { PagesOf(nodes[i]) : i \in 1 .. Len(nodes) }
PagesInUse == UNION { PagesOf(a) : a \in inUse \cup pinned }

(* What free_virtual_pages is given is free afterwards, whether it was     *)
(* merged, put into an empty node or into a new one.                       *)
FreedAreaIsFree ==
  [][\A a \in inUse \ inUse' : machine' = "ok" => PagesOf(a) \subseteq FreePages']_vars

(* Every page that is not in use is in the list, where it can be           *)
(* allocated again.                                                        *)
NoPageIsLost ==
  Booted /\ machine = "ok" =>
    FreePages \cup PagesInUse =
      PagesOf(LowHalf) \cup PagesOf(HighHalf) \cup PagesOf(AboveKernel)
=============================================================================

-------------------------------- MODULE Alloc --------------------------------
(***************************************************************************)
(* The heap (alloc.cpp) and the memory it is made of: virtual pages of     *)
(* vma.cpp (module Vma), physical pages of pma.cpp (module Pma) and the    *)
(* page tables of paging.cpp (module Paging), from the boot sequence on.   *)
(*                                                                         *)
(* An allocation has a node in a list that records its frames.  The list   *)
(* lies in pages of its own; a node is a header and one word for each      *)
(* frame, and follows the one before it.  The start of an allocation holds *)
(* a pointer to its node.  malloc_lock keeps calls from interleaving; alloc*)
(* is three steps, one for each call of vma and one for the rest.          *)
(*                                                                         *)
(* Sizes are in pages, except those of the list, which are in words.  The  *)
(* bit b of pma's map stands for the frame Region + BitmapPages + b.       *)
(***************************************************************************)
EXTENDS Pma, Paging, FiniteSetsExt

CONSTANTS
  LowEnd, PosEnd, NegStart, MaxNodes, \* of module Vma
  PageWords,    \* words of a page
  NodeWords,    \* words of a node without its frames: 3 in the code
  MaxSize,      \* bound: pages of the largest request
  MaxFrees,     \* bound: calls of free
  Protections   \* protections the callers ask for

VARIABLES
  free_list, list_size, areas, pinned, vma_boot, vma_machine, \* of module Vma
  nodes,    \* the list: [page, at, size, frames], a killed node has size 0
  header,   \* frame -> the node its first word points to
  live,     \* the allocations not yet freed: [base, size, asked]
  pc,       \* "idle", "node" or "frames": what alloc does next
  request,  \* the allocation that is made
  new,      \* its node
  frees,    \* calls of free
  boot,     \* how far the boot sequence got
  machine   \* "ok", or the assertion that stopped the machine

vma_vars == <<free_list, list_size, areas, pinned, vma_boot, vma_machine>>
pma_vars == <<map, inUse, pma_machine, shift>>
paging_vars == <<entries, static, dynamic, mapped, tlb, paging_machine>>
heap_vars == <<nodes, header, live, pc, request, new, frees, machine>>
vars == <<vma_vars, pma_vars, paging_vars, heap_vars, boot>>

FirstFrame == Region + BitmapPages
Vma == INSTANCE Vma WITH
  nodes <- free_list, count <- list_size, inUse <- areas, boot <- vma_boot,
  machine <- vma_machine,
  KernelStart <- KernelVma + KernelFirst, KernelEnd <- KernelVma + Entries,
  ListPage <- KernelVma + FirstFrame,
  TablesBase <- KernelVma + FirstFrame + 2, TablesSize <- DynamicTables

ASSUME AllocAssumption ==
  /\ BitmapAssumption /\ PmaAssumption /\ PagingAssumption
  /\ Vma!VmaAssumption
  /\ TablePages = DynamicTables /\ BitmapPages = PagesOfBitmap
  /\ {PageWords, NodeWords, MaxSize} \subseteq Nat \ {0}
  /\ MaxFrees \in Nat
  /\ Protections \subseteq {"READ_ONLY", "READ_WRITE", "EXEC"}

Running ==
  machine = "ok" /\ vma_machine = "ok" /\ pma_machine = "ok" /\ paging_machine = "ok"

FramesAt(bits) == [k \in DOMAIN bits |-> FirstFrame + bits[k]]
allocation(base, n, p) == [base |-> base, size |-> n, asked |-> p]
node(page, at, n, frames) ==
  [page |-> page, at |-> at, size |-> n, frames |-> frames]
Words(n) == NodeWords + Len(n.frames)

Init ==
  /\ Vma!Init /\ PmaInit /\ PagingInit
  /\ nodes = << >>
  /\ header = [b \in Bits |-> 0]
  /\ live = {}
  /\ pc = "idle" /\ request = allocation(0, 0, "READ_WRITE") /\ new = 0
  /\ frees = 0
  /\ boot = "protect"
  /\ machine = "ok"

-----------------------------------------------------------------------------
(* The boot sequence of kmain: the protection of the image, pma's bitmap,  *)
(* vma::init, alloc::init, paging::finish_init, the screen and ACPI's area.*)
BootProtect ==
  /\ boot = "protect" /\ boot' = "pma"
  /\ enable_kernel_page_protection
  /\ UNCHANGED <<vma_vars, pma_vars, heap_vars>>

BootPma ==
  /\ boot = "pma" /\ boot' = "vma"
  /\ IdentityMap(Region, BitmapPages)
  /\ UNCHANGED <<vma_vars, pma_vars, heap_vars>>

BootVmaPage ==
  /\ boot = "vma" /\ boot' = "areas"
  /\ Enough(1) /\ Take(Returned(1))
  /\ IdentityMap(FirstFrame + Returned(1)[1], 1)
  /\ UNCHANGED <<vma_vars, heap_vars>>

BootVmaAreas ==
  /\ boot = "areas" /\ Vma!Boot
  /\ boot' = IF vma_boot' = 5 THEN "alloc" ELSE "areas"
  /\ UNCHANGED <<pma_vars, paging_vars, heap_vars>>

(* init: an empty node at the start of the first page of the list. *)
BootAlloc ==
  /\ boot = "alloc" /\ boot' = "tables"
  /\ Enough(1) /\ Take(Returned(1))
  /\ Vma!Boot
  /\ \E a \in Vma!Returned(1) : MapPages(FramesAt(Returned(1)), a.base, {"RW", "XD"})
  /\ nodes' = << node(1, 0, 0, <<>>) >>
  /\ UNCHANGED <<header, live, pc, request, new, frees, machine>>

BootTablePages ==
  /\ boot = "tables" /\ boot' = "vga"
  /\ get_contiguous_physical_pages(TablePages)
  /\ finish_init(FirstFrame + Min(map' \ map))
  /\ Vma!Boot
  /\ UNCHANGED heap_vars

BootDevices ==
  /\ \/ boot = "vga" /\ boot' = "acpi" /\ IdentityMap(VgaFrame, 1)
     \/ boot = "acpi" /\ boot' = "done" /\ IdentityMap(AcpiFrame, AcpiPages)
  /\ UNCHANGED <<vma_vars, pma_vars, heap_vars>>

Boot ==
  /\ Running
  /\ \/ BootProtect \/ BootPma \/ BootVmaPage \/ BootVmaAreas \/ BootAlloc
     \/ BootTablePages \/ BootDevices

-----------------------------------------------------------------------------
(* get_new_allocation for n pages: the first killed node of that many      *)
(* frames, else a node behind the last one or at the start of a new page.  *)
Reusable(i, n) == nodes[i].size = 0 /\ Len(nodes[i].frames) = n
FirstReusable(i, n) == Reusable(i, n) /\ \A j \in 1 .. i - 1 : ~Reusable(j, n)

ListWords == FoldLeft(LAMBDA sum, n : sum + Words(n), 0, nodes)
CrossesPage(n) ==
  ListWords \div PageWords # (ListWords + NodeWords + n) \div PageWords

EndOfLastHeader == nodes[Len(nodes)].at + NodeWords
EndOfLast == nodes[Len(nodes)].at + Words(nodes[Len(nodes)])

(* The list with the node of the new allocation in it, that node's index   *)
(* and how many pages the list takes for it; the frames are not yet known. *)
NoFrames(n) == [i \in 1 .. n |-> 0]
get_new_allocation(n) ==
  IF \E i \in 1 .. Len(nodes) : Reusable(i, n)
    THEN LET i == CHOOSE k \in 1 .. Len(nodes) : FirstReusable(k, n)
         IN  [list |-> [nodes EXCEPT ![i].size = n], new |-> i, taken |-> 0]
  ELSE IF CrossesPage(n)
    THEN [list |-> Append(nodes, node(nodes[Len(nodes)].page + 1, 0, n, NoFrames(n))),
          new |-> Len(nodes) + 1, taken |-> 1]
    ELSE [list |-> Append(nodes, node(nodes[Len(nodes)].page, EndOfLast, n, NoFrames(n))),
          new |-> Len(nodes) + 1, taken |-> 0]

NodeDoesNotFit(n) ==
  /\ \A i \in 1 .. Len(nodes) : ~Reusable(i, n)
  /\ CrossesPage(n)
  /\ ListWords + NodeWords + n > PageWords

(* READ_ONLY falls through to READ_WRITE. *)
Attributes(p) ==
  CASE p = "READ_ONLY" -> {"XD", "RW"} [] p = "READ_WRITE" -> {"RW"} [] p = "EXEC" -> {}

(* alloc takes virtual pages first. *)
AllocVirtual ==
  /\ Running /\ boot = "done" /\ pc = "idle"
  /\ \E n \in 1 .. MaxSize, p \in Protections :
       /\ Vma!Get(n)
       /\ IF Vma!Returned(n) = {} THEN UNCHANGED <<pc, request>>
          ELSE \E a \in Vma!Returned(n) :
                 pc' = "node" /\ request' = allocation(a.base, n, p)
  /\ UNCHANGED <<pma_vars, paging_vars, nodes, header, live, new, frees, boot, machine>>

(* Then it gets a node, in the pages the list has or in a new one. *)
AllocNode ==
  /\ Running /\ pc = "node" /\ ~NodeDoesNotFit(request.size)
  /\ LET got == get_new_allocation(request.size) IN
     /\ nodes' = got.list /\ new' = got.new
     /\ IF got.taken = 0 THEN UNCHANGED <<vma_vars, pma_vars, paging_vars>>
        ELSE IF ~Enough(1) THEN OutOfPhysicalPages /\ UNCHANGED <<vma_vars, paging_vars>>
        ELSE /\ Take(Returned(1))
             /\ Vma!Get(1)
             /\ \E a \in Vma!Returned(1) : MapPages(FramesAt(Returned(1)), a.base, {"RW", "XD"})
  /\ pc' = "frames"
  /\ UNCHANGED <<header, live, request, frees, boot, machine>>

AllocNodeFails ==
  /\ Running /\ pc = "node" /\ NodeDoesNotFit(request.size)
  /\ machine' = "node_does_not_fit"
  /\ UNCHANGED <<vma_vars, pma_vars, paging_vars, nodes, header, live, pc, request, new,
                 frees, boot>>

(* Then frames, which it maps one by one. *)
AllocFrames ==
  /\ Running /\ pc = "frames"
  /\ IF ~Enough(request.size)
     THEN OutOfPhysicalPages /\ UNCHANGED <<paging_vars, nodes, header, live>>
     ELSE LET order == Returned(request.size) IN
          /\ Take(order)
          /\ MapPages(FramesAt(order), request.base, Attributes(request.asked))
          /\ nodes' = [nodes EXCEPT ![new].frames = order]
          /\ header' = [header EXCEPT ![order[1]] = new]
          /\ live' = live \cup {request}
  /\ pc' = "idle"
  /\ UNCHANGED <<vma_vars, request, new, frees, boot, machine>>

-----------------------------------------------------------------------------
(* remove_allocation(i): the walk stops at the node before i. *)
remove_allocation(i) == nodes' = [nodes EXCEPT ![i - 1].size = 0]

PagesOf(base, n) == base .. base + n - 1
FramesOfPrevious(i) == ToSet(nodes[i - 1].frames)
FramesOf(i) == ToSet(nodes[i].frames)

(* What the first word of the page reads, through the page tables. *)
NodeOf(base) == header[Translate(entries, base).to[2] - FirstFrame]

(* free: the area, the frames and the mappings of the node, then the node. *)
PagesOfLastFrame(base, n) == base + n - 1 .. base + n - 1
PagesToUnmap(base, n) == PagesOf(base, n)

Free ==
  /\ Running /\ boot = "done" /\ pc = "idle"
  /\ frees < MaxFrees
  /\ \E a \in live :
       LET i == NodeOf(a.base) IN
       /\ Vma!Free(Vma!area(a.base, nodes[i].size))
       /\ free_physical_pages(FramesOf(i))
       /\ UnmapPages(PagesToUnmap(a.base, Len(nodes[i].frames)))
       /\ remove_allocation(i)
       /\ live' = live \ {a}
  /\ frees' = frees + 1
  /\ UNCHANGED <<header, pc, request, new, boot, machine>>

(* The processor uses a page, at any moment after the tables were loaded   *)
(* into cr3: one of an allocation, or the stack.                           *)
AccessPage ==
  /\ Running /\ boot # "protect"
  /\ \E v \in {StackTop} \cup { a.base : a \in live } : Access(v)
  /\ UNCHANGED <<vma_vars, pma_vars, heap_vars, boot>>

(* The machine stopped. *)
Stopped == ~Running /\ UNCHANGED vars

Next ==
  \/ Boot
  \/ AllocVirtual \/ AllocNode \/ AllocNodeFails \/ AllocFrames
  \/ Free
  \/ AccessPage
  \/ Stopped

Spec == Init /\ [][Next]_vars

-----------------------------------------------------------------------------
(* The nodes of the list do not overlap, although nodes are reused and the *)
(* list grows into new pages: no allocation overwrites the frames another  *)
(* one recorded.                                                           *)
NodesAreDisjoint ==
  \A i \in 1 .. Len(nodes) :
    \A j \in 1 .. i - 1 :
      nodes[i].page = nodes[j].page =>
        nodes[j].at + Words(nodes[j]) <= nodes[i].at

LivePages == UNION { PagesOf(a.base, a.size) : a \in live }

(* Every page of a live allocation is mapped, and vma hands out none of    *)
(* them again; a page vma has free is not mapped: memory goes away when,   *)
(* and only when, it is freed.                                             *)
LivePagesAreMapped ==
  Running /\ boot = "done" =>
    /\ \A v \in LivePages : Translate(entries, v).to # Null
    /\ \A v \in DOMAIN mapped \cap (LowEnd .. PosEnd) : v \notin Vma!FreePages
    /\ LivePages \cap Vma!FreePages = {}

(* No frame backs two pages of the heap, the lists and the page tables, or *)
(* is mapped for one of them while pma has it free: a write to one         *)
(* allocation never changes another, a list or a table.                    *)
OwnPages ==
  { v \in DOMAIN mapped : v >= Entries /\ (v < KernelVma \/ v >= KernelVma + FirstFrame) }
FramesAreUnshared ==
  Running =>
    /\ \A v \in OwnPages : Translate(entries, v).to[2] - FirstFrame \in map
    /\ \A v, w \in OwnPages : Translate(entries, v).to = Translate(entries, w).to => v = w

(* From its protection on, no page of the kernel image is both writable and*)
(* executable, its code is executable, its data is not, and the page below *)
(* the stack stays unmapped, whatever is mapped and unmapped.              *)
ImageIsProtected == boot # "protect" => ImageHasAttributes
=============================================================================

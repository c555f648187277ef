-------------------------------- MODULE Pma --------------------------------
(***************************************************************************)
(* The physical memory allocator (pma.cpp): a bitmap at the start of the   *)
(* largest usable region, one bit for each page behind it.  The pages are  *)
(* numbered as the bits are.  Module Alloc says who takes and frees them.  *)
(***************************************************************************)
EXTENDS Bitmap

CONSTANTS
  RegionPages,  \* max_pages_total: pages of the region
  PageSize,     \* PAGE_SIZE, in bytes
  TablePages    \* MAX_DYNAMIC_TABLES

PmaAssumption ==
  /\ {RegionPages, PageSize, TablePages} \subseteq Nat \ {0}
  /\ Limbs = make(RegionPages)

VARIABLES
  map,         \* physical_page_map: the bits that are set
  inUse,       \* history: how often a page was handed out and not given back
  pma_machine, \* "ok", or the panic or assertion that stopped the machine
  shift        \* what the build made of the undefined shift in find_first

(* early_init: the bitmap takes the first pages of the region. *)
PagesOfBitmap == div_ceil(size_required(RegionPages), PageSize)

PmaInit ==
  /\ map = {}
  /\ inUse = [p \in Bits |-> 0]
  /\ pma_machine = "ok"
  /\ shift \in {"modulo", "whole"}

(* What n calls of get_physical_page return, or those of them that do not  *)
(* panic.                                                                  *)
get_physical_page(got, k) ==
  LET idx == find_first(map \cup ToSet(got), FALSE, shift)
  IN  IF idx = -1 THEN got ELSE Append(got, idx)
Returned(n) ==
  LET Get(got, k) == get_physical_page(got, k) IN FoldLeft(Get, <<>>, [k \in 1 .. n |-> k])
Enough(n) == Len(Returned(n)) = n

Take(pages) ==
  /\ map' = map \cup ToSet(pages)
  /\ inUse' = [p \in Bits |-> inUse[p] + Cardinality({k \in DOMAIN pages : pages[k] = p})]
  /\ UNCHANGED <<pma_machine, shift>>

OutOfPhysicalPages ==
  /\ pma_machine' = "out_of_pages"
  /\ UNCHANGED <<map, inUse, shift>>

Run(idx, n) == [k \in 1 .. n |-> idx + k - 1]
get_contiguous_physical_pages(n) ==
  LET idx == find_first_n(map, FALSE, n) IN
  IF idx = -1 THEN pma_machine' = "no_run" /\ UNCHANGED <<map, inUse, shift>>
  ELSE Take(Run(idx, n))

ResetLimb(pages) == map' = map \ UNION {Limb(p \div LimbBits) : p \in pages}
Reset(pages) == map' = map \ pages

(* free_physical_page, for each of the pages. *)
free_physical_pages(pages) ==
  IF \E p \in pages : ~test(map, p)
  THEN pma_machine' = "never_allocated" /\ UNCHANGED <<map, inUse, shift>>
  ELSE /\ Reset(pages)
       /\ inUse' = [p \in Bits |-> IF p \in pages THEN inUse[p] - 1 ELSE inUse[p]]
       /\ UNCHANGED <<pma_machine, shift>>

-----------------------------------------------------------------------------
(* The bitmap records exactly the pages in use, so none is handed out a    *)
(* second time before it is given back, whatever the undefined shift in    *)
(* find_first does, and freeing one that was handed out never fails the    *)
(* assertion of free_physical_page.                                        *)
MapIsPagesInUse ==
  /\ \A p \in Bits : inUse[p] = IF p \in map THEN 1 ELSE 0
  /\ pma_machine # "never_allocated"
=============================================================================

------------------------------ MODULE VmaProofs ------------------------------
(***************************************************************************)
(* The free list of Vma never overlaps itself or an area in use, and fits  *)
(* into its page, for every layout of the address space the assumption     *)
(* allows.                                                                 *)
(***************************************************************************)
EXTENDS Vma, SequenceTheorems, TLAPS

NodeOK(n) == n \in Area /\ (n.size > 0 => Managed(n))
Clear(n, x) == n.size > 0 /\ x.size > 0 => Disjoint(n, x)

(* The list f is sound beside the areas U. *)
GoodList(f, U) ==
  /\ f \in Seq(Area)
  /\ \A i \in 1 .. Len(f) : NodeOK(f[i])
  /\ \A i, j \in 1 .. Len(f) : i # j => Clear(f[i], f[j])
  /\ \A i \in 1 .. Len(f) : \A u \in U : Clear(f[i], u)

GoodAreas(U) ==
  /\ \A a \in U : a \in Area /\ a.size > 0 /\ Managed(a)
  /\ \A a, b \in U : a # b => Disjoint(a, b)

(* What the boot sequence has built before each of its steps. *)
BelowList == area(KernelEnd, ListPage - KernelEnd)
AboveList == area(ListPage + 1, NumPages - ListPage - 1)

BootInv ==
  /\ boot = 1 => Len(nodes) = 1 /\ nodes[1] = area(0, 0) /\ count = 0
  /\ boot = 2 => Len(nodes) = 1 /\ nodes[1] = LowHalf /\ count = 0
  /\ boot = 3 => /\ Len(nodes) = 2 /\ nodes[1] = LowHalf /\ nodes[2] = HighHalf
                 /\ count = 1
  /\ boot = 4 => /\ Len(nodes) = 3 /\ nodes[1] = LowHalf /\ nodes[2] = HighHalf
                 /\ nodes[3] = AboveKernel /\ count = 2
  /\ boot = 5 => /\ Len(nodes) = 4 /\ nodes[1] = LowHalf /\ nodes[2] = HighHalf
                 /\ nodes[3] = BelowList /\ nodes[4] = AboveList
  /\ boot = 6 => \A i \in 1 .. Len(nodes) : 0 < nodes[i].base
  /\ boot <= 6 => inUse = {}
  /\ boot <= 4 => pinned = {}

IInv ==
  /\ TypeOK
  /\ GoodList(nodes, inUse \cup pinned)
  /\ GoodAreas(inUse \cup pinned)
  /\ inUse \cap pinned = {}
  /\ Len(nodes) <= count + 1
  /\ Len(nodes) <= MaxNodes
  /\ machine = "ok" => count < MaxNodes /\ BootInv

-----------------------------------------------------------------------------
(* The constants are numbers. *)
LEMMA Constants ==
  /\ NumPages \in Nat /\ LowEnd \in Nat /\ PosEnd \in Nat /\ NegStart \in Nat
  /\ KernelStart \in Nat /\ KernelEnd \in Nat /\ ListPage \in Nat
  /\ TablesBase \in Nat /\ TablesSize \in Nat /\ MaxNodes \in Nat /\ MaxSize \in Nat
BY VmaAssumption

(* An area is a pair of numbers. *)
LEMMA AreaFields ==
  ASSUME NEW a \in Area
  PROVE  /\ a.base \in Nat /\ a.base < NumPages
         /\ a.size \in Nat /\ a.size <= NumPages
BY Constants DEF Area

(* The areas of the address space are built from such numbers. *)
LEMMA AreaMake ==
  ASSUME NEW b \in Nat, b < NumPages, NEW s \in Nat, s <= NumPages
  PROVE  area(b, s) \in Area /\ area(b, s).base = b /\ area(b, s).size = s
BY Constants DEF Area, area

(* The bounds of a managed area: one of the three areas init() frees. *)
LEMMA ManagedIs ==
  ASSUME NEW a
  PROVE  Managed(a) <=>
           \/ LowEnd <= a.base /\ a.base + a.size <= LowEnd + (PosEnd - LowEnd + 1)
           \/ NegStart <= a.base /\ a.base + a.size <= NegStart + (KernelStart - NegStart)
           \/ KernelEnd <= a.base /\ a.base + a.size <= KernelEnd + (NumPages - KernelEnd)
<1>1. /\ LowHalf.base = LowEnd /\ LowHalf.size = PosEnd - LowEnd + 1
      /\ HighHalf.base = NegStart /\ HighHalf.size = KernelStart - NegStart
      /\ AboveKernel.base = KernelEnd /\ AboveKernel.size = NumPages - KernelEnd
  BY DEF LowHalf, HighHalf, AboveKernel, area
<1>2. Managed(a) <=>
        \/ LowHalf.base <= a.base /\ a.base + a.size <= LowHalf.base + LowHalf.size
        \/ HighHalf.base <= a.base /\ a.base + a.size <= HighHalf.base + HighHalf.size
        \/ AboveKernel.base <= a.base /\ a.base + a.size <= AboveKernel.base + AboveKernel.size
  BY DEF Managed
<1> QED BY <1>1, <1>2

(* Merging an area with a node it touches yields an area of init()'s that  *)
(* is clear of whatever both were clear of.                                *)
LEMMA MergedGood ==
  ASSUME NEW n, NEW a, NodeOK(n), NodeOK(a), Clear(n, a),
         n.base = End(a) \/ a.base = End(n)
  PROVE  /\ NodeOK(Merged(n, a))
         /\ \A x \in Area : Clear(n, x) /\ Clear(a, x) => Clear(Merged(n, a), x)
<1> DEFINE m == Merged(n, a)
<1>1. n \in Area /\ a \in Area BY DEF NodeOK
<1>2. /\ n.base \in Nat /\ n.base < NumPages /\ n.size \in Nat /\ n.size <= NumPages
      /\ a.base \in Nat /\ a.base < NumPages /\ a.size \in Nat /\ a.size <= NumPages
  BY <1>1, AreaFields
<1>3. CASE a.size = 0
  <2>1. m = area(n.base, n.size) BY <1>2, <1>3, Constants DEF Merged, End, Wrap
  <2>2. m = n BY <2>1, <1>1 DEF area, Area
  <2> QED BY <2>2
<1>4. CASE n.size = 0
  <2>1. m = area(a.base, a.size) BY <1>2, <1>4, Constants DEF Merged, End, Wrap
  <2>2. m = a BY <2>1, <1>1 DEF area, Area
  <2> QED BY <2>2
<1>5. CASE a.size > 0 /\ n.size > 0
  <2>1. Managed(a) /\ Managed(n) BY <1>5 DEF NodeOK
  <2>2. /\ 0 < a.base /\ a.base + a.size <= NumPages
        /\ 0 < n.base /\ n.base + n.size <= NumPages
    BY <2>1, <1>2, ManagedIs, VmaAssumption, Constants
  <2>3. n.base = a.base + a.size \/ (n.base # End(a) /\ a.base = n.base + n.size)
    BY <2>2, <1>2, Constants DEF End, Wrap
  <2>4. CASE n.base = a.base + a.size
    <3>1. n.base = End(a) BY <2>4, <1>2, Constants DEF End, Wrap
    <3>2. m = area(a.base, n.size + a.size) BY <3>1 DEF Merged
    <3>3. n.size + a.size <= NumPages BY <2>2, <2>4, <1>2, Constants
    <3>4. m \in Area /\ m.base = a.base /\ m.size = n.size + a.size
      BY <3>2, <3>3, <1>2, AreaMake
    <3>5. Managed(m) BY <3>4, <2>1, <2>4, <1>2, <1>5, ManagedIs, VmaAssumption, Constants
    <3>6. ASSUME NEW x \in Area, Clear(n, x), Clear(a, x) PROVE Clear(m, x)
      BY <3>4, <3>6, <2>4, <1>2, <1>5, AreaFields DEF Clear, Disjoint
    <3> QED BY <3>4, <3>5, <3>6 DEF NodeOK
  <2>5. CASE n.base # End(a) /\ a.base = n.base + n.size
    <3>2. m = area(n.base, n.size + a.size) BY <2>5 DEF Merged
    <3>3. n.size + a.size <= NumPages BY <2>2, <2>5, <1>2, Constants
    <3>4. m \in Area /\ m.base = n.base /\ m.size = n.size + a.size
      BY <3>2, <3>3, <1>2, AreaMake
    <3>5. Managed(m) BY <3>4, <2>1, <2>5, <1>2, <1>5, ManagedIs, VmaAssumption, Constants
    <3>6. ASSUME NEW x \in Area, Clear(n, x), Clear(a, x) PROVE Clear(m, x)
      BY <3>4, <3>6, <2>5, <1>2, <1>5, AreaFields DEF Clear, Disjoint
    <3> QED BY <3>4, <3>5, <3>6 DEF NodeOK
  <2> QED BY <2>3, <2>4, <2>5
<1> QED BY <1>2, <1>3, <1>4, <1>5

(* Being clear of one another is symmetric. *)
LEMMA ClearSymmetric ==
  ASSUME NEW a, NEW b, Clear(a, b)
  PROVE  Clear(b, a)
BY DEF Clear, Disjoint

-----------------------------------------------------------------------------
Replaced(f, i, m) == [f EXCEPT ![i] = m]

(* Replacing a node of a sound list by one that is clear of the others. *)
LEMMA ReplaceGood ==
  ASSUME NEW f, NEW U, GoodList(f, U), NEW i \in 1 .. Len(f), NEW m, NodeOK(m),
         \A j \in 1 .. Len(f) : j # i => Clear(m, f[j]),
         \A u \in U : Clear(m, u),
         NEW g, g = Replaced(f, i, m)
  PROVE  GoodList(g, U) /\ Len(g) = Len(f)
<1>1. f \in Seq(Area) /\ m \in Area BY DEF GoodList, NodeOK
<1>2. g \in Seq(Area) /\ Len(g) = Len(f) BY <1>1 DEF Replaced
<1>3. \A j \in 1 .. Len(f) : g[j] = IF j = i THEN m ELSE f[j] BY <1>1 DEF Replaced
<1>4. \A j \in 1 .. Len(f) : NodeOK(g[j]) BY <1>3 DEF GoodList
<1>5. ASSUME NEW j \in 1 .. Len(f), NEW k \in 1 .. Len(f), j # k
      PROVE  Clear(g[j], g[k])
  <2>1. CASE j = i BY <2>1, <1>3, <1>5
  <2>2. CASE k = i BY <2>2, <1>3, <1>5, ClearSymmetric
  <2>3. CASE j # i /\ k # i BY <2>3, <1>3, <1>5 DEF GoodList
  <2> QED BY <2>1, <2>2, <2>3
<1>6. \A j \in 1 .. Len(f) : \A u \in U : Clear(g[j], u) BY <1>3 DEF GoodList
<1>7. GoodList(g, U) BY <1>2, <1>4, <1>5, <1>6 DEF GoodList
<1> QED BY <1>2, <1>7

(* Appending a node that is clear of the list. *)
LEMMA AppendGood ==
  ASSUME NEW f, NEW U, GoodList(f, U), NEW m, NodeOK(m),
         \A j \in 1 .. Len(f) : Clear(m, f[j]),
         \A u \in U : Clear(m, u)
  PROVE  GoodList(Append(f, m), U) /\ Len(Append(f, m)) = Len(f) + 1
<1> DEFINE g == Append(f, m)
<1>1. f \in Seq(Area) /\ m \in Area BY DEF GoodList, NodeOK
<1>2. g \in Seq(Area) /\ Len(g) = Len(f) + 1 BY <1>1
<1>3. Len(f) \in Nat BY <1>1
<1>4. /\ \A j \in 1 .. Len(f) : g[j] = f[j]
      /\ g[Len(f) + 1] = m
  BY <1>1
<1>5. \A j \in 1 .. Len(g) : j \in 1 .. Len(f) \/ j = Len(f) + 1 BY <1>2, <1>3
<1> HIDE DEF g
<1>6. \A j \in 1 .. Len(g) : NodeOK(g[j]) BY <1>4, <1>5 DEF GoodList
<1>7. ASSUME NEW j \in 1 .. Len(g), NEW k \in 1 .. Len(g), j # k
      PROVE  Clear(g[j], g[k])
  <2>1. CASE j = Len(f) + 1
    <3>1. k \in 1 .. Len(f) BY <2>1, <1>5, <1>7
    <3> QED BY <3>1, <2>1, <1>4
  <2>2. CASE k = Len(f) + 1
    <3>1. j \in 1 .. Len(f) BY <2>2, <1>5, <1>7
    <3> QED BY <3>1, <2>2, <1>4, ClearSymmetric
  <2>3. CASE j \in 1 .. Len(f) /\ k \in 1 .. Len(f) BY <2>3, <1>4, <1>7 DEF GoodList
  <2> QED BY <1>5, <2>1, <2>2, <2>3
<1>8. \A j \in 1 .. Len(g) : \A u \in U : Clear(g[j], u) BY <1>4, <1>5 DEF GoodList
<1>9. GoodList(g, U) BY <1>2, <1>6, <1>7, <1>8 DEF GoodList
<1> QED BY <1>2, <1>9 DEF g

(* A truncated list is sound. *)
LEMMA PrefixGood ==
  ASSUME NEW f, NEW U, GoodList(f, U), NEW k \in Nat, k <= Len(f)
  PROVE  /\ GoodList(SubSeq(f, 1, k), U)
         /\ Len(SubSeq(f, 1, k)) = k
         /\ \A j \in 1 .. k : SubSeq(f, 1, k)[j] = f[j]
<1> DEFINE g == SubSeq(f, 1, k)
<1>1. f \in Seq(Area) /\ Len(f) \in Nat BY DEF GoodList
<1>2. g \in Seq(Area) /\ Len(g) = k BY <1>1
<1>3. \A j \in 1 .. k : j \in 1 .. Len(f) /\ g[j] = f[j] BY <1>1
<1> HIDE DEF g
<1>4. GoodList(g, U) BY <1>2, <1>3 DEF GoodList
<1> QED BY <1>2, <1>3, <1>4 DEF g

(* add_node_to_free_list keeps the list sound, whichever way it takes. *)
LEMMA AddNodeGood ==
  ASSUME NEW f, NEW U, GoodList(f, U), U \subseteq Area,
         NEW a, NodeOK(a),
         \A j \in 1 .. Len(f) : Clear(a, f[j]),
         \A u \in U : Clear(a, u),
         count \in 0 .. MaxNodes - 1, Len(f) <= count + 1, Len(f) <= MaxNodes,
         machine = "ok",
         add_node_to_free_list(f, a)
  PROVE  /\ GoodList(nodes', U)
         /\ count' \in 0 .. MaxNodes
         /\ Len(nodes') <= count' + 1
         /\ Len(nodes') <= MaxNodes
         /\ machine' \in {"ok", "out_of_nodes"}
         /\ machine' = "ok" => count' < MaxNodes
<1>1. f \in Seq(Area) /\ Len(f) \in Nat BY DEF GoodList
<1>2. CASE \E i \in 1 .. Len(f) :
             /\ CanMerge(f, i, a)
             /\ nodes' = [f EXCEPT ![i] = Merged(f[i], a)]
             /\ UNCHANGED <<count, machine>>
  <2>1. PICK i \in 1 .. Len(f) :
             /\ CanMerge(f, i, a)
             /\ nodes' = [f EXCEPT ![i] = Merged(f[i], a)]
             /\ UNCHANGED <<count, machine>>
    BY <1>2
  <2>2. NodeOK(f[i]) BY DEF GoodList
  <2>3. Clear(f[i], a) BY ClearSymmetric
  <2>4. f[i].base = End(a) \/ a.base = End(f[i]) BY <2>1 DEF CanMerge
  <2>5. NodeOK(Merged(f[i], a)) BY <2>2, <2>3, <2>4, MergedGood
  <2>6. \A x \in Area : Clear(f[i], x) /\ Clear(a, x) => Clear(Merged(f[i], a), x)
    BY <2>2, <2>3, <2>4, MergedGood
  <2>7. \A j \in 1 .. Len(f) : j # i => Clear(Merged(f[i], a), f[j])
    BY <2>6, <1>1 DEF GoodList
  <2>8. \A u \in U : Clear(Merged(f[i], a), u) BY <2>6 DEF GoodList
  <2> DEFINE m == Merged(f[i], a)
  <2>m. /\ NodeOK(m)
        /\ \A j \in 1 .. Len(f) : j # i => Clear(m, f[j])
        /\ \A u \in U : Clear(m, u)
        /\ nodes' = Replaced(f, i, m)
    BY <2>1, <2>5, <2>7, <2>8 DEF Replaced
  <2> HIDE DEF m
  <2>9. GoodList(nodes', U) /\ Len(nodes') = Len(f)
    BY <2>m, ReplaceGood
  <2>10. count' = count /\ machine' = machine BY <2>1
  <2> QED BY <2>9, <2>10, <1>1, Constants
<1>3. CASE \E i \in 1 .. Len(f) : /\ IsEmptyNode(f, i) /\ nodes' = Reuse(f, i, a)
                                  /\ UNCHANGED <<count, machine>>
  <2>1. PICK i \in 1 .. Len(f) : /\ nodes' = Append(SubSeq(f, 1, i - 1), a)
                                 /\ UNCHANGED <<count, machine>>
    BY <1>3 DEF Reuse
  <2>2. i - 1 \in Nat /\ i - 1 <= Len(f) BY <1>1
  <2>3. /\ GoodList(SubSeq(f, 1, i - 1), U)
        /\ Len(SubSeq(f, 1, i - 1)) = i - 1
        /\ \A j \in 1 .. i - 1 : SubSeq(f, 1, i - 1)[j] = f[j]
    BY <2>2, PrefixGood
  <2>4. \A j \in 1 .. i - 1 : j \in 1 .. Len(f) BY <1>1
  <2>5. \A j \in 1 .. Len(SubSeq(f, 1, i - 1)) : Clear(a, SubSeq(f, 1, i - 1)[j])
    BY <2>3, <2>4
  <2>6. GoodList(nodes', U) /\ Len(nodes') = Len(SubSeq(f, 1, i - 1)) + 1
    BY <2>1, <2>3, <2>5, AppendGood
  <2> QED BY <2>1, <2>3, <2>6, <1>1, Constants
<1>4. CASE /\ count' = count + 1
           /\ IF NodesExhausted(count')
                THEN machine' = "out_of_nodes" /\ nodes' = f
                ELSE nodes' = Append(f, a) /\ UNCHANGED machine
  <2>1. CASE count' = MaxNodes BY <2>1, <1>4, <1>1, Constants DEF NodesExhausted
  <2>2. CASE count' # MaxNodes
    <3>1. GoodList(nodes', U) /\ Len(nodes') = Len(f) + 1
      BY <2>2, <1>4, AppendGood DEF NodesExhausted
    <3> QED BY <3>1, <2>2, <1>4, <1>1, Constants DEF NodesExhausted
  <2> QED BY <2>1, <2>2
<1> QED BY <1>2, <1>3, <1>4 DEF add_node_to_free_list

-----------------------------------------------------------------------------
(* The area taken from the front of a node, and what remains of the node. *)
LEMMA TakenGood ==
  ASSUME NEW x, NodeOK(x), NEW n \in Nat, n > 0, n <= x.size
  PROVE  /\ area(x.base, n) \in Area /\ area(x.base, n).size = n
         /\ Managed(area(x.base, n))
         /\ NodeOK(Shrunk(x, n))
         /\ \A y \in Area : Clear(x, y) => /\ Clear(Shrunk(x, n), y)
                                          /\ Clear(area(x.base, n), y)
         /\ Clear(Shrunk(x, n), area(x.base, n))
<1> DEFINE a == area(x.base, n)
           m == Shrunk(x, n)
           b == Wrap(x.base + n)
<1>1. x \in Area BY DEF NodeOK
<1>2. x.base \in Nat /\ x.base < NumPages /\ x.size \in Nat /\ x.size <= NumPages
  BY <1>1, AreaFields
<1>3. Managed(x) BY <1>2 DEF NodeOK
<1>4. x.base + x.size <= NumPages BY <1>2, <1>3, ManagedIs, VmaAssumption, Constants
<1>5. a \in Area /\ a.base = x.base /\ a.size = n
  <2>1. n <= NumPages BY <1>2, Constants
  <2> QED BY <2>1, <1>2, AreaMake
<1>6. b \in Nat /\ b < NumPages /\ (n < x.size => b = x.base + n)
  BY <1>2, <1>4, Constants DEF Wrap
<1>7. m = area(b, x.size - n) BY DEF Shrunk
<1> HIDE DEF a, b
<1>8. m \in Area /\ m.base = b /\ m.size = x.size - n
  <2>1. x.size - n \in Nat /\ x.size - n <= NumPages BY <1>2, Constants
  <2> QED BY <2>1, <1>6, <1>7, AreaMake
<1> HIDE DEF m
<1>9. Managed(a) BY <1>2, <1>3, <1>5, ManagedIs, Constants
<1>10. m.size > 0 => Managed(m) BY <1>2, <1>3, <1>6, <1>8, ManagedIs, Constants
<1>11. NodeOK(m) BY <1>8, <1>10 DEF NodeOK
<1>12. ASSUME NEW y \in Area, Clear(x, y) PROVE Clear(m, y) /\ Clear(a, y)
  BY <1>12, <1>2, <1>5, <1>6, <1>8, AreaFields DEF Clear, Disjoint
<1>13. Clear(m, a) BY <1>2, <1>5, <1>6, <1>8 DEF Clear, Disjoint
<1> QED BY <1>5, <1>9, <1>11, <1>12, <1>13 DEF a, m

(* get_virtual_pages takes its area from the list: the rest of the list    *)
(* stays sound beside the area, and nobody uses the area.                  *)
LEMMA GetGood ==
  ASSUME NEW U, GoodList(nodes, U), GoodAreas(U), NEW n \in Nat, n > 0,
         machine = "ok", get_virtual_pages(n)
  PROVE  /\ GoodList(nodes', U \cup Returned(n))
         /\ GoodAreas(U \cup Returned(n))
         /\ Returned(n) \cap U = {}
         /\ Len(nodes') = Len(nodes)
         /\ machine' \in {"ok", "out_of_pages"}
<1>1. nodes \in Seq(Area) /\ Len(nodes) \in Nat BY DEF GoodList
<1>2. CASE /\ \A i \in 1 .. Len(nodes) : nodes[i].size < n
           /\ machine' = "out_of_pages"
           /\ UNCHANGED nodes
  <2>1. \A i \in 1 .. Len(nodes) : nodes[i] \in Area BY <1>1
  <2>2. \A i \in 1 .. Len(nodes) : ~(nodes[i].size >= n) BY <1>2, <2>1, AreaFields
  <2>3. Returned(n) = {} BY <2>2 DEF Returned, FirstFit
  <2> QED BY <1>2, <2>3
<1>3. CASE \E i \in 1 .. Len(nodes) :
             /\ FirstFit(i, n)
             /\ nodes' = [nodes EXCEPT ![i] = Shrunk(nodes[i], n)]
             /\ UNCHANGED machine
  <2>1. PICK i \in 1 .. Len(nodes) :
             /\ FirstFit(i, n)
             /\ nodes' = [nodes EXCEPT ![i] = Shrunk(nodes[i], n)]
             /\ UNCHANGED machine
    BY <1>3
  <2> DEFINE x == nodes[i]
             a == area(x.base, n)
             m == Shrunk(x, n)
  <2>2. NodeOK(x) BY DEF GoodList
  <2>3. n <= x.size BY <2>1, <1>1, AreaFields DEF FirstFit
  <2>5. a \in Area /\ a.size = n /\ Managed(a) BY <2>2, <2>3, TakenGood
  <2>8. NodeOK(m) BY <2>2, <2>3, TakenGood
  <2>9. \A y \in Area : Clear(x, y) => Clear(m, y) /\ Clear(a, y)
    BY <2>2, <2>3, TakenGood
  <2>10. Clear(m, a) BY <2>2, <2>3, TakenGood
  <2>11. \A k \in 1 .. Len(nodes) : FirstFit(k, n) => k = i
    BY <2>1, <1>1, AreaFields DEF FirstFit
  <2>12. Returned(n) = {a}
    BY <2>1, <2>11 DEF Returned
  <2>13. U \subseteq Area /\ \A u \in U : u.size > 0 BY DEF GoodAreas
  <2>14. \A u \in U : Clear(x, u) BY DEF GoodList
  <2>15. \A u \in U : Clear(a, u) /\ Clear(m, u) BY <2>9, <2>13, <2>14
  <2>16. \A j \in 1 .. Len(nodes) : j # i => Clear(x, nodes[j]) /\ nodes[j] \in Area
    BY <1>1 DEF GoodList
  <2>17. \A j \in 1 .. Len(nodes) : j # i => Clear(m, nodes[j]) /\ Clear(a, nodes[j])
    BY <2>9, <2>16
  <2>18. nodes' = Replaced(nodes, i, m) BY <2>1 DEF Replaced
  <2> HIDE DEF x, a, m
  <2>19. GoodList(nodes', U) /\ Len(nodes') = Len(nodes)
    BY <2>8, <2>15, <2>17, <2>18, ReplaceGood
  <2>20. \A j \in 1 .. Len(nodes) : nodes'[j] = IF j = i THEN m ELSE nodes[j]
    BY <2>18, <1>1 DEF Replaced
  <2>21. \A j \in 1 .. Len(nodes') : Clear(nodes'[j], a)
    BY <2>10, <2>17, <2>19, <2>20, ClearSymmetric
  <2>22. GoodList(nodes', U \cup {a}) BY <2>19, <2>21 DEF GoodList
  <2>23. \A u \in U : Disjoint(a, u) /\ Disjoint(u, a)
    BY <2>5, <2>13, <2>15 DEF Clear, Disjoint
  <2>24. a \notin U BY <2>5, <2>23, AreaFields DEF Disjoint
  <2>25. GoodAreas(U \cup {a}) BY <2>5, <2>23 DEF GoodAreas
  <2> QED BY <2>1, <2>12, <2>19, <2>22, <2>24, <2>25
<1> QED BY <1>2, <1>3 DEF get_virtual_pages

(* What remain of a node on both sides of an area that lies in it. *)
LEMMA SplitGood ==
  ASSUME NEW n, NodeOK(n), 0 < n.base, NEW a \in Area, 0 < a.size,
         a.base + a.size < NumPages, Contains(n, a)
  PROVE  /\ Managed(a) /\ NodeOK(Front(n, a)) /\ NodeOK(Rest(n, a))
         /\ Clear(Front(n, a), a) /\ Clear(Rest(n, a), a)
         /\ Clear(Rest(n, a), Front(n, a))
         /\ \A y \in Area : Clear(n, y) => /\ Clear(Front(n, a), y)
                                           /\ Clear(Rest(n, a), y)
                                           /\ Clear(a, y)
<1> DEFINE f == Front(n, a)
           r == Rest(n, a)
<1>1. n \in Area BY DEF NodeOK
<1>2. /\ n.base \in Nat /\ n.base < NumPages /\ n.size \in Nat /\ n.size <= NumPages
      /\ a.base \in Nat /\ a.base < NumPages /\ a.size \in Nat /\ a.size <= NumPages
  BY <1>1, AreaFields
<1>3. Last(n) = n.base + n.size - 1 /\ Last(a) = a.base + a.size - 1
  BY <1>2 DEF Last
<1>4. n.base <= a.base /\ a.base + a.size <= n.base + n.size
  BY <1>2, <1>3 DEF Contains
<1>5. Managed(n) BY <1>2, <1>4 DEF NodeOK
<1>6. n.base + n.size <= NumPages BY <1>2, <1>5, ManagedIs, VmaAssumption, Constants
<1>7. f \in Area /\ f.base = n.base /\ f.size = a.base - n.base
  <2>1. a.base - n.base \in Nat /\ a.base - n.base <= NumPages BY <1>2, <1>4, Constants
  <2> QED BY <2>1, <1>2, AreaMake DEF Front
<1>8. r \in Area /\ r.base = a.base + a.size /\ r.size = n.base + n.size - (a.base + a.size)
  <2> DEFINE s == n.base + n.size - (a.base + a.size)
  <2>1. s \in Nat /\ s <= NumPages BY <1>2, <1>4, <1>6, Constants
  <2>2. Wrap(Last(a) + 1) = a.base + a.size BY <1>2, <1>3, Constants DEF Wrap
  <2>3. Last(n) - Last(a) = s BY <1>2, <1>3
  <2>4. r = area(a.base + a.size, s) BY <2>2, <2>3 DEF Rest
  <2> HIDE DEF r, s
  <2>5. a.base + a.size \in Nat BY <1>2
  <2>6. r \in Area /\ r.base = a.base + a.size /\ r.size = s BY <2>1, <2>4, <2>5, AreaMake
  <2> QED BY <2>6 DEF s
<1> HIDE DEF f, r
<1>9. Managed(a) BY <1>2, <1>4, <1>5, ManagedIs, Constants
<1>10. f.size > 0 => Managed(f) BY <1>2, <1>4, <1>5, <1>7, ManagedIs, Constants
<1>11. r.size > 0 => Managed(r) BY <1>2, <1>4, <1>5, <1>8, ManagedIs, Constants
<1>12. Clear(f, a) /\ Clear(r, a) /\ Clear(r, f)
  BY <1>2, <1>4, <1>7, <1>8 DEF Clear, Disjoint
<1>13. ASSUME NEW y \in Area, Clear(n, y) PROVE Clear(f, y) /\ Clear(r, y) /\ Clear(a, y)
  BY <1>13, <1>2, <1>4, <1>7, <1>8, AreaFields DEF Clear, Disjoint
<1> QED BY <1>7, <1>8, <1>9, <1>10, <1>11, <1>12, <1>13 DEF NodeOK, f, r

(* remove_from_free_list leaves a list that is sound beside the area. *)
LEMMA RemoveGood ==
  ASSUME NEW U, GoodList(nodes, U), GoodAreas(U),
         \A i \in 1 .. Len(nodes) : 0 < nodes[i].base,
         NEW a \in Area, 0 < a.size, a.base + a.size < NumPages,
         count \in 0 .. MaxNodes - 1, Len(nodes) <= count + 1, Len(nodes) <= MaxNodes,
         machine = "ok", remove_from_free_list(a)
  PROVE  /\ count' \in 0 .. MaxNodes
         /\ Len(nodes') <= count' + 1
         /\ Len(nodes') <= MaxNodes
         /\ \/ /\ machine' = "not_in_list" /\ pinned' = pinned /\ nodes' = nodes
            \/ /\ GoodList(nodes', U \cup {a})
               /\ GoodAreas(U \cup {a})
               /\ a \notin U
               /\ pinned' = pinned \cup {a}
               /\ machine' \in {"ok", "out_of_nodes"}
               /\ machine' = "ok" => count' < MaxNodes
<1>1. nodes \in Seq(Area) /\ Len(nodes) \in Nat BY DEF GoodList
<1>2. CASE ~ \E i \in 1 .. Len(nodes) : Contains(nodes[i], a)
  <2>1. machine' = "not_in_list" /\ UNCHANGED <<nodes, count, pinned>>
    BY <1>2 DEF remove_from_free_list
  <2> QED BY <2>1, Constants
<1>3. CASE \E i \in 1 .. Len(nodes) : Contains(nodes[i], a)
  <2>1. PICK i \in 1 .. Len(nodes) :
          /\ Contains(nodes[i], a)
          /\ add_node_to_free_list([nodes EXCEPT ![i] = Front(nodes[i], a)],
                                   Rest(nodes[i], a))
    BY <1>3 DEF remove_from_free_list
  <2>2. pinned' = pinned \cup {a} BY <1>3 DEF remove_from_free_list
  <2> DEFINE x == nodes[i]
             f == Front(x, a)
             r == Rest(x, a)
             g == Replaced(nodes, i, f)
             V == U \cup {a}
  <2>3. NodeOK(x) /\ 0 < x.base /\ Contains(x, a) BY <2>1 DEF GoodList
  <2>4. /\ Managed(a) /\ NodeOK(f) /\ NodeOK(r)
        /\ Clear(f, a) /\ Clear(r, a) /\ Clear(r, f)
        /\ \A y \in Area : Clear(x, y) => Clear(f, y) /\ Clear(r, y) /\ Clear(a, y)
    BY <2>3, SplitGood
  <2>5. add_node_to_free_list(g, r) BY <2>1 DEF Replaced
  <2>6. g = Replaced(nodes, i, f) OBVIOUS
  <2>7. U \subseteq Area /\ V \subseteq Area /\ \A u \in U : u.size > 0 BY DEF GoodAreas
  <2>8. \A j \in 1 .. Len(nodes) : j # i => nodes[j] \in Area /\ Clear(x, nodes[j])
    BY <1>1 DEF GoodList
  <2>9. \A u \in U : Clear(x, u) BY DEF GoodList
  <2> HIDE DEF x, f, r, g
  <2>10. \A j \in 1 .. Len(nodes) : j # i =>
           Clear(f, nodes[j]) /\ Clear(r, nodes[j]) /\ Clear(a, nodes[j])
    BY <2>4, <2>8
  <2>11. \A u \in U : Clear(f, u) /\ Clear(r, u) /\ Clear(a, u) BY <2>4, <2>7, <2>9
  <2>12. GoodList(g, U) /\ Len(g) = Len(nodes)
    BY <2>4, <2>6, <2>10, <2>11, ReplaceGood
  <2>13. \A j \in 1 .. Len(g) : g[j] = IF j = i THEN f ELSE nodes[j]
    BY <2>6, <2>12, <1>1 DEF Replaced
  <2>14. \A j \in 1 .. Len(g) : Clear(r, g[j]) /\ Clear(g[j], a)
    BY <2>4, <2>10, <2>12, <2>13, ClearSymmetric
  <2>15. GoodList(g, V) BY <2>12, <2>14 DEF GoodList
  <2>16. \A u \in V : Clear(r, u) BY <2>4, <2>11
  <2> HIDE DEF V
  <2>17. /\ GoodList(nodes', V)
         /\ count' \in 0 .. MaxNodes
         /\ Len(nodes') <= count' + 1
         /\ Len(nodes') <= MaxNodes
         /\ machine' \in {"ok", "out_of_nodes"}
         /\ machine' = "ok" => count' < MaxNodes
    BY <2>4, <2>5, <2>7, <2>12, <2>14, <2>15, <2>16, AddNodeGood
  <2>18. \A u \in U : Disjoint(a, u) /\ Disjoint(u, a)
    BY <2>7, <2>11 DEF Clear, Disjoint
  <2>19. a \notin U BY <2>18, AreaFields DEF Disjoint
  <2>20. GoodAreas(V) BY <2>4, <2>18 DEF GoodAreas, V
  <2> QED BY <2>2, <2>17, <2>19, <2>20 DEF V
<1> QED BY <1>2, <1>3

-----------------------------------------------------------------------------
(* The areas of the boot sequence. *)
LEMMA BootAreas ==
  /\ LowHalf \in Area /\ LowHalf.base = LowEnd /\ LowHalf.size = PosEnd - LowEnd + 1
  /\ HighHalf \in Area /\ HighHalf.base = NegStart /\ HighHalf.size = KernelStart - NegStart
  /\ AboveKernel \in Area /\ AboveKernel.base = KernelEnd
  /\ AboveKernel.size = NumPages - KernelEnd
  /\ BelowList \in Area /\ BelowList.base = KernelEnd
  /\ BelowList.size = ListPage - KernelEnd
  /\ AboveList \in Area /\ AboveList.base = ListPage + 1
  /\ AboveList.size = NumPages - ListPage - 1
  /\ area(ListPage, 1) \in Area /\ area(ListPage, 1).base = ListPage
  /\ area(ListPage, 1).size = 1
  /\ area(TablesBase, TablesSize) \in Area
  /\ area(TablesBase, TablesSize).base = TablesBase
  /\ area(TablesBase, TablesSize).size = TablesSize
  /\ area(0, 0) \in Area /\ area(0, 0).base = 0 /\ area(0, 0).size = 0
BY Constants, VmaAssumption
   DEF Area, area, LowHalf, HighHalf, AboveKernel, BelowList, AboveList

(* The areas init() marks free are good nodes. *)
LEMMA BootNodesOK ==
  NodeOK(LowHalf) /\ NodeOK(HighHalf) /\ NodeOK(AboveKernel) /\ NodeOK(area(0, 0))
<1>1. Managed(LowHalf) BY BootAreas, ManagedIs, Constants, VmaAssumption
<1>2. Managed(HighHalf) BY BootAreas, ManagedIs, Constants, VmaAssumption
<1>3. Managed(AboveKernel) BY BootAreas, ManagedIs, Constants, VmaAssumption
<1> QED BY <1>1, <1>2, <1>3, BootAreas DEF NodeOK

(* The three areas marked free are neither adjacent nor overlapping. *)
LEMMA BootApart ==
  /\ Clear(LowHalf, area(0, 0)) /\ Clear(HighHalf, LowHalf)
  /\ Clear(AboveKernel, LowHalf) /\ Clear(AboveKernel, HighHalf)
  /\ LowHalf.base # End(HighHalf) /\ HighHalf.base # End(LowHalf)
  /\ LowHalf.base # End(AboveKernel) /\ AboveKernel.base # End(LowHalf)
  /\ HighHalf.base # End(AboveKernel) /\ AboveKernel.base # End(HighHalf)
  /\ LowHalf.size # 0 /\ HighHalf.size # 0 /\ AboveKernel.size # 0
<1>1. /\ Clear(LowHalf, area(0, 0)) /\ Clear(HighHalf, LowHalf)
      /\ Clear(AboveKernel, LowHalf) /\ Clear(AboveKernel, HighHalf)
  BY BootAreas, Constants, VmaAssumption DEF Clear, Disjoint
<1>2. End(LowHalf) = PosEnd + 1 /\ End(HighHalf) = KernelStart /\ End(AboveKernel) = 0
  BY BootAreas, Constants, VmaAssumption DEF End, Wrap
<1> QED BY <1>1, <1>2, BootAreas, Constants, VmaAssumption

(* Append, element by element. *)
LEMMA AppendIs ==
  ASSUME NEW f \in Seq(Area), NEW a \in Area
  PROVE  /\ Len(Append(f, a)) = Len(f) + 1
         /\ Append(f, a)[Len(f) + 1] = a
         /\ \A i \in 1 .. Len(f) : Append(f, a)[i] = f[i]
OBVIOUS

(* Replacing, element by element. *)
LEMMA ReplacedIs ==
  ASSUME NEW f \in Seq(Area), NEW k \in 1 .. Len(f), NEW m \in Area
  PROVE  /\ Replaced(f, k, m) \in Seq(Area)
         /\ Len(Replaced(f, k, m)) = Len(f)
         /\ Replaced(f, k, m)[k] = m
         /\ \A i \in 1 .. Len(f) : i # k => Replaced(f, k, m)[i] = f[i]
BY DEF Replaced

(* init() marks the three areas free, each in a node of its own. *)
LEMMA MarkFreeStep ==
  ASSUME IInv, machine = "ok", boot' = boot + 1, BootMarkFree
  PROVE  IInv'
<1> USE DEF IInv, TypeOK
<1>1. /\ inUse = {} /\ pinned = {} /\ inUse' = {} /\ pinned' = {}
      /\ inUse \cup pinned = {} /\ inUse' \cup pinned' = {}
  BY DEF BootMarkFree, BootInv
<1>2. boot \in 1..3 /\ boot' \in 2..4 /\ boot' = boot + 1 BY DEF BootMarkFree
<1>3. add_node_to_free_list(nodes, BootFree[boot]) BY DEF BootMarkFree
<1>4. /\ count \in 0 .. MaxNodes - 1 /\ Len(nodes) <= count + 1 /\ Len(nodes) <= MaxNodes
  BY Constants
<1>n. nodes \in Seq(Area) OBVIOUS
<1>5. ASSUME NEW a, BootFree[boot] = a, NodeOK(a),
             \A j \in 1 .. Len(nodes) : Clear(a, nodes[j]),
             BootInv'
      PROVE  IInv'
  <2>1. GoodList(nodes, {}) BY <1>1
  <2>2. {} \subseteq Area OBVIOUS
  <2>3. add_node_to_free_list(nodes, a) BY <1>3, <1>5
  <2>4. /\ GoodList(nodes', {})
        /\ count' \in 0 .. MaxNodes
        /\ Len(nodes') <= count' + 1
        /\ Len(nodes') <= MaxNodes
        /\ machine' \in {"ok", "out_of_nodes"}
        /\ machine' = "ok" => count' < MaxNodes
    BY <2>1, <2>2, <2>3, <1>4, <1>5, AddNodeGood
  <2>5. nodes' \in Seq(Area) BY <2>4 DEF GoodList
  <2>6. GoodAreas({}) BY DEF GoodAreas
  <2>7. inUse' \subseteq Area /\ pinned' \subseteq Area /\ boot' \in 1..7 BY <1>1, <1>2
  <2>8. GoodList(nodes', inUse' \cup pinned') /\ GoodAreas(inUse' \cup pinned')
    BY <2>4, <2>6, <1>1
  <2>9. inUse' \cap pinned' = {} BY <1>1
  <2>10. TypeOK' BY <2>4, <2>5, <2>7
  <2> QED BY <2>4, <2>8, <2>9, <2>10, <1>5 DEF GoodList, GoodAreas, NodeOK, Clear
<1>6. CASE boot = 1
  <2>1. Len(nodes) = 1 /\ nodes[1] = area(0, 0) /\ count = 0 BY <1>6 DEF BootInv
  <2>2. BootFree[boot] = LowHalf BY <1>6 DEF BootFree
  <2>3. Len(nodes) = 1 /\ nodes[1] = area(0, 0) BY <2>1
  <2>4. \A j \in 1 .. Len(nodes) : Clear(LowHalf, nodes[j]) BY <2>3, BootApart
  <2>5. IsEmptyNode(nodes, 1) BY <2>3, BootAreas DEF IsEmptyNode
  <2>6. \A i \in 1 .. Len(nodes) : ~CanMerge(nodes, i, LowHalf) BY <2>3, <2>5 DEF CanMerge
  <2>7. nodes[1].size = 0 BY <2>3, BootAreas
  <2>8. nodes' = Reuse(nodes, 1, LowHalf) /\ count' = count
    BY <1>3, <2>2, <2>3, <2>6, <2>7 DEF add_node_to_free_list
  <2>9. Len(nodes') = 1 /\ nodes'[1] = LowHalf BY <2>1, <2>8 DEF Reuse
  <2>10. BootInv' BY <2>1, <2>8, <2>9, <1>1, <1>2, <1>6 DEF BootInv
  <2> QED BY <1>5, <2>2, <2>4, <2>10, BootNodesOK
<1>7. CASE boot = 2
  <2>1. Len(nodes) = 1 /\ nodes[1] = LowHalf /\ count = 0 BY <1>7 DEF BootInv
  <2>2. BootFree[boot] = HighHalf BY <1>7 DEF BootFree
  <2>3. Len(nodes) = 1 /\ nodes[1] = LowHalf BY <2>1
  <2>4. \A j \in 1 .. Len(nodes) : Clear(HighHalf, nodes[j]) BY <2>3, BootApart
  <2>6. \A i \in 1 .. Len(nodes) : ~CanMerge(nodes, i, HighHalf) BY <2>3, BootApart DEF CanMerge
  <2>7. \A i \in 1 .. Len(nodes) : nodes[i].size # 0 BY <2>3, BootApart
  <2>8. nodes' = Append(nodes, HighHalf) /\ count' = 1
    BY <1>3, <2>1, <2>2, <2>6, <2>7, Constants, VmaAssumption
       DEF add_node_to_free_list, IsEmptyNode, NodesExhausted
  <2>a. /\ Len(nodes') = Len(nodes) + 1 /\ nodes'[Len(nodes) + 1] = HighHalf
        /\ \A i \in 1 .. Len(nodes) : nodes'[i] = nodes[i]
    BY <1>n, <2>8, BootAreas, AppendIs
  <2>9. Len(nodes') = 2 /\ nodes'[1] = LowHalf /\ nodes'[2] = HighHalf
    BY <2>1, <2>a
  <2>10. BootInv' BY <2>8, <2>9, <1>1, <1>2, <1>7 DEF BootInv
  <2> QED BY <1>5, <2>2, <2>4, <2>10, BootNodesOK
<1>8. CASE boot = 3
  <2>1. Len(nodes) = 2 /\ nodes[1] = LowHalf /\ nodes[2] = HighHalf /\ count = 1
    BY <1>8 DEF BootInv
  <2>2. BootFree[boot] = AboveKernel BY <1>8 DEF BootFree
  <2>3. Len(nodes) = 2 /\ nodes[1] = LowHalf /\ nodes[2] = HighHalf BY <2>1
  <2>4. \A j \in 1 .. Len(nodes) : Clear(AboveKernel, nodes[j]) BY <2>3, BootApart
  <2>6. \A i \in 1 .. Len(nodes) : ~CanMerge(nodes, i, AboveKernel)
    BY <2>3, BootApart DEF CanMerge
  <2>7. \A i \in 1 .. Len(nodes) : nodes[i].size # 0 BY <2>3, BootApart
  <2>8. nodes' = Append(nodes, AboveKernel) /\ count' = 2
    BY <1>3, <2>1, <2>2, <2>6, <2>7, Constants, VmaAssumption
       DEF add_node_to_free_list, IsEmptyNode, NodesExhausted
  <2>a. /\ Len(nodes') = Len(nodes) + 1 /\ nodes'[Len(nodes) + 1] = AboveKernel
        /\ \A i \in 1 .. Len(nodes) : nodes'[i] = nodes[i]
    BY <1>n, <2>8, BootAreas, AppendIs
  <2>9. /\ Len(nodes') = 3 /\ nodes'[1] = LowHalf /\ nodes'[2] = HighHalf
        /\ nodes'[3] = AboveKernel
    BY <2>1, <2>a
  <2>10. BootInv' BY <2>8, <2>9, <1>1, <1>2, <1>8 DEF BootInv
  <2> QED BY <1>5, <2>2, <2>4, <2>10, BootNodesOK
<1> QED BY <1>2, <1>6, <1>7, <1>8

(* A step that removed the area a, or panicked, once BootInv is known. *)
LEMMA RemoveStep ==
  ASSUME IInv, machine = "ok", NEW a \in Area, 0 < a.size, a.base + a.size < NumPages,
         \A i \in 1 .. Len(nodes) : 0 < nodes[i].base,
         inUse = {}, inUse' = {}, boot' \in 1..7,
         remove_from_free_list(a),
         machine' = "ok" => BootInv'
  PROVE  IInv'
<1> DEFINE U == inUse \cup pinned
<1>1. /\ GoodList(nodes, U) /\ GoodAreas(U)
      /\ count \in 0 .. MaxNodes - 1 /\ Len(nodes) <= count + 1 /\ Len(nodes) <= MaxNodes
      /\ pinned \subseteq Area
  BY Constants DEF IInv, TypeOK
<1>2. U = pinned /\ inUse' \cup pinned' = pinned' OBVIOUS
<1> HIDE DEF U
<1>3. /\ count' \in 0 .. MaxNodes
      /\ Len(nodes') <= count' + 1
      /\ Len(nodes') <= MaxNodes
      /\ \/ machine' = "not_in_list" /\ pinned' = pinned /\ nodes' = nodes
         \/ /\ GoodList(nodes', U \cup {a})
            /\ GoodAreas(U \cup {a})
            /\ pinned' = pinned \cup {a}
            /\ machine' \in {"ok", "out_of_nodes"}
            /\ machine' = "ok" => count' < MaxNodes
  BY <1>1, RemoveGood
<1>4. /\ GoodList(nodes', pinned') /\ GoodAreas(pinned') /\ pinned' \subseteq Area
      /\ machine' \in {"ok", "out_of_nodes", "not_in_list"}
      /\ machine' = "ok" => count' < MaxNodes
  BY <1>1, <1>2, <1>3
<1>5. nodes' \in Seq(Area) BY <1>4 DEF GoodList
<1>6. TypeOK' BY <1>3, <1>4, <1>5 DEF TypeOK
<1>7. GoodList(nodes', inUse' \cup pinned') /\ GoodAreas(inUse' \cup pinned')
  BY <1>2, <1>4
<1>8. (GoodList(nodes, inUse \cup pinned) /\ GoodAreas(inUse \cup pinned))'
  BY <1>7 DEF GoodList, GoodAreas, NodeOK, Clear
<1> QED BY <1>3, <1>4, <1>6, <1>8 DEF IInv

(* init() removes the page of the list from the area above the kernel. *)
LEMMA RemoveListStep ==
  ASSUME IInv, machine = "ok", boot' = boot + 1, BootRemoveListPage
  PROVE  IInv'
<1> DEFINE a == area(ListPage, 1)
<1>1. /\ Len(nodes) = 3 /\ nodes[1] = LowHalf /\ nodes[2] = HighHalf
      /\ nodes[3] = AboveKernel /\ count = 2 /\ inUse = {} /\ inUse' = {}
      /\ boot' = 5 /\ remove_from_free_list(a) /\ nodes \in Seq(Area)
  BY DEF IInv, TypeOK, BootInv, BootRemoveListPage
<1>2. a \in Area /\ a.base = ListPage /\ a.size = 1 BY BootAreas
<1>3. 0 < a.size /\ a.base + a.size < NumPages BY <1>2, VmaAssumption, Constants
<1>4. \A i \in 1 .. Len(nodes) : 0 < nodes[i].base
  <2>1. 0 < LowHalf.base /\ 0 < HighHalf.base /\ 0 < AboveKernel.base
    BY BootAreas, VmaAssumption, Constants
  <2>2. \A i \in 1 .. Len(nodes) : i = 1 \/ i = 2 \/ i = 3 BY <1>1
  <2> QED BY <2>1, <2>2, <1>1
<1>5. Last(a) = ListPage /\ Last(AboveKernel) = NumPages - 1
  BY <1>2, BootAreas, VmaAssumption, Constants DEF Last
<1>6. ~Contains(LowHalf, a) /\ ~Contains(HighHalf, a) /\ Contains(AboveKernel, a)
  BY <1>2, <1>5, BootAreas, VmaAssumption, Constants DEF Contains, Last
<1>7. Front(AboveKernel, a) = BelowList BY <1>2, BootAreas DEF Front, BelowList
<1>8. Rest(AboveKernel, a) = AboveList
  BY <1>5, VmaAssumption, Constants DEF Rest, AboveList, Wrap
<1> HIDE DEF a
<1> DEFINE f == [nodes EXCEPT ![3] = BelowList]
<1>9. add_node_to_free_list(f, AboveList)
  <2>1. \E i \in 1 .. Len(nodes) :
          /\ Contains(nodes[i], a)
          /\ add_node_to_free_list([nodes EXCEPT ![i] = Front(nodes[i], a)],
                                   Rest(nodes[i], a))
    BY <1>1, <1>6 DEF remove_from_free_list
  <2>2. \A i \in 1 .. Len(nodes) : Contains(nodes[i], a) => i = 3 BY <1>1, <1>6
  <2>3. add_node_to_free_list([nodes EXCEPT ![3] = Front(nodes[3], a)], Rest(nodes[3], a))
    BY <2>1, <2>2
  <2> QED BY <2>3, <1>1, <1>7, <1>8
<1>10. /\ f \in Seq(Area) /\ Len(f) = 3 /\ f[1] = LowHalf /\ f[2] = HighHalf
       /\ f[3] = BelowList
  <2>1. BelowList \in Area BY BootAreas
  <2>2. f = Replaced(nodes, 3, BelowList) /\ 3 \in 1 .. Len(nodes) BY <1>1 DEF Replaced
  <2> HIDE DEF f
  <2>n. nodes \in Seq(Area) BY <1>1
  <2>3. /\ f \in Seq(Area) /\ Len(f) = Len(nodes) /\ f[3] = BelowList
        /\ \A i \in 1 .. Len(nodes) : i # 3 => f[i] = nodes[i]
    BY <2>1, <2>2, <2>n, ReplacedIs
  <2> QED BY <2>2, <2>3, <1>1
<1> HIDE DEF f
<1>11. /\ End(LowHalf) = PosEnd + 1 /\ End(HighHalf) = KernelStart
       /\ End(BelowList) = ListPage /\ End(AboveList) = 0
  BY BootAreas, Constants, VmaAssumption DEF End, Wrap
<1>12. \A i \in 1 .. Len(f) : ~CanMerge(f, i, AboveList) /\ f[i].size # 0
  <2>1. \A i \in 1 .. Len(f) : f[i] \in {LowHalf, HighHalf, BelowList} BY <1>10
  <2>2. \A n \in {LowHalf, HighHalf, BelowList} :
          n.size # 0 /\ n.base # End(AboveList) /\ AboveList.base # End(n)
    BY <1>11, BootAreas, Constants, VmaAssumption
  <2> QED BY <2>1, <2>2 DEF CanMerge
<1>13. \A i \in 1 .. Len(f) : ~IsEmptyNode(f, i) BY <1>12 DEF IsEmptyNode
<1>14. machine' = "ok" => nodes' = Append(f, AboveList)
  BY <1>9, <1>12, <1>13 DEF add_node_to_free_list
<1>15. ASSUME machine' = "ok" PROVE BootInv'
  <2>1. /\ Len(nodes') = Len(f) + 1 /\ nodes'[Len(f) + 1] = AboveList
        /\ \A i \in 1 .. Len(f) : nodes'[i] = f[i]
    <3>1. nodes' = Append(f, AboveList) BY <1>14, <1>15
    <3>2. f \in Seq(Area) /\ AboveList \in Area BY <1>10, BootAreas
    <3> QED BY <3>1, <3>2, AppendIs
  <2>2. /\ Len(nodes') = 4 /\ nodes'[1] = LowHalf /\ nodes'[2] = HighHalf
        /\ nodes'[3] = BelowList /\ nodes'[4] = AboveList
    BY <2>1, <1>10
  <2> QED BY <2>2, <1>1 DEF BootInv
<1>16. boot' \in 1..7 BY <1>1
<1> QED BY <1>1, <1>2, <1>3, <1>4, <1>15, <1>16, RemoveStep

(* paging::finish_init() removes the pages of the page tables. *)
LEMMA RemoveTablesStep ==
  ASSUME IInv, machine = "ok", boot' = boot + 1, BootRemoveTables
  PROVE  IInv'
<1> DEFINE a == area(TablesBase, TablesSize)
<1>1. /\ \A i \in 1 .. Len(nodes) : 0 < nodes[i].base
      /\ inUse = {} /\ inUse' = {} /\ boot' = 7 /\ remove_from_free_list(a)
  BY DEF IInv, TypeOK, BootInv, BootRemoveTables
<1>2. a \in Area /\ a.base = TablesBase /\ a.size = TablesSize BY BootAreas
<1>3. 0 < a.size /\ a.base + a.size < NumPages BY <1>2, VmaAssumption, Constants
<1>4. BootInv' /\ boot' \in 1..7 BY <1>1 DEF BootInv
<1> HIDE DEF a
<1> QED BY <1>1, <1>2, <1>3, <1>4, RemoveStep

(* alloc::init() takes a page from the front of the lower half. *)
LEMMA AllocInitStep ==
  ASSUME IInv, machine = "ok", boot' = boot + 1, BootAllocInit
  PROVE  IInv'
<1>1. /\ Len(nodes) = 4 /\ nodes[1] = LowHalf /\ nodes[2] = HighHalf
      /\ nodes[3] = BelowList /\ nodes[4] = AboveList
      /\ inUse = {} /\ inUse' = {} /\ boot' = 6
      /\ get_virtual_pages(1) /\ pinned' = pinned \cup Returned(1) /\ count' = count
      /\ GoodList(nodes, pinned) /\ GoodAreas(pinned) /\ nodes \in Seq(Area)
      /\ count \in 0..MaxNodes /\ count < MaxNodes
      /\ Len(nodes) <= count + 1 /\ Len(nodes) <= MaxNodes
  <2>1. inUse = {} /\ boot = 5 BY DEF IInv, BootInv, BootAllocInit
  <2>2. inUse \cup pinned = pinned BY <2>1
  <2> QED BY <2>1, <2>2 DEF IInv, TypeOK, BootInv, BootAllocInit
<1>2. 1 \in Nat /\ 1 > 0 OBVIOUS
<1>3. /\ GoodList(nodes', pinned \cup Returned(1))
      /\ GoodAreas(pinned \cup Returned(1))
      /\ Len(nodes') = Len(nodes)
      /\ machine' \in {"ok", "out_of_pages"}
  BY <1>1, <1>2, GetGood
<1>4. GoodList(nodes', pinned') /\ GoodAreas(pinned') BY <1>1, <1>3
<1>5. nodes' \in Seq(Area) /\ pinned' \subseteq Area BY <1>4 DEF GoodList, GoodAreas
<1>6. inUse' \cup pinned' = pinned' BY <1>1
<1>7. (GoodList(nodes, inUse \cup pinned) /\ GoodAreas(inUse \cup pinned))'
  BY <1>4, <1>6 DEF GoodList, GoodAreas, NodeOK, Clear
<1>8. TypeOK' BY <1>1, <1>3, <1>5, Constants DEF TypeOK
<1>9. BootInv'
  <2>1. /\ 0 < LowHalf.base /\ 0 < HighHalf.base /\ 0 < BelowList.base
        /\ 0 < AboveList.base /\ LowHalf.size >= 1
    BY BootAreas, VmaAssumption, Constants
  <2>2. \A i \in 1 .. Len(nodes) : i = 1 \/ i = 2 \/ i = 3 \/ i = 4 BY <1>1
  <2>3. \A i \in 1 .. Len(nodes) : 0 < nodes[i].base BY <2>1, <2>2, <1>1
  <2>4. 0 < Shrunk(LowHalf, 1).base
    BY BootAreas, VmaAssumption, Constants DEF Shrunk, Wrap, area
  <2>5. \A i \in 1 .. Len(nodes) : FirstFit(i, 1) => i = 1
    BY <1>1, <2>1, <2>2, BootAreas, VmaAssumption, Constants DEF FirstFit
  <2>6. nodes' = nodes \/ nodes' = Replaced(nodes, 1, Shrunk(LowHalf, 1))
    BY <1>1, <2>5 DEF get_virtual_pages, Replaced
  <2>7. \A i \in 1 .. Len(nodes') : 0 < nodes'[i].base
    <3>1. CASE nodes' = nodes BY <3>1, <2>3
    <3>2. CASE nodes' = Replaced(nodes, 1, Shrunk(LowHalf, 1))
      <4>1. Shrunk(LowHalf, 1) \in Area
        <5>1. 1 <= LowHalf.size BY <2>1, BootAreas, Constants
        <5> QED BY <5>1, <1>2, BootNodesOK, TakenGood DEF NodeOK
      <4>2. 1 \in 1 .. Len(nodes) BY <1>1
      <4>3. /\ nodes'[1] = Shrunk(LowHalf, 1)
            /\ \A i \in 1 .. Len(nodes) : i # 1 => nodes'[i] = nodes[i]
        <5>1. nodes \in Seq(Area) BY <1>1
        <5> QED BY <5>1, <4>1, <4>2, <3>2, ReplacedIs
      <4> QED BY <4>3, <2>3, <2>4, <1>3
    <3> QED BY <3>1, <3>2, <2>6
  <2> QED BY <2>7, <1>1 DEF BootInv
<1> QED BY <1>1, <1>3, <1>7, <1>8, <1>9 DEF IInv

(* A call of get_virtual_pages after boot. *)
LEMMA GetStep ==
  ASSUME IInv, NEW n \in 1..MaxSize, Get(n)
  PROVE  IInv'
<1> DEFINE U == inUse \cup pinned
<1>1. /\ machine = "ok" /\ boot = 7 /\ boot' = 7 /\ get_virtual_pages(n)
      /\ inUse' = inUse \cup Returned(n) /\ pinned' = pinned /\ count' = count
  BY DEF Get, Booted
<1>2. n \in Nat /\ n > 0 BY Constants
<1>3. /\ GoodList(nodes, U) /\ GoodAreas(U) /\ inUse \cap pinned = {}
      /\ count \in 0..MaxNodes /\ count < MaxNodes
      /\ Len(nodes) <= count + 1 /\ Len(nodes) <= MaxNodes
  BY <1>1 DEF IInv, TypeOK
<1>4. inUse' \cup pinned' = U \cup Returned(n) BY <1>1
<1>5. inUse \subseteq U /\ pinned \subseteq U OBVIOUS
<1> HIDE DEF U
<1>6. /\ GoodList(nodes', U \cup Returned(n))
      /\ GoodAreas(U \cup Returned(n))
      /\ Returned(n) \cap U = {}
      /\ Len(nodes') = Len(nodes)
      /\ machine' \in {"ok", "out_of_pages"}
  BY <1>1, <1>2, <1>3, GetGood
<1>7. /\ nodes' \in Seq(Area) /\ inUse' \subseteq Area /\ pinned' \subseteq Area
      /\ inUse' \cap pinned' = {}
  BY <1>1, <1>3, <1>4, <1>5, <1>6 DEF GoodList, GoodAreas
<1>8. (GoodList(nodes, inUse \cup pinned) /\ GoodAreas(inUse \cup pinned))'
  BY <1>4, <1>6 DEF GoodList, GoodAreas, NodeOK, Clear
<1>9. TypeOK' BY <1>1, <1>3, <1>6, <1>7, Constants DEF TypeOK
<1>10. BootInv' BY <1>1 DEF BootInv
<1> QED BY <1>1, <1>3, <1>6, <1>7, <1>8, <1>9, <1>10 DEF IInv

(* A call of free_virtual_pages after boot. *)
LEMMA FreeStep ==
  ASSUME IInv, NEW a \in inUse, Free(a)
  PROVE  IInv'
<1> DEFINE V == (inUse \ {a}) \cup pinned
<1>1. /\ machine = "ok" /\ boot = 7 /\ boot' = 7 /\ add_node_to_free_list(nodes, a)
      /\ inUse' = inUse \ {a} /\ pinned' = pinned
  BY DEF Free, Booted, free_virtual_pages
<1>2. /\ GoodList(nodes, inUse \cup pinned) /\ GoodAreas(inUse \cup pinned)
      /\ inUse \cap pinned = {} /\ inUse \subseteq Area /\ pinned \subseteq Area
      /\ count \in 0 .. MaxNodes - 1
      /\ Len(nodes) <= count + 1 /\ Len(nodes) <= MaxNodes
  BY <1>1, Constants DEF IInv, TypeOK
<1>3. V \subseteq inUse \cup pinned /\ a \notin V /\ a \in inUse \cup pinned BY <1>2
<1>4. inUse' \cup pinned' = V BY <1>1
<1>5. V \subseteq Area BY <1>2
<1> HIDE DEF V
<1>6. GoodList(nodes, V) /\ GoodAreas(V) BY <1>2, <1>3 DEF GoodList, GoodAreas
<1>7. NodeOK(a) BY <1>2, <1>3 DEF NodeOK, GoodAreas
<1>8. \A j \in 1 .. Len(nodes) : Clear(a, nodes[j])
  BY <1>2, <1>3, ClearSymmetric DEF GoodList
<1>9. \A u \in V : Clear(a, u) BY <1>2, <1>3 DEF GoodAreas, Clear
<1>10. /\ GoodList(nodes', V)
       /\ count' \in 0 .. MaxNodes
       /\ Len(nodes') <= count' + 1
       /\ Len(nodes') <= MaxNodes
       /\ machine' \in {"ok", "out_of_nodes"}
       /\ machine' = "ok" => count' < MaxNodes
  BY <1>1, <1>2, <1>5, <1>6, <1>7, <1>8, <1>9, AddNodeGood
<1>11. (GoodList(nodes, inUse \cup pinned) /\ GoodAreas(inUse \cup pinned))'
  BY <1>4, <1>6, <1>10 DEF GoodList, GoodAreas, NodeOK, Clear
<1>12. nodes' \in Seq(Area) BY <1>10 DEF GoodList
<1>13. /\ inUse' \cap pinned' = {} /\ inUse' \subseteq Area /\ pinned' \subseteq Area
  BY <1>1, <1>2
<1>14. TypeOK' BY <1>1, <1>10, <1>12, <1>13 DEF TypeOK
<1>15. BootInv' BY <1>1 DEF BootInv
<1> QED BY <1>10, <1>11, <1>13, <1>14, <1>15 DEF IInv

-----------------------------------------------------------------------------
(* The state before init() satisfies the invariant. *)
LEMMA InitIInv == Init => IInv
<1> SUFFICES ASSUME Init PROVE IInv OBVIOUS
<1>1. /\ nodes = << area(0, 0) >> /\ count = 0 /\ inUse = {} /\ pinned = {}
      /\ boot = 1 /\ machine = "ok" /\ inUse \cup pinned = {}
  BY DEF Init
<1>2. area(0, 0) \in Area BY BootAreas
<1>3. nodes \in Seq(Area) /\ Len(nodes) = 1 /\ nodes[1] = area(0, 0) BY <1>1, <1>2
<1>4. GoodList(nodes, {}) BY <1>3, BootNodesOK DEF GoodList
<1>5. GoodAreas({}) BY DEF GoodAreas
<1>6. TypeOK BY <1>1, <1>3, Constants, VmaAssumption DEF TypeOK
<1>7. BootInv BY <1>1, <1>3 DEF BootInv
<1>8. 0 < MaxNodes /\ 1 <= MaxNodes BY Constants, VmaAssumption
<1> QED BY <1>1, <1>3, <1>4, <1>5, <1>6, <1>7, <1>8 DEF IInv

(* Every step preserves the invariant. *)
LEMMA NextIInv == IInv /\ [Next]_vars => IInv'
<1> SUFFICES ASSUME IInv, [Next]_vars PROVE IInv' OBVIOUS
<1>1. CASE Boot
  <2>1. machine = "ok" /\ boot' = boot + 1 BY <1>1 DEF Boot
  <2>2. CASE BootMarkFree BY <2>1, <2>2, MarkFreeStep
  <2>3. CASE BootRemoveListPage BY <2>1, <2>3, RemoveListStep
  <2>4. CASE BootAllocInit BY <2>1, <2>4, AllocInitStep
  <2>5. CASE BootRemoveTables BY <2>1, <2>5, RemoveTablesStep
  <2> QED BY <1>1, <2>2, <2>3, <2>4, <2>5 DEF Boot
<1>2. CASE \E n \in 1..MaxSize : Get(n) BY <1>2, GetStep
<1>3. CASE \E a \in inUse : Free(a) BY <1>3, FreeStep
<1>4. CASE UNCHANGED vars
  BY <1>4 DEF vars, IInv, TypeOK, BootInv, GoodList, GoodAreas, NodeOK, Clear
<1> QED BY <1>1, <1>2, <1>3, <1>4 DEF Next, Panicked

(* The invariant implies the properties. *)
LEMMA IInvImplies == IInv => TypeOK /\ NoOverlap /\ NodesFitInPage
<1> SUFFICES ASSUME IInv PROVE TypeOK /\ NoOverlap /\ NodesFitInPage OBVIOUS
<1> DEFINE U == inUse \cup pinned
<1>1. GoodList(nodes, U) /\ GoodAreas(U) BY DEF IInv
<1> HIDE DEF U
<1>2. ASSUME NEW i \in 1 .. Len(nodes), nodes[i].size > 0
      PROVE  /\ Managed(nodes[i])
             /\ \A j \in 1 .. Len(nodes) :
                  nodes[j].size > 0 /\ j # i => Disjoint(nodes[i], nodes[j])
             /\ \A a \in U : Disjoint(nodes[i], a)
  BY <1>1, <1>2 DEF GoodList, GoodAreas, NodeOK, Clear
<1>3. \A a \in U : Managed(a) /\ \A b \in U : a # b => Disjoint(a, b)
  BY <1>1 DEF GoodAreas
<1>4. NoOverlap BY <1>2, <1>3 DEF NoOverlap, U
<1> QED BY <1>4 DEF IInv, NodesFitInPage

(* The virtual memory allocator keeps its free list sound: after any       *)
(* sequence of calls of get_virtual_pages and free_virtual_pages no page   *)
(* is in two nodes, or in a node and in use, and the nodes fit the page.   *)
THEOREM VmaSafe == Spec => [](TypeOK /\ NoOverlap /\ NodesFitInPage)
<1>1. Spec => []IInv BY InitIInv, NextIInv, PTL DEF Spec
<1> QED BY <1>1, IInvImplies, PTL

(* Every operation keeps the list a list of areas, and free_list_size      *)
(* never exceeds MAX_NODES.                                                *)
THEOREM VmaTypes == Spec => []TypeOK
<1>1. TypeOK /\ NoOverlap /\ NodesFitInPage => TypeOK
  OBVIOUS
<1> QED BY VmaSafe, <1>1, PTL

(* However areas are split, merged and truncated, the nodes of the list    *)
(* never outgrow the page that holds them.                                 *)
THEOREM VmaNodesFitInPage == Spec => []NodesFitInPage
<1>1. TypeOK /\ NoOverlap /\ NodesFitInPage => NodesFitInPage
  OBVIOUS
<1> QED BY VmaSafe, <1>1, PTL

-----------------------------------------------------------------------------
(* A merged node covers the area that was merged into it. *)
LEMMA MergedCovers ==
  ASSUME NEW n, NEW a, NodeOK(n), NodeOK(a), 0 < a.size,
         n.base = End(a) \/ a.base = End(n)
  PROVE  PagesOf(a) \subseteq PagesOf(Merged(n, a))
<1> DEFINE m == Merged(n, a)
<1>1. n \in Area /\ a \in Area BY DEF NodeOK
<1>2. /\ n.base \in Nat /\ n.base < NumPages /\ n.size \in Nat /\ n.size <= NumPages
      /\ a.base \in Nat /\ a.base < NumPages /\ a.size \in Nat /\ a.size <= NumPages
  BY <1>1, AreaFields
<1>3. m.base = (IF n.base = End(a) THEN a.base ELSE n.base) /\ m.size = n.size + a.size
  BY DEF Merged, area
<1>4. m.base <= a.base /\ a.base + a.size <= m.base + m.size /\ m.base \in Nat /\ m.size \in Nat
  <2>1. CASE n.base = End(a) BY <2>1, <1>2, <1>3
  <2>2. CASE n.base # End(a)
    <3>1. a.base = End(n) BY <2>2
    <3>2. CASE n.size = 0 BY <3>1, <3>2, <2>2, <1>2, <1>3, Constants DEF End, Wrap
    <3>3. CASE n.size > 0
      <4>1. Managed(n) /\ Managed(a) BY <3>3 DEF NodeOK
      <4>2. 0 < a.base /\ n.base + n.size <= NumPages
        BY <4>1, <1>2, ManagedIs, VmaAssumption, Constants
      <4>3. a.base = n.base + n.size BY <4>2, <3>1, <1>2, Constants DEF End, Wrap
      <4> QED BY <4>3, <2>2, <1>2, <1>3
    <3> QED BY <3>2, <3>3, <1>2
  <2> QED BY <2>1, <2>2
<1> HIDE DEF m
<1>5. PagesOf(a) \subseteq PagesOf(m) BY <1>2, <1>4 DEF PagesOf
<1> QED BY <1>5 DEF m

(* The pages of a freed area are in the list afterwards. *)
LEMMA FreeCovers ==
  ASSUME IInv, NEW a \in inUse, Free(a), machine' = "ok"
  PROVE  PagesOf(a) \subseteq FreePages'
<1>1. add_node_to_free_list(nodes, a) /\ machine = "ok" BY DEF Free, free_virtual_pages
<1>2. nodes \in Seq(Area) /\ Len(nodes) \in Nat /\ a \in Area BY DEF IInv, TypeOK
<1>3. NodeOK(a) /\ 0 < a.size BY <1>2 DEF IInv, GoodAreas, NodeOK
<1>4. ASSUME NEW k \in 1 .. Len(nodes'), PagesOf(a) \subseteq PagesOf(nodes'[k])
      PROVE  PagesOf(a) \subseteq FreePages'
  <2>1. PagesOf(nodes'[k]) \subseteq UNION { PagesOf(nodes'[i]) : i \in 1 .. Len(nodes') }
    OBVIOUS
  <2>2. FreePages' = UNION { PagesOf(nodes'[i]) : i \in 1 .. Len(nodes') }
    BY DEF FreePages, PagesOf
  <2> QED BY <2>1, <2>2, <1>4
<1>5. CASE \E i \in 1 .. Len(nodes) :
             /\ CanMerge(nodes, i, a)
             /\ nodes' = [nodes EXCEPT ![i] = Merged(nodes[i], a)]
  <2>1. PICK i \in 1 .. Len(nodes) :
             /\ CanMerge(nodes, i, a)
             /\ nodes' = [nodes EXCEPT ![i] = Merged(nodes[i], a)]
    BY <1>5
  <2>2. NodeOK(nodes[i]) BY DEF IInv, GoodList
  <2>3. nodes[i].base = End(a) \/ a.base = End(nodes[i]) BY <2>1 DEF CanMerge
  <2>4. PagesOf(a) \subseteq PagesOf(Merged(nodes[i], a)) BY <2>2, <2>3, <1>3, MergedCovers
  <2>5. i \in 1 .. Len(nodes') /\ nodes'[i] = Merged(nodes[i], a) BY <2>1, <1>2
  <2>6. PagesOf(a) \subseteq PagesOf(nodes'[i]) BY <2>4, <2>5
  <2> QED BY <2>5, <2>6, <1>4
<1>6. CASE \E i \in 1 .. Len(nodes) : nodes' = Reuse(nodes, i, a)
  <2>1. PICK i \in 1 .. Len(nodes) : nodes' = Append(SubSeq(nodes, 1, i - 1), a)
    BY <1>6 DEF Reuse
  <2> DEFINE g == SubSeq(nodes, 1, i - 1)
  <2>2. g \in Seq(Area) /\ Len(g) \in Nat BY <1>2
  <2>3. nodes' = Append(g, a) BY <2>1
  <2> HIDE DEF g
  <2>4. Len(nodes') = Len(g) + 1 /\ nodes'[Len(g) + 1] = a BY <2>2, <2>3, <1>2, AppendIs
  <2>5. Len(g) + 1 \in 1 .. Len(nodes') BY <2>2, <2>4
  <2>6. PagesOf(a) \subseteq PagesOf(nodes'[Len(g) + 1]) BY <2>4
  <2> QED BY <2>5, <2>6, <1>4
<1>7. CASE nodes' = Append(nodes, a)
  <2>4. Len(nodes') = Len(nodes) + 1 /\ nodes'[Len(nodes) + 1] = a BY <1>2, <1>7, AppendIs
  <2>5. Len(nodes) + 1 \in 1 .. Len(nodes') BY <1>2, <2>4
  <2>6. PagesOf(a) \subseteq PagesOf(nodes'[Len(nodes) + 1]) BY <2>4
  <2> QED BY <2>5, <2>6, <1>4
<1> QED BY <1>1, <1>5, <1>6, <1>7 DEF add_node_to_free_list

(* What free_virtual_pages is given can be handed out again: it is in the  *)
(* list, whether it was merged, put into an empty node or into a new one.  *)
THEOREM VmaFreedAreaIsFree == Spec => FreedAreaIsFree
<1>1. IInv /\ [Next]_vars =>
        [\A a \in inUse \ inUse' : machine' = "ok" => PagesOf(a) \subseteq FreePages']_vars
  <2> SUFFICES ASSUME IInv, Next, NEW a \in inUse \ inUse', machine' = "ok"
               PROVE  PagesOf(a) \subseteq FreePages'
    OBVIOUS
  <2>1. ~(inUse' = inUse) OBVIOUS
  <2>2. ~Panicked BY <2>1 DEF Panicked, vars
  <2>3. ~Boot
    <3>1. ASSUME Boot PROVE inUse' = inUse
      BY <3>1 DEF Boot, BootMarkFree, BootRemoveListPage, BootAllocInit, BootRemoveTables
    <3> QED BY <3>1, <2>1
  <2>4. ~ \E n \in 1..MaxSize : Get(n) BY DEF Get
  <2>5. PICK b \in inUse : Free(b) BY <2>2, <2>3, <2>4 DEF Next
  <2>6. inUse' = inUse \ {b} BY <2>5 DEF Free
  <2>7. a = b BY <2>6
  <2> QED BY <2>5, <2>7, FreeCovers
<1>2. Spec => []IInv BY InitIInv, NextIInv, PTL DEF Spec
<1> QED BY <1>1, <1>2, PTL DEF Spec, FreedAreaIsFree
=============================================================================

----------------------------- MODULE AllocProofs -----------------------------
(***************************************************************************)
(* The heap's list of nodes, and the search pma takes its pages with, for  *)
(* every size of pages, nodes, requests and limbs and any number of frees. *)
(***************************************************************************)
EXTENDS Alloc, SequenceTheorems, WellFoundedInduction, TLAPS

(* A set of natural numbers that is not empty has a least element. *)
LEMMA LeastNumber ==
  ASSUME NEW S \in SUBSET Nat, S # {}
  PROVE  \E x \in S : \A y \in S : x <= y
<1>1. PICK x \in S : \A y \in S : ~(<<y, x>> \in OpToRel(<, Nat))
  BY WFMin, NatLessThanWellFounded
<1>2. \A y \in S : ~(y < x) BY <1>1 DEF OpToRel
<1> QED BY <1>2

-----------------------------------------------------------------------------
(* find_first of pma: the bits before the width of int are searched with   *)
(* masks that hold the bit itself.                                         *)
LEMMA MaskHoldsBit ==
  ASSUME BitmapAssumption, NEW bit \in 0 .. LimbBits - 1, NEW how \in {"modulo", "whole"}
  PROVE  \/ bit \in Mask(bit, how)
         \/ /\ bit >= IntBits /\ Mask(bit, how) = Mask(bit % IntBits, how)
            /\ bit % IntBits \in 0 .. IntBits - 1
<1>1. IntBits \in Nat /\ IntBits > 0 /\ LimbBits \in Nat /\ IntBits < LimbBits
  BY DEF BitmapAssumption
<1>2. CASE bit < IntBits BY <1>1, <1>2 DEF Mask, SignedMask
<1>3. CASE bit >= IntBits /\ how = "whole" BY <1>1, <1>3 DEF Mask
<1>4. CASE bit >= IntBits /\ how = "modulo"
  <2>1. bit % IntBits \in 0 .. IntBits - 1 BY <1>1
  <2>2. Mask(bit, how) = SignedMask(bit % IntBits) BY <1>1, <1>4 DEF Mask
  <2>3. Mask(bit % IntBits, how) = SignedMask(bit % IntBits) BY <1>1, <2>1 DEF Mask
  <2> QED BY <1>4, <2>1, <2>2, <2>3
<1> QED BY <1>1, <1>2, <1>3, <1>4

(* A bit of the map and the other bits of its limb. *)
LEMMA PlaceInLimb ==
  ASSUME BitmapAssumption, NEW idx \in Bits
  PROVE  \E q \in Nat, r \in 0 .. LimbBits - 1 :
           /\ r = idx % LimbBits /\ idx - (idx % LimbBits) = LimbBits * q
           /\ idx = LimbBits * q + r
           /\ \A b \in 0 .. LimbBits - 1 :
                /\ LimbBits * q + b \in Bits
                /\ (LimbBits * q + b) % LimbBits = b
                /\ (LimbBits * q + b) \div LimbBits = idx \div LimbBits
<1>1. LimbBits \in Nat /\ LimbBits > 0 /\ Limbs \in Nat BY DEF BitmapAssumption
<1>2. idx \in Nat /\ idx < Limbs * LimbBits BY <1>1 DEF Bits
<1>3. PICK q \in Nat : q = idx \div LimbBits BY <1>1, <1>2
<1>4. PICK r \in 0 .. LimbBits - 1 : r = idx % LimbBits BY <1>1, <1>2
<1>5. idx = LimbBits * q + r BY <1>1, <1>2, <1>3, <1>4
<1>6. q < Limbs /\ LimbBits * q \in Nat BY <1>1, <1>2, <1>5
<1>7. LimbBits * q + LimbBits <= Limbs * LimbBits BY <1>1, <1>6
<1>8. ASSUME NEW b \in 0 .. LimbBits - 1
      PROVE  /\ LimbBits * q + b \in Bits
             /\ (LimbBits * q + b) % LimbBits = b
             /\ (LimbBits * q + b) \div LimbBits = idx \div LimbBits
  <2>1. LimbBits * q + b \in Bits BY <1>1, <1>6, <1>7 DEF Bits
  <2>2. (LimbBits * q + b) % LimbBits = b BY <1>1
  <2>3. (LimbBits * q + b) \div LimbBits = q BY <1>1
  <2> QED BY <1>3, <2>1, <2>2, <2>3
<1>9. idx - (idx % LimbBits) = LimbBits * q BY <1>1, <1>4, <1>5, <1>6
<1> QED BY <1>4, <1>5, <1>8, <1>9

(* find_first(false) returns a bit that is not set, or -1: a page pma      *)
(* takes was free, whatever a shift by more than the width of int does.    *)
THEOREM FindFirstFindsFree ==
  ASSUME BitmapAssumption, NEW set, NEW how \in {"modulo", "whole"}
  PROVE  LET idx == find_first(set, FALSE, how)
         IN  idx = -1 \/ (idx \in Bits /\ idx \notin set)
<1> DEFINE found == Found(set, FALSE, how)
           idx == find_first(set, FALSE, how)
<1> SUFFICES ASSUME found # {} PROVE idx \in Bits /\ idx \notin set
  BY DEF find_first
<1>1. LimbBits \in Nat /\ LimbBits > 0 /\ Limbs \in Nat /\ IntBits \in Nat
  BY DEF BitmapAssumption
<1>2. found \in SUBSET Nat /\ found \in SUBSET Bits
  <2>1. found \subseteq Bits BY DEF Found
  <2>2. Bits \subseteq Nat BY <1>1 DEF Bits
  <2> QED BY <2>1, <2>2
<1>3. \E x \in found : \A y \in found : x <= y BY <1>2, LeastNumber
<1>4. idx \in found /\ \A y \in found : idx <= y BY <1>3 DEF find_first
<1>5. PICK q \in Nat, r \in 0 .. LimbBits - 1 :
        /\ r = idx % LimbBits /\ idx - (idx % LimbBits) = LimbBits * q
        /\ idx = LimbBits * q + r
        /\ \A b \in 0 .. LimbBits - 1 :
             /\ LimbBits * q + b \in Bits
             /\ (LimbBits * q + b) % LimbBits = b
             /\ (LimbBits * q + b) \div LimbBits = idx \div LimbBits
  BY <1>2, <1>4, PlaceInLimb
<1> HIDE DEF idx, found
<1>6. /\ \E b \in Limb(idx \div LimbBits) : (b \in set) = FALSE
      /\ \A b \in Mask(r, how) : LimbBits * q + b \notin set
  BY <1>4, <1>5 DEF found, Found, Matches
<1>7. CASE r \in Mask(r, how) BY <1>2, <1>4, <1>5, <1>6, <1>7
<1>8. CASE r \notin Mask(r, how)
  <2>1. /\ r >= IntBits /\ Mask(r, how) = Mask(r % IntBits, how)
        /\ r % IntBits \in 0 .. IntBits - 1
    BY <1>8, MaskHoldsBit
  <2>2. PICK b \in 0 .. IntBits - 1 : b = r % IntBits BY <2>1
  <2>3. b \in 0 .. LimbBits - 1 /\ b < r BY <1>1, <1>5, <2>1, <2>2
  <2>4. PICK p : p = LimbBits * q + b OBVIOUS
  <2>5. /\ p \in Bits /\ p % LimbBits = b /\ p \div LimbBits = idx \div LimbBits
        /\ p - b = LimbBits * q /\ p < idx
    <3>1. LimbBits * q \in Nat BY <1>1
    <3> QED BY <1>1, <1>5, <2>3, <2>4, <3>1
  <2>6. Matches(set, FALSE, p, how) BY <1>6, <2>1, <2>2, <2>5 DEF Matches
  <2>7. p \in found BY <1>6, <2>5, <2>6 DEF found, Found
  <2>8. idx \in Nat /\ p \in Nat BY <1>2, <1>4, <2>7
  <2>9. idx <= p BY <1>4, <2>7
  <2> QED BY <2>5, <2>8, <2>9
<1> QED BY <1>7, <1>8
-----------------------------------------------------------------------------
(* The list: a node follows another in a later page, or behind it in the   *)
(* same page.                                                              *)
IsNode(n) ==
  /\ n = node(n.page, n.at, n.size, n.frames)
  /\ n.page \in Nat /\ n.at \in Nat /\ Len(n.frames) \in Nat
Follows(m, n) == m.page < n.page \/ (m.page = n.page /\ m.at + Words(m) <= n.at)
IsList(list) ==
  /\ Len(list) \in Nat /\ list = [k \in 1 .. Len(list) |-> list[k]]
  /\ \A k \in 1 .. Len(list) : IsNode(list[k])
  /\ \A k, l \in 1 .. Len(list) : l < k => Follows(list[l], list[k])

(* The node of an unfinished allocation has room for its frames. *)
HeapInv ==
  /\ NodeWords \in Nat
  /\ IsList(nodes)
  /\ boot \in {"tables", "vga", "acpi", "done"} => Len(nodes) > 0
  /\ pc # "idle" => boot = "done" /\ request.size \in Nat
  /\ pc = "frames" => new \in 1 .. Len(nodes) /\ Len(nodes[new].frames) = request.size

(* What a list consists of. *)
LEMMA ListFields ==
  ASSUME IsList(nodes)
  PROVE  /\ Len(nodes) \in Nat
         /\ \A k \in 1 .. Len(nodes) :
              /\ IsNode(nodes[k])
              /\ nodes[k].page \in Nat /\ nodes[k].at \in Nat /\ Len(nodes[k].frames) \in Nat
         /\ \A k, l \in 1 .. Len(nodes) : l < k => Follows(nodes[l], nodes[k])
BY DEF IsList, IsNode

(* Nodes that keep their place and their number of frames stay a list. *)
LEMMA SameShape ==
  ASSUME IsList(nodes), NEW list, list = [k \in 1 .. Len(nodes) |-> list[k]],
         \A k \in 1 .. Len(nodes) :
           /\ IsNode(list[k]) /\ list[k].page = nodes[k].page /\ list[k].at = nodes[k].at
           /\ Len(list[k].frames) = Len(nodes[k].frames)
  PROVE  IsList(list) /\ Len(list) = Len(nodes)
<1>1. Len(list) = Len(nodes) BY DEF IsList
<1> QED BY <1>1 DEF IsList, Follows, Words

(* The size of a node, and its frames, may change. *)
Resized(i, n) == [nodes EXCEPT ![i].size = n]
Filled(i, order) == [nodes EXCEPT ![i].frames = order]

(* A node whose size changes keeps its words and its frames. *)
LEMMA SizeChanged ==
  ASSUME IsList(nodes), NEW i, NEW n
  PROVE  /\ IsList(Resized(i, n)) /\ Len(Resized(i, n)) = Len(nodes)
         /\ \A k \in 1 .. Len(nodes) : Resized(i, n)[k].frames = nodes[k].frames
<1> DEFINE list == [nodes EXCEPT ![i].size = n]
<1>1. DOMAIN nodes = 1 .. Len(nodes) BY DEF IsList
<1>2. list = [k \in 1 .. Len(nodes) |-> list[k]] BY <1>1
<1>3. ASSUME NEW k \in 1 .. Len(nodes)
      PROVE  /\ IsNode(list[k]) /\ list[k].page = nodes[k].page /\ list[k].at = nodes[k].at
             /\ list[k].frames = nodes[k].frames
  <2>1. IsNode(nodes[k]) /\ k \in DOMAIN nodes BY <1>1 DEF IsList
  <2>2. list[k] = IF k = i THEN [nodes[k] EXCEPT !.size = n] ELSE nodes[k] BY <2>1
  <2>3. CASE k = i
    <3>1. list[k] = node(nodes[k].page, nodes[k].at, n, nodes[k].frames)
      BY <2>1, <2>2, <2>3, Zenon DEF IsNode, node
    <3> QED BY <2>1, <3>1 DEF IsNode, node
  <2>4. CASE k # i BY <2>1, <2>2, <2>4
  <2> QED BY <2>3, <2>4
<1> HIDE DEF list
<1>4. IsList(list) /\ Len(list) = Len(nodes) BY <1>2, <1>3, SameShape
<1> QED BY <1>3, <1>4 DEF list, Resized

(* A node's frames are replaced by as many. *)
LEMMA FramesChanged ==
  ASSUME IsList(nodes), NEW i \in 1 .. Len(nodes), NEW order, Len(order) = Len(nodes[i].frames)
  PROVE  IsList(Filled(i, order)) /\ Len(Filled(i, order)) = Len(nodes)
<1> DEFINE list == [nodes EXCEPT ![i].frames = order]
<1>1. DOMAIN nodes = 1 .. Len(nodes) BY DEF IsList
<1>2. list = [k \in 1 .. Len(nodes) |-> list[k]] BY <1>1
<1>3. ASSUME NEW k \in 1 .. Len(nodes)
      PROVE  /\ IsNode(list[k]) /\ list[k].page = nodes[k].page /\ list[k].at = nodes[k].at
             /\ Len(list[k].frames) = Len(nodes[k].frames)
  <2>1. IsNode(nodes[k]) /\ k \in DOMAIN nodes BY <1>1 DEF IsList
  <2>2. list[k] = IF k = i THEN [nodes[k] EXCEPT !.frames = order] ELSE nodes[k] BY <2>1
  <2>3. CASE k = i
    <3>1. list[k] = node(nodes[k].page, nodes[k].at, nodes[k].size, order)
      BY <2>1, <2>2, <2>3, Zenon DEF IsNode, node
    <3> QED BY <2>1, <2>3, <3>1 DEF IsNode, node
  <2>4. CASE k # i BY <2>1, <2>2, <2>4
  <2> QED BY <2>3, <2>4
<1> HIDE DEF list
<1>4. IsList(list) /\ Len(list) = Len(nodes) BY <1>2, <1>3, SameShape
<1> QED BY <1>4 DEF list, Filled

(* A node behind all others can be appended. *)
LEMMA Appended ==
  ASSUME IsList(nodes), NEW e, IsNode(e), \A k \in 1 .. Len(nodes) : Follows(nodes[k], e)
  PROVE  /\ IsList(Append(nodes, e)) /\ Len(Append(nodes, e)) = Len(nodes) + 1
         /\ Append(nodes, e)[Len(nodes) + 1] = e
<1> DEFINE n == Len(nodes)  S == {nodes[k] : k \in 1 .. n} \cup {e}  list == Append(nodes, e)
<1>1. n \in Nat /\ nodes = [k \in 1 .. n |-> nodes[k]] BY DEF IsList
<1>2. nodes \in Seq(S)
  <2>1. nodes \in [1 .. n -> S] BY <1>1
  <2> QED BY <1>1, <2>1, SeqDef
<1>3. /\ list \in Seq(S) /\ Len(list) = n + 1
      /\ \A k \in 1 .. n : list[k] = nodes[k]
      /\ list[n + 1] = e
  BY <1>2, AppendProperties
<1>4. list = [k \in 1 .. Len(list) |-> list[k]] BY <1>3, LenProperties
<1> HIDE DEF list
<1>5. \A k \in 1 .. n + 1 : IsNode(list[k])
  BY <1>1, <1>3 DEF IsList
<1>6. \A k, l \in 1 .. n + 1 : l < k => Follows(list[l], list[k])
  <2> SUFFICES ASSUME NEW k \in 1 .. n + 1, NEW l \in 1 .. n + 1, l < k
               PROVE  Follows(list[l], list[k])
    OBVIOUS
  <2>1. l \in 1 .. n /\ list[l] = nodes[l] BY <1>1, <1>3
  <2>2. CASE k = n + 1 BY <1>3, <2>1, <2>2
  <2>3. CASE k \in 1 .. n BY <1>3, <2>1, <2>3 DEF IsList
  <2> QED BY <1>1, <2>2, <2>3
<1>7. IsList(list) BY <1>1, <1>3, <1>4, <1>5, <1>6 DEF IsList
<1> QED BY <1>3, <1>7 DEF list

(* The node that get_new_allocation returns is in the list it returns and  *)
(* has n frames.                                                           *)
LEMMA NewNode ==
  ASSUME NodeWords \in Nat, IsList(nodes), Len(nodes) > 0, NEW n \in Nat,
         NEW got, got = get_new_allocation(n)
  PROVE  /\ IsList(got.list) /\ Len(got.list) > 0
         /\ got.new \in 1 .. Len(got.list) /\ Len(got.list[got.new].frames) = n
<1>0. Len(nodes) \in Nat BY DEF IsList
<1>1. CASE \E i \in 1 .. Len(nodes) : Reusable(i, n)
  <2> DEFINE S == {i \in 1 .. Len(nodes) : Reusable(i, n)}
             i == CHOOSE k \in 1 .. Len(nodes) : FirstReusable(k, n)
  <2>1. PICK k \in S : \A l \in S : k <= l
    <3>1. S \in SUBSET Nat /\ S # {} BY <1>0, <1>1
    <3> QED BY <3>1, LeastNumber
  <2>2. FirstReusable(k, n)
    <3>1. ASSUME NEW l \in 1 .. k - 1 PROVE ~Reusable(l, n)
      <4>1. l \in 1 .. Len(nodes) /\ ~(k <= l) BY <1>0, <2>1
      <4> QED BY <2>1, <4>1
    <3> QED BY <2>1, <3>1 DEF FirstReusable
  <2>3. i \in 1 .. Len(nodes) /\ FirstReusable(i, n) BY <2>1, <2>2
  <2>4. Len(nodes[i].frames) = n BY <2>3 DEF FirstReusable, Reusable
  <2>5. got.list = Resized(i, n) /\ got.new = i
    BY <1>1 DEF get_new_allocation, Resized
  <2> HIDE DEF i
  <2>6. /\ IsList(got.list) /\ Len(got.list) = Len(nodes)
        /\ \A l \in 1 .. Len(nodes) : got.list[l].frames = nodes[l].frames
    BY <2>5, SizeChanged
  <2> QED BY <2>3, <2>4, <2>5, <2>6
<1>2. CASE ~\E i \in 1 .. Len(nodes) : Reusable(i, n)
  <2> DEFINE last == nodes[Len(nodes)]
             far == node(last.page + 1, 0, n, NoFrames(n))
             near == node(last.page, EndOfLast, n, NoFrames(n))
  <2>1. /\ got.new = Len(nodes) + 1
        /\ got.list = Append(nodes, far) \/ got.list = Append(nodes, near)
    BY <1>2 DEF get_new_allocation
  <2>2. Len(last.frames) \in Nat /\ last.page \in Nat /\ last.at \in Nat
    BY <1>0, ListFields
  <2>3. Len(NoFrames(n)) = n BY DEF NoFrames
  <2>4. EndOfLast = last.at + (NodeWords + Len(last.frames)) BY DEF EndOfLast, Words
  <2>5. /\ far.page = last.page + 1 /\ far.at = 0 /\ far.frames = NoFrames(n)
        /\ far = node(far.page, far.at, far.size, far.frames)
        /\ near.page = last.page /\ near.at = EndOfLast /\ near.frames = NoFrames(n)
        /\ near = node(near.page, near.at, near.size, near.frames)
    BY Zenon DEF node
  <2>6. ASSUME NEW k \in 1 .. Len(nodes)
        PROVE  /\ nodes[k].page \in Nat /\ nodes[k].at \in Nat /\ Len(nodes[k].frames) \in Nat
               /\ k = Len(nodes) \/ Follows(nodes[k], last)
    BY <1>0, ListFields
  <2>7. last = nodes[Len(nodes)] OBVIOUS
  <2> HIDE DEF far, near, last
  <2>8. IsNode(far) /\ IsNode(near)
    BY <1>0, <2>2, <2>3, <2>4, <2>5 DEF IsNode
  <2>9. \A k \in 1 .. Len(nodes) : Follows(nodes[k], far) /\ Follows(nodes[k], near)
    <3> SUFFICES ASSUME NEW k \in 1 .. Len(nodes)
                 PROVE  Follows(nodes[k], far) /\ Follows(nodes[k], near)
      OBVIOUS
    <3>1. nodes[k].page \in Nat /\ nodes[k].at \in Nat /\ Len(nodes[k].frames) \in Nat
      BY <2>6
    <3>2. CASE k = Len(nodes)
      BY <1>0, <2>2, <2>4, <2>5, <2>7, <3>1, <3>2 DEF Follows, Words
    <3>3. CASE Follows(nodes[k], last)
      <4>1. Words(nodes[k]) \in Nat /\ last.at <= EndOfLast /\ EndOfLast \in Nat
        BY <1>0, <2>2, <2>4, <3>1 DEF Words
      <4>2. Follows(nodes[k], far) BY <2>2, <2>5, <3>1, <3>3 DEF Follows
      <4>3. Follows(nodes[k], near) BY <2>2, <2>5, <3>1, <3>3, <4>1 DEF Follows
      <4> QED BY <4>2, <4>3
    <3> QED BY <2>6, <3>2, <3>3
  <2>10. ASSUME NEW e, IsNode(e), \A k \in 1 .. Len(nodes) : Follows(nodes[k], e),
                e.frames = NoFrames(n), got.list = Append(nodes, e)
         PROVE  /\ IsList(got.list) /\ Len(got.list) = Len(nodes) + 1
                /\ Len(got.list[Len(nodes) + 1].frames) = n
    <3>1. /\ IsList(Append(nodes, e)) /\ Len(Append(nodes, e)) = Len(nodes) + 1
          /\ Append(nodes, e)[Len(nodes) + 1] = e
      BY <2>10, Appended
    <3>2. got.list[Len(nodes) + 1] = e BY <2>10, <3>1
    <3> QED BY <2>3, <2>10, <3>1, <3>2
  <2>11. /\ IsList(got.list) /\ Len(got.list) = Len(nodes) + 1
         /\ Len(got.list[Len(nodes) + 1].frames) = n
    <3>1. CASE got.list = Append(nodes, far) BY <2>5, <2>8, <2>9, <2>10, <3>1
    <3>2. CASE got.list = Append(nodes, near) BY <2>5, <2>8, <2>9, <2>10, <3>2
    <3> QED BY <2>1, <3>1, <3>2
  <2> QED BY <1>0, <2>1, <2>11
<1> QED BY <1>1, <1>2

(* Steps that leave the list and the allocation in progress alone. *)
LEMMA HeapUntouched ==
  ASSUME HeapInv, nodes' = nodes, pc' = pc, request' = request, new' = new,
         boot' = boot \/ boot # "done",
         boot' \in {"tables", "vga", "acpi", "done"} => boot \in {"tables", "vga", "acpi", "done"}
  PROVE  HeapInv'
<1>1. IsList(nodes)' BY DEF HeapInv, IsList
<1> QED BY <1>1 DEF HeapInv

(* The boot sequence writes the first node. *)
LEMMA HeapBoot == ASSUME HeapInv, Boot PROVE HeapInv'
<1>1. CASE BootAlloc
  <2>1. nodes' = <<node(1, 0, 0, <<>>)>> /\ boot = "alloc" /\ boot' = "tables" /\ pc' = pc
    BY <1>1 DEF BootAlloc
  <2>2. IsNode(node(1, 0, 0, <<>>)) BY DEF IsNode, node
  <2>3. IsList(nodes') BY <2>1, <2>2 DEF IsList
  <2>4. Len(nodes') > 0 BY <2>1
  <2> QED BY <2>1, <2>3, <2>4 DEF HeapInv
<1>2. CASE BootProtect \/ BootPma \/ BootVmaPage
  BY <1>2, HeapUntouched DEF BootProtect, BootPma, BootVmaPage, heap_vars
<1>3. CASE BootVmaAreas \/ BootTablePages \/ BootDevices
  BY <1>3, HeapUntouched DEF BootVmaAreas, BootTablePages, BootDevices, heap_vars
<1> QED BY <1>1, <1>2, <1>3 DEF Boot

(* alloc, step by step. *)
LEMMA HeapAllocVirtual == ASSUME HeapInv, AllocVirtual PROVE HeapInv'
<1>1. /\ pc = "idle" /\ boot = "done" /\ boot' = boot /\ nodes' = nodes /\ new' = new
      /\ \/ pc' = pc /\ request' = request
         \/ \E n \in 1 .. MaxSize : \E a, p : pc' = "node" /\ request' = allocation(a, n, p)
  BY DEF AllocVirtual
<1>2. CASE pc' = pc /\ request' = request BY <1>1, <1>2, HeapUntouched
<1>3. CASE \E n \in 1 .. MaxSize : \E a, p : pc' = "node" /\ request' = allocation(a, n, p)
  <2>1. pc' = "node" /\ request'.size \in Nat BY <1>3 DEF allocation
  <2>2. IsList(nodes)' BY <1>1 DEF HeapInv, IsList
  <2> QED BY <1>1, <2>1, <2>2 DEF HeapInv
<1> QED BY <1>1, <1>2, <1>3

(* The node that is taken is behind all others or one that was killed. *)
LEMMA HeapAllocNode == ASSUME HeapInv, AllocNode PROVE HeapInv'
<1>1. PICK got : /\ got = get_new_allocation(request.size)
                 /\ nodes' = got.list /\ new' = got.new
  BY DEF AllocNode
<1>2. pc = "node" /\ pc' = "frames" /\ request' = request /\ boot' = boot
  BY DEF AllocNode
<1>3. /\ NodeWords \in Nat /\ IsList(nodes) /\ boot = "done" /\ Len(nodes) > 0
      /\ request.size \in Nat
  BY <1>2 DEF HeapInv
<1>4. /\ IsList(got.list) /\ Len(got.list) > 0
      /\ got.new \in 1 .. Len(got.list) /\ Len(got.list[got.new].frames) = request.size
  BY <1>1, <1>3, NewNode
<1> QED BY <1>1, <1>2, <1>3, <1>4 DEF HeapInv

(* As many frames are recorded as the node has room for. *)
LEMMA HeapAllocFrames == ASSUME HeapInv, AllocFrames PROVE HeapInv'
<1>1. /\ pc = "frames" /\ pc' = "idle" /\ request' = request /\ new' = new /\ boot' = boot
      /\ \/ nodes' = nodes
         \/ Enough(request.size) /\ nodes' = Filled(new, Returned(request.size))
  BY DEF AllocFrames, Filled
<1>2. /\ IsList(nodes) /\ new \in 1 .. Len(nodes)
      /\ Len(nodes[new].frames) = request.size
  BY <1>1 DEF HeapInv
<1>3. IsList(nodes') /\ Len(nodes') = Len(nodes)
  BY <1>1, <1>2, FramesChanged DEF Enough
<1> QED BY <1>1, <1>3 DEF HeapInv

(* free only changes the size of a node. *)
LEMMA HeapFree == ASSUME HeapInv, Free PROVE HeapInv'
<1>1. /\ pc = "idle" /\ pc' = "idle" /\ boot' = boot
      /\ \E i : nodes' = Resized(i, 0)
  BY DEF Free, remove_allocation, Resized
<1>2. IsList(nodes') /\ Len(nodes') = Len(nodes) BY <1>1, SizeChanged DEF HeapInv
<1> QED BY <1>1, <1>2 DEF HeapInv

(* No step breaks the list. *)
LEMMA HeapStep == ASSUME HeapInv, [Next]_vars PROVE HeapInv'
<1>1. CASE AllocNodeFails \/ AccessPage \/ Stopped \/ UNCHANGED vars
  BY <1>1, HeapUntouched DEF AllocNodeFails, AccessPage, Stopped, vars, heap_vars
<1> QED BY <1>1, HeapBoot, HeapAllocVirtual, HeapAllocNode, HeapAllocFrames, HeapFree DEF Next

(* For any pages, nodes and requests, and any number of frees, the nodes   *)
(* of the list do not overlap: get_new_allocation never gives out words    *)
(* in which the frames of another allocation are recorded.                 *)
THEOREM AllocNodesAreDisjoint == Spec => []NodesAreDisjoint
<1>1. Init => HeapInv
  <2>1. NodeWords \in Nat BY AllocAssumption
  <2> SUFFICES ASSUME Init PROVE HeapInv OBVIOUS
  <2>2. nodes = << >> /\ boot = "protect" /\ pc = "idle" BY DEF Init
  <2> QED BY <2>1, <2>2 DEF HeapInv, IsList
<1>2. HeapInv => NodesAreDisjoint
  <2> SUFFICES ASSUME HeapInv, NEW i \in 1 .. Len(nodes), NEW j \in 1 .. i - 1,
                      nodes[i].page = nodes[j].page
               PROVE  nodes[j].at + Words(nodes[j]) <= nodes[i].at
    BY DEF NodesAreDisjoint
  <2>1. IsList(nodes) BY DEF HeapInv
  <2>2. j \in 1 .. Len(nodes) /\ j < i BY <2>1, ListFields
  <2>3. nodes[i].page \in Nat /\ Follows(nodes[j], nodes[i]) BY <2>1, <2>2, ListFields
  <2> QED BY <2>3 DEF Follows
<1> QED BY <1>1, <1>2, HeapStep, PTL DEF Spec
=============================================================================

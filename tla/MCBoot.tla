------------------------------- MODULE MCBoot --------------------------------
(* Names of two characters, extensions of one. *)
EXTENDS Boot

CONSTANT MemoryEnd   \* bound: the size of physical memory

MCNames == {<<"K", "K", " ">>, <<"K", "K", "S">>}
MCKernelName == <<"K", "K">>
MCDirNames == {<<"D", " ", " ">>}

entry(b, e, t) == [base |-> b, length |-> e - b, type |-> t]
Types == {"usable", "reserved"}

(* Maps that split the memory into up to three regions, in any order. *)
Permutation(n) ==
  { p \in [1 .. n -> 1 .. n] : \A a, b \in 1 .. n : p[a] = p[b] => a = b }
Cuts(n) ==
  { c \in [0 .. n -> 0 .. MemoryEnd] :
      c[0] = 0 /\ c[n] = MemoryEnd /\ \A k \in 1 .. n : c[k - 1] < c[k] }
Regions(n) ==
  { [k \in 1 .. n |-> entry(c[p[k] - 1], c[p[k]], t[p[k]])] :
      c \in Cuts(n), p \in Permutation(n), t \in [1 .. n -> Types] }

(* A map with as many entries as there is room for. *)
LongMap == [k \in 1 .. MAX_MEMORY_MAP_ENTRIES |-> entry(k - 1, k, "usable")]

MCMaps == Regions(1) \cup Regions(2) \cup Regions(3) \cup {LongMap}
=============================================================================

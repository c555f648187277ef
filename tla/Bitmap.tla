------------------------------- MODULE Bitmap -------------------------------
(***************************************************************************)
(* The searches of intrusive_bitmap.h, as functions of the bits that are   *)
(* set.  A bitmap is a row of limbs of LimbBits bits; its searches shift   *)
(* the int 1, which has IntBits bits.                                      *)
(***************************************************************************)
EXTENDS Integers, Sequences, SequencesExt, FiniteSets

CONSTANTS
  LimbBits,   \* BITS_PER_LIMB, 64
  LimbBytes,  \* BYTES_PER_LIMB, 8
  IntBits,    \* the width of int, 32
  Limbs       \* num_limbs

BitmapAssumption ==
  /\ {LimbBits, LimbBytes, IntBits, Limbs} \subseteq Nat \ {0}
  /\ IntBits < LimbBits

Bits == 0 .. Limbs * LimbBits - 1

div_ceil(a, b) == a \div b + (IF a % b # 0 THEN 1 ELSE 0)

(* num_limbs after make(bits), and size_required(bits). *)
make(bits) == div_ceil(bits, LimbBits)
size_required(bits) == div_ceil(bits, LimbBits) * LimbBytes

(* size() is in bytes. *)
size == Limbs * LimbBytes

Limb(k) == k * LimbBits .. k * LimbBits + LimbBits - 1

test(set, idx) == idx \in set

(* The bits of a limb in the mask 1 << bit, sign-extended to the limb. A   *)
(* shift by the width of int or more is undefined: the processor takes it  *)
(* modulo the width, a compiler may as well have shifted the whole limb.   *)
SignedMask(bit) == IF bit = IntBits - 1 THEN bit .. LimbBits - 1 ELSE {bit}
Mask(bit, shift) ==
  IF bit < IntBits THEN SignedMask(bit)
  ELSE IF shift = "modulo" THEN SignedMask(bit % IntBits)
  ELSE {bit}

(* find_first(v) looks at a limb unless all its bits are the other value;  *)
(* -1 when it finds nothing.                                               *)
Matches(set, v, idx, shift) ==
  LET base == idx - (idx % LimbBits)
  IN (\E b \in Mask(idx % LimbBits, shift) : (base + b) \in set) = v

Found(set, v, shift) ==
  { idx \in Bits :
      /\ \E b \in Limb(idx \div LimbBits) : (b \in set) = v
      /\ Matches(set, v, idx, shift) }

find_first(set, v, shift) ==
  LET found == Found(set, v, shift)
  IN IF found = {} THEN -1
     ELSE CHOOSE idx \in found : \A other \in found : idx <= other

(* find_first_n(v, n) walks size() bits, limb by limb, with the length and *)
(* the start of the run so far.  A limb of the other value ends the run.   *)
(* A limb of the value v extends it by all its bits, and a run that starts *)
(* in such a limb is recorded to start at its last bit.  Whether the run   *)
(* is long enough is asked before a limb and after a bit of a mixed limb.  *)
NoRun == [num |-> 0, start |-> -1, done |-> FALSE]

EndRun(run) == NoRun

ExtendRun(run, n, at) ==
  [run EXCEPT !.num = @ + n, !.start = IF @ = -1 THEN at ELSE @]

find_first_n(set, v, n) ==
  LET Bit(run, idx) ==
        IF run.done \/ idx >= size THEN run
        ELSE IF test(set, idx) # v THEN EndRun(run)
        ELSE [ExtendRun(run, 1, idx) EXCEPT !.done = run.num + 1 >= n]
      Scan(run, k) ==
        IF run.done \/ run.num >= n THEN [run EXCEPT !.done = TRUE]
        ELSE IF \A b \in Limb(k) : test(set, b) # v THEN EndRun(run)
        ELSE IF \A b \in Limb(k) : test(set, b) = v
             THEN ExtendRun(run, LimbBits, k * LimbBits + LimbBits - 1)
        ELSE FoldLeft(Bit, run, [j \in 1..LimbBits |-> k * LimbBits + j - 1])
      last == FoldLeft(Scan, NoRun, [k \in 1 .. div_ceil(size, LimbBits) |-> k - 1])
  IN IF last.done THEN last.start ELSE -1
=============================================================================

--------------------------- MODULE BitwidthRange ---------------------------
(***************************************************************************)
(* The interval lattice Bitwidth_range of                                  *)
(* src/pass/bitwidth/bitwidth_range.cpp: a value {max, min, overflow}.     *)
(* In exact mode max and min are the bounds of the range; in overflow mode *)
(* they are bit counts (negative for negative bounds).  Every mutator of   *)
(* the class is an action; get_bits() and to_lconst() are operators.       *)
(*                                                                         *)
(* The machine integer int64_t is scaled to W bits (TLC integers are 32    *)
(* bits wide): every "63" of the code is W - 1 and "is_i()" means "fits a  *)
(* W-bit signed integer".  Lconst, the arbitrary precision constant of the *)
(* code, is an unbounded integer drawn from Consts.                        *)
(***************************************************************************)
EXTENDS Integers

CONSTANTS
  W,        \* width of the machine integer (64 in the code)
  BitsMax,  \* Bits_max, the first width a Bits_t may not take
  Consts,   \* Lconst arguments the operations are called with
  Sizes     \* Bits_t arguments of set_ubits / set_sbits

ASSUME W \in 3..12
ASSUME BitsMax \in Nat /\ BitsMax > W + 1
ASSUME Consts \subseteq Int /\ Sizes \subseteq 0..(BitsMax - 1)

VARIABLES
  br,      \* the Bitwidth_range object: [max, min, overflow]
  lastOp   \* history: the last operation applied and its arguments

vars == <<br, lastOp>>

MachineMin == -(2 ^ (W - 1))
MachineMax == 2 ^ (W - 1) - 1

\* Lconst::is_i(): the constant fits the machine integer.
IsI(v) == v \in MachineMin..MachineMax

Abs(v) == IF v < 0 THEN -v ELSE v

\* Number of significant bits of x > 0: 64 - __builtin_clzll(x) in the
\* code, floor(log2 x) + 1.  For abs(INT64_MIN), undefined in C, the build
\* yields INT64_MIN whose unsigned value 2^63 has 64 bits: the same result.
BitLength(x) == CHOOSE b \in 1..(2 * W + 8) : 2 ^ (b - 1) <= x /\ x < 2 ^ b

\* Lconst::get_bits() of a non-zero constant: bits of its magnitude.
LconstBits(v) == BitLength(Abs(v))

\* Bits-mode encoding of one bound by set_range (0 stays 0).
BitsOf(v) == IF v = 0 THEN 0 ELSE IF v < 0 THEN -LconstBits(v) ELSE LconstBits(v)

\* Conversion of an int64_t field to the unsigned Bits_t: a negative value
\* wraps to 2^32 + v, which is at least BitsMax; BitsMax stands for it.
ToBitsT(v) == IF v >= 0 THEN v ELSE BitsMax

Lattice(mx, mn, ovf) == [max |-> mx, min |-> mn, overflow |-> ovf]

\* Bitwidth_range::get_bits() of a value b; 0 means "unable to compute".
GetBitsOf(b) ==
  IF b.overflow
  THEN LET bits == ToBitsT(b.max) + (IF b.min < 0 THEN 1 ELSE 0)
       IN  IF bits >= BitsMax THEN 0 ELSE bits
  ELSE (IF b.max = 0 THEN 1 ELSE BitLength(Abs(b.max)))
         + (IF b.min < 0 THEN 1 ELSE 0)

GetBits == GetBitsOf(br)

\* Bitwidth_range::to_lconst(overflow, val): decodes a stored bound.
ToLconst(ovf, val) ==
  IF val = 0 THEN 0
  ELSE IF ~ovf THEN val
  ELSE IF val > 0 THEN 2 ^ val - 1
  ELSE -(2 ^ (-val))

\* Bitwidth_range(const Lconst &val)
ConstVal(v) ==
  IF IsI(v) THEN Lattice(v, v, FALSE)
            ELSE Lattice(BitsOf(v), BitsOf(v), TRUE)

\* Mutant of RangeVal: the exact-mode test looks at max_val only.
RangeValMaxOnly(lo, hi) ==
  IF IsI(hi) THEN Lattice(hi, lo, FALSE)
             ELSE Lattice(BitsOf(hi), BitsOf(lo), TRUE)

\* set_range(min_val, max_val) after its assertion max_val >= min_val.
RangeVal(lo, hi) ==
  IF IsI(hi) /\ IsI(lo) THEN Lattice(hi, lo, FALSE)
                        ELSE Lattice(BitsOf(hi), BitsOf(lo), TRUE)

\* set_sbits(size) after its assertion size < Bits_max.
SbitsVal(n) ==
  CASE n = 0     -> Lattice(326768, -32768, TRUE)
    [] n > W - 1 -> Lattice(n - 1, -(n - 1), TRUE)
    [] OTHER     -> Lattice(2 ^ (n - 1) - 1, -(2 ^ (n - 1)), FALSE)

\* Mutant of UbitsVal: overflow mode stores size - 1 as set_sbits does.
UbitsValSignedCopy(n) ==
  CASE n = 0     -> Lattice(326768, 0, TRUE)
    [] n > W - 1 -> Lattice(n - 1, 0, TRUE)
    [] OTHER     -> Lattice(2 ^ n - 1, 0, FALSE)

\* set_ubits(size) after its assertion size < Bits_max.
UbitsVal(n) ==
  CASE n = 0     -> Lattice(326768, 0, TRUE)
    [] n > W - 1 -> Lattice(n, 0, TRUE)
    [] OTHER     -> Lattice(2 ^ n - 1, 0, FALSE)

Op(k, lo, hi) == [kind |-> k, lo |-> lo, hi |-> hi]

\* Every constructor: Bitwidth_range(Lconst), (Lconst, Lconst),
\* (Bits_t, bool) and (Bits_t).
Init ==
  \/ \E v \in Consts : br = ConstVal(v) /\ lastOp = Op("const", v, v)
  \/ \E lo, hi \in Consts :
       hi >= lo /\ br = RangeVal(lo, hi) /\ lastOp = Op("range", lo, hi)
  \/ \E n \in Sizes :
       \/ br = SbitsVal(n) /\ lastOp = Op("sbits", n, n)
       \/ br = UbitsVal(n) /\ lastOp = Op("ubits", n, n)

SetRange(lo, hi) ==
  /\ hi >= lo                                   \* I(max_val >= min_val)
  /\ br' = RangeVal(lo, hi)
  /\ lastOp' = Op("range", lo, hi)

\* set_narrower_range: asserts against the stored fields (whatever their
\* mode) when both new bounds are machine integers, then set_range.
SetNarrowerRange(lo, hi) ==
  /\ IsI(hi) /\ IsI(lo) => br.max >= hi /\ br.min <= lo
  /\ hi >= lo
  /\ br' = RangeVal(lo, hi)
  /\ lastOp' = Op("narrow", lo, hi)

SetSbits(n) ==
  /\ n < BitsMax
  /\ br' = SbitsVal(n)
  /\ lastOp' = Op("sbits", n, n)

SetUbits(n) ==
  /\ n < BitsMax
  /\ br' = UbitsVal(n)
  /\ lastOp' = Op("ubits", n, n)

Next ==
  \/ \E lo, hi \in Consts : SetRange(lo, hi)
  \/ \E lo, hi \in Consts : SetNarrowerRange(lo, hi)
  \/ \E n \in Sizes : SetSbits(n)
  \/ \E n \in Sizes : SetUbits(n)

Spec == Init /\ [][Next]_vars

-----------------------------------------------------------------------------
(* Properties.                                                             *)

\* The fields hold machine integers; in exact mode they are the bounds.
TypeOK ==
  /\ br \in [max : Int, min : Int, overflow : BOOLEAN]
  /\ ~br.overflow => IsI(br.max) /\ IsI(br.min)
  /\ lastOp \in [kind : {"const", "range", "narrow", "sbits", "ubits"},
                 lo : Int, hi : Int]

\* Spec 8: after set_ubits(n) with n >= 1, get_bits() returns n, in exact
\* and in overflow mode alike (the bitwidth pass reads declared UInt<n>
\* widths back through this round trip).
UbitsRoundTrip ==
  lastOp.kind = "ubits" /\ lastOp.lo >= 1 => GetBits = lastOp.lo

\* Spec 4.1 and 8: get_bits() of an exact-mode range with a negative min
\* is a two's complement width that represents every value of [min, max],
\* and after set_sbits(n) it reads back the declared n.  The code adds one
\* sign bit to the width of max, whatever min is.
SignedWidth ==
  (~br.overflow /\ br.min < 0) =>
    /\ br.min >= -(2 ^ (GetBits - 1)) /\ br.max < 2 ^ (GetBits - 1)
    /\ lastOp.kind = "sbits" /\ lastOp.lo >= 1 => GetBits = lastOp.lo


\* Spec 4.1: set_narrower_range never widens an exact-mode range: after a
\* narrowing step from exact mode, the bounds the new value decodes to
\* (to_lconst) lie within the old bounds.  The code asserts against the
\* old fields only when both new bounds are machine integers.
NarrowKeepsExact ==
  lastOp'.kind = "narrow" /\ ~br.overflow =>
    /\ ToLconst(br'.overflow, br'.min) >= br.min
    /\ ToLconst(br'.overflow, br'.max) <= br.max

\* Spec 4.1 and 8: what the lattice promises of its widths and of
\* narrowing, in every state a step leaves (every state has a successor)
\* and in every step.
LatticeSpec == [][SignedWidth /\ NarrowKeepsExact]_vars

=============================================================================

-------------------------- MODULE MCBitwidthRange --------------------------
(***************************************************************************)
(* Model of BitwidthRange for TLC: a 5-bit machine integer (the code's     *)
(* int64_t), Lconst arguments reaching past it on both sides so that exact *)
(* and overflow mode both occur, and widths at every boundary of           *)
(* set_ubits / set_sbits: 0, 1, the last exact width W - 1, the first      *)
(* overflow width W, and Bits_max - 1.                                     *)
(***************************************************************************)
EXTENDS BitwidthRange

\* Around every power-of-two boundary of a 5-bit machine integer and past
\* its range on both sides (it holds -16..15).
MCConsts == {-40, -33, -17, -16, -9, -8, -5, -4, -2, -1, 0, 1, 2, 3, 4, 7, 8,
             15, 16, 17, 31, 40}
MCSizes  == {0, 1, 2, W - 1, W, W + 1, BitsMax - 1}
=============================================================================

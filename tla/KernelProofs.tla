---------------------------- MODULE KernelProofs ----------------------------
(***************************************************************************)
(* The tile codecs and kernels, for every set of flags and every integer   *)
(* input: each implementation of the score reads the same levels as the    *)
(* reference decoder, and the level of a quantised value is the nearest of *)
(* its codec's grid.                                                       *)
(***************************************************************************)
EXTENDS TileKernels, SetLemmas

-----------------------------------------------------------------------------
(* The tile kernels: numbers of the layout, and what shifts and masks read. *)

LEMMA TileSizes ==
    /\ D_C = 128 /\ LATENT_BYTES = 64 /\ N_GROUPS = 8 /\ GROUP_DIM = 16
    /\ MIXED_HI_DIMS = 8 /\ MIXED_LO_DIMS = 112 /\ MIXED_DIMS = 120 /\ MIXED_LO_GROUPS = 7
    /\ TQ3_CODE_BYTES = 48 /\ MIX3_CODES_OFF = 8 /\ MIX3_CORR_OFF = 50
    /\ TQ3_HALF_RANGE = 14 /\ TQ3_CORRECTION = 1
    /\ Dims = 0 .. 127 /\ Groups = 0 .. 7 /\ LoGroups = 0 .. 6
<1>1. D_C = 128 /\ N_GROUPS = 8 /\ MIXED_HI_DIMS = 8 /\ TQ3_HALF_RANGE = 14 /\ TQ3_CORRECTION = 1
  BY DEF D_C, N_GROUPS, MIXED_HI_DIMS, TQ3_HALF_RANGE, TQ3_CORRECTION
<1>2. LATENT_BYTES = 64 /\ GROUP_DIM = 16 /\ TQ3_CODE_BYTES = 48
  BY <1>1 DEF LATENT_BYTES, GROUP_DIM, TQ3_CODE_BYTES
<1>3. MIXED_LO_DIMS = 112 /\ MIXED_LO_GROUPS = 7 /\ MIX3_CODES_OFF = 8
  BY <1>1, <1>2 DEF MIXED_LO_DIMS, MIXED_LO_GROUPS, MIX3_CODES_OFF
<1>4. MIXED_DIMS = 120 /\ MIX3_CORR_OFF = 50
  BY <1>1, <1>3 DEF MIXED_DIMS, MIX3_CORR_OFF
<1> QED BY <1>1, <1>2, <1>3, <1>4 DEF Dims, Groups, LoGroups

LEMMA BitType == \A L, p : Bit(L, p) \in {0, 1}
BY DEF Bit

LEMMA NibbleType == \A L, p : Nibble(L, p) \in 0 .. 15 /\ Bits3(L, p) \in 0 .. 7
<1> SUFFICES ASSUME NEW L, NEW p PROVE Nibble(L, p) \in 0 .. 15 /\ Bits3(L, p) \in 0 .. 7
  OBVIOUS
<1>1. Bit(L, p) \in {0, 1} /\ Bit(L, p + 1) \in {0, 1} /\ Bit(L, p + 2) \in {0, 1} /\ Bit(L, p + 3) \in {0, 1}
  BY BitType
<1> QED BY <1>1 DEF Nibble, Bits3

(* A byte, bit by bit.                                                      *)
LEMMA ByteBits ==
    ASSUME NEW L, NEW b \in Int
    PROVE  Byte(L, b) = Bit(L, 8 * b) + 2 * Bit(L, 8 * b + 1) + 4 * Bit(L, 8 * b + 2)
               + 8 * Bit(L, 8 * b + 3) + 16 * Bit(L, 8 * b + 4) + 32 * Bit(L, 8 * b + 5)
               + 64 * Bit(L, 8 * b + 6) + 128 * Bit(L, 8 * b + 7)
<1>1. 8 * b + 4 + 1 = 8 * b + 5 /\ 8 * b + 4 + 2 = 8 * b + 6 /\ 8 * b + 4 + 3 = 8 * b + 7
  OBVIOUS
<1>2. \A i \in 0 .. 7 : Bit(L, 8 * b + i) \in Int /\ Bit(L, 8 * b) \in Int
  BY BitType
<1> QED BY <1>1, <1>2 DEF Byte, Nibble, Bits3

(* Both halves of a byte.                                                   *)
LEMMA ByteHalves ==
    ASSUME NEW L, NEW b \in Int
    PROVE  /\ Byte(L, b) % 16 = Nibble(L, 8 * b) /\ Byte(L, b) \div 16 = Nibble(L, 8 * b + 4)
           /\ Byte(L, b) \in 0 .. 255
<1>1. Nibble(L, 8 * b) \in 0 .. 15 /\ Nibble(L, 8 * b + 4) \in 0 .. 15
  BY NibbleType
<1> QED BY <1>1 DEF Byte

LEMMA DropLow ==
    ASSUME NEW y \in 0 .. 7, NEW hi \in Nat
    PROVE  /\ ((y + 8 * hi) \div 1) % 8 = y
           /\ \A lo \in 0 .. 1 : ((lo + 2 * (y + 8 * hi)) \div 2) % 8 = y
           /\ \A lo \in 0 .. 3 : ((lo + 4 * (y + 8 * hi)) \div 4) % 8 = y
           /\ \A lo \in 0 .. 7 : ((lo + 8 * (y + 8 * hi)) \div 8) % 8 = y
           /\ \A lo \in 0 .. 15 : ((lo + 16 * (y + 8 * hi)) \div 16) % 8 = y
           /\ \A lo \in 0 .. 31 : ((lo + 32 * (y + 8 * hi)) \div 32) % 8 = y
           /\ \A lo \in 0 .. 63 : ((lo + 64 * (y + 8 * hi)) \div 64) % 8 = y
           /\ \A lo \in 0 .. 127 : ((lo + 128 * (y + 8 * hi)) \div 128) % 8 = y
<1>1. PICK z \in Nat : z = y + 8 * hi OBVIOUS
<1>2. z % 8 = y BY <1>1
<1>3. z \div 1 = z OBVIOUS
<1>4. \A lo \in 0 .. 1 : (lo + 2 * z) \div 2 = z OBVIOUS
<1>5. \A lo \in 0 .. 3 : (lo + 4 * z) \div 4 = z OBVIOUS
<1>6. \A lo \in 0 .. 7 : (lo + 8 * z) \div 8 = z OBVIOUS
<1>7. \A lo \in 0 .. 15 : (lo + 16 * z) \div 16 = z OBVIOUS
<1>8. \A lo \in 0 .. 31 : (lo + 32 * z) \div 32 = z OBVIOUS
<1>9. \A lo \in 0 .. 63 : (lo + 64 * z) \div 64 = z OBVIOUS
<1>10. \A lo \in 0 .. 127 : (lo + 128 * z) \div 128 = z OBVIOUS
<1> QED BY <1>1, <1>2, <1>3, <1>4, <1>5, <1>6, <1>7, <1>8, <1>9, <1>10

(* Two bytes, bit by bit: a shift and a mask of three bits.                 *)
Masks(w, a0, a1, a2, a3, a4, a5, a6, a7, a8, a9) ==
    /\ (w \div 1) % 8 = a0 + 2 * a1 + 4 * a2
    /\ (w \div 2) % 8 = a1 + 2 * a2 + 4 * a3
    /\ (w \div 4) % 8 = a2 + 2 * a3 + 4 * a4
    /\ (w \div 8) % 8 = a3 + 2 * a4 + 4 * a5
    /\ (w \div 16) % 8 = a4 + 2 * a5 + 4 * a6
    /\ (w \div 32) % 8 = a5 + 2 * a6 + 4 * a7
    /\ (w \div 64) % 8 = a6 + 2 * a7 + 4 * a8
    /\ (w \div 128) % 8 = a7 + 2 * a8 + 4 * a9

LEMMA ShiftMask ==
    ASSUME NEW a0 \in 0 .. 1, NEW a1 \in 0 .. 1, NEW a2 \in 0 .. 1, NEW a3 \in 0 .. 1,
           NEW a4 \in 0 .. 1, NEW a5 \in 0 .. 1, NEW a6 \in 0 .. 1, NEW a7 \in 0 .. 1,
           NEW a8 \in 0 .. 1, NEW a9 \in 0 .. 1, NEW r \in Nat, NEW w \in Nat,
           w = a0 + 2 * a1 + 4 * a2 + 8 * a3 + 16 * a4 + 32 * a5 + 64 * a6 + 128 * a7
               + 256 * (a8 + 2 * a9 + 4 * r)
    PROVE  Masks(w, a0, a1, a2, a3, a4, a5, a6, a7, a8, a9)
<1>1. (w \div 1) % 8 = a0 + 2 * a1 + 4 * a2
  <2>2. PICK y \in 0 .. 7 : y = a0 + 2 * a1 + 4 * a2 OBVIOUS
  <2>3. PICK hi \in Nat : hi = a3 + 2 * a4 + 4 * a5 + 8 * a6 + 16 * a7 + 32 * (a8 + 2 * a9 + 4 * r) OBVIOUS
  <2>4. w = y + 8 * hi BY <2>2, <2>3
  <2>5. ((y + 8 * hi) \div 1) % 8 = y BY DropLow
  <2> QED BY <2>2, <2>4, <2>5
<1>2. (w \div 2) % 8 = a1 + 2 * a2 + 4 * a3
  <2>1. PICK lo \in 0 .. 1 : lo = a0 OBVIOUS
  <2>2. PICK y \in 0 .. 7 : y = a1 + 2 * a2 + 4 * a3 OBVIOUS
  <2>3. PICK hi \in Nat : hi = a4 + 2 * a5 + 4 * a6 + 8 * a7 + 16 * (a8 + 2 * a9 + 4 * r) OBVIOUS
  <2>4. w = lo + 2 * (y + 8 * hi) BY <2>1, <2>2, <2>3
  <2>5. ((lo + 2 * (y + 8 * hi)) \div 2) % 8 = y BY DropLow
  <2> QED BY <2>2, <2>4, <2>5
<1>3. (w \div 4) % 8 = a2 + 2 * a3 + 4 * a4
  <2>1. PICK lo \in 0 .. 3 : lo = a0 + 2 * a1 OBVIOUS
  <2>2. PICK y \in 0 .. 7 : y = a2 + 2 * a3 + 4 * a4 OBVIOUS
  <2>3. PICK hi \in Nat : hi = a5 + 2 * a6 + 4 * a7 + 8 * (a8 + 2 * a9 + 4 * r) OBVIOUS
  <2>4. w = lo + 4 * (y + 8 * hi) BY <2>1, <2>2, <2>3
  <2>5. ((lo + 4 * (y + 8 * hi)) \div 4) % 8 = y BY DropLow
  <2> QED BY <2>2, <2>4, <2>5
<1>4. (w \div 8) % 8 = a3 + 2 * a4 + 4 * a5
  <2>1. PICK lo \in 0 .. 7 : lo = a0 + 2 * a1 + 4 * a2 OBVIOUS
  <2>2. PICK y \in 0 .. 7 : y = a3 + 2 * a4 + 4 * a5 OBVIOUS
  <2>3. PICK hi \in Nat : hi = a6 + 2 * a7 + 4 * (a8 + 2 * a9 + 4 * r) OBVIOUS
  <2>4. w = lo + 8 * (y + 8 * hi) BY <2>1, <2>2, <2>3
  <2>5. ((lo + 8 * (y + 8 * hi)) \div 8) % 8 = y BY DropLow
  <2> QED BY <2>2, <2>4, <2>5
<1>5. (w \div 16) % 8 = a4 + 2 * a5 + 4 * a6
  <2>1. PICK lo \in 0 .. 15 : lo = a0 + 2 * a1 + 4 * a2 + 8 * a3 OBVIOUS
  <2>2. PICK y \in 0 .. 7 : y = a4 + 2 * a5 + 4 * a6 OBVIOUS
  <2>3. PICK hi \in Nat : hi = a7 + 2 * (a8 + 2 * a9 + 4 * r) OBVIOUS
  <2>4. w = lo + 16 * (y + 8 * hi) BY <2>1, <2>2, <2>3
  <2>5. ((lo + 16 * (y + 8 * hi)) \div 16) % 8 = y BY DropLow
  <2> QED BY <2>2, <2>4, <2>5
<1>6. (w \div 32) % 8 = a5 + 2 * a6 + 4 * a7
  <2>1. PICK lo \in 0 .. 31 : lo = a0 + 2 * a1 + 4 * a2 + 8 * a3 + 16 * a4 OBVIOUS
  <2>2. PICK y \in 0 .. 7 : y = a5 + 2 * a6 + 4 * a7 OBVIOUS
  <2>3. PICK hi \in Nat : hi = a8 + 2 * a9 + 4 * r OBVIOUS
  <2>4. w = lo + 32 * (y + 8 * hi) BY <2>1, <2>2, <2>3
  <2>5. ((lo + 32 * (y + 8 * hi)) \div 32) % 8 = y BY DropLow
  <2> QED BY <2>2, <2>4, <2>5
<1>7. (w \div 64) % 8 = a6 + 2 * a7 + 4 * a8
  <2>1. PICK lo \in 0 .. 63 : lo = a0 + 2 * a1 + 4 * a2 + 8 * a3 + 16 * a4 + 32 * a5 OBVIOUS
  <2>2. PICK y \in 0 .. 7 : y = a6 + 2 * a7 + 4 * a8 OBVIOUS
  <2>3. PICK hi \in Nat : hi = a9 + 2 * r OBVIOUS
  <2>4. w = lo + 64 * (y + 8 * hi) BY <2>1, <2>2, <2>3
  <2>5. ((lo + 64 * (y + 8 * hi)) \div 64) % 8 = y BY DropLow
  <2> QED BY <2>2, <2>4, <2>5
<1>8. (w \div 128) % 8 = a7 + 2 * a8 + 4 * a9
  <2>1. PICK lo \in 0 .. 127 : lo = a0 + 2 * a1 + 4 * a2 + 8 * a3 + 16 * a4 + 32 * a5 + 64 * a6 OBVIOUS
  <2>2. PICK y \in 0 .. 7 : y = a7 + 2 * a8 + 4 * a9 OBVIOUS
  <2>3. PICK hi \in Nat : hi = r OBVIOUS
  <2>4. w = lo + 128 * (y + 8 * hi) BY <2>1, <2>2, <2>3
  <2>5. ((lo + 128 * (y + 8 * hi)) \div 128) % 8 = y BY DropLow
  <2> QED BY <2>2, <2>4, <2>5
<1> QED BY <1>1, <1>2, <1>3, <1>4, <1>5, <1>6, <1>7, <1>8 DEF Masks

(* A code of three bits across two bytes, and one within a byte.            *)
LEMMA TwoByteCode ==
    ASSUME NEW L, NEW b \in Nat, NEW s \in 0 .. 7
    PROVE  ((Byte(L, b) + 256 * Byte(L, b + 1)) \div 2^s) % 8 = Bits3(L, 8 * b + s)
<1>1. PICK a0 \in 0 .. 1 : a0 = Bit(L, 8 * b) BY BitType
<1>2. PICK a1 \in 0 .. 1 : a1 = Bit(L, 8 * b + 1) BY BitType
<1>3. PICK a2 \in 0 .. 1 : a2 = Bit(L, 8 * b + 2) BY BitType
<1>4. PICK a3 \in 0 .. 1 : a3 = Bit(L, 8 * b + 3) BY BitType
<1>5. PICK a4 \in 0 .. 1 : a4 = Bit(L, 8 * b + 4) BY BitType
<1>6. PICK a5 \in 0 .. 1 : a5 = Bit(L, 8 * b + 5) BY BitType
<1>7. PICK a6 \in 0 .. 1 : a6 = Bit(L, 8 * b + 6) BY BitType
<1>8. PICK a7 \in 0 .. 1 : a7 = Bit(L, 8 * b + 7) BY BitType
<1>9. PICK a8 \in 0 .. 1 : a8 = Bit(L, 8 * b + 8) BY BitType
<1>10. PICK a9 \in 0 .. 1 : a9 = Bit(L, 8 * b + 9) BY BitType
<1>11. Byte(L, b) = a0 + 2 * a1 + 4 * a2 + 8 * a3 + 16 * a4 + 32 * a5 + 64 * a6 + 128 * a7
  BY <1>1, <1>2, <1>3, <1>4, <1>5, <1>6, <1>7, <1>8, ByteBits
<1>12. 8 * (b + 1) = 8 * b + 8 /\ 8 * (b + 1) + 1 = 8 * b + 9
  OBVIOUS
<1>13. PICK r \in Nat : Byte(L, b + 1) = a8 + 2 * a9 + 4 * r
  <2>1. PICK c \in Nat : c = b + 1 OBVIOUS
  <2>2. PICK u \in 0 .. 63 : u = Bit(L, 8 * c + 2) + 2 * Bit(L, 8 * c + 3) + 4 * Bit(L, 8 * c + 4)
                                + 8 * Bit(L, 8 * c + 5) + 16 * Bit(L, 8 * c + 6) + 32 * Bit(L, 8 * c + 7)
    <3>1. \A x0, x1, x2, x3, x4, x5 \in 0 .. 1 :
             x0 + 2 * x1 + 4 * x2 + 8 * x3 + 16 * x4 + 32 * x5 \in 0 .. 63
      OBVIOUS
    <3>2. \A i : Bit(L, i) \in 0 .. 1 BY BitType
    <3> QED BY <3>1, <3>2
  <2>3. Byte(L, c) = Bit(L, 8 * c) + 2 * Bit(L, 8 * c + 1) + 4 * u
    <3>1. \A x0, x1, x2, x3, x4, x5, x6, x7 \in 0 .. 1 :
             x0 + 2 * x1 + 4 * x2 + 8 * x3 + 16 * x4 + 32 * x5 + 64 * x6 + 128 * x7
             = x0 + 2 * x1 + 4 * (x2 + 2 * x3 + 4 * x4 + 8 * x5 + 16 * x6 + 32 * x7)
      OBVIOUS
    <3>2. \A i : Bit(L, i) \in 0 .. 1 BY BitType
    <3>3. Byte(L, c) = Bit(L, 8 * c) + 2 * Bit(L, 8 * c + 1) + 4 * Bit(L, 8 * c + 2)
               + 8 * Bit(L, 8 * c + 3) + 16 * Bit(L, 8 * c + 4) + 32 * Bit(L, 8 * c + 5)
               + 64 * Bit(L, 8 * c + 6) + 128 * Bit(L, 8 * c + 7)
      BY ByteBits
    <3> QED BY <3>1, <3>2, <3>3, <2>2
  <2> QED BY <2>1, <2>3, <1>9, <1>10, <1>12
<1>14. PICK w \in Nat : w = a0 + 2 * a1 + 4 * a2 + 8 * a3 + 16 * a4 + 32 * a5 + 64 * a6 + 128 * a7
               + 256 * (a8 + 2 * a9 + 4 * r)
  OBVIOUS
<1>15. Byte(L, b) + 256 * Byte(L, b + 1) = w
  BY <1>11, <1>13, <1>14
<1>16. Masks(w, a0, a1, a2, a3, a4, a5, a6, a7, a8, a9)
  BY <1>14, ShiftMask
<1>17. CASE s = 0
  <2>1. 8 * b + s = 8 * b /\ 8 * b + s + 1 = 8 * b + 1 /\ 8 * b + s + 2 = 8 * b + 2 /\ 2^s = 1
    BY <1>17
  <2>2. Bits3(L, 8 * b + s) = a0 + 2 * a1 + 4 * a2
    BY <2>1, <1>1, <1>2, <1>3 DEF Bits3
  <2> QED BY <2>1, <2>2, <1>15, <1>16 DEF Masks
<1>18. CASE s = 1
  <2>1. 8 * b + s = 8 * b + 1 /\ 8 * b + s + 1 = 8 * b + 2 /\ 8 * b + s + 2 = 8 * b + 3 /\ 2^s = 2
    BY <1>18
  <2>2. Bits3(L, 8 * b + s) = a1 + 2 * a2 + 4 * a3
    BY <2>1, <1>2, <1>3, <1>4 DEF Bits3
  <2> QED BY <2>1, <2>2, <1>15, <1>16 DEF Masks
<1>19. CASE s = 2
  <2>1. 8 * b + s = 8 * b + 2 /\ 8 * b + s + 1 = 8 * b + 3 /\ 8 * b + s + 2 = 8 * b + 4 /\ 2^s = 4
    BY <1>19
  <2>2. Bits3(L, 8 * b + s) = a2 + 2 * a3 + 4 * a4
    BY <2>1, <1>3, <1>4, <1>5 DEF Bits3
  <2> QED BY <2>1, <2>2, <1>15, <1>16 DEF Masks
<1>20. CASE s = 3
  <2>1. 8 * b + s = 8 * b + 3 /\ 8 * b + s + 1 = 8 * b + 4 /\ 8 * b + s + 2 = 8 * b + 5 /\ 2^s = 8
    BY <1>20
  <2>2. Bits3(L, 8 * b + s) = a3 + 2 * a4 + 4 * a5
    BY <2>1, <1>4, <1>5, <1>6 DEF Bits3
  <2> QED BY <2>1, <2>2, <1>15, <1>16 DEF Masks
<1>21. CASE s = 4
  <2>1. 8 * b + s = 8 * b + 4 /\ 8 * b + s + 1 = 8 * b + 5 /\ 8 * b + s + 2 = 8 * b + 6 /\ 2^s = 16
    BY <1>21
  <2>2. Bits3(L, 8 * b + s) = a4 + 2 * a5 + 4 * a6
    BY <2>1, <1>5, <1>6, <1>7 DEF Bits3
  <2> QED BY <2>1, <2>2, <1>15, <1>16 DEF Masks
<1>22. CASE s = 5
  <2>1. 8 * b + s = 8 * b + 5 /\ 8 * b + s + 1 = 8 * b + 6 /\ 8 * b + s + 2 = 8 * b + 7 /\ 2^s = 32
    BY <1>22
  <2>2. Bits3(L, 8 * b + s) = a5 + 2 * a6 + 4 * a7
    BY <2>1, <1>6, <1>7, <1>8 DEF Bits3
  <2> QED BY <2>1, <2>2, <1>15, <1>16 DEF Masks
<1>23. CASE s = 6
  <2>1. 8 * b + s = 8 * b + 6 /\ 8 * b + s + 1 = 8 * b + 7 /\ 8 * b + s + 2 = 8 * b + 8 /\ 2^s = 64
    BY <1>23
  <2>2. Bits3(L, 8 * b + s) = a6 + 2 * a7 + 4 * a8
    BY <2>1, <1>7, <1>8, <1>9 DEF Bits3
  <2> QED BY <2>1, <2>2, <1>15, <1>16 DEF Masks
<1>24. CASE s = 7
  <2>1. 8 * b + s = 8 * b + 7 /\ 8 * b + s + 1 = 8 * b + 8 /\ 8 * b + s + 2 = 8 * b + 9 /\ 2^s = 128
    BY <1>24
  <2>2. Bits3(L, 8 * b + s) = a7 + 2 * a8 + 4 * a9
    BY <2>1, <1>8, <1>9, <1>10 DEF Bits3
  <2> QED BY <2>1, <2>2, <1>15, <1>16 DEF Masks
<1> QED BY <1>17, <1>18, <1>19, <1>20, <1>21, <1>22, <1>23, <1>24

LEMMA OneByteCode ==
    ASSUME NEW L, NEW b \in Nat, NEW s \in 0 .. 7
    PROVE  /\ s <= 5 => (Byte(L, b) \div 2^s) % 8 = Bits3(L, 8 * b + s)
           /\ (Byte(L, b) \div 2^s) % 2 = Bit(L, 8 * b + s)
<1>1. PICK a0 \in 0 .. 1 : a0 = Bit(L, 8 * b) BY BitType
<1>2. PICK a1 \in 0 .. 1 : a1 = Bit(L, 8 * b + 1) BY BitType
<1>3. PICK a2 \in 0 .. 1 : a2 = Bit(L, 8 * b + 2) BY BitType
<1>4. PICK a3 \in 0 .. 1 : a3 = Bit(L, 8 * b + 3) BY BitType
<1>5. PICK a4 \in 0 .. 1 : a4 = Bit(L, 8 * b + 4) BY BitType
<1>6. PICK a5 \in 0 .. 1 : a5 = Bit(L, 8 * b + 5) BY BitType
<1>7. PICK a6 \in 0 .. 1 : a6 = Bit(L, 8 * b + 6) BY BitType
<1>8. PICK a7 \in 0 .. 1 : a7 = Bit(L, 8 * b + 7) BY BitType
<1>9. Byte(L, b) = a0 + 2 * a1 + 4 * a2 + 8 * a3 + 16 * a4 + 32 * a5 + 64 * a6 + 128 * a7
  BY <1>1, <1>2, <1>3, <1>4, <1>5, <1>6, <1>7, <1>8, ByteBits
<1>10. PICK z \in 0 .. 1, r \in Nat : z = 0 /\ r = 0
  OBVIOUS
<1>11. PICK w \in Nat : w = a0 + 2 * a1 + 4 * a2 + 8 * a3 + 16 * a4 + 32 * a5 + 64 * a6 + 128 * a7
               + 256 * (z + 2 * z + 4 * r)
  OBVIOUS
<1>12. Byte(L, b) = w
  BY <1>9, <1>11, <1>10
<1>13. Masks(w, a0, a1, a2, a3, a4, a5, a6, a7, z, z)
  BY <1>11, ShiftMask
<1>14. \A n \in Nat : n % 2 = (n % 8) % 2
  OBVIOUS
<1>15. CASE s = 0
  <2>1. 8 * b + s = 8 * b /\ 8 * b + s + 1 = 8 * b + 1 /\ 8 * b + s + 2 = 8 * b + 2 /\ 2^s = 1
    BY <1>15
  <2>2. (w \div 2^s) % 8 = a0 + 2 * a1 + 4 * a2 /\ (w \div 2^s) \in Nat
    BY <2>1, <1>13, <1>10 DEF Masks
  <2>3. (w \div 2^s) % 2 = a0
    <3>1. PICK m \in Nat : m = w \div 2^s BY <2>2
    <3> QED BY <3>1, <2>2, <1>14
  <2>4. Bits3(L, 8 * b + s) = a0 + 2 * a1 + 4 * a2
    BY <2>1, <1>1, <1>2, <1>3 DEF Bits3
  <2> QED BY <2>1, <2>2, <2>3, <2>4, <1>1, <1>12
<1>16. CASE s = 1
  <2>1. 8 * b + s = 8 * b + 1 /\ 8 * b + s + 1 = 8 * b + 2 /\ 8 * b + s + 2 = 8 * b + 3 /\ 2^s = 2
    BY <1>16
  <2>2. (w \div 2^s) % 8 = a1 + 2 * a2 + 4 * a3 /\ (w \div 2^s) \in Nat
    BY <2>1, <1>13, <1>10 DEF Masks
  <2>3. (w \div 2^s) % 2 = a1
    <3>1. PICK m \in Nat : m = w \div 2^s BY <2>2
    <3> QED BY <3>1, <2>2, <1>14
  <2>4. Bits3(L, 8 * b + s) = a1 + 2 * a2 + 4 * a3
    BY <2>1, <1>2, <1>3, <1>4 DEF Bits3
  <2> QED BY <2>1, <2>2, <2>3, <2>4, <1>2, <1>12
<1>17. CASE s = 2
  <2>1. 8 * b + s = 8 * b + 2 /\ 8 * b + s + 1 = 8 * b + 3 /\ 8 * b + s + 2 = 8 * b + 4 /\ 2^s = 4
    BY <1>17
  <2>2. (w \div 2^s) % 8 = a2 + 2 * a3 + 4 * a4 /\ (w \div 2^s) \in Nat
    BY <2>1, <1>13, <1>10 DEF Masks
  <2>3. (w \div 2^s) % 2 = a2
    <3>1. PICK m \in Nat : m = w \div 2^s BY <2>2
    <3> QED BY <3>1, <2>2, <1>14
  <2>4. Bits3(L, 8 * b + s) = a2 + 2 * a3 + 4 * a4
    BY <2>1, <1>3, <1>4, <1>5 DEF Bits3
  <2> QED BY <2>1, <2>2, <2>3, <2>4, <1>3, <1>12
<1>18. CASE s = 3
  <2>1. 8 * b + s = 8 * b + 3 /\ 8 * b + s + 1 = 8 * b + 4 /\ 8 * b + s + 2 = 8 * b + 5 /\ 2^s = 8
    BY <1>18
  <2>2. (w \div 2^s) % 8 = a3 + 2 * a4 + 4 * a5 /\ (w \div 2^s) \in Nat
    BY <2>1, <1>13, <1>10 DEF Masks
  <2>3. (w \div 2^s) % 2 = a3
    <3>1. PICK m \in Nat : m = w \div 2^s BY <2>2
    <3> QED BY <3>1, <2>2, <1>14
  <2>4. Bits3(L, 8 * b + s) = a3 + 2 * a4 + 4 * a5
    BY <2>1, <1>4, <1>5, <1>6 DEF Bits3
  <2> QED BY <2>1, <2>2, <2>3, <2>4, <1>4, <1>12
<1>19. CASE s = 4
  <2>1. 8 * b + s = 8 * b + 4 /\ 8 * b + s + 1 = 8 * b + 5 /\ 8 * b + s + 2 = 8 * b + 6 /\ 2^s = 16
    BY <1>19
  <2>2. (w \div 2^s) % 8 = a4 + 2 * a5 + 4 * a6 /\ (w \div 2^s) \in Nat
    BY <2>1, <1>13, <1>10 DEF Masks
  <2>3. (w \div 2^s) % 2 = a4
    <3>1. PICK m \in Nat : m = w \div 2^s BY <2>2
    <3> QED BY <3>1, <2>2, <1>14
  <2>4. Bits3(L, 8 * b + s) = a4 + 2 * a5 + 4 * a6
    BY <2>1, <1>5, <1>6, <1>7 DEF Bits3
  <2> QED BY <2>1, <2>2, <2>3, <2>4, <1>5, <1>12
<1>20. CASE s = 5
  <2>1. 8 * b + s = 8 * b + 5 /\ 8 * b + s + 1 = 8 * b + 6 /\ 8 * b + s + 2 = 8 * b + 7 /\ 2^s = 32
    BY <1>20
  <2>2. (w \div 2^s) % 8 = a5 + 2 * a6 + 4 * a7 /\ (w \div 2^s) \in Nat
    BY <2>1, <1>13, <1>10 DEF Masks
  <2>3. (w \div 2^s) % 2 = a5
    <3>1. PICK m \in Nat : m = w \div 2^s BY <2>2
    <3> QED BY <3>1, <2>2, <1>14
  <2>4. Bits3(L, 8 * b + s) = a5 + 2 * a6 + 4 * a7
    BY <2>1, <1>6, <1>7, <1>8 DEF Bits3
  <2> QED BY <2>1, <2>2, <2>3, <2>4, <1>6, <1>12
<1>21. CASE s = 6
  <2>1. 8 * b + s = 8 * b + 6 /\ 8 * b + s + 1 = 8 * b + 7 /\ 8 * b + s + 2 = 8 * b + 8 /\ 2^s = 64
    BY <1>21
  <2>2. (w \div 2^s) % 8 = a6 + 2 * a7 + 4 * 0 /\ (w \div 2^s) \in Nat
    BY <2>1, <1>13, <1>10 DEF Masks
  <2>3. (w \div 2^s) % 2 = a6
    <3>1. PICK m \in Nat : m = w \div 2^s BY <2>2
    <3> QED BY <3>1, <2>2, <1>14
  <2> QED BY <2>1, <2>3, <1>7, <1>12, <1>21
<1>22. CASE s = 7
  <2>1. 8 * b + s = 8 * b + 7 /\ 8 * b + s + 1 = 8 * b + 8 /\ 8 * b + s + 2 = 8 * b + 9 /\ 2^s = 128
    BY <1>22
  <2>2. (w \div 2^s) % 8 = a7 + 2 * 0 + 4 * 0 /\ (w \div 2^s) \in Nat
    BY <2>1, <1>13, <1>10 DEF Masks
  <2>3. (w \div 2^s) % 2 = a7
    <3>1. PICK m \in Nat : m = w \div 2^s BY <2>2
    <3> QED BY <3>1, <2>2, <1>14
  <2> QED BY <2>1, <2>3, <1>8, <1>12, <1>22
<1> QED BY <1>15, <1>16, <1>17, <1>18, <1>19, <1>20, <1>21, <1>22

(* The readers of the scalar code, of the VRAM crate and of CUDA, by the    *)
(* place of the bits they read.                                             *)
LEMMA CodePlace ==
    ASSUME NEW L, NEW off \in Nat, NEW bit \in Nat, NEW end \in Nat, bit + 2 < 8 * (end - off)
    PROVE  ScalarCode(L, off, bit, end) = Bits3(L, 8 * off + bit)
<1>1. PICK byte \in Nat : byte = off + bit \div 8
  OBVIOUS
<1>2. PICK s \in 0 .. 7 : s = bit % 8
  OBVIOUS
<1>3. 8 * byte + s = 8 * off + bit
  BY <1>1, <1>2
<1>4. CASE byte + 1 < end
  <2>1. ScalarCode(L, off, bit, end) = ((Byte(L, byte) + 256 * Byte(L, byte + 1)) \div 2^s) % 8
    BY <1>1, <1>2, <1>4 DEF ScalarCode
  <2>2. ((Byte(L, byte) + 256 * Byte(L, byte + 1)) \div 2^s) % 8 = Bits3(L, 8 * byte + s)
    BY TwoByteCode
  <2> QED BY <2>1, <2>2, <1>3
<1>5. CASE ~(byte + 1 < end)
  <2>1. s <= 5
    BY <1>1, <1>2, <1>5
  <2>2. Byte(L, byte) \in 0 .. 255
    BY ByteHalves
  <2>3. ScalarCode(L, off, bit, end) = ((Byte(L, byte) + 0) \div 2^s) % 8
    BY <1>1, <1>2, <1>5 DEF ScalarCode
  <2>4. (Byte(L, byte) \div 2^s) % 8 = Bits3(L, 8 * byte + s)
    BY <2>1, OneByteCode
  <2>5. Byte(L, byte) + 0 = Byte(L, byte) BY <2>2
  <2> QED BY <2>3, <2>4, <2>5, <1>3
<1> QED BY <1>4, <1>5

LEMMA BitPlace ==
    ASSUME NEW L, NEW off \in Nat, NEW d \in Nat
    PROVE  (Byte(L, off + d \div 8) \div 2^(d % 8)) % 2 = Bit(L, 8 * off + d)
<1>1. PICK byte \in Nat : byte = off + d \div 8
  OBVIOUS
<1>2. PICK s \in 0 .. 7 : s = d % 8
  OBVIOUS
<1>3. 8 * byte + s = 8 * off + d
  BY <1>1, <1>2
<1>4. (Byte(L, byte) \div 2^s) % 2 = Bit(L, 8 * byte + s)
  BY OneByteCode
<1> QED BY <1>1, <1>2, <1>3, <1>4

LEMMA NibblePlace ==
    ASSUME NEW L, NEW o \in Nat, NEW d \in Nat
    PROVE  /\ ScalarNibble(L, o + d \div 2, d) = Nibble(L, 8 * o + 4 * d)
           /\ ext_nibble(Byte(L, o + d \div 2), d % 2 # 0) = Nibble(L, 8 * o + 4 * d)
           /\ ext_nibble(Byte(L, o + d \div 2), d % 2 = 1) = Nibble(L, 8 * o + 4 * d)
           /\ cuda_nibble(L, o + d \div 2, d) = Nibble(L, 8 * o + 4 * d)
           /\ Interleaved(L, o, d) = Nibble(L, 8 * o + 4 * d)
<1>1. PICK b \in Nat : b = o + d \div 2
  OBVIOUS
<1>2. Byte(L, b) % 16 = Nibble(L, 8 * b) /\ Byte(L, b) \div 16 = Nibble(L, 8 * b + 4)
  BY ByteHalves
<1>3. CASE d % 2 = 0
  <2>1. 8 * b = 8 * o + 4 * d /\ 8 * b + 0 = 8 * o + 4 * d /\ 8 * b + 4 * (d % 2) = 8 * o + 4 * d
    BY <1>1, <1>3
  <2> QED BY <1>1, <1>2, <1>3, <2>1 DEF ScalarNibble, ext_nibble, cuda_nibble, Interleaved
<1>4. CASE d % 2 = 1
  <2>1. 8 * b + 4 = 8 * o + 4 * d /\ 8 * b + 4 * (d % 2) = 8 * o + 4 * d
    BY <1>1, <1>4
  <2> QED BY <1>1, <1>2, <1>4, <2>1 DEF ScalarNibble, ext_nibble, cuda_nibble, Interleaved
<1>5. d % 2 = 0 \/ d % 2 = 1
  OBVIOUS
<1> QED BY <1>3, <1>4, <1>5

LEMMA ZipPlace ==
    ASSUME NEW L, NEW o \in Nat, NEW quad \in {0, 4, 8, 12}, NEW lane \in 0 .. 3
    PROVE  Zipped(L, o, quad, lane) = Nibble(L, 8 * o + 4 * (quad + lane))
<1>1. CASE quad < 8
  <2>1. PICK k \in Nat : k = quad + lane OBVIOUS
  <2>2. 8 * (o + 0 + k \div 2) + 4 * (k % 2) = 8 * o + 4 * (quad + lane)
    BY <2>1
  <2> QED BY <1>1, <2>1, <2>2 DEF Zipped
<1>2. CASE ~(quad < 8)
  <2>1. PICK k \in Nat : k = quad - 8 + lane BY <1>2
  <2>2. 8 * (o + 4 + k \div 2) + 4 * (k % 2) = 8 * o + 4 * (quad + lane)
    BY <2>1
  <2> QED BY <1>2, <2>1, <2>2 DEF Zipped
<1> QED BY <1>1, <1>2

-----------------------------------------------------------------------------
(* Kernels against the scalar reference. Ref is the reference by the places *)
(* of the bits it reads.                                                    *)

HeadTerm(L, d) == Term(d, 4 * (Byte(L, d) - 128), 0)

Headed(L, d, body) ==
    IF d < 8 THEN HeadTerm(L, d) ELSE IF d < 120 THEN body ELSE NoTerm(d)

RefMixed(L, d) == Headed(L, d, Term(d, 4 * (Nibble(L, 64 + 4 * (d - 8)) - 8), 1 + (d - 8) \div 16))
RefTq3(F, L, d) == Term(d, Biased(F, Bits3(L, 3 * d), Bit(L, 384 + d)), d \div 16)
RefMix3(F, L, d) ==
    Headed(L, d, Term(d, Biased(F, Bits3(L, 64 + 3 * (d - 8)), Bit(L, 400 + (d - 8))),
                      1 + (d - 8) \div 16))
RefNf4(L, d) == Term(d, NF4_CODEBOOK[Nibble(L, 4 * d) + 1], d \div 16)
RefInt4(L, d) == Term(d, 4 * (Nibble(L, 4 * d) - 8), d \div 16)

Ref(F, L, d) ==
    ByCodec(F, RefMixed(L, d), RefTq3(F, L, d), RefMix3(F, L, d), RefNf4(L, d), RefInt4(L, d))

LEMMA CorrectedIsBiased ==
    ASSUME NEW F, NEW code \in Int, NEW corr \in {0, 1}
    PROVE  Corrected(F, code, corr) = Biased(F, code, corr)
BY TileSizes DEF Corrected, Biased

LEMMA CudaCode ==
    ASSUME NEW F, NEW L, NEW off \in Nat, NEW corr_off \in Nat, NEW d \in Nat
    PROVE  cuda_tq3(F, L, off, corr_off, d)
               = Corrected(F, ScalarCode(L, off, 3 * d, corr_off), Bit(L, 8 * corr_off + d))
<1>1. PICK byte \in Nat : byte = off + (3 * d) \div 8
  OBVIOUS
<1>2. Byte(L, byte) \in 0 .. 255 /\ Byte(L, byte + 1) \in 0 .. 255
  BY ByteHalves
<1>3. PICK hi \in Nat : hi = IF byte + 1 < corr_off THEN Byte(L, byte + 1) * 256 ELSE 0
  BY <1>2
<1>4. hi = IF byte + 1 < corr_off THEN 256 * Byte(L, byte + 1) ELSE 0
  BY <1>2, <1>3
<1>5. ScalarCode(L, off, 3 * d, corr_off) = ((Byte(L, byte) + hi) \div 2^((3 * d) % 8)) % 8
  BY <1>1, <1>4 DEF ScalarCode
<1>6. (Byte(L, corr_off + d \div 8) \div 2^(d % 8)) % 2 = Bit(L, 8 * corr_off + d)
  BY BitPlace
<1> QED BY <1>1, <1>3, <1>5, <1>6 DEF cuda_tq3, Corrected

(* The 3-bit codes of TQ3 and of MIX3, in the scalar code.                  *)
LEMMA Tq3Places ==
    ASSUME NEW F, NEW L, NEW d \in Dims
    PROVE  /\ dequant_at_tq3(F, L, d) = RefTq3(F, L, d) /\ vram_tq3(F, L, d) = RefTq3(F, L, d)
           /\ Term(d, cuda_tq3(F, L, 0, TQ3_CODE_BYTES, d), d \div GROUP_DIM) = RefTq3(F, L, d)
<1>1. d \in 0 .. 127 BY TileSizes
<1>2. ScalarCode(L, 0, 3 * d, 48) = Bits3(L, 3 * d)
  <2>1. 3 * d \in Nat /\ 3 * d + 2 < 8 * (48 - 0) /\ 8 * 0 + 3 * d = 3 * d BY <1>1
  <2> QED BY <2>1, CodePlace
<1>3. Bit(L, 8 * 48 + d) = Bit(L, 384 + d) /\ Bit(L, 384 + d) \in {0, 1}
  BY <1>1, BitType
<1>4. (Byte(L, 48 + d \div 8) \div 2^(d % 8)) % 2 = Bit(L, 384 + d)
  BY <1>1, <1>3, BitPlace
<1>5. Bits3(L, 3 * d) \in Int BY NibbleType
<1>6. Corrected(F, Bits3(L, 3 * d), Bit(L, 384 + d)) = Biased(F, Bits3(L, 3 * d), Bit(L, 384 + d))
  BY <1>3, <1>5, CorrectedIsBiased
<1>7. dequant_at_tq3(F, L, d) = RefTq3(F, L, d)
  BY <1>2, <1>3, <1>6, TileSizes DEF dequant_at_tq3, RefTq3
<1>8. vram_tq3(F, L, d) = RefTq3(F, L, d)
  BY <1>2, <1>4, <1>6, TileSizes DEF vram_tq3, RefTq3
<1>9. cuda_tq3(F, L, 0, 48, d) = Corrected(F, ScalarCode(L, 0, 3 * d, 48), Bit(L, 384 + d))
  BY <1>1, <1>4, CudaCode
<1> QED BY <1>2, <1>6, <1>7, <1>8, <1>9, TileSizes DEF RefTq3

LEMMA Mix3Places ==
    ASSUME NEW F, NEW L, NEW d \in Dims
    PROVE  /\ dequant_at_mix3(F, L, d) = RefMix3(F, L, d) /\ vram_mix3(F, L, d) = RefMix3(F, L, d)
           /\ cuda_head(L, d, cuda_tq3(F, L, MIX3_CODES_OFF, MIX3_CORR_OFF, d - MIXED_HI_DIMS))
                 = RefMix3(F, L, d)
<1>1. d \in 0 .. 127 BY TileSizes
<1>2. CASE d < 8
  <2>1. dequant_at_mix3(F, L, d) = HeadTerm(L, d) /\ vram_mix3(F, L, d) = HeadTerm(L, d)
    BY <1>2, TileSizes DEF dequant_at_mix3, vram_mix3, HeadTerm
  <2>2. \A body : cuda_head(L, d, body) = HeadTerm(L, d)
    BY <1>2, TileSizes DEF cuda_head, HeadTerm
  <2> QED BY <1>2, <2>1, <2>2 DEF RefMix3, Headed
<1>3. CASE ~(d < 120)
  <2>1. ~(d < 8) /\ d >= 120 BY <1>1, <1>3
  <2>2. dequant_at_mix3(F, L, d) = NoTerm(d) /\ vram_mix3(F, L, d) = NoTerm(d)
    BY <1>3, <2>1, TileSizes DEF dequant_at_mix3, vram_mix3
  <2>3. \A body : cuda_head(L, d, body) = NoTerm(d)
    BY <1>3, <2>1, TileSizes DEF cuda_head
  <2> QED BY <1>3, <2>1, <2>2, <2>3 DEF RefMix3, Headed
<1>4. CASE ~(d < 8) /\ d < 120
  <2>1. PICK ld \in 0 .. 111 : ld = d - 8 BY <1>1, <1>4
  <2>2. ScalarCode(L, 8, 3 * ld, 50) = Bits3(L, 64 + 3 * ld)
    <3>1. 3 * ld \in Nat /\ 3 * ld + 2 < 8 * (50 - 8) BY <2>1
    <3>2. ScalarCode(L, 8, 3 * ld, 50) = Bits3(L, 8 * 8 + 3 * ld)
      BY <3>1, CodePlace
    <3> QED BY <3>2
  <2>3. Bit(L, 8 * 50 + ld) = Bit(L, 400 + ld) /\ Bit(L, 400 + ld) \in {0, 1}
    BY BitType
  <2>4. (Byte(L, 50 + ld \div 8) \div 2^(ld % 8)) % 2 = Bit(L, 400 + ld)
    BY <2>3, BitPlace
  <2>5. Bits3(L, 64 + 3 * ld) \in Int BY NibbleType
  <2>6. Corrected(F, Bits3(L, 64 + 3 * ld), Bit(L, 400 + ld))
          = Biased(F, Bits3(L, 64 + 3 * ld), Bit(L, 400 + ld))
    BY <2>3, <2>5, CorrectedIsBiased
  <2>7. cuda_tq3(F, L, 8, 50, ld) = Corrected(F, ScalarCode(L, 8, 3 * ld, 50), Bit(L, 400 + ld))
    BY <2>3, CudaCode
  <2>8. PICK t : t = Term(d, Biased(F, Bits3(L, 64 + 3 * ld), Bit(L, 400 + ld)), 1 + ld \div 16)
    OBVIOUS
  <2>9. RefMix3(F, L, d) = t
    BY <1>4, <2>1, <2>8 DEF RefMix3, Headed
  <2>10. d - MIXED_HI_DIMS = ld /\ ~(d >= 120) BY <1>1, <1>4, <2>1, TileSizes
  <2>11. dequant_at_mix3(F, L, d) = t
    BY <1>4, <2>2, <2>3, <2>6, <2>8, <2>10, TileSizes DEF dequant_at_mix3
  <2>12. vram_mix3(F, L, d) = t
    BY <1>4, <2>2, <2>4, <2>6, <2>8, <2>10, TileSizes DEF vram_mix3
  <2>13. cuda_head(L, d, cuda_tq3(F, L, MIX3_CODES_OFF, MIX3_CORR_OFF, d - MIXED_HI_DIMS)) = t
    BY <1>4, <2>2, <2>6, <2>7, <2>8, <2>10, TileSizes DEF cuda_head
  <2> QED BY <2>9, <2>11, <2>12, <2>13
<1> QED BY <1>2, <1>3, <1>4

LEMMA MixedPlaces ==
    ASSUME NEW L, NEW d \in Dims
    PROVE  /\ dequant_at_mixed(L, d) = RefMixed(L, d) /\ vram_mixed(L, d) = RefMixed(L, d)
           /\ cuda_head(L, d, 4 * (cuda_nibble(L, MIXED_HI_DIMS + (d - MIXED_HI_DIMS) \div 2,
                                               d - MIXED_HI_DIMS) - 8))
                 = RefMixed(L, d)
<1>1. d \in 0 .. 127 BY TileSizes
<1>2. CASE d < 8
  <2>1. dequant_at_mixed(L, d) = HeadTerm(L, d) /\ vram_mixed(L, d) = HeadTerm(L, d)
    BY <1>2, TileSizes DEF dequant_at_mixed, vram_mixed, HeadTerm
  <2>2. \A body : cuda_head(L, d, body) = HeadTerm(L, d)
    BY <1>2, TileSizes DEF cuda_head, HeadTerm
  <2> QED BY <1>2, <2>1, <2>2 DEF RefMixed, Headed
<1>3. CASE ~(d < 120)
  <2>1. ~(d < 8) BY <1>1, <1>3
  <2>2. dequant_at_mixed(L, d) = NoTerm(d) /\ vram_mixed(L, d) = NoTerm(d)
    BY <1>3, <2>1, TileSizes DEF dequant_at_mixed, vram_mixed
  <2>3. \A body : cuda_head(L, d, body) = NoTerm(d)
    BY <1>3, <2>1, TileSizes DEF cuda_head
  <2> QED BY <1>3, <2>1, <2>2, <2>3 DEF RefMixed, Headed
<1>4. CASE ~(d < 8) /\ d < 120
  <2>1. PICK ld \in 0 .. 111 : ld = d - 8 BY <1>1, <1>4
  <2>2. /\ ScalarNibble(L, 8 + ld \div 2, ld) = Nibble(L, 64 + 4 * ld)
        /\ ext_nibble(Byte(L, 8 + ld \div 2), ld % 2 # 0) = Nibble(L, 64 + 4 * ld)
        /\ cuda_nibble(L, 8 + ld \div 2, ld) = Nibble(L, 64 + 4 * ld)
    <3>1. 8 * 8 + 4 * ld = 64 + 4 * ld OBVIOUS
    <3>2. ld \in Nat OBVIOUS
    <3> QED BY <3>1, <3>2, NibblePlace
  <2>3. PICK t : t = Term(d, 4 * (Nibble(L, 64 + 4 * ld) - 8), 1 + ld \div 16)
    OBVIOUS
  <2>4. RefMixed(L, d) = t
    BY <1>4, <2>1, <2>3 DEF RefMixed, Headed
  <2>5. d - MIXED_HI_DIMS = ld BY <1>1, <1>4, <2>1, TileSizes
  <2>6. dequant_at_mixed(L, d) = t
    BY <1>4, <2>2, <2>3, <2>5, TileSizes DEF dequant_at_mixed
  <2>7. vram_mixed(L, d) = t
    BY <1>4, <2>2, <2>3, <2>5, TileSizes DEF vram_mixed
  <2>8. \A body : cuda_head(L, d, body) = Term(d, body, 1 + ld \div 16)
    BY <1>4, <2>5, TileSizes DEF cuda_head
  <2>9. cuda_nibble(L, MIXED_HI_DIMS + (d - MIXED_HI_DIMS) \div 2, d - MIXED_HI_DIMS)
          = Nibble(L, 64 + 4 * ld)
    BY <2>2, <2>5, TileSizes
  <2> QED BY <2>3, <2>4, <2>6, <2>7, <2>8, <2>9
<1> QED BY <1>2, <1>3, <1>4

LEMMA PlainPlaces ==
    ASSUME NEW L, NEW d \in Dims
    PROVE  /\ ScalarNibble(L, d \div 2, d) = Nibble(L, 4 * d)
           /\ ext_nibble(Byte(L, d \div 2), d % 2 # 0) = Nibble(L, 4 * d)
           /\ cuda_nibble(L, d \div 2, d) = Nibble(L, 4 * d)
           /\ vram_int4(L, d) = RefInt4(L, d) /\ vram_nf4(L, d) = RefNf4(L, d)
<1>1. d \in 0 .. 127 BY TileSizes
<1>2. d \in Nat /\ 0 + d \div 2 = d \div 2 /\ 8 * 0 + 4 * d = 4 * d BY <1>1
<1>3. /\ ScalarNibble(L, 0 + d \div 2, d) = Nibble(L, 8 * 0 + 4 * d)
      /\ ext_nibble(Byte(L, 0 + d \div 2), d % 2 # 0) = Nibble(L, 8 * 0 + 4 * d)
      /\ cuda_nibble(L, 0 + d \div 2, d) = Nibble(L, 8 * 0 + 4 * d)
  BY <1>2, NibblePlace
<1>4. /\ ScalarNibble(L, d \div 2, d) = Nibble(L, 4 * d)
      /\ ext_nibble(Byte(L, d \div 2), d % 2 # 0) = Nibble(L, 4 * d)
      /\ cuda_nibble(L, d \div 2, d) = Nibble(L, 4 * d)
  BY <1>2, <1>3
<1> QED BY <1>4, TileSizes DEF vram_int4, vram_nf4, RefInt4, RefNf4

(* The three implementations that go dimension by dimension.                *)
LEMMA RefIsScalar ==
    ASSUME NEW F, NEW L, NEW d \in Dims
    PROVE  /\ dequant_at(F, L, d) = Ref(F, L, d) /\ vram_dequant_at(F, L, d) = Ref(F, L, d)
           /\ slha_score_kernel(F, L)[d] = Ref(F, L, d)
<1>1. CASE "MIXED" \in F
  BY <1>1, MixedPlaces DEF dequant_at, vram_dequant_at, slha_score_kernel, Ref, ByCodec
<1>2. CASE "MIXED" \notin F /\ "TQ3" \in F
  BY <1>2, Tq3Places DEF dequant_at, vram_dequant_at, slha_score_kernel, Ref, ByCodec
<1>3. CASE "MIXED" \notin F /\ "TQ3" \notin F /\ "MIX3" \in F
  BY <1>3, Mix3Places DEF dequant_at, vram_dequant_at, slha_score_kernel, Ref, ByCodec
<1>4. CASE "MIXED" \notin F /\ "TQ3" \notin F /\ "MIX3" \notin F
  BY <1>4, PlainPlaces, TileSizes DEF dequant_at, vram_dequant_at, slha_score_kernel, Ref, ByCodec,
         RefInt4, RefNf4
<1> QED BY <1>1, <1>2, <1>3, <1>4

(* f has one term for each dimension that T does not drop, and it is R's.   *)
Agrees(f, R, T) ==
    Cardinality(DOMAIN f) = Cardinality(RangeOf(f)) /\ RangeOf(f) \cup T = RangeOf(R)

Indexed(R) == DOMAIN R = Dims /\ \A d \in Dims : R[d].q = d

(* Tails: the dimensions from 120 on.                                       *)
ZeroTail(R) == \A d \in Dims : d >= 120 => R[d] = NoTerm(d)

LEMMA Reindexed ==
    ASSUME NEW X, NEW f, DOMAIN f = X, NEW R, Indexed(R), NEW T, T \subseteq RangeOf(R),
           NEW g \in [X -> Dims], \A x \in X : f[x] = R[g[x]],
           \A x, y \in X : g[x] = g[y] => x = y,
           \A d \in Dims : (\E x \in X : g[x] = d) \/ R[d] \in T
    PROVE  Agrees(f, R, T)
<1>1. IsFiniteSet(Dims)
  <2>1. PICK a \in Int, b \in Int : a = 0 /\ b = 127 OBVIOUS
  <2>2. IsFiniteSet(a .. b) BY FS_Interval
  <2> QED BY <2>1, <2>2, TileSizes
<1>2. g \in Injection(X, Dims)
  BY DEF Injection, IsInjective
<1>3. IsFiniteSet(X)
  BY <1>1, <1>2, FS_Injection
<1>4. PICK h : h = [x \in X |-> f[x]] OBVIOUS
<1>5. h \in [X -> RangeOf(f)]
  BY <1>4 DEF RangeOf
<1>6. \A x, y \in X : h[x] = h[y] => x = y
  <2> SUFFICES ASSUME NEW x \in X, NEW y \in X, h[x] = h[y] PROVE x = y OBVIOUS
  <2>1. R[g[x]] = R[g[y]] BY <1>4
  <2>2. R[g[x]].q = g[x] /\ R[g[y]].q = g[y] BY DEF Indexed
  <2>3. g[x] = g[y] BY <2>1, <2>2
  <2> QED BY <2>3
<1>7. h \in Bijection(X, RangeOf(f))
  <2>1. h \in Injection(X, RangeOf(f)) BY <1>5, <1>6 DEF Injection, IsInjective
  <2>2. \A t \in RangeOf(f) : \E x \in X : h[x] = t BY <1>4 DEF RangeOf
  <2> QED BY <1>5, <2>1, <2>2 DEF Bijection, Surjection
<1>8. Cardinality(RangeOf(f)) = Cardinality(X)
  BY <1>3, <1>7, FS_Bijection DEF ExistsBijection
<1>9. RangeOf(f) \subseteq RangeOf(R)
  BY DEF RangeOf, Indexed
<1>10. RangeOf(R) \subseteq RangeOf(f) \cup T
  BY DEF RangeOf, Indexed
<1> QED BY <1>8, <1>9, <1>10 DEF Agrees

LEMMA SameOrder ==
    ASSUME NEW f, NEW R, NEW T, T \subseteq RangeOf(R), Indexed(R), DOMAIN f = Dims,
           \A d \in Dims : f[d] = R[d]
    PROVE  Agrees(f, R, T)
<1>1. PICK g : g = [d \in Dims |-> d] OBVIOUS
<1>2. g \in [Dims -> Dims] /\ \A d \in Dims : g[d] = d BY <1>1
<1> QED BY <1>2, Reindexed

(* The orders in which the kernels go through the dimensions.               *)
LEMMA ByHalves ==
    ASSUME NEW f, NEW R, Indexed(R), DOMAIN f = Halves(Groups),
           \A x \in Halves(Groups) : f[x] = R[16 * x[1] + x[2] + x[3]]
    PROVE  Agrees(f, R, {})
<1>1. PICK X : X = (0 .. 7) \X {0, 8} \X (0 .. 7) OBVIOUS
<1>2. DOMAIN f = X /\ \A x \in X : f[x] = R[16 * x[1] + x[2] + x[3]]
  BY <1>1, TileSizes DEF Halves
<1>3. Dims = 0 .. 127 BY TileSizes
<1>4. \A x \in X : /\ x = <<x[1], x[2], x[3]>> /\ 16 * x[1] + x[2] + x[3] \in Dims
                   /\ x[1] \in 0 .. 7
                   /\ x[2] \in {0, 8}
                   /\ x[3] \in 0 .. 7
  BY <1>1, <1>3
<1>5. PICK g : g = [x \in X |-> 16 * x[1] + x[2] + x[3]] OBVIOUS
<1>6. g \in [X -> Dims] /\ \A x \in X : f[x] = R[g[x]]
  BY <1>2, <1>4, <1>5
<1>7. ASSUME NEW x \in X, NEW y \in X, g[x] = g[y] PROVE x = y
  <2>1. 16 * x[1] + x[2] + x[3] = 16 * y[1] + y[2] + y[3]
    BY <1>5, <1>7
  <2>2.  /\x[1] = y[1] /\ x[2] = y[2] /\ x[3] = y[3]
    BY <1>4, <2>1
  <2> QED BY <1>4, <2>2
<1>8. ASSUME NEW d \in Dims PROVE \E x \in X : g[x] = d
  <2>1. PICK a \in 0 .. 7, b \in {0, 8}, c \in 0 .. 7 : 16 * a + b + c = d
    <3>1. 16 * (d \div 16) + (IF d % 16 < 8 THEN 0 ELSE 8) + (d % 8) = d BY <1>3
    <3>2. (d \div 16) \in 0 .. 7 /\ (IF d % 16 < 8 THEN 0 ELSE 8) \in {0, 8} /\ (d % 8) \in 0 .. 7 BY <1>3
    <3> QED BY <3>1, <3>2
  <2>2. <<a, b, c>> \in X BY <1>1
  <2> QED BY <1>5, <2>1, <2>2
<1> QED BY <1>2, <1>6, <1>7, <1>8, Reindexed

LEMMA ByLanes ==
    ASSUME NEW f, NEW R, Indexed(R), DOMAIN f = Lanes16(Groups),
           \A x \in Lanes16(Groups) : f[x] = R[16 * x[1] + x[2]]
    PROVE  Agrees(f, R, {})
<1>1. PICK X : X = (0 .. 7) \X (0 .. 15) OBVIOUS
<1>2. DOMAIN f = X /\ \A x \in X : f[x] = R[16 * x[1] + x[2]]
  BY <1>1, TileSizes DEF Lanes16
<1>3. Dims = 0 .. 127 BY TileSizes
<1>4. \A x \in X : /\ x = <<x[1], x[2]>> /\ 16 * x[1] + x[2] \in Dims
                   /\ x[1] \in 0 .. 7
                   /\ x[2] \in 0 .. 15
  BY <1>1, <1>3
<1>5. PICK g : g = [x \in X |-> 16 * x[1] + x[2]] OBVIOUS
<1>6. g \in [X -> Dims] /\ \A x \in X : f[x] = R[g[x]]
  BY <1>2, <1>4, <1>5
<1>7. ASSUME NEW x \in X, NEW y \in X, g[x] = g[y] PROVE x = y
  <2>1. 16 * x[1] + x[2] = 16 * y[1] + y[2]
    BY <1>5, <1>7
  <2>2.  /\x[1] = y[1] /\ x[2] = y[2]
    BY <1>4, <2>1
  <2> QED BY <1>4, <2>2
<1>8. ASSUME NEW d \in Dims PROVE \E x \in X : g[x] = d
  <2>1. PICK a \in 0 .. 7, b \in 0 .. 15 : 16 * a + b = d
    <3>1. 16 * (d \div 16) + (d % 16) = d BY <1>3
    <3>2. (d \div 16) \in 0 .. 7 /\ (d % 16) \in 0 .. 15 BY <1>3
    <3> QED BY <3>1, <3>2
  <2>2. <<a, b>> \in X BY <1>1
  <2> QED BY <1>5, <2>1, <2>2
<1> QED BY <1>2, <1>6, <1>7, <1>8, Reindexed

LEMMA ByQuads ==
    ASSUME NEW f, NEW R, Indexed(R), DOMAIN f = Quads(Groups),
           \A x \in Quads(Groups) : f[x] = R[16 * x[1] + x[2] + x[3]]
    PROVE  Agrees(f, R, {})
<1>1. PICK X : X = (0 .. 7) \X {0, 4, 8, 12} \X (0 .. 3) OBVIOUS
<1>2. DOMAIN f = X /\ \A x \in X : f[x] = R[16 * x[1] + x[2] + x[3]]
  BY <1>1, TileSizes DEF Quads
<1>3. Dims = 0 .. 127 BY TileSizes
<1>4. \A x \in X : /\ x = <<x[1], x[2], x[3]>> /\ 16 * x[1] + x[2] + x[3] \in Dims
                   /\ x[1] \in 0 .. 7
                   /\ x[2] \in {0, 4, 8, 12}
                   /\ x[3] \in 0 .. 3
  BY <1>1, <1>3
<1>5. PICK g : g = [x \in X |-> 16 * x[1] + x[2] + x[3]] OBVIOUS
<1>6. g \in [X -> Dims] /\ \A x \in X : f[x] = R[g[x]]
  BY <1>2, <1>4, <1>5
<1>7. ASSUME NEW x \in X, NEW y \in X, g[x] = g[y] PROVE x = y
  <2>1. 16 * x[1] + x[2] + x[3] = 16 * y[1] + y[2] + y[3]
    BY <1>5, <1>7
  <2>2.  /\x[1] = y[1] /\ x[2] = y[2] /\ x[3] = y[3]
    BY <1>4, <2>1
  <2> QED BY <1>4, <2>2
<1>8. ASSUME NEW d \in Dims PROVE \E x \in X : g[x] = d
  <2>1. PICK a \in 0 .. 7, b \in {0, 4, 8, 12}, c \in 0 .. 3 : 16 * a + b + c = d
    <3>1. 16 * (d \div 16) + (4 * ((d % 16) \div 4)) + (d % 4) = d BY <1>3
    <3>2. (d \div 16) \in 0 .. 7 /\ (4 * ((d % 16) \div 4)) \in {0, 4, 8, 12} /\ (d % 4) \in 0 .. 3 BY <1>3
    <3> QED BY <3>1, <3>2
  <2>2. <<a, b, c>> \in X BY <1>1
  <2> QED BY <1>5, <2>1, <2>2
<1> QED BY <1>2, <1>6, <1>7, <1>8, Reindexed

LEMMA ByBlocks ==
    ASSUME NEW f, NEW R, Indexed(R), DOMAIN f = (0 .. 15) \X (0 .. 7),
           \A x \in (0 .. 15) \X (0 .. 7) : f[x] = R[8 * x[1] + x[2]]
    PROVE  Agrees(f, R, {})
<1>1. PICK X : X = (0 .. 15) \X (0 .. 7) OBVIOUS
<1>2. DOMAIN f = X /\ \A x \in X : f[x] = R[8 * x[1] + x[2]]
  BY <1>1, TileSizes
<1>3. Dims = 0 .. 127 BY TileSizes
<1>4. \A x \in X : /\ x = <<x[1], x[2]>> /\ 8 * x[1] + x[2] \in Dims
                   /\ x[1] \in 0 .. 15
                   /\ x[2] \in 0 .. 7
  BY <1>1, <1>3
<1>5. PICK g : g = [x \in X |-> 8 * x[1] + x[2]] OBVIOUS
<1>6. g \in [X -> Dims] /\ \A x \in X : f[x] = R[g[x]]
  BY <1>2, <1>4, <1>5
<1>7. ASSUME NEW x \in X, NEW y \in X, g[x] = g[y] PROVE x = y
  <2>1. 8 * x[1] + x[2] = 8 * y[1] + y[2]
    BY <1>5, <1>7
  <2>2.  /\x[1] = y[1] /\ x[2] = y[2]
    BY <1>4, <2>1
  <2> QED BY <1>4, <2>2
<1>8. ASSUME NEW d \in Dims PROVE \E x \in X : g[x] = d
  <2>1. PICK a \in 0 .. 15, b \in 0 .. 7 : 8 * a + b = d
    <3>1. 8 * (d \div 8) + (d % 8) = d BY <1>3
    <3>2. (d \div 8) \in 0 .. 15 /\ (d % 8) \in 0 .. 7 BY <1>3
    <3> QED BY <3>1, <3>2
  <2>2. <<a, b>> \in X BY <1>1
  <2> QED BY <1>5, <2>1, <2>2
<1> QED BY <1>2, <1>6, <1>7, <1>8, Reindexed

LEMMA ByQuadBlocks ==
    ASSUME NEW f, NEW R, Indexed(R), DOMAIN f = QuadBlocks(D_C),
           \A x \in QuadBlocks(D_C) : f[x] = R[8 * x[1] + x[2] + x[3]]
    PROVE  Agrees(f, R, {})
<1>1. PICK X : X = (0 .. 15) \X {0, 4} \X (0 .. 3) OBVIOUS
<1>2. DOMAIN f = X /\ \A x \in X : f[x] = R[8 * x[1] + x[2] + x[3]]
  BY <1>1, TileSizes DEF QuadBlocks
<1>3. Dims = 0 .. 127 BY TileSizes
<1>4. \A x \in X : /\ x = <<x[1], x[2], x[3]>> /\ 8 * x[1] + x[2] + x[3] \in Dims
                   /\ x[1] \in 0 .. 15
                   /\ x[2] \in {0, 4}
                   /\ x[3] \in 0 .. 3
  BY <1>1, <1>3
<1>5. PICK g : g = [x \in X |-> 8 * x[1] + x[2] + x[3]] OBVIOUS
<1>6. g \in [X -> Dims] /\ \A x \in X : f[x] = R[g[x]]
  BY <1>2, <1>4, <1>5
<1>7. ASSUME NEW x \in X, NEW y \in X, g[x] = g[y] PROVE x = y
  <2>1. 8 * x[1] + x[2] + x[3] = 8 * y[1] + y[2] + y[3]
    BY <1>5, <1>7
  <2>2.  /\x[1] = y[1] /\ x[2] = y[2] /\ x[3] = y[3]
    BY <1>4, <2>1
  <2> QED BY <1>4, <2>2
<1>8. ASSUME NEW d \in Dims PROVE \E x \in X : g[x] = d
  <2>1. PICK a \in 0 .. 15, b \in {0, 4}, c \in 0 .. 3 : 8 * a + b + c = d
    <3>1. 8 * (d \div 8) + (4 * ((d % 8) \div 4)) + (d % 4) = d BY <1>3
    <3>2. (d \div 8) \in 0 .. 15 /\ (4 * ((d % 8) \div 4)) \in {0, 4} /\ (d % 4) \in 0 .. 3 BY <1>3
    <3> QED BY <3>1, <3>2
  <2>2. <<a, b, c>> \in X BY <1>1
  <2> QED BY <1>5, <2>1, <2>2
<1> QED BY <1>2, <1>6, <1>7, <1>8, Reindexed

LEMMA ByFours ==
    ASSUME NEW f, NEW R, Indexed(R), DOMAIN f = (0 .. 31) \X (0 .. 3),
           \A x \in (0 .. 31) \X (0 .. 3) : f[x] = R[4 * x[1] + x[2]]
    PROVE  Agrees(f, R, {})
<1>1. PICK X : X = (0 .. 31) \X (0 .. 3) OBVIOUS
<1>2. DOMAIN f = X /\ \A x \in X : f[x] = R[4 * x[1] + x[2]]
  BY <1>1, TileSizes
<1>3. Dims = 0 .. 127 BY TileSizes
<1>4. \A x \in X : /\ x = <<x[1], x[2]>> /\ 4 * x[1] + x[2] \in Dims
                   /\ x[1] \in 0 .. 31
                   /\ x[2] \in 0 .. 3
  BY <1>1, <1>3
<1>5. PICK g : g = [x \in X |-> 4 * x[1] + x[2]] OBVIOUS
<1>6. g \in [X -> Dims] /\ \A x \in X : f[x] = R[g[x]]
  BY <1>2, <1>4, <1>5
<1>7. ASSUME NEW x \in X, NEW y \in X, g[x] = g[y] PROVE x = y
  <2>1. 4 * x[1] + x[2] = 4 * y[1] + y[2]
    BY <1>5, <1>7
  <2>2.  /\x[1] = y[1] /\ x[2] = y[2]
    BY <1>4, <2>1
  <2> QED BY <1>4, <2>2
<1>8. ASSUME NEW d \in Dims PROVE \E x \in X : g[x] = d
  <2>1. PICK a \in 0 .. 31, b \in 0 .. 3 : 4 * a + b = d
    <3>1. 4 * (d \div 4) + (d % 4) = d BY <1>3
    <3>2. (d \div 4) \in 0 .. 31 /\ (d % 4) \in 0 .. 3 BY <1>3
    <3> QED BY <3>1, <3>2
  <2>2. <<a, b>> \in X BY <1>1
  <2> QED BY <1>5, <2>1, <2>2
<1> QED BY <1>2, <1>6, <1>7, <1>8, Reindexed

LEMMA ByPairs ==
    ASSUME NEW f, NEW R, Indexed(R), DOMAIN f = (0 .. 63) \X {0, 1},
           \A x \in (0 .. 63) \X {0, 1} : f[x] = R[2 * x[1] + x[2]]
    PROVE  Agrees(f, R, {})
<1>1. PICK X : X = (0 .. 63) \X {0, 1} OBVIOUS
<1>2. DOMAIN f = X /\ \A x \in X : f[x] = R[2 * x[1] + x[2]]
  BY <1>1, TileSizes
<1>3. Dims = 0 .. 127 BY TileSizes
<1>4. \A x \in X : /\ x = <<x[1], x[2]>> /\ 2 * x[1] + x[2] \in Dims
                   /\ x[1] \in 0 .. 63
                   /\ x[2] \in {0, 1}
  BY <1>1, <1>3
<1>5. PICK g : g = [x \in X |-> 2 * x[1] + x[2]] OBVIOUS
<1>6. g \in [X -> Dims] /\ \A x \in X : f[x] = R[g[x]]
  BY <1>2, <1>4, <1>5
<1>7. ASSUME NEW x \in X, NEW y \in X, g[x] = g[y] PROVE x = y
  <2>1. 2 * x[1] + x[2] = 2 * y[1] + y[2]
    BY <1>5, <1>7
  <2>2.  /\x[1] = y[1] /\ x[2] = y[2]
    BY <1>4, <2>1
  <2> QED BY <1>4, <2>2
<1>8. ASSUME NEW d \in Dims PROVE \E x \in X : g[x] = d
  <2>1. PICK a \in 0 .. 63, b \in {0, 1} : 2 * a + b = d
    <3>1. 2 * (d \div 2) + (d % 2) = d BY <1>3
    <3>2. (d \div 2) \in 0 .. 63 /\ (d % 2) \in {0, 1} BY <1>3
    <3> QED BY <3>1, <3>2
  <2>2. <<a, b>> \in X BY <1>1
  <2> QED BY <1>5, <2>1, <2>2
<1> QED BY <1>2, <1>6, <1>7, <1>8, Reindexed

(* One term per dimension in every reference.                               *)
LEMMA RefsIndexed ==
    ASSUME NEW F, NEW L
    PROVE  /\ Indexed([d \in Dims |-> RefInt4(L, d)]) /\ Indexed([d \in Dims |-> RefNf4(L, d)])
           /\ Indexed([d \in Dims |-> RefTq3(F, L, d)]) /\ Indexed([d \in Dims |-> RefMixed(L, d)])
           /\ Indexed([d \in Dims |-> RefMix3(F, L, d)]) /\ Indexed([d \in Dims |-> Ref(F, L, d)])
<1>1. \A d : /\ RefInt4(L, d).q = d /\ RefNf4(L, d).q = d /\ RefTq3(F, L, d).q = d
             /\ RefMixed(L, d).q = d /\ RefMix3(F, L, d).q = d
  BY DEF RefInt4, RefNf4, RefTq3, RefMixed, RefMix3, Headed, HeadTerm, NoTerm, Term
<1>2. \A d : Ref(F, L, d).q = d
  BY <1>1 DEF Ref, ByCodec
<1> QED BY <1>1, <1>2 DEF Indexed

(* Codecs of one nibble per dimension: INT4 and NF4.                        *)
LEMMA NibbleKernels ==
    ASSUME NEW L
    PROVE  /\ Agrees(compute_score_avx2(L), [d \in Dims |-> RefInt4(L, d)], {})
           /\ Agrees(compute_score_avx512(L), [d \in Dims |-> RefInt4(L, d)], {})
           /\ Agrees(compute_score_neon(L), [d \in Dims |-> RefInt4(L, d)], {})
           /\ Agrees(compute_score_avx2_nf4(L), [d \in Dims |-> RefNf4(L, d)], {})
           /\ Agrees(compute_score_avx512_nf4(L), [d \in Dims |-> RefNf4(L, d)], {})
           /\ Agrees(compute_score_neon_nf4(L), [d \in Dims |-> RefNf4(L, d)], {})
<1>1. PICK R : R = [d \in Dims |-> RefInt4(L, d)] OBVIOUS
<1>2. PICK N : N = [d \in Dims |-> RefNf4(L, d)] OBVIOUS
<1>3. Indexed(R) /\ Indexed(N) BY <1>1, <1>2, RefsIndexed
<1>4. ASSUME NEW g \in 0 .. 7, NEW k \in 0 .. 15
      PROVE  /\ R[16 * g + k] = Term(16 * g + k, 4 * (Nibble(L, 4 * (16 * g + k)) - 8), g)
             /\ N[16 * g + k] = Term(16 * g + k, NF4_CODEBOOK[Nibble(L, 4 * (16 * g + k)) + 1], g)
             /\ Interleaved(L, g * 8, k) = Nibble(L, 4 * (16 * g + k))
             /\ g * GROUP_DIM + k = 16 * g + k
  <2>1. PICK d \in 0 .. 127 : d = 16 * g + k OBVIOUS
  <2>2. d \in Dims /\ d \div 16 = g BY <2>1, TileSizes
  <2>3. Interleaved(L, g * 8, k) = Nibble(L, 4 * d)
    <3>1. PICK o \in Nat : o = g * 8 OBVIOUS
    <3>2. 8 * o + 4 * k = 4 * d BY <2>1, <3>1
    <3>3. Interleaved(L, o, k) = Nibble(L, 8 * o + 4 * k) BY NibblePlace
    <3> QED BY <3>1, <3>2, <3>3
  <2>4. R[d] = Term(d, 4 * (Nibble(L, 4 * d) - 8), g) /\ N[d] = Term(d, NF4_CODEBOOK[Nibble(L, 4 * d) + 1], g)
    BY <1>1, <1>2, <2>2 DEF RefInt4, RefNf4
  <2> QED BY <2>1, <2>3, <2>4, TileSizes
<1>5. ASSUME NEW x \in Halves(Groups)
      PROVE  /\ compute_score_avx2(L)[x] = R[16 * x[1] + x[2] + x[3]]
             /\ compute_score_avx2_nf4(L)[x] = N[16 * x[1] + x[2] + x[3]]
  <2>1. x[1] \in 0 .. 7 /\ x[2] \in {0, 8} /\ x[3] \in 0 .. 7 BY TileSizes DEF Halves
  <2>2. PICK g \in 0 .. 7, k \in 0 .. 15 : g = x[1] /\ k = x[2] + x[3] BY <2>1
  <2>3. 16 * x[1] + x[2] + x[3] = 16 * g + k /\ x[1] * GROUP_DIM + x[2] + x[3] = 16 * g + k
    BY <2>1, <2>2, TileSizes
  <2>4. compute_score_avx2(L)[x] = Term(16 * g + k, 4 * (Interleaved(L, g * 8, k) - 8), g)
    BY <2>2, <2>3 DEF compute_score_avx2
  <2>5. compute_score_avx2_nf4(L)[x] = Term(16 * g + k, Blend(Interleaved(L, g * 8, k)), g)
    BY <2>2, <2>3 DEF compute_score_avx2_nf4
  <2>6. ASSUME NEW n \in 0 .. 15 PROVE Blend(n) = NF4_CODEBOOK[n + 1]
    <3>1. n > 7 => 8 + (n % 8) + 1 = n + 1 OBVIOUS
    <3>2. ~(n > 7) => (n % 8) + 1 = n + 1 OBVIOUS
    <3> QED BY <3>1, <3>2 DEF Blend
  <2>7. Nibble(L, 4 * (16 * g + k)) \in 0 .. 15 BY NibbleType
  <2> QED BY <1>4, <2>3, <2>4, <2>5, <2>6, <2>7
<1>6. ASSUME NEW x \in Lanes16(Groups)
      PROVE  /\ compute_score_avx512(L)[x] = R[16 * x[1] + x[2]]
             /\ compute_score_avx512_nf4(L)[x] = N[16 * x[1] + x[2]]
  <2>1. x[1] \in 0 .. 7 /\ x[2] \in 0 .. 15 BY TileSizes DEF Lanes16
  <2>2. PICK g \in 0 .. 7, k \in 0 .. 15 : g = x[1] /\ k = x[2] BY <2>1
  <2>3. compute_score_avx512(L)[x] = Term(g * GROUP_DIM + k, 4 * (Interleaved(L, g * 8, k) - 8), g)
    BY <2>2 DEF compute_score_avx512
  <2>4. compute_score_avx512_nf4(L)[x] = Term(g * GROUP_DIM + k, NF4_CODEBOOK[Interleaved(L, g * 8, k) + 1], g)
    BY <2>2 DEF compute_score_avx512_nf4
  <2> QED BY <1>4, <2>2, <2>3, <2>4
<1>7. ASSUME NEW x \in Quads(Groups)
      PROVE  /\ compute_score_neon(L)[x] = R[16 * x[1] + x[2] + x[3]]
             /\ compute_score_neon_nf4(L)[x] = N[16 * x[1] + x[2] + x[3]]
  <2>1. x[1] \in 0 .. 7 /\ x[2] \in {0, 4, 8, 12} /\ x[3] \in 0 .. 3 BY TileSizes DEF Quads
  <2>2. PICK g \in 0 .. 7, k \in 0 .. 15 : g = x[1] /\ k = x[2] + x[3] BY <2>1
  <2>3. 16 * x[1] + x[2] + x[3] = 16 * g + k /\ x[1] * GROUP_DIM + x[2] + x[3] = 16 * g + k
    BY <2>1, <2>2, TileSizes
  <2>4. Zipped(L, g * 8, x[2], x[3]) = Nibble(L, 4 * (16 * g + k))
    <3>1. PICK o \in Nat : o = g * 8 OBVIOUS
    <3>2. Zipped(L, o, x[2], x[3]) = Nibble(L, 8 * o + 4 * (x[2] + x[3])) BY <2>1, ZipPlace
    <3>3. 8 * o + 4 * (x[2] + x[3]) = 4 * (16 * g + k) BY <2>1, <2>2, <3>1
    <3> QED BY <3>1, <3>2, <3>3
  <2>5. compute_score_neon(L)[x] = Term(16 * g + k, 4 * (Zipped(L, g * 8, x[2], x[3]) - 8), g)
    BY <2>2, <2>3 DEF compute_score_neon
  <2>6. compute_score_neon_nf4(L)[x] = Term(16 * g + k, NF4_CODEBOOK[Zipped(L, g * 8, x[2], x[3]) + 1], g)
    BY <2>2, <2>3 DEF compute_score_neon_nf4
  <2> QED BY <1>4, <2>3, <2>4, <2>5, <2>6
<1>8. /\ DOMAIN compute_score_avx2(L) = Halves(Groups) /\ DOMAIN compute_score_avx2_nf4(L) = Halves(Groups)
      /\ DOMAIN compute_score_avx512(L) = Lanes16(Groups) /\ DOMAIN compute_score_avx512_nf4(L) = Lanes16(Groups)
      /\ DOMAIN compute_score_neon(L) = Quads(Groups) /\ DOMAIN compute_score_neon_nf4(L) = Quads(Groups)
  BY DEF compute_score_avx2, compute_score_avx2_nf4, compute_score_avx512, compute_score_avx512_nf4,
         compute_score_neon, compute_score_neon_nf4
<1>9. Agrees(compute_score_avx2(L), R, {}) /\ Agrees(compute_score_avx2_nf4(L), N, {})
  BY <1>3, <1>5, <1>8, ByHalves
<1>10. Agrees(compute_score_avx512(L), R, {}) /\ Agrees(compute_score_avx512_nf4(L), N, {})
  BY <1>3, <1>6, <1>8, ByLanes
<1>11. Agrees(compute_score_neon(L), R, {}) /\ Agrees(compute_score_neon_nf4(L), N, {})
  BY <1>3, <1>7, <1>8, ByQuads
<1> QED BY <1>1, <1>2, <1>9, <1>10, <1>11

(* Codes of three bits with a correction plane.                             *)
LEMMA Tq3Kernels ==
    ASSUME NEW F, NEW L
    PROVE  /\ Agrees(compute_score_avx2_tq3(F, L), [d \in Dims |-> RefTq3(F, L, d)], {})
           /\ Agrees(compute_score_avx512_tq3(F, L), [d \in Dims |-> RefTq3(F, L, d)], {})
           /\ Agrees(compute_score_neon_tq3(F, L), [d \in Dims |-> RefTq3(F, L, d)], {})
<1>1. PICK R : R = [d \in Dims |-> RefTq3(F, L, d)] OBVIOUS
<1>2. Indexed(R) BY <1>1, RefsIndexed
<1>3. \A d \in 0 .. 127 : R[d] = Term(d, Biased(F, Bits3(L, 3 * d), Bit(L, 384 + d)), d \div 16)
  BY <1>1, TileSizes DEF RefTq3
<1>4. ASSUME NEW x \in (0 .. 15) \X (0 .. 7)
      PROVE  compute_score_avx2_tq3(F, L)[x] = R[8 * x[1] + x[2]]
  <2>1. PICK b \in 0 .. 15, k \in 0 .. 7 : b = x[1] /\ k = x[2] OBVIOUS
  <2>2. PICK d \in 0 .. 127 : d = 8 * b + k OBVIOUS
  <2>3. d \div 16 = b \div 2 /\ 8 * (3 * b) + 3 * k = 3 * d /\ 8 * (48 + b) + k = 384 + d
    BY <2>2
  <2>4. compute_score_avx2_tq3(F, L)[x]
          = Term(8 * b + k, Biased(F, Bits3(L, 8 * (3 * b) + 3 * k), Bit(L, 8 * (48 + b) + k)), b \div 2)
    BY <2>1, TileSizes DEF compute_score_avx2_tq3, Window
  <2>5. Bits3(L, 8 * (3 * b) + 3 * k) = Bits3(L, 3 * d) /\ Bit(L, 8 * (48 + b) + k) = Bit(L, 384 + d)
    BY <2>3
  <2>6. R[d] = Term(d, Biased(F, Bits3(L, 3 * d), Bit(L, 384 + d)), b \div 2)
    BY <1>3, <2>3
  <2>7. R[8 * x[1] + x[2]] = R[d]
    BY <2>1, <2>2
  <2>8. Term(8 * b + k, Biased(F, Bits3(L, 8 * (3 * b) + 3 * k), Bit(L, 8 * (48 + b) + k)), b \div 2)
          = Term(d, Biased(F, Bits3(L, 3 * d), Bit(L, 384 + d)), b \div 2)
    BY <2>2, <2>5
  <2> QED BY <2>4, <2>6, <2>7, <2>8
<1>5. ASSUME NEW x \in Lanes16(Groups)
      PROVE  compute_score_avx512_tq3(F, L)[x] = R[16 * x[1] + x[2]]
  <2>1. PICK g \in 0 .. 7, k \in 0 .. 15 : g = x[1] /\ k = x[2] BY TileSizes DEF Lanes16
  <2>2. PICK d \in 0 .. 127 : d = 16 * g + k OBVIOUS
  <2>3. PICK o \in Nat : o = IF k < 8 THEN 0 ELSE 3 OBVIOUS
  <2>4. d \div 16 = g /\ 8 * (6 * g + o) + 3 * (k % 8) = 3 * d /\ 8 * (48 + 2 * g) + k = 384 + d
        /\ g * GROUP_DIM + k = d
    BY <2>2, <2>3, TileSizes
  <2>5. compute_score_avx512_tq3(F, L)[x]
          = Term(g * GROUP_DIM + k, Biased(F, Bits3(L, 8 * (6 * g + o) + 3 * (k % 8)),
                                           Bit(L, 8 * (48 + 2 * g) + k)), g)
    BY <2>1, <2>3, TileSizes DEF compute_score_avx512_tq3, Window
  <2> QED BY <1>3, <2>1, <2>2, <2>4, <2>5
<1>6. ASSUME NEW x \in QuadBlocks(D_C)
      PROVE  compute_score_neon_tq3(F, L)[x] = R[8 * x[1] + x[2] + x[3]]
  <2>1. x[1] \in 0 .. 15 /\ x[2] \in {0, 4} /\ x[3] \in 0 .. 3 BY TileSizes DEF QuadBlocks
  <2>2. PICK b \in 0 .. 15, k \in 0 .. 7 : b = x[1] /\ k = x[2] + x[3] BY <2>1
  <2>3. PICK d \in 0 .. 127 : d = 8 * b + k OBVIOUS
  <2>4. 8 * x[1] + x[2] + x[3] = d BY <2>1, <2>2, <2>3
  <2>5. CODE_SH(x[2], x[3]) = 3 * k /\ CORR_SH(x[2], x[3]) = k BY <2>1, <2>2 DEF CODE_SH, CORR_SH
  <2>6. d \div 16 = b \div 2 /\ 8 * (3 * b) + 3 * k = 3 * d /\ 8 * (48 + b) + k = 384 + d
    BY <2>3
  <2>7. compute_score_neon_tq3(F, L)[x]
          = Term(d, Biased(F, Bits3(L, 8 * (3 * b) + 3 * k), Bit(L, 8 * (48 + b) + k)), b \div 2)
    BY <2>2, <2>4, <2>5, TileSizes DEF compute_score_neon_tq3, Window
  <2> QED BY <1>3, <2>4, <2>6, <2>7
<1>7. /\ DOMAIN compute_score_avx2_tq3(F, L) = (0 .. 15) \X (0 .. 7)
      /\ DOMAIN compute_score_avx512_tq3(F, L) = Lanes16(Groups)
      /\ DOMAIN compute_score_neon_tq3(F, L) = QuadBlocks(D_C)
  BY TileSizes DEF compute_score_avx2_tq3, compute_score_avx512_tq3, compute_score_neon_tq3
<1>8. Agrees(compute_score_avx2_tq3(F, L), R, {}) BY <1>2, <1>4, <1>7, ByBlocks
<1>9. Agrees(compute_score_avx512_tq3(F, L), R, {}) BY <1>2, <1>5, <1>7, ByLanes
<1>10. Agrees(compute_score_neon_tq3(F, L), R, {}) BY <1>2, <1>6, <1>7, ByQuadBlocks
<1> QED BY <1>1, <1>8, <1>9, <1>10

(* h numbers the lanes of the body of a kernel with an 8-bit head.          *)
Numbers(h, X) ==
    /\ h \in [X -> 0 .. 111]
    /\ \A x, y \in X : h[x] = h[y] => x = y
    /\ \A d \in 0 .. 111 : \E x \in X : h[x] = d

(* The reference of a codec with an 8-bit head and a dropped tail.          *)
HeadAndTail(R, L) == Indexed(R) /\ ZeroTail(R) /\ \A d \in 0 .. 7 : R[d] = HeadTerm(L, d)

LEMMA HeadedKernel ==
    ASSUME NEW L, NEW R, HeadAndTail(R, L), NEW X, NEW body, DOMAIN body = X,
           NEW h, Numbers(h, X), \A x \in X : body[x] = R[8 + h[x]],
           \A x \in X : x \notin {-1} \X (0 .. 7)
    PROVE  Agrees(Merge(HeadLanes(L), body), R, TailTerms)
<1>1. PICK H : H = {-1} \X (0 .. 7) OBVIOUS
<1>2. PICK f : f = Merge(HeadLanes(L), body) OBVIOUS
<1>3. DOMAIN HeadLanes(L) = H BY <1>1 DEF HeadLanes
<1>4. DOMAIN f = H \cup X /\ (\A x \in H : f[x] = HeadLanes(L)[x]) /\ \A x \in X : f[x] = body[x]
  BY <1>1, <1>2, <1>3 DEF Merge
<1>5. \A x \in H : x[2] \in 0 .. 7 /\ x = <<-1, x[2]>> BY <1>1
<1>6. ASSUME NEW x \in H PROVE f[x] = R[x[2]]
  BY <1>1, <1>4, <1>5 DEF HeadLanes, HeadTerm, HeadAndTail
<1>7. PICK g : g = [x \in H \cup X |-> IF x \in H THEN x[2] ELSE 8 + h[x]] OBVIOUS
<1>8. \A x \in H : g[x] = x[2] /\ g[x] \in 0 .. 7 BY <1>5, <1>7
<1>9. \A x \in X : g[x] = 8 + h[x] /\ g[x] \in 8 .. 119
  <2>1. \A x \in X : h[x] \in 0 .. 111 BY DEF Numbers
  <2>2. \A x \in X : g[x] = 8 + h[x] BY <1>1, <1>7
  <2> QED BY <2>1, <2>2
<1>10. g \in [H \cup X -> Dims]
  <2>1. \A x \in H \cup X : g[x] \in 0 .. 127 BY <1>8, <1>9
  <2> QED BY <1>7, <2>1, TileSizes
<1>11. \A x \in H \cup X : f[x] = R[g[x]] BY <1>4, <1>6, <1>8, <1>9
<1>12. ASSUME NEW x \in H \cup X, NEW y \in H \cup X, g[x] = g[y] PROVE x = y
  <2>1. CASE x \in H /\ y \in H BY <1>5, <1>8, <1>12, <2>1
  <2>2. CASE x \in X /\ y \in X
    <3>1. h[x] \in 0 .. 111 /\ h[y] \in 0 .. 111 BY <2>2 DEF Numbers
    <3>2. 8 + h[x] = 8 + h[y] BY <1>9, <1>12, <2>2
    <3>3. h[x] = h[y] BY <3>1, <3>2
    <3> QED BY <2>2, <3>3 DEF Numbers
  <2>3. CASE x \in H /\ y \in X BY <1>8, <1>9, <1>12, <2>3
  <2>4. CASE x \in X /\ y \in H BY <1>8, <1>9, <1>12, <2>4
  <2> QED BY <2>1, <2>2, <2>3, <2>4
<1>13. ASSUME NEW d \in Dims PROVE (\E x \in H \cup X : g[x] = d) \/ R[d] \in TailTerms
  <2>1. d \in 0 .. 127 BY TileSizes
  <2>2. CASE d < 8
    <3>1. <<-1, d>> \in H /\ <<-1, d>>[2] = d BY <1>1, <2>1, <2>2
    <3> QED BY <1>8, <3>1
  <2>3. CASE d >= 8 /\ d < 120
    <3>1. PICK e \in 0 .. 111 : d = 8 + e
      <4>1. d - 8 \in 0 .. 111 /\ d = 8 + (d - 8) BY <2>1, <2>3
      <4> QED BY <4>1
    <3>2. PICK x \in X : h[x] = e BY DEF Numbers
    <3> QED BY <1>9, <3>1, <3>2
  <2>4. CASE d >= 120
    <3>1. R[d] = NoTerm(d) BY <2>4 DEF HeadAndTail, ZeroTail
    <3>2. d \in 120 .. 127 BY <2>1, <2>4
    <3> QED BY <3>1, <3>2, TileSizes DEF TailTerms
  <2> QED BY <2>1, <2>2, <2>3, <2>4
<1>14. TailTerms \subseteq RangeOf(R)
  <2>1. ASSUME NEW d \in 120 .. 127 PROVE NoTerm(d) \in RangeOf(R)
    <3>1. d \in Dims /\ d >= 120 BY TileSizes
    <3>2. R[d] = NoTerm(d) /\ d \in DOMAIN R BY <3>1 DEF HeadAndTail, ZeroTail, Indexed
    <3> QED BY <3>2 DEF RangeOf
  <2> QED BY <2>1, TileSizes DEF TailTerms
<1>15. Agrees(f, R, TailTerms)
  <2>1. Indexed(R) BY DEF HeadAndTail
  <2> QED BY <1>4, <1>10, <1>11, <1>12, <1>13, <1>14, <2>1, Reindexed
<1> QED BY <1>2, <1>15

LEMMA HalfLanes ==
    /\ Numbers([x \in Halves(LoGroups) |-> 16 * x[1] + x[2] + x[3]], Halves(LoGroups))
    /\ \A x \in Halves(LoGroups) : x \notin {-1} \X (0 .. 7)
<1>1. PICK X : X = (0 .. 6) \X {0, 8} \X (0 .. 7) OBVIOUS
<1>2. Halves(LoGroups) = X BY <1>1, TileSizes DEF Halves
<1>3. \A x \in X : /\ x = <<x[1], x[2], x[3]>> /\ 16 * x[1] + x[2] + x[3] \in 0 .. 111
                   /\ x[1] \in 0 .. 6
                   /\ x[2] \in {0, 8}
                   /\ x[3] \in 0 .. 7
  BY <1>1
<1>4. PICK h : h = [x \in X |-> 16 * x[1] + x[2] + x[3]] OBVIOUS
<1>5. h \in [X -> 0 .. 111] BY <1>3, <1>4
<1>6. ASSUME NEW x \in X, NEW y \in X, h[x] = h[y] PROVE x = y
  <2>1. 16 * x[1] + x[2] + x[3] = 16 * y[1] + y[2] + y[3] BY <1>4, <1>6
  <2>2. x[1] = y[1] /\ x[2] = y[2] /\ x[3] = y[3] BY <1>3, <2>1
  <2> QED BY <1>3, <2>2
<1>7. ASSUME NEW d \in 0 .. 111 PROVE \E x \in X : h[x] = d
  <2>1. PICK a \in 0 .. 6, b \in {0, 8}, c \in 0 .. 7 : 16 * a + b + c = d
    <3>1. 16 * (d \div 16) + (IF d % 16 < 8 THEN 0 ELSE 8) + (d % 8) = d OBVIOUS
    <3>2. (d \div 16) \in 0 .. 6 /\ (IF d % 16 < 8 THEN 0 ELSE 8) \in {0, 8} /\ (d % 8) \in 0 .. 7 OBVIOUS
    <3> QED BY <3>1, <3>2
  <2>2. <<a, b, c>> \in X BY <1>1
  <2> QED BY <1>4, <2>1, <2>2
<1>8. Numbers(h, X) BY <1>5, <1>6, <1>7 DEF Numbers
<1>9. ASSUME NEW x \in X PROVE x \notin {-1} \X (0 .. 7) BY <1>1
<1> QED BY <1>2, <1>4, <1>8, <1>9

LEMMA GroupLanes ==
    /\ Numbers([x \in Lanes16(LoGroups) |-> 16 * x[1] + x[2]], Lanes16(LoGroups))
    /\ \A x \in Lanes16(LoGroups) : x \notin {-1} \X (0 .. 7)
<1>1. PICK X : X = (0 .. 6) \X (0 .. 15) OBVIOUS
<1>2. Lanes16(LoGroups) = X BY <1>1, TileSizes DEF Lanes16
<1>3. \A x \in X : /\ x = <<x[1], x[2]>> /\ 16 * x[1] + x[2] \in 0 .. 111
                   /\ x[1] \in 0 .. 6
                   /\ x[2] \in 0 .. 15
  BY <1>1
<1>4. PICK h : h = [x \in X |-> 16 * x[1] + x[2]] OBVIOUS
<1>5. h \in [X -> 0 .. 111] BY <1>3, <1>4
<1>6. ASSUME NEW x \in X, NEW y \in X, h[x] = h[y] PROVE x = y
  <2>1. 16 * x[1] + x[2] = 16 * y[1] + y[2] BY <1>4, <1>6
  <2>2. x[1] = y[1] /\ x[2] = y[2] BY <1>3, <2>1
  <2> QED BY <1>3, <2>2
<1>7. ASSUME NEW d \in 0 .. 111 PROVE \E x \in X : h[x] = d
  <2>1. PICK a \in 0 .. 6, b \in 0 .. 15 : 16 * a + b = d
    <3>1. 16 * (d \div 16) + (d % 16) = d OBVIOUS
    <3>2. (d \div 16) \in 0 .. 6 /\ (d % 16) \in 0 .. 15 OBVIOUS
    <3> QED BY <3>1, <3>2
  <2>2. <<a, b>> \in X BY <1>1
  <2> QED BY <1>4, <2>1, <2>2
<1>8. Numbers(h, X) BY <1>5, <1>6, <1>7 DEF Numbers
<1>9. ASSUME NEW x \in X PROVE x \notin {-1} \X (0 .. 7) BY <1>1
<1> QED BY <1>2, <1>4, <1>8, <1>9

LEMMA QuadLanes ==
    /\ Numbers([x \in Quads(LoGroups) |-> 16 * x[1] + x[2] + x[3]], Quads(LoGroups))
    /\ \A x \in Quads(LoGroups) : x \notin {-1} \X (0 .. 7)
<1>1. PICK X : X = (0 .. 6) \X {0, 4, 8, 12} \X (0 .. 3) OBVIOUS
<1>2. Quads(LoGroups) = X BY <1>1, TileSizes DEF Quads
<1>3. \A x \in X : /\ x = <<x[1], x[2], x[3]>> /\ 16 * x[1] + x[2] + x[3] \in 0 .. 111
                   /\ x[1] \in 0 .. 6
                   /\ x[2] \in {0, 4, 8, 12}
                   /\ x[3] \in 0 .. 3
  BY <1>1
<1>4. PICK h : h = [x \in X |-> 16 * x[1] + x[2] + x[3]] OBVIOUS
<1>5. h \in [X -> 0 .. 111] BY <1>3, <1>4
<1>6. ASSUME NEW x \in X, NEW y \in X, h[x] = h[y] PROVE x = y
  <2>1. 16 * x[1] + x[2] + x[3] = 16 * y[1] + y[2] + y[3] BY <1>4, <1>6
  <2>2. x[1] = y[1] /\ x[2] = y[2] /\ x[3] = y[3] BY <1>3, <2>1
  <2> QED BY <1>3, <2>2
<1>7. ASSUME NEW d \in 0 .. 111 PROVE \E x \in X : h[x] = d
  <2>1. PICK a \in 0 .. 6, b \in {0, 4, 8, 12}, c \in 0 .. 3 : 16 * a + b + c = d
    <3>1. 16 * (d \div 16) + 4 * ((d % 16) \div 4) + (d % 4) = d OBVIOUS
    <3>2. (d \div 16) \in 0 .. 6 /\ 4 * ((d % 16) \div 4) \in {0, 4, 8, 12} /\ (d % 4) \in 0 .. 3 OBVIOUS
    <3> QED BY <3>1, <3>2
  <2>2. <<a, b, c>> \in X BY <1>1
  <2> QED BY <1>4, <2>1, <2>2
<1>8. Numbers(h, X) BY <1>5, <1>6, <1>7 DEF Numbers
<1>9. ASSUME NEW x \in X PROVE x \notin {-1} \X (0 .. 7) BY <1>1
<1> QED BY <1>2, <1>4, <1>8, <1>9

LEMMA BlockLanes ==
    /\ Numbers([x \in (0 .. 13) \X (0 .. 7) |-> 8 * x[1] + x[2]], (0 .. 13) \X (0 .. 7))
    /\ \A x \in (0 .. 13) \X (0 .. 7) : x \notin {-1} \X (0 .. 7)
<1>1. PICK X : X = (0 .. 13) \X (0 .. 7) OBVIOUS
<1>2. (0 .. 13) \X (0 .. 7) = X BY <1>1, TileSizes
<1>3. \A x \in X : /\ x = <<x[1], x[2]>> /\ 8 * x[1] + x[2] \in 0 .. 111
                   /\ x[1] \in 0 .. 13
                   /\ x[2] \in 0 .. 7
  BY <1>1
<1>4. PICK h : h = [x \in X |-> 8 * x[1] + x[2]] OBVIOUS
<1>5. h \in [X -> 0 .. 111] BY <1>3, <1>4
<1>6. ASSUME NEW x \in X, NEW y \in X, h[x] = h[y] PROVE x = y
  <2>1. 8 * x[1] + x[2] = 8 * y[1] + y[2] BY <1>4, <1>6
  <2>2. x[1] = y[1] /\ x[2] = y[2] BY <1>3, <2>1
  <2> QED BY <1>3, <2>2
<1>7. ASSUME NEW d \in 0 .. 111 PROVE \E x \in X : h[x] = d
  <2>1. PICK a \in 0 .. 13, b \in 0 .. 7 : 8 * a + b = d
    <3>1. 8 * (d \div 8) + (d % 8) = d OBVIOUS
    <3>2. (d \div 8) \in 0 .. 13 /\ (d % 8) \in 0 .. 7 OBVIOUS
    <3> QED BY <3>1, <3>2
  <2>2. <<a, b>> \in X BY <1>1
  <2> QED BY <1>4, <2>1, <2>2
<1>8. Numbers(h, X) BY <1>5, <1>6, <1>7 DEF Numbers
<1>9. ASSUME NEW x \in X PROVE x \notin {-1} \X (0 .. 7) BY <1>1
<1> QED BY <1>2, <1>4, <1>8, <1>9

LEMMA QuadBlockLanes ==
    /\ Numbers([x \in QuadBlocks(MIXED_LO_DIMS) |-> 8 * x[1] + x[2] + x[3]], QuadBlocks(MIXED_LO_DIMS))
    /\ \A x \in QuadBlocks(MIXED_LO_DIMS) : x \notin {-1} \X (0 .. 7)
<1>1. PICK X : X = (0 .. 13) \X {0, 4} \X (0 .. 3) OBVIOUS
<1>2. QuadBlocks(MIXED_LO_DIMS) = X BY <1>1, TileSizes DEF QuadBlocks
<1>3. \A x \in X : /\ x = <<x[1], x[2], x[3]>> /\ 8 * x[1] + x[2] + x[3] \in 0 .. 111
                   /\ x[1] \in 0 .. 13
                   /\ x[2] \in {0, 4}
                   /\ x[3] \in 0 .. 3
  BY <1>1
<1>4. PICK h : h = [x \in X |-> 8 * x[1] + x[2] + x[3]] OBVIOUS
<1>5. h \in [X -> 0 .. 111] BY <1>3, <1>4
<1>6. ASSUME NEW x \in X, NEW y \in X, h[x] = h[y] PROVE x = y
  <2>1. 8 * x[1] + x[2] + x[3] = 8 * y[1] + y[2] + y[3] BY <1>4, <1>6
  <2>2. x[1] = y[1] /\ x[2] = y[2] /\ x[3] = y[3] BY <1>3, <2>1
  <2> QED BY <1>3, <2>2
<1>7. ASSUME NEW d \in 0 .. 111 PROVE \E x \in X : h[x] = d
  <2>1. PICK a \in 0 .. 13, b \in {0, 4}, c \in 0 .. 3 : 8 * a + b + c = d
    <3>1. 8 * (d \div 8) + 4 * ((d % 8) \div 4) + (d % 4) = d OBVIOUS
    <3>2. (d \div 8) \in 0 .. 13 /\ 4 * ((d % 8) \div 4) \in {0, 4} /\ (d % 4) \in 0 .. 3 OBVIOUS
    <3> QED BY <3>1, <3>2
  <2>2. <<a, b, c>> \in X BY <1>1
  <2> QED BY <1>4, <2>1, <2>2
<1>8. Numbers(h, X) BY <1>5, <1>6, <1>7 DEF Numbers
<1>9. ASSUME NEW x \in X PROVE x \notin {-1} \X (0 .. 7) BY <1>1
<1> QED BY <1>2, <1>4, <1>8, <1>9

(* MIXED and MIX3: where the body of a reference finds lane k of block b.   *)
LEMMA HeadedRefs ==
    ASSUME NEW F, NEW L, NEW e \in 0 .. 111
    PROVE  /\ 8 + e \in Dims
           /\ RefMixed(L, 8 + e)
                 = Term(8 + e, 4 * (Nibble(L, 64 + 4 * e) - 8), 1 + e \div 16)
           /\ RefMix3(F, L, 8 + e)
                 = Term(8 + e, Biased(F, Bits3(L, 64 + 3 * e), Bit(L, 400 + e)), 1 + e \div 16)
<1>1. PICK d \in 0 .. 127 : d = 8 + e OBVIOUS
<1>2. ~(d < 8) /\ d < 120 /\ d - 8 = e /\ d \in Dims BY <1>1, TileSizes
<1>3. RefMixed(L, d) = Term(d, 4 * (Nibble(L, 64 + 4 * e) - 8), 1 + e \div 16)
  BY <1>2 DEF RefMixed, Headed
<1>4. RefMix3(F, L, d) = Term(d, Biased(F, Bits3(L, 64 + 3 * e), Bit(L, 400 + e)), 1 + e \div 16)
  BY <1>2 DEF RefMix3, Headed
<1> QED BY <1>1, <1>2, <1>3, <1>4

LEMMA HeadsAndTails ==
    ASSUME NEW F, NEW L
    PROVE  /\ HeadAndTail([d \in Dims |-> RefMixed(L, d)], L)
           /\ HeadAndTail([d \in Dims |-> RefMix3(F, L, d)], L)
<1>1. ASSUME NEW d \in 0 .. 127, NEW body
      PROVE  /\ d < 8 => Headed(L, d, body) = HeadTerm(L, d)
             /\ d >= 120 => Headed(L, d, body) = NoTerm(d)
  <2>1. d >= 120 => ~(d < 8) /\ ~(d < 120) OBVIOUS
  <2> QED BY <2>1 DEF Headed
<1>2. ZeroTail([d \in Dims |-> RefMixed(L, d)]) /\ ZeroTail([d \in Dims |-> RefMix3(F, L, d)])
  BY <1>1, TileSizes DEF ZeroTail, RefMixed, RefMix3
<1>3. ASSUME NEW d \in 0 .. 7
      PROVE  /\ [e \in Dims |-> RefMixed(L, e)][d] = HeadTerm(L, d)
             /\ [e \in Dims |-> RefMix3(F, L, e)][d] = HeadTerm(L, d)
  <2>1. d \in 0 .. 127 /\ d < 8 /\ d \in Dims BY TileSizes
  <2>2. RefMixed(L, d) = HeadTerm(L, d) /\ RefMix3(F, L, d) = HeadTerm(L, d)
    BY <1>1, <2>1 DEF RefMixed, RefMix3
  <2> QED BY <2>1, <2>2
<1> QED BY <1>2, <1>3, RefsIndexed DEF HeadAndTail

LEMMA MixedKernels ==
    ASSUME NEW L
    PROVE  /\ Agrees(compute_score_avx2_mixed(L), [d \in Dims |-> RefMixed(L, d)], TailTerms)
           /\ Agrees(compute_score_avx512_mixed(L), [d \in Dims |-> RefMixed(L, d)], TailTerms)
           /\ Agrees(compute_score_neon_mixed(L), [d \in Dims |-> RefMixed(L, d)], TailTerms)
<1>1. PICK R : R = [d \in Dims |-> RefMixed(L, d)] OBVIOUS
<1>2. HeadAndTail(R, L) BY <1>1, HeadsAndTails
<1>3. ASSUME NEW g \in 0 .. 6, NEW k \in 0 .. 15
      PROVE  /\ R[8 + (16 * g + k)]
                   = Term(8 + (16 * g + k), 4 * (Nibble(L, 64 + 4 * (16 * g + k)) - 8), 1 + g)
             /\ Interleaved(L, MIXED_HI_DIMS + g * 8, k) = Nibble(L, 64 + 4 * (16 * g + k))
  <2>1. PICK e \in 0 .. 111 : e = 16 * g + k OBVIOUS
  <2>2. e \div 16 = g BY <2>1
  <2>3. PICK o \in Nat : o = MIXED_HI_DIMS + g * 8 BY TileSizes
  <2>4. 8 * o + 4 * k = 64 + 4 * e BY <2>1, <2>3, TileSizes
  <2>5. Interleaved(L, o, k) = Nibble(L, 8 * o + 4 * k) BY NibblePlace
  <2>6. R[8 + e] = Term(8 + e, 4 * (Nibble(L, 64 + 4 * e) - 8), 1 + g)
    <3>1. 8 + e \in Dims /\ RefMixed(L, 8 + e) = Term(8 + e, 4 * (Nibble(L, 64 + 4 * e) - 8), 1 + e \div 16)
      BY HeadedRefs
    <3> QED BY <1>1, <2>2, <3>1
  <2> QED BY <2>1, <2>3, <2>4, <2>5, <2>6
<1>4. PICK h : h = [x \in Halves(LoGroups) |-> 16 * x[1] + x[2] + x[3]] OBVIOUS
<1>5. PICK b : b = [x \in Halves(LoGroups) |->
        Term(MIXED_HI_DIMS + x[1] * GROUP_DIM + x[2] + x[3],
             4 * (Interleaved(L, MIXED_HI_DIMS + x[1] * 8, x[2] + x[3]) - 8), 1 + x[1])]
  OBVIOUS
<1>6. ASSUME NEW x \in Halves(LoGroups) PROVE b[x] = R[8 + h[x]]
  <2>1. x[1] \in 0 .. 6 /\ x[2] \in {0, 8} /\ x[3] \in 0 .. 7 BY TileSizes DEF Halves
  <2>2. PICK g \in 0 .. 6, k \in 0 .. 15 : g = x[1] /\ k = x[2] + x[3] BY <2>1
  <2>3. /\ 16 * x[1] + x[2] + x[3] = 16 * g + k
        /\ MIXED_HI_DIMS + x[1] * GROUP_DIM + x[2] + x[3] = 8 + (16 * g + k)
    BY <2>1, <2>2, TileSizes
  <2>4. b[x] = Term(8 + (16 * g + k), 4 * (Interleaved(L, MIXED_HI_DIMS + g * 8, k) - 8), 1 + g)
    BY <1>5, <2>2, <2>3
  <2> QED BY <1>3, <1>4, <2>3, <2>4
<1>7. Agrees(Merge(HeadLanes(L), b), R, TailTerms)
  <2>1. Numbers(h, Halves(LoGroups)) /\ DOMAIN b = Halves(LoGroups)
        /\ \A x \in Halves(LoGroups) : x \notin {-1} \X (0 .. 7)
    BY <1>4, <1>5, HalfLanes
  <2> QED BY <1>2, <1>6, <2>1, HeadedKernel
<1>8. PICK i : i = [x \in Lanes16(LoGroups) |-> 16 * x[1] + x[2]] OBVIOUS
<1>9. PICK c : c = [x \in Lanes16(LoGroups) |->
        Term(MIXED_HI_DIMS + x[1] * GROUP_DIM + x[2],
             4 * (Interleaved(L, MIXED_HI_DIMS + x[1] * 8, x[2]) - 8), 1 + x[1])]
  OBVIOUS
<1>10. ASSUME NEW x \in Lanes16(LoGroups) PROVE c[x] = R[8 + i[x]]
  <2>1. PICK g \in 0 .. 6, k \in 0 .. 15 : g = x[1] /\ k = x[2] BY TileSizes DEF Lanes16
  <2>2. MIXED_HI_DIMS + g * GROUP_DIM + k = 8 + (16 * g + k) BY TileSizes
  <2>3. c[x] = Term(8 + (16 * g + k), 4 * (Interleaved(L, MIXED_HI_DIMS + g * 8, k) - 8), 1 + g)
    BY <1>9, <2>1, <2>2
  <2> QED BY <1>3, <1>8, <2>1, <2>3
<1>11. Agrees(Merge(HeadLanes(L), c), R, TailTerms)
  <2>1. Numbers(i, Lanes16(LoGroups)) /\ DOMAIN c = Lanes16(LoGroups)
        /\ \A x \in Lanes16(LoGroups) : x \notin {-1} \X (0 .. 7)
    BY <1>8, <1>9, GroupLanes
  <2> QED BY <1>2, <1>10, <2>1, HeadedKernel
<1>12. PICK j : j = [x \in Quads(LoGroups) |-> 16 * x[1] + x[2] + x[3]] OBVIOUS
<1>13. PICK n : n = [x \in Quads(LoGroups) |->
        Term(MIXED_HI_DIMS + x[1] * GROUP_DIM + x[2] + x[3],
             4 * (Zipped(L, MIXED_HI_DIMS + x[1] * 8, x[2], x[3]) - 8), 1 + x[1])]
  OBVIOUS
<1>14. ASSUME NEW x \in Quads(LoGroups) PROVE n[x] = R[8 + j[x]]
  <2>1. x[1] \in 0 .. 6 /\ x[2] \in {0, 4, 8, 12} /\ x[3] \in 0 .. 3 BY TileSizes DEF Quads
  <2>2. PICK g \in 0 .. 6, k \in 0 .. 15 : g = x[1] /\ k = x[2] + x[3] BY <2>1
  <2>3. /\ 16 * x[1] + x[2] + x[3] = 16 * g + k
        /\ MIXED_HI_DIMS + x[1] * GROUP_DIM + x[2] + x[3] = 8 + (16 * g + k)
    BY <2>1, <2>2, TileSizes
  <2>4. Zipped(L, MIXED_HI_DIMS + g * 8, x[2], x[3]) = Nibble(L, 64 + 4 * (16 * g + k))
    <3>1. PICK o \in Nat : o = MIXED_HI_DIMS + g * 8 BY TileSizes
    <3>2. Zipped(L, o, x[2], x[3]) = Nibble(L, 8 * o + 4 * (x[2] + x[3])) BY <2>1, ZipPlace
    <3>3. 8 * o + 4 * (x[2] + x[3]) = 64 + 4 * (16 * g + k) BY <2>1, <2>2, <3>1, TileSizes
    <3> QED BY <3>1, <3>2, <3>3
  <2>5. n[x] = Term(8 + (16 * g + k), 4 * (Zipped(L, MIXED_HI_DIMS + g * 8, x[2], x[3]) - 8), 1 + g)
    BY <1>13, <2>2, <2>3
  <2> QED BY <1>3, <1>12, <2>3, <2>4, <2>5
<1>15. Agrees(Merge(HeadLanes(L), n), R, TailTerms)
  <2>1. Numbers(j, Quads(LoGroups)) /\ DOMAIN n = Quads(LoGroups)
        /\ \A x \in Quads(LoGroups) : x \notin {-1} \X (0 .. 7)
    BY <1>12, <1>13, QuadLanes
  <2> QED BY <1>2, <1>14, <2>1, HeadedKernel
<1> QED BY <1>1, <1>5, <1>7, <1>9, <1>11, <1>13, <1>15
      DEF compute_score_avx2_mixed, compute_score_avx512_mixed, compute_score_neon_mixed

LEMMA Mix3Kernels ==
    ASSUME NEW F, NEW L
    PROVE  /\ Agrees(compute_score_avx2_mix3(F, L), [d \in Dims |-> RefMix3(F, L, d)], TailTerms)
           /\ Agrees(compute_score_avx512_mix3(F, L), [d \in Dims |-> RefMix3(F, L, d)], TailTerms)
           /\ Agrees(compute_score_neon_mix3(F, L), [d \in Dims |-> RefMix3(F, L, d)], TailTerms)
<1>1. PICK R : R = [d \in Dims |-> RefMix3(F, L, d)] OBVIOUS
<1>2. HeadAndTail(R, L) BY <1>1, HeadsAndTails
<1>3. \A e \in 0 .. 111 :
        R[8 + e] = Term(8 + e, Biased(F, Bits3(L, 64 + 3 * e), Bit(L, 400 + e)), 1 + e \div 16)
  <2> SUFFICES ASSUME NEW e \in 0 .. 111
               PROVE  R[8 + e] = Term(8 + e, Biased(F, Bits3(L, 64 + 3 * e), Bit(L, 400 + e)), 1 + e \div 16)
    OBVIOUS
  <2>1. /\ 8 + e \in Dims
        /\ RefMix3(F, L, 8 + e) = Term(8 + e, Biased(F, Bits3(L, 64 + 3 * e), Bit(L, 400 + e)), 1 + e \div 16)
    BY HeadedRefs
  <2> QED BY <1>1, <2>1
<1>4. PICK X : X = (0 .. 13) \X (0 .. 7) OBVIOUS
<1>5. PICK h : h = [x \in X |-> 8 * x[1] + x[2]] OBVIOUS
<1>6. PICK b : b = [x \in X |->
        Term(MIXED_HI_DIMS + 8 * x[1] + x[2],
             Biased(F, Window(L, MIX3_CODES_OFF + 3 * x[1], 3 * x[2]),
                    Bit(L, 8 * (MIX3_CORR_OFF + x[1]) + x[2])), 1 + x[1] \div 2)]
  OBVIOUS
<1>7. ASSUME NEW x \in X PROVE b[x] = R[8 + h[x]]
  <2>1. PICK a \in 0 .. 13, k \in 0 .. 7 : a = x[1] /\ k = x[2] BY <1>4
  <2>2. PICK e \in 0 .. 111 : e = 8 * a + k OBVIOUS
  <2>3. /\ e \div 16 = a \div 2 /\ 8 * (8 + 3 * a) + 3 * k = 64 + 3 * e
        /\ 8 * (50 + a) + k = 400 + e /\ 8 + 8 * a + k = 8 + e
    BY <2>2
  <2>4. b[x] = Term(8 + 8 * a + k, Biased(F, Bits3(L, 8 * (8 + 3 * a) + 3 * k),
                                          Bit(L, 8 * (50 + a) + k)), 1 + a \div 2)
    BY <1>6, <2>1, TileSizes DEF Window
  <2>5. h[x] = e BY <1>5, <2>1, <2>2
  <2> QED BY <1>3, <2>3, <2>4, <2>5
<1>8. Agrees(Merge(HeadLanes(L), b), R, TailTerms)
  <2>1. Numbers(h, X) /\ DOMAIN b = X /\ \A x \in X : x \notin {-1} \X (0 .. 7)
    BY <1>4, <1>5, <1>6, BlockLanes
  <2> QED BY <1>2, <1>7, <2>1, HeadedKernel
<1>9. compute_score_avx2_mix3(F, L) = Merge(HeadLanes(L), b)
  BY <1>4, <1>6, TileSizes DEF compute_score_avx2_mix3
<1>10. PICK i : i = [x \in Lanes16(LoGroups) |-> 16 * x[1] + x[2]] OBVIOUS
<1>11. PICK c : c = [x \in Lanes16(LoGroups) |->
        Term(MIXED_HI_DIMS + x[1] * GROUP_DIM + x[2],
             Biased(F, Window(L, MIX3_CODES_OFF + 6 * x[1] + (IF x[2] < 8 THEN 0 ELSE 3),
                              3 * (x[2] % 8)),
                    Bit(L, 8 * (MIX3_CORR_OFF + 2 * x[1]) + x[2])), 1 + x[1])]
  OBVIOUS
<1>12. ASSUME NEW x \in Lanes16(LoGroups) PROVE c[x] = R[8 + i[x]]
  <2>1. PICK g \in 0 .. 6, k \in 0 .. 15 : g = x[1] /\ k = x[2] BY TileSizes DEF Lanes16
  <2>2. PICK e \in 0 .. 111 : e = 16 * g + k OBVIOUS
  <2>3. PICK o \in Nat : o = IF k < 8 THEN 0 ELSE 3 OBVIOUS
  <2>4. /\ e \div 16 = g /\ 8 * (8 + 6 * g + o) + 3 * (k % 8) = 64 + 3 * e
        /\ 8 * (50 + 2 * g) + k = 400 + e
    BY <2>2, <2>3
  <2>5. MIXED_HI_DIMS + g * GROUP_DIM + k = 8 + e BY <2>2, TileSizes
  <2>6. c[x] = Term(MIXED_HI_DIMS + g * GROUP_DIM + k,
                    Biased(F, Bits3(L, 8 * (8 + 6 * g + o) + 3 * (k % 8)), Bit(L, 8 * (50 + 2 * g) + k)),
                    1 + g)
    BY <1>11, <2>1, <2>3, TileSizes DEF Window
  <2>7. i[x] = e BY <1>10, <2>1, <2>2
  <2> QED BY <1>3, <2>4, <2>5, <2>6, <2>7
<1>13. Agrees(Merge(HeadLanes(L), c), R, TailTerms)
  <2>1. Numbers(i, Lanes16(LoGroups)) /\ DOMAIN c = Lanes16(LoGroups)
        /\ \A x \in Lanes16(LoGroups) : x \notin {-1} \X (0 .. 7)
    BY <1>10, <1>11, GroupLanes
  <2> QED BY <1>2, <1>12, <2>1, HeadedKernel
<1>14. compute_score_avx512_mix3(F, L) = Merge(HeadLanes(L), c)
  BY <1>11 DEF compute_score_avx512_mix3
<1>15. PICK Y : Y = QuadBlocks(MIXED_LO_DIMS) OBVIOUS
<1>16. PICK j : j = [x \in Y |-> 8 * x[1] + x[2] + x[3]] OBVIOUS
<1>17. PICK n : n = [x \in Y |->
        Term(MIXED_HI_DIMS + 8 * x[1] + x[2] + x[3],
             Biased(F, Window(L, MIX3_CODES_OFF + 3 * x[1], CODE_SH(x[2], x[3])),
                    Bit(L, 8 * (MIX3_CORR_OFF + x[1]) + CORR_SH(x[2], x[3]))), 1 + x[1] \div 2)]
  OBVIOUS
<1>18. ASSUME NEW x \in Y PROVE n[x] = R[8 + j[x]]
  <2>1. x[1] \in 0 .. 13 /\ x[2] \in {0, 4} /\ x[3] \in 0 .. 3 BY <1>15, TileSizes DEF QuadBlocks
  <2>2. PICK a \in 0 .. 13, k \in 0 .. 7 : a = x[1] /\ k = x[2] + x[3] BY <2>1
  <2>3. PICK e \in 0 .. 111 : e = 8 * a + k OBVIOUS
  <2>4. CODE_SH(x[2], x[3]) = 3 * k /\ CORR_SH(x[2], x[3]) = k BY <2>1, <2>2 DEF CODE_SH, CORR_SH
  <2>5. /\ e \div 16 = a \div 2 /\ 8 * (8 + 3 * a) + 3 * k = 64 + 3 * e /\ 8 * (50 + a) + k = 400 + e
    BY <2>3
  <2>6. 8 * x[1] + x[2] + x[3] = e /\ MIXED_HI_DIMS + 8 * x[1] + x[2] + x[3] = 8 + e
    BY <2>1, <2>2, <2>3, TileSizes
  <2>7. n[x] = Term(8 + e, Biased(F, Bits3(L, 8 * (8 + 3 * a) + 3 * k), Bit(L, 8 * (50 + a) + k)),
                    1 + a \div 2)
    BY <1>17, <2>2, <2>4, <2>6, TileSizes DEF Window
  <2>8. j[x] = e BY <1>16, <2>6
  <2> QED BY <1>3, <2>5, <2>7, <2>8
<1>19. Agrees(Merge(HeadLanes(L), n), R, TailTerms)
  <2>1. Numbers(j, Y) /\ DOMAIN n = Y /\ \A x \in Y : x \notin {-1} \X (0 .. 7)
    BY <1>15, <1>16, <1>17, QuadBlockLanes
  <2> QED BY <1>2, <1>18, <2>1, HeadedKernel
<1>20. compute_score_neon_mix3(F, L) = Merge(HeadLanes(L), n)
  BY <1>15, <1>17 DEF compute_score_neon_mix3
<1> QED BY <1>1, <1>8, <1>9, <1>13, <1>14, <1>19, <1>20

(* The readers of plain INT4 planes, under one scale.                       *)
RefPlain(L, d) == Level(d, Nibble(L, 4 * d))

LEMMA PlainKernels ==
    ASSUME NEW L
    PROVE  /\ Agrees(vector_dot_product_avx512(L), [d \in Dims |-> RefPlain(L, d)], {})
           /\ Agrees(vector_dot_product_neon(L), [d \in Dims |-> RefPlain(L, d)], {})
           /\ Agrees(vector_dot_product_scalar(L), [d \in Dims |-> RefPlain(L, d)], {})
           /\ Agrees(decode_nibbles(L), [d \in Dims |-> RefPlain(L, d)], {})
<1>1. PICK R : R = [d \in Dims |-> RefPlain(L, d)] OBVIOUS
<1>2. Indexed(R) BY <1>1 DEF Indexed, RefPlain, Level, Term
<1>3. \A d \in 0 .. 127 : R[d] = Level(d, Nibble(L, 4 * d)) BY <1>1, TileSizes DEF RefPlain
<1>4. \A d \in 0 .. 127 : ext_nibble(Byte(L, d \div 2), d % 2 # 0) = Nibble(L, 4 * d)
  BY PlainPlaces, TileSizes
<1>5. ASSUME NEW x \in Lanes16(Groups)
      PROVE  vector_dot_product_avx512(L)[x] = R[16 * x[1] + x[2]]
  <2>1. PICK g \in 0 .. 7, k \in 0 .. 15 : g = x[1] /\ k = x[2] BY TileSizes DEF Lanes16
  <2>2. PICK d \in 0 .. 127 : d = 16 * g + k OBVIOUS
  <2>3. d \div 2 = 8 * g + k \div 2 /\ (d % 2 # 0 <=> k % 2 = 1) BY <2>2
  <2>4. ext_nibble(Byte(L, 8 * g + k \div 2), k % 2 = 1) = Nibble(L, 4 * d)
    BY <1>4, <2>3 DEF ext_nibble
  <2>5. x \in Lanes16(0 .. D_C \div 16 - 1) BY TileSizes
  <2>6. vector_dot_product_avx512(L)[x] = Level(16 * g + k, ext_nibble(Byte(L, 8 * g + k \div 2), k % 2 = 1))
    BY <2>1, <2>5 DEF vector_dot_product_avx512
  <2> QED BY <1>3, <2>1, <2>2, <2>4, <2>6
<1>6. ASSUME NEW x \in (0 .. 31) \X (0 .. 3)
      PROVE  vector_dot_product_neon(L)[x] = R[4 * x[1] + x[2]]
  <2>1. PICK g \in 0 .. 31, k \in 0 .. 3 : g = x[1] /\ k = x[2] OBVIOUS
  <2>2. PICK d \in 0 .. 127 : d = 4 * g + k OBVIOUS
  <2>3. d \div 2 = 2 * g + k \div 2 /\ (d % 2 # 0 <=> k % 2 = 1) BY <2>2
  <2>4. ext_nibble(Byte(L, 2 * g + k \div 2), k % 2 = 1) = Nibble(L, 4 * d)
    BY <1>4, <2>3 DEF ext_nibble
  <2>5. vector_dot_product_neon(L)[x] = Level(4 * g + k, ext_nibble(Byte(L, 2 * g + k \div 2), k % 2 = 1))
    BY <2>1, TileSizes DEF vector_dot_product_neon
  <2> QED BY <1>3, <2>1, <2>2, <2>4, <2>5
<1>7. ASSUME NEW d \in Dims PROVE vector_dot_product_scalar(L)[d] = R[d]
  <2>1. d \in 0 .. 127 BY TileSizes
  <2>2. d % 2 = 0 <=> ~(d % 2 # 0) OBVIOUS
  <2>3. vector_dot_product_scalar(L)[d] = Level(d, ext_nibble(Byte(L, d \div 2), d % 2 # 0))
    BY <2>2 DEF vector_dot_product_scalar, ext_nibble
  <2> QED BY <1>3, <1>4, <2>1, <2>3
<1>8. ASSUME NEW x \in (0 .. 63) \X {0, 1}
      PROVE  decode_nibbles(L)[x] = R[2 * x[1] + x[2]]
  <2>1. PICK b \in 0 .. 63, k \in {0, 1} : b = x[1] /\ k = x[2] OBVIOUS
  <2>2. PICK d \in 0 .. 127 : d = 2 * b + k OBVIOUS
  <2>3. 8 * b + 4 * k = 4 * d BY <2>2
  <2>4. decode_nibbles(L)[x] = Level(2 * b + k, Nibble(L, 8 * b + 4 * k))
    BY <2>1, TileSizes DEF decode_nibbles
  <2> QED BY <1>3, <2>1, <2>2, <2>3, <2>4
<1>9. /\ DOMAIN vector_dot_product_avx512(L) = Lanes16(Groups)
      /\ DOMAIN vector_dot_product_neon(L) = (0 .. 31) \X (0 .. 3)
      /\ DOMAIN vector_dot_product_scalar(L) = Dims
      /\ DOMAIN decode_nibbles(L) = (0 .. 63) \X {0, 1}
  BY TileSizes DEF vector_dot_product_avx512, vector_dot_product_neon, vector_dot_product_scalar, decode_nibbles
<1>10. Agrees(vector_dot_product_avx512(L), R, {}) BY <1>2, <1>5, <1>9, ByLanes
<1>11. Agrees(vector_dot_product_neon(L), R, {}) BY <1>2, <1>6, <1>9, ByFours
<1>12. Agrees(vector_dot_product_scalar(L), R, {})
  <2>1. {} \subseteq RangeOf(R) OBVIOUS
  <2> QED BY <1>2, <1>7, <1>9, <2>1, SameOrder
<1>13. Agrees(decode_nibbles(L), R, {}) BY <1>2, <1>8, <1>9, ByPairs
<1> QED BY <1>1, <1>10, <1>11, <1>12, <1>13

(* What path p accumulates is what the scalar reference says.               *)
SameScore(p, F, L) ==
    /\ Cardinality(DOMAIN Terms(p, F, L)) = Cardinality(RangeOf(Terms(p, F, L)))
    /\ RangeOf(Terms(p, F, L)) \cup Dropped(F) = Reference(p, F, L)

LEMMA ScalarIsRef ==
    ASSUME NEW F, NEW L
    PROVE  compute_score_scalar(F, L) = [d \in Dims |-> Ref(F, L, d)]
BY RefIsScalar DEF compute_score_scalar

LEMMA VectorScore ==
    ASSUME NEW F, NEW L, NEW p \in Isas
    PROVE  SameScore(p, F, L)
<1>1. PICK R : R = [d \in Dims |-> Ref(F, L, d)] OBVIOUS
<1>2. Terms(p, F, L) = compute_score(p, F, L)
  BY DEF Terms, Isas
<1>3. Reference(p, F, L) = RangeOf(R)
  BY <1>1, ScalarIsRef DEF Reference, Isas, Plain
<1>4. Agrees(compute_score(p, F, L), R, Dropped(F))
  <2>1. CASE "MIXED" \in F
    <3>1. R = [d \in Dims |-> RefMixed(L, d)] /\ Dropped(F) = TailTerms
      BY <1>1, <2>1 DEF Ref, ByCodec, Dropped
    <3>2. compute_score(p, F, L) \in {compute_score_avx512_mixed(L), compute_score_avx2_mixed(L),
                                      compute_score_neon_mixed(L)}
      BY <2>1 DEF compute_score, Isas, ByCodec
    <3> QED BY <3>1, <3>2, MixedKernels
  <2>2. CASE "MIXED" \notin F /\ "TQ3" \in F
    <3>1. R = [d \in Dims |-> RefTq3(F, L, d)] /\ Dropped(F) = {}
      BY <1>1, <2>2 DEF Ref, ByCodec, Dropped
    <3>2. compute_score(p, F, L) \in {compute_score_avx512_tq3(F, L), compute_score_avx2_tq3(F, L),
                                      compute_score_neon_tq3(F, L)}
      BY <2>2 DEF compute_score, Isas, ByCodec
    <3> QED BY <3>1, <3>2, Tq3Kernels
  <2>3. CASE "MIXED" \notin F /\ "TQ3" \notin F /\ "MIX3" \in F
    <3>1. R = [d \in Dims |-> RefMix3(F, L, d)] /\ Dropped(F) = TailTerms
      BY <1>1, <2>3 DEF Ref, ByCodec, Dropped
    <3>2. compute_score(p, F, L) \in {compute_score_avx512_mix3(F, L), compute_score_avx2_mix3(F, L),
                                      compute_score_neon_mix3(F, L)}
      BY <2>3 DEF compute_score, Isas, ByCodec
    <3> QED BY <3>1, <3>2, Mix3Kernels
  <2>4. CASE "MIXED" \notin F /\ "TQ3" \notin F /\ "MIX3" \notin F /\ "NF4" \in F
    <3>1. R = [d \in Dims |-> RefNf4(L, d)] /\ Dropped(F) = {}
      BY <1>1, <2>4 DEF Ref, ByCodec, Dropped
    <3>2. compute_score(p, F, L) \in {compute_score_avx512_nf4(L), compute_score_avx2_nf4(L),
                                      compute_score_neon_nf4(L)}
      BY <2>4 DEF compute_score, Isas, ByCodec
    <3> QED BY <3>1, <3>2, NibbleKernels
  <2>5. CASE "MIXED" \notin F /\ "TQ3" \notin F /\ "MIX3" \notin F /\ "NF4" \notin F
    <3>1. R = [d \in Dims |-> RefInt4(L, d)] /\ Dropped(F) = {}
      BY <1>1, <2>5 DEF Ref, ByCodec, Dropped
    <3>2. compute_score(p, F, L) \in {compute_score_avx512(L), compute_score_avx2(L), compute_score_neon(L)}
      BY <2>5 DEF compute_score, Isas, ByCodec
    <3> QED BY <3>1, <3>2, NibbleKernels
  <2> QED BY <2>1, <2>2, <2>3, <2>4, <2>5
<1> QED BY <1>2, <1>3, <1>4 DEF Agrees, SameScore

LEMMA DroppedInRange ==
    ASSUME NEW F, NEW L
    PROVE  Dropped(F) \subseteq RangeOf([d \in Dims |-> Ref(F, L, d)])
<1>1. PICK R : R = [d \in Dims |-> Ref(F, L, d)] OBVIOUS
<1>2. ASSUME NEW d \in 120 .. 127, "MIXED" \in F \/ ("TQ3" \notin F /\ "MIX3" \in F)
      PROVE  NoTerm(d) \in RangeOf(R)
  <2>1. d \in Dims /\ ~(d < 8) /\ ~(d < 120) BY TileSizes
  <2>2. RefMixed(L, d) = NoTerm(d) /\ RefMix3(F, L, d) = NoTerm(d)
    BY <2>1 DEF RefMixed, RefMix3, Headed
  <2>3. R[d] = NoTerm(d) /\ d \in DOMAIN R BY <1>1, <1>2, <2>1, <2>2 DEF Ref, ByCodec
  <2> QED BY <2>3 DEF RangeOf
<1>3. Dropped(F) = {} \/ (Dropped(F) = TailTerms /\ ("MIXED" \in F \/ ("TQ3" \notin F /\ "MIX3" \in F)))
  BY DEF Dropped, ByCodec
<1>4. \A t \in TailTerms : \E d \in 120 .. 127 : t = NoTerm(d) BY TileSizes DEF TailTerms
<1> QED BY <1>1, <1>2, <1>3, <1>4

LEMMA OrderedScore ==
    ASSUME NEW F, NEW L, NEW p \in {"vram", "cuda"}
    PROVE  SameScore(p, F, L)
<1>1. PICK R : R = [d \in Dims |-> Ref(F, L, d)] OBVIOUS
<1>2. Reference(p, F, L) = RangeOf(R)
  BY <1>1, ScalarIsRef DEF Reference, Plain
<1>3. PICK f : f = Terms(p, F, L) OBVIOUS
<1>4. f = IF p = "vram" THEN dot_coarse(F, L) ELSE slha_score_kernel(F, L)
  BY <1>3 DEF Terms, Isas
<1>5. DOMAIN f = Dims BY <1>4 DEF dot_coarse, slha_score_kernel
<1>6. ASSUME NEW d \in Dims PROVE f[d] = R[d]
  <2>1. vram_dequant_at(F, L, d) = Ref(F, L, d) /\ slha_score_kernel(F, L)[d] = Ref(F, L, d)
    BY RefIsScalar
  <2>2. dot_coarse(F, L)[d] = vram_dequant_at(F, L, d) BY DEF dot_coarse
  <2> QED BY <1>1, <1>4, <2>1, <2>2
<1>7. Dropped(F) \subseteq RangeOf(R) BY <1>1, DroppedInRange
<1>8. Indexed(R) BY <1>1, RefsIndexed
<1>9. Agrees(f, R, Dropped(F)) BY <1>5, <1>6, <1>7, <1>8, SameOrder
<1> QED BY <1>2, <1>3, <1>9 DEF Agrees, SameScore

LEMMA PlainScore ==
    ASSUME NEW F, NEW L, NEW p \in Plain, F \subseteq {"WARM"}
    PROVE  SameScore(p, F, L)
<1>1. PICK R : R = [d \in Dims |-> RefPlain(L, d)] OBVIOUS
<1>2. "MIXED" \notin F /\ "TQ3" \notin F /\ "MIX3" \notin F /\ "NF4" \notin F OBVIOUS
<1>3. Dropped(F) = {} BY <1>2 DEF Dropped, ByCodec
<1>4. Reference(p, F, L) = RangeOf(R)
  <2>1. PICK S : S = compute_score_scalar(F, L) OBVIOUS
  <2>2. DOMAIN S = Dims /\ \A d \in Dims : S[d] = RefInt4(L, d)
    BY <1>2, <2>1, ScalarIsRef DEF Ref, ByCodec
  <2>3. \A d \in Dims : [S[d] EXCEPT !.group = 0] = R[d]
    BY <1>1, <2>2 DEF RefInt4, RefPlain, Level, Term
  <2>4. Reference(p, F, L) = {[t EXCEPT !.group = 0] : t \in RangeOf(S)} BY <2>1 DEF Reference
  <2>5. {[t EXCEPT !.group = 0] : t \in RangeOf(S)} = RangeOf(R)
    <3>1. RangeOf(S) = {S[d] : d \in Dims} /\ RangeOf(R) = {R[d] : d \in Dims}
      BY <1>1, <2>2 DEF RangeOf
    <3>2. ASSUME NEW u \in {[t EXCEPT !.group = 0] : t \in RangeOf(S)} PROVE u \in RangeOf(R)
      <4>1. PICK t \in RangeOf(S) : u = [t EXCEPT !.group = 0] OBVIOUS
      <4>2. PICK d \in Dims : t = S[d] BY <3>1, <4>1
      <4> QED BY <2>3, <3>1, <4>1, <4>2
    <3>3. ASSUME NEW u \in RangeOf(R) PROVE u \in {[t EXCEPT !.group = 0] : t \in RangeOf(S)}
      <4>1. PICK d \in Dims : u = R[d] BY <3>1
      <4> QED BY <2>3, <3>1, <4>1
    <3> QED BY <3>2, <3>3
  <2> QED BY <2>4, <2>5
<1>5. Agrees(Terms(p, F, L), R, {})
  <2>1. Terms(p, F, L) \in {vector_dot_product_avx512(L), vector_dot_product_neon(L),
                            vector_dot_product_scalar(L), decode_nibbles(L)}
    BY DEF Terms, Isas, Plain, vector_dot_product
  <2> QED BY <1>1, <2>1, PlainKernels
<1> QED BY <1>3, <1>4, <1>5 DEF Agrees, SameScore

(* The scoring half of PathsAgree, for every latent plane.                  *)
LEMMA EveryPathScores ==
    ASSUME NEW F, NEW L, NEW p \in Paths, p \in Plain => F \subseteq {"WARM"}
    PROVE  SameScore(p, F, L)
BY VectorScore, OrderedScore, PlainScore DEF Paths

(* The fields of a tile, by their place in the struct.                      *)
Starts == <<0, 64, 96, 100, 104, 108, 112, 116, 118, 120>>

LEMMA FieldTable ==
    /\ DOMAIN TileFields = 1 .. 10
    /\ TileFields[1] = [name |-> "latent", width |-> 64, align |-> 1]
    /\ TileFields[2] = [name |-> "residual", width |-> 32, align |-> 8]
    /\ TileFields[3] = [name |-> "scale", width |-> 4, align |-> 4]
    /\ TileFields[4] = [name |-> "dynamic_lambda", width |-> 4, align |-> 4]
    /\ TileFields[5] = [name |-> "residual_sigma", width |-> 4, align |-> 4]
    /\ TileFields[6] = [name |-> "token_id", width |-> 4, align |-> 4]
    /\ TileFields[7] = [name |-> "position", width |-> 4, align |-> 4]
    /\ TileFields[8] = [name |-> "head_id", width |-> 2, align |-> 2]
    /\ TileFields[9] = [name |-> "flags", width |-> 2, align |-> 2]
    /\ TileFields[10] = [name |-> "group_scales", width |-> 8, align |-> 1]
BY TileSizes DEF TileFields

Aligned(i, before) ==
    LET end == before + TileFields[i - 1].width
        a   == TileFields[i].align
    IN a * ((end + a - 1) \div a)

LEMMA StartTable == FieldStart = [i \in 1 .. 10 |-> Starts[i]]
<1>1. PICK E : E = [i \in 1 .. 10 |-> Starts[i]] OBVIOUS
<1>2. /\ E[1] = 0 /\ E[2] = 64 /\ E[3] = 96 /\ E[4] = 100 /\ E[5] = 104
      /\ E[6] = 108 /\ E[7] = 112 /\ E[8] = 116 /\ E[9] = 118 /\ E[10] = 120
  BY <1>1 DEF Starts
<1>3. FieldStart = CHOOSE g : g = [i \in 1 .. 10 |-> IF i = 1 THEN 0 ELSE Aligned(i, g[i - 1])]
  BY FieldTable DEF FieldStart, Aligned
<1>4. ASSUME NEW i \in 2 .. 10 PROVE E[i] = Aligned(i, E[i - 1])
  <2>1. CASE i = 2 BY <1>2, <2>1, FieldTable DEF Aligned
  <2>2. CASE i = 3 BY <1>2, <2>2, FieldTable DEF Aligned
  <2>3. CASE i = 4 BY <1>2, <2>3, FieldTable DEF Aligned
  <2>4. CASE i = 5 BY <1>2, <2>4, FieldTable DEF Aligned
  <2>5. CASE i = 6 BY <1>2, <2>5, FieldTable DEF Aligned
  <2>6. CASE i = 7 BY <1>2, <2>6, FieldTable DEF Aligned
  <2>7. CASE i = 8 BY <1>2, <2>7, FieldTable DEF Aligned
  <2>8. CASE i = 9 BY <1>2, <2>8, FieldTable DEF Aligned
  <2>9. CASE i = 10 BY <1>2, <2>9, FieldTable DEF Aligned
  <2> QED BY <2>1, <2>2, <2>3, <2>4, <2>5, <2>6, <2>7, <2>8, <2>9
<1>5. E = [i \in 1 .. 10 |-> IF i = 1 THEN 0 ELSE Aligned(i, E[i - 1])]
  <2>1. \A i \in 1 .. 10 : i = 1 \/ i \in 2 .. 10 OBVIOUS
  <2>2. \A i \in 1 .. 10 : E[i] = IF i = 1 THEN 0 ELSE Aligned(i, E[i - 1])
    BY <1>2, <1>4, <2>1
  <2> QED BY <1>1, <2>2
<1>6. PICK G : G = FieldStart OBVIOUS
<1>7. G = [i \in 1 .. 10 |-> IF i = 1 THEN 0 ELSE Aligned(i, G[i - 1])]
  BY <1>3, <1>5, <1>6
<1>8. \A i \in 1 .. 10 : G[i] = IF i = 1 THEN 0 ELSE Aligned(i, G[i - 1])
  BY <1>7
<1>9. G[1] = E[1] BY <1>2, <1>8
<1>10. \A i \in 1 .. 9 : i + 1 \in 1 .. 10 /\ i + 1 # 1 /\ (i + 1) - 1 = i /\ i + 1 \in 2 .. 10 OBVIOUS
<1>11. ASSUME NEW i \in 1 .. 9, G[i] = E[i] PROVE G[i + 1] = E[i + 1]
  <2>1. G[i + 1] = Aligned(i + 1, G[i]) BY <1>8, <1>10
  <2>2. E[i + 1] = Aligned(i + 1, E[i]) BY <1>4, <1>10
  <2> QED BY <1>11, <2>1, <2>2
<1>12. G[2] = E[2] BY <1>9, <1>11
<1>13. G[3] = E[3] BY <1>12, <1>11
<1>14. G[4] = E[4] BY <1>13, <1>11
<1>15. G[5] = E[5] BY <1>14, <1>11
<1>16. G[6] = E[6] BY <1>15, <1>11
<1>17. G[7] = E[7] BY <1>16, <1>11
<1>18. G[8] = E[8] BY <1>17, <1>11
<1>19. G[9] = E[9] BY <1>18, <1>11
<1>20. G[10] = E[10] BY <1>19, <1>11
<1>21. \A i \in 1 .. 10 : G[i] = E[i]
  <2>1. \A i \in 1 .. 10 : i = 1 \/ i = 2 \/ i = 3 \/ i = 4 \/ i = 5 \/ i = 6 \/ i = 7 \/ i = 8 \/ i = 9 \/ i = 10
    OBVIOUS
  <2> QED BY <1>9, <1>12, <1>13, <1>14, <1>15, <1>16, <1>17, <1>18, <1>19, <1>20, <2>1
<1>22. G = E BY <1>1, <1>7, <1>21
<1> QED BY <1>1, <1>6, <1>22

(* Field i occupies Start(i) .. Start(i) + Width(i) - 1: no two overlap.    *)
Start(i) == FieldStart[i]
Width(i) == TileFields[i].width

LEMMA FieldSpans ==
    /\ \A i \in 1 .. 10 : Start(i) \in 0 .. 120 /\ Width(i) \in 1 .. 64 /\ Start(i) + Width(i) <= 128
    /\ \A i, j \in 1 .. 10 : i < j => Start(i) + Width(i) <= Start(j)
    /\ \A i, j \in 1 .. 10 : TileFields[i].name = TileFields[j].name => i = j
    /\ \A i \in 1 .. 10 : i = 2 \/ Start(i) + Width(i) <= 64 \/ Start(i) >= 96
    /\ Start(2) = 64 /\ Width(2) = 32
<1>1. /\ Start(1) = 0 /\ Start(2) = 64 /\ Start(3) = 96 /\ Start(4) = 100 /\ Start(5) = 104
      /\ Start(6) = 108 /\ Start(7) = 112 /\ Start(8) = 116 /\ Start(9) = 118 /\ Start(10) = 120
  BY StartTable DEF Start, Starts
<1>2. /\ Width(1) = 64 /\ Width(2) = 32 /\ Width(3) = 4 /\ Width(4) = 4 /\ Width(5) = 4
      /\ Width(6) = 4 /\ Width(7) = 4 /\ Width(8) = 2 /\ Width(9) = 2 /\ Width(10) = 8
  BY FieldTable DEF Width
<1>3. \A i \in 1 .. 10 : i = 1 \/ i = 2 \/ i = 3 \/ i = 4 \/ i = 5 \/ i = 6 \/ i = 7 \/ i = 8 \/ i = 9 \/ i = 10
  OBVIOUS
<1>4. \A i \in 1 .. 10 : Start(i) \in 0 .. 120 /\ Width(i) \in 1 .. 64 /\ Start(i) + Width(i) <= 128
  BY <1>1, <1>2, <1>3
<1>5. \A i \in 1 .. 9 : Start(i) + Width(i) = Start(i + 1)
  <2>1. \A i \in 1 .. 9 : i = 1 \/ i = 2 \/ i = 3 \/ i = 4 \/ i = 5 \/ i = 6 \/ i = 7 \/ i = 8 \/ i = 9
    OBVIOUS
  <2> QED BY <1>1, <1>2, <2>1
<1>6. ASSUME NEW i \in 1 .. 10, NEW j \in 1 .. 10, i < j PROVE Start(i) + Width(i) <= Start(j)
  BY <1>1, <1>2, <1>3, <1>6
<1>7. ASSUME NEW i \in 1 .. 10, NEW j \in 1 .. 10, TileFields[i].name = TileFields[j].name PROVE i = j
  BY <1>3, <1>7, FieldTable
<1>8. \A i \in 1 .. 10 : i = 2 \/ Start(i) + Width(i) <= 64 \/ Start(i) >= 96
  BY <1>1, <1>2, <1>3
<1> QED BY <1>1, <1>2, <1>4, <1>6, <1>7, <1>8

LEMMA StructByte ==
    ASSUME NEW i \in 1 .. 10, NEW k \in 0 .. Width(i) - 1
    PROVE  Start(i) + k \in 0 .. 127 /\ StructBytes[Start(i) + k] = <<TileFields[i].name, k>>
<1>1. Start(i) \in 0 .. 120 /\ Width(i) \in 1 .. 64 /\ Start(i) + Width(i) <= 128 BY FieldSpans
<1>2. PICK s \in 0 .. 120, w \in 1 .. 64 :
        s = Start(i) /\ w = Width(i) /\ s + w <= 128 /\ k \in 0 .. w - 1
  BY <1>1
<1>3. k \in 0 .. 63 /\ k < w BY <1>2
<1>4. PICK n \in 0 .. 63 : n = k /\ n < w BY <1>3
<1>5. PICK b \in Int : b = s + n OBVIOUS
<1>6. b \in 0 .. 127 /\ b - s = n /\ b < s + w BY <1>2, <1>4, <1>5
<1>7. PICK at : at = {j \in 1 .. 10 : b - Start(j) \in 0 .. Width(j) - 1} OBVIOUS
<1>8. i \in at BY <1>2, <1>4, <1>6, <1>7
<1>9. ASSUME NEW j \in at PROVE j = i
  <2>1. Start(j) \in 0 .. 120 /\ Width(j) \in 1 .. 64 BY <1>7, FieldSpans
  <2>2. PICK t \in 0 .. 120, v \in 1 .. 64 : t = Start(j) /\ v = Width(j) BY <2>1
  <2>3. b - t \in 0 .. v - 1 BY <1>7, <2>2
  <2>4. t <= b /\ b < t + v BY <2>2, <2>3
  <2>5. i < j => s + w <= t BY <1>2, <1>7, <2>2, FieldSpans
  <2>6. j < i => t + v <= s BY <1>2, <1>7, <2>2, FieldSpans
  <2>7. j \in 1 .. 10 BY <1>7
  <2> QED BY <1>5, <1>6, <2>4, <2>5, <2>6, <2>7
<1>10. at # {} /\ (CHOOSE j \in at : TRUE) = i BY <1>8, <1>9
<1>11. at = {j \in DOMAIN TileFields : b - FieldStart[j] \in 0 .. TileFields[j].width - 1}
  BY <1>7, FieldTable DEF Start, Width
<1>12. b \in 0 .. TILE_BYTES - 1 BY <1>6 DEF TILE_BYTES
<1>13. StructBytes[b] = <<TileFields[i].name, b - FieldStart[i]>>
  BY <1>10, <1>11, <1>12 DEF StructBytes
<1>14. b - FieldStart[i] = k BY <1>2, <1>4, <1>6 DEF Start
<1> QED BY <1>2, <1>4, <1>5, <1>6, <1>13, <1>14

(* What is left of the struct's bytes on the device.                        *)
Carried(F) == IF "WARM" \in F THEN unpacked_bytes(packed_bytes(StructBytes)) ELSE StructBytes

LEMMA CarriedByte ==
    ASSUME NEW F, NEW b \in 0 .. 127
    PROVE  Carried(F)[b] = IF "WARM" \in F /\ b \in 64 .. 95 THEN ZeroByte ELSE StructBytes[b]
<1>1. RESIDUAL_OFFSET = 64 /\ TILE_BYTES = 128 BY TileSizes DEF RESIDUAL_OFFSET, TILE_BYTES
<1>2. PICK w : w = packed_bytes(StructBytes) OBVIOUS
<1>3. \A c \in 0 .. 95 : w[c] = IF c < 64 THEN StructBytes[c] ELSE StructBytes[c + 32]
  BY <1>1, <1>2 DEF packed_bytes
<1>4. unpacked_bytes(w)[b] = IF b < 64 THEN w[b] ELSE IF b < 96 THEN ZeroByte ELSE w[b - 32]
  BY <1>1 DEF unpacked_bytes
<1>5. CASE b < 64
  <2>1. b \in 0 .. 95 /\ ~(b \in 64 .. 95) BY <1>5
  <2> QED BY <1>2, <1>3, <1>4, <1>5, <2>1 DEF Carried
<1>6. CASE b \in 64 .. 95
  <2>1. ~(b < 64) /\ b < 96 BY <1>6
  <2> QED BY <1>2, <1>4, <1>6, <2>1 DEF Carried
<1>7. CASE b >= 96
  <2>1. ~(b < 64) /\ ~(b < 96) /\ ~(b \in 64 .. 95) BY <1>7
  <2>2. PICK c \in 0 .. 95 : c = b - 32 /\ ~(c < 64) /\ c + 32 = b
    <3>1. b - 32 \in 0 .. 95 /\ ~(b - 32 < 64) /\ (b - 32) + 32 = b BY <1>7
    <3> QED BY <3>1
  <2>3. w[c] = StructBytes[b] BY <1>3, <2>2
  <2> QED BY <1>2, <1>4, <2>1, <2>2, <2>3 DEF Carried
<1> QED BY <1>5, <1>6, <1>7

(* A table of offsets that puts every field where the struct has it.        *)
Placed(offset) ==
    \A f \in DOMAIN offset : \E i \in 1 .. 10 : TileFields[i].name = f /\ offset[f] = Start(i)

LEMMA OffsetsPlaced == Placed(wire_offset) /\ Placed(kernel_offset)
<1>1. /\ Start(1) = 0 /\ Start(2) = 64 /\ Start(3) = 96 /\ Start(4) = 100 /\ Start(5) = 104
      /\ Start(6) = 108 /\ Start(7) = 112 /\ Start(8) = 116 /\ Start(9) = 118 /\ Start(10) = 120
  BY StartTable DEF Start, Starts
<1>2. /\ TileFields[1].name = "latent" /\ TileFields[2].name = "residual" /\ TileFields[3].name = "scale"
      /\ TileFields[4].name = "dynamic_lambda" /\ TileFields[5].name = "residual_sigma"
      /\ TileFields[6].name = "token_id" /\ TileFields[7].name = "position"
      /\ TileFields[8].name = "head_id" /\ TileFields[9].name = "flags"
      /\ TileFields[10].name = "group_scales"
  BY FieldTable
<1>3. Placed(wire_offset)
  BY <1>1, <1>2, TileSizes DEF Placed, wire_offset, RESIDUAL_OFFSET
<1>4. Placed(kernel_offset)
  BY <1>1, <1>2, TileSizes DEF Placed, kernel_offset
<1> QED BY <1>3, <1>4

LEMMA FieldsFound ==
    ASSUME NEW F, NEW offset, Placed(offset), NEW f \in DOMAIN offset,
           NEW k \in DOMAIN FieldsAt(offset, Carried(F))[f]
    PROVE  FieldsAt(offset, Carried(F))[f][k]
               = IF f = "residual" /\ "WARM" \in F THEN ZeroByte ELSE <<f, k>>
<1>1. PICK i \in 1 .. 10 : TileFields[i].name = f /\ offset[f] = Start(i) BY DEF Placed
<1>2. (CHOOSE j \in DOMAIN TileFields : TileFields[j].name = f) = i
  <2>1. \A j \in 1 .. 10 : TileFields[j].name = f => j = i BY <1>1, FieldSpans
  <2> QED BY <1>1, <2>1, FieldTable
<1>3. PICK w : w = Carried(F) OBVIOUS
<1>4. FieldsAt(offset, w)[f] = [n \in 0 .. Width(i) - 1 |-> w[Start(i) + n]]
  BY <1>1, <1>2 DEF FieldsAt, Width
<1>5. k \in 0 .. Width(i) - 1 BY <1>3, <1>4
<1>6. FieldsAt(offset, w)[f][k] = w[Start(i) + k] BY <1>4, <1>5
<1>7. PICK b \in 0 .. 127 : b = Start(i) + k /\ StructBytes[b] = <<f, k>> BY <1>1, <1>5, StructByte
<1>8. w[b] = IF "WARM" \in F /\ b \in 64 .. 95 THEN ZeroByte ELSE <<f, k>> BY <1>3, <1>7, CarriedByte
<1>9. b \in 64 .. 95 <=> i = 2
  <2>1. /\ Start(i) \in 0 .. 120 /\ Width(i) \in 1 .. 64
        /\ i = 2 \/ Start(i) + Width(i) <= 64 \/ Start(i) >= 96
        /\ i = 2 => Start(i) = 64 /\ Width(i) = 32
    BY FieldSpans
  <2>2. PICK s \in 0 .. 120, v \in 1 .. 64 : s = Start(i) /\ v = Width(i) BY <2>1
  <2>3. (i = 2 \/ s + v <= 64 \/ s >= 96) /\ (i = 2 => s = 64 /\ v = 32) BY <2>1, <2>2
  <2>4. k \in 0 .. v - 1 BY <1>5, <2>2
  <2>5. k \in 0 .. 63 /\ k < v BY <2>4
  <2>6. PICK n \in 0 .. 63 : n = k /\ n < v BY <2>5
  <2>7. b = s + n BY <1>7, <2>2, <2>6
  <2>8. CASE i = 2
    <3>1. s = 64 /\ v = 32 BY <2>3, <2>8, Zenon
    <3> QED BY <2>6, <2>7, <2>8, <3>1
  <2>9. CASE i # 2
    <3>1. s + v <= 64 \/ s >= 96 BY <2>3, <2>9, Zenon
    <3>2. b < 64 \/ b >= 96 BY <2>6, <2>7, <3>1
    <3> QED BY <2>9, <3>2
  <2> QED BY <2>8, <2>9, Zenon
<1>10. i = 2 <=> f = "residual"
  <2>1. TileFields[2].name = "residual" BY FieldTable
  <2>2. f = "residual" => i = 2 BY <1>1, <2>1, FieldSpans
  <2> QED BY <1>1, <2>1, <2>2
<1> QED BY <1>3, <1>6, <1>7, <1>8, <1>9, <1>10

(* The other half of PathsAgree.                                            *)
LEMMA EveryFieldFound ==
    ASSUME NEW F, NEW p
    PROVE  \A f \in DOMAIN FieldsRead(p, F) : \A k \in DOMAIN FieldsRead(p, F)[f] :
              FieldsRead(p, F)[f][k] = IF f = "residual" /\ "WARM" \in F THEN ZeroByte ELSE <<f, k>>
<1>1. PICK offset : Placed(offset) /\ FieldsRead(p, F) = FieldsAt(offset, Carried(F))
  BY OffsetsPlaced DEF FieldsRead, Carried
<1>2. DOMAIN FieldsAt(offset, Carried(F)) = DOMAIN offset BY DEF FieldsAt
<1>3. ASSUME NEW f \in DOMAIN offset, NEW k \in DOMAIN FieldsAt(offset, Carried(F))[f]
      PROVE  FieldsAt(offset, Carried(F))[f][k]
                 = IF f = "residual" /\ "WARM" \in F THEN ZeroByte ELSE <<f, k>>
  BY <1>1, FieldsFound
<1> QED BY <1>1, <1>2, <1>3

(* Bit i of a value.                                                        *)
BitOf(n, i) == (n \div 2^i) % 2

LEMMA InOrByte ==
    ASSUME NEW b \in Nat, NEW value, NEW i \in 0 .. 7
    PROVE  8 * b + i \in OrByte(b, value) <=> BitOf(value, i) = 1
<1>1. ASSUME NEW k \in 0 .. 7, 8 * b + i = 8 * b + k PROVE k = i BY <1>1
<1> QED BY <1>1 DEF OrByte, BitOf

LEMMA OrByteSpan ==
    ASSUME NEW b \in Nat, NEW value, NEW p \in OrByte(b, value)
    PROVE  \E i \in 0 .. 7 : p = 8 * b + i /\ BitOf(value, i) = 1
BY DEF OrByte, BitOf

(* A value is the sum of its bits.                                          *)
LEMMA SumOfBits ==
    ASSUME NEW n \in 0 .. 255
    PROVE  /\ \A i \in 0 .. 7 : BitOf(n, i) \in 0 .. 1
           /\ n = BitOf(n, 0) + 2 * BitOf(n, 1) + 4 * BitOf(n, 2) + 8 * BitOf(n, 3)
                  + 16 * BitOf(n, 4) + 32 * BitOf(n, 5) + 64 * BitOf(n, 6) + 128 * BitOf(n, 7)
           /\ n \in 0 .. 15 => BitOf(n, 4) = 0 /\ BitOf(n, 5) = 0 /\ BitOf(n, 6) = 0 /\ BitOf(n, 7) = 0
           /\ n \in 0 .. 7 => BitOf(n, 3) = 0
<1>1. /\ BitOf(n, 0) = n % 2 /\ BitOf(n, 1) = (n \div 2) % 2 /\ BitOf(n, 2) = (n \div 4) % 2
      /\ BitOf(n, 3) = (n \div 8) % 2 /\ BitOf(n, 4) = (n \div 16) % 2 /\ BitOf(n, 5) = (n \div 32) % 2
      /\ BitOf(n, 6) = (n \div 64) % 2 /\ BitOf(n, 7) = (n \div 128) % 2
  BY DEF BitOf
<1>2. \A i \in 0 .. 7 : i = 0 \/ i = 1 \/ i = 2 \/ i = 3 \/ i = 4 \/ i = 5 \/ i = 6 \/ i = 7 OBVIOUS
<1>3. \A i \in 0 .. 7 : BitOf(n, i) \in 0 .. 1 BY <1>1, <1>2
<1>4. n = (n % 2) + 2 * ((n \div 2) % 2) + 4 * ((n \div 4) % 2) + 8 * ((n \div 8) % 2)
          + 16 * ((n \div 16) % 2) + 32 * ((n \div 32) % 2) + 64 * ((n \div 64) % 2)
          + 128 * ((n \div 128) % 2)
  OBVIOUS
<1>5. /\ n \in 0 .. 15 => (n \div 16) % 2 = 0 /\ (n \div 32) % 2 = 0 /\ (n \div 64) % 2 = 0 /\ (n \div 128) % 2 = 0
      /\ n \in 0 .. 7 => (n \div 8) % 2 = 0
  OBVIOUS
<1> QED BY <1>1, <1>3, <1>4, <1>5

(* Where a plane holds a value of w bits.                                   *)
Holds(P, q, n, w) == \A j \in 0 .. w - 1 : q + j \in P <=> BitOf(n, j) = 1

LEMMA HeldNibble ==
    ASSUME NEW P, NEW q \in Nat, NEW n \in 0 .. 15, Holds(P, q, n, 4)
    PROVE  Nibble(P, q) = n
<1>1. \A j \in 0 .. 3 : Bit(P, q + j) = BitOf(n, j)
  <2>1. n \in 0 .. 255 OBVIOUS
  <2>2. \A j \in 0 .. 3 : j \in 0 .. 7 /\ j \in 0 .. 4 - 1 OBVIOUS
  <2>3. \A j \in 0 .. 3 : BitOf(n, j) \in 0 .. 1 BY <2>1, <2>2, SumOfBits
  <2> QED BY <2>2, <2>3 DEF Holds, Bit
<1>2. /\ Bit(P, q) = BitOf(n, 0) /\ Bit(P, q + 1) = BitOf(n, 1) /\ Bit(P, q + 2) = BitOf(n, 2)
      /\ Bit(P, q + 3) = BitOf(n, 3)
  <2>1. q + 0 = q OBVIOUS
  <2> QED BY <1>1, <2>1
<1>3. n = BitOf(n, 0) + 2 * BitOf(n, 1) + 4 * BitOf(n, 2) + 8 * BitOf(n, 3)
  <2>1. n \in 0 .. 255 OBVIOUS
  <2>2. \A i \in 0 .. 7 : BitOf(n, i) \in 0 .. 1 BY <2>1, SumOfBits
  <2>3. /\ n = BitOf(n, 0) + 2 * BitOf(n, 1) + 4 * BitOf(n, 2) + 8 * BitOf(n, 3)
                  + 16 * BitOf(n, 4) + 32 * BitOf(n, 5) + 64 * BitOf(n, 6) + 128 * BitOf(n, 7)
        /\ BitOf(n, 4) = 0 /\ BitOf(n, 5) = 0 /\ BitOf(n, 6) = 0 /\ BitOf(n, 7) = 0
    BY <2>1, SumOfBits
  <2> QED BY <2>2, <2>3
<1> QED BY <1>2, <1>3 DEF Nibble, Bits3

LEMMA HeldCode ==
    ASSUME NEW P, NEW q \in Nat, NEW n \in 0 .. 7, Holds(P, q, n, 3)
    PROVE  Bits3(P, q) = n
<1>1. \A j \in 0 .. 2 : Bit(P, q + j) = BitOf(n, j)
  <2>1. n \in 0 .. 255 OBVIOUS
  <2>2. \A j \in 0 .. 2 : j \in 0 .. 7 /\ j \in 0 .. 3 - 1 OBVIOUS
  <2>3. \A j \in 0 .. 2 : BitOf(n, j) \in 0 .. 1 BY <2>1, <2>2, SumOfBits
  <2> QED BY <2>2, <2>3 DEF Holds, Bit
<1>2. Bit(P, q) = BitOf(n, 0) /\ Bit(P, q + 1) = BitOf(n, 1) /\ Bit(P, q + 2) = BitOf(n, 2)
  <2>1. q + 0 = q OBVIOUS
  <2> QED BY <1>1, <2>1
<1>3. n = BitOf(n, 0) + 2 * BitOf(n, 1) + 4 * BitOf(n, 2)
  <2>1. BitOf(n, 0) = n % 2 /\ BitOf(n, 1) = (n \div 2) % 2 /\ BitOf(n, 2) = (n \div 4) % 2 BY DEF BitOf
  <2>2. n = (n % 2) + 2 * ((n \div 2) % 2) + 4 * ((n \div 4) % 2) OBVIOUS
  <2> QED BY <2>1, <2>2
<1> QED BY <1>2, <1>3 DEF Bits3

LEMMA HeldByte ==
    ASSUME NEW P, NEW b \in Nat, NEW n \in 0 .. 255, Holds(P, 8 * b, n, 8)
    PROVE  Byte(P, b) = n
<1>1. \A j \in 0 .. 7 : Bit(P, 8 * b + j) = BitOf(n, j)
  <2>1. \A j \in 0 .. 7 : j \in 0 .. 8 - 1 OBVIOUS
  <2>2. \A j \in 0 .. 7 : BitOf(n, j) \in 0 .. 1 BY SumOfBits
  <2> QED BY <2>1, <2>2 DEF Holds, Bit
<1>2. /\ Bit(P, 8 * b) = BitOf(n, 0) /\ Bit(P, 8 * b + 1) = BitOf(n, 1)
      /\ Bit(P, 8 * b + 2) = BitOf(n, 2) /\ Bit(P, 8 * b + 3) = BitOf(n, 3)
  <2>1. 8 * b + 0 = 8 * b OBVIOUS
  <2> QED BY <1>1, <2>1
<1>3. /\ Bit(P, 8 * b + 4) = BitOf(n, 4) /\ Bit(P, 8 * b + 4 + 1) = BitOf(n, 5)
      /\ Bit(P, 8 * b + 4 + 2) = BitOf(n, 6) /\ Bit(P, 8 * b + 4 + 3) = BitOf(n, 7)
  <2>1. 8 * b + 4 + 1 = 8 * b + 5 /\ 8 * b + 4 + 2 = 8 * b + 6 /\ 8 * b + 4 + 3 = 8 * b + 7 OBVIOUS
  <2>2. Bit(P, 8 * b + 4) = BitOf(n, 4) /\ Bit(P, 8 * b + 5) = BitOf(n, 5)
        /\ Bit(P, 8 * b + 6) = BitOf(n, 6) /\ Bit(P, 8 * b + 7) = BitOf(n, 7)
    BY <1>1
  <2> QED BY <2>1, <2>2
<1>4. n = BitOf(n, 0) + 2 * BitOf(n, 1) + 4 * BitOf(n, 2) + 8 * BitOf(n, 3)
          + 16 * BitOf(n, 4) + 32 * BitOf(n, 5) + 64 * BitOf(n, 6) + 128 * BitOf(n, 7)
  BY SumOfBits
<1>5. \A j \in 0 .. 7 : BitOf(n, j) \in 0 .. 1 BY SumOfBits
<1>6. Byte(P, b) = BitOf(n, 0) + 2 * BitOf(n, 1) + 4 * BitOf(n, 2) + 8 * BitOf(n, 3)
                   + 16 * (BitOf(n, 4) + 2 * BitOf(n, 5) + 4 * BitOf(n, 6) + 8 * BitOf(n, 7))
  BY <1>2, <1>3 DEF Byte, Nibble, Bits3
<1> QED BY <1>4, <1>5, <1>6

(* A nibble is packed at bit 4 * d of the plane at byte o, and nowhere else. *)
LEMMA PackedNibble ==
    ASSUME NEW o \in Nat, NEW d \in Nat, NEW nib \in 0 .. 15
    PROVE  /\ Holds(PackNibble(o + d \div 2, d, nib), 8 * o + 4 * d, nib, 4)
           /\ \A p \in PackNibble(o + d \div 2, d, nib) : \E j \in 0 .. 3 : p = 8 * o + 4 * d + j
<1>1. PICK b \in Nat : b = o + d \div 2 OBVIOUS
<1>2. PICK P : P = PackNibble(b, d, nib) OBVIOUS
<1>3. \A j \in 0 .. 3 : j = 0 \/ j = 1 \/ j = 2 \/ j = 3 OBVIOUS
<1>4. CASE d % 2 = 0
  <2>1. 8 * b = 8 * o + 4 * d BY <1>1, <1>4
  <2>2. P = OrByte(b, nib) BY <1>2, <1>4 DEF PackNibble
  <2>3. ASSUME NEW j \in 0 .. 4 - 1 PROVE 8 * o + 4 * d + j \in P <=> BitOf(nib, j) = 1
    <3>1. j \in 0 .. 7 /\ 8 * o + 4 * d + j = 8 * b + j BY <2>1
    <3> QED BY <2>2, <3>1, InOrByte
  <2>4. ASSUME NEW p \in P PROVE \E j \in 0 .. 3 : p = 8 * o + 4 * d + j
    <3>1. PICK i \in 0 .. 7 : p = 8 * b + i /\ BitOf(nib, i) = 1 BY <2>2, <2>4, OrByteSpan
    <3>2. BitOf(nib, 4) = 0 /\ BitOf(nib, 5) = 0 /\ BitOf(nib, 6) = 0 /\ BitOf(nib, 7) = 0
      <4>1. nib \in 0 .. 255 OBVIOUS
      <4> QED BY <4>1, SumOfBits
    <3>3. i # 4 /\ i # 5 /\ i # 6 /\ i # 7 BY <3>1, <3>2
    <3>4. i \in 0 .. 3 BY <3>3
    <3> QED BY <2>1, <3>1, <3>4
  <2> QED BY <1>1, <1>2, <2>3, <2>4 DEF Holds
<1>5. CASE d % 2 # 0
  <2>1. 8 * b + 4 = 8 * o + 4 * d BY <1>1, <1>5
  <2>2. P = OrByte(b, nib * 16) BY <1>2, <1>5 DEF PackNibble
  <2>3. \A j \in 0 .. 3 : BitOf(nib * 16, j) = 0 /\ BitOf(nib * 16, 4 + j) = BitOf(nib, j)
    <3> SUFFICES ASSUME NEW j \in 0 .. 3
                 PROVE  BitOf(nib * 16, j) = 0 /\ BitOf(nib * 16, 4 + j) = BitOf(nib, j)
      OBVIOUS
    <3>1. CASE j = 0 BY <3>1 DEF BitOf
    <3>2. CASE j = 1 BY <3>2 DEF BitOf
    <3>3. CASE j = 2 BY <3>3 DEF BitOf
    <3>4. CASE j = 3 BY <3>4 DEF BitOf
    <3> QED BY <1>3, <3>1, <3>2, <3>3, <3>4
  <2>4. ASSUME NEW j \in 0 .. 4 - 1 PROVE 8 * o + 4 * d + j \in P <=> BitOf(nib, j) = 1
    <3>1. PICK i \in 0 .. 7 : i = 4 + j OBVIOUS
    <3>2. 8 * o + 4 * d + j = 8 * b + i BY <2>1, <3>1
    <3>3. 8 * b + i \in P <=> BitOf(nib * 16, i) = 1 BY <2>2, InOrByte
    <3>4. j \in 0 .. 3 OBVIOUS
    <3> QED BY <2>3, <3>1, <3>2, <3>3, <3>4
  <2>5. ASSUME NEW p \in P PROVE \E j \in 0 .. 3 : p = 8 * o + 4 * d + j
    <3>1. PICK i \in 0 .. 7 : p = 8 * b + i /\ BitOf(nib * 16, i) = 1 BY <2>2, <2>5, OrByteSpan
    <3>2. ~(i \in 0 .. 3) BY <2>3, <3>1
    <3>3. PICK j \in 0 .. 3 : i = 4 + j
      <4>1. i - 4 \in 0 .. 3 /\ i = 4 + (i - 4) BY <3>2
      <4> QED BY <4>1
    <3>4. p = 8 * o + 4 * d + j BY <2>1, <3>1, <3>3
    <3> QED BY <3>4
  <2> QED BY <1>1, <1>2, <2>4, <2>5 DEF Holds
<1> QED BY <1>4, <1>5

(* Bit j of a 3-bit code is set.                                            *)
CodeBit(code, j) == j \in 0 .. 2 /\ BitOf(code, j) = 1

(* Shifted left by s, a code has its bit i - s at i, in this byte and, when *)
(* it straddles, in the next one.                                           *)
Shifted(code, s, i) ==
    /\ BitOf(code * 2^s, i) = 1 <=> CodeBit(code, i - s)
    /\ s > 5 => (BitOf(code \div 2^(8 - s), i) = 1 <=> CodeBit(code, 8 + i - s))
    /\ s <= 5 => ~CodeBit(code, 8 + i - s)

LEMMA ShiftedCode ==
    ASSUME NEW code \in 0 .. 7, NEW s \in 0 .. 7, NEW i \in 0 .. 7
    PROVE  Shifted(code, s, i)
<1>1. PICK c0 \in 0 .. 1, c1 \in 0 .. 1, c2 \in 0 .. 1 : code = c0 + 2 * c1 + 4 * c2
  <2>1. code = (code % 2) + 2 * ((code \div 2) % 2) + 4 * ((code \div 4) % 2) OBVIOUS
  <2>2. (code % 2) \in 0 .. 1 /\ ((code \div 2) % 2) \in 0 .. 1 /\ ((code \div 4) % 2) \in 0 .. 1 OBVIOUS
  <2> QED BY <2>1, <2>2
<1>2. BitOf(code, 0) = c0 /\ BitOf(code, 1) = c1 /\ BitOf(code, 2) = c2
  BY <1>1 DEF BitOf
<1>3. /\ CodeBit(code, 0) <=> c0 = 1
      /\ CodeBit(code, 1) <=> c1 = 1
      /\ CodeBit(code, 2) <=> c2 = 1
      /\ \A j \in Int : (j < 0 \/ j > 2) => ~CodeBit(code, j)
  BY <1>2 DEF CodeBit
<1>4. i = 0 \/ i = 1 \/ i = 2 \/ i = 3 \/ i = 4 \/ i = 5 \/ i = 6 \/ i = 7 OBVIOUS
<1>5. CASE s = 0
  <2>1. /\ BitOf(code * 1, 0) = c0 /\ BitOf(code * 1, 1) = c1 /\ BitOf(code * 1, 2) = c2 /\ BitOf(code * 1, 3) = 0
        /\ BitOf(code * 1, 4) = 0 /\ BitOf(code * 1, 5) = 0 /\ BitOf(code * 1, 6) = 0 /\ BitOf(code * 1, 7) = 0
    BY <1>1 DEF BitOf
  <2> QED BY <1>3, <1>4, <1>5, <2>1 DEF Shifted
<1>6. CASE s = 1
  <2>1. /\ BitOf(code * 2, 0) = 0 /\ BitOf(code * 2, 1) = c0 /\ BitOf(code * 2, 2) = c1 /\ BitOf(code * 2, 3) = c2
        /\ BitOf(code * 2, 4) = 0 /\ BitOf(code * 2, 5) = 0 /\ BitOf(code * 2, 6) = 0 /\ BitOf(code * 2, 7) = 0
    BY <1>1 DEF BitOf
  <2> QED BY <1>3, <1>4, <1>6, <2>1 DEF Shifted
<1>7. CASE s = 2
  <2>1. /\ BitOf(code * 4, 0) = 0 /\ BitOf(code * 4, 1) = 0 /\ BitOf(code * 4, 2) = c0 /\ BitOf(code * 4, 3) = c1
        /\ BitOf(code * 4, 4) = c2 /\ BitOf(code * 4, 5) = 0 /\ BitOf(code * 4, 6) = 0 /\ BitOf(code * 4, 7) = 0
    BY <1>1 DEF BitOf
  <2> QED BY <1>3, <1>4, <1>7, <2>1 DEF Shifted
<1>8. CASE s = 3
  <2>1. /\ BitOf(code * 8, 0) = 0 /\ BitOf(code * 8, 1) = 0 /\ BitOf(code * 8, 2) = 0 /\ BitOf(code * 8, 3) = c0
        /\ BitOf(code * 8, 4) = c1 /\ BitOf(code * 8, 5) = c2 /\ BitOf(code * 8, 6) = 0 /\ BitOf(code * 8, 7) = 0
    BY <1>1 DEF BitOf
  <2> QED BY <1>3, <1>4, <1>8, <2>1 DEF Shifted
<1>9. CASE s = 4
  <2>1. /\ BitOf(code * 16, 0) = 0 /\ BitOf(code * 16, 1) = 0 /\ BitOf(code * 16, 2) = 0 /\ BitOf(code * 16, 3) = 0
        /\ BitOf(code * 16, 4) = c0 /\ BitOf(code * 16, 5) = c1 /\ BitOf(code * 16, 6) = c2 /\ BitOf(code * 16, 7) = 0
    BY <1>1 DEF BitOf
  <2> QED BY <1>3, <1>4, <1>9, <2>1 DEF Shifted
<1>10. CASE s = 5
  <2>1. /\ BitOf(code * 32, 0) = 0 /\ BitOf(code * 32, 1) = 0 /\ BitOf(code * 32, 2) = 0 /\ BitOf(code * 32, 3) = 0
        /\ BitOf(code * 32, 4) = 0 /\ BitOf(code * 32, 5) = c0 /\ BitOf(code * 32, 6) = c1 /\ BitOf(code * 32, 7) = c2
    BY <1>1 DEF BitOf
  <2> QED BY <1>3, <1>4, <1>10, <2>1 DEF Shifted
<1>11. CASE s = 6
  <2>1. /\ BitOf(code * 64, 0) = 0 /\ BitOf(code * 64, 1) = 0 /\ BitOf(code * 64, 2) = 0 /\ BitOf(code * 64, 3) = 0
        /\ BitOf(code * 64, 4) = 0 /\ BitOf(code * 64, 5) = 0 /\ BitOf(code * 64, 6) = c0 /\ BitOf(code * 64, 7) = c1
    BY <1>1 DEF BitOf
  <2>2. /\ BitOf(code \div 4, 0) = c2 /\ BitOf(code \div 4, 1) = 0 /\ BitOf(code \div 4, 2) = 0 /\ BitOf(code \div 4, 3) = 0
        /\ BitOf(code \div 4, 4) = 0 /\ BitOf(code \div 4, 5) = 0 /\ BitOf(code \div 4, 6) = 0 /\ BitOf(code \div 4, 7) = 0
    BY <1>1 DEF BitOf
  <2> QED BY <1>3, <1>4, <1>11, <2>1, <2>2 DEF Shifted
<1>12. CASE s = 7
  <2>1. /\ BitOf(code * 128, 0) = 0 /\ BitOf(code * 128, 1) = 0 /\ BitOf(code * 128, 2) = 0 /\ BitOf(code * 128, 3) = 0
        /\ BitOf(code * 128, 4) = 0 /\ BitOf(code * 128, 5) = 0 /\ BitOf(code * 128, 6) = 0 /\ BitOf(code * 128, 7) = c0
    BY <1>1 DEF BitOf
  <2>2. /\ BitOf(code \div 2, 0) = c1 /\ BitOf(code \div 2, 1) = c2 /\ BitOf(code \div 2, 2) = 0 /\ BitOf(code \div 2, 3) = 0
        /\ BitOf(code \div 2, 4) = 0 /\ BitOf(code \div 2, 5) = 0 /\ BitOf(code \div 2, 6) = 0 /\ BitOf(code \div 2, 7) = 0
    BY <1>1 DEF BitOf
  <2> QED BY <1>3, <1>4, <1>12, <2>1, <2>2 DEF Shifted
<1>13. s = 0 \/ s = 1 \/ s = 2 \/ s = 3 \/ s = 4 \/ s = 5 \/ s = 6 \/ s = 7 OBVIOUS
<1> QED BY <1>5, <1>6, <1>7, <1>8, <1>9, <1>10, <1>11, <1>12, <1>13

(* A code is packed at bit 3 * d of the plane at byte off, and nowhere else. *)
LEMMA PackedCode ==
    ASSUME NEW off \in Nat, NEW d \in Nat, NEW code \in 0 .. 7
    PROVE  /\ Holds(PackCode(off, d, code), 8 * off + 3 * d, code, 3)
           /\ \A p \in PackCode(off, d, code) : \E j \in 0 .. 2 : p = 8 * off + 3 * d + j
<1>1. PICK byte \in Nat, s \in 0 .. 7 : byte = off + (3 * d) \div 8 /\ s = (3 * d) % 8
  OBVIOUS
<1>2. 8 * byte + s = 8 * off + 3 * d BY <1>1
<1>3. PICK P : P = PackCode(off, d, code) OBVIOUS
<1>4. PICK A : A = OrByte(byte, code * 2^s) OBVIOUS
<1>5. PICK B : B = IF s > 5 THEN OrByte(byte + 1, code \div 2^(8 - s)) ELSE {} OBVIOUS
<1>6. P = A \cup B BY <1>1, <1>3, <1>4, <1>5 DEF PackCode
<1>7. ASSUME NEW i \in 0 .. 7
      PROVE  /\ 8 * byte + i \in A <=> CodeBit(code, i - s)
             /\ 8 * (byte + 1) + i \in B <=> CodeBit(code, 8 + i - s)
  <2>1. Shifted(code, s, i) BY ShiftedCode
  <2>2. 8 * byte + i \in A <=> CodeBit(code, i - s)
    BY <1>4, <2>1, InOrByte DEF Shifted
  <2>3. CASE s > 5
    <3>1. byte + 1 \in Nat OBVIOUS
    <3>2. 8 * (byte + 1) + i \in B <=> BitOf(code \div 2^(8 - s), i) = 1
      BY <1>5, <2>3, <3>1, InOrByte
    <3> QED BY <2>1, <2>2, <2>3, <3>2 DEF Shifted
  <2>4. CASE ~(s > 5)
    <3>1. s <= 5 BY <2>4
    <3> QED BY <1>5, <2>1, <2>2, <2>4, <3>1 DEF Shifted
  <2> QED BY <2>3, <2>4
<1>8. ASSUME NEW p \in P PROVE \E j \in 0 .. 2 : p = 8 * off + 3 * d + j /\ CodeBit(code, j)
  <2>1. CASE p \in A
    <3>1. PICK i \in 0 .. 7 : p = 8 * byte + i BY <1>4, <2>1, OrByteSpan
    <3>2. CodeBit(code, i - s) BY <1>7, <2>1, <3>1
    <3>3. PICK j \in 0 .. 2 : j = i - s BY <3>2 DEF CodeBit
    <3>4. p = 8 * off + 3 * d + j BY <1>2, <3>1, <3>3
    <3> QED BY <3>2, <3>3, <3>4
  <2>2. CASE p \in B
    <3>1. PICK i \in 0 .. 7 : p = 8 * (byte + 1) + i
      <4>1. s > 5 /\ p \in OrByte(byte + 1, code \div 2^(8 - s)) BY <1>5, <2>2
      <4>2. byte + 1 \in Nat OBVIOUS
      <4> QED BY <4>1, <4>2, OrByteSpan
    <3>2. CodeBit(code, 8 + i - s) BY <1>7, <2>2, <3>1
    <3>3. PICK j \in 0 .. 2 : j = 8 + i - s BY <3>2 DEF CodeBit
    <3>4. p = 8 * off + 3 * d + j BY <1>2, <3>1, <3>3
    <3> QED BY <3>2, <3>3, <3>4
  <2> QED BY <1>6, <1>8, <2>1, <2>2
<1>9. ASSUME NEW j \in 0 .. 3 - 1 PROVE 8 * off + 3 * d + j \in P <=> BitOf(code, j) = 1
  <2>1. j \in 0 .. 2 OBVIOUS
  <2>2. BitOf(code, j) = 1 <=> CodeBit(code, j) BY <2>1 DEF CodeBit
  <2>3. ASSUME 8 * off + 3 * d + j \in P PROVE CodeBit(code, j)
    <3>1. PICK k \in 0 .. 2 : 8 * off + 3 * d + j = 8 * off + 3 * d + k /\ CodeBit(code, k) BY <1>8, <2>3
    <3>2. k = j BY <2>1, <3>1
    <3> QED BY <3>1, <3>2
  <2>4. ASSUME CodeBit(code, j) PROVE 8 * off + 3 * d + j \in P
    <3>1. CASE s + j < 8
      <4>1. PICK i \in 0 .. 7 : i = s + j BY <3>1
      <4>2. 8 * byte + i = 8 * off + 3 * d + j /\ i - s = j BY <1>2, <4>1
      <4> QED BY <1>6, <1>7, <2>4, <4>2
    <3>2. CASE ~(s + j < 8)
      <4>1. PICK i \in 0 .. 7 : i = s + j - 8
        <5>1. s + j - 8 \in 0 .. 7 BY <2>1, <3>2
        <5> QED BY <5>1
      <4>2. 8 * (byte + 1) + i = 8 * off + 3 * d + j /\ 8 + i - s = j BY <1>2, <4>1
      <4> QED BY <1>6, <1>7, <2>4, <4>2
    <3> QED BY <3>1, <3>2
  <2> QED BY <2>2, <2>3, <2>4
<1> QED BY <1>3, <1>8, <1>9 DEF Holds

(* The correction sign of dimension d is one bit.                           *)
LEMMA PackedSign ==
    ASSUME NEW corr \in Nat, NEW d \in Nat
    PROVE  OrByte(corr + d \div 8, 2^(d % 8)) = {8 * corr + d}
<1>1. PICK b \in Nat, s \in 0 .. 7 : b = corr + d \div 8 /\ s = d % 8 OBVIOUS
<1>2. 8 * b + s = 8 * corr + d BY <1>1
<1>3. ASSUME NEW i \in 0 .. 7 PROVE BitOf(2^s, i) = 1 <=> i = s
  <2>1. Shifted(1, s, i) BY ShiftedCode
  <2>2. 1 * 2^s = 2^s
    <3>1. s = 0 \/ s = 1 \/ s = 2 \/ s = 3 \/ s = 4 \/ s = 5 \/ s = 6 \/ s = 7 OBVIOUS
    <3> QED BY <3>1
  <2>3. BitOf(2^s, i) = 1 <=> CodeBit(1, i - s) BY <2>1, <2>2 DEF Shifted
  <2>4. BitOf(1, 0) = 1 /\ BitOf(1, 1) = 0 /\ BitOf(1, 2) = 0 BY DEF BitOf
  <2>5. CodeBit(1, i - s) <=> i - s = 0
    <3>1. PICK j \in Int : j = i - s OBVIOUS
    <3>2. j \in 0 .. 2 <=> j = 0 \/ j = 1 \/ j = 2 OBVIOUS
    <3> QED BY <2>4, <3>1, <3>2 DEF CodeBit
  <2> QED BY <2>3, <2>5
<1>4. 8 * b + s \in OrByte(b, 2^s) BY <1>3, InOrByte
<1>5. ASSUME NEW p \in OrByte(b, 2^s) PROVE p = 8 * b + s
  BY <1>3, <1>5, OrByteSpan
<1> QED BY <1>1, <1>2, <1>4, <1>5

(* P is the bits H and n nibbles from byte o on.                            *)
Nibbles(P, H, o, n, c) ==
    \A p : p \in P <=> p \in H \/ \E e \in 0 .. n - 1 : p \in PackNibble(o + e \div 2, e, c[e])

NibblesOf(P, H, o, n, c) ==
    /\ o \in Nat /\ n \in Nat /\ c \in [0 .. n - 1 -> 0 .. 15]
    /\ Nibbles(P, H, o, n, c)
    /\ \A p \in H : p < 8 * o

LEMMA NibblePlane ==
    ASSUME NEW P, NEW H, NEW o, NEW n, NEW c, NibblesOf(P, H, o, n, c), NEW d \in 0 .. n - 1
    PROVE  Nibble(P, 8 * o + 4 * d) = c[d]
<1> SUFFICES ASSUME o \in Nat, n \in Nat, c \in [0 .. n - 1 -> 0 .. 15],
                    Nibbles(P, H, o, n, c), \A p \in H : p < 8 * o
             PROVE  Nibble(P, 8 * o + 4 * d) = c[d]
  BY DEF NibblesOf
<1>1. c[d] \in 0 .. 15 /\ d \in Nat OBVIOUS
<1>2. PICK q \in Nat : q = 8 * o + 4 * d /\ q >= 8 * o OBVIOUS
<1>3. Holds(PackNibble(o + d \div 2, d, c[d]), q, c[d], 4) BY <1>1, <1>2, PackedNibble
<1>4. ASSUME NEW j \in 0 .. 4 - 1 PROVE q + j \in P <=> q + j \in PackNibble(o + d \div 2, d, c[d])
  <2>1. q + j \notin H BY <1>2
  <2>2. ASSUME NEW e \in 0 .. n - 1, q + j \in PackNibble(o + e \div 2, e, c[e]) PROVE e = d
    <3>1. c[e] \in 0 .. 15 /\ e \in Nat OBVIOUS
    <3>2. PICK k \in 0 .. 3 : q + j = 8 * o + 4 * e + k BY <2>2, <3>1, PackedNibble
    <3>3. 8 * o + 4 * d + j = 8 * o + 4 * e + k BY <1>2, <3>2
    <3> QED BY <3>1, <3>3
  <2> QED BY <2>1, <2>2 DEF Nibbles
<1>5. Holds(P, q, c[d], 4) BY <1>3, <1>4 DEF Holds
<1> QED BY <1>1, <1>2, <1>5, HeldNibble

(* P is eight bytes and the bits B after them.                              *)
Heads(P, B, c) == \A p : p \in P <=> p \in B \/ \E e \in 0 .. 7 : p \in OrByte(e, c[e])

LEMMA HeadPlane ==
    ASSUME NEW P, NEW B, NEW c \in [0 .. 7 -> 0 .. 255], Heads(P, B, c), \A p \in B : p >= 64,
           NEW d \in 0 .. 7
    PROVE  Byte(P, d) = c[d]
<1>1. c[d] \in 0 .. 255 /\ d \in Nat OBVIOUS
<1>2. ASSUME NEW j \in 0 .. 8 - 1 PROVE 8 * d + j \in P <=> BitOf(c[d], j) = 1
  <2>1. j \in 0 .. 7 /\ ~(8 * d + j >= 64) OBVIOUS
  <2>2. 8 * d + j \notin B BY <2>1
  <2>3. ASSUME NEW e \in 0 .. 7, 8 * d + j \in OrByte(e, c[e]) PROVE e = d
    <3>1. PICK k \in 0 .. 7 : 8 * d + j = 8 * e + k BY <2>3, OrByteSpan
    <3> QED BY <2>1, <3>1
  <2>4. 8 * d + j \in P <=> 8 * d + j \in OrByte(d, c[d]) BY <2>2, <2>3 DEF Heads
  <2>5. 8 * d + j \in OrByte(d, c[d]) <=> BitOf(c[d], j) = 1 BY <1>1, <2>1, InOrByte
  <2> QED BY <2>4, <2>5
<1>3. Holds(P, 8 * d, c[d], 8) BY <1>2 DEF Holds
<1> QED BY <1>1, <1>3, HeldByte

(* P is the bits H, n codes from byte off on and their signs from corr on.  *)
SignBits(corr, e, s) == IF s = 1 THEN OrByte(corr + e \div 8, 2^(e % 8)) ELSE {}

Codes(P, H, off, corr, n, c, s) ==
    \A p : p \in P <=> \/ p \in H
                       \/ \E e \in 0 .. n - 1 : p \in PackCode(off, e, c[e])
                       \/ \E e \in 0 .. n - 1 : p \in SignBits(corr, e, s[e])

CodesOf(P, H, off, corr, n, c, s) ==
    /\ off \in Nat /\ corr \in Nat /\ n \in Nat /\ 8 * corr = 8 * off + 3 * n
    /\ c \in [0 .. n - 1 -> 0 .. 7] /\ s \in [0 .. n - 1 -> 0 .. 1]
    /\ Codes(P, H, off, corr, n, c, s)
    /\ \A p \in H : p < 8 * off

LEMMA CodePlane ==
    ASSUME NEW P, NEW H, NEW off, NEW corr, NEW n, NEW c, NEW s, CodesOf(P, H, off, corr, n, c, s),
           NEW d \in 0 .. n - 1
    PROVE  Bits3(P, 8 * off + 3 * d) = c[d] /\ Bit(P, 8 * corr + d) = s[d]
<1> SUFFICES ASSUME off \in Nat, corr \in Nat, n \in Nat, 8 * corr = 8 * off + 3 * n,
                    c \in [0 .. n - 1 -> 0 .. 7], s \in [0 .. n - 1 -> 0 .. 1],
                    Codes(P, H, off, corr, n, c, s), \A p \in H : p < 8 * off
             PROVE  Bits3(P, 8 * off + 3 * d) = c[d] /\ Bit(P, 8 * corr + d) = s[d]
  BY DEF CodesOf
<1>1. c[d] \in 0 .. 7 /\ s[d] \in 0 .. 1 /\ d \in Nat OBVIOUS
<1>2. ASSUME NEW e \in 0 .. n - 1, NEW p \in PackCode(off, e, c[e])
      PROVE  \E j \in 0 .. 2 : p = 8 * off + 3 * e + j /\ p < 8 * corr
  <2>1. c[e] \in 0 .. 7 /\ e \in Nat OBVIOUS
  <2>2. PICK j \in 0 .. 2 : p = 8 * off + 3 * e + j BY <1>2, <2>1, PackedCode
  <2>3. 8 * off + 3 * e + j < 8 * off + 3 * n BY <2>1
  <2> QED BY <2>2, <2>3
<1>3. ASSUME NEW e \in 0 .. n - 1, NEW p \in SignBits(corr, e, s[e]) PROVE p = 8 * corr + e /\ s[e] = 1
  <2>1. e \in Nat OBVIOUS
  <2>2. OrByte(corr + e \div 8, 2^(e % 8)) = {8 * corr + e} BY <2>1, PackedSign
  <2> QED BY <1>3, <2>2 DEF SignBits
<1>4. PICK q \in Nat : q = 8 * off + 3 * d /\ q >= 8 * off OBVIOUS
<1>5. Bits3(P, q) = c[d]
  <2>1. Holds(PackCode(off, d, c[d]), q, c[d], 3) BY <1>1, <1>4, PackedCode
  <2>2. ASSUME NEW j \in 0 .. 3 - 1 PROVE q + j \in P <=> q + j \in PackCode(off, d, c[d])
    <3>1. q + j \notin H BY <1>4
    <3>2. q + j < 8 * corr
      <4>1. 3 * d + j < 3 * n BY <1>1
      <4> QED BY <1>4, <4>1
    <3>3. ASSUME NEW e \in 0 .. n - 1 PROVE q + j \notin SignBits(corr, e, s[e])
      <4> SUFFICES ASSUME q + j \in SignBits(corr, e, s[e]) PROVE FALSE OBVIOUS
      <4>1. q + j = 8 * corr + e BY <1>3
      <4> QED BY <3>2, <4>1
    <3>4. ASSUME NEW e \in 0 .. n - 1, q + j \in PackCode(off, e, c[e]) PROVE e = d
      <4>1. PICK k \in 0 .. 2 : q + j = 8 * off + 3 * e + k BY <1>2, <3>4
      <4>2. 8 * off + 3 * d + j = 8 * off + 3 * e + k BY <1>4, <4>1
      <4> QED BY <1>1, <4>2
    <3> QED BY <3>1, <3>3, <3>4 DEF Codes
  <2>3. Holds(P, q, c[d], 3) BY <2>1, <2>2 DEF Holds
  <2> QED BY <1>1, <2>3, HeldCode
<1>6. Bit(P, 8 * corr + d) = s[d]
  <2>1. 8 * corr + d \in P <=> s[d] = 1
    <3>1. 8 * corr + d \notin H
      <4>1. ~(8 * corr + d < 8 * off) BY <1>1
      <4> QED BY <4>1
    <3>2. ASSUME NEW e \in 0 .. n - 1 PROVE 8 * corr + d \notin PackCode(off, e, c[e])
      <4> SUFFICES ASSUME 8 * corr + d \in PackCode(off, e, c[e]) PROVE FALSE OBVIOUS
      <4>1. 8 * corr + d < 8 * corr BY <1>2
      <4> QED BY <1>1, <4>1
    <3>3. ASSUME NEW e \in 0 .. n - 1, 8 * corr + d \in SignBits(corr, e, s[e]) PROVE s[d] = 1
      <4>1. 8 * corr + d = 8 * corr + e /\ s[e] = 1 BY <1>3, <3>3
      <4>2. e = d BY <1>1, <4>1
      <4> QED BY <4>1, <4>2
    <3>4. ASSUME s[d] = 1 PROVE 8 * corr + d \in SignBits(corr, d, s[d])
      <4>1. OrByte(corr + d \div 8, 2^(d % 8)) = {8 * corr + d} BY <1>1, PackedSign
      <4> QED BY <3>4, <4>1 DEF SignBits
    <3> QED BY <3>1, <3>2, <3>3, <3>4 DEF Codes
  <2> QED BY <1>1, <2>1 DEF Bit
<1> QED BY <1>4, <1>5, <1>6

(* What is stored of the value t.                                           *)
HeadCode(t) == Clamp(Round(t, 4), -128, 127) + 128
Nf4Code(t) == nf4_nearest(Clamp(t, -10000, 10000))
Tq3Sign(t) == IF t - (4 * Tq3Code(t) - TQ3_HALF_RANGE) > 0 THEN 1 ELSE 0

LEMMA CodeRanges ==
    ASSUME NEW t \in Int
    PROVE  /\ Round(t, 4) \in Int
           /\ Int4Code(t) \in 0 .. 15 /\ HeadCode(t) \in 0 .. 255
           /\ Tq3Code(t) \in 0 .. 7 /\ Tq3Sign(t) \in 0 .. 1
<1>1. ASSUME NEW r \in Int PROVE Round(r, 4) \in Int BY DEF Round
<1>2. PICK r \in Int : r = Round(t, 4) BY <1>1
<1>3. Int4Code(t) \in 0 .. 15 /\ HeadCode(t) \in 0 .. 255 BY <1>2 DEF Int4Code, HeadCode, Clamp
<1>4. PICK u \in Int : u = Round(t + TQ3_HALF_RANGE, 4) BY <1>1, TileSizes
<1>5. Tq3Code(t) \in 0 .. 7 BY <1>4 DEF Tq3Code, Clamp
<1> QED BY <1>2, <1>3, <1>5 DEF Tq3Sign

LEMMA Int4Plane ==
    ASSUME NEW v, \A d \in Dims : v[d] \in Int, NEW d \in Dims
    PROVE  Nibble(quantize_latent(v), 4 * d) = Int4Code(v[d])
<1>1. PICK P : P = quantize_latent(v) OBVIOUS
<1>2. PICK c : c = [e \in 0 .. 128 - 1 |-> Int4Code(v[e])] OBVIOUS
<1>3. Dims = 0 .. 128 - 1 BY TileSizes
<1>4. c \in [0 .. 128 - 1 -> 0 .. 15]
  <2>1. ASSUME NEW e \in 0 .. 128 - 1 PROVE Int4Code(v[e]) \in 0 .. 15
    <3>1. v[e] \in Int BY <1>3
    <3> QED BY <3>1, CodeRanges
  <2> QED BY <1>2, <2>1
<1>5. \A e \in 0 .. 128 - 1 : 0 + e \div 2 = e \div 2 OBVIOUS
<1>6. \A p : p \in P <=> \E e \in Dims : p \in PackNibble(e \div 2, e, Int4Code(v[e]))
  BY <1>1 DEF quantize_latent
<1>7. Nibbles(P, {}, 0, 128, c) BY <1>2, <1>3, <1>5, <1>6 DEF Nibbles
<1>8. Nibble(P, 8 * 0 + 4 * d) = c[d]
  <2>1. PICK n \in Nat, o \in Nat : n = 128 /\ o = 0 OBVIOUS
  <2>2. d \in 0 .. n - 1 /\ NibblesOf(P, {}, o, n, c)
    BY <1>3, <1>4, <1>7, <2>1 DEF NibblesOf
  <2>3. Nibble(P, 8 * o + 4 * d) = c[d] BY <2>2, NibblePlane
  <2> QED BY <2>1, <2>3
<1>9. 8 * 0 + 4 * d = 4 * d BY <1>3
<1> QED BY <1>1, <1>2, <1>3, <1>8, <1>9

LEMMA Nf4Plane ==
    ASSUME NEW v, \A d \in Dims : Nf4Code(v[d]) \in 0 .. 15, NEW d \in Dims
    PROVE  Nibble(quantize_latent_nf4(v), 4 * d) = Nf4Code(v[d])
<1>1. PICK P : P = quantize_latent_nf4(v) OBVIOUS
<1>2. PICK c : c = [e \in 0 .. 128 - 1 |-> Nf4Code(v[e])] OBVIOUS
<1>3. Dims = 0 .. 128 - 1 BY TileSizes
<1>4. c \in [0 .. 128 - 1 -> 0 .. 15] BY <1>2, <1>3
<1>5. \A e \in 0 .. 128 - 1 : 0 + e \div 2 = e \div 2 OBVIOUS
<1>6. \A p : p \in P <=> \E e \in Dims : p \in PackNibble(e \div 2, e, Nf4Code(v[e]))
  BY <1>1 DEF quantize_latent_nf4, Nf4Code
<1>7. Nibbles(P, {}, 0, 128, c) BY <1>2, <1>3, <1>5, <1>6 DEF Nibbles
<1>8. Nibble(P, 8 * 0 + 4 * d) = c[d]
  <2>1. PICK n \in Nat, o \in Nat : n = 128 /\ o = 0 OBVIOUS
  <2>2. d \in 0 .. n - 1 /\ NibblesOf(P, {}, o, n, c)
    BY <1>3, <1>4, <1>7, <2>1 DEF NibblesOf
  <2>3. Nibble(P, 8 * o + 4 * d) = c[d] BY <2>2, NibblePlane
  <2> QED BY <2>1, <2>3
<1>9. 8 * 0 + 4 * d = 4 * d BY <1>3
<1> QED BY <1>1, <1>2, <1>3, <1>8, <1>9

(* The 8-bit head keeps below bit 64.                                       *)
LEMMA HeadBits ==
    ASSUME NEW v, NEW p \in PackHead(v)
    PROVE  p < 64
<1>1. PICK e \in 0 .. 7 : p \in OrByte(e, Clamp(Round(v[e], 4), -128, 127) + 128)
  BY TileSizes DEF PackHead
<1>2. PICK i \in 0 .. 7 : p = 8 * e + i BY <1>1, OrByteSpan
<1> QED BY <1>2

LEMMA HeadedPlane ==
    ASSUME NEW v, \A d \in Dims : v[d] \in Int, NEW P, NEW B, P = PackHead(v) \cup B,
           \A p \in B : p >= 64, NEW d \in 0 .. 7
    PROVE  Byte(P, d) = HeadCode(v[d])
<1>1. PICK c : c = [e \in 0 .. 7 |-> HeadCode(v[e])] OBVIOUS
<1>2. c \in [0 .. 7 -> 0 .. 255]
  <2>1. ASSUME NEW e \in 0 .. 7 PROVE HeadCode(v[e]) \in 0 .. 255
    <3>1. e \in Dims BY TileSizes
    <3>2. v[e] \in Int BY <3>1
    <3> QED BY <3>2, CodeRanges
  <2> QED BY <1>1, <2>1
<1>3. \A p : p \in PackHead(v) <=> \E e \in 0 .. 7 : p \in OrByte(e, c[e])
  BY <1>1, TileSizes DEF PackHead, HeadCode
<1>4. Heads(P, B, c) BY <1>3 DEF Heads
<1> QED BY <1>1, <1>2, <1>4, HeadPlane

LEMMA MixedPlane ==
    ASSUME NEW v, \A d \in Dims : v[d] \in Int
    PROVE  /\ \A d \in 0 .. 7 : Byte(quantize_latent_mixed(v), d) = HeadCode(v[d])
           /\ \A e \in 0 .. 111 : Nibble(quantize_latent_mixed(v), 64 + 4 * e) = Int4Code(v[8 + e])
<1>1. PICK P : P = quantize_latent_mixed(v) OBVIOUS
<1>2. PICK c : c = [e \in 0 .. 112 - 1 |-> Int4Code(v[8 + e])] OBVIOUS
<1>3. \A e \in 0 .. 112 - 1 : 8 + e \in Dims BY TileSizes
<1>4. c \in [0 .. 112 - 1 -> 0 .. 15]
  <2>1. ASSUME NEW e \in 0 .. 112 - 1 PROVE Int4Code(v[8 + e]) \in 0 .. 15
    <3>1. v[8 + e] \in Int BY <1>3
    <3> QED BY <3>1, CodeRanges
  <2> QED BY <1>2, <2>1
<1>5. PICK B : B = UNION {PackNibble(8 + e \div 2, e, Int4Code(v[8 + e])) : e \in 0 .. 112 - 1} OBVIOUS
<1>6. P = PackHead(v) \cup B BY <1>1, <1>5, TileSizes DEF quantize_latent_mixed
<1>7. \A p : p \in B <=> \E e \in 0 .. 112 - 1 : p \in PackNibble(8 + e \div 2, e, c[e]) BY <1>2, <1>5
<1>8. ASSUME NEW p \in B PROVE p >= 64
  <2>1. PICK e \in 0 .. 112 - 1 : p \in PackNibble(8 + e \div 2, e, c[e]) BY <1>7, <1>8
  <2>2. c[e] \in 0 .. 15 /\ e \in Nat BY <1>4
  <2>3. PICK j \in 0 .. 3 : p = 8 * 8 + 4 * e + j BY <2>1, <2>2, PackedNibble
  <2> QED BY <2>3
<1>9. Nibbles(P, PackHead(v), 8, 112, c) BY <1>6, <1>7 DEF Nibbles
<1>10. ASSUME NEW e \in 0 .. 111 PROVE Nibble(P, 64 + 4 * e) = Int4Code(v[8 + e])
  <2>1. e \in 0 .. 112 - 1 /\ 8 * 8 + 4 * e = 64 + 4 * e OBVIOUS
  <2>2. \A p \in PackHead(v) : p < 8 * 8 BY HeadBits
  <2>3. Nibble(P, 8 * 8 + 4 * e) = c[e]
    <3>1. PICK n \in Nat, o \in Nat : n = 112 /\ o = 8 OBVIOUS
    <3>2. e \in 0 .. n - 1 /\ NibblesOf(P, PackHead(v), o, n, c)
      BY <1>4, <1>9, <2>1, <2>2, <3>1 DEF NibblesOf
    <3>3. Nibble(P, 8 * o + 4 * e) = c[e] BY <3>2, NibblePlane
    <3> QED BY <3>1, <3>3
  <2> QED BY <1>2, <2>1, <2>3
<1>11. \A d \in 0 .. 7 : Byte(P, d) = HeadCode(v[d]) BY <1>6, <1>8, HeadedPlane
<1> QED BY <1>1, <1>10, <1>11

LEMMA Tq3Bits ==
    ASSUME NEW codes, NEW corr, NEW d, NEW t
    PROVE  PackTq3(codes, corr, d, t) = PackCode(codes, d, Tq3Code(t)) \cup SignBits(corr, d, Tq3Sign(t))
BY DEF PackTq3, SignBits, Tq3Sign

LEMMA Tq3Plane ==
    ASSUME NEW v, \A d \in Dims : v[d] \in Int, NEW d \in Dims
    PROVE  /\ Bits3(quantize_latent_tq3(v), 3 * d) = Tq3Code(v[d])
           /\ Bit(quantize_latent_tq3(v), 384 + d) = Tq3Sign(v[d])
<1>1. PICK P : P = quantize_latent_tq3(v) OBVIOUS
<1>2. PICK c, s : c = [e \in 0 .. 128 - 1 |-> Tq3Code(v[e])] /\ s = [e \in 0 .. 128 - 1 |-> Tq3Sign(v[e])]
  OBVIOUS
<1>3. Dims = 0 .. 128 - 1 BY TileSizes
<1>4. c \in [0 .. 128 - 1 -> 0 .. 7] /\ s \in [0 .. 128 - 1 -> 0 .. 1]
  <2>1. ASSUME NEW e \in 0 .. 128 - 1 PROVE Tq3Code(v[e]) \in 0 .. 7 /\ Tq3Sign(v[e]) \in 0 .. 1
    <3>1. v[e] \in Int BY <1>3
    <3> QED BY <3>1, CodeRanges
  <2> QED BY <1>2, <2>1
<1>5. \A p : p \in P <=> \E e \in Dims : p \in PackTq3(0, TQ3_CODE_BYTES, e, v[e])
  BY <1>1 DEF quantize_latent_tq3
<1>6. \A e \in Dims : PackTq3(0, TQ3_CODE_BYTES, e, v[e]) = PackCode(0, e, c[e]) \cup SignBits(48, e, s[e])
  BY <1>2, <1>3, Tq3Bits, TileSizes
<1>7. Codes(P, {}, 0, 48, 128, c, s) BY <1>3, <1>5, <1>6 DEF Codes
<1>8. Bits3(P, 8 * 0 + 3 * d) = c[d] /\ Bit(P, 8 * 48 + d) = s[d]
  <2>1. PICK n \in Nat, o \in Nat, r \in Nat : n = 128 /\ o = 0 /\ r = 48 OBVIOUS
  <2>2. d \in 0 .. n - 1 /\ CodesOf(P, {}, o, r, n, c, s)
    BY <1>3, <1>4, <1>7, <2>1 DEF CodesOf
  <2>3. Bits3(P, 8 * o + 3 * d) = c[d] /\ Bit(P, 8 * r + d) = s[d] BY <2>2, CodePlane
  <2> QED BY <2>1, <2>3
<1>9. 8 * 0 + 3 * d = 3 * d /\ 8 * 48 + d = 384 + d BY <1>3
<1> QED BY <1>1, <1>2, <1>3, <1>8, <1>9

LEMMA Mix3Plane ==
    ASSUME NEW v, \A d \in Dims : v[d] \in Int
    PROVE  /\ \A d \in 0 .. 7 : Byte(quantize_latent_mix3(v), d) = HeadCode(v[d])
           /\ \A e \in 0 .. 111 : /\ Bits3(quantize_latent_mix3(v), 64 + 3 * e) = Tq3Code(v[8 + e])
                                  /\ Bit(quantize_latent_mix3(v), 400 + e) = Tq3Sign(v[8 + e])
<1>1. PICK P : P = quantize_latent_mix3(v) OBVIOUS
<1>2. PICK c, s : /\ c = [e \in 0 .. 112 - 1 |-> Tq3Code(v[8 + e])]
                  /\ s = [e \in 0 .. 112 - 1 |-> Tq3Sign(v[8 + e])]
  OBVIOUS
<1>3. \A e \in 0 .. 112 - 1 : 8 + e \in Dims BY TileSizes
<1>4. c \in [0 .. 112 - 1 -> 0 .. 7] /\ s \in [0 .. 112 - 1 -> 0 .. 1]
  <2>1. ASSUME NEW e \in 0 .. 112 - 1 PROVE Tq3Code(v[8 + e]) \in 0 .. 7 /\ Tq3Sign(v[8 + e]) \in 0 .. 1
    <3>1. v[8 + e] \in Int BY <1>3
    <3> QED BY <3>1, CodeRanges
  <2> QED BY <1>2, <2>1
<1>5. PICK B : B = UNION {PackTq3(8, 50, e, v[8 + e]) : e \in 0 .. 112 - 1} OBVIOUS
<1>6. P = PackHead(v) \cup B BY <1>1, <1>5, TileSizes DEF quantize_latent_mix3
<1>7. \A e \in 0 .. 112 - 1 : PackTq3(8, 50, e, v[8 + e]) = PackCode(8, e, c[e]) \cup SignBits(50, e, s[e])
  BY <1>2, Tq3Bits
<1>8. \A p : p \in B <=> \/ \E e \in 0 .. 112 - 1 : p \in PackCode(8, e, c[e])
                         \/ \E e \in 0 .. 112 - 1 : p \in SignBits(50, e, s[e])
  BY <1>5, <1>7
<1>9. ASSUME NEW p \in B PROVE p >= 64
  <2>1. CASE \E e \in 0 .. 112 - 1 : p \in PackCode(8, e, c[e])
    <3>1. PICK e \in 0 .. 112 - 1 : p \in PackCode(8, e, c[e]) BY <2>1
    <3>2. c[e] \in 0 .. 7 /\ e \in Nat BY <1>4
    <3>3. PICK j \in 0 .. 2 : p = 8 * 8 + 3 * e + j BY <3>1, <3>2, PackedCode
    <3> QED BY <3>3
  <2>2. CASE \E e \in 0 .. 112 - 1 : p \in SignBits(50, e, s[e])
    <3>1. PICK e \in 0 .. 112 - 1 : p \in SignBits(50, e, s[e]) BY <2>2
    <3>2. e \in Nat OBVIOUS
    <3>3. OrByte(50 + e \div 8, 2^(e % 8)) = {8 * 50 + e} BY <3>2, PackedSign
    <3>4. p = 8 * 50 + e BY <3>1, <3>3 DEF SignBits
    <3> QED BY <3>4
  <2> QED BY <1>8, <1>9, <2>1, <2>2
<1>10. Codes(P, PackHead(v), 8, 50, 112, c, s) BY <1>6, <1>8 DEF Codes
<1>11. ASSUME NEW e \in 0 .. 111
       PROVE  Bits3(P, 64 + 3 * e) = Tq3Code(v[8 + e]) /\ Bit(P, 400 + e) = Tq3Sign(v[8 + e])
  <2>1. e \in 0 .. 112 - 1 OBVIOUS
  <2>2. \A p \in PackHead(v) : p < 8 * 8 BY HeadBits
  <2>3. Bits3(P, 8 * 8 + 3 * e) = c[e] /\ Bit(P, 8 * 50 + e) = s[e]
    <3>1. PICK n \in Nat, o \in Nat, r \in Nat : n = 112 /\ o = 8 /\ r = 50 OBVIOUS
    <3>2. e \in 0 .. n - 1 /\ CodesOf(P, PackHead(v), o, r, n, c, s)
      BY <1>4, <1>10, <2>1, <2>2, <3>1 DEF CodesOf
    <3>3. Bits3(P, 8 * o + 3 * e) = c[e] /\ Bit(P, 8 * r + e) = s[e] BY <3>2, CodePlane
    <3> QED BY <3>1, <3>3
  <2>4. 8 * 8 + 3 * e = 64 + 3 * e /\ 8 * 50 + e = 400 + e OBVIOUS
  <2> QED BY <1>2, <2>1, <2>3, <2>4
<1>12. \A d \in 0 .. 7 : Byte(P, d) = HeadCode(v[d]) BY <1>6, <1>9, HeadedPlane
<1> QED BY <1>1, <1>11, <1>12

(* Rounding to a grid of steps of four, clamped to its ends.                *)
NearestIn(r, t, lo, hi) == r \in lo .. hi /\ \A q \in lo .. hi : Abs(4 * r - t) <= Abs(4 * q - t)

LEMMA NearestStep ==
    ASSUME NEW t \in Int, NEW lo \in Int, NEW hi \in Int, lo <= hi
    PROVE  NearestIn(Clamp(Round(t, 4), lo, hi), t, lo, hi)
<1>1. PICK x \in Int : x = Round(t, 4) BY CodeRanges
<1>2. 4 * x - t <= 2 /\ 4 * x - t >= -2
  <2>1. CASE t >= 0 BY <1>1, <2>1 DEF Round
  <2>2. CASE ~(t >= 0)
    <3>1. PICK u \in Nat : u = -t BY <2>2
    <3>2. x = -((2 * u + 4) \div 8) BY <1>1, <2>2, <3>1 DEF Round
    <3> QED BY <3>1, <3>2
  <2> QED BY <2>1, <2>2
<1>3. PICK r \in Int : r = Clamp(x, lo, hi) BY DEF Clamp
<1>4. /\ r \in lo .. hi
      /\ x < lo => r = lo
      /\ x > hi => r = hi
      /\ x >= lo /\ x <= hi => r = x
  BY <1>3 DEF Clamp
<1>5. ASSUME NEW q \in lo .. hi PROVE Abs(4 * r - t) <= Abs(4 * q - t)
  <2>1. q \in Int /\ q >= lo /\ q <= hi OBVIOUS
  <2>2. PICK k \in Int : k = q /\ k >= lo /\ k <= hi BY <2>1
  <2>3. Abs(4 * r - t) <= Abs(4 * k - t) BY <1>2, <1>4, <2>2 DEF Abs
  <2> QED BY <2>2, <2>3
<1> QED BY <1>1, <1>3, <1>4, <1>5 DEF NearestIn

LEMMA NearestInt4 ==
    ASSUME NEW t \in Int
    PROVE  /\ 4 * (Int4Code(t) - 8) \in {4 * q : q \in -8 .. 7}
           /\ \A x \in {4 * q : q \in -8 .. 7} : Abs(4 * (Int4Code(t) - 8) - t) <= Abs(x - t)
<1>1. PICK lo \in Int, hi \in Int : lo = -8 /\ hi = 7 OBVIOUS
<1>2. NearestIn(Clamp(Round(t, 4), lo, hi), t, lo, hi) BY <1>1, NearestStep
<1>3. PICK r \in -8 .. 7 : /\ r = Clamp(Round(t, 4), lo, hi)
                           /\ \A q \in -8 .. 7 : Abs(4 * r - t) <= Abs(4 * q - t)
  BY <1>1, <1>2 DEF NearestIn
<1>4. Int4Code(t) - 8 = r BY <1>1, <1>3 DEF Int4Code
<1> QED BY <1>3, <1>4

LEMMA NearestHead ==
    ASSUME NEW t \in Int
    PROVE  /\ 4 * (HeadCode(t) - 128) \in {4 * q : q \in -128 .. 127}
           /\ \A x \in {4 * q : q \in -128 .. 127} : Abs(4 * (HeadCode(t) - 128) - t) <= Abs(x - t)
<1>1. PICK lo \in Int, hi \in Int : lo = -128 /\ hi = 127 OBVIOUS
<1>2. NearestIn(Clamp(Round(t, 4), lo, hi), t, lo, hi) BY <1>1, NearestStep
<1>3. PICK r \in -128 .. 127 : /\ r = Clamp(Round(t, 4), lo, hi)
                           /\ \A q \in -128 .. 127 : Abs(4 * r - t) <= Abs(4 * q - t)
  BY <1>1, <1>2 DEF NearestIn
<1>4. HeadCode(t) - 128 = r BY <1>1, <1>3 DEF HeadCode
<1> QED BY <1>3, <1>4

(* The grid of a 3-bit code, with and without its correction.               *)
Tq3Grid(F) ==
    {4 * c - TQ3_HALF_RANGE + s : c \in 0 .. 7,
     s \in IF "NOCORR" \in F THEN {0} ELSE {-TQ3_CORRECTION, TQ3_CORRECTION}}

LEMMA NearestTq3 ==
    ASSUME NEW F, NEW t \in Int
    PROVE  /\ Biased(F, Tq3Code(t), Tq3Sign(t)) \in Tq3Grid(F)
           /\ \A x \in Tq3Grid(F) : Abs(Biased(F, Tq3Code(t), Tq3Sign(t)) - t) <= Abs(x - t)
<1>1. PICK u \in Int : u = t + 14 OBVIOUS
<1>2. PICK lo \in Int, hi \in Int : lo = 0 /\ hi = 7 OBVIOUS
<1>3. PICK c \in 0 .. 7 : c = Tq3Code(t) BY CodeRanges
<1>4. c = Clamp(Round(u, 4), lo, hi) BY <1>1, <1>2, <1>3, TileSizes DEF Tq3Code
<1>5. NearestIn(Clamp(Round(u, 4), lo, hi), u, lo, hi) BY <1>2, NearestStep
<1>6. ASSUME NEW k \in 0 .. 7 PROVE Abs(4 * c - u) <= Abs(4 * k - u) BY <1>2, <1>4, <1>5 DEF NearestIn
<1>7. CASE "NOCORR" \in F
  <2>1. Biased(F, Tq3Code(t), Tq3Sign(t)) = 4 * c - 14 BY <1>3, <1>7, TileSizes DEF Biased
  <2>2. \A x : x \in Tq3Grid(F) <=> \E k \in 0 .. 7 : x = 4 * k - 14
    <3>1. \A x : x \in Tq3Grid(F) <=> \E k \in 0 .. 7, y \in {0} : x = 4 * k - 14 + y
      BY <1>7, TileSizes DEF Tq3Grid
    <3>2. \A k \in 0 .. 7 : 4 * k - 14 + 0 = 4 * k - 14 OBVIOUS
    <3>3. ASSUME NEW x, x \in Tq3Grid(F) PROVE \E k \in 0 .. 7 : x = 4 * k - 14
      <4>1. PICK k \in 0 .. 7, y \in {0} : x = 4 * k - 14 + y BY <3>1, <3>3
      <4> QED BY <3>2, <4>1
    <3>4. ASSUME NEW x, NEW k \in 0 .. 7, x = 4 * k - 14 PROVE x \in Tq3Grid(F)
      <4>1. x = 4 * k - 14 + 0 /\ 0 \in {0} BY <3>2, <3>4
      <4> QED BY <3>1, <4>1
    <3> QED BY <3>3, <3>4
  <2>3. ASSUME NEW k \in 0 .. 7 PROVE Abs(4 * c - 14 - t) <= Abs(4 * k - 14 - t)
    <3>1. 4 * c - 14 - t = 4 * c - u /\ 4 * k - 14 - t = 4 * k - u BY <1>1
    <3> QED BY <1>6, <3>1
  <2> QED BY <2>1, <2>2, <2>3
<1>8. CASE "NOCORR" \notin F
  <2>1. PICK s \in 0 .. 1 : s = Tq3Sign(t) BY CodeRanges
  <2>2. s = IF u - 4 * c > 0 THEN 1 ELSE 0
    <3>1. t - (4 * c - 14) = u - 4 * c BY <1>1
    <3> QED BY <1>3, <2>1, <3>1, TileSizes DEF Tq3Sign
  <2>3. Biased(F, Tq3Code(t), Tq3Sign(t)) = 4 * c - 15 + s * 2 BY <1>3, <1>8, <2>1, TileSizes DEF Biased
  <2>4. \A x : x \in Tq3Grid(F) <=> \E k \in 0 .. 7 : x = 4 * k - 15 \/ x = 4 * k - 13
    <3>1. \A x : x \in Tq3Grid(F) <=> \E k \in 0 .. 7, y \in {-1, 1} : x = 4 * k - 14 + y
      BY <1>8, TileSizes DEF Tq3Grid
    <3>2. \A k \in 0 .. 7 : 4 * k - 14 + (-1) = 4 * k - 15 /\ 4 * k - 14 + 1 = 4 * k - 13 OBVIOUS
    <3>3. ASSUME NEW x, x \in Tq3Grid(F) PROVE \E k \in 0 .. 7 : x = 4 * k - 15 \/ x = 4 * k - 13
      <4>1. PICK k \in 0 .. 7, y \in {-1, 1} : x = 4 * k - 14 + y BY <3>1, <3>3
      <4>2. y = -1 \/ y = 1 OBVIOUS
      <4>3. x = 4 * k - 15 \/ x = 4 * k - 13 BY <3>2, <4>1, <4>2
      <4> QED BY <4>3
    <3>4. ASSUME NEW x, NEW k \in 0 .. 7, x = 4 * k - 15 \/ x = 4 * k - 13 PROVE x \in Tq3Grid(F)
      <4>1. x = 4 * k - 14 + (-1) \/ x = 4 * k - 14 + 1 BY <3>2, <3>4
      <4> QED BY <3>1, <4>1
    <3> QED BY <3>3, <3>4
  <2>5. ASSUME NEW k \in 0 .. 7
        PROVE  /\ Abs(4 * c - 15 + s * 2 - t) <= Abs(4 * k - 15 - t)
               /\ Abs(4 * c - 15 + s * 2 - t) <= Abs(4 * k - 13 - t)
    BY <1>1, <1>6, <2>2 DEF Abs
  <2>6. 4 * c - 15 + s * 2 \in Tq3Grid(F) BY <2>4
  <2> QED BY <2>3, <2>4, <2>5, <2>6
<1> QED BY <1>7, <1>8

(* A clamped value is as near to the points between the ends as the value.  *)
LEMMA NearestClamped ==
    ASSUME NEW t \in Int, NEW m \in Nat, NEW x \in Int, NEW y \in Int,
           -m <= x, x <= m, -m <= y, y <= m,
           Abs(x - Clamp(t, -m, m)) <= Abs(y - Clamp(t, -m, m))
    PROVE  Clamp(t, -m, m) \in Int /\ Abs(x - t) <= Abs(y - t)
BY DEF Clamp, Abs

Dist(t, j) == IF t > NF4_CODEBOOK[j + 1] THEN t - NF4_CODEBOOK[j + 1] ELSE NF4_CODEBOOK[j + 1] - t

LEMMA Codebook ==
    /\ DOMAIN NF4_CODEBOOK = 1 .. 16
    /\ \A k \in 1 .. 16 : NF4_CODEBOOK[k] \in Int /\ -10000 <= NF4_CODEBOOK[k] /\ NF4_CODEBOOK[k] <= 10000
<1>1. DOMAIN NF4_CODEBOOK = 1 .. 16 BY DEF NF4_CODEBOOK
<1>2. /\ NF4_CODEBOOK[1] = -10000 /\ NF4_CODEBOOK[2] = -7075 /\ NF4_CODEBOOK[3] = -5421
      /\ NF4_CODEBOOK[4] = -4165 /\ NF4_CODEBOOK[5] = -3108 /\ NF4_CODEBOOK[6] = -2158
      /\ NF4_CODEBOOK[7] = -1272 /\ NF4_CODEBOOK[8] = -421 /\ NF4_CODEBOOK[9] = 421
      /\ NF4_CODEBOOK[10] = 1272 /\ NF4_CODEBOOK[11] = 2158 /\ NF4_CODEBOOK[12] = 3108
      /\ NF4_CODEBOOK[13] = 4165 /\ NF4_CODEBOOK[14] = 5421 /\ NF4_CODEBOOK[15] = 7075
      /\ NF4_CODEBOOK[16] = 10000
  BY DEF NF4_CODEBOOK
<1>3. ASSUME NEW k \in 1 .. 16
      PROVE  NF4_CODEBOOK[k] \in Int /\ -10000 <= NF4_CODEBOOK[k] /\ NF4_CODEBOOK[k] <= 10000
  <2>1. \/ k = 1 \/ k = 2 \/ k = 3 \/ k = 4 \/ k = 5 \/ k = 6 \/ k = 7 \/ k = 8
        \/ k = 9 \/ k = 10 \/ k = 11 \/ k = 12 \/ k = 13 \/ k = 14 \/ k = 15 \/ k = 16
    OBVIOUS
  <2> QED BY <1>2, <2>1
<1> QED BY <1>1, <1>3

LEMMA NearestOfCodebook ==
    ASSUME NEW t \in Int
    PROVE  nf4_nearest(t) \in 0 .. 15 /\ \A j \in 0 .. 15 : Dist(t, nf4_nearest(t)) <= Dist(t, j)
<1>1. \A j \in 0 .. 15 : Dist(t, j) \in Nat
  <2> SUFFICES ASSUME NEW j \in 0 .. 15 PROVE Dist(t, j) \in Nat OBVIOUS
  <2>1. j + 1 \in 1 .. 16 OBVIOUS
  <2>2. PICK x \in Int : x = NF4_CODEBOOK[j + 1] BY <2>1, Codebook
  <2> QED BY <2>2 DEF Dist
<1>2. PICK D : D = {Dist(t, j) : j \in 0 .. 15} OBVIOUS
<1>3. D \subseteq Nat BY <1>1, <1>2
<1>4. D # {} BY <1>2
<1>5. PICK m \in D : \A n \in D : m <= n BY <1>3, <1>4, LeastElement
<1>6. PICK I : I = {j \in 0 .. 15 : Dist(t, j) = m} OBVIOUS
<1>7. I \subseteq Nat BY <1>6
<1>8. I # {} BY <1>2, <1>5, <1>6
<1>9. PICK i \in I : \A k \in I : i <= k BY <1>7, <1>8, LeastElement
<1>10. i \in 0 .. 15 /\ Dist(t, i) = m BY <1>6, <1>9
<1>11. \A j \in 0 .. 15 : Dist(t, i) <= Dist(t, j) BY <1>2, <1>5, <1>10
<1>12. ASSUME NEW j \in 0 .. i - 1 PROVE Dist(t, i) < Dist(t, j)
  <2>1. j \in 0 .. 15 /\ ~(i <= j) BY <1>10
  <2>2. Dist(t, j) # m BY <1>6, <1>9, <2>1
  <2> QED BY <1>1, <1>10, <1>11, <2>1, <2>2
<1>13. nf4_nearest(t) = CHOOSE k \in 0 .. 15 : /\ \A j \in 0 .. 15 : Dist(t, k) <= Dist(t, j)
                                               /\ \A j \in 0 .. k - 1 : Dist(t, k) < Dist(t, j)
  BY DEF nf4_nearest, Dist
<1> QED BY <1>10, <1>11, <1>12, <1>13

LEMMA NearestNf4 ==
    ASSUME NEW t \in Int
    PROVE  /\ Nf4Code(t) \in 0 .. 15
           /\ NF4_CODEBOOK[Nf4Code(t) + 1] \in RangeOf(NF4_CODEBOOK)
           /\ \A x \in RangeOf(NF4_CODEBOOK) : Abs(NF4_CODEBOOK[Nf4Code(t) + 1] - t) <= Abs(x - t)
<1>1. PICK m \in Nat : m = 10000 OBVIOUS
<1>2. PICK u \in Int : u = Clamp(t, -m, m) BY DEF Clamp
<1>3. Nf4Code(t) = nf4_nearest(u) BY <1>1, <1>2 DEF Nf4Code
<1>4. PICK i \in 0 .. 15 : i = Nf4Code(t) /\ \A j \in 0 .. 15 : Dist(u, i) <= Dist(u, j)
  BY <1>3, NearestOfCodebook
<1>5. \A k \in 1 .. 16 : NF4_CODEBOOK[k] \in Int /\ -m <= NF4_CODEBOOK[k] /\ NF4_CODEBOOK[k] <= m
  BY <1>1, Codebook
<1>6. i + 1 \in 1 .. 16 OBVIOUS
<1>7. PICK a \in Int : a = NF4_CODEBOOK[i + 1] /\ -m <= a /\ a <= m BY <1>5, <1>6
<1>8. ASSUME NEW x \in RangeOf(NF4_CODEBOOK) PROVE Abs(a - t) <= Abs(x - t)
  <2>1. PICK k \in 1 .. 16 : x = NF4_CODEBOOK[k] BY Codebook DEF RangeOf
  <2>2. PICK b \in Int : b = NF4_CODEBOOK[k] /\ -m <= b /\ b <= m BY <1>5
  <2>3. PICK j \in 0 .. 15 : j + 1 = k
    <3>1. k - 1 \in 0 .. 15 /\ (k - 1) + 1 = k OBVIOUS
    <3> QED BY <3>1
  <2>4. Dist(u, i) <= Dist(u, j) BY <1>4
  <2>5. Dist(u, i) = Abs(a - u) BY <1>7 DEF Dist, Abs
  <2>6. Dist(u, j) = Abs(b - u) BY <2>2, <2>3 DEF Dist, Abs
  <2>7. Abs(a - u) <= Abs(b - u) BY <2>4, <2>5, <2>6
  <2>8. Abs(a - t) <= Abs(b - t) BY <1>2, <1>7, <2>2, <2>7, NearestClamped
  <2> QED BY <2>1, <2>2, <2>8
<1>9. a \in RangeOf(NF4_CODEBOOK) BY <1>6, <1>7, Codebook DEF RangeOf
<1> QED BY <1>4, <1>7, <1>8, <1>9

(* Level is the value of the grid that is nearest to t.                     *)
NearestOf(level, grid, t) == level \in grid /\ \A x \in grid : Abs(level - t) <= Abs(x - t)

HeadGrid == {4 * q : q \in -128 .. 127}
NibbleGrid == {4 * q : q \in -8 .. 7}

LEMMA GridOf ==
    ASSUME NEW F, NEW d \in Dims
    PROVE  /\ "MIXED" \in F => Grid(F, d) = IF d < 8 THEN HeadGrid ELSE IF d < 120 THEN NibbleGrid ELSE {0}
           /\ "MIXED" \notin F /\ "TQ3" \in F => Grid(F, d) = Tq3Grid(F)
           /\ "MIXED" \notin F /\ "TQ3" \notin F /\ "MIX3" \in F =>
                 Grid(F, d) = IF d < 8 THEN HeadGrid ELSE IF d < 120 THEN Tq3Grid(F) ELSE {0}
           /\ "MIXED" \notin F /\ "TQ3" \notin F /\ "MIX3" \notin F /\ "NF4" \in F =>
                 Grid(F, d) = RangeOf(NF4_CODEBOOK)
           /\ "MIXED" \notin F /\ "TQ3" \notin F /\ "MIX3" \notin F /\ "NF4" \notin F =>
                 Grid(F, d) = NibbleGrid
<1>1. MIXED_HI_DIMS = 8 /\ MIXED_DIMS = 120 BY TileSizes
<1>2. Grid(F, d) = ByCodec(F, IF d < 8 THEN HeadGrid ELSE IF d < 120 THEN NibbleGrid ELSE {0}, Tq3Grid(F),
                           IF d < 8 THEN HeadGrid ELSE IF d < 120 THEN Tq3Grid(F) ELSE {0},
                           RangeOf(NF4_CODEBOOK), NibbleGrid)
  BY <1>1 DEF Grid, HeadGrid, NibbleGrid, Tq3Grid
<1> QED BY <1>2 DEF ByCodec

(* Every dimension of a packed plane decodes to what is nearest.            *)
LEMMA DecodedMixed ==
    ASSUME NEW F, "MIXED" \in F, NEW v, \A e \in Dims : v[e] \in Int, NEW d \in Dims
    PROVE  NearestOf(dequant_at(F, quantize_latent_mixed(v), d).level, Grid(F, d), v[d])
<1>1. PICK L : L = quantize_latent_mixed(v) OBVIOUS
<1>2. dequant_at(F, L, d) = RefMixed(L, d) BY RefIsScalar DEF Ref, ByCodec
<1>3. d \in 0 .. 127 /\ v[d] \in Int BY TileSizes
<1>4. CASE d < 8
  <2>1. d \in 0 .. 7 BY <1>3, <1>4
  <2>2. RefMixed(L, d).level = 4 * (HeadCode(v[d]) - 128)
    BY <1>1, <1>4, <2>1, MixedPlane DEF RefMixed, Headed, HeadTerm, Term
  <2>3. Grid(F, d) = HeadGrid BY <1>4, GridOf
  <2> QED BY <1>1, <1>2, <1>3, <2>2, <2>3, NearestHead DEF NearestOf, HeadGrid
<1>5. CASE d >= 8 /\ d < 120
  <2>1. PICK e \in 0 .. 111 : e = d - 8 BY <1>3, <1>5
  <2>2. 8 + e = d /\ ~(d < 8) BY <1>3, <1>5, <2>1
  <2>3. Nibble(L, 64 + 4 * e) = Int4Code(v[d]) BY <1>1, <2>2, MixedPlane
  <2>4. RefMixed(L, d) = Term(d, 4 * (Nibble(L, 64 + 4 * e) - 8), 1 + e \div 16)
    BY <1>5, <2>1, <2>2 DEF RefMixed, Headed
  <2>5. RefMixed(L, d).level = 4 * (Int4Code(v[d]) - 8) BY <2>3, <2>4 DEF Term
  <2>6. Grid(F, d) = NibbleGrid BY <1>5, <2>2, GridOf
  <2> QED BY <1>1, <1>2, <1>3, <2>5, <2>6, NearestInt4 DEF NearestOf, NibbleGrid
<1>6. CASE d >= 120
  <2>1. ~(d < 8) /\ ~(d < 120) BY <1>3, <1>6
  <2>2. RefMixed(L, d).level = 0 BY <2>1 DEF RefMixed, Headed, NoTerm, Term
  <2>3. Grid(F, d) = {0} BY <2>1, GridOf
  <2>4. Abs(0 - v[d]) <= Abs(0 - v[d]) BY <1>3 DEF Abs
  <2> QED BY <1>1, <1>2, <2>2, <2>3, <2>4 DEF NearestOf
<1> QED BY <1>3, <1>4, <1>5, <1>6

LEMMA DecodedMix3 ==
    ASSUME NEW F, "MIXED" \notin F, "TQ3" \notin F, "MIX3" \in F, NEW v, \A e \in Dims : v[e] \in Int,
           NEW d \in Dims
    PROVE  NearestOf(dequant_at(F, quantize_latent_mix3(v), d).level, Grid(F, d), v[d])
<1>1. PICK L : L = quantize_latent_mix3(v) OBVIOUS
<1>2. dequant_at(F, L, d) = RefMix3(F, L, d) BY RefIsScalar DEF Ref, ByCodec
<1>3. d \in 0 .. 127 /\ v[d] \in Int BY TileSizes
<1>4. CASE d < 8
  <2>1. d \in 0 .. 7 BY <1>3, <1>4
  <2>2. RefMix3(F, L, d).level = 4 * (HeadCode(v[d]) - 128)
    BY <1>1, <1>4, <2>1, Mix3Plane DEF RefMix3, Headed, HeadTerm, Term
  <2>3. Grid(F, d) = HeadGrid BY <1>4, GridOf
  <2> QED BY <1>1, <1>2, <1>3, <2>2, <2>3, NearestHead DEF NearestOf, HeadGrid
<1>5. CASE d >= 8 /\ d < 120
  <2>1. PICK e \in 0 .. 111 : e = d - 8 BY <1>3, <1>5
  <2>2. 8 + e = d /\ ~(d < 8) BY <1>3, <1>5, <2>1
  <2>3. Bits3(L, 64 + 3 * e) = Tq3Code(v[d]) /\ Bit(L, 400 + e) = Tq3Sign(v[d]) BY <1>1, <2>2, Mix3Plane
  <2>4. RefMix3(F, L, d) = Term(d, Biased(F, Bits3(L, 64 + 3 * e), Bit(L, 400 + e)), 1 + e \div 16)
    BY <1>5, <2>1, <2>2 DEF RefMix3, Headed
  <2>5. RefMix3(F, L, d).level = Biased(F, Tq3Code(v[d]), Tq3Sign(v[d])) BY <2>3, <2>4 DEF Term
  <2>6. Grid(F, d) = Tq3Grid(F) BY <1>5, <2>2, GridOf
  <2> QED BY <1>1, <1>2, <1>3, <2>5, <2>6, NearestTq3 DEF NearestOf
<1>6. CASE d >= 120
  <2>1. ~(d < 8) /\ ~(d < 120) BY <1>3, <1>6
  <2>2. RefMix3(F, L, d).level = 0 BY <2>1 DEF RefMix3, Headed, NoTerm, Term
  <2>3. Grid(F, d) = {0} BY <2>1, GridOf
  <2>4. Abs(0 - v[d]) <= Abs(0 - v[d]) BY <1>3 DEF Abs
  <2> QED BY <1>1, <1>2, <2>2, <2>3, <2>4 DEF NearestOf
<1> QED BY <1>3, <1>4, <1>5, <1>6

LEMMA DecodedPlain ==
    ASSUME NEW F, "MIXED" \notin F, NEW v, \A e \in Dims : v[e] \in Int, NEW d \in Dims
    PROVE  /\ "TQ3" \in F =>
                 NearestOf(dequant_at(F, quantize_latent_tq3(v), d).level, Grid(F, d), v[d])
           /\ "TQ3" \notin F /\ "MIX3" \notin F /\ "NF4" \in F =>
                 NearestOf(dequant_at(F, quantize_latent_nf4(v), d).level, Grid(F, d), v[d])
           /\ "TQ3" \notin F /\ "MIX3" \notin F /\ "NF4" \notin F =>
                 NearestOf(dequant_at(F, quantize_latent(v), d).level, Grid(F, d), v[d])
<1>1. v[d] \in Int OBVIOUS
<1>2. ASSUME "TQ3" \in F
      PROVE  NearestOf(dequant_at(F, quantize_latent_tq3(v), d).level, Grid(F, d), v[d])
  <2>1. PICK L : L = quantize_latent_tq3(v) OBVIOUS
  <2>2. dequant_at(F, L, d) = RefTq3(F, L, d) BY <1>2, RefIsScalar DEF Ref, ByCodec
  <2>3. Bits3(L, 3 * d) = Tq3Code(v[d]) /\ Bit(L, 384 + d) = Tq3Sign(v[d]) BY <2>1, Tq3Plane
  <2>4. RefTq3(F, L, d).level = Biased(F, Tq3Code(v[d]), Tq3Sign(v[d])) BY <2>3 DEF RefTq3, Term
  <2>5. Grid(F, d) = Tq3Grid(F) BY <1>2, GridOf
  <2> QED BY <1>1, <2>1, <2>2, <2>4, <2>5, NearestTq3 DEF NearestOf
<1>3. ASSUME "TQ3" \notin F, "MIX3" \notin F, "NF4" \in F
      PROVE  NearestOf(dequant_at(F, quantize_latent_nf4(v), d).level, Grid(F, d), v[d])
  <2>1. PICK L : L = quantize_latent_nf4(v) OBVIOUS
  <2>2. dequant_at(F, L, d) = RefNf4(L, d) BY <1>3, RefIsScalar DEF Ref, ByCodec
  <2>3. \A e \in Dims : Nf4Code(v[e]) \in 0 .. 15 BY NearestNf4
  <2>4. Nibble(L, 4 * d) = Nf4Code(v[d]) BY <2>1, <2>3, Nf4Plane
  <2>5. RefNf4(L, d).level = NF4_CODEBOOK[Nf4Code(v[d]) + 1] BY <2>4 DEF RefNf4, Term
  <2>6. Grid(F, d) = RangeOf(NF4_CODEBOOK) BY <1>3, GridOf
  <2> QED BY <1>1, <2>1, <2>2, <2>5, <2>6, NearestNf4 DEF NearestOf
<1>4. ASSUME "TQ3" \notin F, "MIX3" \notin F, "NF4" \notin F
      PROVE  NearestOf(dequant_at(F, quantize_latent(v), d).level, Grid(F, d), v[d])
  <2>1. PICK L : L = quantize_latent(v) OBVIOUS
  <2>2. dequant_at(F, L, d) = RefInt4(L, d) BY <1>4, RefIsScalar DEF Ref, ByCodec
  <2>3. Nibble(L, 4 * d) = Int4Code(v[d]) BY <2>1, Int4Plane
  <2>4. RefInt4(L, d).level = 4 * (Int4Code(v[d]) - 8) BY <2>3 DEF RefInt4, Term
  <2>5. Grid(F, d) = NibbleGrid BY <1>4, GridOf
  <2> QED BY <1>1, <2>1, <2>2, <2>4, <2>5, NearestInt4 DEF NearestOf, NibbleGrid
<1> QED BY <1>2, <1>3, <1>4

LEMMA DecodedNearest ==
    ASSUME NEW F, NEW in, in.value \in Int, in.rest \in Int, NEW d \in Dims
    PROVE  NearestOf(dequant_at(F, Quantized(F, in), d).level, Grid(F, d), Values(in)[d])
<1>1. PICK v : v = Values(in) OBVIOUS
<1>2. \A e \in Dims : v[e] \in Int BY <1>1 DEF Values
<1>3. Quantized(F, in) = ByCodec(F, quantize_latent_mixed(v), quantize_latent_tq3(v), quantize_latent_mix3(v),
                                 quantize_latent_nf4(v), quantize_latent(v))
  BY <1>1 DEF Quantized
<1>4. CASE "MIXED" \in F BY <1>1, <1>2, <1>3, <1>4, DecodedMixed DEF ByCodec
<1>5. CASE "MIXED" \notin F /\ "TQ3" \notin F /\ "MIX3" \in F
  BY <1>1, <1>2, <1>3, <1>5, DecodedMix3 DEF ByCodec
<1>6. CASE "MIXED" \notin F /\ ~("TQ3" \notin F /\ "MIX3" \in F)
  BY <1>1, <1>2, <1>3, <1>6, DecodedPlain DEF ByCodec
<1> QED BY <1>4, <1>5, <1>6

(* The bridge: every supported flag set has a name, and INT4 a width.       *)
LEMMA CodecNamed ==
    ASSUME NEW F, F \subseteq TileFlags, validate_codec(F)
    PROVE  codec_name(F) # "refused"
BY DEF codec_name

LEMMA WidthOfGrid ==
    ASSUME NEW F, F \subseteq TileFlags, validate_codec(F), fixed_width_precision(F) # 0, NEW d \in Dims
    PROVE  Grid(F, d) = {4 * q : q \in -(2^(fixed_width_precision(F) - 1)) .. 2^(fixed_width_precision(F) - 1) - 1}
<1>1. codec_name(F) = "int4"
  BY DEF fixed_width_precision, precision_for_codec
<1>2. "MIXED" \notin F /\ "TQ3" \notin F /\ "MIX3" \notin F /\ "NF4" \notin F
  BY <1>1 DEF codec_name
<1>3. fixed_width_precision(F) = 4
  BY <1>1 DEF fixed_width_precision, precision_for_codec
<1>4. Grid(F, d) = {4 * q : q \in -8 .. 7} BY <1>2, GridOf DEF NibbleGrid
<1>5. 2^(4 - 1) = 8 OBVIOUS
<1>6. -(2^(4 - 1)) .. 2^(4 - 1) - 1 = -8 .. 7 BY <1>5
<1> QED BY <1>3, <1>4, <1>6

-----------------------------------------------------------------------------
(* The flags, the input and the plane never change once a tile is packed.   *)
KernelInv ==
    /\ flags \in FlagSets
    /\ input \in Inputs(flags)
    /\ latent = Quantized(flags, input)
    /\ path \in Paths \cup {"none"}
    /\ path \in Plain => flags \subseteq {"WARM"}

LEMMA KernelInitial == KernelInit => KernelInv
BY DEF KernelInit, KernelInv, Plain

LEMMA KernelStep == KernelInv /\ [KernelNext]_kernelVars => KernelInv'
<1> SUFFICES ASSUME KernelInv, [KernelNext]_kernelVars PROVE KernelInv' OBVIOUS
<1>1. ASSUME NEW p \in Paths, Score(p), p \in Plain => flags \subseteq {"WARM"} PROVE KernelInv'
  BY <1>1 DEF KernelInv, Score
<1>2. CASE UNCHANGED kernelVars BY <1>2 DEF KernelInv, kernelVars
<1>3. CASE \E isa \in Isas : Score(isa)
  <2>1. \A isa \in Isas : isa \in Paths /\ isa \notin Plain BY DEF Paths, Isas, Plain
  <2> QED BY <1>1, <1>3, <2>1
<1>4. CASE Score("vram") \/ Score("cuda")
  <2>1. "vram" \in Paths /\ "cuda" \in Paths /\ "vram" \notin Plain /\ "cuda" \notin Plain BY DEF Paths, Plain
  <2> QED BY <1>1, <1>4, <2>1
<1>5. CASE flags \subseteq {"WARM"} /\ \E p \in Plain : Score(p)
  <2>1. Plain \subseteq Paths BY DEF Paths
  <2> QED BY <1>1, <1>5, <2>1
<1> QED BY <1>2, <1>3, <1>4, <1>5 DEF KernelNext

LEMMA KernelPaths == KernelInv => PathsAgree
<1> SUFFICES ASSUME KernelInv PROVE PathsAgree OBVIOUS
<1>1. path \in Paths => SameScore(path, flags, latent) BY EveryPathScores DEF KernelInv
<1>2. \A f \in DOMAIN FieldsRead(path, flags) : \A k \in DOMAIN FieldsRead(path, flags)[f] :
         FieldsRead(path, flags)[f][k] = IF f = "residual" /\ "WARM" \in flags THEN ZeroByte ELSE <<f, k>>
  BY EveryFieldFound
<1> QED BY <1>1, <1>2 DEF PathsAgree, SameScore

LEMMA KernelGrid == KernelInv => NearestIsDecoded
<1> SUFFICES ASSUME KernelInv, validate_codec(flags), NEW d \in Dims
             PROVE  /\ codec_name(flags) # "refused"
                    /\ NearestOf(dequant_at(flags, latent, d).level, Grid(flags, d), Values(input)[d])
                    /\ fixed_width_precision(flags) # 0 =>
                          Grid(flags, d) = {4 * q : q \in -(2^(fixed_width_precision(flags) - 1))
                                                          .. 2^(fixed_width_precision(flags) - 1) - 1}
  <2>1. 0 \in Dims BY TileSizes
  <2> QED BY <2>1 DEF NearestIsDecoded, NearestOf
<1>1. flags \subseteq TileFlags /\ input.value \in Int /\ input.rest \in Int
  BY KernelAssumption DEF KernelInv
<1>2. NearestOf(dequant_at(flags, latent, d).level, Grid(flags, d), Values(input)[d])
  BY <1>1, DecodedNearest DEF KernelInv
<1> QED BY <1>1, <1>2, CodecNamed, WidthOfGrid

(* Whatever flags and input a tile is quantised with, every implementation  *)
(* of the score (the scalar code, the vector kernels, the VRAM crate, CUDA, *)
(* and the two readers of plain tiles) meets each dimension of the query    *)
(* with the level dequant_at gives it and finds the same header fields, and *)
(* that level is the point of the codec's grid nearest to what was          *)
(* quantised. The plane is never changed after it is packed, so that what   *)
(* the quantiser's bits decode to is all there is to show.                  *)
THEOREM KernelsAgreeAndDecode == KernelSpec => []KernelsExact
<1>1. KernelInit => KernelInv BY KernelInitial
<1>2. KernelInv /\ [KernelNext]_kernelVars => KernelInv' BY KernelStep
<1>3. KernelInv => KernelsExact BY KernelPaths, KernelGrid DEF KernelsExact
<1> QED BY <1>1, <1>2, <1>3, PTL DEF KernelSpec
=============================================================================

---------------------------- MODULE TileKernels ----------------------------
(***************************************************************************)
(* The tile codecs and every implementation of the attention score         *)
(* (scirust, src/attention/slha_v2: codec/, tile.rs, simd.rs; slhav2-vram, *)
(* src/codec.rs and kernels/slha_score.cu), with the two readers of plain   *)
(* INT4 planes beside them (src/engine/hybrid.rs, src/safety.rs).          *)
(*                                                                         *)
(* A tile's 64-byte latent plane is a set of bits, bit i of byte b being   *)
(* 8 * b + i, with the layout of the code (128 dimensions, no scaling      *)
(* down). A score is a set of terms: which dimension of the query meets    *)
(* which level under which group scale. The residual term, which all       *)
(* implementations add in the same way unless the tile is WARM, is left    *)
(* out. Levels and the values that are quantised are integers: quarter     *)
(* steps of the grid, and ten-thousandths for NF4; what f32 rounding does  *)
(* to a sum is left out.                                                   *)
(***************************************************************************)
EXTENDS Integers, FiniteSets

CONSTANTS
    FlagSets,       \* flags of the tiles
    Inputs(_)       \* what is quantised under flags: [dim, value, rest]

TileFlags == {"WARM", "NF4", "MIXED", "TQ3", "NOCORR", "MIX3"}

ASSUME KernelAssumption ==
    /\ FlagSets \subseteq SUBSET TileFlags
    /\ \A F \in FlagSets : \A in \in Inputs(F) : in.value \in Int /\ in.rest \in Int

VARIABLES
    flags,     \* the tile's flags
    input,     \* what was quantised: one value at one dimension, one elsewhere
    latent,    \* the latent plane, as a set of bits
    path       \* the implementation that scored the tile, "none" before

kernelVars == <<flags, input, latent, path>>

D_C == 128
LATENT_BYTES == D_C \div 2
N_GROUPS == 8
GROUP_DIM == D_C \div N_GROUPS
MIXED_HI_DIMS == 8
MIXED_LO_DIMS == 2 * (LATENT_BYTES - MIXED_HI_DIMS)
MIXED_DIMS == MIXED_HI_DIMS + MIXED_LO_DIMS
MIXED_LO_GROUPS == N_GROUPS - 1
TQ3_CODE_BYTES == (D_C * 3) \div 8
MIX3_CODES_OFF == MIXED_HI_DIMS
MIX3_CORR_OFF == MIX3_CODES_OFF + (MIXED_LO_DIMS * 3) \div 8

(* In quarter steps.                                                        *)
TQ3_HALF_RANGE == 14
TQ3_CORRECTION == 1

(* Ten-thousandths.                                                         *)
NF4_CODEBOOK ==
    <<-10000, -7075, -5421, -4165, -3108, -2158, -1272, -421,
      421, 1272, 2158, 3108, 4165, 5421, 7075, 10000>>

Dims == 0 .. D_C - 1

-----------------------------------------------------------------------------
(* Bits                                                                     *)

Bit(L, p) == IF p \in L THEN 1 ELSE 0
Bits3(L, p) == Bit(L, p) + 2 * Bit(L, p + 1) + 4 * Bit(L, p + 2)
Nibble(L, p) == Bits3(L, p) + 8 * Bit(L, p + 3)
Byte(L, b) == Nibble(L, 8 * b) + 16 * Nibble(L, 8 * b + 4)

(* What ORing an 8-bit value into byte b sets.                              *)
OrByte(b, value) == {8 * b + i : i \in {i \in 0 .. 7 : (value \div 2^i) % 2 = 1}}

(* f32::round, half away from zero, of n / k, and clamp.                    *)
Round(n, k) == IF n >= 0 THEN (2 * n + k) \div (2 * k) ELSE - ((2 * (-n) + k) \div (2 * k))
Clamp(n, lo, hi) == IF n < lo THEN lo ELSE IF n > hi THEN hi ELSE n

-----------------------------------------------------------------------------
(* Quantisers. v is the value at dimension d, in units of its group's       *)
(* effective scale, which the code computes before it packs.                *)

PackNibble(b, d, nib) == OrByte(b, IF d % 2 = 0 THEN nib ELSE nib * 16)

Int4Code(v) == Clamp(Round(v, 4), -8, 7) + 8

(* quantize_latent and quantize_latent_grouped                              *)
quantize_latent(v) == UNION {PackNibble(d \div 2, d, Int4Code(v[d])) : d \in Dims}

nf4_nearest(t) ==
    CHOOSE i \in 0 .. 15 :
        LET dist(j) == IF t > NF4_CODEBOOK[j + 1] THEN t - NF4_CODEBOOK[j + 1]
                       ELSE NF4_CODEBOOK[j + 1] - t
        IN /\ \A j \in 0 .. 15 : dist(i) <= dist(j)
           /\ \A j \in 0 .. i - 1 : dist(i) < dist(j)

quantize_latent_nf4(v) ==
    UNION {PackNibble(d \div 2, d, nf4_nearest(Clamp(v[d], -10000, 10000))) : d \in Dims}

(* The 8-bit head of MIXED and MIX3.                                        *)
PackHead(v) ==
    UNION {OrByte(d, Clamp(Round(v[d], 4), -128, 127) + 128) : d \in 0 .. MIXED_HI_DIMS - 1}

quantize_latent_mixed(v) ==
    PackHead(v) \cup
    UNION {PackNibble(MIXED_HI_DIMS + ld \div 2, ld, Int4Code(v[MIXED_HI_DIMS + ld])) :
           ld \in 0 .. MIXED_LO_DIMS - 1}

(* A 3-bit code at bit 3 * d of the plane at byte off. Mutant: a code that  *)
(* straddles two bytes by one bit loses it.                                 *)
PackCode_straddle(off, d, code) ==
    LET byte == off + (3 * d) \div 8  shift == (3 * d) % 8
    IN OrByte(byte, code * 2^shift)
       \cup (IF shift > 6 THEN OrByte(byte + 1, code \div 2^(8 - shift)) ELSE {})

PackCode(off, d, code) ==
    LET byte == off + (3 * d) \div 8  shift == (3 * d) % 8
    IN OrByte(byte, code * 2^shift)
       \cup (IF shift > 5 THEN OrByte(byte + 1, code \div 2^(8 - shift)) ELSE {})

Tq3Code(t) == Clamp(Round(t + TQ3_HALF_RANGE, 4), 0, 7)

(* The code of value t, and its correction sign at bit d of the plane at    *)
(* byte corr.                                                               *)
PackTq3(codes, corr, d, t) ==
    PackCode(codes, d, Tq3Code(t))
    \cup (IF t - (4 * Tq3Code(t) - TQ3_HALF_RANGE) > 0
          THEN OrByte(corr + d \div 8, 2^(d % 8)) ELSE {})

quantize_latent_tq3(v) == UNION {PackTq3(0, TQ3_CODE_BYTES, d, v[d]) : d \in Dims}

quantize_latent_mix3(v) ==
    PackHead(v) \cup
    UNION {PackTq3(MIX3_CODES_OFF, MIX3_CORR_OFF, ld, v[MIXED_HI_DIMS + ld]) :
           ld \in 0 .. MIXED_LO_DIMS - 1}

-----------------------------------------------------------------------------
(* The scalar reference (tile.rs)                                           *)

Term(q, level, group) == [q |-> q, level |-> level, group |-> group]
NoTerm(q) == Term(q, 0, 0)

ScalarNibble(L, b, d) == Nibble(L, 8 * b + (IF d % 2 = 0 THEN 0 ELSE 4))

(* The 3-bit code at bit of the plane that ends before byte end: a second   *)
(* byte is read only inside the plane.                                      *)
ScalarCode(L, off, bit, end) ==
    LET byte == off + bit \div 8
        word == Byte(L, byte) + (IF byte + 1 < end THEN 256 * Byte(L, byte + 1) ELSE 0)
    IN (word \div 2^(bit % 8)) % 8

Corrected(F, code, corr) ==
    4 * code - TQ3_HALF_RANGE
    + (IF "NOCORR" \in F THEN 0 ELSE IF corr = 1 THEN TQ3_CORRECTION ELSE -TQ3_CORRECTION)

dequant_at_mixed(L, d) ==
    IF d < MIXED_HI_DIMS THEN Term(d, 4 * (Byte(L, d) - 128), 0)
    ELSE IF d < MIXED_DIMS
    THEN LET ld == d - MIXED_HI_DIMS
         IN Term(d, 4 * (ScalarNibble(L, MIXED_HI_DIMS + ld \div 2, ld) - 8), 1 + ld \div GROUP_DIM)
    ELSE NoTerm(d)

dequant_at_tq3(F, L, d) ==
    Term(d, Corrected(F, ScalarCode(L, 0, 3 * d, TQ3_CODE_BYTES),
                      Bit(L, 8 * TQ3_CODE_BYTES + d)), d \div GROUP_DIM)

dequant_at_mix3(F, L, d) ==
    LET ld == d - MIXED_HI_DIMS
    IN IF d < MIXED_HI_DIMS THEN Term(d, 4 * (Byte(L, d) - 128), 0)
       ELSE IF d >= MIXED_DIMS THEN NoTerm(d)
       ELSE Term(d, Corrected(F, ScalarCode(L, MIX3_CODES_OFF, 3 * ld, MIX3_CORR_OFF),
                              Bit(L, 8 * MIX3_CORR_OFF + ld)), 1 + ld \div GROUP_DIM)

dequant_at(F, L, d) ==
    IF "MIXED" \in F THEN dequant_at_mixed(L, d)
    ELSE IF "TQ3" \in F THEN dequant_at_tq3(F, L, d)
    ELSE IF "MIX3" \in F THEN dequant_at_mix3(F, L, d)
    ELSE LET nib == ScalarNibble(L, d \div 2, d)
         IN Term(d, IF "NF4" \in F THEN NF4_CODEBOOK[nib + 1] ELSE 4 * (nib - 8), d \div GROUP_DIM)

compute_score_scalar(F, L) == [d \in Dims |-> dequant_at(F, L, d)]

-----------------------------------------------------------------------------
(* SIMD kernels (simd.rs). A kernel is a function from its blocks and lanes *)
(* to the terms it accumulates.                                             *)

Groups == 0 .. N_GROUPS - 1
LoGroups == 0 .. MIXED_LO_GROUPS - 1

(* Eight packed bytes, the low and the high nibbles interleaved.            *)
Interleaved(L, o, k) == Nibble(L, 8 * (o + k \div 2) + 4 * (k % 2))

(* The 8-bit head, one block of eight lanes.                                *)
HeadLanes(L) ==
    [x \in {-1} \X (0 .. 7) |-> Term(x[2], 4 * (Byte(L, x[2]) - 128), 0)]

(* (u32 window at byte o >> shift) & 7 and (byte >> lane) & 1. Level: the   *)
(* correction is folded into the bias.                                      *)
Window(L, o, shift) == Bits3(L, 8 * o + shift)
Biased(F, code, corr) ==
    IF "NOCORR" \in F THEN 4 * code - TQ3_HALF_RANGE
    ELSE 4 * code - (TQ3_HALF_RANGE + TQ3_CORRECTION) + corr * 2 * TQ3_CORRECTION

Merge(f, g) == [x \in DOMAIN f \cup DOMAIN g |-> IF x \in DOMAIN f THEN f[x] ELSE g[x]]

(* AVX2: two halves of eight lanes per group of nibbles, blocks of eight    *)
(* dimensions for 3-bit codes.                                              *)
Halves(G) == G \X {0, 8} \X (0 .. 7)

compute_score_avx2(L) ==
    [x \in Halves(Groups) |->
        Term(x[1] * GROUP_DIM + x[2] + x[3], 4 * (Interleaved(L, x[1] * 8, x[2] + x[3]) - 8), x[1])]

compute_score_avx2_tq3(F, L) ==
    [x \in (0 .. D_C \div 8 - 1) \X (0 .. 7) |->
        Term(8 * x[1] + x[2],
             Biased(F, Window(L, 3 * x[1], 3 * x[2]), Bit(L, 8 * (TQ3_CODE_BYTES + x[1]) + x[2])),
             x[1] \div 2)]

(* permutevar8x32 takes the low three bits of an index.                     *)
Blend(nib) == IF nib > 7 THEN NF4_CODEBOOK[8 + (nib % 8) + 1] ELSE NF4_CODEBOOK[(nib % 8) + 1]

compute_score_avx2_nf4(L) ==
    [x \in Halves(Groups) |->
        Term(x[1] * GROUP_DIM + x[2] + x[3], Blend(Interleaved(L, x[1] * 8, x[2] + x[3])), x[1])]

compute_score_avx2_mixed(L) ==
    Merge(HeadLanes(L), [x \in Halves(LoGroups) |->
        Term(MIXED_HI_DIMS + x[1] * GROUP_DIM + x[2] + x[3],
             4 * (Interleaved(L, MIXED_HI_DIMS + x[1] * 8, x[2] + x[3]) - 8), 1 + x[1])])

compute_score_avx2_mix3(F, L) ==
    Merge(HeadLanes(L), [x \in (0 .. MIXED_LO_DIMS \div 8 - 1) \X (0 .. 7) |->
        Term(MIXED_HI_DIMS + 8 * x[1] + x[2],
             Biased(F, Window(L, MIX3_CODES_OFF + 3 * x[1], 3 * x[2]),
                    Bit(L, 8 * (MIX3_CORR_OFF + x[1]) + x[2])), 1 + x[1] \div 2)])

(* AVX-512: one group of sixteen lanes at a time; lanes 8..15 of a 3-bit    *)
(* group shift the window three bytes further on.                           *)
Lanes16(G) == G \X (0 .. 15)

compute_score_avx512(L) ==
    [x \in Lanes16(Groups) |->
        Term(x[1] * GROUP_DIM + x[2], 4 * (Interleaved(L, x[1] * 8, x[2]) - 8), x[1])]

compute_score_avx512_tq3(F, L) ==
    [x \in Lanes16(Groups) |->
        Term(x[1] * GROUP_DIM + x[2],
             Biased(F, Window(L, 6 * x[1] + (IF x[2] < 8 THEN 0 ELSE 3), 3 * (x[2] % 8)),
                    Bit(L, 8 * (TQ3_CODE_BYTES + 2 * x[1]) + x[2])), x[1])]

compute_score_avx512_nf4(L) ==
    [x \in Lanes16(Groups) |->
        Term(x[1] * GROUP_DIM + x[2], NF4_CODEBOOK[Interleaved(L, x[1] * 8, x[2]) + 1], x[1])]

compute_score_avx512_mixed(L) ==
    Merge(HeadLanes(L), [x \in Lanes16(LoGroups) |->
        Term(MIXED_HI_DIMS + x[1] * GROUP_DIM + x[2],
             4 * (Interleaved(L, MIXED_HI_DIMS + x[1] * 8, x[2]) - 8), 1 + x[1])])

compute_score_avx512_mix3(F, L) ==
    Merge(HeadLanes(L), [x \in Lanes16(LoGroups) |->
        Term(MIXED_HI_DIMS + x[1] * GROUP_DIM + x[2],
             Biased(F, Window(L, MIX3_CODES_OFF + 6 * x[1] + (IF x[2] < 8 THEN 0 ELSE 3),
                              3 * (x[2] % 8)),
                    Bit(L, 8 * (MIX3_CORR_OFF + 2 * x[1]) + x[2])), 1 + x[1])])

(* NEON: quads of four lanes. zip1 interleaves the first four bytes of a    *)
(* group, zip2 the last four; a quad is the low or the high half of a zip.  *)
Quads(G) == G \X {0, 4, 8, 12} \X (0 .. 3)
Zipped(L, o, quad, lane) ==
    LET k == IF quad < 8 THEN quad + lane ELSE quad - 8 + lane
    IN Nibble(L, 8 * (o + (IF quad < 8 THEN 0 ELSE 4) + k \div 2) + 4 * (k % 2))

compute_score_neon(L) ==
    [x \in Quads(Groups) |->
        Term(x[1] * GROUP_DIM + x[2] + x[3], 4 * (Zipped(L, x[1] * 8, x[2], x[3]) - 8), x[1])]

(* CODE_SH_LO, CODE_SH_HI, CORR_SH_LO and CORR_SH_HI, as right shifts.      *)
CODE_SH(quad, lane) == IF quad = 0 THEN 3 * lane ELSE 12 + 3 * lane
CORR_SH(quad, lane) == IF quad = 0 THEN lane ELSE 4 + lane
QuadBlocks(n) == (0 .. n \div 8 - 1) \X {0, 4} \X (0 .. 3)

compute_score_neon_tq3(F, L) ==
    [x \in QuadBlocks(D_C) |->
        Term(8 * x[1] + x[2] + x[3],
             Biased(F, Window(L, 3 * x[1], CODE_SH(x[2], x[3])),
                    Bit(L, 8 * (TQ3_CODE_BYTES + x[1]) + CORR_SH(x[2], x[3]))), x[1] \div 2)]

compute_score_neon_nf4(L) ==
    [x \in Quads(Groups) |->
        Term(x[1] * GROUP_DIM + x[2] + x[3], NF4_CODEBOOK[Zipped(L, x[1] * 8, x[2], x[3]) + 1], x[1])]

compute_score_neon_mixed(L) ==
    Merge(HeadLanes(L), [x \in Quads(LoGroups) |->
        Term(MIXED_HI_DIMS + x[1] * GROUP_DIM + x[2] + x[3],
             4 * (Zipped(L, MIXED_HI_DIMS + x[1] * 8, x[2], x[3]) - 8), 1 + x[1])])

compute_score_neon_mix3(F, L) ==
    Merge(HeadLanes(L), [x \in QuadBlocks(MIXED_LO_DIMS) |->
        Term(MIXED_HI_DIMS + 8 * x[1] + x[2] + x[3],
             Biased(F, Window(L, MIX3_CODES_OFF + 3 * x[1], CODE_SH(x[2], x[3])),
                    Bit(L, 8 * (MIX3_CORR_OFF + x[1]) + CORR_SH(x[2], x[3]))), 1 + x[1] \div 2)])

(* compute_score: the instruction set first, then the codec, in the order   *)
(* in which dequant_at asks.                                                *)
ByCodec(F, mixed, tq3, mix3, nf4, int4) ==
    IF "MIXED" \in F THEN mixed ELSE IF "TQ3" \in F THEN tq3
    ELSE IF "MIX3" \in F THEN mix3 ELSE IF "NF4" \in F THEN nf4 ELSE int4

compute_score(isa, F, L) ==
    CASE isa = "avx512" ->
           ByCodec(F, compute_score_avx512_mixed(L), compute_score_avx512_tq3(F, L),
                   compute_score_avx512_mix3(F, L), compute_score_avx512_nf4(L),
                   compute_score_avx512(L))
      [] isa = "avx2" ->
           ByCodec(F, compute_score_avx2_mixed(L), compute_score_avx2_tq3(F, L),
                   compute_score_avx2_mix3(F, L), compute_score_avx2_nf4(L),
                   compute_score_avx2(L))
      [] isa = "neon" ->
           ByCodec(F, compute_score_neon_mixed(L), compute_score_neon_tq3(F, L),
                   compute_score_neon_mix3(F, L), compute_score_neon_nf4(L),
                   compute_score_neon(L))

-----------------------------------------------------------------------------
(* The second scalar decoder (slhav2-vram, codec.rs)                        *)

ext_nibble(byte, hi) == IF hi THEN byte \div 16 ELSE byte % 16

vram_mixed(L, d) ==
    LET ld == d - MIXED_HI_DIMS
    IN IF d < MIXED_HI_DIMS THEN Term(d, 4 * (Byte(L, d) - 128), 0)
       ELSE IF d < MIXED_DIMS
       THEN Term(d, 4 * (ext_nibble(Byte(L, MIXED_HI_DIMS + ld \div 2), ld % 2 # 0) - 8),
                 1 + ld \div GROUP_DIM)
       ELSE NoTerm(d)

vram_tq3(F, L, d) ==
    Term(d, Corrected(F, ScalarCode(L, 0, 3 * d, TQ3_CODE_BYTES),
                      (Byte(L, TQ3_CODE_BYTES + d \div 8) \div 2^(d % 8)) % 2), d \div GROUP_DIM)

vram_mix3(F, L, d) ==
    LET ld == d - MIXED_HI_DIMS
    IN IF d < MIXED_HI_DIMS THEN Term(d, 4 * (Byte(L, d) - 128), 0)
       ELSE IF d >= MIXED_DIMS THEN NoTerm(d)
       ELSE Term(d, Corrected(F, ScalarCode(L, MIX3_CODES_OFF, 3 * ld, MIX3_CORR_OFF),
                              (Byte(L, MIX3_CORR_OFF + ld \div 8) \div 2^(ld % 8)) % 2),
                 1 + ld \div GROUP_DIM)

vram_int4(L, d) ==
    Term(d, 4 * (ext_nibble(Byte(L, d \div 2), d % 2 # 0) - 8), d \div GROUP_DIM)

vram_nf4(L, d) ==
    Term(d, NF4_CODEBOOK[ext_nibble(Byte(L, d \div 2), d % 2 # 0) + 1], d \div GROUP_DIM)

vram_dequant_at(F, L, d) ==
    ByCodec(F, vram_mixed(L, d), vram_tq3(F, L, d), vram_mix3(F, L, d), vram_nf4(L, d), vram_int4(L, d))

dot_coarse(F, L) == [d \in Dims |-> vram_dequant_at(F, L, d)]

(* The flag sets that select one supported codec.                           *)
validate_codec(F) ==
    /\ Cardinality(F \cap {"MIXED", "TQ3", "MIX3", "NF4"}) <= 1
    /\ "NOCORR" \in F => F \cap {"TQ3", "MIX3"} # {}

(* The ElasticXxx bridge's name of a tile's codec: flag bits that it does   *)
(* not know and sets that select no codec are refused; it asks for NF4 last.*)
codec_name(F) ==
    IF ~(F \subseteq TileFlags /\ validate_codec(F))
    THEN "refused"
    ELSE IF "MIXED" \in F THEN "mixed"
    ELSE IF "TQ3" \in F THEN IF "NOCORR" \in F THEN "tq3-nocorr" ELSE "tq3"
    ELSE IF "MIX3" \in F THEN IF "NOCORR" \in F THEN "mix3-nocorr" ELSE "mix3"
    ELSE IF "NF4" \in F THEN "nf4" ELSE "int4"

precision_for_codec(name) == IF name = "int4" THEN "Int4" ELSE "Custom"

(* fixed_width_precision_candidate: bits per scalar, 0 for no candidate.    *)
fixed_width_precision(F) == IF precision_for_codec(codec_name(F)) = "Int4" THEN 4 ELSE 0

(* The CUDA kernel (slha_score.cu): one thread per tile; its decoders take  *)
(* effective scales.                                                        *)
cuda_nibble(L, b, d) == IF d % 2 = 1 THEN Byte(L, b) \div 16 ELSE Byte(L, b) % 16

cuda_tq3(F, L, off, corr_off, d) ==
    LET byte == off + (3 * d) \div 8
        hi   == IF byte + 1 < corr_off THEN Byte(L, byte + 1) * 256 ELSE 0
        corr == (Byte(L, corr_off + d \div 8) \div 2^(d % 8)) % 2
    IN 4 * (((Byte(L, byte) + hi) \div 2^((3 * d) % 8)) % 8) - TQ3_HALF_RANGE
       + (IF "NOCORR" \in F THEN 0 ELSE IF corr = 1 THEN TQ3_CORRECTION ELSE -TQ3_CORRECTION)

cuda_head(L, d, body) ==
    IF d < MIXED_HI_DIMS THEN Term(d, 4 * (Byte(L, d) - 128), 0)
    ELSE IF d < MIXED_DIMS THEN Term(d, body, 1 + (d - MIXED_HI_DIMS) \div GROUP_DIM)
    ELSE NoTerm(d)

slha_score_kernel(F, L) ==
    [d \in Dims |->
        LET ld  == d - MIXED_HI_DIMS
            nib == cuda_nibble(L, d \div 2, d)
        IN IF "MIXED" \in F
           THEN cuda_head(L, d, 4 * (cuda_nibble(L, MIXED_HI_DIMS + ld \div 2, ld) - 8))
           ELSE IF "TQ3" \in F
           THEN Term(d, cuda_tq3(F, L, 0, TQ3_CODE_BYTES, d), d \div GROUP_DIM)
           ELSE IF "MIX3" \in F
           THEN cuda_head(L, d, cuda_tq3(F, L, MIX3_CODES_OFF, MIX3_CORR_OFF, ld))
           ELSE Term(d, IF "NF4" \in F THEN NF4_CODEBOOK[nib + 1] ELSE 4 * (nib - 8),
                     d \div GROUP_DIM)]

-----------------------------------------------------------------------------
(* Plain INT4 planes under one scale: the hybrid engine's kernels           *)
(* (hybrid.rs), complete vectors only, and the guard's decoder (safety.rs). *)

Level(q, nib) == Term(q, 4 * (nib - 8), 0)

vector_dot_product_avx512(L) ==
    [x \in Lanes16(0 .. D_C \div 16 - 1) |->
        Level(16 * x[1] + x[2], ext_nibble(Byte(L, 8 * x[1] + x[2] \div 2), x[2] % 2 = 1))]

vector_dot_product_neon(L) ==
    [x \in (0 .. D_C \div 4 - 1) \X (0 .. 3) |->
        Level(4 * x[1] + x[2], ext_nibble(Byte(L, 2 * x[1] + x[2] \div 2), x[2] % 2 = 1))]

vector_dot_product_scalar(L) ==
    [d \in Dims |-> Level(d, IF d % 2 = 0 THEN Byte(L, d \div 2) % 16 ELSE Byte(L, d \div 2) \div 16)]

(* D_C is a multiple of sixteen: with AVX-512 or NEON the vector kernel.    *)
vector_dot_product(isa, L) ==
    CASE isa = "avx512" -> vector_dot_product_avx512(L)
      [] isa = "neon" -> vector_dot_product_neon(L)
      [] OTHER -> vector_dot_product_scalar(L)

decode_nibbles(L) ==
    [x \in (0 .. LATENT_BYTES - 1) \X {0, 1} |-> Level(2 * x[1] + x[2], Nibble(L, 8 * x[1] + 4 * x[2]))]

-----------------------------------------------------------------------------
(* A tile is quantised, and then scored by any implementation.              *)

Values(in) == [d \in Dims |-> IF d = in.dim THEN in.value ELSE in.rest]

Quantized(F, in) ==
    LET v == Values(in)
    IN ByCodec(F, quantize_latent_mixed(v), quantize_latent_tq3(v), quantize_latent_mix3(v),
               quantize_latent_nf4(v), quantize_latent(v))

KernelInit ==
    /\ flags \in FlagSets
    /\ input \in Inputs(flags)
    /\ latent = Quantized(flags, input)
    /\ path = "none"

Isas == {"avx2", "avx512", "neon"}

(* The readers of plain INT4 planes, by instruction set.                    *)
Plain == {"hybrid avx512", "hybrid neon", "hybrid scalar", "guard"}

Paths == Isas \cup Plain \cup {"vram", "cuda"}

Score(p) ==
    /\ path = "none"
    /\ path' = p
    /\ UNCHANGED <<flags, input, latent>>

KernelNext ==
    \/ \E isa \in Isas : Score(isa)
    \/ validate_codec(flags) /\ Score("vram")
    \/ validate_codec(flags) /\ Score("cuda")
    \/ flags \subseteq {"WARM"} /\ \E p \in Plain : Score(p)

KernelSpec == KernelInit /\ [][KernelNext]_kernelVars

RangeOf(f) == {f[x] : x \in DOMAIN f}

Terms(p, F, L) ==
    CASE p \in Isas -> compute_score(p, F, L)
      [] p = "vram" -> dot_coarse(F, L)
      [] p = "cuda" -> slha_score_kernel(F, L)
      [] p = "hybrid avx512" -> vector_dot_product("avx512", L)
      [] p = "hybrid neon" -> vector_dot_product("neon", L)
      [] p = "hybrid scalar" -> vector_dot_product("avx2", L)
      [] p = "guard" -> decode_nibbles(L)

(* What the scalar reference says, under one scale for the plain readers.   *)
Reference(p, F, L) ==
    LET terms == compute_score_scalar(F, L)
    IN IF p \in Plain THEN {[t EXCEPT !.group = 0] : t \in RangeOf(terms)} ELSE RangeOf(terms)

-----------------------------------------------------------------------------
(* The 128 bytes of a tile                                                  *)

(* SciRustSlhaTile is repr(C): its fields in order, width and alignment. C  *)
(* callers hand the same bytes to the elastic cache and to the device.      *)
TileFields ==
    <<[name |-> "latent", width |-> LATENT_BYTES, align |-> 1],
      [name |-> "residual", width |-> 32, align |-> 8],
      [name |-> "scale", width |-> 4, align |-> 4],
      [name |-> "dynamic_lambda", width |-> 4, align |-> 4],
      [name |-> "residual_sigma", width |-> 4, align |-> 4],
      [name |-> "token_id", width |-> 4, align |-> 4],
      [name |-> "position", width |-> 4, align |-> 4],
      [name |-> "head_id", width |-> 2, align |-> 2],
      [name |-> "flags", width |-> 2, align |-> 2],
      [name |-> "group_scales", width |-> N_GROUPS, align |-> 1]>>

FieldStart[i \in DOMAIN TileFields] ==
    IF i = 1 THEN 0
    ELSE LET end == FieldStart[i - 1] + TileFields[i - 1].width
             a   == TileFields[i].align
         IN a * ((end + a - 1) \div a)

TILE_BYTES == 128
RESIDUAL_OFFSET == LATENT_BYTES

(* The struct as bytes: byte k of a field, 0 where no field lies.           *)
ZeroByte == <<"zero", 0>>
StructBytes ==
    [b \in 0 .. TILE_BYTES - 1 |->
        LET at == {i \in DOMAIN TileFields : b - FieldStart[i] \in 0 .. TileFields[i].width - 1}
        IN IF at = {} THEN ZeroByte
           ELSE LET i == CHOOSE i \in at : TRUE IN <<TileFields[i].name, b - FieldStart[i]>>]

(* Where SerializedTile's accessors find a field.                           *)
wire_offset ==
    [latent |-> 0, residual |-> RESIDUAL_OFFSET, scale |-> 96, dynamic_lambda |-> 100,
     residual_sigma |-> 104, token_id |-> 108, position |-> 112, head_id |-> 116, flags |-> 118,
     group_scales |-> 120]

(* Where the CUDA kernel finds the fields that it uses.                     *)
kernel_offset ==
    [latent |-> 0, residual |-> LATENT_BYTES, scale |-> 96, dynamic_lambda |-> 100,
     flags |-> 118, group_scales |-> 120]

(* The 96 bytes that are resident of a WARM tile, and back.                 *)
packed_bytes(w) == [b \in 0 .. TILE_BYTES - 33 |-> IF b < RESIDUAL_OFFSET THEN w[b] ELSE w[b + 32]]

unpacked_bytes(w) ==
    [b \in 0 .. TILE_BYTES - 1 |->
        IF b < RESIDUAL_OFFSET THEN w[b]
        ELSE IF b < RESIDUAL_OFFSET + 32 THEN ZeroByte ELSE w[b - 32]]

(* to_slha_tile, and the loads of the kernel: the bytes of every field.     *)
FieldsAt(offset, w) ==
    [f \in DOMAIN offset |->
        LET i == CHOOSE i \in DOMAIN TileFields : TileFields[i].name = f
        IN [k \in 0 .. TileFields[i].width - 1 |-> w[offset[f] + k]]]

(* The fields that a path reads of a tile, a WARM one from its packed form. *)
FieldsRead(p, F) ==
    LET w == IF "WARM" \in F THEN unpacked_bytes(packed_bytes(StructBytes)) ELSE StructBytes
    IN IF p = "cuda" THEN FieldsAt(kernel_offset, w) ELSE FieldsAt(wire_offset, w)

-----------------------------------------------------------------------------
(* Properties                                                               *)

TailTerms == {NoTerm(d) : d \in MIXED_DIMS .. D_C - 1}
Dropped(F) == ByCodec(F, TailTerms, {}, TailTerms, {}, {})

(* "All paths yield the same result up to float reassociation": whichever   *)
(* kernel the host dispatches to meets every dimension of the query once,   *)
(* with the level and the scale of the scalar reference, the dropped tail   *)
(* contributing nothing; and the paths that take 128 bytes find every field *)
(* where the struct has it, the residual being zero after a WARM residence. *)
PathsAgree ==
    /\ path \in Paths =>
          LET terms == Terms(path, flags, latent)
              all   == RangeOf(terms)
          IN /\ Cardinality(DOMAIN terms) = Cardinality(all)
             /\ all \cup Dropped(flags) = Reference(path, flags, latent)
    /\ path \in {"vram", "cuda"} =>
          LET read == FieldsRead(path, flags)
          IN \A f \in DOMAIN read : \A k \in DOMAIN read[f] :
                read[f][k] = IF f = "residual" /\ "WARM" \in flags THEN ZeroByte ELSE <<f, k>>

Abs(n) == IF n < 0 THEN -n ELSE n

(* The values that dimension d can decode to.                               *)
Grid(F, d) ==
    LET head == {4 * q : q \in -128 .. 127}
        int4 == {4 * q : q \in -8 .. 7}
        tq3  == {4 * c - TQ3_HALF_RANGE + s : c \in 0 .. 7,
                 s \in IF "NOCORR" \in F THEN {0} ELSE {-TQ3_CORRECTION, TQ3_CORRECTION}}
        Body(body) == IF d < MIXED_HI_DIMS THEN head ELSE IF d < MIXED_DIMS THEN body ELSE {0}
    IN ByCodec(F, Body(int4), tq3, Body(tq3), RangeOf(NF4_CODEBOOK), int4)

(* Packing loses nothing: every dimension decodes to the value of the       *)
(* codec's grid that is nearest to what was quantised there, its neighbours *)
(* in the same bytes untouched, codes that straddle two bytes included. The *)
(* bridge names every codec that is scored, and where it promises a width   *)
(* the grid of every dimension has that many bits in equal steps.           *)
NearestIsDecoded ==
    path = "none" /\ validate_codec(flags) =>
        /\ codec_name(flags) # "refused"
        /\ \A d \in Dims :
              LET t     == Values(input)[d]
                  level == dequant_at(flags, latent, d).level
                  grid  == Grid(flags, d)
                  width == fixed_width_precision(flags)
              IN /\ level \in grid
                 /\ \A x \in grid : Abs(level - t) <= Abs(x - t)
                 /\ width # 0 =>
                       grid = {4 * q : q \in -(2^(width - 1)) .. 2^(width - 1) - 1}

(* What is packed and what is read agree end to end: a score is taken over  *)
(* the nearest grid values of what was encoded, on every path.              *)
KernelsExact == PathsAgree /\ NearestIsDecoded

=============================================================================

----------------------------- MODULE KVFormats -----------------------------
(***************************************************************************)
(* How the packed KV caches (c/qwanto_turboquant.c) hold one token's row:  *)
(* the bytes of the q8 cache under a scale per block, the q4 blocks of 16  *)
(* values in 7 bytes at alternately 4 and 3 bits, and the bit strings of   *)
(* the paper cache.  A row is Heads * HeadDim channels; *)
(* keys and values are packed alike, so one row stands for both.  Half     *)
(* precision of a block's scale and zero point is not modelled, nor are    *)
(* the rotation and the sketch matrix of the paper cache: Vector gives     *)
(* what they make of a head.                                               *)
(***************************************************************************)
EXTENDS Integers, Sequences, FiniteSetsExt

CONSTANTS Heads, HeadDim,   \* cfg.kv_heads and its head_dim
          Q8Group,          \* channels under one scale of the q8 cache (64)
          SubChunks,        \* packed chunks of 16 values in a q4 block (4)
          MseBits,          \* mse_bits: bits of a code of the paper cache (3)
          Channels(_),      \* a row's channels, integers
          Vector(_, _)      \* what the paper quantizer finds in a head: [norm,
                            \* codes, gamma, signs]

ASSUME FormatAssumption ==
    /\ Heads \in Nat \ {0} /\ HeadDim \in Nat \ {0}
    /\ Q8Group \in Nat \ {0} /\ SubChunks \in Nat \ {0} /\ MseBits \in 1 .. 4

RowWidth == Heads * HeadDim

----------------------------------------------------------------------------
\* The q8 cache: a row's codes at token * RowWidth, its scales at token *
\* Q8Blocks.
Q8Blocks == (RowWidth + Q8Group - 1) \div Q8Group

\* 127 times the scale of a block; a block of zeros has the scale 1.
Q8Scale(values) ==
    LET top == Max({IF values[k] < 0 THEN -values[k] ELSE values[k] : k \in DOMAIN values})
    IN IF top = 0 THEN 127 ELSE top

Q8Values(values, b) == SubSeq(values, b * Q8Group + 1, Min({Len(values), (b + 1) * Q8Group}))
Q8Round(value, scale) == (2 * value * 127 + scale) \div (2 * scale)

\* The last block is filled up with zeros, past the end of the row.
Q8Vector(values) ==
    LET scale(b) == Q8Scale(Q8Values(values, b))
    IN [scales |-> [b \in 0 .. Q8Blocks - 1 |-> scale(b)],
        codes |-> [c \in 0 .. Q8Blocks * Q8Group - 1 |->
                       IF c < Len(values) THEN Q8Round(values[c + 1], scale(c \div Q8Group))
                       ELSE 0]]

Q8Cache(tokens) ==
    [count |-> 0, codes |-> [a \in 0 .. tokens * RowWidth - 1 |-> 0],
     scales |-> [a \in 0 .. tokens * Q8Blocks - 1 |-> 0]]

Overlaid(old, new, from) ==
    [a \in DOMAIN old |-> IF a - from \in DOMAIN new THEN new[a - from] ELSE old[a]]

\* The scales of a row are put down where the codes are.
Q8AppendScalesByCode(cache, row) ==
    LET new == Q8Vector(Channels(row)) IN
    [count |-> cache.count + 1,
     codes |-> Overlaid(cache.codes, new.codes, cache.count * RowWidth),
     scales |-> Overlaid(cache.scales, new.scales, (cache.count * RowWidth) \div Q8Group)]

\* qwn_q8_cache_append; what lies past the cache is not kept.
Q8Append(cache, row) ==
    LET new == Q8Vector(Channels(row)) IN
    [count |-> cache.count + 1,
     codes |-> Overlaid(cache.codes, new.codes, cache.count * RowWidth),
     scales |-> Overlaid(cache.scales, new.scales, cache.count * Q8Blocks)]

\* qwn_cuda_abi_kv_cache_append: a thread block per block of channels, and
\* the places past the row's end are left alone.
Q8DeviceAppend(cache, row) ==
    LET new == Q8Vector(Channels(row)) IN
    [count |-> cache.count + 1,
     codes |-> Overlaid(cache.codes, [c \in 0 .. RowWidth - 1 |-> new.codes[c]],
                        cache.count * RowWidth),
     scales |-> Overlaid(cache.scales, new.scales, cache.count * Q8Blocks)]

\* What dot_key and accum_value make of token t is within half a step of row.
Q8FoundAt(cache, t, row) ==
    \A h \in 0 .. Heads - 1, i \in 0 .. HeadDim - 1 :
        LET c == h * HeadDim + i
            scale == cache.scales[t * Q8Blocks + c \div Q8Group]
            off == cache.codes[t * RowWidth + c] * scale - Channels(row)[c + 1] * 127
        IN 2 * off <= scale /\ -2 * off <= scale

----------------------------------------------------------------------------
\* The q4 cache.
Group == 16 * SubChunks
BlockCount(channels) == (channels + Group - 1) \div Group
BlocksPerRow == BlockCount(RowWidth)
BlocksPerHead == BlockCount(HeadDim)

\* Sixteen codes are eight pairs of 4 + 3 bits in seven bytes.
Pair(codes, i) == (codes[2 * i + 1] % 16) + 16 * (codes[2 * i + 2] % 8)

\* The next pair starts a bit too low.
PackLow(codes) ==
    [i \in 0 .. 6 |-> (Pair(codes, i) \div 2^i + Pair(codes, i + 1) * 2^(6 - i)) % 256]

Pack(codes) ==
    [i \in 0 .. 6 |-> (Pair(codes, i) \div 2^i + Pair(codes, i + 1) * 2^(7 - i)) % 256]

Unpack(bytes) ==
    LET pair(i) == ((IF i = 0 THEN 0 ELSE bytes[i - 1] \div 2^(8 - i))
                    + (IF i = 7 THEN 0 ELSE bytes[i] * 2^i)) % 128
    IN [k \in 1 .. 16 |-> LET p == pair((k - 1) \div 2) IN
                          IF k % 2 = 1 THEN p % 16 ELSE p \div 16]

\* The first, third ... value of a block has 4 bits, the others 3.
Steps(k) == IF k % 2 = 1 THEN 15 ELSE 7

\* One block of qwn_turboquant_quantize_token; values that are all equal, and
\* the places past the last value, have code 0.
Quantized(values) ==
    LET zero == Min({values[k] : k \in DOMAIN values})
        scale == Max({values[k] : k \in DOMAIN values}) - zero
        code(k) == IF k > Len(values) \/ scale = 0 THEN 0
                   ELSE (2 * (values[k] - zero) * Steps(k) + scale) \div (2 * scale)
    IN [scale |-> scale, zero |-> zero,
        packed |-> [c \in 1 .. SubChunks |-> Pack([k \in 1 .. 16 |-> code(16 * (c - 1) + k)])]]

\* A block of memory that qwn_turboquant_init cleared.
ZeroBlock == [scale |-> 0, zero |-> 0, packed |-> [c \in 1 .. SubChunks |-> [i \in 0 .. 6 |-> 0]]]

BlockValues(values, b) == SubSeq(values, b * Group + 1, Min({Len(values), (b + 1) * Group}))
QuantizeToken(row) ==
    [b \in 0 .. BlocksPerRow - 1 |-> Quantized(BlockValues(Channels(row), b))]

\* The factors of _mm256_set_ps, whose first argument is the last lane.
LanesForward == <<15, 7, 15, 7, 15, 7, 15, 7>>
LaneSteps == <<7, 15, 7, 15, 7, 15, 7, 15>>

\* What the kernels divide the k-th of n codes by: eight or sixteen at a time
\* as long as there are as many, the rest one by one.
Avx2Steps(k, n) == IF k <= 8 * (n \div 8) THEN LaneSteps[8 - ((k - 1) % 8)] ELSE Steps(k)
Avx512Steps(k, n) ==
    IF k <= 16 * (n \div 16) THEN IF ((k - 1) % 16) % 2 = 1 THEN 7 ELSE 15
    ELSE Steps(k)

\* The processor's features select one of them (VNNI runs the AVX2 one).
Kernels == {"scalar", "avx2", "avx512"}
Divisor(kernel, k, n) ==
    IF kernel = "avx2" THEN Avx2Steps(k, n)
    ELSE IF kernel = "avx512" THEN Avx512Steps(k, n) ELSE Steps(k)

\* What the dot_key and accum_value of a kernel make of a block is, channel by
\* channel, within half a step of these values.
ReadsAs(kernel, block, values) ==
    LET codes(k) == Unpack(block.packed[((k - 1) \div 16) + 1])[((k - 1) % 16) + 1]
        off(k) == codes(k) * block.scale - (values[k] - block.zero) * Divisor(kernel, k, Len(values))
    IN \A k \in DOMAIN values : 2 * off(k) <= block.scale /\ -2 * off(k) <= block.scale

HeadValues(row, h) == SubSeq(Channels(row), h * HeadDim + 1, (h + 1) * HeadDim)

\* qwn_turboquant_attention_head finds this row at token t of a packed cache,
\* whichever kernel the processor's features select.
FoundAt(packed, t, row) ==
    \A h \in 0 .. Heads - 1, b \in 0 .. BlocksPerHead - 1 :
        LET at == t * BlocksPerRow + h * BlocksPerHead + b
        IN /\ at \in DOMAIN packed
           /\ \A kernel \in Kernels : ReadsAs(kernel, packed[at], BlockValues(HeadValues(row, h), b))

----------------------------------------------------------------------------
\* The paper cache: a head's codes, then its signs, each from a byte's start.
Bytes(bits) == 8 * ((bits + 7) \div 8)
SignBase == Bytes(HeadDim * MseBits)
Bit(value, b) == (value \div 2^b) % 2

\* qwn_turboquant_paper_quantize: a zero vector has neither codes nor signs,
\* and one its codes give exactly has no signs.
PaperQuantized(v) ==
    LET coded(a) == v.norm # 0 /\ a < HeadDim * MseBits
        signed(a) == v.norm # 0 /\ v.gamma # 0 /\ a >= SignBase /\ a - SignBase < HeadDim
    IN [norm |-> v.norm, gamma |-> IF v.norm = 0 THEN 0 ELSE v.gamma,
        bits |-> [a \in 0 .. SignBase + Bytes(HeadDim) - 1 |->
                      IF coded(a) THEN Bit(v.codes[a \div MseBits + 1], a % MseBits)
                      ELSE IF signed(a) THEN v.signs[a - SignBase + 1] ELSE 0]]

PaperToken(row) == [h \in 0 .. Heads - 1 |-> PaperQuantized(Vector(row, h))]

\* tq_paper_get_bits: the bits from the lowest up.
GetBits(bits, from) ==
    LET value[n \in 0 .. MseBits] ==
            IF n = 0 THEN 0 ELSE value[n - 1] + bits[from + n - 1] * 2^(n - 1)
    IN value[MseBits]

\* dot_key and accum_value: codes count when the norm does, signs when both do.
PaperReadsAs(token, row) ==
    \A h \in 0 .. Heads - 1 :
        LET v == Vector(row, h)
            p == token[h] IN
        /\ p.norm = v.norm
        /\ p.norm # 0 =>
            /\ \A i \in 1 .. HeadDim : GetBits(p.bits, (i - 1) * MseBits) = v.codes[i]
            /\ p.gamma = v.gamma
            /\ p.gamma # 0 => \A i \in 1 .. HeadDim : p.bits[SignBase + i - 1] = v.signs[i]
============================================================================

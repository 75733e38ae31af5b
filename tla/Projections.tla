---------------------------- MODULE Projections ----------------------------
(***************************************************************************)
(* How the native decoder multiplies a row of activations with a weight     *)
(* matrix (c/qwanto_kernels.c, and on the device                            *)
(* c/cuda/qwn_hypervsq2_cuda_abi.cu): which kernel a processor and its      *)
(* settings get, the activations quantised into a scratch buffer that every *)
(* projection of the process shares, and the kernels, which take the bytes  *)
(* of the matrix eight or 32 at a time and the rest one by one.  Sums of    *)
(* products are kept exact; the rounding of floating point is left out.     *)
(***************************************************************************)
EXTENDS Weights

CONSTANTS Matrices,     \* [quant, rows]: rows of one width
          Inputs(_),    \* activations of a width
          PaddedK,      \* scratch->padded_k
          MaxCalls      \* bound of the model: projections of a process

ASSUME ProjectionsAssumption ==
  /\ PaddedK \in Nat /\ PaddedK % Elems("hyper_vsq2") = 0
  /\ \A m \in Matrices :
       /\ m.quant \in Quants
       /\ \A r \in DOMAIN m.rows :
            /\ m.rows[r] \in Seq(Int) /\ m.rows[r] # <<>> /\ Len(m.rows[r]) = Len(m.rows[1])
            /\ \A x \in Inputs(Len(m.rows[r])) : x \in Seq(Int) /\ Len(x) = Len(m.rows[r])
  /\ MaxCalls \in Nat

VARIABLES kernel,    \* the HyperVSQ-2 kernel that dispatch comes to
          scratch,   \* q8, activation_sums and whether these are enabled
          answer,    \* the last projection: of what, and what it came to
          calls

projectionVars == <<kernel, scratch, answer, calls>>

\* The file, as the converter wrote it, and the rows that its codes stand for.
Stored ==
  [m \in Matrices |-> [r \in DOMAIN m.rows |-> QuantizeRow(m.quant, m.rows[r])]]
ChosenRows ==
  [m \in Matrices |->
     [r \in DOMAIN m.rows |-> [k \in 0 .. Len(m.rows[r]) - 1 |-> Chosen(m.quant, m.rows[r], k)]]]

\* qwn_init_cpu_features: an order to use kernels the processor lacks falls
\* back; a scalar order goes before the others.
Forced(cpu, order) ==
  IF order = "vnni" THEN IF cpu.vnni THEN "vnni" ELSE IF cpu.avx2 THEN "avx2" ELSE "scalar"
  ELSE IF order = "avx2" THEN IF cpu.avx2 THEN "avx2" ELSE "scalar"
  ELSE order

\* qwn_matmul_hypervsq2_f32: forced first, if the build has it; else the best.
\* The delayed reduction replaces the VNNI kernel, by rows if so asked.
Dispatch(cpu, forced, delayed, rowBlock) ==
  LET vnni == cpu.vnni /\ cpu.built
      avx2 == cpu.avx2 /\ cpu.built
      base == IF forced = "scalar" THEN "scalar"
              ELSE IF forced = "avx2" /\ avx2 THEN "avx2"
              ELSE IF vnni THEN "vnni" ELSE IF avx2 THEN "avx2" ELSE "scalar"
  IN IF base # "vnni" \/ ~delayed THEN base ELSE IF rowBlock > 1 THEN "rows" ELSE "delayed"

Cpus == {cpu \in [avx2 : BOOLEAN, vnni : BOOLEAN, built : BOOLEAN] : cpu.vnni => cpu.avx2}
\* The kernels that some processor and some settings come to.
Reached ==
  {Dispatch(cpu, Forced(cpu, order), delayed, rowBlock) :
     cpu \in Cpus, order \in {"none", "scalar", "avx2", "vnni"},
     delayed \in BOOLEAN, rowBlock \in {1, 2, 4, 8}}
SumBlocks == PaddedK \div Lane
NoAnswer == [matrix |-> [quant |-> "q4_0", rows |-> <<>>], x |-> <<>>, y |-> <<>>]

\* qwn_scratch_init clears the buffer.
ProjectionsInit ==
  /\ kernel \in Reached
  /\ \E summed \in BOOLEAN :
       scratch = [q8 |-> [k \in 0 .. PaddedK - 1 |-> 0],
                  sums |-> [b \in 0 .. SumBlocks - 1 |-> 0], summed |-> summed]
  /\ answer = NoAnswer /\ calls = 0

----------------------------------------------------------------------------
\* The n values of a from `from' on.
Span(a, from, n) == [i \in 0 .. n - 1 |-> a[from + i]]

\* quantize_tokens, for one token: what lies past K is cleared, and the sum of
\* every lane kept.
QuantizedInput(x) ==
  LET top == Max({Magnitude(x[k]) : k \in DOMAIN x})
      scale == IF top = 0 THEN 127 ELSE top
  IN [k \in 0 .. PaddedK - 1 |-> IF k < Len(x) THEN Clip(Rounded(x[k + 1] * 127, scale), -127, 127) ELSE 0]

\* The sums are those of the first token that was quantised.
PreparedOnce(x) ==
  LET q8 == QuantizedInput(x) IN
  [scratch EXCEPT !.q8 = q8,
     !.sums = IF scratch.summed /\ calls = 0
              THEN [b \in 0 .. SumBlocks - 1 |-> Total(Span(q8, b * Lane, Lane), Lane)] ELSE @]

Prepared(x) ==
  LET q8 == QuantizedInput(x) IN
  [scratch EXCEPT !.q8 = q8,
     !.sums = IF scratch.summed
              THEN [b \in 0 .. SumBlocks - 1 |-> Total(Span(q8, b * Lane, Lane), Lane)] ELSE @]

\* _mm256_maddubs_epi16: pairs of a lane's products in 16 bits.
Saturated(n) == Clip(n, -32768, 32767)
Pairs(term) ==
  LET half == Lane \div 2
  IN Total([j \in 0 .. half - 1 |-> Saturated(term[2 * j] + term[2 * j + 1])], half)

\* dot_q4_q8_block: a whole block in vectors, from which eight times the sum
\* of the activations is taken; a part of one value by value.
Q4Dot(block, a, valid, vectors) ==
  LET unsigned == [i \in 0 .. valid - 1 |-> (CodeAt("q4_0", block, i) + 8) * a[i]]
      signed == [i \in 0 .. valid - 1 |-> CodeAt("q4_0", block, i) * a[i]]
  IN block.base * IF vectors /\ valid = Lane
                  THEN Pairs(unsigned) - 8 * Pairs(a) ELSE Total(signed, valid)

\* One lane of a HyperVSQ-2 block: a full one in vectors, where the kernel has
\* them, and a part of one value by value; the activations' sum goes with the
\* middle, from the scratch buffer or added up again.
LaneDot(kern, block, l, a, cap, sum) ==
  LET code(i) == CodeAt("hyper_vsq2", block, l * Lane + i)
      unsigned == [i \in 0 .. cap - 1 |-> (code(i) + 1) * a[i]]
      signed == [i \in 0 .. cap - 1 |-> code(i) * a[i]]
      dot == IF cap < Lane \/ kern \in {"scalar", "cuda"} THEN Total(signed, cap)
             ELSE IF kern = "avx2" THEN Pairs(unsigned) - Pairs(a)
             ELSE Total(unsigned, cap) - Total(a, cap)
  IN dot * block.base * TimesAt("hyper_vsq2", block, l) + sum * block.middle * Units("hyper_vsq2")

\* How many lanes of a block reach into the row's width.
LanesOf(width, b) == Min({8, (width - b * Elems("hyper_vsq2") + Lane - 1) \div Lane})

\* Every lane of a block under the multiplier of the block's first.
HyperDotMerged(kern, blocks, width, s) ==
  LET dot(b, l) ==
        LET from == b * Elems("hyper_vsq2") + l * Lane
            cap == Min({Lane, width - from})
            a == Span(s.q8, from, Lane)
        IN LaneDot(kern, [blocks[b] EXCEPT !.times = [j \in DOMAIN @ |-> @[0]]], l, a, cap,
                   Total(a, cap))
      block == [b \in DOMAIN blocks |->
                  LET n == LanesOf(width, b) IN Total([l \in 0 .. n - 1 |-> dot(b, l)], n)]
  IN Total(block, BlocksOf("hyper_vsq2", width))

\* qwn_gemv_hypervsq2_*: the dot product of one row.
HyperDot(kern, blocks, width, s) ==
  LET dot(b, l) ==
        LET from == b * Elems("hyper_vsq2") + l * Lane
            cap == Min({Lane, width - from})
            a == Span(s.q8, from, Lane)
        IN LaneDot(kern, blocks[b], l, a, cap,
                   IF s.summed /\ kern # "cuda" THEN s.sums[b * 8 + l] ELSE Total(a, cap))
      block == [b \in DOMAIN blocks |->
                  LET n == LanesOf(width, b) IN Total([l \in 0 .. n - 1 |-> dot(b, l)], n)]
  IN Total(block, BlocksOf("hyper_vsq2", width))

Q4Row(blocks, width, s, vectors) ==
  LET dot == [b \in DOMAIN blocks |->
                Q4Dot(blocks[b], Span(s.q8, b * Lane, Lane), Min({Lane, width - b * Lane}), vectors)]
  IN Total(dot, BlocksOf("q4_0", width))

\* qwn_matmul_packed_f32, and the Q8_0 loop of qwn_matmul_f32: the activations
\* as they are.
PlainRow(q, blocks, x) ==
  Total([k \in 0 .. Len(x) - 1 |-> x[k + 1] * PackedValue(q, blocks, k)], Len(x))

----------------------------------------------------------------------------
Called(m, x, y) ==
  /\ answer' = [matrix |-> m, x |-> x, y |-> y]
  /\ calls' = calls + 1
  /\ UNCHANGED kernel

Width(m) == Len(m.rows[1])
Calling(m) == m \in Matrices /\ calls < MaxCalls

\* qwn_matmul_hypervsq2_f32: the threads share the rows out; the kernel by rows
\* takes whole blocks only.
HyperMatmul(m, x) ==
  /\ Calling(m) /\ m.quant = "hyper_vsq2" /\ Width(m) <= PaddedK
  /\ scratch' = Prepared(x)
  /\ LET kern == IF kernel = "rows" /\ Width(m) % Elems("hyper_vsq2") # 0 THEN "delayed" ELSE kernel
     IN Called(m, scratch'.q8, [r \in DOMAIN m.rows |-> HyperDot(kern, Stored[m][r], Width(m), scratch')])

\* The same projection on the device, from the same scratch buffer.
DeviceMatmul(m, x) ==
  /\ Calling(m) /\ m.quant = "hyper_vsq2" /\ Width(m) <= PaddedK
  /\ scratch' = Prepared(x)
  /\ Called(m, scratch'.q8, [r \in DOMAIN m.rows |-> HyperDot("cuda", Stored[m][r], Width(m), scratch')])

\* qwn_matmul_q4_0_f32; the vectors are a matter of the build.
Q4Matmul(m, x) ==
  /\ Calling(m) /\ m.quant = "q4_0" /\ Width(m) <= PaddedK
  /\ scratch' = Prepared(x)
  /\ \E vectors \in BOOLEAN :
       Called(m, scratch'.q8, [r \in DOMAIN m.rows |-> Q4Row(Stored[m][r], Width(m), scratch', vectors)])

PackedMatmul(m, x) ==
  /\ Calling(m) /\ m.quant \notin {"hyper_vsq2", "q4_0"}
  /\ Called(m, [k \in 0 .. Len(x) - 1 |-> x[k + 1]],
            [r \in DOMAIN m.rows |-> PlainRow(m.quant, Stored[m][r], x)])
  /\ UNCHANGED scratch

\* qwn_row_f32, of a token's embedding: no activations.
RowRead(m) ==
  /\ Calling(m)
  /\ Called(m, <<>>, [r \in DOMAIN m.rows |-> RowValues(m.quant, Stored[m][r], Width(m))])
  /\ UNCHANGED scratch

ProjectionsNext ==
  \E m \in Matrices :
    \/ \E x \in Inputs(Width(m)) :
         HyperMatmul(m, x) \/ DeviceMatmul(m, x) \/ Q4Matmul(m, x) \/ PackedMatmul(m, x)
    \/ RowRead(m)

ProjectionsSpec == ProjectionsInit /\ [][ProjectionsNext]_projectionVars
----------------------------------------------------------------------------
\* Whatever format a matrix was converted to, whichever kernel takes it, at
\* every width and whatever was projected before through the same scratch
\* buffer, each output is the product of the row the converter chose with the
\* activations, nothing left out, taken twice or scaled by another lane's
\* multiplier; and a row read by itself is the one the converter chose
\* (c/qwanto_kernels.c:661-1218, c/tools/qwn_convert.py:161-485).
ProductsAreTrue ==
  LET m == answer.matrix
      chosen(r) == ChosenRows[m][r]
  IN answer # NoAnswer =>
       \A r \in DOMAIN m.rows :
         answer.y[r] = IF answer.x = <<>> THEN chosen(r)
                       ELSE Total([k \in 0 .. Width(m) - 1 |-> answer.x[k] * chosen(r)[k]], Width(m))
============================================================================

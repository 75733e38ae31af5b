------------------------------ MODULE Weights ------------------------------
(***************************************************************************)
(* The quantised rows of a weight matrix: how c/tools/qwn_convert.py       *)
(* writes them, and the two readers of c/qwanto_kernels.c, qwn_row_f32 for  *)
(* a whole row and qwn_packed_value for one weight.  A block holds a base   *)
(* scale, for some formats the middle of its values, a multiplier of the    *)
(* base for every Lane values, and the codes.  Values are integers and are  *)
(* counted here in units in which the base's fractions are whole; that the  *)
(* base and the middle are kept in half precision is left out.             *)
(***************************************************************************)
EXTENDS Integers, Sequences, FiniteSetsExt

CONSTANT Lane      \* values under one multiplier (32)

ASSUME WeightsAssumption == Lane \in Nat \ {0} /\ Lane % 4 = 0

\* lanes of a block; the codes' range and how many share a byte; the codes
\* that the base is divided into; what a multiplier of one is written as
\* (none: 1); and whether the middle is taken off the values.
Format ==
  [q4_0 |-> [lanes |-> 1, low |-> -8, high |-> 7, perByte |-> 2, steps |-> 7, one |-> 1,
             centred |-> FALSE],
   q8_0 |-> [lanes |-> 1, low |-> -127, high |-> 127, perByte |-> 1, steps |-> 127, one |-> 1,
             centred |-> FALSE],
   vsq |-> [lanes |-> 2, low |-> -8, high |-> 7, perByte |-> 2, steps |-> 7, one |-> 128,
            centred |-> FALSE],
   vsq_ultra |-> [lanes |-> 4, low |-> -8, high |-> 7, perByte |-> 2, steps |-> 7, one |-> 8,
                  centred |-> TRUE],
   hyper_vsq |-> [lanes |-> 8, low |-> -8, high |-> 7, perByte |-> 2, steps |-> 7, one |-> 8,
                  centred |-> TRUE],
   hyper_vsq2 |-> [lanes |-> 8, low |-> -1, high |-> 2, perByte |-> 4, steps |-> 2, one |-> 8,
                   centred |-> TRUE]]
Quants == DOMAIN Format

Elems(q) == Lane * Format[q].lanes
BlocksOf(q, width) == (width + Elems(q) - 1) \div Elems(q)
CodeBits(q) == 8 \div Format[q].perByte
\* The base and the middle, in units of a weight.
Units(q) == Format[q].steps * Format[q].one

Magnitude(v) == IF v < 0 THEN -v ELSE v
\* n / d to the nearest integer, to the even one of two (np.round, lrintf).
Rounded(n, d) ==
  LET up == (2 * n + d) \div (2 * d) IN
  IF (2 * n + d) % (2 * d) = 0 /\ up % 2 = 1 THEN up - 1 ELSE up
Clip(v, low, high) == IF v < low THEN low ELSE IF v > high THEN high ELSE v

\* The sum of term[0] to term[n - 1], added up in that order.
Total(term, n) ==
  LET sum[k \in 0 .. n] == IF k = 0 THEN 0 ELSE sum[k - 1] + term[k - 1]
  IN sum[n]

----------------------------------------------------------------------------
\* Block b of a row, filled up with zeros.
Block(q, row, b) ==
  [i \in 0 .. Elems(q) - 1 |-> LET k == b * Elems(q) + i + 1 IN IF k <= Len(row) THEN row[k] ELSE 0]

\* Its base, middle, multipliers and codes.  A block of equal values has base
\* one.  All is doubled, since the middle is half a sum.
Quantize(q, values) ==
  LET f == Format[q]
      all == {values[i] : i \in DOMAIN values}
      middle == IF f.centred THEN Min(all) + Max(all) ELSE 0
      off == [i \in DOMAIN values |-> 2 * values[i] - middle]
      top(l) == Max({Magnitude(off[i]) : i \in l * Lane .. l * Lane + Lane - 1})
      largest == Max({top(l) : l \in 0 .. f.lanes - 1})
      base == IF largest = 0 THEN 2 * f.steps ELSE largest
      times == [l \in 0 .. f.lanes - 1 |-> Clip(Rounded(top(l) * f.one, base), 1, f.one)]
  IN [base |-> base, middle |-> middle, times |-> times,
      codes |-> [i \in DOMAIN values |->
          Clip(Rounded(off[i] * Units(q), base * times[i \div Lane]), f.low, f.high)]]

\* The weight the codes stand for.
Chosen(q, row, k) ==
  LET block == Quantize(q, Block(q, row, k \div Elems(q)))
      i == k % Elems(q)
  IN block.codes[i] * block.base * block.times[i \div Lane] + block.middle * Units(q)

\* What a code is in its place in a byte: unsigned, but a whole byte is signed.
Unsigned(q, code) == (IF q = "q8_0" THEN code ELSE code - Format[q].low) % 2^CodeBits(q)

\* The first code of a byte is put in its high bits.
PackedFirstHigh(q, codes) ==
  LET n == Format[q].perByte IN
  [j \in 0 .. (Elems(q) \div n) - 1 |->
     Total([i \in 0 .. n - 1 |-> Unsigned(q, codes[n * j + i]) * 2^(CodeBits(q) * (n - 1 - i))], n)]

\* The codes of a byte from its low bits up.
Packed(q, codes) ==
  LET n == Format[q].perByte IN
  [j \in 0 .. (Elems(q) \div n) - 1 |->
     Total([i \in 0 .. n - 1 |-> Unsigned(q, codes[n * j + i]) * 2^(CodeBits(q) * i)], n)]

\* Multipliers of 1 to 8 are nibbles, the even lane's low; of up to 128, bytes.
PackedTimes(q, times) ==
  IF Format[q].one = 8
  THEN [j \in 0 .. (Format[q].lanes \div 2) - 1 |-> times[2 * j] + 16 * times[2 * j + 1]]
  ELSE times

QuantizeRow(q, row) ==
  [b \in 0 .. BlocksOf(q, Len(row)) - 1 |->
     LET block == Quantize(q, Block(q, row, b)) IN
     [base |-> block.base, middle |-> block.middle,
      times |-> PackedTimes(q, block.times), codes |-> Packed(q, block.codes)]]

----------------------------------------------------------------------------
\* The code of value i of a block.
CodeAt(q, block, i) ==
  LET n == Format[q].perByte
      u == (block.codes[i \div n] \div 2^(CodeBits(q) * (i % n))) % 2^CodeBits(q)
  IN IF q = "q8_0" THEN IF u > 127 THEN u - 256 ELSE u ELSE u + Format[q].low

TimesAt(q, block, l) ==
  IF Format[q].one # 8 THEN block.times[l]
  ELSE IF l % 2 = 1 THEN block.times[l \div 2] \div 16 ELSE block.times[l \div 2] % 16

\* qwn_packed_value
PackedValue(q, blocks, k) ==
  LET block == blocks[k \div Elems(q)]
      i == k % Elems(q)
  IN CodeAt(q, block, i) * block.base * TimesAt(q, block, i \div Lane)
     + block.middle * Units(q)

\* qwn_row_f32: lane by lane, up to the row's width.
RowValues(q, blocks, width) ==
  LET value(b, l, i) ==
        CodeAt(q, blocks[b], l * Lane + i) * blocks[b].base * TimesAt(q, blocks[b], l)
        + blocks[b].middle * Units(q)
  IN [k \in 0 .. width - 1 |->
        value(k \div Elems(q), (k % Elems(q)) \div Lane, k % Lane)]
============================================================================

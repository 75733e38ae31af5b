------------------------------ MODULE MCNative ------------------------------
(* Caches: a block of 2 rows, 5 positions.  Speculation: three tokens, 2 the  *)
(* end of the sequence; weights that look at the last token and the length,   *)
(* and one that leaves a choice.  Projections: a block of 32 values in eight  *)
(* lanes, and rows that end within the first block, with it, and within the    *)
(* second.                                                                    *)
EXTENDS NativeDecoder

MCRequests == {Decoder}
MCRows == (1 .. MaxRuns) \X (0 .. MaxContext - 1)
MCBlocks == (MaxContext + BlockSize - 1) \div BlockSize

\* All attention; recurrent between attention; routed experts in the layer
\* where the low level would stop, and one with nothing but an FFN; and two
\* files that do not open.
Dense == {"qkv", "o", "ffn"}
MCFiles == {[l \in LayerIds |-> Dense],
            [l \in LayerIds |-> IF l = 1 THEN {"gdn", "ffn"} ELSE Dense],
            [l \in LayerIds |-> IF l = 0 THEN {"ffn"} ELSE {"qkv", "o", "experts"}],
            [l \in LayerIds |-> IF l = 2 THEN {"gdn"} ELSE Dense],
            [l \in LayerIds |-> IF l = 2 THEN {"mixer", "ffn"} ELSE Dense]}

\* Channels from -50 to 55 in every head, so that no two rows are within half
\* a step of each other.
Number(row) == (row[1] - 1) * MaxContext + row[2]
MCChannels(row) ==
  [c \in 1 .. Heads * HeadDim |->
     LET k == (c - 1) % HeadDim IN
     IF k = 0 THEN -50 ELSE IF k = 1 THEN 55
     ELSE ((Number(row) * 37 + c * 11) % 106) - 50]
MCVector(row, h) ==
  [norm |-> IF Number(row) = 3 /\ h = 1 THEN 0 ELSE 1, gamma |-> (Number(row) + h) % 2,
   codes |-> [i \in 1 .. HeadDim |-> IF i = 2 THEN Number(row) \div 8 ELSE (Number(row) * i + h) % 8],
   signs |-> [i \in 1 .. HeadDim |-> (i + Number(row)) % 2]]

MCSampled(m, h) ==
  LET last == h[Len(h)] IN
  IF m = "greedy" THEN {(last + Len(h)) % 3}
  ELSE IF m = "endless" THEN {(last + Len(h)) % 2}
  ELSE {(last + 1) % 3, (Len(h) * last) % 3}
MCMatrices ==
  LET row(n, a, b) == [k \in 1 .. n |-> ((k * a + b) % 41) - 20]
      matrix(q, n) == [quant |-> q, rows |-> <<row(n, 7, n), row(n, 5, 3)>>]
  IN {matrix(q, n) : q \in {"hyper_vsq2", "q4_0"}, n \in {6, 32, 35}}
     \cup {matrix(q, 35) : q \in Quants}
MCInputs(n) == {[k \in 1 .. n |-> ((k * 11 + s) % 19) - 9] : s \in {0, 5}}

MCPrompts == {<<0>>, <<1, 0>>, <<1, 1, 1>>}
=============================================================================

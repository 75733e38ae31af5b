----------------------------- MODULE DecoderKV -----------------------------
(***************************************************************************)
(* How the native decoder (c/qwanto_decode.c) drives its KV caches while   *)
(* it serves one generation after another, as qwnrun's serve_mode does:    *)
(* qwn_decoder_reset, then one qwn_decoder_forward_thinking per token, a   *)
(* layer at a time, with the early exits of the thinking levels and the    *)
(* `return -1' of a layer that fails.                                      *)
(*                                                                         *)
(* It composes PagedKV (the fp16 mode) with the caches one layer has in    *)
(* the other modes: rows at their position when there is no pool ("flat"), *)
(* appended bytes (q8), packed blocks at their position (q4), and appended  *)
(* packed heads (paper); the packing is KVFormats.  A recurrent layer      *)
(* (DeltaNet) has a convolution window and a state instead.  A row is      *)
(* known by the generation and the position whose token it encodes,        *)
(* <<run, position>>; a state by the windows it took up, in order.         *)
(* The malloc of qwn_decoder_reset, whose result the code ignores,         *)
(* succeeds.                                                               *)
(***************************************************************************)
EXTENDS PagedKV, KVFormats

CONSTANTS Decoder,   \* owner of d->paged_table
          Modes,     \* what kv_cache_mode and the pool's allocation come to
          Levels,    \* thinking modes: "none", "low", "medium" or "high"
          LowLayers, \* n_layers_max of the low level (4)
          ConvKernel,    \* cfg.ssm_conv_kernel
          Files,     \* models: which groups of tensors each layer has
          MaxContext,    \* cfg.max_ctx
          MaxRuns    \* bound of the model: generations served

TensorGroups == {"qkv", "o", "gdn", "mixer", "ffn", "experts"}

ASSUME DecoderAssumption ==
    /\ Requests = {Decoder}
    /\ Modes \subseteq {"fp16", "flat", "q8", "q8cuda", "q4", "paper"}
    /\ Levels \subseteq {"none", "low", "medium", "high"}
    /\ LowLayers \in Nat \ {0} /\ MaxContext \in Nat \ {0} /\ MaxRuns \in Nat
    /\ ConvKernel \in 2 .. 4
    /\ Files \subseteq [LayerIds -> SUBSET TensorGroups]
    /\ MaxTokens > MaxContext
    /\ TotalBlocks = BlocksFor(MaxContext)
    /\ Vals = (1 .. MaxRuns) \X (0 .. MaxContext - 1)

\* A row has a value per channel; the paper quantizer finds a code of MseBits
\* bits and a sign for each of a head's.
ASSUME RowAssumption ==
    \A r \in Vals :
        /\ Channels(r) \in Seq(Int) /\ Len(Channels(r)) = RowWidth
        /\ \A h \in 0 .. Heads - 1 :
               Vector(r, h) \in [norm : Int, codes : [1 .. HeadDim -> 0 .. 2^MseBits - 1],
                                 gamma : Int, signs : [1 .. HeadDim -> {0, 1}]]

\* The model can tell two rows apart by what the packed caches keep of them.
ASSUME RowsDiffer ==
    \A r, s \in Vals : r # s =>
        /\ ~Q8FoundAt(Q8Append(Q8Cache(1), r), 0, s)
        /\ ~FoundAt(QuantizeToken(r), 0, s)
        /\ ~PaperReadsAs(PaperToken(r), s)

VARIABLES level,    \* thinking_mode the server was started with
          mode,     \* its kv_cache_mode
          tensors,  \* what layer_tensor finds for each layer
          position, \* d->position
          run,      \* number of the generation being served
          layer,    \* next layer of the forward pass in progress, or Idle
          failed,   \* the last forward returned -1
          depth,    \* layers that every token of this generation went through
          store,    \* key_cache, q8_layers, turboquant_layers or
                    \* turboquant_paper_layers, a layer at a time
          ssm,      \* ssm_conv_states and ssm_states of each layer
          seen      \* the last mixer: for whom, whether every token of the
                    \* generation went through its layer, and the rows it read

decoderVars == <<level, mode, tensors, position, run, layer, failed, depth,
                store, ssm, seen>>
allVars == <<vars, decoderVars>>

Idle == -1
Nothing == [run |-> 0, position |-> 0, whole |-> TRUE, recurrent |-> FALSE, rows |-> <<>>]
Paged == table[Decoder]
Table0 == [live |-> TRUE, numTokens |-> 0, ids |-> <<>>,
           capacity |-> IF TotalBlocks > MinCapacity THEN TotalBlocks ELSE MinCapacity]

\* build_layer_cache: a layer with the whole DeltaNet contract is recurrent;
\* one without projections that has an older mixer is taken for one, too.
Ssm(has) == "gdn" \in has \/ ("mixer" \in has /\ "qkv" \notin has)
IsSsm(l) == Ssm(tensors[l])
IsMoe(l) == "experts" \in tensors[l]

\* What it refuses: a recurrent layer without its contract or its FFN, and a
\* dense attention layer without FFN.
Opens(file) ==
    \A l \in LayerIds :
        /\ Ssm(file[l]) => {"gdn", "ffn"} \subseteq file[l]
        /\ {"qkv", "o"} \subseteq file[l] /\ "experts" \notin file[l] => "ffn" \in file[l]

\* An empty cache of one layer.
EmptyStore ==
    IF mode = "flat" THEN [t \in 0 .. MaxContext - 1 |-> Zero]
    ELSE IF mode \in {"q8", "q8cuda"} THEN Q8Cache(MaxContext)
    ELSE IF mode = "q4" THEN [a \in 0 .. MaxContext * BlocksPerRow - 1 |-> ZeroBlock]
    ELSE <<>>

EmptySsm == [conv |-> [i \in 1 .. ConvKernel - 1 |-> Zero], state |-> <<>>]

\* qwn_decoder_open: pool and table sized for max_ctx, empty caches.
DInit ==
    /\ freeStack = [i \in 1 .. TotalBlocks |-> TotalBlocks - i]
    /\ table = [r \in Requests |-> Table0]
    /\ mem = [a \in Addresses |-> Zero]
    /\ level \in Levels /\ mode \in Modes
    /\ tensors \in Files /\ Opens(tensors)
    /\ position = 0 /\ run = 0 /\ layer = Idle /\ failed = TRUE /\ depth = Layers
    /\ store = [l \in LayerIds |-> EmptyStore]
    /\ ssm = [l \in LayerIds |-> EmptySsm]
    /\ seen = Nothing

\* The caches that count their tokens are emptied by it.
Uncounted(cache) ==
    IF mode \in {"q8", "q8cuda"} THEN [cache EXCEPT !.count = 0]
    ELSE IF mode = "paper" THEN <<>> ELSE cache

----------------------------------------------------------------------------
\* The recurrent layers keep their window and state over a reset.
ResetKeepsState(freed) ==
    /\ position' = 0
    /\ store' = [l \in LayerIds |-> Uncounted(store[l])]
    /\ ssm' = ssm
    /\ freeStack' = Pushed(freeStack, freed)
    /\ table' = [table EXCEPT ![Decoder] = Table0]

\* The appended caches keep their rows and the table its blocks over a reset.
ResetKept(freed) ==
    /\ position' = 0
    /\ store' = store
    /\ ssm' = [l \in LayerIds |-> EmptySsm]
    /\ freeStack' = freeStack
    /\ table' = [table EXCEPT ![Decoder] = Table0]

\* qwn_decoder_reset: the caches that count their tokens are emptied, the
\* window and state of every layer cleared; rows kept by position stay.
Reset(freed) ==
    /\ position' = 0
    /\ store' = [l \in LayerIds |-> Uncounted(store[l])]
    /\ ssm' = [l \in LayerIds |-> EmptySsm]
    /\ freeStack' = Pushed(freeStack, freed)
    /\ table' = [table EXCEPT ![Decoder] = Table0]

\* A SUBMIT: the decoder is reset before every generation.
ServeSubmit ==
    /\ layer = Idle /\ run < MaxRuns
    /\ Reset(Paged.ids)
    /\ run' = run + 1 /\ failed' = FALSE /\ depth' = Layers
    /\ UNCHANGED <<level, mode, tensors, mem, layer, seen>>

\* forward: past the context limit it returns -1 before touching anything.
ForwardRefused ==
    /\ layer = Idle /\ ~failed /\ position >= MaxContext
    /\ failed' = TRUE
    /\ UNCHANGED <<vars, level, mode, tensors, position, run, layer, depth, store, ssm, seen>>

\* forward: the block table gets its token before the first layer runs.
\* (The `paged KV pool exhausted' exit is never taken: PoolSuffices.)
ForwardBegin ==
    /\ layer = Idle /\ ~failed /\ position < MaxContext
    /\ IF mode = "fp16" THEN AppendToken(Decoder) ELSE UNCHANGED vars
    /\ layer' = 0
    /\ UNCHANGED <<level, mode, tensors, position, run, failed, depth, store, ssm, seen>>

----------------------------------------------------------------------------
Row == <<run, position>>
Attended(rows) == [run |-> run, position |-> position, whole |-> layer < depth,
                   recurrent |-> FALSE, rows |-> rows]

\* qwn_paged_kv_write, then qwn_paged_attention_gather_head per head.
PagedAttention ==
    /\ mode = "fp16"
    /\ Write(Decoder, layer, position, Row)
    /\ seen' = Attended([i \in 1 .. Paged.numTokens |-> mem'[Locate(Paged, layer, i - 1)]])
    /\ UNCHANGED store

\* The half-precision cache without a pool: one row per position and layer.
FlatAttention ==
    /\ mode = "flat"
    /\ store' = [store EXCEPT ![layer][position] = Row]
    /\ seen' = Attended([i \in 1 .. position + 1 |-> store'[layer][i - 1]])
    /\ UNCHANGED vars

\* The row that what was read is, or Zero when it is none.
Recognised(rows) == IF rows = {} THEN Zero ELSE CHOOSE r \in rows : TRUE

\* qwn_q8_cache_append, then qwn_q8_cache_attention_head, which returns at
\* once when the cache of this layer does not reach `position'.
Q8Attention ==
    /\ mode = "q8"
    /\ store[layer].count < MaxContext
    /\ store' = [store EXCEPT ![layer] = Q8Append(@, Row)]
    /\ seen' = Attended([i \in 1 .. IF position < store'[layer].count THEN position + 1 ELSE 0 |->
           Recognised({r \in Vals : Q8FoundAt(store'[layer], i - 1, r)})])
    /\ UNCHANGED vars

\* The q8 caches on the device: the append names its position and is refused
\* when the cache is at another.
DeviceAttention ==
    /\ mode = "q8cuda"
    /\ store[layer].count = position
    /\ store' = [store EXCEPT ![layer] = Q8DeviceAppend(@, Row)]
    /\ seen' = Attended([i \in 1 .. position + 1 |->
           Recognised({r \in Vals : Q8FoundAt(store'[layer], i - 1, r)})])
    /\ UNCHANGED vars

\* qwn_turboquant_quantize_token at the token's position, then
\* qwn_turboquant_attention_head, which looks at no count.
Q4Attention ==
    /\ mode = "q4"
    /\ store' = [store EXCEPT ![layer] =
                     Overlaid(@, QuantizeToken(Row), position * BlocksPerRow)]
    /\ seen' = Attended([i \in 1 .. position + 1 |->
           Recognised({r \in Vals : FoundAt(store'[layer], i - 1, r)})])
    /\ UNCHANGED vars

\* qwn_turboquant_paper_cache_append, then dot_key and accum_value per token;
\* a token past the count makes the scores NAN.
PaperAttention ==
    /\ mode = "paper"
    /\ Len(store[layer]) < MaxContext
    /\ store' = [store EXCEPT ![layer] = Append(@, PaperToken(Row))]
    /\ seen' = Attended([i \in 1 .. position + 1 |->
           Recognised({r \in Vals : i <= Len(store'[layer]) /\ PaperReadsAs(store'[layer][i], r)})])
    /\ UNCHANGED vars

Attention ==
    \/ PagedAttention \/ FlatAttention
    \/ Q8Attention \/ DeviceAttention
    \/ Q4Attention \/ PaperAttention

\* The window of forward_deltanet with this token's row at its end.
Window == Append(ssm[layer].conv, Row)

\* forward_deltanet: the convolution shifts its window, the recurrence takes
\* it up, and the output is read from the state.
DeltaNet ==
    /\ ssm' = [ssm EXCEPT ![layer] = [conv |-> Tail(Window), state |-> Append(@.state, Window)]]
    /\ seen' = [Attended(ssm'[layer].state) EXCEPT !.recurrent = TRUE]
    /\ UNCHANGED <<vars, store>>

\* A layer that is neither recurrent nor has q, k and v goes on to its FFN.
Mixer ==
    \/ IsSsm(layer) /\ DeltaNet
    \/ ~IsSsm(layer) /\ "qkv" \in tensors[layer] /\ Attention /\ UNCHANGED ssm
    \/ ~IsSsm(layer) /\ "qkv" \notin tensors[layer] /\ UNCHANGED <<vars, store, ssm, seen>>

\* A layer that fails before its mixer, in the middle of the convolution
\* (some windows are shifted, the state is not touched), or after it.
MixerCutShort ==
    \/ UNCHANGED <<vars, store, ssm, seen>>
    \/ /\ IsSsm(layer)
       /\ ssm' = [ssm EXCEPT ![layer].conv = Tail(Window)]
       /\ UNCHANGED <<vars, store, seen>>
    \/ Mixer

\* The medium level looks at the confidence after these layers.
Checkpoint(l) == l \in {Layers \div 2, (Layers * 3) \div 4} /\ l + 1 < Layers

\* The low level stops at the first layer past its number, for every token
\* alike; a routed layer (forward_moe) goes on without looking at the level.
LowExit(l) == level = "low" /\ l + 1 >= LowLayers /\ ~IsMoe(l)

\* The layers after l are skipped, or there are none; the confidence at a
\* checkpoint may be high enough or not.
MustExit(l) == LowExit(l) \/ l + 1 = Layers
MayExit(l) == MustExit(l) \/ (level = "medium" /\ Checkpoint(l) /\ ~IsMoe(l))

\* One layer that goes through, and another one follows.
LayerDone ==
    /\ layer # Idle /\ Mixer /\ ~MustExit(layer)
    /\ layer' = layer + 1
    /\ UNCHANGED <<level, mode, tensors, position, run, failed, depth>>

\* A token that went no further than this layer.
Shallower == IF layer + 1 < depth THEN layer + 1 ELSE depth

\* The early exit returns before the position is counted.
ForwardDoneUncounted ==
    /\ layer # Idle /\ Mixer /\ MayExit(layer)
    /\ layer' = Idle /\ depth' = Shallower /\ UNCHANGED position
    /\ UNCHANGED <<level, mode, tensors, run, failed>>

\* One layer that goes through and is the last of this token: d->position++.
\* The layers after it get no row of the token.
ForwardDone ==
    /\ layer # Idle /\ Mixer /\ MayExit(layer)
    /\ layer' = Idle /\ position' = position + 1 /\ depth' = Shallower
    /\ UNCHANGED <<level, mode, tensors, run, failed>>

\* `return -1' of a layer, or of the lm_head after the last one.
LayerFails ==
    /\ layer # Idle /\ MixerCutShort
    /\ layer' = Idle /\ failed' = TRUE
    /\ UNCHANGED <<level, mode, tensors, position, run, depth>>

DNext ==
    \/ ServeSubmit
    \/ ForwardRefused \/ ForwardBegin
    \/ LayerDone \/ ForwardDone \/ LayerFails

DSpec == DInit /\ [][DNext]_allVars

----------------------------------------------------------------------------
\* The window that ends with the i-th token of a generation.
WindowOf(r, i) ==
    [j \in 1 .. ConvKernel |-> IF i - ConvKernel + j >= 1 THEN <<r, i - ConvKernel + j - 1>> ELSE Zero]

\* A pool sized for max_ctx is never exhausted before the context is, even
\* after generations that failed in the middle of a token.
PoolSuffices ==
    mode = "fp16" /\ layer = Idle /\ ~failed /\ position < MaxContext =>
        ~(NeedsBlock(Decoder) /\ freeStack = <<>>)

\* The q4 reader takes head h from block h * BlocksPerHead on, where the row
\* has it only when a head fills its blocks.
HeadsFillBlocks == Heads = 1 \/ HeadDim % Group = 0

\* The rows the last mixer should have read.
Prefix == [i \in 1 .. seen.position + 1 |->
              IF seen.recurrent THEN WindowOf(seen.run, i) ELSE <<seen.run, i - 1>>]

\* `Independent KV conversation slots' (docs/SETTINGS.md:62): no mixer reads a
\* row of another generation than its own.  A token that stops at a middle
\* layer leaves the later layers without its row (qwanto_decode.c:2408), and
\* the caches by position have an older one there.
ConversationsIndependent ==
    LET own(row) == row = Zero \/ row[1] = seen.run
    IN \A i \in DOMAIN seen.rows :
           IF seen.recurrent THEN \A j \in 1 .. ConvKernel : own(seen.rows[i][j])
           ELSE own(seen.rows[i])

\* Attention of a token reads the rows of this generation's tokens, all of
\* them, once each and in order, whatever the cache packs them into, and a
\* recurrent layer's state has taken up just these tokens: resets, failed
\* layers and the layers that a level skips never shift, lose or leave over
\* a row, and never leave the pool too small for the next one.  It holds in
\* every layer that all tokens of the generation went through, which at the
\* medium level may be not all (then ConversationsIndependent is violated),
\* and in the q4 mode of the models whose heads fill their blocks.  A layer
\* that was skipped still reads no other generation's row from a cache that
\* counts its rows, nor from a recurrent state.
AttentionReadsPrefix ==
    /\ PoolSuffices
    /\ seen # Nothing =>
        /\ (level = "medium" => seen.whole) /\ (mode = "q4" => HeadsFillBlocks) =>
               seen.rows = Prefix
        /\ mode \in {"q8", "q8cuda", "paper"} \/ seen.recurrent => ConversationsIndependent

============================================================================

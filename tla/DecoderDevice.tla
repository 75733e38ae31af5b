---------------------------- MODULE DecoderDevice ----------------------------
(***************************************************************************)
(* How the native decoder comes up, uses the CUDA library and goes down      *)
(* (c/qwanto_decode.c, c/qwanto_native.c): qwn_decoder_open_with_config       *)
(* acquires one buffer after the other and leaves by `goto fail' at any of    *)
(* them, matmul falls back from the device to the CPU in the middle of a       *)
(* layer, and qwn_decoder_close gives everything back.                        *)
(*                                                                         *)
(* An allocation is a name; live holds those the process has and pointers     *)
(* those the decoder can still free.  A build without COLI_CUDA.              *)
(***************************************************************************)
EXTENDS Naturals, FiniteSets

CONSTANTS DeviceLayers,     \* cfg.layers
          MaxResident,      \* QWN_CUDA_MAX_RESIDENT_TENSORS
          MaxForwards       \* bound of the model: tokens forwarded

ASSUME DeviceAssumption ==
  DeviceLayers \in Nat \ {0} /\ MaxResident \in Nat /\ MaxForwards \in Nat

Depth == 0 .. DeviceLayers - 1
\* The projections of a layer: into the attention, out of it, and the FFN's.
Tensors == Depth \X {"qkv", "o", "ffn"}

VARIABLES backend,      \* runtime_config.backend: "cpu", "auto" or "cuda"
          cache,        \* kv_cache_mode: "fp16", "q8", "q4" or "paper"
          shape,        \* of the model: [hybrid, mtp, plain], plain the tensors
                        \* that are not HyperVSQ-2
          stage,        \* next step of open; "serving", "refused", "closed", "crashed"
          live, pointers,
          pagedOn,      \* use_paged_kv
          available,    \* qwn_cuda.available
          deviceKv,     \* use_cuda_q8_kv
          at,           \* <<layer, what the forward pass does next>>, or <<>>
          forwards,
          ranOn         \* where projections and q8 rows were computed so far

modelVars == <<backend, cache, shape>>
memoryVars == <<live, pointers>>
forwardVars == <<at, forwards, ranOn>>
deviceVars == <<modelVars, stage, memoryVars, pagedOn, available, deviceKv, forwardVars>>

Only(names) == {<<n, 0>> : n \in names}
Index == Only({"hashes", "offsets", "descs"})
ModelFile == Only({"fd", "map"}) \union Index
Library == Only({"library"})
Gather == Only({"gather_key", "gather_value"})
Caches(name, n) == {<<name, l>> : l \in 0 .. n - 1}
Weight(t) == <<"weight", t>>
Cuda == Library \union Only({"context"}) \union Caches("device", DeviceLayers)
          \union {Weight(t) : t \in Tensors}
Required == backend = "cuda"

DeviceInit ==
  /\ backend \in {"cpu", "auto", "cuda"} /\ cache \in {"fp16", "q8", "q4", "paper"}
  /\ shape \in [hybrid : BOOLEAN, mtp : BOOLEAN, plain : {{}} \union {{t} : t \in Tensors}]
  /\ stage = "file" /\ live = {} /\ pointers = {}
  /\ pagedOn = FALSE /\ available = FALSE /\ deviceKv = FALSE
  /\ at = <<>> /\ forwards = 0 /\ ranOn = {}
-----------------------------------------------------------------------------
Allocate(S) == live' = live \union S /\ pointers' = pointers \union S
Release(S) == live' = live \ S /\ pointers' = pointers \ S

\* qwn_decoder_close frees what it can and zeroes the decoder; qwn_cuda_unload,
\* a part of it, what the library gave and then the library.
CloseKeepsDevice ==     \* mutant: the library is not unloaded
  live' = live \ (pointers \ Cuda) /\ pointers' = {}
Close == live' = live \ pointers /\ pointers' = {}
Unload == Release(Cuda) /\ available' = FALSE

Opening(name) == stage = name /\ UNCHANGED <<modelVars, deviceKv, forwardVars>>

\* A step of open asks for its buffers and looks at them afterwards.
Step(name, wanted, partly, next) ==
  /\ Opening(name)
  /\ \/ Allocate(wanted) /\ stage' = next
     \/ \E got \in partly : Allocate(got) /\ stage' = "failing"
  /\ UNCHANGED <<pagedOn, available>>
Proper(S) == SUBSET S \ {S}

\* qwn_open undoes its own steps, and its caller does not close the decoder.
\* Failing to get the arrays of the overflow index leaves their pointers.
OpenModel ==
  /\ Opening("file")
  /\ \/ Allocate(ModelFile) /\ stage' = "config"
     \/ \E got \in Proper(Index) :
          live' = {} /\ pointers' = got /\ stage' = "refused"
     \/ stage' = "refused" /\ UNCHANGED memoryVars
  /\ UNCHANGED <<pagedOn, available>>

OpenBuffers ==
  \* configuration, tokenizer and tensors are only looked at
  \/ Step("config", {}, {{}}, "layers")
  \* build_layer_cache: out of memory, or a shape it refuses
  \/ Step("layers", Only({"layer_cache"}), {{}, Only({"layer_cache"})}, "scratch")
  \/ Step("scratch", Only({"scratch"}), {{}}, "arena")
  \/ Step("arena", Only({"arena"}), {{}}, IF shape.hybrid THEN "ssm" ELSE "kv")
  \/ LET S == Only({"ssm_states", "ssm_conv_states"}) IN Step("ssm", S, Proper(S), "kv")
  \/ LET M == Only({"mtp_last_hidden", "mtp_state_hidden", "mtp_concat", "mtp_kv"}) IN
       Step("mtp", M, Proper(M), "norms")
  \/ Step("norms", {}, {{}}, IF cache = "fp16" THEN "cuda" ELSE "caches")
  \/ Step("caches", Only({"caches"}), {{}}, "rows")
  \* one cache per layer, until one is not to be had
  \/ Step("rows", Caches("cache", DeviceLayers),
          {Caches("cache", n) : n \in Depth}, "cuda")

AfterKv == IF shape.mtp THEN "mtp" ELSE "norms"

\* fp16 caches are paged if pool, table and gather buffers are all to be had.
KvDangling ==           \* mutant: the freed gather buffers are not forgotten
  /\ Opening("kv")
  /\ \/ cache # "fp16" /\ stage' = AfterKv /\ UNCHANGED <<memoryVars, pagedOn>>
     \/ /\ cache = "fp16" /\ Allocate(Only({"pool", "table"}) \union Gather)
        /\ pagedOn' = TRUE /\ stage' = AfterKv
     \/ /\ cache = "fp16" /\ stage' = "flat" /\ UNCHANGED pagedOn
        /\ \/ \E got \in {{}, Only({"pool"})} : Allocate(got)
           \/ \E got \in Proper(Gather) : pointers' = pointers \union got /\ UNCHANGED live
  /\ UNCHANGED available
OpenKv ==
  /\ Opening("kv")
  /\ \/ cache # "fp16" /\ stage' = AfterKv /\ UNCHANGED <<memoryVars, pagedOn>>
     \/ /\ cache = "fp16" /\ Allocate(Only({"pool", "table"}) \union Gather)
        /\ pagedOn' = TRUE /\ stage' = AfterKv
     \/ /\ cache = "fp16" /\ stage' = "flat" /\ UNCHANGED pagedOn
        \* no pool; no table; or no gather buffers, and then the rest is freed
        /\ \E got \in {{}, Only({"pool"})} : Allocate(got)
  /\ UNCHANGED available
OpenFlat == Step("flat", Only({"kv_allocation"}), {{}}, AfterKv)

NoDevice == stage' = IF Required THEN "failing" ELSE "placement"

\* qwn_cuda_load: the library beside the program, and then what it says of itself.
FindLibrary ==
  /\ Opening("cuda")
  /\ \/ backend = "cpu" /\ stage' = "placement" /\ UNCHANGED memoryVars
     \/ backend # "cpu" /\ NoDevice /\ UNCHANGED memoryVars
     \/ backend # "cpu" /\ Allocate(Library) /\ stage' = "abi"
  /\ UNCHANGED <<pagedOn, available>>

\* Refused for its ABI, a capability, the device or the context; a quantised cache
\* it has no kernels for is refused only if the device is required.
CreateContext ==
  /\ Opening("abi")
  /\ \/ /\ ~(Required /\ cache \in {"q4", "paper"})
        /\ Allocate(Only({"context"})) /\ available' = TRUE /\ stage' = "device"
     \/ Unload /\ NoDevice
  /\ UNCHANGED pagedOn

\* One q8 cache per layer on the device, or none.
DeviceCaches ==
  /\ stage = "device"
  /\ \/ /\ cache = "q8" /\ Allocate(Caches("device", DeviceLayers))
        /\ deviceKv' = TRUE /\ stage' = "placement"
     \/ /\ cache = "q8" /\ stage' = "undo" /\ UNCHANGED deviceKv
        /\ \E n \in Depth : Allocate(Caches("device", n))
     \/ /\ cache # "q8" \/ ~Required        \* auto, and a library without them
        /\ stage' = "placement" /\ UNCHANGED <<memoryVars, deviceKv>>
  /\ UNCHANGED <<modelVars, pagedOn, available, forwardVars>>
UndoCaches ==
  /\ Opening("undo")
  /\ Release(Caches("device", DeviceLayers)) /\ NoDevice
  /\ UNCHANGED <<pagedOn, available>>

\* The placement table and the RoPE tables may be missing.
Place ==
  /\ Opening("placement")
  /\ \E got \in SUBSET Only({"residency", "rope"}) : Allocate(got)
  /\ stage' = "serving" /\ UNCHANGED <<pagedOn, available>>

GoFail ==
  /\ Opening("failing") /\ Close /\ stage' = "refused"
  /\ UNCHANGED <<pagedOn, available>>

\* The end of the input, or an option the model does not fit.
End ==
  /\ Opening("serving") /\ at = <<>>
  /\ Close /\ stage' = "closed" /\ available' = FALSE /\ UNCHANGED pagedOn
-----------------------------------------------------------------------------
Forward ==
  /\ stage = "serving" /\ at = <<>> /\ forwards < MaxForwards
  /\ at' = <<0, "qkv">> /\ forwards' = forwards + 1
  /\ UNCHANGED <<modelVars, stage, memoryVars, pagedOn, available, deviceKv, ranOn>>

Layer == at[1]
Following ==
  CASE at[2] = "qkv" -> <<Layer, "kv">>
    [] at[2] = "kv" -> <<Layer, "o">>
    [] at[2] = "o" -> <<Layer, "ffn">>
    [] at[2] = "ffn" -> IF Layer + 1 < DeviceLayers THEN <<Layer + 1, "qkv">> ELSE <<>>

Projecting == stage = "serving" /\ at # <<>> /\ at[2] # "kv"
Resident == {t \in Tensors : Weight(t) \in pointers}
\* A tensor the device can have: there already, or a slot is free.
Fits == at \in Resident \/ Cardinality(Resident) < MaxResident

\* matmul on the device; the tensor is uploaded at its first use.
OnDevice ==
  /\ Projecting /\ available /\ at \notin shape.plain /\ Fits
  /\ Allocate({Weight(at)})
  /\ ranOn' = ranOn \union {"gpu"} /\ at' = Following
  /\ UNCHANGED <<modelVars, stage, pagedOn, available, deviceKv, forwards>>

OnCpu ==
  /\ Projecting /\ ~available
  /\ ranOn' = ranOn \union {"cpu"} /\ at' = Following
  /\ UNCHANGED <<modelVars, stage, memoryVars, pagedOn, available, deviceKv, forwards>>

\* Whatever the reason, auto gives the device up for good and computes this
\* projection, and all that follow, on the CPU.
FallBackAlways ==       \* mutant: a required device is given up, too
  /\ Projecting /\ available
  /\ Unload /\ ranOn' = ranOn \union {"cpu"} /\ at' = Following
  /\ UNCHANGED <<modelVars, stage, pagedOn, deviceKv, forwards>>
FallBack ==
  /\ Projecting /\ available /\ ~Required
  /\ Unload /\ ranOn' = ranOn \union {"cpu"} /\ at' = Following
  /\ UNCHANGED <<modelVars, stage, pagedOn, deviceKv, forwards>>

\* A required device fails the token; but the projection out of the attention is
\* left out and the pass goes on.
RequiredFails ==
  /\ Projecting /\ available /\ Required
  /\ \/ UNCHANGED memoryVars
     \/ at \notin shape.plain /\ Fits /\ Allocate({Weight(at)})
  /\ at' = IF at[2] = "o" THEN Following ELSE <<>>
  /\ UNCHANGED <<modelVars, stage, pagedOn, available, deviceKv, forwards, ranOn>>

\* The row of this token: on the device through the library's functions, whose
\* pointers are zero once it is unloaded.  A failure there fails the token.
AppendRow ==
  /\ stage = "serving" /\ at # <<>> /\ at[2] = "kv"
  /\ \/ cache # "q8" /\ at' = Following /\ UNCHANGED <<stage, ranOn>>
     \/ /\ cache = "q8" /\ ~deviceKv
        /\ at' = Following /\ ranOn' = ranOn \union {"cpu"} /\ UNCHANGED stage
     \/ /\ deviceKv /\ Library \subseteq pointers /\ UNCHANGED stage
        /\ \/ at' = Following /\ ranOn' = ranOn \union {"gpu"}
           \/ at' = <<>> /\ UNCHANGED ranOn
     \/ /\ deviceKv /\ ~(Library \subseteq pointers)
        /\ stage' = "crashed" /\ at' = <<>> /\ UNCHANGED ranOn
  /\ UNCHANGED <<modelVars, memoryVars, pagedOn, available, deviceKv, forwards>>

DeviceNext ==
  \/ OpenModel \/ OpenBuffers \/ OpenKv \/ OpenFlat
  \/ FindLibrary \/ CreateContext \/ DeviceCaches \/ UndoCaches \/ Place
  \/ GoFail \/ End
  \/ Forward \/ OnDevice \/ OnCpu \/ FallBack \/ RequiredFails \/ AppendRow

DeviceSpec == DeviceInit /\ [][DeviceNext]_deviceVars
-----------------------------------------------------------------------------
\* The decoder can free exactly what it has, at every step of opening, falling
\* back and closing, and a decoder that was refused or closed has nothing left
\* (c/qwanto_decode.c:1765, 1887-1926; c/qwanto_native.c:209-342).
NothingLeaks ==
  /\ stage # "refused" => pointers = live
  /\ stage \in {"refused", "closed"} => live = {}

\* backend = "cuda" is the device or nothing: no projection and no q8 row is
\* computed on the CPU instead, whatever fails, while opening or in the middle of
\* a token (c/qwanto_decode.c:387-405, 880-883, 1685-1690, 1726-1742).
CudaOrNothing ==
  Required =>
    /\ "cpu" \notin ranOn
    /\ stage = "serving" => available /\ (cache = "q8" <=> deviceKv)

\* `qwn CUDA projection failed; auto backend returns to CPU', says the code
\* (c/qwanto_decode.c:884): the token that met the failure goes on on the CPU.
AutoReturnsToCpu == stage # "crashed"
=============================================================================

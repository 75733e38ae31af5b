# Qwanto in TLA+

Qwanto serves large language models on one machine: inference engines written
in C (`c/glm.c`, and `c/qwnrun.c` on the native decoder `c/qwanto_decode.c`), a
gateway in Python that speaks the OpenAI API in front of one engine process
(`c/openai_server.py`), and a desktop host in Rust (`desktop/src-tauri`).  This
directory holds a formal model of the parts whose correctness is a matter of
order, sharing, failure and boundaries; the properties the parts should have;
TLC configurations that check them on small instances; and proofs of the most
important ones for every instance.  Paths below are relative to the root of the
repository.

    tlc -workers 2 -config Scheduler.cfg Scheduler     (a run)
    tlapm SchedulerProofs.tla                          (a proof)

`PROJECT.json` lists components, runs, the mutant that shows each property can
fail, the source lines behind every definition, findings, hazards, theorems.

## 1. The system

        user interface                HTTP clients, web console
             | commands                          |
    desktop host (Rust) [Desktop]                |
      runtime manager [DesktopRuntime]           |
      gateway manager [DesktopGateway] --starts--+
      permissions, tools [Approvals]             |
      sessions, memory, plugins, log             |
                    [DesktopStores]              v
    openai_server.py   handlers, keep-alive pump, response cache,
                       reload_backend [Gateway]; replies [StreamParser]
                                   |  admit(slot) .. finally
                           GenerationScheduler              [Scheduler]
                                   |  generate(slot, prompt, max)
                             Engine + dispatcher            [EngineLink]
                          stdin |   ^ stdout     (stderr: read by nobody)
                                v   |
          glm.c run_serve_mux [MuxServer]    qwnrun.c serve_mode [QwnServe]
          run_serve, spec_decode [GlmDecode]          |
          grammar.h [Grammar]             qwanto_decode.c
          load pool [PipePool],             open, device, close [DecoderDevice]
          pilot [Pilot],                    caches [DecoderKV, KVFormats]
          MoE pass [ExpertStream]           pool [PagedKV]
          .coli_kv files [KVFile]           speculation [Speculative]
                                            projections [Projections, Weights]
    model_acquisition.py [Download], convert_to_qwn [Conversion] -> model files
    the stores in one state: [MCStores]

### Modelled components

**Gateway admission** (`GenerationScheduler`, c/openai_server.py:638-724).
State: closed flag, deque of tickets, set of free KV slots, number of active
requests, counters, all under one condition variable.  Operations: `admit` (a
context manager called by every handler thread, with five ways out of its
loop), the `finally` that gives the slot back, `close`.  Hard: any interleaving
of arrivals, releases, deadlines, hang-ups and a close.  Correct when no two
running requests hold one slot, no slot is lost, order of arrival is kept, a
closed scheduler admits nobody and nobody waits for ever.

**The gateway process** (`do_POST`, `generation`, `reload_backend`,
c/openai_server.py:1918-2040, 2663, 3266-3560).  A thread per request, a second one
per stream that pings, and an administrator's load, over the attributes of one
server object that no lock protects.  Hard: a load closes and replaces engine,
scheduler and model name one assignment at a time under handlers that have read
some of them.  Correct when no engine is left behind, the cache files an answer
under the model that made it, a stream ends with `[DONE]` and every request ends.

**Reading a reply** (`StreamParser`, `parse_tool_calls`,
c/openai_server.py:820-1190).  A state machine for streams, which sees the text in
whatever pieces the engine prints, and regular expressions for whole replies.
Correct when the cuts make no difference, calls are closed, and both readers find
the same calls and words in a well-formed reply (a stream shows the reasoning as
content, section 6).

**Engine link** (`Engine`, c/openai_server.py:1331-1574).  State: the table of
pending calls, the closing flag, the dispatcher's error, one event queue per
call; the three pipes and the process.  `generate` registers, writes SUBMIT and
consumes events; a dispatcher thread reads stdout; `close` fails what is
pending and terminates the process.  Hard: the process may die, close may run
and clients may hang up between any two steps of the two or more threads.
Correct when each call gets one answer, whole and its own, and returns.

**The engine loops**: `run_serve_mux` (c/glm.c:4928-5053), which advances all
active slots by one token a turn; `serve_mode` (c/qwnrun.c:295-557), which serves
one request at a time; `run_serve` (c/glm.c:5054-5200), the conversation loop
with self-speculation.  Correct when slots are not mixed, history stays within
the context and the terminal event is the last of its request.

**Conversation and self-speculation of glm** (`spec_decode`, c/glm.c:4251-4330;
c/grammar.h).  Every pass verifies tokens drafted by a grammar, the MTP head or
n-grams; rejected ones leave rows, a hidden state and a copy on the device to be
wound back.  Correct when the answer is the target's, all copies are those of the
history, and the next turn goes on from it.

**Expert streaming** (c/glm.c:2090-2260, 2752-3290, 3330-3520).  A pool of I/O
threads with a lock-free cursor and a pilot thread read experts into slots that
the forward pass multiplies with.  Correct when every expert is multiplied with
its own weights, the caches say what they hold and the pass ends.

**KV persistence** (`kv_disk_*`, c/glm.c:4729-4845).  One file per slot: header
with a layout and a count, then one record per token.  Hard: the process can be
killed between two writes, calls can fail, CTX and record layout can change
between runs.  Correct when a resumed conversation is one that took place.

**Paged KV store** (c/qwn_paged_kv.c).  A pool of physical blocks, a stack of
free ones, a block table per request.  Correct when pages are never shared or
lost and paging is invisible to attention.

**Native decoder** (c/qwanto_decode.c, c/qwanto_thinking.c,
c/qwanto_turboquant.c, c/qwanto_kernels.c, c/cuda).  `open` acquires a dozen
buffers and perhaps a CUDA library, and gives them back on `close`; `reset`, then
a forward pass per token, fills one of six kinds of KV cache layer by layer, may
fail in any layer, and may leave early; every layer multiplies with quantised
weights by one of several kernels, through one scratch buffer.  Correct when
nothing leaks, attention reads exactly the rows of its own generation, and every
projection is the product of what the converter wrote with the activations.

**Speculative decoding** (c/qwn_speculative.c).  The model's MTP head drafts,
the target verifies, head and buffers are wound back.  Correct when the client
cannot tell: every token is one the target could have sampled.

**Model library** (`SafeDownloadManager`, c/model_acquisition.py:347-825;
`ConversionManager`, `convert_to_qwn`, `write_qwn`).  Threads fetch files and
bundles to `.part`, check and rename; a conversion writes tensors with a pool,
validates, renames and leaves a manifest.  Hard: pause, cancel, retry, range
requests, a remote that changes, a failing writer, kill and restart.  Correct
when what carries a model's name is whole and every job ends.

**Desktop host** (desktop/src-tauri/src).  The runtime manager (one qwnrun, a
reader thread per process), the gateway sidecar, approval tokens for tools that
change something, four stores of files.  Hard: old readers beside new processes,
a full pipe under a mutex, a start that waits while the application exits, a host
that ends between two file operations.

### Components not modelled

| component | why |
|---|---|
| Container format and loader | sequential validation of offsets and sizes, without state that outlives a call; which tensors a decoder accepts is in `DecoderKV` (`Opens`) |
| Planning and advisory modules | heuristics and reports; not on the path of a generation |
| Web console | user interface |
| Tests, tools, benchmarks, experiments, docs | not part of the running program |

Of the components that are partly modelled, `PROJECT.json` says what is left out;
section 5 sums it up.

## 2. The modules

Each module names in its header the code it models; `PROJECT.json` "map" gives
the lines of every definition.  `MC*.tla` modules only give TLC values for
constants.  A definition just before another whose name it extends, with a
comment that says what is wrong with it, is a mutant: a plausible bug with which
the property it is listed under fails.

| module | what it is | extends / instantiates |
|---|---|---|
| `Scheduler` | `GenerationScheduler` | `SlotAdmission` (abstract) |
| `SlotAdmission` | one line, one holder per slot: what admission promises | |
| `Gateway` | requests, pump, cache and reload over shared attributes | |
| `StreamParser` | both readers of a reply | |
| `MCGateway` | the gateway's two sides, and the replies of the run | extends `Gateway`, `StreamParser` |
| `EngineIO` | pipes, frames, events, life of the process | |
| `MuxServer`, `QwnServe` | two engine loops | extend `EngineIO` |
| `EngineLink` | gateway `Engine`, dispatcher, close, process | instantiates both loops |
| `Grammar` | compiled grammars and the walker | |
| `GlmDecode` | `run_serve` and `spec_decode` | the walker is a parameter |
| `MCGlmDecode` | the grammars and prompts of the run | extends `GlmDecode`, `Grammar` |
| `PipePool`, `Pilot`, `ExpertStream` | load pool; pilot; forward pass over both | each extends the one before |
| `KVFile` | one `.coli_kv` file and the engine that uses it | |
| `PagedKV` | pool, block tables, row writes, both attention reads | `KVRows` (abstract) |
| `KVRows` | one private contiguous array of rows per request and layer | |
| `KVFormats` | what the packed caches make of a row | |
| `DecoderKV` | generations over six kinds of cache | extends `PagedKV`, `KVFormats` |
| `DecoderDevice` | open, CUDA library, fall back, close | |
| `Speculative` | one decoder serving speculative generations | `Decode` (abstract) |
| `Decode` | plain generation: one sampled token after another | |
| `Weights` | the converter's six formats and their readers | |
| `Projections` | kernels, dispatch and the shared scratch buffer | extends `Weights` |
| `NativeDecoder` | the four sides of the native decoder | extends `DecoderKV`, `Speculative`, `DecoderDevice`, `Projections` |
| `Download`, `Conversion` | download manager; conversions | |
| `MCStores` | model library, conversation file and KV pool, one at a time | extends `Download`, `Conversion`, `KVFile`, `PagedKV` |
| `DesktopRuntime`, `DesktopGateway`, `Approvals`, `DesktopStores` | four parts of the host | |
| `Desktop` | the application: commands, setup, exit | extends the four |
| `GatewayProofs` | theorems of the gateway and of the parser | extends `Gateway`, `StreamParser` |
| `SchedulerProofs`, `EngineLinkProofs`, `ExpertStreamProofs`, `GlmProofs` (of `GlmDecode`), `DesktopProofs` | theorems | extend the module of their name |
| `NativeProofs` | theorems about `PagedKV`, `DecoderKV`, `Speculative`, `DecoderDevice` and `Projections` | extends `NativeDecoder` |
| `StorageProofs` | theorems about `KVFile`, `Download` and `Conversion` | extends `MCStores` |

**Scheduler.** All of `admit` except the condition wait runs under the
condition's lock, so each stretch between waits is one action: `Arrive` (from
the call to its first wait or exit), `Wake` (one turn of the loop), `Release`
(the `finally`), `Close`.  A wait ends after at most 0.25 s whether or not it
was notified, so a waiting thread may take its turn at any time and wake-ups are
not state.  `Disconnect` and `Expire` are the environment.

**Gateway.** A handler reads one attribute of the server at a time and a load
replaces them one at a time; each read and assignment is a step.  An admission is
what `SlotAdmission` promises and a call of the engine what `EngineLink` shows of
it: one answer, an error when the engine is closed or dies.

**StreamParser.** A text is a sequence of symbols; a marker such as `<tool_call>`
is two or three of them, so that a piece can end inside it.  The loop of
`add_chunk` is a function of the number of turns, cut where the state stops
changing; the readers of whole replies are functions on the suffixes of the text.
A quote of the text is a symbol of its own (one that JSON escapes), so that the
quotes counted are those the parser writes around a string.

**EngineLink.** One action per stretch under a lock: `Register`, `Write`, `Take*`
(the consumer of the queue), `Dispatch` (the look-up, under the lock) and `Put`
(after it) are separate, because everything that can go wrong goes wrong between
them.  `Dies` empties the engine's memory; `Exit` is the later moment when
`poll()` reports it.  `MuxServer` handles one frame and one batch step a turn and
prints and flushes a batch's events slot by slot;
`QwnServe` one request at a time.  The forward pass is the choice of a token.

**GlmDecode.** A row, like the hidden state and the logits of its position, is
known by the tokens it was computed from, so row i of a sound cache is the prefix
of length i of the history.  The device's copy lags behind and is shortened by
the code's own rules.  The target may have several tokens (sampling); the answer
is checked to be one of its paths.  The grammars and the four calls of `grammar.h`
that the loop makes are constants (`gr_state_init`, `gr_accept`, `gr_forced`,
`gr_refuses`); the run gives them the operators of `Grammar`, and a theorem holds
whatever the walker says.  A prompt of no tokens is answered with an empty END and
touches nothing (`Unanswered`).

**ExpertStream.** Every load and store of an atomic of the pool is a step of its
own; of the pilot, every stretch under `g_pilot_mx`.  Which expert the router
chooses and predicts, and which slot was least recently used, is left open.  A
slot holds weights that may be half read.

**KVFile.** A row is known by the tokens it was computed from, so a row out of
place is visible.  A record of layout v is v cells and each cell is one write:
`Crash` can fall between any two.  Writes reach the file in program order: the
crash is that of the process, not of the machine.

**PagedKV.** `freeStack` is the array and `free_top`; `table[r]` has the block
ids, token count and capacity; `mem` is `key_data`, addressed by the code's own
offset computation (`Locate`), so a wrong stride or a shared page shows up as
one request reading another's row.  `AppendFails` is both failures of
`qwn_block_table_append_token`.  `DirectRows` and `GatheredRows` are what the two
attention kernels read.

**DecoderKV** drives one table of `PagedKV` or the per-layer caches as
`serve_mode` does: `Submit` resets, `ForwardBegin` appends, then one action per
layer and kind of cache.  A row is `<<generation, position>>`; a packed cache
holds what `KVFormats` makes of that row's channels, bit fields and all, and
attention reads the generation and position its bytes are recognised as
(`Recognised`), so a lane read in the wrong order is a wrong row.  A recurrent
layer holds a convolution window and a state that names the windows it took up.

**DecoderDevice.** An allocation is a name; `live` is what the process has,
`pointers` what the decoder can still free.  One action per step of open that can
leave by `goto fail`; forward passes of projections that stay on the device, fall
back, or fail, by `backend`.

**Speculative.** A distribution is known by the history it is a distribution
after, and `Sampled` gives the tokens of positive probability there.  `logits`
records which head wrote the shared buffer last, after what.  The head's proposal
is any token at all.  A restored head gets its position and hidden state back,
not its rows, as in the code.

**Weights, Projections.** Values are integers; a block's base is kept as the
numerator of a fraction whose denominator the format fixes (`Units`), so that
quantising, packing, unpacking and multiplying are exact and equality can be
asked for.  Half precision and floating-point rounding are left out; the
saturation of `_mm256_maddubs_epi16` and the rounding and clipping of codes are
not.  A processor, what it was told (`QWN_FORCE_*`) and the build fix the kernel;
the activations and their sums stay in the scratch buffer from call to call.

**Download, Conversion.** A file is a sequence of chunks, each known by the
version of the remote it was read from; the thread's program counter has one
value per place where it can be interrupted.  `Restart` kills the gateway
anywhere; only the files survive.  A conversion's pool writes each tensor in two
steps; the tail, the renames, the smoke test and the manifest are one each.

**Desktop.** Commands run one after another on the main thread (Tauri runs plain
commands there); the reader threads, the setup thread and the processes run
beside.  A behaviour exercises one group of commands (`focus`).  A command of the
stores is the list of file operations it has still to do: any may fail or be the
last.

`MCGateway`, `NativeDecoder`, `MCStores` and `Desktop` compose parts that
share little: a behaviour of theirs looks at one part, chosen in its initial
state, and the others rest.  Their headers say why nothing is lost by it.

## 3. What each run checks

| run | question | instance |
|---|---|---|
| `scheduler` | can slots be shared, lost, or handed out out of order? does `Scheduler` implement `SlotAdmission`? is every waiting request answered, by its deadline or by service? | 4 requests, 2 slots, queue of 2 |
| `expert_stream` | is every expert multiplied with its own weights, whatever pool and pilot do? do the caches say what they hold? does a pass end? | 2 pool threads, 2 experts, 3 layers, pilot by threads, io_uring or serial loads, caches of 1 and 2 |
| `pipe_straggler` | also when a pool thread sleeps across two batches? **violated** | the same |
| `native_decoder` | does attention read its own generation's tokens, all and once? is speculation invisible (`Decode`)? does anything leak or leave the device unasked? is every projection the product it should be? | below |
| `medium_level` | is a conversation independent of the one before, at every level? **violated** | its caches |
| `cuda_fallback` | does `backend=auto` return to the CPU with every cache? **violated** | its device side |
| `glm_decode` | is the answer the target's? are rows, device copies and hidden state those of the history? does the next turn go on from it? does the walker follow the answer and know the grammar? | 2 slots, 2 turns, context 8, 3 new tokens, drafts of grammar, MTP head and n-grams, 2 grammars |
| `engine_link` | does each call get one answer, whole, on a free slot, and return? | 2 calls, 2 slots, either engine, contexts 5 and 3, 2 new tokens, room for 4 lines on stderr |
| `stores` | library: is what carries a name whole? do shards survive? do jobs end? conversation: is a resumed one one that took place, and the file what memory says? pages: is one ever shared or lost? do both kernels read the same rows? does `PagedKV` implement `KVRows`? | a file, a bundle of 2 shards, a conversion of 2 tensors; 2 chunks, 2 versions, 2 attempts, 2 writers. 2 tokens, context 4, records of 2 cells, failing truncates and appends. 2 tables, 2 blocks of 2 tokens, 2 layers, up to 4 tokens |
| `gateway` | does a load lose an engine or misfile an answer? do streams end with `[DONE]`, requests end? do cuts change what a client gets? do both readers agree, but for the reasoning? | 2 requests, 1 load, 1 slot, 2 models; replies of up to 4 markers and words and well-formed ones, pieces of up to 4 symbols |
| `desktop` | is a process lost? was every mutation approved by a token with its hash? do the stores keep what they took? do prompts end and does the status settle? | 2 processes, 2 prompts, pipes of 1 frame, 3 sidecars, 2 restarts, 2 sessions, 2 folders, 3 tokens, two writes with one hash, another and a command, 2 values, 5 log records |
| `approval_hash` | was what was carried out what was approved, to the letter? **violated** | the same |

`native_decoder`, by side.  Caches: 2 generations, context 5 in blocks of 2 rows, 3
layers (attention, recurrent, FFN only, routed) and two files that must be
refused, six kinds of cache, levels low, medium and high, 2 heads of 16 channels.
Speculation: 3 tokens, context 6, drafts of 1 to 3, limits 1, 3, 5, three kinds of
weights.  Device: 2 layers, room for 5 resident tensors, 2 forward passes.
Projections: 2 calls, blocks of 8 lanes of 4 values, rows of 6, 32 and 35, six
formats, five kernels, activation sums kept or not.

### Why the bounds are enough

* Scheduler: two slots and a pin distinguish "the slot I asked for" from "any".  A
  request pinned to a busy slot is the head, a second waits behind it while the
  slot it could use is free, a third is refused because the queue of two is full;
  either waiter may time out, hang up or be served first.  The four tickets arrive
  in one order, since which of them is which is only naming, and the pins are to
  slot 0 (`Pins`); `RunsAreBehaviours` says that what is proved covers these runs.
* ExpertStream: two threads race for one cursor and one more job than a batch
  needs; three layers give a prediction, a layer under way and one behind; two
  experts in a cache of one evict at every turn, in a cache of two never.
* PagedKV: two tables contend for two blocks, so the pool runs dry with one and
  with two holders; blocks of two tokens make the last block partial, full and
  just exceeded; a minimum capacity of one makes `block_ids` grow.  One value and
  zero tell a written row from one that was not.
* DecoderKV: three layers give an early exit with layers behind it; a context of
  five over blocks of two has an odd last block; of two generations the second comes
  behind a failed, a short or a full one.  q4 blocks of 16 are whole, and q8 scale
  groups of 24 channels (64 in the code) do not divide a row of 32, so rows are
  padded past their end.  Channels range from -50 to 55 in every head so that no two
  rows fall within half a step of each other.
* Projections: a lane of four values (32 in the code) in blocks of one, two, four
  or eight lanes; a row of 6 ends in the second lane, one of 32 with a block of
  eight lanes, one of 35 in a part of a lane of the second block.  The second call
  meets a buffer the first has used, wider or narrower.
* DecoderDevice: two layers make the device caches a group that can stop in its
  middle; five places for tensors run out in the second layer.
* Speculative: drafts of three tokens let a rejection fall on the first, a middle
  and the last one and let all be accepted; prompts and limits go up to and beyond
  the context.
* GlmDecode: four tokens, of which one spells two bytes and one ends the answer,
  make token and byte boundaries differ; a context of eight is met by the second
  turn; a rejection can fall on any of the drafted tokens.
* KVFile: records of two cells can be torn; a context of four holds two tokens, so
  a conversation can share all, a prefix or nothing with the one before.
* EngineLink: an empty prompt is refused, a short one asks for more tokens than
  the context has left, so both limits act; two calls overlap in every phase, on
  one slot or two; a second token distinguishes a complete answer from one that
  lost its last.  The stderr pipe has room for every line two calls can cause: the
  run says nothing about a full one (section 6).
* Library: two chunks give an empty, a partial and a complete `.part`; two versions
  a remote that changes between attempts; two attempts a retry and a last one (the
  code makes four); two writers a failure beside a write.
* Gateway: two requests and a load are every pair of readers around one writer;
  two models tell the right name from the wrong.  Replies of four markers include
  every pair of nested, unclosed and stray ones; longer ones are the well-formed
  combinations in `MCGateway`.
* Desktop: two processes are an old and a new one; pipes of one frame fill at once;
  three sidecars let a restart meet the setup thread and the exit.  The two writes
  differ in their text only, which is of one length: a token for one fits the other.
  A web search is a group of its own, against the gateway.

`CHECK_DEADLOCK FALSE` stands where the system may stop for good: every request
answered, every generation served, every call returned, the application closed.

### Fairness

* `scheduler`: weak fairness of `Wake`, because `condition.wait` returns after at
  most 0.25 s.  That deadlines pass, and that generations end, are not assumed of
  the specification but are hypotheses of the two halves of `Answered`.
* `engine_link`: weak fairness of the engine's steps (it computes), of the reaping
  of a dead process, of the dispatcher and calling threads and of a close once
  begun.  Nothing obliges a client to call or hang up, a process to die, or anyone
  to call `close`.
* `gateway`: weak fairness of every handler and pump thread.
* `expert_stream`: weak fairness of the main thread, each pool thread, the pilot,
  and of every submitted read's completion: runnable threads run, and the kernel
  answers a read.  No wake-up is assumed that the code does not make.
* `stores`: weak fairness of the download thread and of the conversion's
  thread with its pool, because a server that hangs becomes an error after the 60 s
  timeout.  Nothing obliges a user to resume.
* `desktop`: weak fairness of the command under way, of each reader thread and of
  each engine.  Nothing obliges the user to do anything.

The other specifications have no fairness: they state safety only.

### Four violated runs

`pipe_straggler`.  The load pool publishes a batch by storing the count of jobs
apart from the cursor (c/glm.c:2150).  A thread that loaded the cursor of a drained
batch and then slept can read the count of the next, larger one, win the
compare-and-swap and take a job before it is published: it reads an expert into a
slot of the wrong batch.  With `Straggling = FALSE` (the threads are parked when a
larger batch is published) `expert_stream` holds.

`cuda_fallback`.  When a projection fails under `backend=auto`, `matmul` unloads the
library and says "auto backend returns to CPU" (c/qwanto_decode.c:884-885);
`use_cuda_q8_kv` stays set and the next layer with the q8 cache appends its row
through a null pointer.

`medium_level`.  docs/SETTINGS.md:62 speaks of independent KV conversations, and a
reset is to begin one.  At the medium level, the default
(c/qwn_runtime_config.c:27), `forward` returns at a checkpoint with `position++`
although the later layers have no row of that position (c/qwanto_decode.c:2408), and
the caches by position (paged, fp32, q4) are not cleared by a reset.  In the trace a
first conversation takes its token through all layers, the first token of the second
leaves early, the next goes deeper and attends there to the row the first
conversation left.  `AttentionReadsPrefix`, which `native_decoder` checks at all three
levels, says what holds: in a layer that all tokens of the conversation went through
attention reads their rows, all of them in order, and in a layer that was skipped
the caches that count their rows and the recurrent states still show no other
conversation's.

`approval_hash`.  docs/security-model.md:20-21 says that the hash of an approval token
covers the exact arguments.  That of `write_file` covers path, length and number of
lines (tool_executor.rs:136), that of `edit_file` the two lengths (249), that of a
command not its directory (466).  In the trace a token approved for one text lets
another of its length be written.  `MutationsAreApproved`, which `desktop` checks with
the same two writes, promises no more than the hash does: session, tool, hash,
folder, age, mode and single use.

## 4. What is proved

tlapm checks every step of these proofs; they hold for every value of the
constants that meets the named `ASSUME` of the module.  Every safety property of a
run is proved but two invariants (end of this section).  None of them is
inductive as it stands; what each needs beside itself is the argument.

**SchedulerProofs** (`CapacityAssumption`, `MaxQueueAssumption`, `PinsAssumption`):
`TypeCorrect`, `SlotsAreExclusive`, `SlotsAreAccounted`, `QueueIsExact`, and
`SlotsAlwaysAccounted`, which joins them to the property of the run.  The
inductive invariant is `SchedInv`, the conjunction of the four: `Release` keeps
`freeSlots` a set of slots only if a running request holds a real slot (the
ledger); a slot taken from `freeSlots` is new to the running ones only if the
ledger says what is free; and a ticket that leaves is found in the deque only if
the deque is the waiting tickets.  `KeepsItsPromise` (with `NobodyAssumption`: the
mark of a free slot is not a request) is the refinement of `SlotAdmission`: the
abstract line is the deque itself, a wake-up at its head is a grant, one that finds
the scheduler closed or late leaves the line, and all else is a stutter.  The
theorems are about `Spec`, with any pin and any order of arrival; the run's
specification implies it (`RunsAreBehaviours`).

**GatewayProofs** (`GatewayAssumption`): `AlwaysSettled`, `CacheAlwaysFiled`,
`StreamsEndWithDone`.  `LoadInv` says of every step of a load which attributes it
has already replaced (`LoadPhase`): the engine not closed is the one named until it
is dropped, and none is from there until the new one is announced.  `RequestsInv`
adds for each request `Flow` (its pump is joined before the final chunk; what the
wire has had) and `Held`: a request that read the engine while no load was under
way, and has seen none begin, has what the server has.  Only that makes the name
read at the end (`Put`) the one of the model that generated.

*And of the parser* (`ParserAssumption`: a reply is made of the symbols of
replies, none of which is the quote JSON puts around a string).
`ChunksNeverMatter`: where the engine cuts a reply makes no difference.
`ParserInvariant` adds only what holds before the first piece; the work is in what a
turn of the loop does with more of the text.  A marker
found is found at the same place when more text follows, and no two markers begin
at one place (`FindOfMore`, `PlacesDiffer`), so a turn that finds one commutes with more
text (`TookMore`).  A turn that finds none keeps three symbols, as many as the
longest marker has, so that none begins in what it lets go (`FindOfRest`), and what
it says then and later is what it would have said at once, the JSON escapes included
(`SaidInTwo`, `EscapedJoins`); the next turn is therefore the same (`IdledMore`).
The loop over a text and then over more is the loop over the whole (`LoopInTwo`, by
induction on the length of the buffer, each marker taken shortening it).
`EveryCallClosed`: `WellTold` says that the calls before the one under way are
closed objects and that its own arguments are open, with an odd number of quotes
exactly inside a string; a turn, a loop and more text keep it (`TurnTold`,
`LoopTold`, `PlusTold`), and `finalize` writes what is missing (`FlushedIs`).

**EngineLinkProofs** (`EngineAssumption`).  `OneAnswerAlways`, for *any* engine: it
uses nothing of `MuxServer` and `QwnServe` but that they leave the gateway's
variables alone.  `LinkInv` says of every call in progress that it is `Owed` one
answer, in the table, in the dispatcher's hand or in its queue.  `SlotsAlwaysFit`
needs both engines: `FlowInv` adds that the engine has no more of the gateway than
was written to it (`Speaks`, `Silent`), that SUBMIT is the first it hears of an id,
that two requests it holds are on two slots and each on the slot of its call
(`Apart`), that a call returns while the engine has its request only when `close`
is at work (`Owned`), and that a request decoded has room (`Room`).
`DoneAlwaysComplete` follows the tokens of a call from the engine's counter through
the pipe, the hand and the queue to the client (`ChainInv`): there is a function
along the pipe that says how many were passed on at each place (`Tells`).

**GlmProofs** (`GlmAssumption`): `OutputAlwaysTheTargets`, `CachesAlwaysFollow`,
`AnswersAreKept`, for every grammar and every walker, draft length, context and set of
prompts.  `GlmInv` joins the three properties of the run to what holds within a
decode (`Decoding`): the slot's history is the prompt and the answer, the logits are
those after it, and what the answer may still take, with a whole batch of drafts,
fits in the context, so no row is written past it (`InContext`).  The rows of a slot
beyond its history are left *arbitrary*: a rejected draft stays there, and what saves
the next reader is that every forward pass writes its rows from the history's end
before it reads them (`ForwardFollows`), and that the device's copy is never longer
than what it agrees with (`SoundCopy`), which every cut of the history and every
change of slot has to restore (`BeginKeeps`, `PromptKeeps`, `RoundIs`).  A pass over
several tokens is a recursive function; that each of its rows is the history's is
proved by refuting the least position at which it would not be.

**ExpertStreamProofs** (`StreamAssumption` and those of the modules under it):
`MultipliesTheRightExpert`, `CacheStaysTruthful`, both under `Straggling = FALSE`,
because `pipe_straggler` shows them false without it.  `IInv` has the pool
(`PoolInv`: a thread that has taken a job has an index below the cursor that nobody
else has and no `ready` mark; between batches nobody has one, and a cursor that was
read fresh lies below the count), the caches (`CacheInv`: reservations of the ring
are the reads in flight, and `inflight` counts them per layer), the forward pass
(`MainInv`: where each expert of the block is to be found) and `Waited`: what has
been multiplied or is next was waited for.  Pilot and forward pass do not collide
because `inflight` of the layer computed is zero and stays so.

**NativeProofs**.  For `PagedKV` (`PoolAssumption`): `PoolTypeCorrect`,
`PagesAreOwnedOnce`, `PagesAreNeverLost`, `TablesAreExact`, and
`BlocksAlwaysAccounted`.  `PoolInv` adds a shape for every table, dead ones included
(a dead one holds nothing; a live one holds the blocks its tokens need and not more
than its capacity).  The step that needs it is `TableFree`: `qwn_kv_pool_free_block`
drops a block when the stack looks full, and only because every page is owned once
do the stack and a table together fit in it (`FitsPool`, `PushedWhole`).
`KernelsAlwaysAgree`: rows gathered block by block are those read in place; where a
proof by induction on the position would be natural, the least position at which
they differ is refuted.  `PagingIsInvisible` is the refinement of `KVRows`: a row
written through a table changes the row of that request, layer and position and no
other, because `Locate` is injective on owned pages.

For `DecoderKV` over the pool and the row formats (`DecoderAssumption`,
`RowAssumption`, `FormatAssumption`): `AttentionAlwaysReadsPrefix`, at every level
and in every mode, without a condition of the theorem's own.  The property itself
says where attention reads the whole prefix: in a layer that all tokens of the
generation went through (`seen.whole`; a gap of the medium level is run
`medium_level`) and, in the q4 cache, for heads that fill their groups
(`HeadsFillBlocks`: the code accepts others too, section 6).  `KVInv` adds to
`PoolInv` what each layer has taken up (`Generating`): unless a forward pass failed,
every layer below `depth`, the first that a token of this generation skipped, keeps,
in the form of its mode, the rows of the generation's tokens up to the position
(`Follows`), the layers before the one in progress the row of its token too; every
layer holds rows of this generation only where its cache counts or its state recurs
(`Owns`); and from `depth` on the q8 caches have fallen behind the position
(`Short`), so that their next append is refused rather than put in the wrong place. 
Of a store that failed nothing is said until the next reset, and nothing needs to
be.  For the packed caches the rest is a round trip, proved for every row: what
`Pack` put in a nibble `Unpack` finds there, a value comes back within half a step,
`GetBits` reads the code that `PaperToken` wrote whatever bytes it straddles; so
attention recognises the row that was kept (`Q8Kept`, `Q4Kept`).  That it recognises
no other row is `RowsDiffer`, an assumption on the rows of the instance that TLC
evaluates.  `MseBits` is one less than the 2 to 5 bits that
`qwn_turboquant_paper_init` admits (c/qwanto_turboquant.c:880).

For `Speculative` (`SpecAssumption`): `Inductive`, `TypeAlways`,
`OutputAlwaysTargets`, `DraftAlwaysInStep`, and `Refinement`: speculative generation
implements `Decode`.  `SpecInv` has one conjunct per phase of a round: the history is
the prompt, the output and the burst; the head has taken in exactly the history and
the drafts; snapshot k is the head after k drafts.  The last makes `Restore` right:
`RejectInv` winds the head back to a snapshot and needs its rows, which were *not*
saved, to be those of the accepted prefix still.

For `DecoderDevice`
(`DeviceAssumption`): `NothingEverLeaks` from `MemoryInv` (before the file is opened
nothing is held; after every step and every `goto fail` the pointers are what is
live) and `CudaOrNothingAlways` from `DeviceInv` (opening goes past the device only
with a context and, for a q8 cache, the device's caches).

For `Projections` (`WeightsAssumption`, `ProjectionsAssumption`): `ProductsAlwaysTrue`.
The state needs little, only the shape of the buffer (`ScratchShape`), because every
kernel that reads the buffer has it loaded anew (`Loaded`: bytes, zero past the row,
sums that are those of the lanes); the work is in what one call computes.
* Sums.  `Total` is a loop, written as a recursive function, so what it computes is
  proved without an induction theorem over operators: a set of naturals that holds 0
  and the successor of each of its members holds them all.  From that come sums of
  linear combinations (`TotalCombines`) and sums taken part by part (`TotalParts`).
* Rows.  A code read from its byte is the code packed there (`CodeOfPacked`), the
  multiplier likewise (`TimesOfPacked`), so that a stored row reads as the weights
  chosen for it (`WeightIs`, `RowReads`).
* Kernels.  With codes of at most 15 and activations of at most 127 no pair of products
  leaves 16 bits, so `Saturated` is the identity there (`PairsIs`); adding a constant to
  the codes and taking the constant's share away again changes nothing; a lane that
  ends past the row adds only zeros (`LanePart`); lanes make a block and blocks a row
  (`BlockPart`, `RowOfBlocks`).

**StorageProofs**.  For `KVFile` (`KVFileAssumption`): `DiskFollowsMemory`, an action
property from `DiskInv`: rows counted in memory are in the file, and so are those
written since, cell by cell.  `ResumesWhatWas` is under `OneEngine`, one context and one
record layout, because with two of either it is false (section 6); that no call has
failed is part of the property.  Its invariant `CoherentInv` must allow a file that
counts more than would be resumed and is written over under that count.  For
`Download` and `Conversion`, together as the gateway runs them (`DownloadAssumption`,
`ConversionAssumption`): `LibraryAlwaysWhole`.  `DownloadInv` says where the thread is
in its list (`Course`), that a shard passed is in place unless a client took it away
(`InPlace`), and that a shard of the marker is fetched only if it is not there
(`Marked`); `ConversionInv` that the writers write the file of the conversion under
way and nothing after its tail, and that it is whole under each of its names in turn
(`PoolWrites`, `StagesWhole`).

**DesktopProofs** (`StoresAssumption`, for the stores only). 
`MutationsAlwaysApproved` from `PolicyInv`: the token of a deed has left the
registry, and it has the hash of the deed, which fixes the file and the query but
not the texts or a command's directory (`approval_hash`).  `NothingIsEverLost` from
`ProcessInv`: a start has killed what was there before it spawns, and a running
status without a process has a reader left to correct it; `StatusAlwaysSettles` is
an action property over the same. `StoresAlwaysHold` from `StoreInv`: what is left
of a command is always one of a few lists of operations (a text, an entry of the
registry, a package and its entry, a record), and each says what the files are
already and will be: the temporary file is whole before it is renamed, the package
is written before its entry, and a log dropped leaves the end of a run of records,
which is a run.

**Only model-checked**, and why.

* Liveness under fairness, and `ENABLED`: `Answered`, `ForwardEnds`,
  `EveryCallReturns`, `JobsEnd`, `EveryRequestEnds`, `PromptsEnd`.
* `StreamedAsWhole` (`StreamParser`): the two readers find the same in replies of the
  form the prompt asks for only (after the reasoning, which only a stream shows as
  content), and that form is a set the run gives (`InForm`), not a grammar a theorem
  could speak of; the whole-reply readers are induction over data.
* `WalkerKnowsLanguage` (`Grammar`): the module has RECURSIVE operators.

## 5. What the models leave out

* Scheduler: the wording of errors and the wait time reported; `snapshot` reads.
* Gateway: different prompts (all requests share one, so that the cache matters),
  the expiry and size limit of the cache, read-only endpoints, settings, presets,
  the shutdown, two loads at once (section 6).
* StreamParser: the salvage of malformed calls (off by default), trimming of blanks.
* MuxServer, QwnServe: malformed frames, which the gateway never writes; end of
  stdin, which it never closes; debugging verbs; a stdin pipe that fills.
* GlmDecode: the rows of the MTP head, which decide only what it drafts; the scan of
  GBNF text and the translation of a JSON schema.
* ExpertStream: attention and arithmetic, the GPU tiers (tier.h, sched.h), repinning
  between requests, advisory prefetches, a spurious failure of the weak
  compare-and-swap.
* PagedKV and DecoderKV: the arithmetic on the rows; what experts, norms and the
  recurrence compute; FORWARD and MTP_FORWARD; the
  failure of the `malloc` in `qwn_decoder_reset`, whose result is ignored; half
  precision of scales, the rotation and sketch of the paper cache.
* DecoderDevice: what tensors hold, the checks of the file's tables, the legacy
  COLI_CUDA build.
* Weights, Projections: half precision and floating-point rounding; the imported K
  and IQ formats, half and single precision rows; several tokens in one call (the
  decoder projects one); the kernels of `backend_cuda.cu`; `qwanto_gpu.c`.
* KVFile: a machine crash (no fsync is done) and a disk that fills.
* Speculative: the two-model path, which `qwn_speculative_init` refuses
  (c/qwn_speculative.c:232-234); a random draw of exactly 0; the counters.
* Library: speed and disk limits, provider catalogues, URL checks, readers of source
  formats; two requests to start at the same instant (section 6).
* Desktop: a frame cut in its middle, the wording of events, latency figures, how a
  path is resolved, shell metacharacters, tool output, redaction of secrets; Tauri's
  main thread and the user interface are external.

## 6. Remarks on the code

Met while modelling, and not stated as properties of a run.

*Scheduler.* With `max_queue` 0 a ticket pinned to a busy slot waits while another
slot is free (c/openai_server.py:670), although docs/SETTINGS.md:60 calls the
setting "Max queued requests".

*Gateway.* A generation that overlaps a load may be filed under the wrong model
(c/openai_server.py:3355); the cache's key lacks `max_tokens`; the model named in a
stream can change in its middle.  A request admitted by the old scheduler uses the
new engine's slot unscheduled.  Two loads at once forget an engine
(c/openai_server.py:1986), and `serve` closes only the one it started with.  The
ready line is printed before the model is loaded (3650).  After an exception the
pump goes on, and the error is written without `ka_lock`, against the comment at
3373-3374.

*Replies.* An argument the schema does not declare is a string in a stream and JSON
in a whole reply; a value that is not JSON under an integer key is streamed raw;
content is stripped only in whole replies.  A call without a name is closed by
`finalize` with a lone "}" (1137-1140, "They already got '{'").
`render_chat` ends the prompt with `<think>` (1225), so a reply has reasoning and a
`</think>` without its opening: `StreamParser`, which starts in TEXT, streams both as
content, while `parse_tool_calls` drops them (820-862; `StreamedAsWhole` says just
this).  tests/test_stream_parser.py:47 and 58 feed the opening marker, which a reply
does not have.  The comment at 3421-3423 has the calls of a stream parsed from the
full reply; they are the parser's.

*Engines.* Nobody reads the engine's stderr after start-up (1366); qwnrun and glm
write there after every request, so the pipe fills and every later call blocks
(`StderrRoom = 1, Kinds = {"qwnrun"}, MaxCalls = 3` shows it; a hang is also noted in
c/docs/benchmark-methodology.md:19).  At a full context glm ends a request as
length-limited; qwnrun prints `ERROR generation-failed` after the DATA it has sent.
qwnrun reads a CANCEL only after the generation it should stop.

*glm.* `:more` repeats a token: at the limit the last token shown is not forwarded
(c/glm.c:4273) and MORE chooses it again (5102-5107, comment "la storia e' gia' in
KV").  The MTP head's rows have gaps although comments at 4016 and 4317 call them in
step; only drafts suffer.  The overflow of a plain line (5169) does not reset the
head's start.  The cut at 4297 cannot be met from `run_serve`.

*Expert streaming.* `cap_for_ram` reserves `budget + 4` work slots (comment near
c/glm.c:5733) but the budget is applied only to short batches, so a prefill fills up
to 64; after a repin a layer's cache can keep an expert that is now pinned.

*KVFile.* A conversation too long for a smaller CTX is not resumed but its count
stays in the header while the next is written over it (c/glm.c:4825): with
`Contexts = {4, 6}` a crash and a restart with the larger CTX resume a mixture,
against the comment at 4733-4734.  Two layouts share one path and `kv_disk_open`
reuses a header `kv_disk_load` has rejected (`Layouts = {1, 2}`).  A skipped append
followed by a truncate to a longer prefix raises the count over rows that do not
exist; `DiskIsMemory` excludes it.  `fwrite` is unchecked, with the same effect.

*Native decoder, caches.* Where the medium level leaves a gap (run `medium_level`), the
device's q8 cache refuses the next append.  The q4
cache packs all heads of a row in blocks of 64 values but attention finds head k at
k times its own number of blocks (c/qwanto_turboquant.c:518-546, 723-726): a head
size that is not a multiple of 64 reads another head's block, past the end for the
last token (`HeadDim = 8` shows it).  q8 rows are padded to 64 channels over the
start of the next row, harmless in order, but the last goes past the cache when the
row is no multiple of 64 (576-603; the device's kernel does not pad).  The paged
fp16 branch never calls `apply_attention_gate`, which every other branch does
(c/qwanto_decode.c:2229-2263).  In `forward_moe` the first expert's output replaces
the input of the next (952-1000).  The comment at 1179-1181 promises varying head
sizes that 1459-1471 refuse.

*Native decoder, device.* With `backend=cuda` a failing `o_proj` is skipped in
silence while other projections fail the token.  The fall back of `auto` is also met
by the first projection that is not HyperVSQ-2 and by the 513th tensor.  Under the
legacy COLI_CUDA build `coli_cuda_shutdown` is not called after a failure.

*Weights.* The codes of hyper_vsq2 are -1 to 2 with half the largest magnitude as
step, so the most negative value of a block is clipped to half of itself
(c/tools/qwn_convert.py:443-471), and multipliers rounded down to eighths clip small
lanes.  The zeros that fill the last block take part in its minimum and maximum.
`qwn_row_f32` takes a BYTES row of at least 18 bytes per 32 values for q4_0, half
precision rows too, and so never reaches its half precision branch
(c/qwanto_kernels.c:1637-1655), while `qwn_matmul_q4_0_f32` asks for equality and
reads bf16 (1230-1275).  `has_vnni` is also set for processors with AVX512-VNNI only
(106, 124) but the kernels are compiled for AVX-VNNI.  The kernels for vsq,
vsq_ultra and hyper_vsq in vectors are not reached from `qwn_matmul_f32`.

*Speculative.* A draw of exactly 0 accepts a token of probability 0
(c/qwn_speculative.c:454).  DONE counts the end-of-sequence token in this path but
not in plain decoding.  Tokens accepted in a round are lost when its bonus token
meets the context limit; drafting beyond the context fails a generation plain
decoding would have continued (which is why `Decode` lets a generation fail).

*Library.* A gateway killed between the rename of a shard and the marker leaves a
bundle every later run refuses, although the docstring at
c/model_acquisition.py:580-585 says it can be resumed.  A `.part` that is already
complete meets 416 at every attempt.  Status test and set are two critical sections
(379), so two simultaneous starts both run.  A cancel during hashing is ignored and
the model published, against docs/model-acquisition-design.md:67-68.  A download
named like a conversion's staged file shares its `.part`.  `source_sha256` is
computed after the conversion.  `validate_qwn` does not look at payloads.  A late
cancel or a failing manifest is reported as such with the output already replaced. 
Presets and managed paths are read, changed and written by concurrent handlers
without a lock (c/openai_server.py:2763-2795, 3087-3130).

*Desktop.* The end of an old process, read late, changes the status of the new one,
and an old DONE names the new model.  ERROR never takes a request out of the table
and the end of a process reports none of its prompts.  `redact_secrets` does not end
on a text with a database URL that holds a password, with the policy's mutex held
(permission_policy.rs:318).  `&redacted[..]` may cut inside a character
(tool_executor.rs, near 550).  A search
spends its approval when the gateway is not ready.  A reinstallation cut short leaves
the old entry over the new package.  A log line cut before its end is joined to the
next.

## 7. Hazards

`PROJECT.json` "hazards" lists, at its line, what in this code is hard to test:
interleavings of `admit`, `close` and releases; a lock-free cursor and a pilot that
reads ahead; attributes replaced under handlers; the dispatcher's look-up and put
with a close between; crashes between two writes; retries on what a dead run left;
buffers shared by two heads or by all projections; rows that outlive a rejected
draft; tokens of approval used later than issued; counters at their limit.  Each
names the properties that would catch it.  Five have none, with the
reason: the expert loop of `forward_moe` (arithmetic), two simultaneous starts of a
download, `redact_secrets` (text), the tokens a speculative round loses at the end of
the context (`Decode` may fail anywhere), and an undrained stderr (the run's pipe has
room).  Hazards that share a line of reasoning are one entry
that names both lines.

## 8. Plan

Done: every module of section 2, the runs of section 3, the proofs of section 4.

Left, in this order:

1. Proofs: `StreamedAsWhole`, once the form of a reply is a grammar of the model.
2. Modelling: two loads at once and the shutdown in `Gateway`; the repinning of
   experts and the GPU tiers; several tokens in one call of `Projections`; the checks
   of the container's tables.

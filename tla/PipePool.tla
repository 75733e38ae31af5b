------------------------------ MODULE PipePool ------------------------------
(***************************************************************************)
(* The expert-load pool of c/glm.c (PIPE=1): I/O threads read the weights  *)
(* of a batch of experts into the work slots ws[] while the forward pass   *)
(* multiplies the experts that are there already.                          *)
(*                                                                         *)
(* Jobs are handed out by a lock-free cursor (generation, index) that the  *)
(* workers advance by compare-and-swap; every load and store of an atomic  *)
(* is a step here, in program order (the code's acquire and release pairs  *)
(* allow no other order between them on one thread).  The generation is a  *)
(* 56-bit counter that is only ever compared with the current one and, by  *)
(* its width, never comes round: what is kept of it is whether a thread    *)
(* loaded the cursor since the last publication (fresh), which stands for  *)
(* its local `seen` and for the generation in its copy c of the cursor.  A *)
(* spurious failure of the weak compare-and-swap repeats the loop and is   *)
(* left out.                                                               *)
(***************************************************************************)
EXTENDS Integers, Sequences, FiniteSets, SequencesExt

CONSTANTS
    Workers,   \* the I/O threads
    Setups,    \* how the process may be started: back end (URING, PIPE), I/O threads
               \* (PIPE_WORKERS), hints at a layer (PILOT_K), slots of its cache
    Experts,   \* the experts of a layer
    LastLayer, \* layers 0 .. LastLayer have experts; the last one is the MTP head's
    Block,     \* jobs in a batch: 64 in the code
    Straggling \* FALSE: a batch larger than the last one waits for idle workers

ASSUME PoolAssumption ==
    /\ IsFiniteSet(Workers)
    /\ Setups \subseteq [backend : {"threads", "uring", "serial"},
                         threads : SUBSET Workers, hints : Nat, ecap : Nat \ {0}]
    /\ LastLayer \in Nat /\ Block \in Nat \ {0}
    /\ Straggling \in BOOLEAN

Layers  == 0 .. LastLayer
Jobs    == 0 .. Block - 1
Weights == Layers \X Experts  \* what a slot holds once a load has ended
Half    == <<-1, "half loaded">>
Nobody  == "no expert"

VARIABLES
    setup,      \* the one of Setups this process has: it never changes
    cur,        \* the index in the cursor
    njobs,      \* jobs of the current batch
    batchLayer, \* layer
    eids,       \* expert ids, by job
    ready,      \* the jobs whose load-done flag is set
    ws,         \* what the work slots hold
    worker,     \* the threads: where each is, and its locals (c: index loaded)
    call        \* pipe_dispatch on the main thread: where it is, its arguments

poolVars == <<setup, cur, njobs, batchLayer, eids, ready, ws, worker, call>>

Idle == [at |-> "idle", layer |-> 0, list |-> <<>>]

PoolInit ==
    /\ setup \in Setups
    /\ cur = 0 /\ njobs = 0
    /\ batchLayer = 0 /\ eids = [i \in Jobs |-> Nobody] /\ ready = {}
    /\ ws = [i \in Jobs |-> Half]
    /\ worker = [w \in Workers |->
         [at |-> "park", fresh |-> TRUE, c |-> 0, layer |-> 0, eid |-> Nobody]]
    /\ call = Idle

----------------------------------------------------------------------------
(* The worker thread.                                                      *)

At(w, label) == worker[w].at = label

\* Under the mutex: sleep while there is no new generation.
Park(w) ==
    /\ At(w, "park")
    /\ worker' = [worker EXCEPT ![w].at =
                    IF worker[w].fresh THEN "asleep" ELSE "cursor"]
    /\ UNCHANGED <<setup, cur, njobs, batchLayer, eids, ready, ws, call>>

LoadCursor(w) ==
    /\ At(w, "cursor")
    /\ worker' = [worker EXCEPT ![w].at = "check", ![w].c = cur, ![w].fresh = TRUE]
    /\ UNCHANGED <<setup, cur, njobs, batchLayer, eids, ready, ws, call>>

\* The bound is another atomic, read after the cursor: drained, or try.
CheckCount(w) ==
    /\ At(w, "check")
    /\ worker' = [worker EXCEPT
         ![w].at = IF worker[w].c >= njobs THEN "park" ELSE "grab",
         ![w].c  = IF worker[w].c >= njobs THEN 0 ELSE @]
    /\ UNCHANGED <<setup, cur, njobs, batchLayer, eids, ready, ws, call>>

Grab(w) ==
    /\ At(w, "grab")
    /\ IF worker[w].fresh /\ cur = worker[w].c
       THEN /\ cur' = cur + 1
            /\ worker' = [worker EXCEPT ![w].at = "layer"]
       ELSE /\ UNCHANGED cur
            /\ worker' = [worker EXCEPT ![w].at = "cursor", ![w].c = 0]
    /\ UNCHANGED <<setup, njobs, batchLayer, eids, ready, ws, call>>

ReadLayer(w) ==
    /\ At(w, "layer")
    /\ worker' = [worker EXCEPT ![w].at = "eid", ![w].layer = batchLayer]
    /\ UNCHANGED <<setup, cur, njobs, batchLayer, eids, ready, ws, call>>

\* The expert id is read and expert_load starts to overwrite the slot.
BeginLoad(w) ==
    /\ At(w, "eid")
    /\ worker' = [worker EXCEPT ![w].at = "load", ![w].eid = eids[worker[w].c]]
    /\ ws' = [ws EXCEPT ![worker[w].c] = Half]
    /\ UNCHANGED <<setup, cur, njobs, batchLayer, eids, ready, call>>

\* Two threads that load into one slot leave a mixture.
LoadsAlone(w) ==
    \A v \in Workers \ {w} : At(v, "load") => worker[v].c # worker[w].c

\* expert_load returns (an I/O error ends the process: fatal is 1) and the
\* ready flag is set.
EndLoad(w) ==
    /\ At(w, "load")
    /\ LET i == worker[w].c IN
       /\ ws' = [ws EXCEPT ![i] = IF LoadsAlone(w) THEN <<worker[w].layer, worker[w].eid>>
                                  ELSE Half]
       /\ ready' = ready \cup {i}
    /\ worker' = [worker EXCEPT ![w].at = "cursor", ![w].c = 0,
                                ![w].layer = 0, ![w].eid = Nobody]
    /\ UNCHANGED <<setup, cur, njobs, batchLayer, eids, call>>

Worker(w) ==
    \/ Park(w) \/ LoadCursor(w) \/ CheckCount(w) \/ Grab(w)
    \/ ReadLayer(w) \/ BeginLoad(w) \/ EndLoad(w)

----------------------------------------------------------------------------
(* pipe_dispatch on the main thread: relaxed stores, then the release store *)
(* of the cursor, then the wake-up.  The caller sets call.                 *)

Dispatching(label) == call.at = label
Goes(label) == call' = [call EXCEPT !.at = label]

\* No worker can still be between its loads of the cursor and of the count.
Quiet == \A w \in setup.threads : worker[w].at \in {"park", "asleep"} /\ worker[w].fresh

StoreCount ==
    /\ Dispatching("count") /\ Goes("layer")
    /\ Straggling \/ Len(call.list) <= njobs \/ Quiet
    /\ njobs' = Len(call.list)
    /\ UNCHANGED <<setup, cur, batchLayer, eids, ready, ws, worker>>

StoreLayer ==
    /\ Dispatching("layer") /\ Goes("eids")
    /\ batchLayer' = call.layer
    /\ UNCHANGED <<setup, cur, njobs, eids, ready, ws, worker>>

StoreEids ==
    /\ Dispatching("eids") /\ Goes("reset")
    /\ eids' = [i \in Jobs |-> IF i < Len(call.list) THEN call.list[i + 1] ELSE eids[i]]
    /\ UNCHANGED <<setup, cur, njobs, batchLayer, ready, ws, worker>>

\* Mutant of ResetReady: the flags of the last batch stay.
ResetReadyNot ==
    /\ Dispatching("reset") /\ Goes("publish")
    /\ UNCHANGED <<setup, cur, njobs, batchLayer, eids, ready, ws, worker>>

ResetReady ==
    /\ Dispatching("reset") /\ Goes("publish")
    /\ ready' = {i \in ready : i >= Len(call.list)}
    /\ UNCHANGED <<setup, cur, njobs, batchLayer, eids, ws, worker>>

\* A new generation, with index 0.
Publish ==
    /\ Dispatching("publish") /\ Goes("wake")
    /\ cur' = 0
    /\ worker' = [w \in Workers |-> [worker[w] EXCEPT !.fresh = FALSE]]
    /\ UNCHANGED <<setup, njobs, batchLayer, eids, ready, ws>>

\* Mutant of Wake: nobody is woken.
WakeNobody ==
    /\ Dispatching("wake") /\ call' = Idle
    /\ UNCHANGED <<setup, cur, njobs, batchLayer, eids, ready, ws, worker>>

\* The broadcast, under the mutex.
Wake ==
    /\ Dispatching("wake") /\ call' = Idle
    /\ worker' = [w \in Workers |-> [worker[w] EXCEPT !.at = IF @ = "asleep" THEN "park" ELSE @]]
    /\ UNCHANGED <<setup, cur, njobs, batchLayer, eids, ready, ws>>

Dispatch == StoreCount \/ StoreLayer \/ StoreEids \/ ResetReady \/ Publish \/ Wake
=============================================================================

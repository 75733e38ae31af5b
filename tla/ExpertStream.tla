---------------------------- MODULE ExpertStream ----------------------------
(***************************************************************************)
(* A forward pass of c/glm.c over its MoE layers, with the experts'        *)
(* weights streamed from disk: the main thread (moe and the loops around   *)
(* it) over the load pool (PipePool) and the pilot (Pilot).  Attention and *)
(* the arithmetic leave the slots alone and are left out, as are the GPU   *)
(* tiers; what the router chooses and predicts is left open.               *)
(***************************************************************************)
EXTENDS Pilot

CONSTANTS
    TopK,       \* experts a layer may choose, over all positions of the batch
    CoupleDepth \* layers ahead that couple_prefetch predicts (g_couple_d)

ASSUME StreamAssumption ==
    /\ TopK \in Nat \ {0} /\ CoupleDepth \in Nat
    /\ IsFiniteSet(Experts) /\ Nobody \notin Experts

VARIABLE main  \* the main thread: where it is, and its locals

streamVars == <<poolVars, pilotVars, main>>

MtpLayer == LastLayer   \* the layer of the MTP head follows the model's own

Between == [at |-> "idle", layer |-> 0, hints |-> 0, todo |-> {},
            block |-> <<>>, use |-> <<>>, misses |-> <<>>, j |-> 0]

StreamInit == PoolInit /\ PilotInit /\ main = Between

Main(label) == main.at = label

----------------------------------------------------------------------------
(* Which slot an expert of the block is computed from: looked up once per   *)
(* block, then kept as a pointer (use[j]) through the loads and the matmuls. *)

Hit(e) == PinnedAt(main.layer, e) \/ Found(main.layer, e) # {}

\* The first slot of the cache that names e; a pinned expert comes first; a
\* miss is job q of the block's batch.
Use(e, misses) ==
    IF PinnedAt(main.layer, e) THEN [in |-> "pin", at |-> 0]
    ELSE IF Hit(e) THEN [in |-> "ecache", at |-> CHOOSE z \in Found(main.layer, e) :
                                            \A y \in Found(main.layer, e) : z <= y]
    ELSE [in |-> "ws", at |-> (CHOOSE q \in DOMAIN misses : misses[q] = e) - 1]

\* What the slot of the j-th expert holds: pinned experts never change here.
Holds(j) ==
    LET u == main.use[j]
    IN  CASE u.in = "pin"    -> <<main.layer, main.block[j]>>
          [] u.in = "ecache" -> ecache[main.layer][u.at].holds
          [] u.in = "ws"     -> ws[u.at]

----------------------------------------------------------------------------
EnterLayer(l) == main' = [Between EXCEPT !.at = "predict", !.layer = l, !.hints = setup.hints]

\* layers_forward: a new pass takes the layers from the first one again.
BeginForward ==
    /\ Main("idle") /\ LastLayer > 0
    /\ curLayer' = -1 /\ EnterLayer(0)
    /\ UNCHANGED <<poolVars, ecache, ring, inflight, pilot>>

\* mtp_draft, mtp_absorb: the MTP layer alone, the layer taken stays.
BeginMtp ==
    /\ Main("idle")
    /\ EnterLayer(MtpLayer)
    /\ UNCHANGED <<poolVars, pilotVars>>

\* pilot_prefetch before moe, couple_prefetch after the routing.
Predict ==
    /\ main.at \in {"predict", "couple"} /\ main.hints > 0
    /\ \E d \in 1 .. (IF Main("predict") THEN 1 ELSE CoupleDepth), e \in Experts :
          main.layer + d < MtpLayer /\ Hint(main.layer + d, e)
    /\ main' = [main EXCEPT !.hints = @ - 1]
    /\ UNCHANGED poolVars

\* The barrier at the start of moe: no new read of this layer begins ...
TakeLayer ==
    /\ Main("predict")
    /\ curLayer' = main.layer
    /\ main' = [main EXCEPT !.at = "drain", !.hints = 0]
    /\ UNCHANGED <<poolVars, ecache, ring, inflight, pilot>>

\* Mutant of Drained: reads in flight are not waited for.
DrainedAtOnce ==
    /\ Main("drain")
    /\ \E chosen \in SUBSET Experts :
          /\ chosen # {} /\ Cardinality(chosen) <= TopK
          /\ main' = [main EXCEPT !.at = "couple", !.hints = setup.hints, !.todo = chosen]
    /\ UNCHANGED <<poolVars, pilotVars>>

\* ... and those that have begun are waited for.  Then the router chooses.
Drained ==
    /\ Main("drain") /\ inflight[main.layer] = 0
    /\ \E chosen \in SUBSET Experts :
          /\ chosen # {} /\ Cardinality(chosen) <= TopK
          /\ main' = [main EXCEPT !.at = "couple", !.hints = setup.hints, !.todo = chosen]
    /\ UNCHANGED <<poolVars, pilotVars>>

\* The next block of the chosen experts, each resolved to a slot; in which
\* order they and the misses among them come is SetToSeq's.
NextBlock ==
    /\ Main("couple") \/ (Main("promoted") /\ main.todo # {})
    /\ \E block \in SUBSET main.todo :
          /\ Cardinality(block) = IF Cardinality(main.todo) < Block
                                  THEN Cardinality(main.todo) ELSE Block
          /\ LET order  == SetToSeq(block)
                 misses == SetToSeq({e \in block : ~Hit(e)})
             IN  main' = [main EXCEPT !.at = "resolved", !.hints = 0, !.j = 1,
                            !.todo = @ \ block, !.block = order, !.misses = misses,
                            !.use = [j \in DOMAIN order |-> Use(order[j], misses)]]
    /\ UNCHANGED <<poolVars, pilotVars>>

\* The misses are read: handed to the pool, to io_uring, or read at once.
StartLoads ==
    /\ Main("resolved")
    /\ IF main.misses = <<>> \/ setup.backend = "threads" THEN UNCHANGED ws
       ELSE ws' = [q \in Jobs |-> IF q >= Len(main.misses) THEN ws[q]
                     ELSE IF setup.backend = "serial" THEN <<main.layer, main.misses[q + 1]>> ELSE Half]
    /\ IF main.misses = <<>> \/ setup.backend = "threads" THEN UNCHANGED ready
       ELSE ready' = {q \in ready : q >= Len(main.misses)} \cup
                     {q \in Jobs : setup.backend = "serial" /\ q < Len(main.misses)}
    /\ IF main.misses = <<>> \/ setup.backend # "threads" THEN UNCHANGED call
       ELSE call' = [at |-> "count", layer |-> main.layer, list |-> main.misses]
    /\ main' = [main EXCEPT !.at = "experts"]
    /\ UNCHANGED <<setup, cur, njobs, batchLayer, eids, worker, pilotVars>>

\* io_uring completes the reads of a job, in any order (an error is fatal).
Completes(q) ==
    /\ setup.backend = "uring" /\ main.at \in {"experts", "matmul"}
    /\ q < Len(main.misses) /\ q \notin ready
    /\ ws' = [ws EXCEPT ![q] = <<main.layer, main.misses[q + 1]>>]
    /\ ready' = ready \cup {q}
    /\ UNCHANGED <<setup, cur, njobs, batchLayer, eids, worker, call, pilotVars, main>>

\* pipe_wait for the next expert of the block, if it was a miss.
WaitExpert ==
    /\ Main("experts") /\ call = Idle /\ main.j <= Len(main.block)
    /\ main.use[main.j].in = "ws" => main.use[main.j].at \in ready
    /\ main' = [main EXCEPT !.at = "matmul"]
    /\ UNCHANGED <<poolVars, pilotVars>>

\* Until then it polls (sched_yield).
PollExpert ==
    /\ Main("experts") /\ call = Idle /\ main.j <= Len(main.block)
    /\ main.use[main.j].in = "ws" /\ main.use[main.j].at \notin ready
    /\ UNCHANGED streamVars

Matmul ==
    /\ Main("matmul")
    /\ main' = [main EXCEPT !.at = "experts", !.j = @ + 1]
    /\ UNCHANGED <<poolVars, pilotVars>>

\* The last misses of the block change places with slots of the cache: with
\* new ones while it has room, then with those of the least recently used.
\* What the work slots keep or get is dead: the next batch loads over it.
Promote ==
    /\ Main("experts") /\ call = Idle /\ main.j > Len(main.block)
    /\ LET l     == main.layer
           cache == ecache[l]
           n     == Len(cache)
           last  == Len(main.misses) - 1   \* job of the a-th one: last - a
           promo == IF Len(main.misses) < setup.ecap THEN Len(main.misses) ELSE setup.ecap
           grow  == IF promo < setup.ecap - n THEN promo ELSE setup.ecap - n
       IN \E to \in [0 .. promo - 1 -> 1 .. n + grow] :
            /\ IsInjective(to) /\ \A a \in 0 .. grow - 1 : to[a] = n + a + 1
            /\ ecache' = [ecache EXCEPT ![l] = [z \in 1 .. n + grow |->
                 IF \E a \in DOMAIN to : to[a] = z
                 THEN LET q == last - CHOOSE a \in DOMAIN to : to[a] = z
                      IN  Slot(main.misses[q + 1], FALSE, ws[q])
                 ELSE cache[z]]]
    /\ ws' = [q \in Jobs |-> Half]
    /\ main' = [main EXCEPT !.at = "promoted", !.block = <<>>,
                            !.use = <<>>, !.misses = <<>>, !.j = 0]
    /\ UNCHANGED <<setup, cur, njobs, batchLayer, eids, ready, worker, call,
                   ring, curLayer, inflight, pilot>>

\* The next layer; the pass ends with the last of the model's own, or with the
\* MTP layer.
NextLayer ==
    /\ Main("promoted") /\ main.todo = {}
    /\ IF main.layer + 1 < MtpLayer THEN EnterLayer(main.layer + 1) ELSE main' = Between
    /\ UNCHANGED <<poolVars, pilotVars>>

MainStep ==
    \/ Predict \/ TakeLayer \/ Drained \/ NextBlock \/ StartLoads
    \/ WaitExpert \/ Matmul \/ Promote \/ NextLayer
    \/ (Dispatch /\ UNCHANGED <<pilotVars, main>>)

PoolStep(w) == w \in setup.threads /\ Worker(w) /\ UNCHANGED <<pilotVars, main>>
PilotStep   == PilotThread /\ UNCHANGED <<poolVars, main>>

StreamNext ==
    \/ BeginForward \/ BeginMtp \/ MainStep \/ PollExpert
    \/ \E w \in Workers : PoolStep(w)
    \/ PilotStep
    \/ \E q \in Jobs : Completes(q)

\* Every thread runs, and reads end, well or badly.
StreamFairness ==
    /\ WF_streamVars(MainStep)
    /\ \A w \in Workers : WF_streamVars(PoolStep(w))
    /\ WF_streamVars(PilotStep)
    /\ \A q \in Jobs : WF_streamVars(Completes(q))

StreamSpec == StreamInit /\ [][StreamNext]_streamVars /\ StreamFairness

----------------------------------------------------------------------------
(* An expert is multiplied only with its own weights, all of them read:      *)
(* neither the pool's stragglers nor the pilot ever write a slot the main    *)
(* thread reads (moe of c/glm.c; the comments at 1258-1259, no half-loaded   *)
(* slot is ever multiplied, and at 2107-2109).                               *)
RightExpert ==
    Main("matmul") => Holds(main.j) = <<main.layer, main.block[main.j]>>

(* A cache slot that names an expert holds its weights, and no layer caches  *)
(* an expert twice, whatever reads fail or race a layer being taken.         *)
CacheTruthful ==
    \A l \in Layers : \A z \in DOMAIN ecache[l] :
        LET s == ecache[l][z] IN
        /\ s.eid # Nobody /\ ~s.reserved => s.holds = <<l, s.eid>>
        /\ \A y \in DOMAIN ecache[l] : ecache[l][y].eid = s.eid /\ s.eid # Nobody => y = z

(* Every forward pass ends: no worker sleeps through a batch, and no barrier *)
(* waits for a read nobody counts off.                                       *)
ForwardEnds == ~Main("idle") ~> Main("idle")
=============================================================================

-------------------------------- MODULE Pilot --------------------------------
(***************************************************************************)
(* The pilot of c/glm.c (PILOT_REAL=1): a background thread that reads the *)
(* experts the router is predicted to choose into the expert cache of a    *)
(* layer the forward pass has not reached yet.                             *)
(*                                                                         *)
(* The forward pass and the pilot share the caches of all layers; what     *)
(* keeps them apart is g_pilot_mx, the layer the forward pass has taken    *)
(* and the count of reads in flight per layer.  Each stretch under the     *)
(* mutex is one action, the reads go on outside it.  With io_uring the     *)
(* pilot reserves and reads all that is queued at once, otherwise one      *)
(* expert at a time.  Which slot was least recently used is left open.     *)
(***************************************************************************)
EXTENDS PipePool

CONSTANTS
    Pinned,    \* the pinned experts, pairs of a layer and an expert
    RingSize,  \* pilot_q: 4096 in the code
    LoadMax    \* URING_LOAD_MAX: 64 in the code

ASSUME PilotAssumption ==
    /\ Pinned \subseteq Weights
    /\ RingSize \in Nat \ {0} /\ LoadMax \in Nat \ {0}

VARIABLES
    ecache,   \* the published slots of each layer, ecn of them
    ring,     \* pilot_q from pilot_r to pilot_w
    curLayer, \* g_cur_moe_layer
    inflight, \* g_pilot_inflight
    pilot     \* the pilot thread: where it is, and its locals

pilotVars == <<ecache, ring, curLayer, inflight, pilot>>

\* A slot that was given to an expert not read yet has no eid for the scans
\* (-1), or with io_uring one that marks the reservation (-(eid+2)).
Slot(e, reserved, holds) == [eid |-> e, reserved |-> reserved, holds |-> holds]
Asleep == [at |-> "idle", took |-> 0, upto |-> 0, batch |-> <<>>, ok |-> FALSE]

PilotInit ==
    /\ ecache = [l \in Layers |-> <<>>]
    /\ ring = <<>> /\ curLayer = -1 /\ inflight = [l \in Layers |-> 0]
    /\ pilot = Asleep

----------------------------------------------------------------------------
PinnedAt(l, e) == <<l, e>> \in Pinned

\* Positions of expert e in the cache of layer l that a lookup finds.
Found(l, e) == {z \in DOMAIN ecache[l] : ecache[l][z].eid = e /\ ~ecache[l][z].reserved}
Reserved(l, e) == \E z \in DOMAIN ecache[l] : ecache[l][z].eid = e /\ ecache[l][z].reserved
Known(l, e) == PinnedAt(l, e) \/ Found(l, e) # {} \/ Reserved(l, e)

\* Main thread, pilot_prefetch and couple_prefetch: a predicted expert that is
\* not there is queued; when the ring is full the hint is lost.
Hint(l, e) ==
    /\ ring' = IF Known(l, e) \/ Len(ring) >= RingSize THEN ring ELSE Append(ring, <<l, e>>)
    /\ UNCHANGED <<ecache, curLayer, inflight, pilot>>

\* The pilot thread finds the ring not empty.
PilotWakes ==
    /\ pilot.at = "idle" /\ ring # <<>>
    /\ pilot' = [Asleep EXCEPT !.at = "pick",
                               !.upto = IF setup.backend = "uring" THEN Len(ring) ELSE 1]
    /\ UNCHANGED <<ecache, ring, curLayer, inflight>>

\* The slots a load may take when the cache is full: with io_uring a hidden
\* one first, never a reserved one.
Victims(l) ==
    LET hidden == {z \in DOMAIN ecache[l] : ecache[l][z].eid = Nobody}
        free   == {z \in DOMAIN ecache[l] : ~ecache[l][z].reserved}
    IN  IF setup.backend # "uring" THEN DOMAIN ecache[l]
        ELSE IF hidden # {} THEN {z \in hidden : \A y \in hidden : z <= y} ELSE free

PicksOn == pilot.took + 1 < pilot.upto /\ Len(pilot.batch) < LoadMax

\* The entry is dropped or needs nothing.
PickNothing ==
    /\ pilot' = [pilot EXCEPT !.took = @ + 1, !.at = IF PicksOn THEN "pick" ELSE "submit"]
    /\ UNCHANGED <<ecache, inflight>>

\* The entry gets slot z of layer l, a new one or one whose expert goes.
PickSlot(l, e, z) ==
    LET new  == z > Len(ecache[l])
        slot == IF setup.backend = "uring" THEN Slot(e, TRUE, Half) ELSE Slot(Nobody, FALSE, Half)
        load == [layer |-> l, eid |-> e, slot |-> z, new |-> new]
        last == pilot.took + 1 >= pilot.upto \/ Len(pilot.batch) + 1 >= LoadMax
    IN  /\ ecache' = IF ~new THEN [ecache EXCEPT ![l][z] = slot]
                     ELSE IF setup.backend = "uring" THEN [ecache EXCEPT ![l] = Append(@, slot)]
                     ELSE ecache
        /\ inflight' = [inflight EXCEPT ![l] = @ + 1]
        /\ pilot' = [pilot EXCEPT !.took = @ + 1, !.batch = Append(@, load),
                                  !.at = IF last THEN "submit" ELSE "pick"]

\* Mutant of PilotPick: residence is not looked at again.
PilotPickAgain ==
    /\ pilot.at = "pick"
    /\ LET l == ring[pilot.took + 1][1]
           e == ring[pilot.took + 1][2]
       IN IF l <= curLayer THEN PickNothing
          ELSE IF Len(ecache[l]) < setup.ecap THEN PickSlot(l, e, Len(ecache[l]) + 1)
          ELSE \/ \E z \in Victims(l) : PickSlot(l, e, z)
               \/ Victims(l) = {} /\ PickNothing
    /\ UNCHANGED <<ring, curLayer>>

\* Under the mutex: the next entry of the ring.
PilotPick ==
    /\ pilot.at = "pick"
    /\ LET l == ring[pilot.took + 1][1]
           e == ring[pilot.took + 1][2]
       IN IF l <= curLayer \/ Known(l, e) THEN PickNothing
          ELSE IF Len(ecache[l]) < setup.ecap THEN PickSlot(l, e, Len(ecache[l]) + 1)
          ELSE \/ \E z \in Victims(l) : PickSlot(l, e, z)
               \/ Victims(l) = {} /\ PickNothing
    /\ UNCHANGED <<ring, curLayer>>

Consume == ring' = SubSeq(ring, pilot.took + 1, Len(ring))

\* pilot_r moves on: with io_uring as the reads are submitted, otherwise when
\* the one read is over (PilotPublish).
PilotSubmit ==
    /\ pilot.at = "submit"
    /\ IF pilot.batch = <<>> THEN Consume /\ pilot' = Asleep
       ELSE /\ IF setup.backend = "uring" THEN Consume ELSE UNCHANGED ring
            /\ pilot' = [pilot EXCEPT !.at = "read", !.upto = 0,
                            !.took = IF setup.backend = "uring" THEN 0 ELSE @]
    /\ UNCHANGED <<ecache, curLayer, inflight>>

\* The read of the first of the batch ends, outside the mutex; a thread that
\* reads into an old slot names its expert at once (expert_load).
PilotRead(ok) ==
    /\ pilot.at = "read"
    /\ LET b == Head(pilot.batch)
           full == Slot(b.eid, setup.backend = "uring", <<b.layer, b.eid>>)
       IN ecache' = IF ok /\ (setup.backend = "uring" \/ ~b.new)
                    THEN [ecache EXCEPT ![b.layer][b.slot] = full] ELSE ecache
    /\ pilot' = [pilot EXCEPT !.at = "publish", !.ok = ok]
    /\ UNCHANGED <<ring, curLayer, inflight>>

\* Under the mutex: the slot is published or stays hidden.
PilotPublish ==
    /\ pilot.at = "publish"
    /\ LET b    == Head(pilot.batch)
           full == Slot(b.eid, FALSE, <<b.layer, b.eid>>)
       IN /\ ecache' =
               IF setup.backend = "uring"
               THEN [ecache EXCEPT ![b.layer][b.slot] =
                       IF pilot.ok THEN full ELSE Slot(Nobody, FALSE, Half)]
               ELSE IF pilot.ok /\ b.new
               THEN [ecache EXCEPT ![b.layer] = Append(@, full)] ELSE ecache
          /\ inflight' = [inflight EXCEPT ![b.layer] = @ - 1]
    /\ IF Len(pilot.batch) > 1
       THEN pilot' = [pilot EXCEPT !.at = "read", !.batch = Tail(@), !.ok = FALSE]
       ELSE pilot' = Asleep
    /\ IF setup.backend = "uring" THEN UNCHANGED ring ELSE Consume
    /\ UNCHANGED <<curLayer>>

PilotThread ==
    \/ PilotWakes \/ PilotPick \/ PilotSubmit \/ PilotPublish
    \/ \E ok \in BOOLEAN : PilotRead(ok)
=============================================================================

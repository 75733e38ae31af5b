------------------------- MODULE ExpertStreamProofs -------------------------
(***************************************************************************)
(* No expert is multiplied with the weights of another, for any number of  *)
(* threads, experts, layers and slots, whatever the router chooses: the     *)
(* work slots belong to the pool's threads job by job, and the cache of the  *)
(* layer that is computed belongs to the main thread.                        *)
(***************************************************************************)
EXTENDS ExpertStream, FiniteSetTheorems, SequenceTheorems, TLAPS

(***************************************************************************)
(* The invariant.  First the types.                                         *)
(***************************************************************************)
Names == Experts \cup {Nobody}
Held == (Int \X Names) \cup {Half}
Thread == [at : {"park", "asleep", "cursor", "check", "grab", "layer", "eid", "load"},
           fresh : BOOLEAN, c : Nat, layer : Layers, eid : Names]
Place == [in : {"pin", "ecache", "ws"}, at : Nat]
Resolved == main.at \in {"resolved", "experts", "matmul"}
Computing == main.at \in {"experts", "matmul"}
Taken == main.at \in {"couple", "resolved", "experts", "matmul", "promoted"}

PoolTypes ==
  /\ setup \in Setups
  /\ cur \in Nat /\ njobs \in 0 .. Block /\ batchLayer \in Layers
  /\ eids \in [Jobs -> Names] /\ ready \in SUBSET Jobs /\ ws \in [Jobs -> Held]
  /\ worker \in [Workers -> Thread]
  /\ call \in [at : {"idle", "count", "layer", "eids", "reset", "publish", "wake"},
               layer : Layers, list : Seq(Experts)]

Mains ==
  [at : {"idle", "predict", "drain", "couple", "resolved", "experts", "matmul", "promoted"},
   layer : Layers, hints : Nat, todo : SUBSET Experts, block : Seq(Experts),
   use : Seq(Place), misses : Seq(Experts), j : Nat]
MainTypes == main \in Mains

Forward ==
  /\ ~Resolved => main.misses = <<>>
  /\ Taken \/ main.at = "drain" => curLayer = main.layer
  /\ Taken => inflight[main.layer] = 0
  /\ main.at = "resolved" => main.j = 1

Resolution ==
  Resolved =>
    LET cache == ecache[main.layer] IN
    /\ Len(main.misses) <= Block /\ IsInjective(main.misses)
    /\ \A q \in 1 .. Len(main.misses), z \in 1 .. Len(cache) : cache[z].eid # main.misses[q]
    /\ Len(main.use) = Len(main.block)
    /\ \A i \in 1 .. Len(main.block) :
         \/ main.use[i].in = "pin"
         \/ /\ main.use[i].in = "ecache" /\ main.use[i].at \in 1 .. Len(cache)
            /\ cache[main.use[i].at].eid = main.block[i] /\ ~cache[main.use[i].at].reserved
         \/ /\ main.use[i].in = "ws" /\ main.use[i].at + 1 \in 1 .. Len(main.misses)
            /\ main.misses[main.use[i].at + 1] = main.block[i]
    /\ \A q \in 1 .. Len(main.misses) : \E i \in 1 .. Len(main.block) :
         main.use[i].in = "ws" /\ main.use[i].at = q - 1

Waited ==
  Computing =>
    /\ main.j \in Nat \ {0}
    /\ \A i \in 1 .. Len(main.block) :
         (i < main.j \/ (i = main.j /\ main.at = "matmul")) /\ main.use[i].in = "ws"
           => main.use[i].at \in ready
    /\ main.at = "matmul" => main.j \in 1 .. Len(main.block) /\ call.at = "idle"

Calling ==
  call.at # "idle" =>
    /\ main.at = "experts" /\ main.j = 1 /\ setup.backend = "threads"
    /\ main.misses # <<>> /\ call.list = main.misses /\ call.layer = main.layer

InBatch == Computing /\ main.misses # <<>> /\ call.at \in {"idle", "wake"}

Loaded ==
  InBatch => \A q \in ready : q < Len(main.misses) => ws[q] = <<main.layer, main.misses[q + 1]>>

Active(w) == worker[w].at \in {"layer", "eid", "load"}
Sleepers ==
  /\ \A w \in Workers : w \notin setup.threads => worker[w].at = "park"
  /\ setup.backend # "threads" => \A w \in Workers : worker[w].at \in {"park", "asleep"} /\ worker[w].fresh
  /\ \A w \in Workers : worker[w].at \in {"check", "grab"} /\ worker[w].fresh => worker[w].c <= cur
BatchInv ==
  /\ njobs = Len(main.misses) /\ batchLayer = main.layer
  /\ \A i \in 0 .. njobs - 1 : eids[i] = main.misses[i + 1]
  /\ cur <= njobs
  /\ \A i \in ready : i < njobs => i < cur
  /\ \A w \in Workers : Active(w) =>
       /\ worker[w].c < cur /\ worker[w].c \notin ready
       /\ worker[w].at # "layer" => worker[w].layer = batchLayer
       /\ worker[w].at = "load" => worker[w].eid = eids[worker[w].c]
  /\ \A v, w \in Workers : Active(v) /\ Active(w) /\ worker[v].c = worker[w].c => v = w
  /\ \A w \in Workers : worker[w].at = "grab" /\ worker[w].fresh => worker[w].c < njobs
RestInv ==
  /\ \A w \in Workers : ~Active(w)
  /\ \A w \in Workers : worker[w].at = "grab" /\ worker[w].fresh => worker[w].c < cur
  /\ call.at \in {"idle", "count"} => cur = njobs
  /\ call.at \in {"layer", "eids", "reset", "publish"} => njobs = Len(main.misses) /\ (njobs <= cur \/ Quiet)
  /\ call.at \in {"eids", "reset", "publish"} => batchLayer = main.layer
  /\ call.at \in {"reset", "publish"} => \A i \in 0 .. njobs - 1 : eids[i] = main.misses[i + 1]
  /\ call.at = "publish" => \A i \in ready : i >= njobs
Threads == setup.backend = "threads" => IF InBatch THEN BatchInv ELSE RestInv

Slots == [eid : Names, reserved : BOOLEAN, holds : Held]
Load == [layer : Layers, eid : Experts, slot : Nat \ {0}, new : BOOLEAN]
Pilots == [at : {"idle", "pick", "submit", "read", "publish"}, took : Nat, upto : Nat,
           batch : Seq(Load), ok : BOOLEAN]
CacheTypes ==
  /\ ecache \in [Layers -> Seq(Slots)] /\ \A l \in Layers : Len(ecache[l]) <= setup.ecap
  /\ ring \in Seq(Weights) /\ curLayer \in Layers \cup {-1} /\ inflight \in [Layers -> Nat]
  /\ pilot \in Pilots
  /\ pilot.at = "pick" => pilot.took < pilot.upto /\ pilot.upto <= Len(ring)
  /\ pilot.at = "idle" => pilot.batch = <<>>
  /\ pilot.at \in {"read", "publish"} => pilot.batch # <<>>

Of(batch, l) == {i \in 1 .. Len(batch) : batch[i].layer = l}
Counted == \A l \in Layers : inflight[l] = Cardinality(Of(pilot.batch, l))

Truthful ==
  \A l \in Layers : \A z \in 1 .. Len(ecache[l]) :
    LET s == ecache[l][z] IN
    /\ s.eid # Nobody /\ ~s.reserved => s.holds = <<l, s.eid>>
    /\ \A y \in 1 .. Len(ecache[l]) : ecache[l][y].eid = s.eid /\ s.eid # Nobody => y = z

Reservations ==
  setup.backend = "uring" =>
    /\ \A i \in 1 .. Len(pilot.batch) :
         LET b == pilot.batch[i] IN
         /\ b.slot \in 1 .. Len(ecache[b.layer])
         /\ ecache[b.layer][b.slot].eid = b.eid /\ ecache[b.layer][b.slot].reserved
    /\ \A i, k \in 1 .. Len(pilot.batch) :
         pilot.batch[i].layer = pilot.batch[k].layer /\ pilot.batch[i].slot = pilot.batch[k].slot => i = k
    /\ \A l \in Layers : \A z \in 1 .. Len(ecache[l]) : ecache[l][z].reserved =>
         \E i \in 1 .. Len(pilot.batch) : pilot.batch[i].layer = l /\ pilot.batch[i].slot = z

OneByOne ==
  setup.backend # "uring" =>
    /\ \A l \in Layers : \A z \in 1 .. Len(ecache[l]) : ~ecache[l][z].reserved
    /\ pilot.at = "pick" => pilot.took = 0 /\ pilot.upto = 1 /\ pilot.batch = <<>>
    /\ pilot.batch # <<>> =>
         LET b == pilot.batch[1] IN
         /\ Len(pilot.batch) = 1
         /\ IF b.new THEN Len(ecache[b.layer]) < setup.ecap ELSE b.slot \in 1 .. Len(ecache[b.layer])
         /\ pilot.at # "publish" \/ b.new =>
              \A z \in 1 .. Len(ecache[b.layer]) : ecache[b.layer][z].eid # b.eid

LEMMA SetupIs ==
  ASSUME PoolTypes
  PROVE  /\ setup.backend \in {"threads", "uring", "serial"} /\ setup.threads \subseteq Workers
         /\ setup.hints \in Nat /\ setup.ecap \in Nat \ {0}
  BY PoolAssumption DEF PoolTypes

-----------------------------------------------------------------------------
(* The threads of the pool.                                                 *)

PoolInv == PoolTypes /\ Calling /\ Sleepers /\ Threads /\ Loaded
\* What a step of a thread may change.
ThreadFrame == <<setup, njobs, batchLayer, eids, call, main>>

\* A thread that neither takes nor ends a job.
LEMMA Moves ==
  ASSUME PoolInv, NEW w \in setup.threads,
         UNCHANGED <<ThreadFrame, cur, ready, ws>>,
         worker' \in [Workers -> Thread],
         \A v \in Workers : v # w => worker'[v] = worker[v],
         ~Active(w), worker'[w].at \notin {"layer", "eid", "load"},
         worker'[w].at \in {"check", "grab"} /\ worker'[w].fresh => worker'[w].c <= cur,
         worker'[w].at = "grab" /\ worker'[w].fresh => worker'[w].c < njobs,
         setup.backend # "threads" => worker'[w].at \in {"park", "asleep"} /\ worker'[w].fresh,
         Quiet => Quiet'
  PROVE  PoolInv'
  <1>1. w \in Workers
    BY SetupIs DEF PoolInv
  <1>2. PoolTypes'
    BY DEF PoolInv, PoolTypes, ThreadFrame
  <1>3. Sleepers'
    BY <1>1 DEF PoolInv, Sleepers, ThreadFrame
  <1>4. \A v \in Workers : v # w => Active(v)' = Active(v)
    BY DEF Active
  <1>5. ~Active(w)'
    BY DEF Active
  <1>6. InBatch' = InBatch /\ Loaded'
    BY DEF PoolInv, InBatch, Computing, Loaded, ThreadFrame
  <1>10. Calling'
    BY DEF PoolInv, Calling, ThreadFrame
  <1>7. ASSUME setup.backend = "threads", InBatch
        PROVE  BatchInv'
    <2>1. BatchInv
      BY <1>7 DEF PoolInv, Threads
    <2>2. \A v \in Workers : Active(v)' => v # w /\ Active(v) /\ worker'[v] = worker[v]
      BY <1>4, <1>5
    <2>3. QED
      BY <2>1, <2>2 DEF BatchInv, ThreadFrame
  <1>8. ASSUME setup.backend = "threads", ~InBatch
        PROVE  RestInv'
    <2>1. RestInv
      BY <1>8 DEF PoolInv, Threads
    <2>2. \A v \in Workers : ~Active(v)'
      BY <2>1, <1>4, <1>5 DEF RestInv
    <2>3. worker'[w].at = "grab" /\ worker'[w].fresh => worker'[w].c < cur
      <3> SUFFICES ASSUME worker'[w].at = "grab", worker'[w].fresh PROVE worker'[w].c < cur
        OBVIOUS
      <3>1. worker'[w].c < njobs /\ worker'[w].c \in Nat /\ njobs \in Nat /\ cur \in Nat
        BY <1>1 DEF PoolInv, PoolTypes, Thread
      <3>2. ~Quiet
        BY DEF Quiet, ThreadFrame
      <3>3. call.at # "wake"
        BY <1>8 DEF PoolInv, Calling, InBatch, Computing
      <3>4. cur = njobs \/ njobs <= cur
        BY <2>1, <3>2, <3>3 DEF RestInv, PoolInv, PoolTypes
      <3>5. QED
        BY <3>1, <3>4
    <2>4. \A v \in Workers : worker'[v].at = "grab" /\ worker'[v].fresh => worker'[v].c < cur'
      BY <2>1, <2>3 DEF RestInv, ThreadFrame
    <2>5. QED
      BY <2>1, <2>2, <2>4 DEF RestInv, ThreadFrame
  <1>9. QED
    BY <1>2, <1>3, <1>6, <1>7, <1>8, <1>10 DEF PoolInv, Threads, ThreadFrame

LEMMA ParkKeeps ==
  ASSUME PoolInv, NEW w \in setup.threads, Park(w), UNCHANGED main
  PROVE  PoolInv'
  <1>1. w \in Workers /\ worker \in [Workers -> Thread]
    BY SetupIs DEF PoolInv, PoolTypes
  <1>2. /\ UNCHANGED <<ThreadFrame, cur, ready, ws>> /\ ~Active(w)
        /\ worker' = [worker EXCEPT ![w].at = IF worker[w].fresh THEN "asleep" ELSE "cursor"]
        /\ worker[w].at = "park"
    BY DEF Park, At, Active, ThreadFrame
  <1>3. /\ worker' \in [Workers -> Thread]
        /\ \A v \in Workers : v # w => worker'[v] = worker[v]
        /\ worker'[w].at = IF worker[w].fresh THEN "asleep" ELSE "cursor"
        /\ worker'[w].fresh = worker[w].fresh
    BY <1>1, <1>2 DEF Thread
  <1>4. setup.backend # "threads" => worker[w].fresh
    BY <1>1 DEF PoolInv, Sleepers
  <1>5. Quiet => Quiet'
    BY <1>1, <1>2, <1>3, SetupIs DEF Quiet, ThreadFrame, PoolInv
  <1>6. QED
    BY <1>2, <1>3, <1>4, <1>5, Moves

LEMMA LoadCursorKeeps ==
  ASSUME PoolInv, NEW w \in setup.threads, LoadCursor(w), UNCHANGED main
  PROVE  PoolInv'
  <1>1. w \in Workers /\ worker \in [Workers -> Thread] /\ cur \in Nat
    BY SetupIs DEF PoolInv, PoolTypes
  <1>2. /\ UNCHANGED <<ThreadFrame, cur, ready, ws>> /\ ~Active(w)
        /\ worker' = [worker EXCEPT ![w].at = "check", ![w].c = cur, ![w].fresh = TRUE]
        /\ worker[w].at = "cursor"
    BY DEF LoadCursor, At, Active, ThreadFrame
  <1>3. /\ worker' \in [Workers -> Thread]
        /\ \A v \in Workers : v # w => worker'[v] = worker[v]
        /\ worker'[w].at = "check" /\ worker'[w].c = cur
    BY ZenonT(30), <1>1, <1>2 DEF Thread
  <1>4. setup.backend = "threads" /\ ~Quiet
    BY <1>1, <1>2 DEF PoolInv, Sleepers, Quiet
  <1>5. QED
    BY <1>1, <1>2, <1>3, <1>4, Moves

LEMMA CheckCountKeeps ==
  ASSUME PoolInv, NEW w \in setup.threads, CheckCount(w), UNCHANGED main
  PROVE  PoolInv'
  <1> DEFINE drained == worker[w].c >= njobs
  <1>1. w \in Workers /\ worker \in [Workers -> Thread] /\ cur \in Nat /\ njobs \in Nat
        /\ worker[w].c \in Nat
    BY SetupIs DEF PoolInv, PoolTypes, Thread
  <1>2. /\ UNCHANGED <<ThreadFrame, cur, ready, ws>> /\ ~Active(w)
        /\ worker' = [worker EXCEPT ![w].at = IF drained THEN "park" ELSE "grab",
                                    ![w].c = IF drained THEN 0 ELSE @]
        /\ worker[w].at = "check"
    BY DEF CheckCount, At, Active, ThreadFrame
  <1>3. /\ worker' \in [Workers -> Thread]
        /\ \A v \in Workers : v # w => worker'[v] = worker[v]
        /\ worker'[w].at = IF drained THEN "park" ELSE "grab"
        /\ ~drained => worker'[w].c = worker[w].c /\ worker'[w].c < njobs
        /\ worker'[w].fresh = worker[w].fresh
    <2>1. CASE drained
      <3>1. worker' = [worker EXCEPT ![w].at = "park", ![w].c = 0]
        BY <1>2, <2>1
      <3> HIDE DEF drained
      <3>2. QED
        BY <1>1, <2>1, <3>1 DEF Thread
    <2>2. CASE ~drained
      <3>1. worker' = [worker EXCEPT ![w].at = "grab", ![w].c = worker[w].c]
        BY <1>2, <2>2
      <3>2. worker[w].c < njobs
        BY <1>1, <2>2
      <3> HIDE DEF drained
      <3>3. QED
        BY <1>1, <2>2, <3>1, <3>2 DEF Thread
    <2>3. QED
      BY <2>1, <2>2
  <1>4. setup.backend = "threads" /\ ~Quiet /\ (worker[w].fresh => worker[w].c <= cur)
    BY <1>1, <1>2 DEF PoolInv, Sleepers, Quiet
  <1> HIDE DEF drained
  <1>5. worker'[w].at # "park" => ~drained
    BY <1>3
  <1>6. QED
    BY <1>1, <1>2, <1>3, <1>4, <1>5, Moves

-----------------------------------------------------------------------------
(* A thread with a job.                                                     *)

\* Only while a batch is out is there a job to take.
LEMMA GrabKeeps ==
  ASSUME PoolInv, NEW w \in setup.threads, Grab(w), UNCHANGED main
  PROVE  PoolInv'
  <1>1. /\ w \in Workers /\ worker \in [Workers -> Thread] /\ cur \in Nat /\ njobs \in Nat
        /\ worker[w].c \in Nat
    BY SetupIs DEF PoolInv, PoolTypes, Thread
  <1>2. /\ UNCHANGED <<ThreadFrame, ready, ws>> /\ ~Active(w) /\ worker[w].at = "grab"
        /\ setup.backend = "threads" /\ ~Quiet
    BY <1>1 DEF Grab, At, Active, ThreadFrame, PoolInv, Sleepers, Quiet
  <1>3. CASE ~(worker[w].fresh /\ cur = worker[w].c)
    <2>1. UNCHANGED cur /\ worker' = [worker EXCEPT ![w].at = "cursor", ![w].c = 0]
      BY <1>3 DEF Grab
    <2>2. /\ worker' \in [Workers -> Thread] /\ worker'[w].at = "cursor"
          /\ \A v \in Workers : v # w => worker'[v] = worker[v]
      BY <1>1, <2>1 DEF Thread
    <2>3. QED
      BY <1>2, <2>1, <2>2, Moves
  <1>4. CASE worker[w].fresh /\ cur = worker[w].c
    <2>1. cur' = cur + 1 /\ worker' = [worker EXCEPT ![w].at = "layer"]
      BY <1>4 DEF Grab
    <2>2. /\ worker' \in [Workers -> Thread] /\ worker'[w].at = "layer"
          /\ worker'[w].c = cur /\ \A v \in Workers : v # w => worker'[v] = worker[v]
      BY <1>1, <1>4, <2>1 DEF Thread
    <2>3. InBatch
      <3> SUFFICES ASSUME ~InBatch PROVE FALSE
        OBVIOUS
      <3>1. worker[w].c < cur
        BY <1>1, <1>2, <1>4 DEF PoolInv, Threads, RestInv
      <3>2. QED
        BY <1>1, <1>4, <3>1
    <2>4. BatchInv /\ worker[w].c < njobs
      BY <1>1, <1>2, <1>4, <2>3 DEF PoolInv, Threads, BatchInv
    <2>5. InBatch' /\ Loaded' /\ Calling'
      BY <1>2, <2>3 DEF PoolInv, InBatch, Computing, Loaded, Calling, ThreadFrame
    <2>6. PoolTypes'
      BY <1>1, <1>2, <2>1, <2>2 DEF PoolInv, PoolTypes, ThreadFrame
    <2>7. Sleepers'
      <3>1. \A v \in Workers : worker[v].c \in Nat
        BY <1>1 DEF Thread
      <3>2. QED
        BY <1>1, <1>2, <2>1, <2>2, <3>1 DEF PoolInv, Sleepers, ThreadFrame
    <2>8. cur \notin ready
      BY <1>1, <1>4, <2>4 DEF BatchInv
    <2>9. \A v \in Workers : Active(v)' =>
            /\ worker'[v].c < cur' /\ worker'[v].c \notin ready'
            /\ worker'[v].at # "layer" => worker'[v].layer = batchLayer'
            /\ worker'[v].at = "load" => worker'[v].eid = eids'[worker'[v].c]
            /\ v # w => Active(v) /\ worker[v].c < cur /\ worker'[v] = worker[v]
      <3> SUFFICES ASSUME NEW v \in Workers, Active(v)'
                   PROVE  /\ worker'[v].c < cur' /\ worker'[v].c \notin ready'
                          /\ worker'[v].at # "layer" => worker'[v].layer = batchLayer'
                          /\ worker'[v].at = "load" => worker'[v].eid = eids'[worker'[v].c]
                          /\ v # w => Active(v) /\ worker[v].c < cur /\ worker'[v] = worker[v]
        OBVIOUS
      <3>1. CASE v = w
        BY <1>1, <1>2, <2>1, <2>2, <2>8, <3>1
      <3>2. CASE v # w
        <4>1. worker'[v] = worker[v] /\ Active(v) /\ worker[v].c \in Nat
          BY <1>1, <2>2, <3>2 DEF Active, Thread
        <4>2. QED
          BY <1>1, <1>2, <2>1, <2>4, <3>2, <4>1 DEF BatchInv, ThreadFrame
      <3>3. QED
        BY <3>1, <3>2
    <2>10. ASSUME NEW u \in Workers, NEW v \in Workers, Active(u)', Active(v)',
                  worker'[u].c = worker'[v].c
           PROVE  u = v
      <3>1. \A x \in Workers : worker[x].c \in Nat
        BY <1>1 DEF Thread
      <3>2. CASE u = w \/ v = w
        BY <1>1, <2>2, <2>9, <2>10, <3>1, <3>2
      <3>3. CASE u # w /\ v # w
        BY <2>4, <2>9, <2>10, <3>3 DEF BatchInv
      <3>4. QED
        BY <3>2, <3>3
    <2>11. \A v \in Workers : worker'[v].at = "grab" /\ worker'[v].fresh => worker'[v].c < njobs'
      BY <1>2, <2>2, <2>4 DEF BatchInv, ThreadFrame
    <2>12. cur' <= njobs' /\ \A i \in ready' : i < njobs' => i < cur'
      <3>1. ready \subseteq Int
        BY PoolAssumption DEF PoolInv, PoolTypes, Jobs
      <3>2. QED
        BY <1>1, <1>2, <1>4, <2>1, <2>4, <3>1 DEF BatchInv, ThreadFrame
    <2>13. BatchInv'
      BY <1>2, <2>4, <2>9, <2>10, <2>11, <2>12 DEF BatchInv, ThreadFrame
    <2>14. QED
      BY <2>5, <2>6, <2>7, <2>13 DEF PoolInv, Threads
  <1>5. QED
    BY <1>3, <1>4

\* The thread keeps its job: what it knows of it is what the batch says.
LEMMA KeepsJob ==
  ASSUME PoolInv, NEW w \in setup.threads, Active(w),
         UNCHANGED <<ThreadFrame, cur, ready>>,
         worker' \in [Workers -> Thread], ws' \in [Jobs -> Held],
         \A q \in Jobs : q # worker[w].c => ws'[q] = ws[q],
         \A v \in Workers : v # w => worker'[v] = worker[v],
         worker'[w].at \in {"eid", "load"}, worker'[w].c = worker[w].c,
         worker'[w].layer = batchLayer,
         worker'[w].at = "load" => worker'[w].eid = eids[worker[w].c]
  PROVE  PoolInv'
  <1>1. w \in Workers /\ worker \in [Workers -> Thread] /\ ws \in [Jobs -> Held]
    BY SetupIs DEF PoolInv, PoolTypes
  <1>2. setup.backend = "threads" /\ InBatch /\ BatchInv
    BY <1>1 DEF PoolInv, Threads, RestInv, Sleepers, Active
  <1>3. InBatch' /\ Calling' /\ PoolTypes' /\ Sleepers'
    BY <1>1, <1>2 DEF PoolInv, InBatch, Computing, Calling, PoolTypes, Sleepers, ThreadFrame
  <1>4. Loaded'
    <2>1. worker[w].c \notin ready /\ ready \subseteq Jobs
      BY <1>1, <1>2 DEF BatchInv, PoolInv, PoolTypes
    <2>2. \A q \in ready : ws'[q] = ws[q]
      BY <2>1
    <2>3. QED
      BY <1>2, <2>2 DEF PoolInv, Loaded, ThreadFrame
  <1>5. \A v \in Workers : Active(v)' => Active(v) /\ worker'[v].c = worker[v].c
    BY DEF Active
  <1>6. \A v \in Workers : Active(v)' =>
          /\ worker'[v].c < cur' /\ worker'[v].c \notin ready'
          /\ worker'[v].at # "layer" => worker'[v].layer = batchLayer'
          /\ worker'[v].at = "load" => worker'[v].eid = eids'[worker'[v].c]
    BY <1>1, <1>2, <1>5 DEF BatchInv, ThreadFrame
  <1>7. \A u, v \in Workers : Active(u)' /\ Active(v)' /\ worker'[u].c = worker'[v].c => u = v
    BY <1>2, <1>5 DEF BatchInv
  <1>8. \A v \in Workers : worker'[v].at = "grab" /\ worker'[v].fresh => worker'[v].c < njobs'
    BY <1>2 DEF BatchInv, ThreadFrame
  <1>9. BatchInv'
    BY <1>2, <1>6, <1>7, <1>8 DEF BatchInv, ThreadFrame
  <1>10. QED
    BY <1>3, <1>4, <1>9 DEF PoolInv, Threads

LEMMA ReadLayerKeeps ==
  ASSUME PoolInv, NEW w \in setup.threads, ReadLayer(w), UNCHANGED main
  PROVE  PoolInv'
  <1>1. w \in Workers /\ worker \in [Workers -> Thread] /\ batchLayer \in Layers
        /\ ws \in [Jobs -> Held]
    BY SetupIs DEF PoolInv, PoolTypes
  <1>2. /\ UNCHANGED <<ThreadFrame, cur, ready, ws>> /\ Active(w)
        /\ worker' = [worker EXCEPT ![w].at = "eid", ![w].layer = batchLayer]
    BY DEF ReadLayer, At, Active, ThreadFrame
  <1>3. /\ worker' \in [Workers -> Thread]
        /\ \A v \in Workers : v # w => worker'[v] = worker[v]
        /\ worker'[w].at = "eid" /\ worker'[w].layer = batchLayer /\ worker'[w].c = worker[w].c
    BY <1>1, <1>2 DEF Thread
  <1>4. QED
    BY <1>1, <1>2, <1>3, KeepsJob

LEMMA JobOfThread ==
  ASSUME PoolInv, NEW w \in setup.threads, Active(w)
  PROVE  /\ worker[w].c \in Jobs /\ worker[w].c \in 0 .. njobs - 1 /\ InBatch /\ BatchInv
         /\ setup.backend = "threads"
  <1>1. w \in Workers /\ worker \in [Workers -> Thread] /\ njobs \in 0 .. Block /\ cur \in Nat
    BY SetupIs DEF PoolInv, PoolTypes
  <1>2. setup.backend = "threads" /\ InBatch /\ BatchInv
    BY <1>1 DEF PoolInv, Threads, RestInv, Sleepers, Active
  <1>3. worker[w].c \in Nat /\ worker[w].c < cur /\ cur <= njobs
    BY <1>1, <1>2 DEF BatchInv, Thread
  <1>4. Block \in Nat
    BY PoolAssumption
  <1>5. QED
    BY <1>1, <1>2, <1>3, <1>4 DEF Jobs

LEMMA BeginLoadKeeps ==
  ASSUME PoolInv, NEW w \in setup.threads, BeginLoad(w), UNCHANGED main
  PROVE  PoolInv'
  <1> DEFINE i == worker[w].c
  <1>1. /\ w \in Workers /\ worker \in [Workers -> Thread] /\ ws \in [Jobs -> Held]
        /\ eids \in [Jobs -> Names]
    BY SetupIs DEF PoolInv, PoolTypes
  <1>2. /\ UNCHANGED <<ThreadFrame, cur, ready>> /\ Active(w) /\ worker[w].at = "eid"
        /\ worker' = [worker EXCEPT ![w].at = "load", ![w].eid = eids[i]]
        /\ ws' = [ws EXCEPT ![i] = Half]
    BY DEF BeginLoad, At, Active, ThreadFrame
  <1>3. i \in Jobs /\ BatchInv
    BY <1>2, JobOfThread
  <1>4. eids[i] \in Names
    BY <1>1, <1>3
  <1>5. worker[w].layer = batchLayer
    BY <1>1, <1>2, <1>3 DEF BatchInv
  <1> HIDE DEF i
  <1>6. /\ worker' \in [Workers -> Thread]
        /\ \A v \in Workers : v # w => worker'[v] = worker[v]
        /\ worker'[w].at = "load" /\ worker'[w].eid = eids[i]
        /\ worker'[w].c = worker[w].c /\ worker'[w].layer = worker[w].layer
    BY <1>1, <1>2, <1>4 DEF Thread
  <1>7. ws' \in [Jobs -> Held] /\ \A q \in Jobs : q # i => ws'[q] = ws[q]
    BY <1>1, <1>2 DEF Held
  <1>8. QED
    BY <1>2, <1>5, <1>6, <1>7, KeepsJob DEF i

\* The load was the only one into its slot, so the slot is the job's.
LEMMA EndLoadKeeps ==
  ASSUME PoolInv, NEW w \in setup.threads, EndLoad(w), UNCHANGED main
  PROVE  PoolInv' /\ ready \subseteq ready'
  <1> DEFINE i == worker[w].c
  <1>1. /\ w \in Workers /\ worker \in [Workers -> Thread] /\ ws \in [Jobs -> Held]
        /\ ready \subseteq Jobs /\ eids \in [Jobs -> Names] /\ batchLayer \in Layers
        /\ njobs \in Nat /\ cur \in Nat
    BY SetupIs DEF PoolInv, PoolTypes
  <1>2. /\ UNCHANGED <<ThreadFrame, cur>> /\ Active(w) /\ worker[w].at = "load"
        /\ ready' = ready \cup {i}
    BY DEF EndLoad, At, Active, ThreadFrame
  <1>3. i \in Jobs /\ i \in 0 .. njobs - 1 /\ InBatch /\ BatchInv /\ setup.backend = "threads"
    BY <1>2, JobOfThread
  <1>4. LoadsAlone(w)
    <2>1. \A v \in Workers : At(v, "load") => Active(v)
      BY DEF At, Active
    <2>2. QED
      BY <1>1, <1>2, <1>3, <2>1 DEF LoadsAlone, BatchInv
  <1>5. ws' = [ws EXCEPT ![i] = <<batchLayer, eids[i]>>]
    <2>1. worker[w].layer = batchLayer /\ worker[w].eid = eids[i]
      BY <1>1, <1>2, <1>3 DEF BatchInv
    <2>2. QED
      BY <1>4, <2>1 DEF EndLoad
  <1>6. worker' = [worker EXCEPT ![w].at = "cursor", ![w].c = 0, ![w].layer = 0, ![w].eid = Nobody]
    BY DEF EndLoad
  <1> HIDE DEF i
  <1>7. /\ worker' \in [Workers -> Thread] /\ worker'[w].at = "cursor"
        /\ \A v \in Workers : v # w => worker'[v] = worker[v]
    <2>1. 0 \in Layers /\ Nobody \in Names
      BY PoolAssumption DEF Layers, Names
    <2> DEFINE left == [worker EXCEPT ![w].at = "cursor", ![w].c = 0]
               lost == [left EXCEPT ![w].layer = 0]
    <2>2. /\ left \in [Workers -> Thread] /\ left[w].at = "cursor"
          /\ \A v \in Workers : v # w => left[v] = worker[v]
      BY <1>1 DEF Thread
    <2>3. worker' = [lost EXCEPT ![w].eid = Nobody]
      BY <1>6
    <2> HIDE DEF left
    <2>4. /\ lost \in [Workers -> Thread] /\ lost[w].at = "cursor"
          /\ \A v \in Workers : v # w => lost[v] = worker[v]
      BY <1>1, <2>1, <2>2 DEF Thread
    <2> HIDE DEF lost
    <2>5. QED
      BY <1>1, <2>1, <2>3, <2>4 DEF Thread
  <1>8. /\ ws' \in [Jobs -> Held] /\ ws'[i] = <<batchLayer, eids[i]>>
        /\ \A q \in Jobs : q # i => ws'[q] = ws[q]
    <2>1. <<batchLayer, eids[i]>> \in Held
      BY <1>1, <1>3, PoolAssumption DEF Held, Layers
    <2>2. QED
      BY <1>1, <1>3, <1>5, <2>1
  <1>9. InBatch' /\ Calling' /\ PoolTypes' /\ Sleepers'
    BY <1>1, <1>2, <1>3, <1>7, <1>8
       DEF PoolInv, InBatch, Computing, Calling, PoolTypes, Sleepers, ThreadFrame
  <1>10. Loaded'
    <2> SUFFICES ASSUME NEW q \in ready', q < Len(main.misses)
                 PROVE  ws'[q] = <<main.layer, main.misses[q + 1]>>
      BY <1>2 DEF Loaded, ThreadFrame
    <2>1. CASE q = i
      BY <1>3, <1>8, <2>1 DEF BatchInv
    <2>2. CASE q # i
      BY <1>1, <1>2, <1>3, <1>8, <2>2 DEF PoolInv, Loaded
    <2>3. QED
      BY <2>1, <2>2
  <1>11. \A v \in Workers : Active(v)' => v # w /\ Active(v) /\ worker'[v] = worker[v]
    BY <1>7 DEF Active
  <1>12. \A v \in Workers : Active(v)' => worker[v].c # i
    BY <1>1, <1>2, <1>3, <1>11 DEF BatchInv, i
  <1>13. \A q \in ready' : q < njobs => q < cur
    <2>1. i < cur
      BY <1>1, <1>2, <1>3 DEF BatchInv, i
    <2>2. QED
      BY <1>2, <1>3, <2>1 DEF BatchInv
  <1>14. \A v \in Workers : Active(v)' =>
          /\ worker'[v].c < cur' /\ worker'[v].c \notin ready'
          /\ worker'[v].at # "layer" => worker'[v].layer = batchLayer'
          /\ worker'[v].at = "load" => worker'[v].eid = eids'[worker'[v].c]
    BY <1>2, <1>3, <1>11, <1>12 DEF BatchInv, ThreadFrame
  <1>15. \A u, v \in Workers : Active(u)' /\ Active(v)' /\ worker'[u].c = worker'[v].c => u = v
    BY <1>3, <1>11 DEF BatchInv
  <1>16. \A v \in Workers : worker'[v].at = "grab" /\ worker'[v].fresh => worker'[v].c < njobs'
    BY <1>2, <1>3, <1>7 DEF BatchInv, ThreadFrame
  <1>17. BatchInv'
    BY <1>2, <1>3, <1>13, <1>14, <1>15, <1>16 DEF BatchInv, ThreadFrame
  <1>18. QED
    BY <1>2, <1>9, <1>10, <1>17 DEF PoolInv, Threads

-----------------------------------------------------------------------------
(* pipe_dispatch.                                                           *)

\* What a step of a call leaves.
CallFrame == <<setup, ws, main, pilotVars>>

\* While the main thread is in pipe_dispatch, up to the publication.
LEMMA InCall ==
  ASSUME PoolInv, call.at \in {"count", "layer", "eids", "reset", "publish"}
  PROVE  /\ ~InBatch /\ RestInv /\ setup.backend = "threads" /\ main.at = "experts"
         /\ main.misses # <<>> /\ call.list = main.misses /\ call.layer = main.layer /\ main.j = 1
  BY DEF PoolInv, Calling, InBatch, Threads

\* A step between two stores keeps the threads as they are.
LEMMA Stores ==
  ASSUME PoolInv, call.at \in {"count", "layer", "eids", "reset"},
         UNCHANGED <<CallFrame, cur, worker>>, NEW to \in {"layer", "eids", "reset", "publish"},
         call' = [call EXCEPT !.at = to],
         njobs' \in 0 .. Block, batchLayer' \in Layers, eids' \in [Jobs -> Names],
         ready' \in SUBSET Jobs,
         njobs' = Len(main.misses), njobs' <= cur \/ Quiet,
         to # "layer" => batchLayer' = main.layer,
         to \in {"reset", "publish"} => \A i \in 0 .. njobs' - 1 : eids'[i] = main.misses[i + 1],
         to = "publish" => \A i \in ready' : i >= njobs'
  PROVE  PoolInv'
  <1>1. /\ ~InBatch /\ RestInv /\ setup.backend = "threads" /\ main.at = "experts"
        /\ main.misses # <<>> /\ call.list = main.misses /\ call.layer = main.layer /\ main.j = 1
    BY InCall
  <1>2. call' \in [at : {"idle", "count", "layer", "eids", "reset", "publish", "wake"},
                   layer : Layers, list : Seq(Experts)]
        /\ call'.at = to /\ call'.list = call.list /\ call'.layer = call.layer
    BY DEF PoolInv, PoolTypes
  <1>3. PoolTypes'
    BY <1>2 DEF PoolInv, PoolTypes, CallFrame
  <1>4. Calling'
    BY <1>1 DEF Calling, CallFrame
  <1>5. Sleepers'
    BY DEF PoolInv, Sleepers, CallFrame
  <1>6. ~InBatch' /\ Loaded'
    BY <1>1 DEF InBatch, Loaded
  <1>7. RestInv'
    BY <1>1 DEF RestInv, Active, Quiet, CallFrame
  <1>8. QED
    BY <1>1, <1>6, <1>7, <1>3, <1>4, <1>5 DEF PoolInv, Threads

LEMMA StoreCountKeeps ==
  ASSUME PoolInv, MainTypes, Resolution, Straggling = FALSE, StoreCount, UNCHANGED <<pilotVars, main>>
  PROVE  PoolInv'
  <1>1. /\ call.at = "count" /\ call' = [call EXCEPT !.at = "layer"]
        /\ Len(call.list) <= njobs \/ Quiet
        /\ njobs' = Len(call.list) /\ UNCHANGED <<CallFrame, cur, worker, batchLayer, eids, ready>>
    BY DEF StoreCount, Dispatching, Goes, CallFrame
  <1>2. /\ ~InBatch /\ RestInv /\ setup.backend = "threads" /\ main.at = "experts"
        /\ main.misses # <<>> /\ call.list = main.misses /\ call.layer = main.layer /\ main.j = 1
    BY <1>1, InCall
  <1>3. Len(main.misses) <= Block /\ Len(main.misses) \in Nat /\ Block \in Nat
    BY <1>2, LenProperties, PoolAssumption DEF Resolution, Resolved, MainTypes
  <1>4. cur = njobs
    BY <1>1, <1>2 DEF RestInv
  <1>5. QED
    BY <1>1, <1>2, <1>3, <1>4, Stores DEF PoolInv, PoolTypes

LEMMA StoreLayerKeeps ==
  ASSUME PoolInv, StoreLayer, UNCHANGED <<pilotVars, main>>
  PROVE  PoolInv'
  <1>1. /\ call.at = "layer" /\ call' = [call EXCEPT !.at = "eids"]
        /\ batchLayer' = call.layer /\ UNCHANGED <<CallFrame, cur, worker, njobs, eids, ready>>
    BY DEF StoreLayer, Dispatching, Goes, CallFrame
  <1>2. RestInv /\ call.layer = main.layer
    BY <1>1, InCall
  <1>3. njobs = Len(main.misses) /\ (njobs <= cur \/ Quiet)
    BY <1>1, <1>2 DEF RestInv
  <1>4. batchLayer' \in Layers
    BY <1>1 DEF PoolInv, PoolTypes
  <1>5. QED
    BY <1>1, <1>2, <1>3, <1>4, Stores DEF PoolInv, PoolTypes

LEMMA StoreEidsKeeps ==
  ASSUME PoolInv, MainTypes, Resolution, StoreEids, UNCHANGED <<pilotVars, main>>
  PROVE  PoolInv'
  <1>1. /\ call.at = "eids" /\ call' = [call EXCEPT !.at = "reset"]
        /\ eids' = [i \in Jobs |-> IF i < Len(call.list) THEN call.list[i + 1] ELSE eids[i]]
        /\ UNCHANGED <<CallFrame, cur, worker, njobs, batchLayer, ready>>
    BY DEF StoreEids, Dispatching, Goes, CallFrame
  <1>2. RestInv /\ call.list = main.misses /\ main.at = "experts"
    BY <1>1, InCall
  <1>3. njobs = Len(main.misses) /\ (njobs <= cur \/ Quiet) /\ batchLayer = main.layer
    BY <1>1, <1>2 DEF RestInv
  <1>4. /\ main.misses \in Seq(Experts) /\ Len(main.misses) \in Nat /\ Len(main.misses) <= Block
        /\ Block \in Nat
    BY <1>2, LenProperties, PoolAssumption DEF Resolution, Resolved, MainTypes, Mains
  <1>5. \A i \in Jobs : i < Len(main.misses) => main.misses[i + 1] \in Experts
    <2> SUFFICES ASSUME NEW i \in Jobs, i < Len(main.misses) PROVE main.misses[i + 1] \in Experts
      OBVIOUS
    <2>1. i + 1 \in 1 .. Len(main.misses)
      BY <1>4 DEF Jobs
    <2>2. QED
      BY <1>4, <2>1, ElementOfSeq
  <1>6. eids' \in [Jobs -> Names]
    BY <1>1, <1>2, <1>5 DEF PoolInv, PoolTypes, Names
  <1>7. \A i \in 0 .. njobs - 1 : eids'[i] = main.misses[i + 1]
    BY <1>1, <1>2, <1>3, <1>4 DEF Jobs
  <1>8. QED
    BY <1>1, <1>2, <1>3, <1>6, <1>7, Stores DEF PoolInv, PoolTypes

LEMMA ResetReadyKeeps ==
  ASSUME PoolInv, ResetReady, UNCHANGED <<pilotVars, main>>
  PROVE  PoolInv'
  <1>1. /\ call.at = "reset" /\ call' = [call EXCEPT !.at = "publish"]
        /\ ready' = {i \in ready : i >= Len(call.list)}
        /\ UNCHANGED <<CallFrame, cur, worker, njobs, batchLayer, eids>>
    BY DEF ResetReady, Dispatching, Goes, CallFrame
  <1>2. RestInv /\ call.list = main.misses
    BY <1>1, InCall
  <1>3. /\ njobs = Len(main.misses) /\ (njobs <= cur \/ Quiet) /\ batchLayer = main.layer
        /\ \A i \in 0 .. njobs - 1 : eids[i] = main.misses[i + 1]
    BY <1>1, <1>2 DEF RestInv
  <1>4. ready' \in SUBSET Jobs /\ \A i \in ready' : i >= njobs
    BY <1>1, <1>2, <1>3 DEF PoolInv, PoolTypes
  <1>5. QED
    BY <1>1, <1>3, <1>4, Stores DEF PoolInv, PoolTypes

\* The new generation: the copies of the cursor that are about are old.
LEMMA PublishKeeps ==
  ASSUME PoolInv, Publish, UNCHANGED <<pilotVars, main>>
  PROVE  PoolInv'
  <1>1. /\ call.at = "publish" /\ call' = [call EXCEPT !.at = "wake"] /\ cur' = 0
        /\ worker' = [w \in Workers |-> [worker[w] EXCEPT !.fresh = FALSE]]
        /\ UNCHANGED <<setup, njobs, batchLayer, eids, ready, ws, main>>
    BY DEF Publish, Dispatching, Goes
  <1>2. /\ RestInv /\ setup.backend = "threads" /\ main.at = "experts"
        /\ main.misses # <<>> /\ call.list = main.misses /\ call.layer = main.layer /\ main.j = 1
    BY <1>1, InCall
  <1>3. call' \in [at : {"idle", "count", "layer", "eids", "reset", "publish", "wake"},
                   layer : Layers, list : Seq(Experts)]
        /\ call'.at = "wake" /\ call'.list = call.list /\ call'.layer = call.layer
    BY <1>1 DEF PoolInv, PoolTypes
  <1>4. /\ worker' \in [Workers -> Thread]
        /\ \A w \in Workers : worker'[w].at = worker[w].at /\ ~worker'[w].fresh
    BY <1>1 DEF PoolInv, PoolTypes, Thread
  <1>5. PoolTypes' /\ Calling' /\ Sleepers'
    BY <1>1, <1>2, <1>3, <1>4 DEF PoolInv, PoolTypes, Calling, Sleepers
  <1>6. InBatch'
    BY <1>1, <1>2, <1>3 DEF InBatch, Computing
  <1>7. \A w \in Workers : ~Active(w)'
    BY <1>2, <1>4 DEF RestInv, Active
  <1>8. \A i \in ready : i >= njobs /\ i \in Nat
    BY <1>1, <1>2 DEF RestInv, PoolInv, PoolTypes, Jobs
  <1>9. njobs = Len(main.misses) /\ njobs \in Nat
    BY <1>1, <1>2 DEF RestInv, PoolInv, PoolTypes
  <1>10. Loaded'
    BY <1>1, <1>8, <1>9 DEF Loaded
  <1>11. BatchInv'
    BY <1>1, <1>2, <1>4, <1>7, <1>8, <1>9 DEF BatchInv, RestInv
  <1>12. QED
    BY <1>1, <1>5, <1>6, <1>10, <1>11 DEF PoolInv, Threads

LEMMA WakeKeeps ==
  ASSUME PoolInv, Wake, UNCHANGED <<pilotVars, main>>
  PROVE  PoolInv'
  <1>1. /\ call.at = "wake" /\ call' = Idle
        /\ worker' = [w \in Workers |-> [worker[w] EXCEPT !.at = IF @ = "asleep" THEN "park" ELSE @]]
        /\ UNCHANGED <<setup, cur, njobs, batchLayer, eids, ready, ws, main>>
    BY DEF Wake, Dispatching
  <1>2. Idle \in [at : {"idle", "count", "layer", "eids", "reset", "publish", "wake"},
                  layer : Layers, list : Seq(Experts)] /\ Idle.at = "idle"
    BY PoolAssumption, EmptySeq DEF Idle, Layers
  <1>3. /\ worker' \in [Workers -> Thread]
        /\ \A w \in Workers :
             /\ worker'[w].fresh = worker[w].fresh /\ worker'[w].c = worker[w].c
             /\ worker'[w].layer = worker[w].layer /\ worker'[w].eid = worker[w].eid
             /\ worker'[w].at = IF worker[w].at = "asleep" THEN "park" ELSE worker[w].at
    BY <1>1 DEF PoolInv, PoolTypes, Thread
  <1>4. setup.backend = "threads" /\ InBatch /\ InBatch'
    BY <1>1, <1>2 DEF PoolInv, Calling, InBatch, Computing
  <1>5. PoolTypes'
    BY <1>1, <1>2, <1>3 DEF PoolInv, PoolTypes
  <1>6. Calling' /\ Loaded'
    BY <1>1, <1>2, <1>4 DEF PoolInv, Calling, Loaded
  <1>7. Sleepers'
    BY SMTT(30), <1>1, <1>3, <1>4 DEF PoolInv, Sleepers
  <1>8. \A w \in Workers : Active(w)' => Active(w) /\ worker'[w].at = worker[w].at
    BY <1>3 DEF Active
  <1>9. BatchInv'
    <2>1. BatchInv
      BY <1>4 DEF PoolInv, Threads
    <2>2. \A v, w \in Workers : Active(v)' /\ Active(w)' /\ worker'[v].c = worker'[w].c => v = w
      BY <1>3, <1>8, <2>1 DEF BatchInv
    <2>3. \A w \in Workers : Active(w)' =>
            /\ worker'[w].c < cur /\ worker'[w].c \notin ready
            /\ worker'[w].at # "layer" => worker'[w].layer = batchLayer
            /\ worker'[w].at = "load" => worker'[w].eid = eids[worker'[w].c]
      BY <1>3, <1>8, <2>1 DEF BatchInv
    <2>4. \A w \in Workers : worker'[w].at = "grab" /\ worker'[w].fresh => worker'[w].c < njobs
      BY <1>3, <2>1 DEF BatchInv
    <2>5. QED
      BY <1>1, <2>1, <2>2, <2>3, <2>4 DEF BatchInv
  <1>10. QED
    BY <1>1, <1>4, <1>5, <1>9, <1>6, <1>7 DEF PoolInv, Threads
-----------------------------------------------------------------------------
(* What the main thread waited for stays there, and reads of io_uring.      *)

LEMMA PoolKeeps ==
  ASSUME PoolInv, Waited, NEW w \in Workers, PoolStep(w)
  PROVE  PoolInv' /\ Waited' /\ UNCHANGED <<setup, main, pilotVars>>
  <1>1. w \in setup.threads /\ UNCHANGED <<main, pilotVars>>
    BY DEF PoolStep
  <1>2. /\ PoolInv' /\ ready \subseteq ready'
        /\ UNCHANGED <<setup, call>>
    <2>1. CASE Park(w)
      BY <1>1, <2>1, ParkKeeps DEF Park
    <2>2. CASE LoadCursor(w)
      BY <1>1, <2>2, LoadCursorKeeps DEF LoadCursor
    <2>3. CASE CheckCount(w)
      BY <1>1, <2>3, CheckCountKeeps DEF CheckCount
    <2>4. CASE Grab(w)
      BY <1>1, <2>4, GrabKeeps DEF Grab
    <2>5. CASE ReadLayer(w)
      BY <1>1, <2>5, ReadLayerKeeps DEF ReadLayer
    <2>6. CASE BeginLoad(w)
      BY <1>1, <2>6, BeginLoadKeeps DEF BeginLoad
    <2>7. CASE EndLoad(w)
      BY <1>1, <2>7, EndLoadKeeps DEF EndLoad
    <2>8. QED
      BY <2>1, <2>2, <2>3, <2>4, <2>5, <2>6, <2>7 DEF PoolStep, Worker
  <1>3. Waited'
    BY <1>1, <1>2 DEF Waited, Computing
  <1>4. QED
    BY <1>1, <1>2, <1>3

LEMMA DispatchKeeps ==
  ASSUME PoolInv, MainTypes, Resolution, Straggling = FALSE,
         Dispatch, UNCHANGED <<pilotVars, main>>
  PROVE  PoolInv' /\ Waited' /\ UNCHANGED setup
  <1>1. PoolInv' /\ UNCHANGED setup
    <2>1. CASE StoreCount
      BY <2>1, StoreCountKeeps DEF StoreCount
    <2>2. CASE StoreLayer
      BY <2>2, StoreLayerKeeps DEF StoreLayer
    <2>3. CASE StoreEids
      BY <2>3, StoreEidsKeeps DEF StoreEids
    <2>4. CASE ResetReady
      BY <2>4, ResetReadyKeeps DEF ResetReady
    <2>5. CASE Publish
      BY <2>5, PublishKeeps DEF Publish
    <2>6. CASE Wake
      BY <2>6, WakeKeeps DEF Wake
    <2>7. QED
      BY <2>1, <2>2, <2>3, <2>4, <2>5, <2>6 DEF Dispatch
  <1>2. main.at = "experts" /\ main.j = 1
    BY DEF PoolInv, Calling, Dispatch, StoreCount, StoreLayer, StoreEids, ResetReady, Publish,
           Wake, Dispatching
  <1>3. \A i \in 1 .. Len(main.block) : ~(i < main.j)
    BY <1>2
  <1>4. Waited'
    BY <1>2, <1>3 DEF Waited
  <1>5. QED
    BY <1>1, <1>4

LEMMA CompletesKeeps ==
  ASSUME PoolInv, MainTypes, Waited, NEW q \in Jobs, Completes(q)
  PROVE  PoolInv' /\ Waited' /\ UNCHANGED <<setup, main, pilotVars>>
  <1>1. /\ setup.backend = "uring" /\ main.at \in {"experts", "matmul"}
        /\ q < Len(main.misses)
        /\ ws' = [ws EXCEPT ![q] = <<main.layer, main.misses[q + 1]>>]
        /\ ready' = ready \cup {q}
        /\ UNCHANGED <<setup, cur, njobs, batchLayer, eids, worker, call, pilotVars, main>>
    BY DEF Completes
  <1>2. <<main.layer, main.misses[q + 1]>> \in Held
    <2>1. main.misses \in Seq(Experts) /\ main.layer \in Int
      BY PoolAssumption DEF MainTypes, Mains, Layers
    <2>2. q + 1 \in 1 .. Len(main.misses)
      BY <1>1, <2>1, LenProperties DEF Jobs
    <2>3. QED
      BY <2>1, <2>2, ElementOfSeq DEF Held, Names
  <1>3. /\ ws' \in [Jobs -> Held] /\ ws'[q] = <<main.layer, main.misses[q + 1]>>
        /\ \A p \in Jobs : p # q => ws'[p] = ws[p]
    BY <1>1, <1>2 DEF PoolInv, PoolTypes
  <1>4. PoolTypes'
    BY <1>1, <1>3 DEF PoolInv, PoolTypes
  <1>5. Calling' /\ Sleepers'
    BY <1>1 DEF PoolInv, Calling, Sleepers
  <1>6. Loaded'
    BY <1>1, <1>3 DEF PoolInv, PoolTypes, Loaded, InBatch, Computing
  <1>7. Threads'
    BY <1>1 DEF Threads
  <1>8. Waited'
    BY <1>1 DEF Waited, Computing
  <1>9. QED
    BY <1>1, <1>4, <1>5, <1>6, <1>7, <1>8 DEF PoolInv
-----------------------------------------------------------------------------
(* The main thread beside the pool.                                         *)

\* Outside a batch the pool is at rest wherever the main thread goes.
LEMMA MainMoves ==
  ASSUME PoolInv, UNCHANGED poolVars, call.at = "idle", ~InBatch, ~InBatch'
  PROVE  PoolInv'
  <1>1. PoolTypes' /\ Calling' /\ Sleepers'
    BY DEF PoolInv, PoolTypes, Calling, Sleepers, poolVars
  <1>2. Loaded'
    BY DEF Loaded
  <1>3. setup.backend = "threads" => RestInv'
    BY DEF PoolInv, Threads, RestInv, Active, Quiet, poolVars
  <1>4. QED
    BY <1>1, <1>2, <1>3 DEF PoolInv, Threads, poolVars

\* Within a batch it may go on through the block.
LEMMA MainStays ==
  ASSUME PoolInv, UNCHANGED poolVars, call.at = "idle", Computing, Computing',
         main'.misses = main.misses, main'.layer = main.layer
  PROVE  PoolInv'
  <1>1. PoolTypes' /\ Calling' /\ Sleepers'
    BY DEF PoolInv, PoolTypes, Calling, Sleepers, poolVars
  <1>2. InBatch' = InBatch
    BY DEF InBatch, poolVars
  <1>3. Loaded'
    BY <1>2 DEF PoolInv, Loaded, poolVars
  <1>4. BatchInv => BatchInv'
    BY DEF BatchInv, Active, poolVars
  <1>5. RestInv => RestInv'
    BY DEF RestInv, Active, Quiet, poolVars
  <1>6. QED
    BY <1>1, <1>2, <1>3, <1>4, <1>5 DEF PoolInv, Threads, poolVars

LEMMA StartLoadsKeeps ==
  ASSUME PoolInv, MainTypes, Forward, StartLoads
  PROVE  /\ PoolInv' /\ Waited' /\ UNCHANGED <<setup, pilotVars>>
         /\ main' = [main EXCEPT !.at = "experts"]
  <1>1. /\ main.at = "resolved" /\ main' = [main EXCEPT !.at = "experts"]
        /\ UNCHANGED <<setup, cur, njobs, batchLayer, eids, worker, pilotVars>>
    BY DEF StartLoads, Main
  <1>2. /\ main'.at = "experts" /\ main'.misses = main.misses /\ main'.layer = main.layer
        /\ main'.j = 1 /\ main'.block = main.block /\ main'.use = main.use
    BY <1>1 DEF MainTypes, Forward
  <1>3. call.at = "idle" /\ ~InBatch
    BY <1>1 DEF PoolInv, Calling, InBatch, Computing
  <1>4. \A i \in 1 .. Len(main.block) : ~(i < main'.j)
    BY <1>2
  <1>5. Waited'
    BY <1>2, <1>4 DEF Waited
  <1>6. Len(main.misses) \in Nat /\ main.misses \in Seq(Experts) /\ main.layer \in Layers
    BY LenProperties DEF MainTypes, Mains
  <1>7. CASE main.misses = <<>>
    <2>1. UNCHANGED <<ws, ready, call>>
      BY <1>7 DEF StartLoads
    <2>2. ~InBatch'
      BY <1>2, <1>7 DEF InBatch
    <2>3. PoolInv'
      BY <1>1, <1>3, <2>1, <2>2, MainMoves DEF poolVars
    <2>4. QED
      BY <1>1, <1>5, <2>3
  <1>8. CASE main.misses # <<>> /\ setup.backend = "threads"
    <2>1. /\ call' = [at |-> "count", layer |-> main.layer, list |-> main.misses]
          /\ UNCHANGED <<ws, ready>>
      BY <1>8 DEF StartLoads
    <2>2. PoolTypes'
      BY <1>1, <1>6, <2>1 DEF PoolInv, PoolTypes
    <2>3. Calling' /\ Sleepers' /\ ~InBatch' /\ Loaded'
      BY <1>1, <1>2, <1>8, <2>1 DEF PoolInv, Calling, Sleepers, InBatch, Loaded
    <2>4. RestInv'
      BY <1>1, <1>3, <1>8, <2>1 DEF PoolInv, Threads, RestInv, Active
    <2>5. QED
      BY <1>1, <1>5, <2>2, <2>3, <2>4 DEF PoolInv, Threads
  <1>9. CASE main.misses # <<>> /\ setup.backend # "threads"
    <2>1. /\ call' = call
          /\ ws' = [q \in Jobs |-> IF q >= Len(main.misses) THEN ws[q]
                      ELSE IF setup.backend = "serial" THEN <<main.layer, main.misses[q + 1]>>
                      ELSE Half]
          /\ ready' = {q \in ready : q >= Len(main.misses)} \cup
                      {q \in Jobs : setup.backend = "serial" /\ q < Len(main.misses)}
      BY <1>9 DEF StartLoads
    <2>2. \A q \in Jobs : q < Len(main.misses) => <<main.layer, main.misses[q + 1]>> \in Held
      <3> SUFFICES ASSUME NEW q \in Jobs, q < Len(main.misses)
                   PROVE  <<main.layer, main.misses[q + 1]>> \in Held
        OBVIOUS
      <3>1. q + 1 \in 1 .. Len(main.misses)
        BY <1>6 DEF Jobs
      <3>2. QED
        BY <1>6, <3>1, ElementOfSeq, PoolAssumption DEF Held, Names, Layers
    <2>3. ws' \in [Jobs -> Held]
      BY <1>6, <2>1, <2>2 DEF PoolInv, PoolTypes, Held, Jobs
    <2>4. PoolTypes'
      BY <1>1, <2>1, <2>3 DEF PoolInv, PoolTypes
    <2>5. Calling' /\ Sleepers'
      BY <1>1, <1>3, <2>1 DEF PoolInv, Calling, Sleepers
    <2>6. Loaded'
      BY <1>1, <1>2, <1>6, <2>1 DEF PoolInv, PoolTypes, Loaded, Jobs
    <2>7. Threads'
      BY <1>1, <1>9 DEF Threads
    <2>8. QED
      BY <1>1, <1>5, <2>4, <2>5, <2>6, <2>7 DEF PoolInv
  <1>10. QED
    BY <1>7, <1>8, <1>9

LEMMA WaitExpertKeeps ==
  ASSUME PoolInv, MainTypes, Waited, WaitExpert
  PROVE  /\ PoolInv' /\ Waited' /\ UNCHANGED <<setup, pilotVars>>
         /\ main' = [main EXCEPT !.at = "matmul"] /\ main.at = "experts"
  <1>1. /\ main.at = "experts" /\ call = Idle /\ main.j <= Len(main.block)
        /\ main.use[main.j].in = "ws" => main.use[main.j].at \in ready
        /\ main' = [main EXCEPT !.at = "matmul"] /\ UNCHANGED <<poolVars, pilotVars>>
    BY DEF WaitExpert, Main
  <1>2. /\ main'.at = "matmul" /\ main'.misses = main.misses /\ main'.layer = main.layer
        /\ main'.j = main.j /\ main'.block = main.block /\ main'.use = main.use
    BY <1>1 DEF MainTypes
  <1>3. call.at = "idle"
    BY <1>1 DEF Idle
  <1>4. Computing /\ Computing'
    BY <1>1, <1>2 DEF Computing
  <1>5. PoolInv'
    BY <1>1, <1>2, <1>3, <1>4, MainStays
  <1>6. main.j \in 1 .. Len(main.block)
    BY <1>1, <1>4, LenProperties DEF Waited, MainTypes
  <1>7. Waited'
    BY <1>1, <1>2, <1>3, <1>4, <1>6 DEF Waited, poolVars
  <1>8. QED
    BY <1>1, <1>5, <1>7 DEF poolVars

LEMMA MatmulKeeps ==
  ASSUME PoolInv, MainTypes, Waited, Matmul
  PROVE  /\ PoolInv' /\ Waited' /\ UNCHANGED <<setup, pilotVars>>
         /\ main' = [main EXCEPT !.at = "experts", !.j = @ + 1] /\ main.at = "matmul"
  <1>1. /\ main.at = "matmul" /\ main' = [main EXCEPT !.at = "experts", !.j = @ + 1]
        /\ UNCHANGED <<poolVars, pilotVars>>
    BY DEF Matmul, Main
  <1>2. /\ main'.at = "experts" /\ main'.misses = main.misses /\ main'.layer = main.layer
        /\ main'.j = main.j + 1 /\ main'.block = main.block /\ main'.use = main.use
        /\ main.j \in Nat
    BY <1>1 DEF MainTypes, Mains
  <1>3. Computing /\ Computing' /\ call.at = "idle"
    BY <1>1, <1>2 DEF Computing, Waited
  <1>4. PoolInv'
    BY <1>1, <1>2, <1>3, MainStays
  <1>5. \A i \in 1 .. Len(main.block) : i < main'.j => i < main.j \/ i = main.j
    BY <1>2
  <1>6. Waited'
    BY <1>1, <1>2, <1>3, <1>5 DEF Waited, poolVars
  <1>7. QED
    BY <1>1, <1>4, <1>6 DEF poolVars
\* Everywhere else it is out of the batch before the step and after it.
LEMMA MainElsewhere ==
  ASSUME PoolInv, UNCHANGED poolVars, ~Computing, ~Computing'
  PROVE  PoolInv' /\ Waited'
  <1>1. call.at = "idle" /\ ~InBatch /\ ~InBatch'
    BY DEF PoolInv, Calling, InBatch, Computing
  <1>2. QED
    BY <1>1, MainMoves DEF Waited

\* All of a block that has been computed was read: every miss was waited for.
LEMMA BlockIsRead ==
  ASSUME PoolInv, MainTypes, Resolution, Waited, Promote
  PROVE  \A q \in Jobs : q < Len(main.misses) =>
           q \in ready /\ ws[q] = <<main.layer, main.misses[q + 1]>>
  <1> SUFFICES ASSUME NEW q \in Jobs, q < Len(main.misses)
               PROVE  q \in ready /\ ws[q] = <<main.layer, main.misses[q + 1]>>
    OBVIOUS
  <1>1. main.at = "experts" /\ call.at = "idle" /\ main.j > Len(main.block)
    BY DEF Promote, Main, Idle
  <1>2. main.misses # <<>> /\ Len(main.misses) \in Nat /\ Len(main.block) \in Nat /\ main.j \in Nat
    BY EmptySeq, LenProperties DEF MainTypes, Mains, Jobs
  <1>3. InBatch /\ Computing /\ Resolved
    BY <1>1, <1>2 DEF InBatch, Computing, Resolved
  <1>4. q + 1 \in 1 .. Len(main.misses)
    BY <1>2 DEF Jobs
  <1>5. PICK i \in 1 .. Len(main.block) :
          main.use[i].in = "ws" /\ main.use[i].at = (q + 1) - 1
    BY <1>3, <1>4 DEF Resolution
  <1>6. i < main.j
    BY <1>1, <1>2
  <1>7. q \in ready
    BY <1>3, <1>5, <1>6 DEF Waited, Jobs
  <1>8. QED
    BY <1>3, <1>7 DEF PoolInv, Loaded

LEMMA PromoteKeepsPool ==
  ASSUME PoolInv, MainTypes, Resolution, Waited, Promote
  PROVE  PoolInv' /\ Waited' /\ UNCHANGED setup
  <1>1. /\ main.at = "experts" /\ call.at = "idle"
        /\ UNCHANGED <<setup, cur, njobs, batchLayer, eids, ready, worker, call>>
        /\ ws' = [q \in Jobs |-> Half]
        /\ main' = [main EXCEPT !.at = "promoted", !.block = <<>>,
                                !.use = <<>>, !.misses = <<>>, !.j = 0]
    BY DEF Promote, Main, Idle
  <1>2. main'.at = "promoted"
    BY <1>1 DEF MainTypes
  <1>3. ~InBatch' /\ ~Computing' /\ Waited' /\ Loaded'
    BY <1>2 DEF InBatch, Computing, Waited, Loaded
  <1>4. PoolTypes' /\ Calling' /\ Sleepers'
    BY <1>1 DEF PoolInv, PoolTypes, Calling, Sleepers, Held
  <1>5. ASSUME setup.backend = "threads"
        PROVE  RestInv'
    <2>1. CASE ~InBatch
      BY <1>1, <1>5, <2>1 DEF PoolInv, Threads, RestInv, Active
    <2>2. CASE InBatch
      <3>1. BatchInv
        BY <1>5, <2>2 DEF PoolInv, Threads
      <3>2. njobs \in Nat /\ cur \in Nat /\ njobs <= Block /\ Block \in Nat
            /\ worker \in [Workers -> Thread]
        BY PoolAssumption DEF PoolInv, PoolTypes
      <3>3. \A q \in 0 .. njobs - 1 : q \in ready
        BY <3>1, <3>2, BlockIsRead DEF BatchInv, Jobs
      <3>4. cur = njobs
        <4>1. CASE njobs = 0
          BY <3>1, <3>2, <4>1 DEF BatchInv
        <4>2. CASE njobs > 0
          <5>1. njobs - 1 \in ready /\ njobs - 1 < njobs
            BY <3>2, <3>3, <4>2
          <5>2. njobs - 1 < cur /\ cur <= njobs
            BY <3>1, <5>1 DEF BatchInv
          <5>3. QED
            BY <3>2, <5>2
        <4>3. QED
          BY <3>2, <4>1, <4>2
      <3>5. \A w \in Workers : ~Active(w)
        <4> SUFFICES ASSUME NEW w \in Workers, Active(w) PROVE FALSE
          OBVIOUS
        <4>1. worker[w].c < cur /\ worker[w].c \notin ready /\ worker[w].c \in Nat
          BY <3>1, <3>2 DEF BatchInv, Thread
        <4>2. QED
          BY <3>2, <3>3, <3>4, <4>1
      <3>6. \A w \in Workers : worker[w].at = "grab" /\ worker[w].fresh => worker[w].c < cur
        BY <3>1, <3>4 DEF BatchInv
      <3>7. QED
        BY <1>1, <3>4, <3>5, <3>6 DEF RestInv, Active
    <2>3. QED
      BY <2>1, <2>2
  <1>6. QED
    BY <1>1, <1>3, <1>4, <1>5 DEF PoolInv, Threads
-----------------------------------------------------------------------------
(* The loads of a layer in a batch of the pilot's.                          *)

LEMMA OfFinite ==
  ASSUME NEW batch \in Seq(Load), NEW l
  PROVE  IsFiniteSet(Of(batch, l)) /\ Cardinality(Of(batch, l)) \in Nat
  <1>1. Of(batch, l) \in SUBSET (1 .. Len(batch)) /\ Len(batch) \in Nat
    BY LenProperties DEF Of
  <1>2. IsFiniteSet(1 .. Len(batch))
    BY <1>1, FS_Interval
  <1>3. QED
    BY <1>1, <1>2, FS_Subset, FS_CardinalityType

LEMMA OfNone ==
  ASSUME NEW batch \in Seq(Load), NEW l
  PROVE  Cardinality(Of(batch, l)) = 0 <=> \A i \in 1 .. Len(batch) : batch[i].layer # l
  <1>1. Cardinality(Of(batch, l)) = 0 <=> Of(batch, l) = {}
    BY OfFinite, FS_EmptySet
  <1>2. QED
    BY <1>1 DEF Of

LEMMA OfAppend ==
  ASSUME NEW batch \in Seq(Load), NEW load \in Load, NEW l
  PROVE  Cardinality(Of(Append(batch, load), l)) =
           Cardinality(Of(batch, l)) + (IF load.layer = l THEN 1 ELSE 0)
  <1> DEFINE n == Len(batch)
             more == Append(batch, load)
  <1>1. /\ n \in Nat /\ Len(more) = n + 1 /\ more[n + 1] = load
        /\ \A i \in 1 .. n : more[i] = batch[i]
    BY LenProperties
  <1>2. CASE load.layer = l
    <2>1. Of(more, l) = Of(batch, l) \cup {n + 1}
      BY <1>1, <1>2 DEF Of
    <2>2. n + 1 \notin Of(batch, l)
      BY <1>1 DEF Of
    <2>3. QED
      BY <1>2, <2>1, <2>2, OfFinite, FS_AddElement
  <1>3. CASE load.layer # l
    <2>1. Of(more, l) = Of(batch, l)
      BY <1>1, <1>3 DEF Of
    <2>2. QED
      BY <1>3, <2>1, OfFinite
  <1>4. QED
    BY <1>2, <1>3

LEMMA OfTail ==
  ASSUME NEW batch \in Seq(Load), batch # <<>>, NEW l
  PROVE  Cardinality(Of(batch, l)) =
           Cardinality(Of(Tail(batch), l)) + (IF Head(batch).layer = l THEN 1 ELSE 0)
  <1> DEFINE rest == Tail(batch)
             later == Of(batch, l) \ {1}
             f == [i \in Of(rest, l) |-> i + 1]
  <1>1. /\ Len(batch) \in Nat \ {0} /\ rest \in Seq(Load) /\ Len(rest) = Len(batch) - 1
        /\ Head(batch) = batch[1] /\ \A i \in 1 .. Len(rest) : rest[i] = batch[i + 1]
    BY EmptySeq, HeadTailProperties
  <1> HIDE DEF rest
  <1>2. f \in Bijection(Of(rest, l), later)
    <2>1. f \in [Of(rest, l) -> later]
      <3> SUFFICES ASSUME NEW i \in Of(rest, l) PROVE i + 1 \in later
        OBVIOUS
      <3>1. i \in 1 .. Len(rest) /\ rest[i].layer = l
        BY DEF Of
      <3>2. i + 1 \in 1 .. Len(batch) /\ i + 1 # 1 /\ batch[i + 1] = rest[i]
        BY <1>1, <3>1
      <3>3. QED
        BY <3>1, <3>2 DEF Of
    <2>2. \A a, b \in Of(rest, l) : f[a] = f[b] => a = b
      BY DEF Of
    <2>3. ASSUME NEW k \in later PROVE \E i \in Of(rest, l) : f[i] = k
      <3>1. k \in 1 .. Len(batch) /\ k # 1 /\ batch[k].layer = l
        BY <2>3 DEF Of
      <3>2. k - 1 \in 1 .. Len(rest) /\ (k - 1) + 1 = k
        BY <1>1, <3>1
      <3>3. rest[k - 1].layer = l
        BY <1>1, <3>1, <3>2
      <3>4. k - 1 \in Of(rest, l)
        BY <3>2, <3>3 DEF Of
      <3>5. QED
        BY <3>2, <3>4
    <2>4. QED
      BY <2>1, <2>2, <2>3 DEF Bijection, Injection, Surjection, IsInjective
  <1>3. IsFiniteSet(Of(rest, l)) /\ Cardinality(Of(rest, l)) \in Nat
    BY <1>1, OfFinite
  <1>4. Cardinality(later) = Cardinality(Of(rest, l))
    <2>1. ExistsBijection(Of(rest, l), later)
      BY <1>2 DEF ExistsBijection
    <2>2. QED
      BY <1>3, <2>1, FS_Bijection
  <1>5. IsFiniteSet(Of(batch, l)) /\ Cardinality(Of(batch, l)) \in Nat
    BY OfFinite
  <1>6. 1 \in Of(batch, l) <=> Head(batch).layer = l
    BY <1>1 DEF Of
  <1>7. Cardinality(later) = IF 1 \in Of(batch, l) THEN Cardinality(Of(batch, l)) - 1
                             ELSE Cardinality(Of(batch, l))
    BY <1>5, FS_RemoveElement
  <1>8. QED
    BY <1>3, <1>4, <1>5, <1>6, <1>7 DEF rest
-----------------------------------------------------------------------------
(* The pilot.                                                               *)

CacheInv == CacheTypes /\ Counted /\ Truthful /\ Reservations /\ OneByOne
\* Where no read is in flight and the forward pass has been, nothing changes.
Leaves ==
  /\ UNCHANGED curLayer
  /\ \A l \in Layers : l <= curLayer /\ inflight[l] = 0 =>
       ecache'[l] = ecache[l] /\ inflight'[l] = inflight[l]

LEMMA PilotWakesKeeps ==
  ASSUME PoolTypes, CacheInv, PilotWakes, UNCHANGED setup
  PROVE  CacheInv' /\ Leaves
  <1>1. /\ pilot.at = "idle" /\ ring # <<>> /\ UNCHANGED <<ecache, ring, curLayer, inflight>>
        /\ pilot' = [Asleep EXCEPT !.at = "pick",
                                   !.upto = IF setup.backend = "uring" THEN Len(ring) ELSE 1]
    BY DEF PilotWakes
  <1>2. Len(ring) \in Nat \ {0}
    BY <1>1, EmptySeq DEF CacheInv, CacheTypes
  <1>3. /\ pilot'.at = "pick" /\ pilot'.took = 0 /\ pilot'.batch = <<>> /\ pilot'.ok = FALSE
        /\ pilot'.upto = IF setup.backend = "uring" THEN Len(ring) ELSE 1
        /\ pilot.batch = <<>>
    BY <1>1 DEF Asleep, CacheInv, CacheTypes
  <1>4. <<>> \in Seq(Load)
    BY EmptySeq
  <1>5. CacheTypes'
    <2>1. pilot' \in Pilots
      BY <1>1, <1>2, <1>4 DEF Asleep, Pilots
    <2>2. pilot'.took < pilot'.upto /\ pilot'.upto <= Len(ring)
      BY <1>2, <1>3
    <2>3. QED
      BY <1>1, <1>3, <2>1, <2>2 DEF CacheInv, CacheTypes
  <1>6. Counted' /\ Truthful'
    BY <1>1, <1>3 DEF CacheInv, Counted, Truthful
  <1>7. Reservations' /\ OneByOne'
    BY <1>1, <1>3 DEF CacheInv, Reservations, OneByOne
  <1>8. QED
    BY <1>1, <1>5, <1>6, <1>7 DEF CacheInv, Leaves

LEMMA PickNothingKeeps ==
  ASSUME PoolTypes, CacheInv, pilot.at = "pick", PickNothing, UNCHANGED <<setup, ring, curLayer>>
  PROVE  CacheInv' /\ Leaves
  <1> DEFINE next == IF PicksOn THEN "pick" ELSE "submit"
  <1>1. /\ UNCHANGED <<ecache, inflight>> /\ next \in {"pick", "submit"}
        /\ pilot' = [pilot EXCEPT !.took = @ + 1, !.at = next]
    BY DEF PickNothing
  <1>2. next = "pick" => pilot.took + 1 < pilot.upto
    BY DEF PicksOn
  <1> HIDE DEF next
  <1>3. /\ pilot \in Pilots
        /\ pilot.took < pilot.upto /\ pilot.upto <= Len(ring)
    BY DEF CacheInv, CacheTypes
  <1>4. /\ pilot' \in Pilots
        /\ pilot'.batch = pilot.batch /\ pilot'.took = pilot.took + 1 /\ pilot'.upto = pilot.upto
        /\ pilot'.at = next
    <2>1. pilot.took + 1 \in Nat
      BY <1>3 DEF Pilots
    <2>2. QED
      BY <1>1, <1>3, <2>1 DEF Pilots
  <1>5. CacheTypes'
    BY <1>1, <1>2, <1>3, <1>4 DEF CacheInv, CacheTypes
  <1>6. Counted' /\ Truthful' /\ Reservations'
    BY SMTT(30), <1>1, <1>4 DEF CacheInv, Counted, Truthful, Reservations
  <1>7. OneByOne'
    BY <1>1, <1>2, <1>3, <1>4 DEF CacheInv, OneByOne
  <1>8. QED
    BY <1>1, <1>5, <1>6, <1>7 DEF CacheInv, Leaves

\* The ring after the pilot took what it took.
LEMMA ConsumeKeeps ==
  ASSUME CacheTypes, Consume
  PROVE  ring' \in Seq(Weights)
  <1>1. /\ ring \in Seq(Weights) /\ Len(ring) \in Nat /\ pilot.took + 1 \in Nat \ {0}
    BY LenProperties DEF CacheTypes, Pilots
  <1>2. \A i \in pilot.took + 1 .. Len(ring) : ring[i] \in Weights
    BY <1>1, ElementOfSeq
  <1>3. QED
    BY <1>1, <1>2, SubSeqProperties DEF Consume

LEMMA PilotSubmitKeeps ==
  ASSUME PoolTypes, CacheInv, PilotSubmit, UNCHANGED setup
  PROVE  CacheInv' /\ Leaves
  <1>1. pilot.at = "submit" /\ UNCHANGED <<ecache, curLayer, inflight>>
    BY DEF PilotSubmit
  <1>2. ring' \in Seq(Weights)
    BY ConsumeKeeps DEF PilotSubmit, CacheInv, CacheTypes
  <1>3. CASE pilot.batch = <<>>
    <2>1. pilot' = Asleep
      BY <1>3 DEF PilotSubmit
    <2>2. /\ pilot'.at = "idle" /\ pilot'.batch = pilot.batch
          /\ pilot' \in Pilots
      BY <1>3, <2>1, EmptySeq DEF Asleep, Pilots
    <2>3. CacheTypes'
      BY <1>1, <1>2, <1>3, <2>2 DEF CacheInv, CacheTypes
    <2>4. Counted' /\ Truthful' /\ Reservations' /\ OneByOne'
      BY <1>1, <1>3, <2>2 DEF CacheInv, Counted, Truthful, Reservations, OneByOne
    <2>5. QED
      BY <1>1, <2>3, <2>4 DEF CacheInv, Leaves
  <1>4. CASE pilot.batch # <<>>
    <2>1. pilot' = [pilot EXCEPT !.at = "read", !.upto = 0,
                       !.took = IF setup.backend = "uring" THEN 0 ELSE @]
      BY <1>4 DEF PilotSubmit
    <2>2. /\ pilot'.at = "read" /\ pilot'.batch = pilot.batch
          /\ pilot' \in Pilots
      BY <1>4, <2>1 DEF CacheInv, CacheTypes, Pilots
    <2>3. CacheTypes'
      BY <1>1, <1>2, <1>4, <2>2 DEF CacheInv, CacheTypes
    <2>4. Counted' /\ Truthful' /\ Reservations' /\ OneByOne'
      BY <1>1, <1>4, <2>2 DEF CacheInv, Counted, Truthful, Reservations, OneByOne
    <2>5. QED
      BY <1>1, <2>3, <2>4 DEF CacheInv, Leaves
  <1>5. QED
    BY <1>3, <1>4
\* The cache of layer l with one slot written or added.
Puts(l, z, s) ==
  /\ ecache' \in [Layers -> Seq(Slots)]
  /\ \A k \in Layers : k # l => ecache'[k] = ecache[k]
  /\ Len(ecache'[l]) = IF z > Len(ecache[l]) THEN z ELSE Len(ecache[l])
  /\ ecache'[l][z] = s
  /\ \A y \in 1 .. Len(ecache[l]) : y # z => ecache'[l][y] = ecache[l][y]

LEMMA SlotWritten ==
  ASSUME ecache \in [Layers -> Seq(Slots)], NEW l \in Layers, NEW z \in 1 .. Len(ecache[l]),
         NEW s \in Slots, ecache' = [ecache EXCEPT ![l][z] = s]
  PROVE  Puts(l, z, s)
  <1> DEFINE row == [ecache[l] EXCEPT ![z] = s]
  <1>1. ecache[l] \in Seq(Slots) /\ Len(ecache[l]) \in Nat
    BY LenProperties
  <1>2. /\ row \in Seq(Slots) /\ Len(row) = Len(ecache[l]) /\ row[z] = s
        /\ \A y \in 1 .. Len(ecache[l]) : y # z => row[y] = ecache[l][y]
    BY <1>1, ExceptSeq
  <1>3. ecache' = [ecache EXCEPT ![l] = row]
    OBVIOUS
  <1> HIDE DEF row
  <1>4. ecache'[l] = row /\ ecache' \in [Layers -> Seq(Slots)]
        /\ \A k \in Layers : k # l => ecache'[k] = ecache[k]
    BY <1>2, <1>3
  <1>5. QED
    BY <1>1, <1>2, <1>4 DEF Puts

LEMMA SlotAdded ==
  ASSUME ecache \in [Layers -> Seq(Slots)], NEW l \in Layers,
         NEW s \in Slots, ecache' = [ecache EXCEPT ![l] = Append(@, s)]
  PROVE  Puts(l, Len(ecache[l]) + 1, s)
  <1> DEFINE row == Append(ecache[l], s)
             n == Len(ecache[l])
  <1>1. ecache[l] \in Seq(Slots) /\ n \in Nat
    BY LenProperties
  <1>2. /\ row \in Seq(Slots) /\ Len(row) = n + 1 /\ row[n + 1] = s
        /\ \A y \in 1 .. n : y # n + 1 /\ row[y] = ecache[l][y]
    BY <1>1
  <1>3. ecache' = [ecache EXCEPT ![l] = row]
    OBVIOUS
  <1> HIDE DEF row
  <1>4. ecache'[l] = row /\ ecache' \in [Layers -> Seq(Slots)]
        /\ \A k \in Layers : k # l => ecache'[k] = ecache[k]
    BY <1>2, <1>3
  <1>5. QED
    BY <1>1, <1>2, <1>4 DEF Puts

LEMMA PutsTruthful ==
  ASSUME ecache \in [Layers -> Seq(Slots)], Truthful, NEW l \in Layers,
         NEW z \in 1 .. Len(ecache[l]) + 1, NEW s \in Slots, Puts(l, z, s),
         s.eid # Nobody /\ ~s.reserved => s.holds = <<l, s.eid>>,
         s.eid # Nobody => \A y \in 1 .. Len(ecache[l]) : y # z => ecache[l][y].eid # s.eid
  PROVE  Truthful'
  <1>1. Len(ecache[l]) \in Nat
    BY LenProperties
  <1>2. \A y \in 1 .. Len(ecache'[l]) : y # z => y \in 1 .. Len(ecache[l])
    BY <1>1 DEF Puts
  <1>3. ASSUME NEW k \in Layers, NEW x \in 1 .. Len(ecache'[k])
        PROVE  ecache'[k][x].eid # Nobody /\ ~ecache'[k][x].reserved
                 => ecache'[k][x].holds = <<k, ecache'[k][x].eid>>
    <2>1. CASE k # l
      BY <1>3, <2>1 DEF Puts, Truthful
    <2>2. CASE k = l /\ x = z
      BY <2>2 DEF Puts
    <2>3. CASE k = l /\ x # z
      BY <1>2, <1>3, <2>3 DEF Puts, Truthful
    <2>4. QED
      BY <2>1, <2>2, <2>3
  <1>4. ASSUME NEW k \in Layers, NEW x \in 1 .. Len(ecache'[k]), NEW y \in 1 .. Len(ecache'[k]),
               ecache'[k][y].eid = ecache'[k][x].eid, ecache'[k][x].eid # Nobody
        PROVE  y = x
    <2>1. CASE k # l
      BY <1>4, <2>1 DEF Puts, Truthful
    <2>2. CASE k = l /\ x = z
      BY <1>2, <1>4, <2>2 DEF Puts
    <2>3. CASE k = l /\ y = z
      BY <1>2, <1>4, <2>3 DEF Puts
    <2>4. CASE k = l /\ x # z /\ y # z
      <3>1. /\ x \in 1 .. Len(ecache[l]) /\ y \in 1 .. Len(ecache[l])
            /\ ecache'[l][x] = ecache[l][x] /\ ecache'[l][y] = ecache[l][y]
        BY <1>2, <1>4, <2>4 DEF Puts
      <3>2. QED
        BY <1>4, <2>4, <3>1 DEF Truthful
    <2>5. QED
      BY <2>1, <2>2, <2>3, <2>4
  <1>5. QED
    BY <1>3, <1>4 DEF Truthful
LEMMA VictimsAreSlots ==
  ASSUME CacheInv, NEW l \in Layers, NEW z \in Victims(l)
  PROVE  /\ z \in 1 .. Len(ecache[l])
         /\ setup.backend = "uring" => ~ecache[l][z].reserved
  <1>1. ecache[l] \in Seq(Slots) /\ DOMAIN ecache[l] = 1 .. Len(ecache[l])
    BY LenProperties DEF CacheInv, CacheTypes
  <1>2. z \in 1 .. Len(ecache[l])
    BY <1>1 DEF Victims
  <1>3. ASSUME setup.backend = "uring", ecache[l][z].reserved
        PROVE  FALSE
    <2>1. PICK i \in 1 .. Len(pilot.batch) : pilot.batch[i].layer = l /\ pilot.batch[i].slot = z
      BY <1>2, <1>3 DEF CacheInv, Reservations
    <2>2. pilot.batch[i] \in Load
      BY ElementOfSeq DEF CacheInv, CacheTypes, Pilots
    <2>3. ecache[l][z].eid \in Experts
      BY <1>3, <2>1, <2>2 DEF CacheInv, Reservations, Load
    <2>4. ecache[l][z].eid # Nobody
      BY <2>3, StreamAssumption
    <2>5. QED
      BY <1>3, <2>4 DEF Victims
  <1>4. QED
    BY <1>2, <1>3

LEMMA PickSlotKeeps ==
  ASSUME PoolTypes, CacheInv, pilot.at = "pick", NEW l \in Layers, NEW e \in Experts, NEW z,
         l > curLayer, ~Known(l, e), PickSlot(l, e, z),
         \/ z = Len(ecache[l]) + 1 /\ Len(ecache[l]) < setup.ecap
         \/ z \in Victims(l),
         UNCHANGED <<setup, ring, curLayer>>
  PROVE  CacheInv' /\ Leaves
  <1> DEFINE n    == Len(ecache[l])
             load == [layer |-> l, eid |-> e, slot |-> z, new |-> z > n]
             next == IF pilot.took + 1 >= pilot.upto \/ Len(pilot.batch) + 1 >= LoadMax
                     THEN "submit" ELSE "pick"
             slot == IF setup.backend = "uring" THEN Slot(e, TRUE, Half) ELSE Slot(Nobody, FALSE, Half)
  <1>1. /\ ecache \in [Layers -> Seq(Slots)] /\ \A k \in Layers : Len(ecache[k]) <= setup.ecap
        /\ ring \in Seq(Weights) /\ curLayer \in Layers \cup {-1} /\ inflight \in [Layers -> Nat]
        /\ pilot \in Pilots /\ pilot.took < pilot.upto /\ pilot.upto <= Len(ring)
        /\ pilot.batch \in Seq(Load) /\ n \in Nat /\ setup.ecap \in Nat \ {0}
    BY SetupIs, LenProperties DEF CacheInv, CacheTypes, Pilots
  <1>2. z \in 1 .. n + 1 /\ z \in Nat \ {0} /\ (z > n <=> z = n + 1) /\ (z > n => n < setup.ecap)
    BY <1>1, VictimsAreSlots
  <1>3. \A y \in 1 .. n : ecache[l][y].eid # e
    <2>1. DOMAIN ecache[l] = 1 .. n
      BY <1>1, LenProperties
    <2>2. QED
      BY <2>1 DEF Known, Found, Reserved
  <1>4. load \in Load /\ slot \in Slots
    BY <1>2 DEF Load, Slot, Slots, Names, Held
  <1>5. next \in {"submit", "pick"} /\ (next = "pick" => pilot.took + 1 < pilot.upto)
    BY <1>1 DEF Pilots
  <1>6. /\ inflight' = [inflight EXCEPT ![l] = @ + 1]
        /\ pilot' = [pilot EXCEPT !.took = @ + 1, !.batch = Append(@, load), !.at = next]
        /\ ecache' = IF ~(z > n) THEN [ecache EXCEPT ![l][z] = slot]
                     ELSE IF setup.backend = "uring" THEN [ecache EXCEPT ![l] = Append(@, slot)]
                     ELSE ecache
    BY DEF PickSlot
  <1> HIDE DEF next
  <1>7. /\ Append(pilot.batch, load) \in Seq(Load)
        /\ Len(Append(pilot.batch, load)) = Len(pilot.batch) + 1
        /\ Len(pilot.batch) \in Nat
        /\ Append(pilot.batch, load)[Len(pilot.batch) + 1] = load
        /\ \A i \in 1 .. Len(pilot.batch) : Append(pilot.batch, load)[i] = pilot.batch[i]
    BY <1>1, <1>4, LenProperties
  <1> DEFINE m == Len(pilot.batch)
             more == Append(pilot.batch, load)
  <1>8. /\ pilot' \in Pilots /\ pilot'.batch = more /\ pilot'.took = pilot.took + 1
        /\ pilot'.upto = pilot.upto /\ pilot'.at = next
    <2>1. pilot.took + 1 \in Nat
      BY <1>1 DEF Pilots
    <2> HIDE DEF load, more
    <2>2. pilot' = [pilot EXCEPT !.took = pilot.took + 1, !.batch = more, !.at = next]
      BY <1>6 DEF more
    <2>3. more \in Seq(Load)
      BY <1>7 DEF more
    <2>4. QED
      BY <1>1, <1>5, <2>1, <2>2, <2>3 DEF Pilots
  <1>9. Counted'
    <2>1. \A k \in Layers : inflight'[k] = inflight[k] + (IF load.layer = k THEN 1 ELSE 0)
      BY <1>1, <1>6
    <2>2. \A k \in Layers : Cardinality(Of(more, k)) =
             Cardinality(Of(pilot.batch, k)) + (IF load.layer = k THEN 1 ELSE 0)
      BY <1>1, <1>4, OfAppend
    <2> HIDE DEF load, more
    <2>3. QED
      BY <1>8, <2>1, <2>2 DEF CacheInv, Counted
  <1>10. m + 1 \in 1 .. Len(more) /\ \A i \in 1 .. Len(more) : i = m + 1 \/ i \in 1 .. m
    BY <1>7
  <1>11. more # <<>>
    BY <1>10, <1>7, EmptySeq
  <1>12. /\ ecache' \in [Layers -> Seq(Slots)] /\ \A k \in Layers : Len(ecache'[k]) <= setup.ecap
         /\ Truthful' /\ Leaves
         /\ ecache' = ecache \/ Puts(l, z, slot)
         /\ setup.backend = "uring" \/ z <= n => Puts(l, z, slot)
         /\ setup.backend # "uring" /\ z > n => ecache' = ecache
    <2>1. setup.backend = "uring" \/ z <= n => Puts(l, z, slot)
      <3>1. CASE z > n /\ setup.backend = "uring"
        BY <1>1, <1>2, <1>4, <1>6, <3>1, SlotAdded
      <3>2. CASE ~(z > n)
        <4>1. z \in 1 .. n
          BY <1>1, <1>2, <3>2
        <4>2. QED
          BY <1>1, <1>4, <1>6, <3>2, <4>1, SlotWritten
      <3>3. z <= n => ~(z > n)
        BY <1>1, <1>2
      <3> HIDE DEF slot, n
      <3>4. QED
        BY <3>1, <3>2, <3>3
    <2>2. setup.backend # "uring" /\ z > n => ecache' = ecache
      BY <1>6
    <2>3. ecache' = ecache \/ Puts(l, z, slot)
      <3>1. z <= n \/ z > n
        BY <1>1, <1>2
      <3> HIDE DEF slot, n
      <3>2. QED
        BY <2>1, <2>2, <3>1
    <2>4. Truthful'
      <3>1. CASE ecache' = ecache
        BY <3>1 DEF CacheInv, Truthful
      <3>2. CASE Puts(l, z, slot)
        <4>1. /\ slot.eid # Nobody => slot.eid = e /\ slot.reserved
          BY DEF Slot
        <4>2. slot.eid # Nobody => \A y \in 1 .. Len(ecache[l]) : y # z => ecache[l][y].eid # slot.eid
          BY <1>3, <4>1
        <4> HIDE DEF slot
        <4>3. QED
          BY <1>1, <1>2, <1>4, <3>2, <4>1, <4>2, PutsTruthful DEF CacheInv
      <3>3. QED
        BY <2>3, <3>1, <3>2
    <2>5. \A k \in Layers : Len(ecache'[k]) <= setup.ecap
      <3> SUFFICES ASSUME NEW k \in Layers PROVE Len(ecache'[k]) <= setup.ecap
        OBVIOUS
      <3> HIDE DEF slot
      <3>1. CASE ecache' = ecache \/ k # l
        BY <1>1, <2>3, <3>1 DEF Puts
      <3>2. CASE Puts(l, z, slot) /\ k = l
        <4>1. Len(ecache'[l]) = IF z > n THEN z ELSE n
          BY <3>2 DEF Puts
        <4>2. QED
          BY <1>1, <1>2, <3>2, <4>1
      <3>3. QED
        BY <2>3, <3>1, <3>2
    <2>6. ecache' \in [Layers -> Seq(Slots)]
      BY <1>1, <2>3 DEF Puts
    <2>7. Leaves
      <3>1. \A k \in Layers : k <= curLayer => k # l
        BY <1>1, PoolAssumption DEF Layers
      <3>2. \A k \in Layers : k # l => ecache'[k] = ecache[k] /\ inflight'[k] = inflight[k]
        BY <1>1, <1>6, <2>3 DEF Puts
      <3>3. QED
        BY <3>1, <3>2 DEF Leaves
    <2>8. QED
      BY <2>1, <2>2, <2>3, <2>4, <2>5, <2>6, <2>7
  <1>13. inflight' \in [Layers -> Nat]
    BY <1>1, <1>6
  <1>14. CacheTypes'
    <2> HIDE DEF more
    <2>1. pilot'.at = "pick" => pilot'.took < pilot'.upto /\ pilot'.upto <= Len(ring')
      BY <1>1, <1>5, <1>8
    <2>2. pilot'.at \in {"pick", "submit"}
      BY <1>5, <1>8
    <2>3. QED
      BY <1>1, <1>8, <1>12, <1>13, <2>1, <2>2 DEF CacheTypes
  <1>15. Reservations'
    <2> SUFFICES ASSUME setup.backend = "uring" PROVE Reservations'
      BY DEF Reservations
    <2>1. /\ Puts(l, z, slot) /\ slot.eid = e /\ slot.reserved
      BY <1>12 DEF Slot
    <2>2. \A i \in 1 .. m : /\ pilot.batch[i] \in Load
                            /\ pilot.batch[i].slot \in 1 .. Len(ecache[pilot.batch[i].layer])
                            /\ ecache[pilot.batch[i].layer][pilot.batch[i].slot].eid = pilot.batch[i].eid
                            /\ ecache[pilot.batch[i].layer][pilot.batch[i].slot].reserved
      BY <1>1, ElementOfSeq DEF CacheInv, Reservations
    <2>3. \A i \in 1 .. m : pilot.batch[i].layer = l => pilot.batch[i].slot # z
      <3> SUFFICES ASSUME NEW i \in 1 .. m, pilot.batch[i].layer = l, pilot.batch[i].slot = z
                   PROVE  FALSE
        OBVIOUS
      <3>1. z \in 1 .. n /\ ecache[l][z].reserved
        BY <2>2
      <3>2. z \in Victims(l)
        BY <1>1, <3>1
      <3>3. QED
        BY <3>1, <3>2, VictimsAreSlots
    <2> HIDE DEF slot
    <2>4. \A i \in 1 .. m :
             /\ pilot.batch[i].slot \in 1 .. Len(ecache'[pilot.batch[i].layer])
             /\ ecache'[pilot.batch[i].layer][pilot.batch[i].slot] =
                ecache[pilot.batch[i].layer][pilot.batch[i].slot]
      <3> SUFFICES ASSUME NEW i \in 1 .. m
                   PROVE  LET b == pilot.batch[i] IN
                          /\ b.slot \in 1 .. Len(ecache'[b.layer])
                          /\ ecache'[b.layer][b.slot] = ecache[b.layer][b.slot]
        OBVIOUS
      <3> DEFINE b == pilot.batch[i]
      <3>1. b.layer \in Layers /\ b.slot \in 1 .. Len(ecache[b.layer]) /\ (b.layer = l => b.slot # z)
        BY <2>2, <2>3 DEF Load
      <3> HIDE DEF b
      <3>2. ASSUME b.layer = l
            PROVE  b.slot \in 1 .. Len(ecache'[b.layer]) /\ ecache'[b.layer][b.slot] = ecache[b.layer][b.slot]
        <4>1. Len(ecache'[l]) = IF z > n THEN z ELSE n
          BY <2>1 DEF Puts
        <4>2. \A y \in 1 .. n : y # z => ecache'[l][y] = ecache[l][y]
          BY <2>1 DEF Puts
        <4>3. b.slot \in 1 .. n /\ b.slot # z
          BY <3>1, <3>2
        <4>4. n <= Len(ecache'[l]) /\ Len(ecache'[l]) \in Nat
          BY <1>1, <1>2, <4>1
        <4>5. QED
          BY <1>1, <3>2, <4>2, <4>3, <4>4
      <3>3. ASSUME b.layer # l
            PROVE  b.slot \in 1 .. Len(ecache'[b.layer]) /\ ecache'[b.layer][b.slot] = ecache[b.layer][b.slot]
        <4>1. ecache'[b.layer] = ecache[b.layer]
          BY <2>1, <3>1, <3>3 DEF Puts
        <4>2. QED
          BY <3>1, <4>1
      <3>4. QED
        BY <3>2, <3>3 DEF b
    <2>5. \A i \in 1 .. Len(more) :
             /\ more[i].slot \in 1 .. Len(ecache'[more[i].layer])
             /\ ecache'[more[i].layer][more[i].slot].eid = more[i].eid
             /\ ecache'[more[i].layer][more[i].slot].reserved
      <3> SUFFICES ASSUME NEW i \in 1 .. Len(more)
                   PROVE  /\ more[i].slot \in 1 .. Len(ecache'[more[i].layer])
                          /\ ecache'[more[i].layer][more[i].slot].eid = more[i].eid
                          /\ ecache'[more[i].layer][more[i].slot].reserved
        OBVIOUS
      <3>1. CASE i \in 1 .. m
        <4>1. more[i] = pilot.batch[i]
          BY <1>7, <3>1
        <4> HIDE DEF more
        <4>2. QED
          BY SMTT(30), <2>2, <2>4, <3>1, <4>1
      <3>2. CASE i = m + 1
        <4>1. more[i].slot = z /\ more[i].layer = l /\ more[i].eid = e
          BY <1>7, <3>2
        <4>2. z \in 1 .. Len(ecache'[l])
          BY <1>1, <1>2, <2>1 DEF Puts
        <4> HIDE DEF more
        <4>3. QED
          BY <2>1, <4>1, <4>2 DEF Puts
      <3>3. QED
        BY <1>10, <3>1, <3>2
    <2>6. \A i, k \in 1 .. Len(more) :
            more[i].layer = more[k].layer /\ more[i].slot = more[k].slot => i = k
      <3> SUFFICES ASSUME NEW i \in 1 .. Len(more), NEW k \in 1 .. Len(more),
                          more[i].layer = more[k].layer, more[i].slot = more[k].slot
                   PROVE  i = k
        OBVIOUS
      <3>1. more[m + 1].slot = z /\ more[m + 1].layer = l
        BY <1>7
      <3>2. \A j \in 1 .. m : more[j] = pilot.batch[j]
        BY <1>7
      <3>3. (i = m + 1 \/ i \in 1 .. m) /\ (k = m + 1 \/ k \in 1 .. m)
        BY <1>10
      <3> HIDE DEF more
      <3>4. CASE i \in 1 .. m /\ k \in 1 .. m
        BY <3>2, <3>4 DEF CacheInv, Reservations
      <3>5. CASE i = m + 1 \/ k = m + 1
        BY <2>3, <3>1, <3>2, <3>3, <3>5
      <3>6. QED
        BY <3>3, <3>4, <3>5
    <2>7. \A k \in Layers : \A y \in 1 .. Len(ecache'[k]) : ecache'[k][y].reserved =>
            \E i \in 1 .. Len(more) : more[i].layer = k /\ more[i].slot = y
      <3> SUFFICES ASSUME NEW k \in Layers, NEW y \in 1 .. Len(ecache'[k]), ecache'[k][y].reserved
                   PROVE  \E i \in 1 .. Len(more) : more[i].layer = k /\ more[i].slot = y
        OBVIOUS
      <3>1. CASE k = l /\ y = z
        <4>1. more[m + 1].slot = z /\ more[m + 1].layer = l
          BY <1>7
        <4> HIDE DEF more
        <4>2. QED
          BY <1>10, <3>1, <4>1
      <3>2. CASE ~(k = l /\ y = z)
        <4>1. y \in 1 .. Len(ecache[k]) /\ ecache'[k][y] = ecache[k][y]
          BY <1>1, <1>2, <2>1, <3>2 DEF Puts
        <4>2. PICK i \in 1 .. m : pilot.batch[i].layer = k /\ pilot.batch[i].slot = y
          BY <4>1 DEF CacheInv, Reservations
        <4>3. more[i] = pilot.batch[i] /\ i \in 1 .. Len(more)
          BY <1>7
        <4> HIDE DEF more
        <4>4. QED
          BY <4>2, <4>3
      <3>3. QED
        BY <3>1, <3>2
    <2> HIDE DEF more
    <2>8. QED
      BY <1>8, <2>5, <2>6, <2>7 DEF Reservations
  <1>16. OneByOne'
    <2> SUFFICES ASSUME setup.backend # "uring" PROVE OneByOne'
      BY DEF OneByOne
    <2>1. /\ pilot.took = 0 /\ pilot.upto = 1 /\ pilot.batch = <<>>
          /\ \A k \in Layers : \A y \in 1 .. Len(ecache[k]) : ~ecache[k][y].reserved
      BY DEF CacheInv, OneByOne
    <2>2. next = "submit" /\ Len(more) = 1 /\ more[1] = load
      BY <1>5, <1>7, <2>1
    <2>3. \A k \in Layers : \A y \in 1 .. Len(ecache'[k]) : ~ecache'[k][y].reserved
      <3>1. ~slot.reserved
        BY DEF Slot
      <3> HIDE DEF slot
      <3>2. QED
        BY SMTT(30), <1>1, <1>2, <1>12, <2>1, <3>1 DEF Puts
    <2>4. IF z > n THEN Len(ecache'[l]) < setup.ecap ELSE z \in 1 .. Len(ecache'[l])
      <3>1. z <= n => Puts(l, z, slot)
        BY <1>12
      <3>2. z > n => ecache' = ecache
        BY <1>12
      <3> HIDE DEF slot
      <3>3. z <= n => Len(ecache'[l]) = n
        BY <1>1, <1>2, <3>1 DEF Puts
      <3>4. QED
        BY <1>1, <1>2, <3>2, <3>3
    <2>5. \A y \in 1 .. Len(ecache'[l]) : ecache'[l][y].eid # e
      <3>1. slot.eid # e
        BY StreamAssumption DEF Slot
      <3> HIDE DEF slot
      <3>2. QED
        BY <1>1, <1>2, <1>3, <1>12, <3>1 DEF Puts
    <2>6. pilot'.batch[1] = load /\ Len(pilot'.batch) = 1 /\ pilot'.at = "submit"
      BY <1>8, <2>2
    <2>7. load.layer = l /\ load.slot = z /\ load.eid = e /\ load.new = (z > n)
      OBVIOUS
    <2> HIDE DEF load, n
    <2>8. pilot'.at # "pick" /\ setup' = setup
      BY <2>6
    <2>9. QED
      BY <2>3, <2>4, <2>5, <2>6, <2>7, <2>8 DEF OneByOne
  <1>17. QED
    BY <1>9, <1>12, <1>14, <1>15, <1>16 DEF CacheInv
LEMMA PilotPickKeeps ==
  ASSUME PoolTypes, CacheInv, PilotPick, UNCHANGED setup
  PROVE  CacheInv' /\ Leaves
  <1> DEFINE l == ring[pilot.took + 1][1]
             e == ring[pilot.took + 1][2]
  <1>1. pilot.at = "pick" /\ UNCHANGED <<ring, curLayer>>
    BY DEF PilotPick
  <1>2. /\ ring \in Seq(Weights) /\ Len(ring) \in Nat /\ pilot \in Pilots
        /\ pilot.took < pilot.upto /\ pilot.upto <= Len(ring)
        /\ curLayer \in Layers \cup {-1} /\ ecache \in [Layers -> Seq(Slots)]
        /\ \A k \in Layers : Len(ecache[k]) <= setup.ecap
    BY <1>1, LenProperties DEF CacheInv, CacheTypes
  <1>3. pilot.took + 1 \in 1 .. Len(ring)
    BY <1>2 DEF Pilots
  <1>4. ring[pilot.took + 1] \in Weights
    BY <1>2, <1>3, ElementOfSeq
  <1>5. l \in Layers /\ e \in Experts
    BY <1>4 DEF Weights
  <1>6. \/ PickNothing
        \/ /\ ~(l <= curLayer) /\ ~Known(l, e)
           /\ \E z : /\ PickSlot(l, e, z)
                     /\ \/ z = Len(ecache[l]) + 1 /\ Len(ecache[l]) < setup.ecap
                        \/ z \in Victims(l)
    BY DEF PilotPick
  <1>7. CASE PickNothing
    BY <1>1, <1>7, PickNothingKeeps
  <1> HIDE DEF l, e
  <1>8. CASE ~PickNothing
    <2>1. PICK z : /\ PickSlot(l, e, z)
                   /\ \/ z = Len(ecache[l]) + 1 /\ Len(ecache[l]) < setup.ecap
                      \/ z \in Victims(l)
      BY <1>6, <1>8
    <2>2. l > curLayer
      BY <1>2, <1>5, <1>6, <1>8, PoolAssumption DEF Layers
    <2>3. QED
      BY <1>1, <1>5, <1>6, <1>8, <2>1, <2>2, PickSlotKeeps
  <1>9. QED
    BY <1>7, <1>8

\* The load whose read ends: the first of the batch.
LEMMA FirstLoad ==
  ASSUME PoolTypes, CacheInv, pilot.at \in {"read", "publish"}
  PROVE  LET b == Head(pilot.batch) IN
         /\ b = pilot.batch[1] /\ 1 \in 1 .. Len(pilot.batch) /\ pilot.batch # <<>>
         /\ b \in Load /\ b.layer \in Layers /\ b.eid \in Experts /\ b.eid # Nobody
         /\ setup.backend = "uring" \/ ~b.new => b.slot \in 1 .. Len(ecache[b.layer])
         /\ inflight[b.layer] # 0
         /\ <<b.layer, b.eid>> \in Held
         /\ ecache \in [Layers -> Seq(Slots)] /\ pilot \in Pilots
  <1> DEFINE b == Head(pilot.batch)
  <1>1. /\ pilot.batch # <<>> /\ pilot.batch \in Seq(Load) /\ Len(pilot.batch) \in Nat \ {0}
        /\ pilot \in Pilots /\ ecache \in [Layers -> Seq(Slots)]
    BY EmptySeq DEF CacheInv, CacheTypes, Pilots
  <1>2. b = pilot.batch[1] /\ 1 \in 1 .. Len(pilot.batch) /\ b \in Load
    BY <1>1, HeadTailProperties
  <1>3. b.layer \in Layers /\ b.eid \in Experts
    BY <1>2 DEF Load
  <1>4. <<b.layer, b.eid>> \in Held /\ b.eid # Nobody
    BY <1>3, PoolAssumption, StreamAssumption DEF Held, Names, Layers
  <1>5. inflight[b.layer] # 0
    BY <1>1, <1>2, <1>3, OfNone DEF CacheInv, Counted
  <1>6. setup.backend = "uring" \/ ~b.new => b.slot \in 1 .. Len(ecache[b.layer])
    BY <1>1, <1>2 DEF CacheInv, Reservations, OneByOne
  <1> HIDE DEF b
  <1>7. QED
    BY <1>1, <1>2, <1>3, <1>4, <1>5, <1>6 DEF b

LEMMA PilotReadKeeps ==
  ASSUME PoolTypes, CacheInv, NEW ok \in BOOLEAN, PilotRead(ok), UNCHANGED setup
  PROVE  CacheInv' /\ Leaves
  <1> DEFINE b == Head(pilot.batch)
             full == Slot(b.eid, setup.backend = "uring", <<b.layer, b.eid>>)
             puts == ok /\ (setup.backend = "uring" \/ ~b.new)
  <1>1. /\ pilot.at = "read" /\ UNCHANGED <<ring, curLayer, inflight>>
        /\ ecache' = IF puts THEN [ecache EXCEPT ![b.layer][b.slot] = full] ELSE ecache
        /\ pilot' = [pilot EXCEPT !.at = "publish", !.ok = ok]
    BY DEF PilotRead
  <1>2. /\ b = pilot.batch[1] /\ 1 \in 1 .. Len(pilot.batch) /\ pilot.batch # <<>>
        /\ b.layer \in Layers /\ b.eid \in Experts /\ b.eid # Nobody
        /\ puts => b.slot \in 1 .. Len(ecache[b.layer])
        /\ inflight[b.layer] # 0 /\ <<b.layer, b.eid>> \in Held
        /\ ecache \in [Layers -> Seq(Slots)] /\ pilot \in Pilots
    BY <1>1, FirstLoad
  <1>3. /\ full \in Slots /\ full.eid = b.eid /\ full.holds = <<b.layer, b.eid>>
        /\ full.reserved <=> setup.backend = "uring"
    BY <1>2 DEF Slot, Slots, Names
  <1>4. pilot' \in Pilots /\ pilot'.at = "publish" /\ pilot'.batch = pilot.batch
    BY <1>1, <1>2 DEF Pilots
  <1>5. puts => Puts(b.layer, b.slot, full)
    <2> HIDE DEF b, full
    <2>1. QED
      BY <1>1, <1>2, <1>3, SlotWritten
  <1>6. ~puts => ecache' = ecache
    BY <1>1
  <1>7. puts => \A y \in 1 .. Len(ecache[b.layer]) : y # b.slot => ecache[b.layer][y].eid # b.eid
    <2>1. CASE setup.backend = "uring"
      <3>1. b.slot \in 1 .. Len(ecache[b.layer]) /\ ecache[b.layer][b.slot].eid = b.eid
        BY <1>2, <2>1 DEF CacheInv, Reservations
      <3> HIDE DEF b
      <3>2. QED
        BY <1>2, <3>1 DEF CacheInv, Truthful
    <2>2. CASE setup.backend # "uring"
      BY <1>1, <1>2, <2>2 DEF CacheInv, OneByOne
    <2>3. QED
      BY <2>1, <2>2
  <1> HIDE DEF b, full, puts
  <1>8. Truthful'
    <2>1. CASE puts
      <3>1. b.slot \in 1 .. Len(ecache[b.layer]) + 1
        BY <1>2, <2>1, LenProperties
      <3>2. QED
        BY <1>2, <1>3, <1>5, <1>7, <2>1, <3>1, PutsTruthful DEF CacheInv
    <2>2. CASE ~puts
      BY <1>6, <2>2 DEF CacheInv, Truthful
    <2>3. QED
      BY <2>1, <2>2
  <1>9. /\ ecache' \in [Layers -> Seq(Slots)]
        /\ \A k \in Layers : Len(ecache'[k]) = Len(ecache[k])
        /\ \A k \in Layers : k # b.layer => ecache'[k] = ecache[k]
        /\ \A k \in Layers : \A y \in 1 .. Len(ecache[k]) :
             ~(k = b.layer /\ y = b.slot) => ecache'[k][y] = ecache[k][y]
    <2>1. CASE puts
      <3>1. ~(b.slot > Len(ecache[b.layer])) /\ Puts(b.layer, b.slot, full)
        BY <1>2, <1>5, <2>1, LenProperties
      <3>2. QED
        BY <1>2, <3>1 DEF Puts
    <2>2. CASE ~puts
      BY <1>2, <1>6, <2>2
    <2>3. QED
      BY <2>1, <2>2
  <1>10. CacheTypes'
    BY <1>1, <1>2, <1>4, <1>9 DEF CacheInv, CacheTypes
  <1>11. Counted'
    BY <1>1, <1>4 DEF CacheInv, Counted
  <1>12. Leaves
    BY <1>1, <1>2, <1>9 DEF Leaves
  <1>13. Reservations'
    <2> SUFFICES ASSUME setup.backend = "uring" PROVE Reservations'
      BY <1>1 DEF Reservations
    <2>1. /\ b.slot \in 1 .. Len(ecache[b.layer]) /\ ecache[b.layer][b.slot].eid = b.eid
          /\ ecache[b.layer][b.slot].reserved
      BY <1>2 DEF CacheInv, Reservations
    <2>2. ecache'[b.layer][b.slot].eid = b.eid /\ ecache'[b.layer][b.slot].reserved
      <3>1. CASE puts
        BY <1>3, <1>5, <3>1 DEF Puts
      <3>2. CASE ~puts
        BY <1>6, <2>1, <3>2
      <3>3. QED
        BY <3>1, <3>2
    <2>3. \A k \in Layers : \A y \in 1 .. Len(ecache[k]) :
            /\ ecache'[k][y].eid = ecache[k][y].eid
            /\ ecache'[k][y].reserved <=> ecache[k][y].reserved
      BY <1>9, <2>1, <2>2
    <2>4. \A i \in 1 .. Len(pilot.batch) : pilot.batch[i].layer \in Layers
      <3>1. pilot.batch \in Seq(Load)
        BY <1>2 DEF Pilots
      <3>2. \A i \in 1 .. Len(pilot.batch) : pilot.batch[i] \in Load
        BY <3>1, ElementOfSeq
      <3>3. QED
        BY <3>2 DEF Load
    <2>5. \A i \in 1 .. Len(pilot'.batch) :
            /\ pilot'.batch[i].slot \in 1 .. Len(ecache'[pilot'.batch[i].layer])
            /\ ecache'[pilot'.batch[i].layer][pilot'.batch[i].slot].eid = pilot'.batch[i].eid
            /\ ecache'[pilot'.batch[i].layer][pilot'.batch[i].slot].reserved
      BY SMTT(30), <1>4, <1>9, <2>3, <2>4 DEF CacheInv, Reservations
    <2>6. \A k \in Layers : \A y \in 1 .. Len(ecache'[k]) : ecache'[k][y].reserved =>
            \E i \in 1 .. Len(pilot'.batch) : pilot'.batch[i].layer = k /\ pilot'.batch[i].slot = y
      <3> SUFFICES ASSUME NEW k \in Layers, NEW y \in 1 .. Len(ecache'[k]), ecache'[k][y].reserved
                   PROVE  \E i \in 1 .. Len(pilot.batch) :
                            pilot.batch[i].layer = k /\ pilot.batch[i].slot = y
        BY <1>4
      <3>1. y \in 1 .. Len(ecache[k]) /\ ecache[k][y].reserved
        BY <1>9, <2>3
      <3>2. QED
        BY <3>1 DEF CacheInv, Reservations
    <2>7. QED
      BY <1>4, <2>5, <2>6 DEF CacheInv, Reservations
  <1>14. OneByOne'
    <2> SUFFICES ASSUME setup.backend # "uring" PROVE OneByOne'
      BY <1>1 DEF OneByOne
    <2>1. \A k \in Layers : \A y \in 1 .. Len(ecache'[k]) : ~ecache'[k][y].reserved
      <3> SUFFICES ASSUME NEW k \in Layers, NEW y \in 1 .. Len(ecache'[k]) PROVE ~ecache'[k][y].reserved
        OBVIOUS
      <3>1. y \in 1 .. Len(ecache[k]) /\ ~ecache[k][y].reserved
        BY <1>9 DEF CacheInv, OneByOne
      <3>2. CASE puts /\ k = b.layer /\ y = b.slot
        BY <1>3, <1>5, <3>2 DEF Puts
      <3>3. CASE ~puts \/ ~(k = b.layer /\ y = b.slot)
        BY <1>6, <1>9, <3>1, <3>3
      <3>4. QED
        BY <3>2, <3>3
    <2>2. /\ Len(pilot.batch) = 1
          /\ IF b.new THEN Len(ecache[b.layer]) < setup.ecap ELSE b.slot \in 1 .. Len(ecache[b.layer])
          /\ b.new => \A y \in 1 .. Len(ecache[b.layer]) : ecache[b.layer][y].eid # b.eid
      BY <1>2 DEF CacheInv, OneByOne
    <2>3. b.new => ecache' = ecache
      BY <1>6 DEF puts
    <2>4. /\ Len(ecache'[b.layer]) = Len(ecache[b.layer])
          /\ pilot'.batch[1] = b /\ Len(pilot'.batch) = 1 /\ pilot'.at = "publish"
          /\ b.new => \A y \in 1 .. Len(ecache'[b.layer]) : ecache'[b.layer][y].eid # b.eid
      BY <1>2, <1>4, <1>9, <2>2, <2>3
    <2>5. QED
      BY <1>1, <2>1, <2>2, <2>4 DEF OneByOne
  <1>15. QED
    BY <1>8, <1>10, <1>11, <1>12, <1>13, <1>14 DEF CacheInv
LEMMA PilotPublishKeeps ==
  ASSUME PoolTypes, CacheInv, PilotPublish, UNCHANGED setup
  PROVE  CacheInv' /\ Leaves
  <1> DEFINE b == Head(pilot.batch)
             full == Slot(b.eid, FALSE, <<b.layer, b.eid>>)
             slot == IF pilot.ok THEN full ELSE Slot(Nobody, FALSE, Half)
             puts == setup.backend = "uring" \/ (pilot.ok /\ b.new)
             place == IF setup.backend = "uring" THEN b.slot ELSE Len(ecache[b.layer]) + 1
             rest == Tail(pilot.batch)
  <1>1. /\ pilot.at = "publish" /\ UNCHANGED curLayer
        /\ ecache' = IF setup.backend = "uring"
                     THEN [ecache EXCEPT ![b.layer][b.slot] = slot]
                     ELSE IF pilot.ok /\ b.new
                     THEN [ecache EXCEPT ![b.layer] = Append(@, full)] ELSE ecache
        /\ inflight' = [inflight EXCEPT ![b.layer] = @ - 1]
        /\ pilot' = IF Len(pilot.batch) > 1
                    THEN [pilot EXCEPT !.at = "read", !.batch = rest, !.ok = FALSE]
                    ELSE Asleep
    BY DEF PilotPublish
  <1>2. /\ b = pilot.batch[1] /\ 1 \in 1 .. Len(pilot.batch) /\ pilot.batch # <<>>
        /\ b.layer \in Layers /\ b.eid \in Experts /\ b.eid # Nobody
        /\ setup.backend = "uring" => b.slot \in 1 .. Len(ecache[b.layer])
        /\ inflight[b.layer] # 0 /\ <<b.layer, b.eid>> \in Held
        /\ ecache \in [Layers -> Seq(Slots)] /\ pilot \in Pilots
    BY <1>1, FirstLoad
  <1>3. inflight \in [Layers -> Nat] /\ inflight' \in [Layers -> Nat]
        /\ \A k \in Layers : inflight[k] = inflight'[k] + (IF b.layer = k THEN 1 ELSE 0)
    <2>1. inflight \in [Layers -> Nat]
      BY DEF CacheInv, CacheTypes
    <2> HIDE DEF b
    <2>2. inflight[b.layer] - 1 \in Nat
      BY <1>2, <2>1
    <2>3. QED
      BY <1>1, <1>2, <2>1, <2>2
  <1>4. /\ full \in Slots /\ full.eid = b.eid /\ ~full.reserved /\ full.holds = <<b.layer, b.eid>>
        /\ slot \in Slots /\ ~slot.reserved
        /\ slot.eid # Nobody => slot.eid = b.eid /\ slot.holds = <<b.layer, b.eid>>
        /\ pilot.ok => slot = full
    BY <1>2 DEF Slot, Slots, Names, Held
  <1>5. /\ pilot.batch \in Seq(Load) /\ rest \in Seq(Load) /\ Len(pilot.batch) \in Nat \ {0}
        /\ Len(rest) = Len(pilot.batch) - 1
        /\ \A i \in 1 .. Len(rest) : i + 1 \in 1 .. Len(pilot.batch) /\ rest[i] = pilot.batch[i + 1]
    <2>1. pilot.batch \in Seq(Load)
      BY <1>2 DEF Pilots
    <2>2. rest \in Seq(Load) /\ Len(rest) = Len(pilot.batch) - 1 /\ Len(pilot.batch) \in Nat \ {0}
          /\ \A i \in 1 .. Len(rest) : rest[i] = pilot.batch[i + 1]
      BY <1>2, <2>1, HeadTailProperties, EmptySeq
    <2> HIDE DEF rest
    <2>3. QED
      BY <2>1, <2>2
  <1>6. /\ pilot' \in Pilots /\ pilot'.batch = rest
        /\ IF Len(pilot.batch) > 1 THEN pilot'.at = "read" /\ rest # <<>>
           ELSE pilot'.at = "idle" /\ rest = <<>>
    <2> HIDE DEF rest
    <2>1. CASE Len(pilot.batch) > 1
      <3>1. pilot' = [pilot EXCEPT !.at = "read", !.batch = rest, !.ok = FALSE]
        BY <1>1, <2>1
      <3>2. pilot' \in Pilots /\ pilot'.batch = rest /\ pilot'.at = "read"
        BY <1>2, <1>5, <3>1 DEF Pilots
      <3>3. rest # <<>>
        BY <1>5, <2>1, EmptySeq
      <3>4. QED
        BY <2>1, <3>2, <3>3
    <2>2. CASE ~(Len(pilot.batch) > 1)
      BY <1>1, <1>5, <2>2, EmptySeq DEF Pilots, Asleep
    <2>3. QED
      BY <2>1, <2>2
  <1>7. puts => Puts(b.layer, place, slot)
    <2>1. CASE setup.backend = "uring"
      <3>1. ecache' = [ecache EXCEPT ![b.layer][b.slot] = slot]
        BY <1>1, <2>1
      <3> HIDE DEF b, slot
      <3>2. QED
        BY <1>2, <1>4, <2>1, <3>1, SlotWritten
    <2>2. CASE setup.backend # "uring" /\ puts
      <3>1. ecache' = [ecache EXCEPT ![b.layer] = Append(@, slot)]
        BY <1>1, <1>4, <2>2
      <3> HIDE DEF b, slot
      <3>2. QED
        BY <1>2, <1>4, <2>2, <3>1, SlotAdded
    <2>3. QED
      BY <2>1, <2>2
  <1>8. ~puts => ecache' = ecache
    BY <1>1
  <1>9. puts => \A y \in 1 .. Len(ecache[b.layer]) : y # place => ecache[b.layer][y].eid # b.eid
    <2>1. CASE setup.backend = "uring"
      <3>1. b.slot \in 1 .. Len(ecache[b.layer]) /\ ecache[b.layer][b.slot].eid = b.eid
        BY <1>2, <2>1 DEF CacheInv, Reservations
      <3> HIDE DEF b
      <3>2. QED
        BY SMTT(30), <1>2, <2>1, <3>1 DEF CacheInv, Truthful
    <2>2. CASE setup.backend # "uring"
      BY <1>1, <1>2, <2>2 DEF CacheInv, OneByOne
    <2>3. QED
      BY <2>1, <2>2
  <1>10. setup.backend # "uring" => Len(pilot.batch) = 1 /\ (puts => Len(ecache[b.layer]) < setup.ecap)
    BY <1>2 DEF CacheInv, OneByOne
  <1>11. setup.ecap \in Nat /\ \A k \in Layers : Len(ecache[k]) \in Nat /\ Len(ecache[k]) <= setup.ecap
    BY <1>2, SetupIs, LenProperties DEF CacheInv, CacheTypes
  <1>12. place \in 1 .. Len(ecache[b.layer]) + 1 /\ (puts => place <= setup.ecap)
    BY <1>2, <1>10, <1>11
  <1>13. ring' \in Seq(Weights)
    BY ConsumeKeeps DEF PilotPublish, CacheInv, CacheTypes
  <1> HIDE DEF b, full, slot, puts, place, rest
  <1>14. Truthful'
    <2>1. CASE puts
      BY <1>2, <1>4, <1>7, <1>9, <1>12, <2>1, PutsTruthful DEF CacheInv
    <2>2. CASE ~puts
      BY <1>8, <2>2 DEF CacheInv, Truthful
    <2>3. QED
      BY <2>1, <2>2
  <1>15. /\ ecache' \in [Layers -> Seq(Slots)]
         /\ \A k \in Layers : Len(ecache'[k]) <= setup.ecap
         /\ \A k \in Layers : k # b.layer => ecache'[k] = ecache[k]
    <2>1. CASE puts
      <3>1. Len(ecache'[b.layer]) = IF place > Len(ecache[b.layer]) THEN place ELSE Len(ecache[b.layer])
        BY <1>7, <2>1 DEF Puts
      <3>2. Len(ecache'[b.layer]) <= setup.ecap
        BY <1>2, <1>11, <1>12, <2>1, <3>1
      <3>3. ecache' \in [Layers -> Seq(Slots)] /\ \A k \in Layers : k # b.layer => ecache'[k] = ecache[k]
        BY <1>7, <2>1 DEF Puts
      <3>4. QED
        BY <1>11, <3>2, <3>3
    <2>2. CASE ~puts
      BY <1>2, <1>8, <1>11, <2>2
    <2>3. QED
      BY <2>1, <2>2
  <1>16. CacheTypes'
    BY <1>1, <1>3, <1>6, <1>13, <1>15 DEF CacheInv, CacheTypes
  <1>17. Counted'
    <2>1. \A k \in Layers : Cardinality(Of(pilot.batch, k)) =
             Cardinality(Of(rest, k)) + (IF b.layer = k THEN 1 ELSE 0)
      BY <1>2, <1>5, OfTail DEF b, rest
    <2>2. \A k \in Layers : Cardinality(Of(rest, k)) \in Nat
      BY <1>5, OfFinite
    <2>3. QED
      BY <1>3, <1>6, <2>1, <2>2 DEF CacheInv, Counted
  <1>18. Leaves
    BY <1>1, <1>2, <1>3, <1>15 DEF Leaves
  <1>19. Reservations'
    <2> SUFFICES ASSUME setup.backend = "uring" PROVE Reservations'
      BY DEF Reservations
    <2>1. Puts(b.layer, b.slot, slot) /\ b.slot \in 1 .. Len(ecache[b.layer])
      BY <1>2, <1>7 DEF puts, place
    <2>2. \A k \in Layers : Len(ecache'[k]) = Len(ecache[k])
      BY <1>11, <2>1 DEF Puts
    <2>3. \A k \in Layers : \A y \in 1 .. Len(ecache[k]) :
            ~(k = b.layer /\ y = b.slot) => ecache'[k][y] = ecache[k][y]
      BY <2>1 DEF Puts
    <2>4. ~ecache'[b.layer][b.slot].reserved
      BY <1>4, <2>1 DEF Puts
    <2>5. \A i \in 2 .. Len(pilot.batch) : pilot.batch[i].layer \in Layers
             /\ ~(pilot.batch[i].layer = b.layer /\ pilot.batch[i].slot = b.slot)
      <3> SUFFICES ASSUME NEW i \in 2 .. Len(pilot.batch)
                   PROVE  pilot.batch[i].layer \in Layers
                          /\ ~(pilot.batch[i].layer = b.layer /\ pilot.batch[i].slot = b.slot)
        OBVIOUS
      <3>1. i \in 1 .. Len(pilot.batch) /\ i # 1
        BY <1>5
      <3>2. pilot.batch[i] \in Load
        BY <1>5, <3>1, ElementOfSeq
      <3>3. QED
        BY <1>2, <3>1, <3>2 DEF CacheInv, Reservations, Load
    <2>6. \A i \in 1 .. Len(rest) :
            /\ rest[i].slot \in 1 .. Len(ecache'[rest[i].layer])
            /\ ecache'[rest[i].layer][rest[i].slot].eid = rest[i].eid
            /\ ecache'[rest[i].layer][rest[i].slot].reserved
      <3> SUFFICES ASSUME NEW i \in 1 .. Len(rest)
                   PROVE  /\ rest[i].slot \in 1 .. Len(ecache'[rest[i].layer])
                          /\ ecache'[rest[i].layer][rest[i].slot].eid = rest[i].eid
                          /\ ecache'[rest[i].layer][rest[i].slot].reserved
        OBVIOUS
      <3>1. /\ i + 1 \in 1 .. Len(pilot.batch) /\ i + 1 \in 2 .. Len(pilot.batch)
            /\ rest[i] = pilot.batch[i + 1]
        BY <1>5
      <3>2. /\ rest[i].layer \in Layers
            /\ ~(rest[i].layer = b.layer /\ rest[i].slot = b.slot)
        BY <2>5, <3>1
      <3>3. /\ rest[i].slot \in 1 .. Len(ecache[rest[i].layer])
            /\ ecache[rest[i].layer][rest[i].slot].eid = rest[i].eid
            /\ ecache[rest[i].layer][rest[i].slot].reserved
        BY <3>1 DEF CacheInv, Reservations
      <3>4. QED
        BY <2>2, <2>3, <3>2, <3>3
    <2>7. \A i, k \in 1 .. Len(rest) :
            rest[i].layer = rest[k].layer /\ rest[i].slot = rest[k].slot => i = k
      <3> SUFFICES ASSUME NEW i \in 1 .. Len(rest), NEW k \in 1 .. Len(rest),
                          rest[i].layer = rest[k].layer, rest[i].slot = rest[k].slot
                   PROVE  i = k
        OBVIOUS
      <3>1. i + 1 \in 1 .. Len(pilot.batch) /\ k + 1 \in 1 .. Len(pilot.batch)
            /\ rest[i] = pilot.batch[i + 1] /\ rest[k] = pilot.batch[k + 1]
        BY <1>5
      <3>2. i + 1 = k + 1
        BY <3>1 DEF CacheInv, Reservations
      <3>3. QED
        BY <3>2
    <2>8. \A k \in Layers : \A y \in 1 .. Len(ecache'[k]) : ecache'[k][y].reserved =>
            \E i \in 1 .. Len(rest) : rest[i].layer = k /\ rest[i].slot = y
      <3> SUFFICES ASSUME NEW k \in Layers, NEW y \in 1 .. Len(ecache'[k]), ecache'[k][y].reserved
                   PROVE  \E i \in 1 .. Len(rest) : rest[i].layer = k /\ rest[i].slot = y
        OBVIOUS
      <3>1. ~(k = b.layer /\ y = b.slot)
        BY <2>4
      <3>2. y \in 1 .. Len(ecache[k]) /\ ecache[k][y].reserved
        BY <2>2, <2>3, <3>1
      <3>3. PICK i \in 1 .. Len(pilot.batch) : pilot.batch[i].layer = k /\ pilot.batch[i].slot = y
        BY <3>2 DEF CacheInv, Reservations
      <3>4. i # 1
        BY <1>2, <3>1, <3>3
      <3>5. i - 1 \in 1 .. Len(rest) /\ (i - 1) + 1 = i
        BY <1>5, <3>4
      <3>6. rest[i - 1] = pilot.batch[i]
        BY <1>5, <3>5
      <3>7. QED
        BY <3>3, <3>5, <3>6
    <2>9. QED
      BY <1>6, <2>6, <2>7, <2>8 DEF Reservations
  <1>20. OneByOne'
    <2> SUFFICES ASSUME setup.backend # "uring" PROVE OneByOne'
      BY DEF OneByOne
    <2>1. pilot'.at = "idle" /\ pilot'.batch = <<>>
      <3>1. Len(pilot.batch) = 1
        BY <1>10
      <3>2. ~(Len(pilot.batch) > 1)
        BY <3>1
      <3>3. QED
        BY <1>6, <3>2
    <2>2. \A k \in Layers : \A y \in 1 .. Len(ecache[k]) : ~ecache[k][y].reserved
      BY DEF CacheInv, OneByOne
    <2>3. \A k \in Layers : \A y \in 1 .. Len(ecache'[k]) : ~ecache'[k][y].reserved
      <3>1. CASE ~puts
        BY <1>8, <2>2, <3>1
      <3>2. CASE puts
        <4>1. Puts(b.layer, place, slot) /\ place = Len(ecache[b.layer]) + 1
          BY <1>7, <3>2 DEF place
        <4>2. \A y \in 1 .. Len(ecache'[b.layer]) : y = place \/ y \in 1 .. Len(ecache[b.layer])
          BY <1>2, <1>11, <4>1 DEF Puts
        <4>3. QED
          BY SMTT(30), <1>2, <1>4, <2>2, <4>1, <4>2 DEF Puts
      <3>3. QED
        BY <3>1, <3>2
    <2>4. QED
      BY <2>1, <2>3 DEF OneByOne
  <1>21. QED
    BY <1>14, <1>16, <1>17, <1>18, <1>19, <1>20 DEF CacheInv

LEMMA PilotKeeps ==
  ASSUME PoolTypes, CacheInv, PilotThread, UNCHANGED setup
  PROVE  CacheInv' /\ Leaves
  BY PilotWakesKeeps, PilotPickKeeps, PilotSubmitKeeps, PilotReadKeeps, PilotPublishKeeps
     DEF PilotThread
-----------------------------------------------------------------------------
(* A block of experts and its slots.                                        *)

LEMMA SetToSeqLists ==
  ASSUME NEW S, IsFiniteSet(S)
  PROVE  /\ SetToSeq(S) \in Seq(S) /\ Len(SetToSeq(S)) = Cardinality(S) /\ Cardinality(S) \in Nat
         /\ DOMAIN SetToSeq(S) = 1 .. Cardinality(S) /\ IsInjective(SetToSeq(S))
         /\ \A e \in S : \E i \in 1 .. Cardinality(S) : SetToSeq(S)[i] = e
  <1> DEFINE n == Cardinality(S)
             f == SetToSeq(S)
  <1>1. n \in Nat /\ \E g \in [1 .. n -> S] : IsInjective(g)
    BY FS_CardinalityType DEF ExistsBijection, Bijection, Injection
  <1>2. f \in [1 .. n -> S] /\ IsInjective(f)
    BY <1>1 DEF SetToSeq
  <1> HIDE DEF f
  <1>3. f \in Seq(S) /\ Len(f) = n /\ DOMAIN f = 1 .. n
    BY <1>1, <1>2
  <1>4. f \in Injection(1 .. n, S)
    BY <1>2 DEF Injection
  <1>5. Cardinality(1 .. n) = n
    BY <1>1, FS_Interval
  <1>6. f \in Surjection(1 .. n, S)
    BY <1>4, <1>5, FS_Injection
  <1>7. \A e \in S : \E i \in 1 .. n : f[i] = e
    BY <1>6 DEF Surjection
  <1>8. QED
    BY <1>1, <1>2, <1>3, <1>7 DEF f

\* No read of a layer that is taken is in flight, so none of its slots waits.
LEMMA NoneReserved ==
  ASSUME CacheInv, NEW l \in Layers, inflight[l] = 0
  PROVE  /\ \A z \in 1 .. Len(ecache[l]) : ~ecache[l][z].reserved
         /\ \A i \in 1 .. Len(pilot.batch) : pilot.batch[i].layer # l
  <1>1. pilot.batch \in Seq(Load)
    BY DEF CacheInv, CacheTypes, Pilots
  <1>2. \A i \in 1 .. Len(pilot.batch) : pilot.batch[i].layer # l
    BY <1>1, OfNone DEF CacheInv, Counted
  <1>3. QED
    BY <1>2 DEF CacheInv, Reservations, OneByOne

LEMMA UseIs ==
  ASSUME CacheInv, main.layer \in Layers, inflight[main.layer] = 0, NEW e \in Experts,
         NEW misses \in Seq(Experts),
         ~Hit(e) => \E q \in 1 .. Len(misses) : misses[q] = e
  PROVE  LET u == Use(e, misses) cache == ecache[main.layer] IN
         /\ u \in Place
         /\ Hit(e) => \/ u.in = "pin"
                      \/ /\ u.in = "ecache" /\ u.at \in 1 .. Len(cache)
                         /\ cache[u.at].eid = e /\ ~cache[u.at].reserved
         /\ ~Hit(e) => /\ u.in = "ws" /\ u.at + 1 \in 1 .. Len(misses) /\ misses[u.at + 1] = e
  <1> DEFINE l == main.layer
             cache == ecache[l]
             u == Use(e, misses)
  <1>1. cache \in Seq(Slots) /\ DOMAIN cache = 1 .. Len(cache) /\ Len(cache) \in Nat
    BY LenProperties DEF CacheInv, CacheTypes
  <1>2. Found(l, e) \subseteq 1 .. Len(cache)
        /\ \A z \in Found(l, e) : cache[z].eid = e /\ ~cache[z].reserved
    BY <1>1 DEF Found
  <1>3. \A y, z \in Found(l, e) : y = z
    BY <1>2, StreamAssumption DEF CacheInv, Truthful
  <1>4. CASE PinnedAt(l, e)
    <2>1. u = [in |-> "pin", at |-> 0] /\ Hit(e)
      BY <1>4 DEF Use, Hit
    <2>2. QED
      BY <2>1 DEF Place
  <1>5. CASE ~PinnedAt(l, e) /\ Hit(e)
    <2> DEFINE first(z) == \A y \in Found(l, e) : z <= y
    <2>1. \E z \in Found(l, e) : first(z)
      BY <1>1, <1>2, <1>3, <1>5 DEF Hit
    <2> HIDE DEF first
    <2>2. (CHOOSE z \in Found(l, e) : first(z)) \in Found(l, e)
      BY <2>1
    <2>3. u = [in |-> "ecache", at |-> CHOOSE z \in Found(l, e) : first(z)]
      BY <1>5 DEF Use, first
    <2>4. u.in = "ecache" /\ u.at \in Found(l, e) /\ u \in [in : {"ecache"}, at : Found(l, e)]
      BY <2>2, <2>3
    <2>5. u \in Place
      BY <1>1, <1>2, <2>4 DEF Place
    <2> HIDE DEF u
    <2>6. QED
      BY <1>2, <1>5, <2>4, <2>5 DEF u
  <1>6. CASE ~Hit(e)
    <2> DEFINE k == CHOOSE q \in DOMAIN misses : misses[q] = e
    <2>1. DOMAIN misses = 1 .. Len(misses) /\ Len(misses) \in Nat
      BY LenProperties
    <2>2. k \in 1 .. Len(misses) /\ misses[k] = e
      BY <1>6, <2>1
    <2>3. u = [in |-> "ws", at |-> k - 1]
      BY <1>6 DEF Use, Hit
    <2> HIDE DEF k, u
    <2>4. u \in Place /\ u.in = "ws" /\ u.at + 1 = k
      BY <2>1, <2>2, <2>3 DEF Place
    <2>5. QED
      BY <1>6, <2>2, <2>4 DEF u
  <1>7. QED
    BY <1>4, <1>5, <1>6
MainInv == MainTypes /\ Forward /\ Resolution

LEMMA NextBlockKeeps ==
  ASSUME CacheInv, MainInv, NextBlock
  PROVE  MainInv' /\ main.at \in {"couple", "promoted"} /\ main'.at = "resolved"
         /\ UNCHANGED <<poolVars, pilotVars>>
  <1>1. /\ main \in Mains /\ main.at \in {"couple", "promoted"}
        /\ main.layer \in Layers /\ main.todo \in SUBSET Experts
        /\ inflight[main.layer] = 0 /\ curLayer = main.layer
        /\ UNCHANGED <<poolVars, pilotVars>>
    BY DEF NextBlock, Main, MainInv, MainTypes, Mains, Forward, Taken
  <1>2. PICK block \in SUBSET main.todo :
          /\ Cardinality(block) = IF Cardinality(main.todo) < Block
                                  THEN Cardinality(main.todo) ELSE Block
          /\ LET order  == SetToSeq(block)
                 misses == SetToSeq({e \in block : ~Hit(e)})
             IN  main' = [main EXCEPT !.at = "resolved", !.hints = 0, !.j = 1,
                            !.todo = @ \ block, !.block = order, !.misses = misses,
                            !.use = [j \in DOMAIN order |-> Use(order[j], misses)]]
    BY DEF NextBlock
  <1> DEFINE missed == {e \in block : ~Hit(e)}
             order  == SetToSeq(block)
             misses == SetToSeq(missed)
             use    == [j \in DOMAIN order |-> Use(order[j], misses)]
  <1>3. main' = [main EXCEPT !.at = "resolved", !.hints = 0, !.j = 1, !.todo = @ \ block,
                             !.block = order, !.misses = misses, !.use = use]
    BY <1>2
  <1>4. /\ IsFiniteSet(block) /\ IsFiniteSet(missed) /\ IsFiniteSet(main.todo)
        /\ Cardinality(missed) <= Cardinality(block)
        /\ missed \subseteq Experts /\ block \subseteq Experts /\ missed \subseteq block
    <2>1. IsFiniteSet(main.todo)
      BY <1>1, StreamAssumption, FS_Subset
    <2>2. IsFiniteSet(block)
      BY <2>1, FS_Subset
    <2>3. missed \in SUBSET block
      OBVIOUS
    <2> HIDE DEF missed
    <2>4. QED
      BY <1>1, <2>1, <2>2, <2>3, FS_Subset
  <1> HIDE DEF missed
  <1>5. /\ order \in Seq(Experts) /\ DOMAIN order = 1 .. Len(order) /\ Len(order) \in Nat
        /\ Len(order) = Cardinality(block)
        /\ \A i \in 1 .. Len(order) : order[i] \in block
        /\ \A e \in block : \E i \in 1 .. Len(order) : order[i] = e
    <2>1. /\ order \in Seq(block) /\ Len(order) = Cardinality(block) /\ Cardinality(block) \in Nat
          /\ DOMAIN order = 1 .. Cardinality(block)
          /\ \A e \in block : \E i \in 1 .. Cardinality(block) : order[i] = e
      BY <1>4, SetToSeqLists
    <2> HIDE DEF order
    <2>2. order \in Seq(Experts)
      BY <1>4, <2>1, SeqMonotonic
    <2>3. \A i \in 1 .. Len(order) : order[i] \in block
      BY <2>1, ElementOfSeq
    <2>4. QED
      BY <2>1, <2>2, <2>3
  <1>6. /\ misses \in Seq(Experts) /\ Len(misses) \in Nat /\ Len(misses) = Cardinality(missed)
        /\ IsInjective(misses) /\ DOMAIN misses = 1 .. Len(misses)
        /\ \A q \in 1 .. Len(misses) : misses[q] \in missed
        /\ \A e \in missed : \E q \in 1 .. Len(misses) : misses[q] = e
    <2>1. /\ misses \in Seq(missed) /\ Len(misses) = Cardinality(missed) /\ Cardinality(missed) \in Nat
          /\ DOMAIN misses = 1 .. Cardinality(missed) /\ IsInjective(misses)
          /\ \A e \in missed : \E i \in 1 .. Cardinality(missed) : misses[i] = e
      BY <1>4, SetToSeqLists
    <2> HIDE DEF misses
    <2>2. misses \in Seq(Experts)
      BY <1>4, <2>1, SeqMonotonic
    <2>3. \A q \in 1 .. Len(misses) : misses[q] \in missed
      BY <2>1, ElementOfSeq
    <2>4. QED
      BY <2>1, <2>2, <2>3
  <1> HIDE DEF order, misses
  <1>7. Len(misses) <= Block
    <2>1. Cardinality(main.todo) \in Nat /\ Cardinality(block) \in Nat /\ Block \in Nat
      BY <1>4, FS_CardinalityType, PoolAssumption
    <2>2. Cardinality(block) <= Block
      BY <1>2, <2>1
    <2>3. QED
      BY <1>4, <1>6, <2>1, <2>2
  <1> DEFINE cache == ecache[main.layer]
  <1>8. \A i \in 1 .. Len(order) :
          /\ Use(order[i], misses) \in Place
          /\ Hit(order[i]) =>
               \/ Use(order[i], misses).in = "pin"
               \/ /\ Use(order[i], misses).in = "ecache"
                  /\ Use(order[i], misses).at \in 1 .. Len(cache)
                  /\ cache[Use(order[i], misses).at].eid = order[i]
                  /\ ~cache[Use(order[i], misses).at].reserved
          /\ ~Hit(order[i]) =>
               /\ Use(order[i], misses).in = "ws"
               /\ Use(order[i], misses).at + 1 \in 1 .. Len(misses)
               /\ misses[Use(order[i], misses).at + 1] = order[i]
    <2> SUFFICES ASSUME NEW i \in 1 .. Len(order)
                 PROVE  LET e == order[i] u == Use(e, misses) IN
                        /\ u \in Place
                        /\ Hit(e) =>
                             \/ u.in = "pin"
                             \/ /\ u.in = "ecache" /\ u.at \in 1 .. Len(cache)
                                /\ cache[u.at].eid = e /\ ~cache[u.at].reserved
                        /\ ~Hit(e) =>
                             u.in = "ws" /\ u.at + 1 \in 1 .. Len(misses) /\ misses[u.at + 1] = e
      OBVIOUS
    <2>1. order[i] \in Experts /\ order[i] \in block
      BY <1>4, <1>5
    <2>2. ~Hit(order[i]) => \E q \in 1 .. Len(misses) : misses[q] = order[i]
      BY <1>6, <2>1 DEF missed
    <2>3. QED
      BY <1>1, <1>6, <2>1, <2>2, UseIs
  <1>9. use \in Seq(Place) /\ Len(use) = Len(order)
        /\ \A i \in 1 .. Len(order) : use[i] = Use(order[i], misses)
    <2>1. use \in [1 .. Len(order) -> Place]
      BY <1>5, <1>8
    <2>2. \A i \in 1 .. Len(order) : use[i] = Use(order[i], misses)
      BY <1>5
    <2> HIDE DEF use
    <2>3. QED
      BY <1>5, <2>1, <2>2
  <1> HIDE DEF use
  <1>10. /\ main' \in Mains /\ main'.at = "resolved" /\ main'.layer = main.layer /\ main'.j = 1
         /\ main'.block = order /\ main'.misses = misses /\ main'.use = use
    <2> DEFINE less == main.todo \ block
    <2>1. less \in SUBSET Experts
      BY <1>1
    <2>2. main' = [main EXCEPT !.at = "resolved", !.hints = 0, !.j = 1, !.todo = less,
                               !.block = order, !.misses = misses, !.use = use]
      BY <1>3
    <2> HIDE DEF less
    <2>3. QED
      BY <1>1, <1>5, <1>6, <1>9, <2>1, <2>2 DEF Mains
  <1>11. Forward'
    BY <1>1, <1>10 DEF Forward, Resolved, Taken, pilotVars
  <1>12. \A q \in 1 .. Len(misses), z \in 1 .. Len(cache) : cache[z].eid # misses[q]
    <2> SUFFICES ASSUME NEW q \in 1 .. Len(misses), NEW z \in 1 .. Len(cache)
                 PROVE  cache[z].eid # misses[q]
      OBVIOUS
    <2>1. ~Hit(misses[q])
      BY <1>6 DEF missed
    <2>2. ~cache[z].reserved
      BY <1>1, NoneReserved
    <2>3. z \in DOMAIN cache
      BY <1>1, LenProperties DEF CacheInv, CacheTypes
    <2>4. QED
      BY <2>1, <2>2, <2>3 DEF Hit, Found
  <1>13. \A q \in 1 .. Len(misses) : \E i \in 1 .. Len(order) : use[i].in = "ws" /\ use[i].at = q - 1
    <2> SUFFICES ASSUME NEW q \in 1 .. Len(misses)
                 PROVE  \E i \in 1 .. Len(order) : use[i].in = "ws" /\ use[i].at = q - 1
      OBVIOUS
    <2>1. misses[q] \in block /\ ~Hit(misses[q])
      BY <1>4, <1>6 DEF missed
    <2>2. PICK i \in 1 .. Len(order) : order[i] = misses[q]
      BY <1>5, <2>1
    <2>3. /\ use[i].in = "ws" /\ use[i].at + 1 \in 1 .. Len(misses) /\ use[i] \in Place
          /\ misses[use[i].at + 1] = misses[q]
      BY <1>8, <1>9, <2>1, <2>2
    <2>4. use[i].at + 1 = q /\ use[i].at \in Nat
      BY <1>6, <2>3 DEF IsInjective, Place
    <2>5. QED
      BY <2>3, <2>4
  <1>14. \A i \in 1 .. Len(order) :
           \/ use[i].in = "pin"
           \/ /\ use[i].in = "ecache" /\ use[i].at \in 1 .. Len(cache)
              /\ cache[use[i].at].eid = order[i] /\ ~cache[use[i].at].reserved
           \/ /\ use[i].in = "ws" /\ use[i].at + 1 \in 1 .. Len(misses)
              /\ misses[use[i].at + 1] = order[i]
    BY <1>8, <1>9
  <1>15. Resolution'
    <2>1. ecache'[main'.layer] = cache
      BY <1>1, <1>10 DEF pilotVars
    <2> HIDE DEF cache
    <2>2. QED
      BY <1>6, <1>7, <1>9, <1>10, <1>12, <1>13, <1>14, <2>1 DEF Resolution
  <1>16. QED
    BY <1>1, <1>10, <1>11, <1>15 DEF MainInv, MainTypes
\* What Promote puts into the cache is what the work slots hold: the misses.
LEMMA PromoteKeepsCache ==
  ASSUME PoolInv, CacheInv, MainInv, Waited, Promote
  PROVE  CacheInv' /\ MainInv'
  <1> DEFINE l     == main.layer
             cache == ecache[l]
             n     == Len(cache)
             last  == Len(main.misses) - 1
             promo == IF Len(main.misses) < setup.ecap THEN Len(main.misses) ELSE setup.ecap
             grow  == IF promo < setup.ecap - n THEN promo ELSE setup.ecap - n
  <1>1. /\ main.at = "experts" /\ UNCHANGED <<setup, ring, curLayer, inflight, pilot>>
        /\ main' = [main EXCEPT !.at = "promoted", !.block = <<>>,
                                !.use = <<>>, !.misses = <<>>, !.j = 0]
    BY DEF Promote, Main
  <1>2. PICK to \in [0 .. promo - 1 -> 1 .. n + grow] :
          /\ IsInjective(to) /\ \A a \in 0 .. grow - 1 : to[a] = n + a + 1
          /\ ecache' = [ecache EXCEPT ![l] = [z \in 1 .. n + grow |->
               IF \E a \in DOMAIN to : to[a] = z
               THEN LET q == last - CHOOSE a \in DOMAIN to : to[a] = z
                    IN  Slot(main.misses[q + 1], FALSE, ws[q])
               ELSE cache[z]]]
    BY DEF Promote
  <1> DEFINE taken(z) == \E a \in DOMAIN to : to[a] = z
             pos(z)   == CHOOSE a \in DOMAIN to : to[a] = z
             slot(z)  == Slot(main.misses[last - pos(z) + 1], FALSE, ws[last - pos(z)])
             row      == [z \in 1 .. n + grow |-> IF taken(z) THEN slot(z) ELSE cache[z]]
  <1>3. ecache' = [ecache EXCEPT ![l] = row]
    BY <1>2
  <1>4. /\ main \in Mains /\ l \in Layers /\ main.misses \in Seq(Experts)
        /\ Len(main.misses) \in Nat /\ Len(main.misses) <= Block /\ Block \in Nat
        /\ ecache \in [Layers -> Seq(Slots)] /\ cache \in Seq(Slots) /\ n \in Nat
        /\ setup.ecap \in Nat /\ n <= setup.ecap
        /\ inflight[l] = 0 /\ curLayer = l
    BY <1>1, SetupIs, PoolAssumption, LenProperties
       DEF MainInv, MainTypes, Mains, Forward, Taken, Resolution, Resolved, CacheInv, CacheTypes, PoolInv
  <1> HIDE DEF l
  <1>5. /\ promo \in Nat /\ promo <= Len(main.misses) /\ grow \in Nat /\ grow <= promo
        /\ n + grow <= setup.ecap /\ n + grow \in Nat
    BY <1>4
  <1>6. \A z \in 1 .. n + grow : taken(z) => pos(z) \in 0 .. promo - 1 /\ to[pos(z)] = z
    OBVIOUS
  <1> HIDE DEF pos, promo
  <1>7. \A z \in 1 .. n + grow : taken(z) =>
          /\ last - pos(z) \in Jobs /\ last - pos(z) < Len(main.misses)
          /\ last - pos(z) + 1 \in 1 .. Len(main.misses)
    <2> SUFFICES ASSUME NEW z \in 1 .. n + grow, taken(z)
                 PROVE  /\ last - pos(z) \in Jobs /\ last - pos(z) < Len(main.misses)
                        /\ last - pos(z) + 1 \in 1 .. Len(main.misses)
      OBVIOUS
    <2>1. pos(z) \in 0 .. promo - 1
      BY <1>6
    <2> HIDE DEF taken, grow
    <2>2. pos(z) \in Nat /\ pos(z) < Len(main.misses)
      BY <1>4, <1>5, <2>1
    <2>3. QED
      BY SMTT(30), <1>4, <2>2 DEF Jobs
  <1> HIDE DEF last
  <1>8. \A z \in 1 .. n + grow : taken(z) =>
          /\ main.misses[last - pos(z) + 1] \in Experts
          /\ ws[last - pos(z)] = <<l, main.misses[last - pos(z) + 1]>>
    BY <1>4, <1>7, BlockIsRead, ElementOfSeq DEF MainInv, l
  <1>9. \A z \in 1 .. n + grow : taken(z) =>
          /\ slot(z).eid = main.misses[last - pos(z) + 1] /\ ~slot(z).reserved
          /\ slot(z).holds = <<l, slot(z).eid>> /\ slot(z) \in Slots
    <2> SUFFICES ASSUME NEW z \in 1 .. n + grow, taken(z)
                 PROVE  /\ slot(z).eid = main.misses[last - pos(z) + 1] /\ ~slot(z).reserved
                        /\ slot(z).holds = <<l, slot(z).eid>> /\ slot(z) \in Slots
      OBVIOUS
    <2> DEFINE e == main.misses[last - pos(z) + 1]
    <2>1. e \in Experts /\ ws[last - pos(z)] = <<l, e>>
      BY <1>8
    <2>2. <<l, e>> \in Held /\ e \in Names
      BY <1>4, <2>1, PoolAssumption DEF Names, Held, Layers
    <2> HIDE DEF e, slot, taken, grow
    <2>3. slot(z) = [eid |-> e, reserved |-> FALSE, holds |-> <<l, e>>]
      BY <2>1 DEF Slot, e, slot
    <2>4. slot(z).eid = e /\ ~slot(z).reserved /\ slot(z).holds = <<l, e>> /\ slot(z) \in Slots
      BY <2>2, <2>3 DEF Slots
    <2>5. QED
      BY <2>4 DEF e
  <1>10. \A z \in 1 .. n + grow : ~taken(z) => z \in 1 .. n
    <2> SUFFICES ASSUME NEW z \in 1 .. n + grow, ~(z \in 1 .. n) PROVE taken(z)
      OBVIOUS
    <2>1. z - n - 1 \in 0 .. grow - 1 /\ n + (z - n - 1) + 1 = z
      BY <1>4, <1>5
    <2>2. to[z - n - 1] = n + (z - n - 1) + 1 /\ z - n - 1 \in 0 .. promo - 1
      BY <1>2, <1>5, <2>1
    <2>3. QED
      BY <2>1, <2>2
  <1> HIDE DEF taken, slot, grow
  <1>11. /\ row \in Seq(Slots) /\ Len(row) = n + grow
         /\ \A z \in 1 .. n + grow : row[z] = IF taken(z) THEN slot(z) ELSE cache[z]
    <2>1. \A z \in 1 .. n + grow : (IF taken(z) THEN slot(z) ELSE cache[z]) \in Slots
      BY <1>4, <1>9, <1>10, ElementOfSeq
    <2>2. row \in [1 .. n + grow -> Slots]
      BY <2>1
    <2>3. \A z \in 1 .. n + grow : row[z] = IF taken(z) THEN slot(z) ELSE cache[z]
      OBVIOUS
    <2> DEFINE size == n + grow
    <2>4. size \in Nat /\ row \in [1 .. size -> Slots]
      BY <1>5, <2>2
    <2> HIDE DEF row, size
    <2>5. row \in Seq(Slots) /\ Len(row) = size
      BY <2>4
    <2>6. QED
      BY <2>3, <2>5 DEF size
  <1> HIDE DEF row
  <1>12. /\ ecache' \in [Layers -> Seq(Slots)] /\ ecache'[l] = row
         /\ \A k \in Layers : k # l => ecache'[k] = ecache[k]
    BY <1>3, <1>4, <1>11
  <1>13. /\ \A z \in 1 .. n : ~cache[z].reserved
         /\ \A i \in 1 .. Len(pilot.batch) : pilot.batch[i].layer # l
    BY <1>4, NoneReserved
  <1>14. \A z \in 1 .. n + grow : ~row[z].reserved
    BY <1>9, <1>10, <1>11, <1>13
  <1>15. CacheTypes'
    <2>1. \A k \in Layers : Len(ecache'[k]) <= setup.ecap
      BY <1>5, <1>11, <1>12 DEF CacheInv, CacheTypes
    <2>2. QED
      BY <1>1, <1>12, <2>1 DEF CacheInv, CacheTypes
  <1>16. Counted'
    BY <1>1 DEF CacheInv, Counted
  <1>17. Truthful'
    <2>1. IsInjective(main.misses)
          /\ \A q \in 1 .. Len(main.misses), z \in 1 .. n : cache[z].eid # main.misses[q]
      BY <1>1 DEF MainInv, Resolution, Resolved, l
    <2>2. \A z \in 1 .. n + grow : row[z].eid # Nobody /\ ~row[z].reserved => row[z].holds = <<l, row[z].eid>>
      BY <1>4, <1>9, <1>10, <1>11 DEF CacheInv, Truthful
    <2>3. ASSUME NEW y \in 1 .. n + grow, NEW z \in 1 .. n + grow,
                 row[y].eid = row[z].eid, row[z].eid # Nobody
          PROVE  y = z
      <3>1. CASE taken(y) /\ taken(z)
        <4>1. main.misses[last - pos(y) + 1] = main.misses[last - pos(z) + 1]
          BY <1>9, <1>11, <2>3, <3>1
        <4>2. last - pos(y) + 1 = last - pos(z) + 1
          BY <1>4, <1>7, <2>1, <3>1, <4>1, LenProperties DEF IsInjective
        <4>3. pos(y) = pos(z)
          BY SMTT(30), <1>4, <1>6, <3>1, <4>2 DEF last, promo
        <4>4. QED
          BY <1>6, <3>1, <4>3
      <3>2. CASE ~taken(y) /\ ~taken(z)
        BY <1>4, <1>10, <1>11, <2>3, <3>2 DEF CacheInv, Truthful
      <3>3. CASE taken(y) /\ ~taken(z)
        BY <1>7, <1>9, <1>10, <1>11, <2>1, <2>3, <3>3
      <3>4. CASE ~taken(y) /\ taken(z)
        BY <1>7, <1>9, <1>10, <1>11, <2>1, <2>3, <3>4
      <3>5. QED
        BY <3>1, <3>2, <3>3, <3>4
    <2>4. ASSUME NEW k \in Layers, NEW z \in 1 .. Len(ecache'[k])
          PROVE  LET s == ecache'[k][z] IN
                 /\ s.eid # Nobody /\ ~s.reserved => s.holds = <<k, s.eid>>
                 /\ \A y \in 1 .. Len(ecache'[k]) : ecache'[k][y].eid = s.eid /\ s.eid # Nobody => y = z
      <3>1. CASE k = l
        BY <1>11, <1>12, <2>2, <2>3, <2>4, <3>1
      <3>2. CASE k # l
        BY <1>12, <2>4, <3>2 DEF CacheInv, Truthful
      <3>3. QED
        BY <3>1, <3>2
    <2>5. QED
      BY <2>4 DEF Truthful
  <1>18. \A i \in 1 .. Len(pilot.batch) :
           pilot.batch[i].layer \in Layers /\ ecache'[pilot.batch[i].layer] = ecache[pilot.batch[i].layer]
    <2>1. pilot.batch \in Seq(Load)
      BY DEF CacheInv, CacheTypes, Pilots
    <2>2. \A i \in 1 .. Len(pilot.batch) : pilot.batch[i] \in Load
      BY <2>1, ElementOfSeq
    <2>3. QED
      BY <1>12, <1>13, <2>2 DEF Load
  <1>19. Reservations'
    <2>1. \A k \in Layers : \A z \in 1 .. Len(ecache'[k]) : ecache'[k][z].reserved =>
            k # l /\ z \in 1 .. Len(ecache[k]) /\ ecache[k][z].reserved
      BY <1>11, <1>12, <1>14
    <2>2. QED
      BY SMTT(30), <1>1, <1>18, <2>1 DEF CacheInv, Reservations
  <1>20. OneByOne'
    <2> SUFFICES ASSUME setup.backend # "uring" PROVE OneByOne'
      BY <1>1 DEF OneByOne
    <2>1. \A k \in Layers : \A z \in 1 .. Len(ecache'[k]) : ~ecache'[k][z].reserved
      BY <1>11, <1>12, <1>14 DEF CacheInv, OneByOne
    <2>2. pilot.batch # <<>> => 1 \in 1 .. Len(pilot.batch)
      BY EmptySeq DEF CacheInv, CacheTypes, Pilots
    <2>3. QED
      BY <1>1, <1>18, <2>1, <2>2 DEF CacheInv, OneByOne
  <1>21. MainInv'
    <2>1. /\ main' \in Mains /\ main'.at = "promoted" /\ main'.layer = l /\ main'.misses = <<>>
      BY <1>1, <1>4, EmptySeq DEF Mains, l
    <2>2. QED
      BY <1>1, <1>4, <2>1 DEF MainInv, MainTypes, Forward, Resolution, Resolved, Taken
  <1>22. QED
    BY <1>15, <1>16, <1>17, <1>19, <1>20, <1>21 DEF CacheInv
-----------------------------------------------------------------------------
(* The invariant is inductive.                                              *)

IInv == PoolInv /\ CacheInv /\ MainInv /\ Waited

LEMMA CacheStays ==
  ASSUME CacheInv, UNCHANGED <<setup, pilotVars>>
  PROVE  CacheInv'
  <1>1. CacheTypes' /\ Counted'
    BY DEF CacheInv, CacheTypes, Counted, Of, pilotVars
  <1>2. Truthful'
    BY DEF CacheInv, Truthful, pilotVars
  <1>3. Reservations'
    BY DEF CacheInv, Reservations, pilotVars
  <1>4. OneByOne'
    BY DEF CacheInv, OneByOne, pilotVars
  <1>5. QED
    BY <1>1, <1>2, <1>3, <1>4 DEF CacheInv

LEMMA MainIsLeft ==
  ASSUME MainInv, UNCHANGED main, Leaves
  PROVE  MainInv'
  <1>1. MainTypes' /\ main.layer \in Layers
    BY DEF MainInv, MainTypes, Mains
  <1>2. Taken => /\ curLayer = main.layer /\ inflight[main.layer] = 0 /\ curLayer' = curLayer
                 /\ ecache'[main.layer] = ecache[main.layer] /\ inflight'[main.layer] = 0
    BY <1>1, PoolAssumption DEF MainInv, Forward, Leaves, Layers
  <1>3. Forward'
    BY <1>2 DEF MainInv, Forward, Taken, Resolved, Leaves
  <1>4. Resolved => Taken
    BY DEF Resolved, Taken
  <1>5. Resolution'
    <2>1. Resolved' = Resolved
      BY DEF Resolved
    <2>2. CASE ~Resolved
      BY <2>1, <2>2 DEF Resolution
    <2>3. CASE Resolved
      <3>1. ecache'[main'.layer] = ecache[main.layer]
        BY <1>2, <1>4, <2>3
      <3>2. QED
        BY <2>1, <2>3, <3>1 DEF MainInv, Resolution
    <2>4. QED
      BY <2>2, <2>3
  <1>6. QED
    BY <1>1, <1>3, <1>5 DEF MainInv

\* The main thread goes on beside the block it has resolved.
LEMMA StaysResolved ==
  ASSUME MainInv, Resolved, UNCHANGED pilotVars, main' \in Mains,
         main'.at \in {"experts", "matmul"}, main'.layer = main.layer,
         main'.block = main.block, main'.use = main.use, main'.misses = main.misses
  PROVE  MainInv'
  <1>1. Resolved' /\ Taken /\ Taken' /\ UNCHANGED <<ecache, curLayer, inflight>>
    BY DEF Resolved, Taken, pilotVars
  <1>2. MainTypes' /\ Forward'
    BY <1>1 DEF MainInv, MainTypes, Forward
  <1>3. Resolution'
    <2>1. ecache'[main'.layer] = ecache[main.layer]
      BY <1>1
    <2>2. QED
      BY <1>1, <2>1 DEF MainInv, Resolution
  <1>4. QED
    BY <1>2, <1>3 DEF MainInv

\* Where the main thread is beside no block.
LEMMA BlockIsOver ==
  ASSUME main' \in Mains, main'.misses = <<>>,
         main'.at \in {"idle", "predict", "drain", "couple", "promoted"},
         main'.at \in {"drain", "couple", "promoted"} => curLayer' = main'.layer,
         main'.at \in {"couple", "promoted"} => inflight'[main'.layer] = 0
  PROVE  MainInv'
  BY DEF MainInv, MainTypes, Forward, Resolution, Resolved, Taken

LEMMA EnterKeeps ==
  ASSUME PoolInv, MainInv, ~Computing, NEW l \in Layers, EnterLayer(l), UNCHANGED poolVars
  PROVE  PoolInv' /\ Waited' /\ MainInv'
  <1>1. setup.hints \in Nat /\ 0 \in Layers
    BY SetupIs, PoolAssumption DEF PoolInv, Layers
  <1>2. main' = [Between EXCEPT !.at = "predict", !.layer = l, !.hints = setup.hints]
    BY DEF EnterLayer
  <1>3. main' \in Mains /\ main'.misses = <<>> /\ main'.at = "predict"
    BY <1>1, <1>2, EmptySeq DEF Between, Mains
  <1>4. ~Computing'
    BY <1>3 DEF Computing
  <1>5. QED
    BY <1>3, <1>4, MainElsewhere, BlockIsOver

LEMMA CurLayerMoves ==
  ASSUME CacheInv, curLayer' \in Layers \cup {-1}, UNCHANGED <<setup, ecache, ring, inflight, pilot>>
  PROVE  CacheInv'
  <1>1. CacheTypes' /\ Counted'
    BY DEF CacheInv, CacheTypes, Counted, Of
  <1>2. Truthful'
    BY DEF CacheInv, Truthful
  <1>3. Reservations'
    BY DEF CacheInv, Reservations
  <1>4. OneByOne'
    BY DEF CacheInv, OneByOne
  <1>5. QED
    BY <1>1, <1>2, <1>3, <1>4 DEF CacheInv

LEMMA HintKeeps ==
  ASSUME CacheInv, NEW l \in Layers, NEW e \in Experts, Hint(l, e), UNCHANGED setup
  PROVE  CacheInv' /\ UNCHANGED <<ecache, curLayer, inflight, pilot>>
  <1>1. /\ ring' = IF Known(l, e) \/ Len(ring) >= RingSize THEN ring ELSE Append(ring, <<l, e>>)
        /\ UNCHANGED <<ecache, curLayer, inflight, pilot>>
    BY DEF Hint
  <1>2. ring \in Seq(Weights) /\ Len(ring) \in Nat /\ <<l, e>> \in Weights
    BY LenProperties DEF CacheInv, CacheTypes, Weights
  <1>3. ring' \in Seq(Weights) /\ Len(ring) <= Len(ring') /\ Len(ring') \in Nat
    BY <1>1, <1>2
  <1>4. pilot.at = "pick" => pilot.upto <= Len(ring')
    BY <1>2, <1>3 DEF CacheInv, CacheTypes, Pilots
  <1>5. CacheTypes'
    BY <1>1, <1>3, <1>4 DEF CacheInv, CacheTypes
  <1>6. QED
    BY SMTT(30), <1>1, <1>5 DEF CacheInv, Counted, Truthful, Reservations, OneByOne

LEMMA StreamInit_IInv == StreamInit => IInv
  <1> SUFFICES ASSUME StreamInit PROVE IInv
    OBVIOUS
  <1>1. 0 \in Layers /\ Block \in Nat /\ Nobody \in Names /\ setup \in Setups
    BY PoolAssumption DEF Layers, Names, StreamInit, PoolInit
  <1>2. PoolTypes
    BY <1>1, EmptySeq DEF StreamInit, PoolInit, PoolTypes, Held, Thread, Idle
  <1>3. /\ main = Between /\ main.at = "idle" /\ call.at = "idle"
        /\ \A w \in Workers : worker[w].at = "park" /\ worker[w].fresh
    BY DEF StreamInit, Between, PoolInit, Idle
  <1>4. PoolInv
    BY <1>2, <1>3 DEF PoolInv, Calling, Sleepers, Threads, Loaded, InBatch, Computing, RestInv,
                      Active, StreamInit, PoolInit
  <1>5. main \in Mains /\ main.misses = <<>>
    BY <1>1, <1>3, EmptySeq DEF Between, Mains
  <1>6. MainInv /\ Waited
    BY <1>3, <1>5 DEF MainInv, MainTypes, Forward, Resolution, Resolved, Taken, Waited, Computing
  <1>7. /\ pilot \in Pilots /\ pilot.at = "idle" /\ pilot.batch = <<>> /\ Len(pilot.batch) = 0
        /\ <<>> \in Seq(Load)
    BY EmptySeq DEF StreamInit, PilotInit, Asleep, Pilots
  <1>8. ecache \in [Layers -> Seq(Slots)] /\ \A l \in Layers : Len(ecache[l]) = 0
    BY EmptySeq DEF StreamInit, PilotInit
  <1>9. CacheTypes
    <2>1. \A l \in Layers : Len(ecache[l]) <= setup.ecap
      BY <1>2, <1>8, SetupIs
    <2>2. QED
      BY <1>7, <1>8, <2>1, EmptySeq DEF CacheTypes, StreamInit, PilotInit
  <1>10. Counted
    <2>1. \A l \in Layers : Cardinality(Of(pilot.batch, l)) = 0
      <3>1. pilot.batch \in Seq(Load) /\ \A i \in 1 .. Len(pilot.batch) : FALSE
        BY <1>7
      <3>2. QED
        BY <3>1, OfNone
    <2>2. QED
      BY <2>1 DEF Counted, StreamInit, PilotInit
  <1>11. Truthful /\ Reservations /\ OneByOne
    BY <1>7, <1>8 DEF Truthful, Reservations, OneByOne
  <1>12. QED
    BY <1>4, <1>6, <1>9, <1>10, <1>11 DEF IInv, CacheInv

LEMMA Step_IInv ==
  ASSUME Straggling = FALSE, IInv, [StreamNext]_streamVars
  PROVE  IInv'
  <1>1. PoolInv /\ PoolTypes /\ CacheInv /\ MainInv /\ MainTypes /\ Forward /\ Resolution /\ Waited
        /\ main \in Mains
    BY DEF IInv, PoolInv, MainInv, MainTypes
  <1>2. 0 \in Layers /\ LastLayer \in Layers /\ LastLayer \in Nat
    BY PoolAssumption DEF Layers
  <1>3. CASE BeginForward
    <2>1. ~Computing /\ EnterLayer(0) /\ UNCHANGED <<poolVars, ecache, ring, inflight, pilot>>
          /\ curLayer' = -1
      BY <1>3 DEF BeginForward, Main, Computing
    <2>2. CacheInv'
      BY <1>1, <2>1, CurLayerMoves DEF poolVars
    <2>3. QED
      BY <1>1, <1>2, <2>1, <2>2, EnterKeeps DEF IInv
  <1>4. CASE BeginMtp
    <2>1. ~Computing /\ EnterLayer(LastLayer) /\ UNCHANGED <<poolVars, pilotVars>>
      BY <1>4 DEF BeginMtp, Main, Computing, MtpLayer
    <2>2. QED
      BY <1>1, <1>2, <2>1, CacheStays, EnterKeeps DEF IInv, poolVars
  <1>5. CASE Predict
    <2>1. /\ main.at \in {"predict", "couple"} /\ main.hints > 0 /\ UNCHANGED poolVars
          /\ main' = [main EXCEPT !.hints = @ - 1]
      BY <1>5 DEF Predict
    <2>2. \E l \in Layers, e \in Experts : Hint(l, e)
      <3>1. PICK d \in 1 .. (IF Main("predict") THEN 1 ELSE CoupleDepth), e \in Experts :
              main.layer + d < MtpLayer /\ Hint(main.layer + d, e)
        BY <1>5 DEF Predict
      <3>2. main.layer \in Nat /\ d \in Nat
        BY <1>1, <3>1, StreamAssumption, PoolAssumption DEF Mains, Layers
      <3>3. main.layer + d \in Layers
        BY <1>2, <3>1, <3>2 DEF Layers, MtpLayer
      <3>4. QED
        BY <3>1, <3>3
    <2>3. CacheInv' /\ UNCHANGED <<ecache, curLayer, inflight, pilot>>
      BY <1>1, <2>1, <2>2, HintKeeps DEF poolVars
    <2>4. main' \in Mains /\ main'.at = main.at /\ main'.layer = main.layer /\ main'.misses = main.misses
      BY <1>1, <2>1 DEF Mains
    <2>5. main.misses = <<>> /\ ~Computing /\ ~Computing'
      BY <1>1, <2>1, <2>4 DEF Forward, Resolved, Computing
    <2>6. MainInv'
      BY <1>1, <2>1, <2>3, <2>4, <2>5, BlockIsOver DEF Forward, Taken
    <2>7. QED
      BY <1>1, <2>1, <2>3, <2>5, <2>6, MainElsewhere DEF IInv
  <1>6. CASE TakeLayer
    <2>1. /\ main.at = "predict" /\ curLayer' = main.layer
          /\ main' = [main EXCEPT !.at = "drain", !.hints = 0]
          /\ UNCHANGED <<poolVars, ecache, ring, inflight, pilot>>
      BY <1>6 DEF TakeLayer, Main
    <2>2. main' \in Mains /\ main'.at = "drain" /\ main'.layer = main.layer
          /\ main'.misses = main.misses /\ main.layer \in Layers
      BY <1>1, <2>1 DEF Mains
    <2>3. main.misses = <<>> /\ ~Computing /\ ~Computing'
      BY <1>1, <2>1, <2>2 DEF Forward, Resolved, Computing
    <2>4. MainInv'
      BY <2>1, <2>2, <2>3, BlockIsOver
    <2>5. CacheInv'
      BY <1>1, <2>1, <2>2, CurLayerMoves DEF poolVars
    <2>6. QED
      BY <1>1, <2>1, <2>3, <2>4, <2>5, MainElsewhere DEF IInv
  <1>7. CASE Drained
    <2>1. /\ main.at = "drain" /\ inflight[main.layer] = 0 /\ UNCHANGED <<poolVars, pilotVars>>
          /\ \E chosen \in SUBSET Experts :
                main' = [main EXCEPT !.at = "couple", !.hints = setup.hints, !.todo = chosen]
      BY <1>7 DEF Drained, Main
    <2>2. setup.hints \in Nat
      BY <1>1, SetupIs
    <2>3. main' \in Mains /\ main'.at = "couple" /\ main'.layer = main.layer
          /\ main'.misses = main.misses
      BY <1>1, <2>1, <2>2 DEF Mains
    <2>4. main.misses = <<>> /\ ~Computing /\ ~Computing' /\ curLayer = main.layer
      BY <1>1, <2>1, <2>3 DEF Forward, Resolved, Computing
    <2>5. MainInv'
      BY <2>1, <2>3, <2>4, BlockIsOver DEF pilotVars
    <2>6. QED
      BY <1>1, <2>1, <2>4, <2>5, CacheStays, MainElsewhere DEF IInv, poolVars
  <1>8. CASE NextBlock
    <2>1. MainInv' /\ main.at \in {"couple", "promoted"} /\ main'.at = "resolved"
          /\ UNCHANGED <<poolVars, pilotVars>>
      BY <1>1, <1>8, NextBlockKeeps
    <2>2. ~Computing /\ ~Computing'
      BY <2>1 DEF Computing
    <2>3. QED
      BY <1>1, <2>1, <2>2, CacheStays, MainElsewhere DEF IInv, poolVars
  <1>9. CASE StartLoads
    <2>1. /\ PoolInv' /\ Waited' /\ UNCHANGED <<setup, pilotVars>> /\ main.at = "resolved"
          /\ main' = [main EXCEPT !.at = "experts"]
      BY <1>1, <1>9, StartLoadsKeeps DEF StartLoads, Main
    <2>2. /\ main' \in Mains /\ main'.at = "experts" /\ main'.layer = main.layer /\ Resolved
          /\ main'.block = main.block /\ main'.use = main.use /\ main'.misses = main.misses
      BY <1>1, <2>1 DEF Mains, Resolved
    <2>3. MainInv'
      BY <1>1, <2>1, <2>2, StaysResolved
    <2>4. QED
      BY <1>1, <2>1, <2>3, CacheStays DEF IInv
  <1>10. CASE WaitExpert
    <2>1. /\ PoolInv' /\ Waited' /\ UNCHANGED <<setup, pilotVars>> /\ main.at = "experts"
          /\ main' = [main EXCEPT !.at = "matmul"]
      BY <1>1, <1>10, WaitExpertKeeps
    <2>2. /\ main' \in Mains /\ main'.at = "matmul" /\ main'.layer = main.layer /\ Resolved
          /\ main'.block = main.block /\ main'.use = main.use /\ main'.misses = main.misses
      BY <1>1, <2>1 DEF Mains, Resolved
    <2>3. MainInv'
      BY <1>1, <2>1, <2>2, StaysResolved
    <2>4. QED
      BY <1>1, <2>1, <2>3, CacheStays DEF IInv
  <1>11. CASE Matmul
    <2>1. /\ PoolInv' /\ Waited' /\ UNCHANGED <<setup, pilotVars>> /\ main.at = "matmul"
          /\ main' = [main EXCEPT !.at = "experts", !.j = @ + 1]
      BY <1>1, <1>11, MatmulKeeps
    <2>2. MainInv'
      <3>1. main.j + 1 \in Nat
        BY <1>1 DEF Mains
      <3>2. /\ main' \in Mains /\ main'.at = "experts" /\ main'.layer = main.layer
            /\ main'.block = main.block /\ main'.use = main.use /\ main'.misses = main.misses
        BY <1>1, <2>1, <3>1 DEF Mains
      <3>3. Resolved
        BY <2>1 DEF Resolved
      <3>4. QED
        BY <1>1, <2>1, <3>2, <3>3, StaysResolved
    <2>3. QED
      BY <1>1, <2>1, <2>2, CacheStays DEF IInv
  <1>12. CASE Promote
    BY <1>1, <1>12, PromoteKeepsPool, PromoteKeepsCache DEF IInv
  <1>13. CASE NextLayer
    <2>1. /\ main.at = "promoted" /\ UNCHANGED <<poolVars, pilotVars>>
          /\ IF main.layer + 1 < MtpLayer THEN EnterLayer(main.layer + 1) ELSE main' = Between
      BY <1>13 DEF NextLayer, Main
    <2>2. ~Computing
      BY <2>1 DEF Computing
    <2>3. PoolInv' /\ Waited' /\ MainInv'
      <3>1. CASE main.layer + 1 < MtpLayer
        <4>1. main.layer + 1 \in Layers
          BY <1>1, <1>2, <3>1 DEF Mains, Layers, MtpLayer
        <4>2. QED
          BY <1>1, <2>1, <2>2, <3>1, <4>1, EnterKeeps
      <3>2. CASE ~(main.layer + 1 < MtpLayer)
        <4>1. main' \in Mains /\ main'.misses = <<>> /\ main'.at = "idle"
          <5>1. main' = Between
            BY <2>1, <3>2
          <5>2. QED
            BY <1>2, <5>1, EmptySeq DEF Between, Mains
        <4>2. ~Computing'
          BY <4>1 DEF Computing
        <4>3. QED
          BY <1>1, <2>1, <2>2, <4>1, <4>2, BlockIsOver, MainElsewhere
      <3>3. QED
        BY <3>1, <3>2
    <2>4. QED
      BY <1>1, <2>1, <2>3, CacheStays DEF IInv, poolVars
  <1>14. CASE Dispatch /\ UNCHANGED <<pilotVars, main>>
    <2>1. PoolInv' /\ Waited' /\ UNCHANGED setup
      BY <1>1, <1>14, DispatchKeeps
    <2>2. MainInv'
      BY <1>1, <1>14, MainIsLeft DEF Leaves, pilotVars
    <2>3. QED
      BY <1>1, <1>14, <2>1, <2>2, CacheStays DEF IInv
  <1>15. ASSUME NEW w \in Workers, PoolStep(w)
         PROVE  IInv'
    <2>1. PoolInv' /\ Waited' /\ UNCHANGED <<setup, main, pilotVars>>
      BY <1>1, <1>15, PoolKeeps
    <2>2. MainInv'
      BY <1>1, <2>1, MainIsLeft DEF Leaves, pilotVars
    <2>3. QED
      BY <1>1, <2>1, <2>2, CacheStays DEF IInv
  <1>16. CASE PilotStep
    <2>1. PilotThread /\ UNCHANGED <<poolVars, main>>
      BY <1>16 DEF PilotStep
    <2>2. CacheInv' /\ Leaves
      BY <1>1, <2>1, PilotKeeps DEF poolVars
    <2>3. PoolInv' /\ Waited'
      BY <1>1, <2>1 DEF PoolInv, PoolTypes, Calling, Sleepers, Threads, Loaded, InBatch, Computing,
                        BatchInv, RestInv, Active, Quiet, Waited, poolVars
    <2>4. QED
      BY <1>1, <2>1, <2>2, <2>3, MainIsLeft DEF IInv
  <1>17. ASSUME NEW q \in Jobs, Completes(q)
         PROVE  IInv'
    <2>1. PoolInv' /\ Waited' /\ UNCHANGED <<setup, main, pilotVars>>
      BY <1>1, <1>17, CompletesKeeps
    <2>2. MainInv'
      BY <1>1, <2>1, MainIsLeft DEF Leaves, pilotVars
    <2>3. QED
      BY <1>1, <2>1, <2>2, CacheStays DEF IInv
  <1>18. CASE UNCHANGED streamVars
    <2>1. UNCHANGED <<poolVars, pilotVars, main>>
      BY <1>18 DEF streamVars
    <2>2. PoolInv' /\ Waited'
      BY <1>1, <2>1 DEF PoolInv, PoolTypes, Calling, Sleepers, Threads, Loaded, InBatch, Computing,
                        BatchInv, RestInv, Active, Quiet, Waited, poolVars
    <2>3. MainInv' /\ CacheInv'
      BY <1>1, <2>1, MainIsLeft, CacheStays DEF Leaves, pilotVars, poolVars
    <2>4. QED
      BY <2>2, <2>3 DEF IInv
  <1>19. PollExpert => UNCHANGED streamVars
    BY DEF PollExpert
  <1>20. QED
    BY <1>3, <1>4, <1>5, <1>6, <1>7, <1>8, <1>9, <1>10, <1>11, <1>12, <1>13, <1>14, <1>15, <1>16,
       <1>17, <1>18, <1>19 DEF StreamNext, MainStep

LEMMA StreamInvariant == ASSUME Straggling = FALSE PROVE StreamSpec => []IInv
  <1>1. IInv /\ [StreamNext]_streamVars => IInv'
    BY Step_IInv
  <1>2. QED
    BY <1>1, StreamInit_IInv, PTL DEF StreamSpec

(* An expert is multiplied only with its own weights, all of them read, for  *)
(* any number of threads, experts, layers and cache slots, with each back    *)
(* end, whatever the router chooses and predicts and whatever reads of the   *)
(* pilot fail.  Assumed is that a batch larger than the last one finds the   *)
(* threads asleep (Straggling).                                              *)
THEOREM MultipliesTheRightExpert ==
  ASSUME Straggling = FALSE
  PROVE  StreamSpec => []RightExpert
  <1>1. ASSUME IInv PROVE RightExpert
    <2> SUFFICES ASSUME main.at = "matmul"
                 PROVE  Holds(main.j) = <<main.layer, main.block[main.j]>>
      BY DEF RightExpert, Main
    <2> DEFINE u == main.use[main.j]
               e == main.block[main.j]
               cache == ecache[main.layer]
    <2>1. /\ Computing /\ Resolved /\ main.j \in 1 .. Len(main.block) /\ call.at = "idle"
          /\ u.in = "ws" => u.at \in ready
          /\ main.layer \in Layers /\ main.block \in Seq(Experts) /\ main.use \in Seq(Place)
          /\ main.misses \in Seq(Experts)
      BY <1>1 DEF IInv, Waited, Computing, Resolved, MainInv, MainTypes, Mains
    <2>2. e \in Experts /\ e # Nobody
      BY <2>1, ElementOfSeq, StreamAssumption
    <2>3. /\ Len(main.use) = Len(main.block)
          /\ \/ u.in = "pin"
             \/ /\ u.in = "ecache" /\ u.at \in 1 .. Len(cache)
                /\ cache[u.at].eid = e /\ ~cache[u.at].reserved
             \/ u.in = "ws" /\ u.at + 1 \in 1 .. Len(main.misses) /\ main.misses[u.at + 1] = e
      BY <1>1, <2>1 DEF IInv, MainInv, Resolution
    <2>4. CASE u.in = "pin"
      BY <2>4 DEF Holds
    <2>5. CASE u.in = "ecache"
      <3>1. u.at \in 1 .. Len(cache) /\ cache[u.at].eid = e /\ ~cache[u.at].reserved
        BY <2>3, <2>5
      <3>2. cache[u.at].holds = <<main.layer, e>>
        BY <1>1, <2>1, <2>2, <3>1 DEF IInv, CacheInv, Truthful
      <3>3. QED
        BY <2>5, <3>2 DEF Holds
    <2>6. CASE u.in = "ws"
      <3>1. u.at + 1 \in 1 .. Len(main.misses) /\ main.misses[u.at + 1] = e /\ u.at \in ready
        BY <2>1, <2>3, <2>6
      <3>2. u \in Place
        BY <2>1, <2>3, ElementOfSeq
      <3>3. u.at \in Nat /\ u.at < Len(main.misses) /\ main.misses # <<>>
        BY <2>1, <3>1, <3>2, EmptySeq, LenProperties DEF Place
      <3>4. ws[u.at] = <<main.layer, main.misses[u.at + 1]>>
        BY <1>1, <2>1, <3>1, <3>3 DEF IInv, PoolInv, Loaded, InBatch
      <3>5. QED
        BY <2>6, <3>1, <3>4 DEF Holds
    <2>7. QED
      BY <2>3, <2>4, <2>5, <2>6
  <1>2. IInv => RightExpert
    BY <1>1
  <1>3. QED
    BY <1>2, StreamInvariant, PTL

(* A cache slot that names an expert holds its weights, and no layer caches  *)
(* an expert twice.                                                          *)
THEOREM CacheStaysTruthful ==
  ASSUME Straggling = FALSE
  PROVE  StreamSpec => []CacheTruthful
  <1>1. ASSUME IInv PROVE CacheTruthful
    <2>1. ecache \in [Layers -> Seq(Slots)]
      BY <1>1 DEF IInv, CacheInv, CacheTypes
    <2>2. \A l \in Layers : DOMAIN ecache[l] = 1 .. Len(ecache[l])
      BY <2>1, LenProperties
    <2>3. QED
      BY <1>1, <2>2 DEF IInv, CacheInv, Truthful, CacheTruthful
  <1>2. IInv => CacheTruthful
    BY <1>1
  <1>3. QED
    BY <1>2, StreamInvariant, PTL
=============================================================================

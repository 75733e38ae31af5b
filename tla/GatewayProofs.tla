---------------------------- MODULE GatewayProofs ----------------------------
(***************************************************************************)
(* Requests, pumps and loads of one gateway process, for any number of        *)
(* requests, models, slots, loads and pings: what handlers read between two   *)
(* assignments of a load belongs together, the cache is true to the model     *)
(* that made its entries, and a stream that ends properly ends with [DONE].   *)
(*                                                                         *)
(* LoadInv says what each step of a load has left of the server's attributes; *)
(* no step of a request changes any of that (RequestsKeepDoors).  RequestsInv *)
(* says of a request that saw no load that the engine it read is the server's *)
(* (Held), and of a stream that nobody else writes when its end does (Flow).  *)
(*                                                                         *)
(* And the parser of one reply, for any replies and any pieces of them.  A    *)
(* marker keeps its place when more of the text comes (FindOfMore), and what  *)
(* a turn lets go is no part of one (FindOfRest); so a turn commutes with     *)
(* more of the text (TookMore, IdledMore), and the loop over a text and then  *)
(* over more of it is the loop over the whole (LoopInTwo).  What the client   *)
(* was told is well told after each turn (TookTold, IdlesTold).               *)
(***************************************************************************)
EXTENDS Gateway, StreamParser, SequenceTheorems, FiniteSetTheorems, WellFoundedInduction, TLAPS

-----------------------------------------------------------------------------
(* Shapes.                                                                   *)

AnyModel == Models \cup {NoModel}
LoadPCs == {"idle", "close", "drop_engine", "drop_backend", "close_scheduler",
            "new_scheduler", "name", "spawn", "announce"}
PCs == {"new", "backend", "cache", "admit", "wait", "head", "engine", "call", "generating",
        "payload", "put", "stop", "join", "final", "done", "failed", "error", "release",
        "ended"}

Said == {"head", "text", "ping", "final", "done", "error"}

Engine == [model : Models, open : BOOLEAN, alive : BOOLEAN]
Door(U) == [open : BOOLEAN, line : U, holder : U]
RequestRecord(U) ==
    [pc : PCs, stream : BOOLEAN, gate : Nat, slot : U, engine : Nat, loads : Nat,
     label : AnyModel, gone : BOOLEAN]

ServerTyped ==
    /\ server \in [model_id : AnyModel, engine : Nat, runtime_proc : Nat,
                   active_backend : {"native", "nil", "none"}, scheduler : Nat]
    /\ engines \in Seq(Engine) /\ server.engine \in 0 .. Len(engines)
    /\ load \in [pc : LoadPCs, model : AnyModel, count : Nat] /\ load.count <= MaxLoads
DoorsTyped ==
    /\ \E U : gates \in Seq(Door(U))
    /\ server.scheduler \in 1 .. Len(gates)
RequestsTyped ==
    /\ \E U : req \in [Requests -> RequestRecord(U)]
    /\ pump \in [Requests -> [pc : {"none", "on", "ping", "ended"}, stop : BOOLEAN,
                              connected : BOOLEAN]]
    /\ wire \in [Requests -> Seq(Said)]

-----------------------------------------------------------------------------
(* Schedulers: what handlers do to them opens and closes nothing.            *)

SameDoors ==
    /\ Len(gates') = Len(gates)
    /\ \A g \in 1 .. Len(gates) : gates'[g].open = gates[g].open
    /\ \E U : gates' \in Seq(Door(U))

LEMMA DoorReplaced ==
  ASSUME DoorsTyped, NEW g, NEW d, DOMAIN d = {"open", "line", "holder"},
         d = [open |-> d.open, line |-> d.line, holder |-> d.holder],
         d.open = gates[g].open, gates' = [gates EXCEPT ![g] = d]
  PROVE  SameDoors
  <1>1. PICK U : gates \in Seq(Door(U))
    BY DEF DoorsTyped
  <1> DEFINE V == U \union {d.line, d.holder}
  <1>2. /\ Len(gates) \in Nat /\ DOMAIN gates = 1 .. Len(gates)
        /\ \A i \in 1 .. Len(gates) : gates[i] \in Door(U)
    BY <1>1
  <1>3. Door(U) \subseteq Door(V)
    BY DEF Door
  <1>4. CASE g \in 1 .. Len(gates)
    <2>1. d \in Door(V)
      BY <1>2, <1>4 DEF Door
    <2>2. gates \in Seq(Door(V))
      BY <1>1, <1>3, SeqMonotonic
    <2>3. gates' \in Seq(Door(V)) /\ Len(gates') = Len(gates)
      BY <2>1, <2>2, <1>4, ExceptSeq
    <2>4. \A i \in 1 .. Len(gates) : gates'[i].open = gates[i].open
      BY <1>2
    <2>5. QED
      BY <2>3, <2>4 DEF SameDoors
  <1>5. CASE g \notin 1 .. Len(gates)
    <2>1. gates' = gates
      BY <1>1, <1>2, <1>5
    <2>2. QED
      BY <1>1, <2>1 DEF SameDoors
  <1>6. QED
    BY <1>4, <1>5
\* A ticket joins or leaves the line, a slot is taken or given back.
LEMMA DoorChanges ==
  ASSUME DoorsTyped, NEW g, NEW x, NEW s, NEW y,
         \/ gates' = [gates EXCEPT ![g].line = x]
         \/ gates' = [gates EXCEPT ![g].holder[s] = y]
         \/ gates' = [gates EXCEPT ![g].holder[s] = y, ![g].line = x]
  PROVE  SameDoors
  <1>1. PICK U : gates \in Seq(Door(U))
    BY DEF DoorsTyped
  <1>2. /\ Len(gates) \in Nat /\ DOMAIN gates = 1 .. Len(gates)
        /\ \A i \in 1 .. Len(gates) : gates[i] \in Door(U)
    BY <1>1
  <1>3. CASE g \in 1 .. Len(gates)
    <2> DEFINE h == [gates[g].holder EXCEPT ![s] = y]
    <2>1. gates[g] = [open |-> gates[g].open, line |-> gates[g].line,
                      holder |-> gates[g].holder]
      BY <1>2, <1>3 DEF Door
    <2>2. CASE gates' = [gates EXCEPT ![g].line = x]
      <3> DEFINE d == [open |-> gates[g].open, line |-> x, holder |-> gates[g].holder]
      <3>1. gates' = [gates EXCEPT ![g] = d]
        BY <1>2, <1>3, <2>1, <2>2
      <3>2. QED
        BY <3>1, DoorReplaced
    <2>3. CASE gates' = [gates EXCEPT ![g].holder[s] = y]
      <3> DEFINE d == [open |-> gates[g].open, line |-> gates[g].line, holder |-> h]
      <3>1. gates' = [gates EXCEPT ![g] = d]
        BY <1>2, <1>3, <2>1, <2>3
      <3>2. QED
        BY <3>1, DoorReplaced
    <2>4. CASE gates' = [gates EXCEPT ![g].holder[s] = y, ![g].line = x]
      <3> DEFINE d == [open |-> gates[g].open, line |-> x, holder |-> h]
      <3>1. gates' = [gates EXCEPT ![g] = d]
        BY <1>2, <1>3, <2>1, <2>4
      <3>2. QED
        BY <3>1, DoorReplaced
    <2>5. QED
      BY <2>2, <2>3, <2>4
  <1>4. CASE g \notin 1 .. Len(gates)
    <2>1. gates' = gates
      BY <1>1, <1>2, <1>4
    <2>2. QED
      BY <1>1, <2>1 DEF SameDoors
  <1>5. QED
    BY <1>3, <1>4

LEMMA DoorsUnchanged == DoorsTyped /\ UNCHANGED gates => SameDoors
  BY DEF DoorsTyped, SameDoors

HandlerOf(r) == CheckModel(r) \/ Handler(r) \/ TimesOut(r)
Others(r) == Pump(r) \/ HangUp(r)

LEMMA RequestsKeepDoors ==
  ASSUME NEW r \in Requests, DoorsTyped, HandlerOf(r) \/ Others(r)
  PROVE  SameDoors /\ UNCHANGED ServerVars
  <1>1. CASE CheckModel(r) \/ ReadBackend(r) \/ LookUp(r) \/ SendHead(r) \/ ReadEngine(r)
              \/ Register(r) \/ Text(r) \/ Generated(r) \/ Payload(r) \/ Put(r)
    BY <1>1, DoorsUnchanged
       DEF CheckModel, ReadBackend, LookUp, SendHead, ReadEngine, Register, Text, Generated,
           Payload, Put
  <1>2. CASE StopPump(r) \/ JoinPump(r) \/ FinalChunk(r) \/ SendDone(r) \/ SendError(r)
              \/ Others(r)
    BY <1>2, DoorsUnchanged
       DEF StopPump, JoinPump, FinalChunk, SendDone, SendError, Others, Pump, PumpWakes,
           PumpPings, HangUp
  <1>3. CASE Admit(r)
    <2> DEFINE g == server.scheduler
               x == Append(gates[g].line, r)
               s == Min(FreeSlots(g))
    <2>1. \/ UNCHANGED gates
          \/ gates' = [gates EXCEPT ![g].holder[s] = r, ![g].line = gates[g].line]
          \/ gates' = [gates EXCEPT ![g].line = x]
      BY <1>3 DEF Admit, Take
    <2>2. UNCHANGED ServerVars
      BY <1>3 DEF Admit
    <2> HIDE DEF g, x, s
    <2>3. CASE gates' = [gates EXCEPT ![g].holder[s] = r, ![g].line = gates[g].line]
      BY <2>2, <2>3, DoorChanges
    <2>4. CASE gates' = [gates EXCEPT ![g].line = x]
      BY <2>2, <2>4, DoorChanges
    <2>5. QED
      BY <2>1, <2>2, <2>3, <2>4, DoorsUnchanged
  <1>4. CASE Granted(r)
    BY <1>4, DoorChanges DEF Granted, Take
  <1>5. CASE TurnedAway(r) \/ TimesOut(r)
    <2>1. GivesUp(r)
      BY <1>5 DEF TurnedAway, TimesOut
    <2> DEFINE g == req[r].gate
               x == Remove(gates[g].line, r)
    <2>2. gates' = [gates EXCEPT ![g].line = x] /\ UNCHANGED ServerVars
      BY <2>1 DEF GivesUp
    <2> HIDE DEF g, x
    <2>3. QED
      BY <2>2, DoorChanges
  <1>6. CASE Release(r)
    BY <1>6, DoorChanges DEF Release
  <1>7. QED
    BY <1>1, <1>2, <1>3, <1>4, <1>5, <1>6 DEF HandlerOf, Handler

-----------------------------------------------------------------------------
(* Loads.                                                                    *)

\* What has been closed, forgotten and replaced at each step of a load.
LoadPhase ==
    /\ \A e \in 1 .. Len(engines) : engines[e].open =>
         e = server.engine /\ load.pc \in {"idle", "close", "announce"}
    /\ load.pc \in {"idle", "close"} =>
         /\ server.runtime_proc = server.engine
         /\ server.active_backend = "native" <=> server.engine # None
    /\ load.pc \in {"drop_backend", "close_scheduler", "new_scheduler", "name", "spawn"} =>
         server.engine = None /\ server.runtime_proc = None
    /\ load.pc \in {"close_scheduler", "new_scheduler", "name", "spawn", "announce"} =>
         server.active_backend = "nil"
    /\ load.pc = "announce" => server.engine # None
    /\ load.pc # "new_scheduler" => gates[server.scheduler].open
    /\ load.pc \in {"idle", "close", "drop_engine", "announce"} /\ server.engine # None =>
         engines[server.engine].model = server.model_id
    /\ load.pc \in {"spawn", "announce"} => server.model_id = load.model
    /\ load.pc = "announce" => load.model # NoModel
LoadInv == ServerTyped /\ DoorsTyped /\ LoadPhase

LEMMA LoadPhaseSettles == LoadInv => Settled
  <1> SUFFICES ASSUME LoadInv PROVE Settled
    OBVIOUS
  <1>1. Len(engines) \in Nat /\ DOMAIN engines = 1 .. Len(engines)
    BY DEF LoadInv, ServerTyped
  <1>2. server.engine # None =>
          engines[server.engine].model = server.model_id \/ load.pc \in {"close", "drop_engine"}
    BY DEF LoadInv, LoadPhase, ServerTyped, LoadPCs
  <1>3. QED
    BY <1>1, <1>2 DEF LoadInv, LoadPhase, ServerTyped, Settled

LEMMA LoadInvStart == Init => LoadInv
  <1> SUFFICES ASSUME Init PROVE LoadInv
    OBVIOUS
  <1>1. engines \in Seq(Engine) /\ Len(engines) = 1
        /\ engines[1] = [model |-> Started, open |-> TRUE, alive |-> TRUE]
    BY GatewayAssumption DEF Init, Engine
  <1>2. ServerTyped
    BY <1>1, GatewayAssumption DEF Init, ServerTyped, AnyModel, LoadPCs, None
  <1> DEFINE U == {NewGate.line, NewGate.holder}
  <1>3. gates = <<NewGate>> /\ NewGate \in Door(U) /\ NewGate.open
    BY DEF Init, NewGate, Door
  <1>4. gates \in Seq(Door(U)) /\ Len(gates) = 1 /\ gates[1] = NewGate
    <2> HIDE DEF U
    <2>1. QED
      BY <1>3
  <1>5. DoorsTyped /\ gates[server.scheduler].open
    BY <1>3, <1>4 DEF Init, DoorsTyped
  <1>6. LoadPhase
    BY <1>1, <1>5 DEF Init, LoadPhase, None
  <1>7. QED
    BY <1>2, <1>5, <1>6 DEF LoadInv

\* Requests do not get in its way.
LEMMA LoadInvRequest ==
  ASSUME NEW r \in Requests, LoadInv, HandlerOf(r) \/ Others(r)
  PROVE  LoadInv'
  <1>1. SameDoors /\ UNCHANGED ServerVars
    BY RequestsKeepDoors DEF LoadInv
  <1>2. ServerTyped'
    BY <1>1 DEF LoadInv, ServerTyped, ServerVars
  <1>3. DoorsTyped'
    BY <1>1 DEF LoadInv, DoorsTyped, SameDoors, ServerVars
  <1>4. gates'[server.scheduler].open = gates[server.scheduler].open
    BY <1>1 DEF LoadInv, DoorsTyped, SameDoors
  <1>5. LoadPhase'
    BY <1>1, <1>4 DEF LoadInv, LoadPhase, ServerVars
  <1>6. QED
    BY <1>2, <1>3, <1>5 DEF LoadInv
LEMMA EnginesShape ==
  ASSUME ServerTyped
  PROVE  /\ Len(engines) \in Nat /\ DOMAIN engines = 1 .. Len(engines)
         /\ \A e \in 1 .. Len(engines) : engines[e] \in Engine
  BY DEF ServerTyped

LEMMA SameLength ==
  ASSUME NEW m \in Nat, NEW n \in Nat, 1 .. m = 1 .. n
  PROVE  m = n
  <1>1. CASE m < n
    <2>1. n \in 1 .. n /\ n \notin 1 .. m
      BY <1>1
    <2>2. QED
      BY <2>1
  <1>2. CASE n < m
    <2>1. m \in 1 .. m /\ m \notin 1 .. n
      BY <1>2
    <2>2. QED
      BY <2>1
  <1>3. QED
    BY <1>1, <1>2

\* Engines are switched off one at a time; nothing else changes.
LEMMA EngineClosed ==
  ASSUME ServerTyped,
         engines' = [e \in DOMAIN engines |->
           IF e = server.runtime_proc THEN [engines[e] EXCEPT !.open = FALSE, !.alive = FALSE]
           ELSE engines[e]]
  PROVE  /\ engines' \in Seq(Engine) /\ Len(engines') = Len(engines)
         /\ \A e \in 1 .. Len(engines) :
              /\ engines'[e].model = engines[e].model
              /\ engines'[e].open => engines[e].open /\ e # server.runtime_proc
  <1>1. /\ Len(engines) \in Nat /\ DOMAIN engines = 1 .. Len(engines)
        /\ \A e \in 1 .. Len(engines) : engines[e] \in Engine
    BY EnginesShape
  <1>2. \A e \in 1 .. Len(engines) :
          [engines[e] EXCEPT !.open = FALSE, !.alive = FALSE] \in Engine
    BY <1>1 DEF Engine
  <1>3. engines' \in [1 .. Len(engines) -> Engine]
    BY <1>1, <1>2
  <1>4. engines' \in Seq(Engine) /\ Len(engines') = Len(engines)
    <2>1. engines' \in Seq(Engine)
      BY <1>1, <1>3, SeqDef
    <2>2. Len(engines') \in Nat /\ 1 .. Len(engines') = 1 .. Len(engines)
      BY <1>3, <2>1, LenProperties
    <2>3. Len(engines') = Len(engines)
      BY <1>1, <2>2, SameLength
    <2>4. QED
      BY <2>1, <2>3
  <1>5. \A e \in 1 .. Len(engines) :
          [engines[e] EXCEPT !.open = FALSE, !.alive = FALSE].model = engines[e].model
          /\ ~[engines[e] EXCEPT !.open = FALSE, !.alive = FALSE].open
    BY <1>1 DEF Engine
  <1>6. QED
    BY <1>1, <1>4, <1>5

LEMMA LoadInvClose ==
  ASSUME LoadInv, CloseEngine
  PROVE  LoadInv'
  <1>1. /\ load.pc = "close" /\ load' = [load EXCEPT !.pc = "drop_engine"]
        /\ UNCHANGED <<server, gates>>
    BY DEF CloseEngine, Then
  <1>2. /\ engines' \in Seq(Engine) /\ Len(engines') = Len(engines)
        /\ \A e \in 1 .. Len(engines) :
             /\ engines'[e].model = engines[e].model
             /\ engines'[e].open => engines[e].open /\ e # server.runtime_proc
    BY EngineClosed DEF LoadInv, CloseEngine
  <1>3. load' \in [pc : LoadPCs, model : AnyModel, count : Nat] /\ load'.count <= MaxLoads
        /\ load'.pc = "drop_engine"
    BY <1>1 DEF LoadInv, ServerTyped, LoadPCs
  <1>4. ServerTyped' /\ DoorsTyped'
    BY <1>1, <1>2, <1>3 DEF LoadInv, ServerTyped, DoorsTyped
  <1>5. \A e \in 1 .. Len(engines) : ~engines'[e].open
    BY <1>1, <1>2 DEF LoadInv, LoadPhase
  <1>6. server.engine # None => engines'[server.engine].model = server.model_id
    BY <1>1, <1>2 DEF LoadInv, LoadPhase, ServerTyped, None
  <1>7. LoadPhase'
    BY <1>1, <1>2, <1>3, <1>5, <1>6 DEF LoadInv, LoadPhase
  <1>8. QED
    BY <1>4, <1>7 DEF LoadInv

LEMMA LoadMoves ==
  ASSUME ServerTyped, NEW p \in LoadPCs
  PROVE  /\ Then(p) => /\ load' \in [pc : LoadPCs, model : AnyModel, count : Nat]
                       /\ load'.pc = p /\ load'.model = load.model /\ load'.count = load.count
         /\ LoadEnds => /\ load' \in [pc : LoadPCs, model : AnyModel, count : Nat]
                        /\ load'.pc = "idle" /\ load'.count = load.count
  BY DEF ServerTyped, Then, LoadEnds, LoadPCs, AnyModel

\* The steps that only assign attributes of the server.
LEMMA LoadInvBegin ==
  ASSUME LoadInv, BeginLoad
  PROVE  LoadInv'
  <1>1. UNCHANGED <<server, engines, gates>> /\ load.pc = "idle" /\ load.count < MaxLoads
    BY DEF BeginLoad
  <1>2. PICK m \in AnyModel : load' = [pc |-> "close", model |-> m, count |-> load.count + 1]
    BY DEF BeginLoad, AnyModel
  <1>3. load.count \in Nat /\ MaxLoads \in Nat
    BY GatewayAssumption DEF LoadInv, ServerTyped
  <1>4. load' \in [pc : LoadPCs, model : AnyModel, count : Nat] /\ load'.count <= MaxLoads
        /\ load'.pc = "close"
    BY <1>1, <1>2, <1>3 DEF LoadPCs
  <1>5. ServerTyped' /\ DoorsTyped'
    BY <1>1, <1>4 DEF LoadInv, ServerTyped, DoorsTyped
  <1>6. LoadPhase'
    BY <1>1, <1>4 DEF LoadInv, LoadPhase
  <1>7. QED
    BY <1>5, <1>6 DEF LoadInv

LEMMA LoadInvDrop ==
  ASSUME LoadInv, DropEngine \/ DropBackend
  PROVE  LoadInv'
  <1>1. UNCHANGED <<engines, gates>>
    BY DEF DropEngine, DropBackend
  <1>2. load' \in [pc : LoadPCs, model : AnyModel, count : Nat]
        /\ load'.model = load.model /\ load'.count = load.count
        /\ load'.pc \in {"drop_backend", "close_scheduler"}
    BY LoadMoves DEF LoadInv, DropEngine, DropBackend, LoadPCs
  <1>3. /\ server' \in [model_id : AnyModel, engine : Nat, runtime_proc : Nat,
                         active_backend : {"native", "nil", "none"}, scheduler : Nat]
        /\ server'.engine = None /\ server'.runtime_proc = None
        /\ server'.scheduler = server.scheduler
        /\ load'.pc = "close_scheduler" => server'.active_backend = "nil"
    <2>1. CASE DropEngine
      <3>1. server' = [server EXCEPT !.runtime_proc = None, !.engine = None]
            /\ load'.pc = "drop_backend"
        BY <2>1, LoadMoves DEF LoadInv, DropEngine, LoadPCs
      <3>2. QED
        BY <3>1 DEF LoadInv, ServerTyped, None
    <2>2. CASE DropBackend
      <3>1. server' = [server EXCEPT !.active_backend = "nil"]
            /\ server.engine = None /\ server.runtime_proc = None
        BY <2>2 DEF LoadInv, LoadPhase, DropBackend
      <3>2. QED
        BY <3>1 DEF LoadInv, ServerTyped
    <2>3. QED
      BY <2>1, <2>2
  <1>4. \A e \in 1 .. Len(engines) : ~engines[e].open
    BY DEF LoadInv, LoadPhase, DropEngine, DropBackend
  <1>5. ServerTyped' /\ DoorsTyped'
    BY <1>1, <1>2, <1>3 DEF LoadInv, ServerTyped, DoorsTyped, None
  <1>6. load.pc # "new_scheduler"
    BY DEF DropEngine, DropBackend
  <1>7. LoadPhase'
    BY <1>1, <1>2, <1>3, <1>4, <1>6 DEF LoadInv, LoadPhase
  <1>8. QED
    BY <1>5, <1>7 DEF LoadInv

LEMMA LoadInvName ==
  ASSUME LoadInv, NameModel
  PROVE  LoadInv'
  <1>1. UNCHANGED <<engines, gates>> /\ load.pc = "name"
        /\ server' = [server EXCEPT !.model_id = load.model]
    BY DEF NameModel
  <1>2. load' \in [pc : LoadPCs, model : AnyModel, count : Nat]
        /\ load'.model = load.model /\ load'.count = load.count /\ load'.pc = "spawn"
    BY LoadMoves DEF LoadInv, NameModel, LoadPCs
  <1>3. /\ server' \in [model_id : AnyModel, engine : Nat, runtime_proc : Nat,
                         active_backend : {"native", "nil", "none"}, scheduler : Nat]
        /\ server'.engine = server.engine /\ server'.scheduler = server.scheduler
        /\ server'.runtime_proc = server.runtime_proc
        /\ server'.active_backend = server.active_backend /\ server'.model_id = load.model
    BY <1>1 DEF LoadInv, ServerTyped
  <1>4. ServerTyped' /\ DoorsTyped'
    BY <1>1, <1>2, <1>3 DEF LoadInv, ServerTyped, DoorsTyped
  <1>5. \A e \in 1 .. Len(engines) : ~engines[e].open
    BY <1>1 DEF LoadInv, LoadPhase
  <1>6. LoadPhase'
    BY <1>1, <1>2, <1>3, <1>5 DEF LoadInv, LoadPhase
  <1>7. QED
    BY <1>4, <1>6 DEF LoadInv

\* However a load ends, the attributes agree.
LEMMA LoadInvEnds ==
  ASSUME LoadInv, SpawnFails \/ Unload \/ Announce
  PROVE  LoadInv'
  <1>1. UNCHANGED <<engines, gates>> /\ load.pc \in {"spawn", "announce"}
    BY DEF SpawnFails, Unload, Announce
  <1>2. load' \in [pc : LoadPCs, model : AnyModel, count : Nat]
        /\ load'.count = load.count /\ load'.pc = "idle"
    BY LoadMoves DEF LoadInv, SpawnFails, Unload, Announce, LoadPCs
  <1>3. /\ server' \in [model_id : AnyModel, engine : Nat, runtime_proc : Nat,
                         active_backend : {"native", "nil", "none"}, scheduler : Nat]
        /\ server'.engine = server.engine /\ server'.scheduler = server.scheduler
        /\ server'.model_id = server.model_id
        /\ server'.active_backend = "native" <=> server.engine # None
        /\ server'.runtime_proc = server.engine
    <2>1. CASE SpawnFails
      BY <2>1 DEF LoadInv, LoadPhase, ServerTyped, SpawnFails
    <2>2. CASE Unload
      BY <2>2 DEF LoadInv, LoadPhase, ServerTyped, Unload
    <2>3. CASE Announce
      BY <2>3 DEF LoadInv, LoadPhase, ServerTyped, Announce
    <2>4. QED
      BY <2>1, <2>2, <2>3
  <1>4. ServerTyped' /\ DoorsTyped'
    BY <1>1, <1>2, <1>3 DEF LoadInv, ServerTyped, DoorsTyped
  <1>5. server.engine # None => engines[server.engine].model = server.model_id
    BY <1>1 DEF LoadInv, LoadPhase
  <1>6. LoadPhase'
    BY <1>1, <1>2, <1>3, <1>5 DEF LoadInv, LoadPhase
  <1>7. QED
    BY <1>4, <1>6 DEF LoadInv
\* The line of the old scheduler is turned away, a new one opens.
LEMMA LoadInvScheduler ==
  ASSUME LoadInv, CloseScheduler \/ NewScheduler
  PROVE  LoadInv'
  <1>1. UNCHANGED engines /\ load.pc \in {"close_scheduler", "new_scheduler"}
    BY DEF CloseScheduler, NewScheduler
  <1>2. load' \in [pc : LoadPCs, model : AnyModel, count : Nat]
        /\ load'.model = load.model /\ load'.count = load.count
    BY LoadMoves DEF LoadInv, CloseScheduler, NewScheduler, LoadPCs
  <1>3. PICK U : gates \in Seq(Door(U))
    BY DEF LoadInv, DoorsTyped
  <1>4. Len(gates) \in Nat /\ server.scheduler \in 1 .. Len(gates)
        /\ DOMAIN gates = 1 .. Len(gates)
    BY <1>3 DEF LoadInv, DoorsTyped
  <1>5. /\ server' \in [model_id : AnyModel, engine : Nat, runtime_proc : Nat,
                         active_backend : {"native", "nil", "none"}, scheduler : Nat]
        /\ server'.engine = None /\ server'.runtime_proc = None
        /\ server'.active_backend = "nil"
        /\ DoorsTyped' /\ load'.pc \in {"new_scheduler", "name"}
        /\ load'.pc # "new_scheduler" => gates'[server'.scheduler].open
    <2>1. CASE CloseScheduler
      <3> DEFINE d == [gates[server.scheduler] EXCEPT !.open = FALSE]
      <3>1. gates' = [gates EXCEPT ![server.scheduler] = d] /\ server' = server
        BY <2>1 DEF CloseScheduler
      <3>2. d \in Door(U)
        <4>1. gates[server.scheduler] \in Door(U)
          BY <1>3, <1>4, ElementOfSeq
        <4>2. QED
          BY <4>1 DEF Door
      <3>3. gates' \in Seq(Door(U)) /\ Len(gates') = Len(gates)
        <4> HIDE DEF d
        <4>1. QED
          BY <1>3, <1>4, <3>1, <3>2, ExceptSeq
      <3>4. load'.pc = "new_scheduler"
        BY <2>1, LoadMoves DEF LoadInv, CloseScheduler, LoadPCs
      <3>5. QED
        BY <1>1, <1>4, <3>1, <3>3, <3>4 DEF LoadInv, LoadPhase, ServerTyped, DoorsTyped
    <2>2. CASE NewScheduler
      <3>1. /\ gates' = Append(gates, NewGate)
            /\ server' = [server EXCEPT !.scheduler = Len(gates) + 1]
            /\ load'.pc = "name"
        BY <2>2, LoadMoves DEF LoadInv, NewScheduler, LoadPCs
      <3> DEFINE V == U \union {NewGate.line, NewGate.holder}
      <3>2. NewGate \in Door(V) /\ NewGate.open /\ Door(U) \subseteq Door(V)
        BY DEF NewGate, Door
      <3>3. gates \in Seq(Door(V))
        BY <1>3, <3>2, SeqMonotonic
      <3>4. gates' \in Seq(Door(V)) /\ Len(gates') = Len(gates) + 1
            /\ gates'[Len(gates) + 1] = NewGate
        <4> HIDE DEF V
        <4>1. QED
          BY <3>1, <3>2, <3>3, AppendProperties
      <3>5. server' \in [model_id : AnyModel, engine : Nat, runtime_proc : Nat,
                         active_backend : {"native", "nil", "none"}, scheduler : Nat]
            /\ server'.engine = server.engine /\ server'.runtime_proc = server.runtime_proc
            /\ server'.active_backend = server.active_backend
            /\ server'.scheduler = Len(gates) + 1
        BY <1>4, <3>1 DEF LoadInv, ServerTyped
      <3>6. DoorsTyped'
        <4>1. server'.scheduler \in 1 .. Len(gates')
          BY <1>4, <3>4, <3>5
        <4>2. QED
          BY <3>4, <4>1 DEF DoorsTyped
      <3>7. QED
        BY <1>1, <3>1, <3>2, <3>4, <3>5, <3>6 DEF LoadInv, LoadPhase
    <2>3. QED
      BY <2>1, <2>2
  <1>6. ServerTyped'
    BY <1>1, <1>2, <1>5 DEF LoadInv, ServerTyped, None
  <1>7. \A e \in 1 .. Len(engines) : ~engines[e].open
    BY <1>1 DEF LoadInv, LoadPhase
  <1>8. LoadPhase'
    BY <1>1, <1>5, <1>7 DEF LoadPhase
  <1>9. QED
    BY <1>5, <1>6, <1>8 DEF LoadInv

\* The only engine that is open is the one that takes the old one's place.
LEMMA LoadInvSpawn ==
  ASSUME LoadInv, Spawn
  PROVE  LoadInv'
  <1> DEFINE new == [model |-> load.model, open |-> TRUE, alive |-> TRUE]
             n == Len(engines)
  <1>1. /\ load.pc = "spawn" /\ load.model # NoModel /\ UNCHANGED gates
        /\ engines' = Append(engines, new) /\ server' = [server EXCEPT !.engine = n + 1]
    BY DEF Spawn
  <1>2. load' \in [pc : LoadPCs, model : AnyModel, count : Nat]
        /\ load'.model = load.model /\ load'.count = load.count /\ load'.pc = "announce"
    BY LoadMoves DEF LoadInv, Spawn, LoadPCs
  <1>3. new \in Engine /\ new.open /\ new.model = load.model
    BY <1>1 DEF LoadInv, ServerTyped, AnyModel, Engine
  <1>4. n \in Nat /\ engines \in Seq(Engine)
    BY EnginesShape DEF LoadInv, ServerTyped
  <1>5. /\ engines' \in Seq(Engine) /\ Len(engines') = n + 1
        /\ engines'[n + 1] = new /\ \A e \in 1 .. n : engines'[e] = engines[e]
    <2> HIDE DEF new
    <2>1. QED
      BY <1>1, <1>3, <1>4, AppendProperties
  <1>6. /\ server' \in [model_id : AnyModel, engine : Nat, runtime_proc : Nat,
                         active_backend : {"native", "nil", "none"}, scheduler : Nat]
        /\ server'.engine = n + 1 /\ server'.scheduler = server.scheduler
        /\ server'.active_backend = server.active_backend
        /\ server'.model_id = server.model_id
    BY <1>1, <1>4 DEF LoadInv, ServerTyped
  <1>7. ServerTyped' /\ DoorsTyped'
    BY <1>1, <1>2, <1>4, <1>5, <1>6 DEF LoadInv, ServerTyped, DoorsTyped
  <1>8. \A e \in 1 .. n + 1 : engines'[e].open => e = n + 1
    BY <1>1, <1>4, <1>5 DEF LoadInv, LoadPhase
  <1>9. LoadPhase'
    <2> HIDE DEF new, n
    <2>1. n + 1 # None
      BY <1>4 DEF None
    <2>2. QED
      BY <1>1, <1>2, <1>3, <1>5, <1>6, <1>8, <2>1 DEF LoadInv, LoadPhase
  <1>10. QED
    BY <1>7, <1>9 DEF LoadInv

LEMMA LoadInvDies ==
  ASSUME LoadInv, EngineDies
  PROVE  LoadInv'
  <1>1. PICK e \in DOMAIN engines : engines' = [engines EXCEPT ![e].alive = FALSE]
    BY DEF EngineDies
  <1>2. UNCHANGED <<server, gates, load>>
    BY DEF EngineDies
  <1> DEFINE d == [engines[e] EXCEPT !.alive = FALSE]
  <1>3. e \in 1 .. Len(engines) /\ engines[e] \in Engine /\ engines \in Seq(Engine)
    BY EnginesShape DEF LoadInv, ServerTyped
  <1>4. d \in Engine /\ d.open = engines[e].open /\ d.model = engines[e].model
        /\ engines' = [engines EXCEPT ![e] = d]
    BY <1>1, <1>3 DEF Engine
  <1>5. engines' \in Seq(Engine) /\ Len(engines') = Len(engines)
        /\ \A i \in 1 .. Len(engines) : engines'[i] = IF i = e THEN d ELSE engines[i]
    <2> HIDE DEF d
    <2>1. QED
      BY <1>3, <1>4, ExceptSeq
  <1>6. \A i \in 1 .. Len(engines) :
          engines'[i].open = engines[i].open /\ engines'[i].model = engines[i].model
    BY <1>4, <1>5
  <1>7. ServerTyped' /\ DoorsTyped'
    BY <1>2, <1>5 DEF LoadInv, ServerTyped, DoorsTyped
  <1>8. LoadPhase'
    <2>1. server.engine # None => server.engine \in 1 .. Len(engines)
      BY DEF LoadInv, ServerTyped, None
    <2>2. QED
      BY <1>2, <1>5, <1>6, <2>1 DEF LoadInv, LoadPhase
  <1>9. QED
    BY <1>7, <1>8 DEF LoadInv

LEMMA LoadInvStep == LoadInv /\ [Next]_vars => LoadInv'
  <1> SUFFICES ASSUME LoadInv, [Next]_vars
               PROVE  LoadInv'
    OBVIOUS
  <1>1. CASE Load \/ EngineDies
    BY <1>1, LoadInvBegin, LoadInvClose, LoadInvDrop, LoadInvScheduler, LoadInvName,
       LoadInvSpawn, LoadInvEnds, LoadInvDies DEF Load
  <1>2. ASSUME NEW r \in Requests,
               CheckModel(r) \/ Handler(r) \/ TimesOut(r) \/ Pump(r) \/ HangUp(r)
        PROVE  LoadInv'
    BY <1>2, LoadInvRequest DEF HandlerOf, Others
  <1>3. CASE UNCHANGED vars
    BY <1>3 DEF vars, LoadInv, ServerTyped, DoorsTyped, LoadPhase
  <1>4. QED
    BY <1>1, <1>2, <1>3 DEF Next

\* However loads that succeed or fail interleave with requests and with dying
\* engines, for any number of each: an engine that is not closed is one the
\* server knows, and what handlers read of it belongs together.
THEOREM AlwaysSettled == Spec => []Settled
  <1>1. QED
    BY LoadInvStart, LoadInvStep, LoadPhaseSettles, PTL DEF Spec
-----------------------------------------------------------------------------
(* Requests, pumps and wires keep their shape, each its own.                 *)

\* A step of r changes the record of r and leaves it one.
RequestStep(r) ==
    /\ \E U : req' \in [Requests -> RequestRecord(U)]
    /\ \A o \in Requests \ {r} : req'[o] = req[o]
SameButPc(r) ==
    /\ req'[r].loads = req[r].loads /\ req'[r].engine = req[r].engine
    /\ req'[r].label = req[r].label

LEMMA RecordReplaced ==
  ASSUME RequestsTyped, NEW r \in Requests, NEW U, NEW q \in RequestRecord(U),
         req' = [req EXCEPT ![r] = q]
  PROVE  RequestStep(r) /\ req'[r] = q
  <1>1. PICK V : req \in [Requests -> RequestRecord(V)]
    BY DEF RequestsTyped
  <1> DEFINE W == U \union V
  <1>2. RequestRecord(U) \subseteq RequestRecord(W) /\ RequestRecord(V) \subseteq RequestRecord(W)
    BY DEF RequestRecord
  <1>3. req' \in [Requests -> RequestRecord(W)]
    <2> HIDE DEF W
    <2>1. QED
      BY <1>1, <1>2
  <1>4. QED
    BY <1>1, <1>3 DEF RequestStep

LEMMA Unmoved ==
  ASSUME RequestsTyped, NEW r \in Requests, UNCHANGED req
  PROVE  RequestStep(r)
  BY DEF RequestsTyped, RequestStep

LEMMA GotoMoves ==
  ASSUME RequestsTyped, NEW r \in Requests, NEW pc \in PCs, Goto(r, pc)
  PROVE  RequestStep(r) /\ SameButPc(r) /\ req'[r].pc = pc
  <1>1. PICK U : req \in [Requests -> RequestRecord(U)]
    BY DEF RequestsTyped
  <1> DEFINE q == [req[r] EXCEPT !.pc = pc]
  <1>2. req[r] \in RequestRecord(U)
    BY <1>1
  <1>3. q \in RequestRecord(U) /\ q.pc = pc /\ q.loads = req[r].loads
        /\ q.engine = req[r].engine /\ q.label = req[r].label
    BY <1>2 DEF RequestRecord
  <1>4. req' = [req EXCEPT ![r] = q]
    BY DEF Goto
  <1> HIDE DEF q
  <1>5. QED
    BY <1>3, <1>4, RecordReplaced DEF SameButPc

LEMMA EndsMoves ==
  ASSUME RequestsTyped, NEW r \in Requests, Ends(r)
  PROVE  RequestStep(r) /\ req'[r].pc = "ended" /\ req'[r].loads = 0
  <1> DEFINE q == [NewRequest EXCEPT !.pc = "ended", !.gone = req[r].gone /\ pump[r].pc # "none"]
             V == {None}
  <1>1. PICK U : req \in [Requests -> RequestRecord(U)]
    BY DEF RequestsTyped
  <1>2. req[r].gone \in BOOLEAN
    BY <1>1 DEF RequestRecord
  <1>3. q \in RequestRecord(V) /\ q.pc = "ended" /\ q.loads = 0
    BY <1>2 DEF RequestRecord, NewRequest, PCs, AnyModel, None
  <1>4. req' = [req EXCEPT ![r] = q]
    BY DEF Ends
  <1> HIDE DEF q
  <1>5. QED
    BY <1>3, <1>4, RecordReplaced

LEMMA TakeMoves ==
  ASSUME RequestsTyped, NEW r \in Requests, NEW g \in Nat, NEW line, Take(r, g, line)
  PROVE  RequestStep(r) /\ SameButPc(r) /\ req'[r].pc \in {"head", "engine"}
  <1>1. PICK U : req \in [Requests -> RequestRecord(U)]
    BY DEF RequestsTyped
  <1> DEFINE s == Min(FreeSlots(g))
             pc == IF req[r].stream THEN "head" ELSE "engine"
             q == [req[r] EXCEPT !.pc = pc, !.gate = g, !.slot = s]
             V == U \union {s}
  <1>2. req' = [req EXCEPT ![r] = q]
    BY DEF Take
  <1> HIDE DEF s
  <1>3. req[r] \in RequestRecord(U)
    BY <1>1
  <1>4. q \in RequestRecord(V) /\ q.pc \in {"head", "engine"} /\ q.loads = req[r].loads
        /\ q.engine = req[r].engine /\ q.label = req[r].label
    BY <1>3 DEF RequestRecord, PCs
  <1> HIDE DEF q, V
  <1>5. QED
    BY <1>2, <1>4, RecordReplaced DEF SameButPc

-----------------------------------------------------------------------------
(* Streams.                                                                  *)

Unended(w) == \A i \in 1 .. Len(w) : w[i] \notin {"final", "done"}
EndsWell(w) == \A i \in 1 .. Len(w) - 1 :
    w[i] # "done" /\ (w[i] = "final" => w[i + 1] = "done")

\* The pump has been joined before anything of the end is written, and it is the
\* handler's last part to write it.
Flow(r) ==
    /\ EndsWell(wire[r])
    /\ ~Unended(wire[r]) => pump[r].pc = "ended" /\ req[r].pc \in {"done", "release", "ended"}
    /\ req[r].pc \in {"final", "done"} => pump[r].pc = "ended"
    /\ req[r].pc = "done" => \A i \in 1 .. Len(wire[r]) : wire[r][i] # "done"

LEMMA WireAppend ==
  ASSUME NEW S, NEW w \in Seq(S), NEW what \in S
  PROVE  /\ Append(w, what) \in Seq(S)
         /\ Unended(w) => EndsWell(Append(w, what))
         /\ Unended(w) /\ what \notin {"final", "done"} => Unended(Append(w, what))
         /\ Unended(w) /\ what # "done" =>
              \A i \in 1 .. Len(Append(w, what)) : Append(w, what)[i] # "done"
         /\ EndsWell(w) /\ what = "done" /\ (\A i \in 1 .. Len(w) : w[i] # "done") =>
              EndsWell(Append(w, what))
  <1> DEFINE a == Append(w, what)
  <1>1. /\ a \in Seq(S) /\ Len(a) = Len(w) + 1
        /\ \A i \in 1 .. Len(w) : a[i] = w[i]
        /\ a[Len(w) + 1] = what
    BY AppendProperties
  <1>2. Len(w) \in Nat
    BY LenProperties
  <1> HIDE DEF a
  <1>3. Unended(w) => EndsWell(a)
    BY <1>1, <1>2 DEF Unended, EndsWell
  <1>4. Unended(w) /\ what \notin {"final", "done"} => Unended(a)
    BY <1>1, <1>2 DEF Unended
  <1>5. Unended(w) /\ what # "done" => \A i \in 1 .. Len(a) : a[i] # "done"
    BY <1>1, <1>2 DEF Unended
  <1>6. EndsWell(w) /\ what = "done" /\ (\A i \in 1 .. Len(w) : w[i] # "done") => EndsWell(a)
    BY <1>1, <1>2 DEF EndsWell
  <1>7. QED
    BY <1>1, <1>3, <1>4, <1>5, <1>6 DEF a

\* A step of r changes the pump and the wire of r only.
StreamStep(r) ==
    /\ pump' \in [Requests -> [pc : {"none", "on", "ping", "ended"}, stop : BOOLEAN,
                               connected : BOOLEAN]]
    /\ wire' \in [Requests -> Seq(Said)]
    /\ \A o \in Requests \ {r} : pump'[o] = pump[o] /\ wire'[o] = wire[o]
Steps(r) == RequestStep(r) /\ StreamStep(r) /\ Flow(r)'

LEMMA FlowMoves ==
  ASSUME NEW r \in Requests, Flow(r), pump'[r].pc = pump[r].pc, wire'[r] = wire[r],
         req'[r].pc \notin {"final", "done"},
         req[r].pc \notin {"done", "release", "ended"} \/ req'[r].pc \in {"release", "ended"}
  PROVE  Flow(r)'
  BY DEF Flow

LEMMA Quiet ==
  ASSUME RequestsTyped, NEW r \in Requests, UNCHANGED <<pump, wire>>
  PROVE  StreamStep(r) /\ pump'[r].pc = pump[r].pc /\ wire'[r] = wire[r]
  BY DEF RequestsTyped, StreamStep

LEMMA CheckModelMoves ==
  ASSUME RequestsTyped, NEW r \in Requests, Flow(r), CheckModel(r)
  PROVE  /\ Steps(r)
         /\ \/ req'[r].pc = "ended" /\ req'[r].loads = 0
            \/ req'[r].pc = "backend" /\ SameButPc(r)
  <1>1. UNCHANGED <<pump, wire>> /\ req[r].pc = "new"
    BY DEF CheckModel, At
  <1>2. /\ RequestStep(r)
        /\ \/ req'[r].pc = "ended" /\ req'[r].loads = 0
           \/ req'[r].pc = "backend" /\ SameButPc(r)
    <2>1. CASE Ends(r)
      <3>1. RequestStep(r) /\ req'[r].pc = "ended" /\ req'[r].loads = 0
        BY <2>1, EndsMoves
      <3>2. QED
        BY <3>1
    <2>2. ASSUME NEW stream \in BOOLEAN,
                 req' = [req EXCEPT ![r].stream = stream, ![r].pc = "backend"]
          PROVE  RequestStep(r) /\ req'[r].pc = "backend" /\ SameButPc(r)
      <3> DEFINE q == [req[r] EXCEPT !.stream = stream, !.pc = "backend"]
      <3>1. PICK U : req \in [Requests -> RequestRecord(U)]
        BY DEF RequestsTyped
      <3>2. req[r] \in RequestRecord(U)
        BY <3>1
      <3>3. q \in RequestRecord(U) /\ q.pc = "backend" /\ q.loads = req[r].loads
            /\ q.engine = req[r].engine /\ q.label = req[r].label
        BY <3>2 DEF RequestRecord, PCs
      <3>4. req' = [req EXCEPT ![r] = q]
        BY <2>2
      <3> HIDE DEF q
      <3>5. QED
        BY <3>3, <3>4, RecordReplaced DEF SameButPc
    <2>3. QED
      BY <2>1, <2>2 DEF CheckModel
  <1>3. QED
    BY <1>1, <1>2, Quiet, FlowMoves DEF Steps

\* Before the admission.
LEMMA EarlyMoves ==
  ASSUME RequestsTyped, DoorsTyped, ServerTyped, NEW r \in Requests, Flow(r),
         \/ ReadBackend(r) \/ LookUp(r) \/ Admit(r) \/ Granted(r) \/ TurnedAway(r)
         \/ TimesOut(r)
  PROVE  /\ Steps(r)
         /\ \/ req'[r].pc = "ended" /\ req'[r].loads = 0
            \/ /\ SameButPc(r)
               /\ req'[r].pc \in {"admit", "cache", "wait", "head", "engine"}
  <1>1. UNCHANGED <<pump, wire>> /\ req[r].pc \in {"backend", "cache", "admit", "wait"}
    BY DEF ReadBackend, LookUp, Admit, Granted, TurnedAway, TimesOut, GivesUp, At
  <1>2. PICK U : req \in [Requests -> RequestRecord(U)]
    BY DEF RequestsTyped
  <1>3. req[r].gate \in Nat /\ server.scheduler \in Nat /\ req[r] \in RequestRecord(U)
    BY <1>2 DEF RequestRecord, ServerTyped
  <1>4. /\ RequestStep(r)
        /\ \/ req'[r].pc = "ended" /\ req'[r].loads = 0
           \/ /\ SameButPc(r)
              /\ req'[r].pc \in {"admit", "cache", "wait", "head", "engine"}
    <2>1. CASE ReadBackend(r) \/ LookUp(r)
      <3>1. Ends(r) \/ Goto(r, "admit") \/ Goto(r, "cache")
        BY <2>1 DEF ReadBackend, LookUp
      <3>2. QED
        BY <3>1, EndsMoves, GotoMoves DEF PCs
    <2>2. CASE TurnedAway(r) \/ TimesOut(r)
      BY <2>2, EndsMoves DEF TurnedAway, TimesOut, GivesUp
    <2>3. CASE Granted(r)
      <3> DEFINE l == Tail(gates[req[r].gate].line)
      <3>1. Take(r, req[r].gate, l)
        BY <2>3 DEF Granted
      <3> HIDE DEF l
      <3>2. QED
        BY <1>3, <3>1, TakeMoves
    <2>4. CASE Admit(r)
      <3> DEFINE g == server.scheduler
                 l == gates[g].line
      <3>1. CASE Ends(r)
        BY <3>1, EndsMoves
      <3>2. CASE Take(r, g, l)
        <4> HIDE DEF l
        <4>1. QED
          BY <1>3, <3>2, TakeMoves
      <3>3. CASE req' = [req EXCEPT ![r].pc = "wait", ![r].gate = g]
        <4> DEFINE q == [req[r] EXCEPT !.pc = "wait", !.gate = g]
        <4>1. q \in RequestRecord(U) /\ q.pc = "wait" /\ q.loads = req[r].loads
              /\ q.engine = req[r].engine /\ q.label = req[r].label
          BY <1>3 DEF RequestRecord, PCs
        <4>2. req' = [req EXCEPT ![r] = q]
          BY <3>3
        <4> HIDE DEF q
        <4>3. RequestStep(r) /\ req'[r] = q
          BY <1>3, <4>1, <4>2, RecordReplaced
        <4>4. QED
          BY <4>1, <4>3 DEF SameButPc
      <3>4. QED
        BY <2>4, <3>1, <3>2, <3>3 DEF Admit
    <2>5. QED
      BY <2>1, <2>2, <2>3, <2>4
  <1>5. QED
    BY <1>1, <1>4, Quiet, FlowMoves DEF Steps
LEMMA PumpReplaced ==
  ASSUME RequestsTyped, NEW r \in Requests, UNCHANGED wire,
         \/ UNCHANGED pump
         \/ pump' = [pump EXCEPT ![r].pc = "on"]
         \/ pump' = [pump EXCEPT ![r].pc = "ping"]
         \/ pump' = [pump EXCEPT ![r].pc = "ended"]
         \/ pump' = [pump EXCEPT ![r].connected = FALSE]
         \/ pump' = [pump EXCEPT ![r].pc = "on", ![r].connected = FALSE]
         \/ pump' = [pump EXCEPT ![r].stop = TRUE]
  PROVE  StreamStep(r) /\ wire'[r] = wire[r]
  <1>1. pump[r] \in [pc : {"none", "on", "ping", "ended"}, stop : BOOLEAN, connected : BOOLEAN]
    BY DEF RequestsTyped
  <1>2. PICK p \in [pc : {"none", "on", "ping", "ended"}, stop : BOOLEAN, connected : BOOLEAN] :
          pump' = [pump EXCEPT ![r] = p]
    <2>1. CASE UNCHANGED pump
      <3>1. pump' = [pump EXCEPT ![r] = pump[r]]
        BY <2>1 DEF RequestsTyped
      <3>2. QED
        BY <1>1, <3>1
    <2>2. ASSUME NEW pc \in {"on", "ping", "ended"}, pump' = [pump EXCEPT ![r].pc = pc]
          PROVE  \E p \in [pc : {"none", "on", "ping", "ended"}, stop : BOOLEAN,
                           connected : BOOLEAN] : pump' = [pump EXCEPT ![r] = p]
      <3> DEFINE p == [pump[r] EXCEPT !.pc = pc]
      <3>1. pump' = [pump EXCEPT ![r] = p]
        BY <2>2
      <3>2. p \in [pc : {"none", "on", "ping", "ended"}, stop : BOOLEAN, connected : BOOLEAN]
        BY <1>1
      <3>3. QED
        BY <3>1, <3>2
    <2>3. CASE pump' = [pump EXCEPT ![r].connected = FALSE]
      <3> DEFINE p == [pump[r] EXCEPT !.connected = FALSE]
      <3>1. pump' = [pump EXCEPT ![r] = p]
        BY <2>3
      <3>2. p \in [pc : {"none", "on", "ping", "ended"}, stop : BOOLEAN, connected : BOOLEAN]
        BY <1>1
      <3>3. QED
        BY <3>1, <3>2
    <2>4. CASE pump' = [pump EXCEPT ![r].pc = "on", ![r].connected = FALSE]
      <3> DEFINE p == [pump[r] EXCEPT !.pc = "on", !.connected = FALSE]
      <3>1. pump' = [pump EXCEPT ![r] = p]
        BY <2>4
      <3>2. p \in [pc : {"none", "on", "ping", "ended"}, stop : BOOLEAN, connected : BOOLEAN]
        BY <1>1
      <3>3. QED
        BY <3>1, <3>2
    <2>5. CASE pump' = [pump EXCEPT ![r].stop = TRUE]
      <3> DEFINE p == [pump[r] EXCEPT !.stop = TRUE]
      <3>1. pump' = [pump EXCEPT ![r] = p]
        BY <2>5
      <3>2. p \in [pc : {"none", "on", "ping", "ended"}, stop : BOOLEAN, connected : BOOLEAN]
        BY <1>1
      <3>3. QED
        BY <3>1, <3>2
    <2>6. QED
      BY <2>1, <2>2, <2>3, <2>4, <2>5
  <1>3. QED
    BY <1>2 DEF RequestsTyped, StreamStep

\* Something is written to the client of r; its pump rests or goes on.
LEMMA WireExtended ==
  ASSUME RequestsTyped, NEW r \in Requests, NEW what \in Said, Sends(r, what),
         UNCHANGED pump \/ pump' = [pump EXCEPT ![r].pc = "on"]
  PROVE  StreamStep(r) /\ wire'[r] = Append(wire[r], what)
  <1>1. wire \in [Requests -> Seq(Said)]
    BY DEF RequestsTyped
  <1>2. wire' = [wire EXCEPT ![r] = Append(wire[r], what)] /\ wire[r] \in Seq(Said)
    BY <1>1 DEF Sends
  <1>3. Append(wire[r], what) \in Seq(Said)
    BY <1>2, WireAppend
  <1>4. pump' \in [Requests -> [pc : {"none", "on", "ping", "ended"}, stop : BOOLEAN,
                               connected : BOOLEAN]]
        /\ \A o \in Requests \ {r} : pump'[o] = pump[o]
    BY DEF RequestsTyped
  <1>5. QED
    BY <1>1, <1>2, <1>3, <1>4 DEF StreamStep

\* A handler with a slot, up to the answer.
LEMMA ServingMoves ==
  ASSUME RequestsTyped, NEW r \in Requests, Flow(r),
         SendHead(r) \/ Register(r) \/ Generated(r) \/ Put(r) \/ StopPump(r) \/ JoinPump(r)
  PROVE  /\ Steps(r) /\ SameButPc(r)
         /\ req[r].pc \in {"head", "call", "generating", "put", "stop", "join"}
         /\ req'[r].pc \in {"engine", "release", "generating", "failed", "stop", "payload",
                            "join", "final"}
         /\ req'[r].pc \in {"generating", "payload"} => req[r].pc \in {"call", "generating"}
  <1>1. req[r].pc \in {"head", "call", "generating", "put", "stop", "join"}
    BY DEF SendHead, Register, Generated, Put, StopPump, JoinPump, At
  <1>2. PICK pc \in {"engine", "release", "generating", "failed", "stop", "payload",
                     "join", "final"} :
          /\ Goto(r, pc)
          /\ pc \in {"generating", "payload"} => req[r].pc \in {"call", "generating"}
          /\ pc = "final" => JoinPump(r)
    BY DEF SendHead, Register, Generated, Put, StopPump, JoinPump, At
  <1>3. RequestStep(r) /\ SameButPc(r) /\ req'[r].pc = pc
    BY <1>2, GotoMoves DEF PCs
  <1>4. Unended(wire[r])
    BY <1>1 DEF Flow
  <1>5. CASE /\ Goto(r, "engine")
             /\ wire' = [wire EXCEPT ![r] = <<"head">>]
             /\ pump' = [pump EXCEPT ![r].pc = "on"]
    <2>1. wire' = [wire EXCEPT ![r] = <<"head">>] /\ pump' = [pump EXCEPT ![r].pc = "on"]
          /\ Goto(r, "engine")
      BY <1>5
    <2> DEFINE w == <<"head">>
    <2>2. w \in Seq(Said) /\ Unended(w) /\ EndsWell(w)
      <3>1. w \in Seq(Said) /\ Len(w) = 1 /\ w[1] = "head"
        BY DEF Said
      <3> HIDE DEF w
      <3>2. QED
        BY <3>1 DEF Unended, EndsWell
    <2>3. StreamStep(r) /\ wire'[r] = <<"head">>
      BY <2>1, <2>2 DEF RequestsTyped, StreamStep
    <2>4. req'[r].pc = "engine"
      BY <2>1, GotoMoves DEF PCs
    <2>5. Flow(r)'
      BY <2>2, <2>3, <2>4 DEF Flow
    <2>6. QED
      BY <1>1, <1>2, <1>3, <2>3, <2>5 DEF Steps
  <1>6. CASE StopPump(r)
    <2>1. pump' = [pump EXCEPT ![r].stop = TRUE] /\ UNCHANGED wire /\ Goto(r, "join")
      BY <1>6 DEF StopPump
    <2>2. StreamStep(r) /\ wire'[r] = wire[r] /\ pump'[r].pc = pump[r].pc
      BY <2>1, PumpReplaced DEF RequestsTyped
    <2>3. req'[r].pc = "join"
      BY <2>1, GotoMoves DEF PCs
    <2>4. Flow(r)'
      BY <1>1, <2>2, <2>3, FlowMoves
    <2>5. QED
      BY <1>1, <1>2, <1>3, <2>2, <2>4 DEF Steps
  <1>7. CASE JoinPump(r)
    <2>1. UNCHANGED <<pump, wire>> /\ pump[r].pc = "ended" /\ Goto(r, "final")
      BY <1>7 DEF JoinPump
    <2>2. StreamStep(r) /\ wire'[r] = wire[r] /\ pump'[r].pc = "ended" /\ req'[r].pc = "final"
      BY <2>1, Quiet, GotoMoves DEF PCs
    <2>3. Flow(r)'
      BY <1>4, <2>2 DEF Flow
    <2>4. QED
      BY <1>1, <1>2, <1>3, <2>2, <2>3 DEF Steps
  <1>8. CASE UNCHANGED <<pump, wire>> /\ ~JoinPump(r)
    <2>1. Flow(r)' /\ StreamStep(r)
      BY <1>1, <1>2, <1>3, <1>8, Quiet, FlowMoves
    <2>2. QED
      BY <1>1, <1>2, <1>3, <2>1 DEF Steps
  <1>9. \/ UNCHANGED <<pump, wire>>
        \/ /\ Goto(r, "engine")
           /\ wire' = [wire EXCEPT ![r] = <<"head">>]
           /\ pump' = [pump EXCEPT ![r].pc = "on"]
        \/ StopPump(r)
    BY DEF SendHead, Register, Generated, Put, JoinPump
  <1>10. QED
    BY <1>5, <1>6, <1>7, <1>8, <1>9
\* The engine is read, the body is made out.
LEMMA ReadMoves ==
  ASSUME RequestsTyped, ServerTyped, NEW r \in Requests, Flow(r),
         ReadEngine(r) \/ Payload(r)
  PROVE  /\ Steps(r)
         /\ ReadEngine(r) =>
              /\ req'[r].pc \in {"failed", "call"} /\ req'[r].engine = server.engine
              /\ req'[r].pc = "call" => server.engine # None
              /\ req'[r].loads = IF load.pc = "idle" THEN load.count ELSE MaxLoads + 1
         /\ Payload(r) =>
              /\ req[r].pc = "payload" /\ req'[r].pc = "put"
              /\ req'[r].label = server.model_id
              /\ req'[r].loads = req[r].loads /\ req'[r].engine = req[r].engine
  <1>1. UNCHANGED <<pump, wire>> /\ req[r].pc \in {"engine", "payload"}
        /\ (Payload(r) => req[r].pc = "payload") /\ (ReadEngine(r) => req[r].pc = "engine")
    BY DEF ReadEngine, Payload, At
  <1>2. PICK U : req \in [Requests -> RequestRecord(U)]
    BY DEF RequestsTyped
  <1>3. req[r] \in RequestRecord(U)
    BY <1>2
  <1>4. CASE ReadEngine(r)
    <2> DEFINE n == IF load.pc = "idle" THEN load.count ELSE MaxLoads + 1
               pc == IF server.engine = None THEN "failed" ELSE "call"
               q == [req[r] EXCEPT !.engine = server.engine, !.loads = n, !.pc = pc]
    <2>1. req' = [req EXCEPT ![r] = q]
      BY <1>4 DEF ReadEngine
    <2>2. n \in Nat /\ server.engine \in Nat
      BY GatewayAssumption DEF ServerTyped
    <2> HIDE DEF n
    <2>3. /\ q \in RequestRecord(U) /\ q.pc \in {"failed", "call"} /\ q.engine = server.engine
          /\ q.loads = n /\ (q.pc = "call" => server.engine # None)
      BY <1>3, <2>2 DEF RequestRecord, PCs
    <2> HIDE DEF q
    <2>4. RequestStep(r) /\ req'[r] = q
      BY <2>1, <2>3, RecordReplaced
    <2>5. QED
      BY <1>1, <1>4, <2>3, <2>4, Quiet, FlowMoves DEF Steps, n
  <1>5. CASE Payload(r)
    <2> DEFINE q == [req[r] EXCEPT !.label = server.model_id, !.pc = "put"]
    <2>1. req' = [req EXCEPT ![r] = q]
      BY <1>5 DEF Payload
    <2>2. server.model_id \in AnyModel
      BY DEF ServerTyped
    <2>3. /\ q \in RequestRecord(U) /\ q.pc = "put" /\ q.label = server.model_id
          /\ q.loads = req[r].loads /\ q.engine = req[r].engine
      BY <1>3, <2>2 DEF RequestRecord, PCs
    <2> HIDE DEF q
    <2>4. RequestStep(r) /\ req'[r] = q
      BY <2>1, <2>3, RecordReplaced
    <2>5. QED
      BY <1>1, <1>5, <2>3, <2>4, Quiet, FlowMoves DEF Steps
  <1>6. QED
    BY <1>4, <1>5

\* Text, and the end of the stream.
LEMMA WritingMoves ==
  ASSUME RequestsTyped, NEW r \in Requests, Flow(r),
         Text(r) \/ FinalChunk(r) \/ SendDone(r)
  PROVE  /\ Steps(r) /\ (Text(r) => UNCHANGED req)
         /\ ~Text(r) => SameButPc(r) /\ req'[r].pc \in {"done", "release"}
  <1>1. wire[r] \in Seq(Said)
    BY DEF RequestsTyped
  <1>2. CASE Text(r)
    <2>1. req[r].pc = "generating" /\ UNCHANGED req /\ Event(r, "text")
      BY <1>2 DEF Text, At
    <2>2. StreamStep(r) /\ (wire'[r] = wire[r] \/ wire'[r] = Append(wire[r], "text"))
      BY <2>1, PumpReplaced, WireExtended DEF Event, Said
    <2>3. Unended(wire'[r]) /\ EndsWell(wire'[r])
      BY <1>1, <2>1, <2>2, WireAppend DEF Flow, Said
    <2>4. Flow(r)'
      BY <2>1, <2>3 DEF Flow
    <2>5. QED
      BY <1>2, <2>1, <2>2, <2>4, Unmoved DEF Steps
  <1>3. CASE FinalChunk(r)
    <2>1. req[r].pc = "final" /\ Goto(r, "done") /\ Event(r, "final")
      BY <1>3 DEF FinalChunk, At
    <2>2. StreamStep(r) /\ (wire'[r] = wire[r] \/ wire'[r] = Append(wire[r], "final"))
      BY <2>1, PumpReplaced, WireExtended DEF Event, Said
    <2>3. pump'[r].pc = "ended"
      <3>1. pump[r].pc = "ended"
        BY <2>1 DEF Flow
      <3>2. UNCHANGED pump \/ pump' = [pump EXCEPT ![r].connected = FALSE]
        BY <2>1 DEF Event
      <3>3. QED
        BY <3>1, <3>2 DEF RequestsTyped
    <2>4. RequestStep(r) /\ SameButPc(r) /\ req'[r].pc = "done"
      BY <2>1, GotoMoves DEF PCs
    <2>5. EndsWell(wire'[r]) /\ \A i \in 1 .. Len(wire'[r]) : wire'[r][i] # "done"
      <3>1. Unended(wire[r])
        BY <2>1 DEF Flow
      <3>2. CASE wire'[r] = wire[r]
        BY <3>1, <3>2 DEF Flow, Unended
      <3>3. CASE wire'[r] = Append(wire[r], "final")
        BY <1>1, <3>1, <3>3, WireAppend DEF Said
      <3>4. QED
        BY <2>2, <3>2, <3>3
    <2>6. Flow(r)'
      BY <2>3, <2>4, <2>5 DEF Flow
    <2>7. QED
      BY <1>3, <2>1, <2>2, <2>4, <2>6 DEF Steps, Text, At
  <1>4. CASE SendDone(r)
    <2>1. req[r].pc = "done" /\ Goto(r, "release") /\ UNCHANGED pump
          /\ (Sends(r, "done") \/ UNCHANGED wire)
      BY <1>4 DEF SendDone, At
    <2>2. StreamStep(r) /\ (wire'[r] = wire[r] \/ wire'[r] = Append(wire[r], "done"))
      BY <2>1, Quiet, WireExtended DEF Said
    <2>3. RequestStep(r) /\ SameButPc(r) /\ req'[r].pc = "release"
      BY <2>1, GotoMoves DEF PCs
    <2>4. EndsWell(wire'[r])
      <3>1. EndsWell(wire[r]) /\ \A i \in 1 .. Len(wire[r]) : wire[r][i] # "done"
        BY <2>1 DEF Flow
      <3>2. QED
        BY <1>1, <2>2, <3>1, WireAppend DEF Said
    <2>5. pump'[r].pc = "ended"
      BY <2>1 DEF Flow
    <2>6. Flow(r)'
      BY <2>3, <2>4, <2>5 DEF Flow
    <2>7. QED
      BY <1>4, <2>1, <2>2, <2>3, <2>6 DEF Steps, Text, At
  <1>5. QED
    BY <1>2, <1>3, <1>4

\* The slot goes back, an error is reported.
LEMMA EndMoves ==
  ASSUME RequestsTyped, NEW r \in Requests, Flow(r), Release(r) \/ SendError(r)
  PROVE  /\ Steps(r)
         /\ \/ req'[r].pc = "ended" /\ req'[r].loads = 0
            \/ req'[r].pc = "error" /\ SameButPc(r)
  <1>1. CASE Release(r)
    <2>1. UNCHANGED <<pump, wire>> /\ req[r].pc \in {"release", "failed"}
          /\ (Ends(r) \/ (req[r].pc = "failed" /\ Goto(r, "error")))
      BY <1>1 DEF Release, At
    <2>2. /\ RequestStep(r)
          /\ \/ req'[r].pc = "ended" /\ req'[r].loads = 0
             \/ req'[r].pc = "error" /\ SameButPc(r) /\ req[r].pc = "failed"
      BY <2>1, EndsMoves, GotoMoves DEF PCs
    <2>3. QED
      BY <2>1, <2>2, Quiet, FlowMoves DEF Steps
  <1>2. CASE SendError(r)
    <2>1. req[r].pc = "error" /\ Ends(r) /\ Sends(r, "error") /\ UNCHANGED pump
      BY <1>2 DEF SendError, At
    <2>2. StreamStep(r) /\ wire'[r] = Append(wire[r], "error")
      BY <2>1, WireExtended DEF Said
    <2>3. RequestStep(r) /\ req'[r].pc = "ended" /\ req'[r].loads = 0
      BY <2>1, EndsMoves
    <2>4. Unended(wire[r]) /\ wire[r] \in Seq(Said)
      BY <2>1 DEF Flow, RequestsTyped
    <2>5. Unended(wire'[r]) /\ EndsWell(wire'[r])
      BY <2>2, <2>4, WireAppend DEF Said
    <2>6. Flow(r)'
      BY <2>3, <2>5 DEF Flow
    <2>7. QED
      BY <2>2, <2>3, <2>6 DEF Steps
  <1>3. QED
    BY <1>1, <1>2
\* The pump of r, and its client.
LEMMA OtherMoves ==
  ASSUME RequestsTyped, NEW r \in Requests, Flow(r), Others(r)
  PROVE  Steps(r) /\ SameButPc(r) /\ req'[r].pc = req[r].pc
  <1>1. CASE PumpWakes(r)
    <2>1. UNCHANGED <<req, wire>> /\ pump[r].pc = "on"
          /\ (pump' = [pump EXCEPT ![r].pc = "ended"] \/ pump' = [pump EXCEPT ![r].pc = "ping"])
      BY <1>1 DEF PumpWakes
    <2>2. StreamStep(r) /\ wire'[r] = wire[r]
      BY <2>1, PumpReplaced
    <2>3. Unended(wire[r]) /\ req[r].pc \notin {"final", "done"}
      BY <2>1 DEF Flow
    <2>4. Flow(r)'
      BY <2>1, <2>2, <2>3 DEF Flow
    <2>5. QED
      BY <2>1, <2>2, <2>4, Unmoved DEF Steps, SameButPc
  <1>2. CASE PumpPings(r)
    <2>1. /\ UNCHANGED req /\ pump[r].pc = "ping"
          /\ \/ Sends(r, "ping") /\ pump' = [pump EXCEPT ![r].pc = "on"]
             \/ UNCHANGED wire /\ pump' = [pump EXCEPT ![r].pc = "on", ![r].connected = FALSE]
      BY <1>2 DEF PumpPings
    <2>2. StreamStep(r) /\ (wire'[r] = wire[r] \/ wire'[r] = Append(wire[r], "ping"))
      BY <2>1, PumpReplaced, WireExtended DEF Said
    <2>3. Unended(wire[r]) /\ req[r].pc \notin {"final", "done"} /\ wire[r] \in Seq(Said)
      BY <2>1 DEF Flow, RequestsTyped
    <2>4. Unended(wire'[r]) /\ EndsWell(wire'[r])
      <3>1. CASE wire'[r] = wire[r]
        BY <2>3, <3>1 DEF Flow
      <3>2. CASE wire'[r] = Append(wire[r], "ping")
        BY <2>3, <3>2, WireAppend DEF Said
      <3>3. QED
        BY <2>2, <3>1, <3>2
    <2>5. Flow(r)'
      BY <2>1, <2>3, <2>4 DEF Flow
    <2>6. QED
      BY <2>1, <2>2, <2>5, Unmoved DEF Steps, SameButPc
  <1>3. CASE HangUp(r)
    <2> DEFINE q == [req[r] EXCEPT !.gone = TRUE]
    <2>1. req' = [req EXCEPT ![r] = q] /\ UNCHANGED <<pump, wire>>
      BY <1>3 DEF HangUp
    <2>2. PICK U : req \in [Requests -> RequestRecord(U)]
      BY DEF RequestsTyped
    <2>3. req[r] \in RequestRecord(U)
      BY <2>2
    <2>4. q \in RequestRecord(U) /\ q.pc = req[r].pc /\ q.loads = req[r].loads
          /\ q.engine = req[r].engine /\ q.label = req[r].label
      BY <2>3 DEF RequestRecord
    <2> HIDE DEF q
    <2>5. RequestStep(r) /\ req'[r] = q
      BY <2>1, <2>4, RecordReplaced
    <2>6. StreamStep(r) /\ pump'[r] = pump[r] /\ wire'[r] = wire[r]
      BY <2>1, Quiet
    <2>7. Flow(r)'
      BY <2>4, <2>5, <2>6 DEF Flow
    <2>8. QED
      BY <2>4, <2>5, <2>6, <2>7 DEF Steps, SameButPc
  <1>4. QED
    BY <1>1, <1>2, <1>3 DEF Others, Pump

-----------------------------------------------------------------------------
(* What is filed.                                                            *)

\* A request that has read the engine when no load was under way, and seen none
\* begin: what it read is what the server has.
Calm(q) == q.loads = load.count
Held(r) ==
    /\ req[r].loads <= load.count \/ req[r].loads = MaxLoads + 1
    /\ req[r].pc \in {"call", "generating", "payload", "put"} /\ Calm(req[r]) =>
         load.pc = "idle" /\ server.engine # None /\ req[r].engine = server.engine
    /\ req[r].pc = "put" /\ Calm(req[r]) => req[r].label = server.model_id
RequestsInv == RequestsTyped /\ \A r \in Requests : Flow(r) /\ Held(r)

\* A step of another request is none of its business.
LEMMA Undisturbed ==
  ASSUME RequestsTyped, NEW o \in Requests, Flow(o), Held(o), req'[o] = req[o],
         pump'[o] = pump[o], wire'[o] = wire[o], UNCHANGED ServerVars
  PROVE  Flow(o)' /\ Held(o)'
  <1>1. Flow(o)'
    BY DEF Flow
  <1>2. Held(o)'
    BY DEF Held, Calm, ServerVars
  <1>3. QED
    BY <1>1, <1>2

LEMMA OwnStep ==
  ASSUME LoadInv, RequestsInv, NEW r \in Requests, HandlerOf(r) \/ Others(r)
  PROVE  Steps(r) /\ Held(r)'
  <1>1. ServerTyped /\ DoorsTyped /\ RequestsTyped /\ Flow(r) /\ Held(r)
    BY DEF LoadInv, RequestsInv
  <1>2. UNCHANGED ServerVars
    BY <1>1, RequestsKeepDoors
  <1>3. load.count \in Nat /\ load.count <= MaxLoads /\ MaxLoads \in Nat
    BY <1>1, GatewayAssumption DEF ServerTyped
  <1>4. ASSUME req'[r].pc = "ended", req'[r].loads = 0
        PROVE  Held(r)'
    BY <1>2, <1>3, <1>4 DEF Held, ServerVars
  <1>5. ASSUME SameButPc(r), req'[r].pc \notin {"call", "generating", "payload", "put"}
        PROVE  Held(r)'
    BY <1>1, <1>2, <1>5 DEF Held, SameButPc, ServerVars, Calm
  <1>6. CASE CheckModel(r)
    BY <1>1, <1>4, <1>5, <1>6, CheckModelMoves
  <1>7. CASE ReadBackend(r) \/ LookUp(r) \/ Admit(r) \/ Granted(r) \/ TurnedAway(r)
              \/ TimesOut(r)
    BY <1>1, <1>4, <1>5, <1>7, EarlyMoves
  <1>8. CASE SendHead(r) \/ Register(r) \/ Generated(r) \/ Put(r) \/ StopPump(r) \/ JoinPump(r)
    <2>1. Steps(r) /\ SameButPc(r)
          /\ req'[r].pc \in {"engine", "release", "generating", "failed", "stop", "payload",
                            "join", "final"}
          /\ (req'[r].pc \in {"generating", "payload"} => req[r].pc \in {"call", "generating"})
      BY <1>1, <1>8, ServingMoves
    <2>2. Held(r)'
      BY <1>1, <1>2, <2>1 DEF Held, SameButPc, ServerVars, Calm
    <2>3. QED
      BY <2>1, <2>2
  <1>9. CASE ReadEngine(r)
    <2>1. Steps(r) /\ req'[r].pc \in {"failed", "call"} /\ req'[r].engine = server.engine
          /\ (req'[r].pc = "call" => server.engine # None)
          /\ req'[r].loads = IF load.pc = "idle" THEN load.count ELSE MaxLoads + 1
      BY <1>1, <1>9, ReadMoves
    <2>2. Held(r)'
      BY <1>2, <1>3, <2>1 DEF Held, ServerVars, Calm
    <2>3. QED
      BY <2>1, <2>2
  <1>10. CASE Payload(r)
    <2>1. Steps(r) /\ req[r].pc = "payload" /\ req'[r].pc = "put"
          /\ req'[r].label = server.model_id
          /\ req'[r].loads = req[r].loads /\ req'[r].engine = req[r].engine
      BY <1>1, <1>10, ReadMoves
    <2>2. Held(r)'
      BY <1>1, <1>2, <2>1 DEF Held, ServerVars, Calm
    <2>3. QED
      BY <2>1, <2>2
  <1>11. CASE Text(r)
    <2>1. Steps(r) /\ UNCHANGED req
      BY <1>1, <1>11, WritingMoves
    <2>2. Held(r)'
      BY <1>1, <1>2, <2>1 DEF Held, ServerVars, Calm
    <2>3. QED
      BY <2>1, <2>2
  <1>12. CASE (FinalChunk(r) \/ SendDone(r)) /\ ~Text(r)
    BY <1>1, <1>5, <1>12, WritingMoves
  <1>13. CASE Release(r) \/ SendError(r)
    BY <1>1, <1>4, <1>5, <1>13, EndMoves
  <1>14. CASE Others(r)
    <2>1. Steps(r) /\ SameButPc(r) /\ req'[r].pc = req[r].pc
      BY <1>1, <1>14, OtherMoves
    <2>2. Held(r)'
      BY <1>1, <1>2, <2>1 DEF Held, SameButPc, ServerVars, Calm
    <2>3. QED
      BY <2>1, <2>2
  <1>15. QED
    BY <1>6, <1>7, <1>8, <1>9, <1>10, <1>11, <1>12, <1>13, <1>14 DEF HandlerOf, Handler

LEMMA RequestsInvRequest ==
  ASSUME LoadInv, RequestsInv, NEW r \in Requests, HandlerOf(r) \/ Others(r)
  PROVE  RequestsInv'
  <1>1. Steps(r) /\ Held(r)'
    BY OwnStep
  <1>2. UNCHANGED ServerVars
    BY RequestsKeepDoors DEF LoadInv
  <1>3. RequestsTyped'
    BY <1>1 DEF Steps, RequestStep, StreamStep, RequestsTyped
  <1>4. ASSUME NEW o \in Requests \ {r}
        PROVE  Flow(o)' /\ Held(o)'
    BY <1>1, <1>2, Undisturbed DEF Steps, RequestStep, StreamStep, RequestsInv
  <1>5. QED
    BY <1>1, <1>3, <1>4 DEF RequestsInv, Steps

\* A load that begins ends every request's calm; later steps find none calm.
LEMMA RequestsInvLoad ==
  ASSUME LoadInv, RequestsInv, Load \/ EngineDies
  PROVE  RequestsInv'
  <1>1. UNCHANGED <<req, pump, wire, cache>>
    BY DEF Load, EngineDies, BeginLoad, CloseEngine, DropEngine, DropBackend, CloseScheduler,
           NewScheduler, NameModel, Spawn, SpawnFails, Unload, Announce, LoadVars
  <1>2. load.count \in Nat /\ load.count <= MaxLoads /\ MaxLoads \in Nat /\ ServerTyped
    BY GatewayAssumption DEF LoadInv, ServerTyped
  <1>3. \/ UNCHANGED <<load, server>>
        \/ load.pc = "idle" /\ UNCHANGED server /\ load'.count = load.count + 1
             /\ load.count < MaxLoads
        \/ load.pc # "idle" /\ load'.count = load.count
    <2>1. CASE EngineDies
      BY <2>1 DEF EngineDies
    <2>2. CASE BeginLoad
      BY <2>2 DEF BeginLoad
    <2>3. CASE Load /\ ~BeginLoad
      <3>1. load.pc # "idle"
            /\ (LoadEnds \/ \E p \in LoadPCs : Then(p))
        BY <2>3
           DEF Load, CloseEngine, DropEngine, DropBackend, CloseScheduler, NewScheduler,
               NameModel, Spawn, SpawnFails, Unload, Announce, LoadPCs
      <3>2. CASE LoadEnds
        BY <1>2, <3>1, <3>2, LoadMoves DEF LoadPCs
      <3>3. ASSUME NEW p \in LoadPCs, Then(p)
            PROVE  load'.count = load.count
        BY <1>2, <3>3, LoadMoves
      <3>4. QED
        BY <3>1, <3>2, <3>3
    <2>4. QED
      BY <2>1, <2>2, <2>3
  <1>4. ASSUME NEW r \in Requests
        PROVE  Flow(r)' /\ Held(r)'
    <2>1. Flow(r) /\ Held(r)
      BY DEF RequestsInv
    <2>2. Flow(r)'
      BY <1>1, <2>1 DEF Flow
    <2>3. req[r].loads \in Nat
      <3>1. PICK U : req \in [Requests -> RequestRecord(U)]
        BY DEF RequestsInv, RequestsTyped
      <3>2. QED
        BY <3>1 DEF RequestRecord
    <2>4. Held(r)'
      BY <1>1, <1>2, <1>3, <2>1, <2>3 DEF Held, Calm
    <2>5. QED
      BY <2>2, <2>4
  <1>5. RequestsTyped'
    BY <1>1 DEF RequestsInv, RequestsTyped
  <1>6. QED
    BY <1>4, <1>5 DEF RequestsInv

LEMMA RequestsInvStart == Init => RequestsInv
  <1> SUFFICES ASSUME Init PROVE RequestsInv
    OBVIOUS
  <1> DEFINE U == {None}
  <1>1. NewRequest \in RequestRecord(U) /\ NewRequest.pc = "new" /\ NewRequest.loads = 0
    BY DEF NewRequest, RequestRecord, PCs, AnyModel, None
  <1>2. req \in [Requests -> RequestRecord(U)] /\ \A r \in Requests : req[r] = NewRequest
    BY <1>1 DEF Init
  <1>3. /\ pump \in [Requests -> [pc : {"none", "on", "ping", "ended"}, stop : BOOLEAN,
                                  connected : BOOLEAN]]
        /\ wire \in [Requests -> Seq(Said)] /\ \A r \in Requests : wire[r] = <<>>
    BY DEF Init
  <1>4. RequestsTyped
    BY <1>2, <1>3 DEF RequestsTyped
  <1>5. ASSUME NEW r \in Requests PROVE Flow(r) /\ Held(r)
    <2>1. Len(wire[r]) = 0
      BY <1>3
    <2>2. Unended(wire[r]) /\ EndsWell(wire[r])
      BY <2>1 DEF Unended, EndsWell
    <2>3. load.count = 0
      BY DEF Init
    <2>4. QED
      BY <1>1, <1>2, <2>2, <2>3 DEF Flow, Held
  <1>6. QED
    BY <1>4, <1>5 DEF RequestsInv

LEMMA RequestsInvStep == LoadInv /\ RequestsInv /\ [Next]_vars => RequestsInv'
  <1> SUFFICES ASSUME LoadInv, RequestsInv, [Next]_vars
               PROVE  RequestsInv'
    OBVIOUS
  <1>1. CASE Load \/ EngineDies
    BY <1>1, RequestsInvLoad
  <1>2. ASSUME NEW r \in Requests,
               CheckModel(r) \/ Handler(r) \/ TimesOut(r) \/ Pump(r) \/ HangUp(r)
        PROVE  RequestsInv'
    BY <1>2, RequestsInvRequest DEF HandlerOf, Others
  <1>3. CASE UNCHANGED vars
    BY <1>3 DEF vars, RequestsInv, RequestsTyped, Flow, Held, Calm
  <1>4. QED
    BY <1>1, <1>2, <1>3 DEF Next

\* No keep-alive comes between the final chunk of a stream and its [DONE], or
\* after it, for any number of streams, pings and hang-ups.
THEOREM StreamsEndWithDone == Spec => []EndsWithDone
  <1>1. RequestsInv => EndsWithDone
    BY DEF RequestsInv, Flow, EndsWell, EndsWithDone
  <1>2. QED
    BY <1>1, LoadInvStart, LoadInvStep, RequestsInvStart, RequestsInvStep, PTL DEF Spec

\* What is put is what the server's engine made under the server's name.
LEMMA PutIsTrue ==
  ASSUME LoadInv, RequestsInv, NEW r \in Requests, Put(r), Calm(req[r])
  PROVE  engines[req[r].engine].model = server.model_id /\ req[r].label = server.model_id
  <1>1. req[r].pc = "put" /\ Held(r)
    BY DEF Put, At, RequestsInv
  <1>2. load.pc = "idle" /\ server.engine # None /\ req[r].engine = server.engine
        /\ req[r].label = server.model_id
    BY <1>1 DEF Held
  <1>3. QED
    BY <1>2 DEF LoadInv, LoadPhase

LEMMA CacheStep == LoadInv /\ RequestsInv /\ CacheFiled /\ [Next]_vars => CacheFiled'
  <1> SUFFICES ASSUME LoadInv, RequestsInv, CacheFiled, [Next]_vars
               PROVE  CacheFiled'
    OBVIOUS
  <1>1. CASE UNCHANGED cache
    BY <1>1 DEF CacheFiled
  <1>2. ASSUME NEW r \in Requests, Put(r) PROVE CacheFiled'
    <2>1. cache' = [cache EXCEPT ![server.model_id] = {Entry(r)}]
      BY <1>2 DEF Put
    <2>2. Entry(r).calm =>
            Entry(r).made = server.model_id /\ Entry(r).label = server.model_id
      BY <1>2, PutIsTrue DEF Entry, Calm
    <2> DEFINE e == Entry(r)
    <2>3. e.calm => e.made = server.model_id /\ e.label = server.model_id
      BY <2>2
    <2>4. cache' = [cache EXCEPT ![server.model_id] = {e}]
      BY <2>1
    <2> HIDE DEF e
    <2>5. ASSUME NEW m \in DOMAIN cache', NEW entry \in cache'[m], entry.calm
          PROVE  entry.made = m /\ entry.label = m
      <3>1. DOMAIN cache' = DOMAIN cache
        BY <2>4
      <3>2. CASE m = server.model_id
        BY <2>3, <2>4, <2>5, <3>1, <3>2
      <3>3. CASE m # server.model_id
        BY <2>4, <2>5, <3>1, <3>3 DEF CacheFiled
      <3>4. QED
        BY <3>2, <3>3
    <2>6. QED
      BY <2>5 DEF CacheFiled
  <1>3. UNCHANGED cache \/ \E r \in Requests : Put(r)
    <2>1. CASE Load \/ EngineDies
      BY <2>1
         DEF Load, EngineDies, BeginLoad, CloseEngine, DropEngine, DropBackend, CloseScheduler,
             NewScheduler, NameModel, Spawn, SpawnFails, Unload, Announce, LoadVars
    <2>2. ASSUME NEW r \in Requests, HandlerOf(r) \/ Others(r), ~Put(r)
          PROVE  UNCHANGED cache
      <3>1. CASE CheckModel(r) \/ ReadBackend(r) \/ LookUp(r) \/ Admit(r) \/ Granted(r)
                  \/ TurnedAway(r) \/ TimesOut(r) \/ SendHead(r) \/ ReadEngine(r)
        BY <3>1 DEF CheckModel, ReadBackend, LookUp, Admit, Granted, TurnedAway, TimesOut,
                    GivesUp, SendHead, ReadEngine
      <3>2. CASE Register(r) \/ Text(r) \/ Generated(r) \/ Payload(r) \/ StopPump(r)
                  \/ JoinPump(r) \/ FinalChunk(r) \/ SendDone(r) \/ Release(r) \/ SendError(r)
        BY <3>2 DEF Register, Text, Generated, Payload, StopPump, JoinPump, FinalChunk,
                    SendDone, Release, SendError
      <3>3. CASE Others(r)
        BY <3>3 DEF Others, Pump, PumpWakes, PumpPings, HangUp
      <3>4. QED
        BY <2>2, <3>1, <3>2, <3>3 DEF HandlerOf, Handler
    <2>3. QED
      BY <2>1, <2>2 DEF Next, vars, HandlerOf, Others
  <1>4. QED
    BY <1>1, <1>2, <1>3

\* What the cache files under a model was generated by it and says so, unless a
\* load overlapped, for any number of models, loads and requests.
THEOREM CacheAlwaysFiled == Spec => []CacheFiled
  <1>1. Init => CacheFiled
    BY DEF Init, CacheFiled
  <1>2. QED
    BY <1>1, LoadInvStart, LoadInvStep, RequestsInvStart, RequestsInvStep, CacheStep, PTL
       DEF Spec

Less == {p \in Nat \X Nat : p[1] < p[2]}

\* Every set of naturals that is not empty has a least element.
LEMMA LeastElement ==
    ASSUME NEW T, T \subseteq Nat, T # {}
    PROVE  \E x \in T : \A y \in T : x <= y
  <1>1. IsWellFoundedOn(Less, Nat)
    BY NatLessThanWellFounded DEF Less, OpToRel
  <1>2. PICK x \in T : \A y \in T : ~ (<<y, x>> \in Less)
    BY <1>1, WFMin
  <1>3. ASSUME NEW y \in Nat, NEW z \in Nat, y < z PROVE <<y, z>> \in Less
    <2>1. <<y, z>> \in Nat \X Nat /\ <<y, z>>[1] < <<y, z>>[2]
      BY <1>3
    <2> QED BY <2>1 DEF Less
  <1>4. ASSUME NEW y \in T PROVE x <= y
    <2>1. ~ (<<y, x>> \in Less)
      BY <1>2
    <2>2. ~ (y < x)
      BY <1>3, <2>1
    <2>3. x \in Nat /\ y \in Nat
      OBVIOUS
    <2> QED BY <2>2, <2>3
  <1> QED BY <1>4

\* A set that holds 0 and the successor of what it holds is all of Nat.
LEMMA Ascend ==
    ASSUME NEW S, 0 \in S, \A k \in Nat : k \in S => k + 1 \in S
    PROVE  \A n \in Nat : n \in S
  <1> SUFFICES ASSUME Nat \ S # {} PROVE FALSE
    OBVIOUS
  <1>1. PICK m \in Nat \ S : \A y \in Nat \ S : m <= y
    <2>1. Nat \ S \subseteq Nat
      OBVIOUS
    <2> QED BY <2>1, LeastElement
  <1>2. m - 1 \in Nat /\ (m - 1) + 1 = m
    BY <1>1
  <1>3. m - 1 \in S
    BY <1>1, <1>2
  <1> QED BY <1>1, <1>2, <1>3

----------------------------------------------------------------------------
(* Markers in a text.                                                       *)

LEMMA TwoOrThree ==
    ASSUME NEW a, NEW b, NEW c, NEW t, t = <<a, b>> \/ t = <<a, b, c>>
    PROVE  Len(t) \in {2, 3} /\ t = [k \in 1 .. Len(t) |-> t[k]] /\ t[1] = a
  <1>1. CASE t = <<a, b>>
    BY <1>1
  <1>2. CASE t = <<a, b, c>>
    BY <1>2
  <1> QED BY <1>1, <1>2

\* Two markers begin differently.
LEMMA MarkerIs ==
    ASSUME NEW m \in Markers
    PROVE  /\ Symbols(m) \in {2, 3} /\ Marker(m) = [k \in 1 .. Symbols(m) |-> Marker(m)[k]]
           /\ \A o \in Markers : o # m => Marker(o)[1] # Marker(m)[1]
  <1>1. ASSUME NEW o \in Markers
        PROVE  \/ o = "<tool_call>"  /\ Marker(o) = <<"<tool_", "call>">>
               \/ o = "</tool_call>" /\ Marker(o) = <<"</to", "ol_c", "all>">>
               \/ o = "<think>"      /\ Marker(o) = <<"<th", "ink>">>
               \/ o = "</think>"     /\ Marker(o) = <<"</thi", "nk>">>
               \/ o = "<arg_key>"    /\ Marker(o) = <<"<arg_", "key>">>
               \/ o = "</arg_key>"   /\ Marker(o) = <<"</arg_k", "ey>">>
               \/ o = "<arg_value>"  /\ Marker(o) = <<"<arg_va", "lue>">>
               \/ o = "</arg_value>" /\ Marker(o) = <<"</ar", "g_val", "ue>">>
    BY DEF Markers, Marker
  <1>2. ASSUME NEW o \in Markers
        PROVE  /\ Len(Marker(o)) \in {2, 3}
               /\ Marker(o) = [k \in 1 .. Len(Marker(o)) |-> Marker(o)[k]]
               /\ \/ o = "<tool_call>"  /\ Marker(o)[1] = "<tool_"
                  \/ o = "</tool_call>" /\ Marker(o)[1] = "</to"
                  \/ o = "<think>"      /\ Marker(o)[1] = "<th"
                  \/ o = "</think>"     /\ Marker(o)[1] = "</thi"
                  \/ o = "<arg_key>"    /\ Marker(o)[1] = "<arg_"
                  \/ o = "</arg_key>"   /\ Marker(o)[1] = "</arg_k"
                  \/ o = "<arg_value>"  /\ Marker(o)[1] = "<arg_va"
                  \/ o = "</arg_value>" /\ Marker(o)[1] = "</ar"
    BY <1>1, TwoOrThree
  <1>3. ASSUME NEW o \in Markers, o # m PROVE Marker(o)[1] # Marker(m)[1]
    BY <1>2, <1>3
  <1> QED BY <1>2, <1>3 DEF Symbols

\* The symbols of m stand in buf from i on.
Stands(buf, m, i) == \A k \in 1 .. Symbols(m) : buf[i + k - 1] = Marker(m)[k]

LEMMA PlacesAre ==
    ASSUME NEW S, NEW buf \in Seq(S), NEW m \in Markers, NEW i \in Int
    PROVE  i \in Places(buf, m) <=> 1 <= i /\ i + Symbols(m) <= Len(buf) + 1 /\ Stands(buf, m, i)
  <1> DEFINE n == Symbols(m)
  <1>1. n \in {2, 3} /\ Marker(m) = [k \in 1 .. n |-> Marker(m)[k]]
    BY MarkerIs
  <1> HIDE DEF n
  <1>2. i \in Places(buf, m) <=>
          i \in 1 .. Len(buf) + 1 - n /\ SubSeq(buf, i, i + n - 1) = Marker(m)
    BY DEF Places, n
  <1>3. ASSUME 1 <= i, i + n <= Len(buf) + 1
        PROVE  SubSeq(buf, i, i + n - 1) = Marker(m) <=> Stands(buf, m, i)
    <2>1. SubSeq(buf, i, i + n - 1) = [k \in 1 .. n |-> buf[i + k - 1]]
      BY <1>1, <1>3
    <2> QED BY <1>1, <2>1 DEF Stands, n
  <1>4. Len(buf) \in Nat
    OBVIOUS
  <1>5. i \in 1 .. Len(buf) + 1 - n <=> 1 <= i /\ i + n <= Len(buf) + 1
    BY <1>1, <1>4
  <1> QED BY <1>2, <1>3, <1>5 DEF n

\* What stands in a text stands there still when more is read.
LEMMA PlacesOfMore ==
    ASSUME NEW S, NEW buf \in Seq(S), NEW more \in Seq(S), NEW m \in Markers, NEW i \in Int
    PROVE  i \in Places(buf, m) <=> i \in Places(buf \o more, m) /\ i + Symbols(m) <= Len(buf) + 1
  <1> DEFINE all == buf \o more
  <1>1. all \in Seq(S) /\ Len(all) = Len(buf) + Len(more) /\ Len(buf) \in Nat /\ Len(more) \in Nat
        /\ \A j \in 1 .. Len(buf) : all[j] = buf[j]
    OBVIOUS
  <1>2. Symbols(m) \in {2, 3}
    BY MarkerIs
  <1> HIDE DEF all
  <1>3. ASSUME 1 <= i, i + Symbols(m) <= Len(buf) + 1
        PROVE  Stands(buf, m, i) <=> Stands(all, m, i)
    <2>1. \A k \in 1 .. Symbols(m) : i + k - 1 \in 1 .. Len(buf)
      BY <1>1, <1>2, <1>3
    <2> QED BY <1>1, <2>1 DEF Stands
  <1>4. i \in Places(buf, m) <=> 1 <= i /\ i + Symbols(m) <= Len(buf) + 1 /\ Stands(buf, m, i)
    BY PlacesAre
  <1>5. i \in Places(all, m) <=> 1 <= i /\ i + Symbols(m) <= Len(all) + 1 /\ Stands(all, m, i)
    BY <1>1, PlacesAre
  <1>6. i + Symbols(m) <= Len(buf) + 1 => i + Symbols(m) <= Len(all) + 1
    BY <1>1, <1>2
  <1> QED BY <1>3, <1>4, <1>5, <1>6 DEF all

\* What is left of a text when its first n symbols have gone out.
Dropped(buf, n) == SubSeq(buf, n + 1, Len(buf))

LEMMA DroppedIs ==
    ASSUME NEW S, NEW buf \in Seq(S), NEW n \in 0 .. Len(buf)
    PROVE  /\ Dropped(buf, n) \in Seq(S) /\ Len(Dropped(buf, n)) = Len(buf) - n
           /\ \A i \in 1 .. Len(buf) - n : Dropped(buf, n)[i] = buf[i + n]
  <1>1. Len(buf) \in Nat
    OBVIOUS
  <1>2. SubSeq(buf, n + 1, Len(buf)) = [i \in 1 .. Len(buf) - n |-> buf[i + n]]
    BY <1>1
  <1>3. \A i \in 1 .. Len(buf) - n : buf[i + n] \in S
    BY <1>1
  <1> QED BY <1>1, <1>2, <1>3 DEF Dropped

LEMMA PlacesOfDropped ==
    ASSUME NEW S, NEW buf \in Seq(S), NEW n \in 0 .. Len(buf), NEW m \in Markers, NEW i \in Int, 1 <= i
    PROVE  i \in Places(Dropped(buf, n), m) <=> i + n \in Places(buf, m)
  <1> DEFINE rest == Dropped(buf, n)
  <1>1. /\ rest \in Seq(S) /\ Len(rest) = Len(buf) - n /\ Len(buf) \in Nat
        /\ \A j \in 1 .. Len(buf) - n : rest[j] = buf[j + n]
    <2>1. Len(buf) \in Nat
      OBVIOUS
    <2> HIDE DEF rest
    <2>2. /\ rest \in Seq(S) /\ Len(rest) = Len(buf) - n
          /\ \A j \in 1 .. Len(buf) - n : rest[j] = buf[j + n]
      BY DroppedIs, Zenon DEF rest
    <2> QED BY <2>1, <2>2
  <1> HIDE DEF rest
  <1>2. Symbols(m) \in {2, 3}
    BY MarkerIs
  <1>3. ASSUME i + Symbols(m) <= Len(rest) + 1
        PROVE  Stands(rest, m, i) <=> Stands(buf, m, i + n)
    <2>1. \A k \in 1 .. Symbols(m) : i + k - 1 \in 1 .. Len(buf) - n /\ (i + k - 1) + n = (i + n) + k - 1
      BY <1>1, <1>2, <1>3
    <2>2. \A k \in 1 .. Symbols(m) : rest[i + k - 1] = buf[(i + n) + k - 1]
      BY <1>1, <2>1
    <2> QED BY <2>2 DEF Stands
  <1>4. i \in Places(rest, m) <=> 1 <= i /\ i + Symbols(m) <= Len(rest) + 1 /\ Stands(rest, m, i)
    BY <1>1, PlacesAre
  <1>5. i + n \in Places(buf, m) <=>
           1 <= i + n /\ (i + n) + Symbols(m) <= Len(buf) + 1 /\ Stands(buf, m, i + n)
    BY PlacesAre
  <1>6. i + Symbols(m) <= Len(rest) + 1 <=> (i + n) + Symbols(m) <= Len(buf) + 1
    BY <1>1, <1>2
  <1> QED BY <1>3, <1>4, <1>5, <1>6 DEF rest

\* Find is the first of the places.
LEMMA FindIs ==
    ASSUME NEW S, NEW buf \in Seq(S), NEW m \in Markers
    PROVE  /\ Occurs(buf, m) => /\ Find(buf, m) \in Places(buf, m)
                                /\ \A j \in Places(buf, m) : Find(buf, m) <= j
           /\ \A i \in Places(buf, m) : (\A j \in Places(buf, m) : i <= j) => i = Find(buf, m)
           /\ Places(buf, m) \subseteq Nat
  <1> DEFINE P == Places(buf, m)
  <1>1. P \subseteq Nat
    BY DEF Places
  <1> HIDE DEF P
  <1>2. ASSUME P # {} PROVE \E i \in P : \A j \in P : i <= j
    BY <1>1, <1>2, LeastElement
  <1>3. Find(buf, m) = CHOOSE i \in P : \A j \in P : i <= j
    BY Zenon DEF Find, P
  <1>4. P # {} => Find(buf, m) \in P /\ \A j \in P : Find(buf, m) <= j
    BY <1>2, <1>3
  <1>5. ASSUME NEW i \in P, \A j \in P : i <= j PROVE i = Find(buf, m)
    <2>1. PICK f : f = Find(buf, m)
      OBVIOUS
    <2>2. f \in P /\ f <= i /\ i <= f
      BY <1>4, <1>5, <2>1
    <2>3. f \in Nat /\ i \in Nat
      BY <1>1, <2>2
    <2>4. i = f
      BY <2>2, <2>3
    <2> QED BY <2>1, <2>4
  <1> QED BY <1>1, <1>4, <1>5 DEF P, Occurs

\* m is the first of the markers M to stand in buf; none of them stands there.
Leads(buf, M, m) == /\ m \in M /\ Occurs(buf, m)
                    /\ \A o \in M : o # m /\ Occurs(buf, o) => Find(buf, m) < Find(buf, o)
Absent(buf, M) == \A m \in M : ~Occurs(buf, m)

\* Two markers never stand at one place.
LEMMA PlacesDiffer ==
    ASSUME NEW S, NEW buf \in Seq(S), NEW m \in Markers, NEW o \in Markers, m # o,
           NEW i \in Places(buf, m), NEW j \in Places(buf, o)
    PROVE  i # j
  <1> SUFFICES ASSUME i = j PROVE FALSE
    OBVIOUS
  <1>1. i \in Nat
    BY FindIs
  <1>2. Stands(buf, m, i) /\ Stands(buf, o, i)
    BY <1>1, PlacesAre
  <1>3. 1 \in 1 .. Symbols(m) /\ 1 \in 1 .. Symbols(o)
    BY MarkerIs
  <1>4. buf[i + 1 - 1] = Marker(m)[1] /\ buf[i + 1 - 1] = Marker(o)[1]
    BY <1>2, <1>3 DEF Stands
  <1> QED BY <1>4, MarkerIs

\* Where a state looks for two markers, the code asks which comes first.
LEMMA OneOrOther ==
    ASSUME NEW S, NEW buf \in Seq(S), NEW a \in Markers, NEW b \in Markers, a # b
    PROVE  /\ First(buf, a, b) => Leads(buf, {a, b}, a)
           /\ ~First(buf, a, b) /\ Occurs(buf, b) => Leads(buf, {a, b}, b)
           /\ ~First(buf, a, b) /\ ~Occurs(buf, b) => Absent(buf, {a, b})
           /\ Leads(buf, {a, b}, a) => First(buf, a, b)
           /\ Leads(buf, {a, b}, b) => ~First(buf, a, b) /\ Occurs(buf, b)
           /\ Absent(buf, {a, b}) => ~First(buf, a, b) /\ ~Occurs(buf, b)
  <1>1. ASSUME Occurs(buf, a), Occurs(buf, b)
        PROVE  Find(buf, a) \in Nat /\ Find(buf, b) \in Nat /\ Find(buf, a) # Find(buf, b)
    BY <1>1, FindIs, PlacesDiffer
  <1>2. First(buf, a, b) <=> Occurs(buf, a) /\ (Occurs(buf, b) => Find(buf, a) < Find(buf, b))
    BY DEF First
  <1>3. /\ Leads(buf, {a, b}, a) <=> Occurs(buf, a) /\ (Occurs(buf, b) => Find(buf, a) < Find(buf, b))
        /\ Leads(buf, {a, b}, b) <=> Occurs(buf, b) /\ (Occurs(buf, a) => Find(buf, b) < Find(buf, a))
        /\ Absent(buf, {a, b}) <=> ~Occurs(buf, a) /\ ~Occurs(buf, b)
    BY DEF Leads, Absent
  <1> QED BY <1>1, <1>2, <1>3

LEMMA OnlyOne ==
    ASSUME NEW buf, NEW a
    PROVE  /\ Occurs(buf, a) <=> Leads(buf, {a}, a)
           /\ ~Occurs(buf, a) <=> Absent(buf, {a})
  BY DEF Leads, Absent

\* Find, Before and After at a known place.
LEMMA AtPlace ==
    ASSUME NEW S, NEW buf \in Seq(S), NEW m \in Markers, Occurs(buf, m)
    PROVE  /\ Find(buf, m) \in Nat /\ 1 <= Find(buf, m) /\ Find(buf, m) + Symbols(m) <= Len(buf) + 1
           /\ Before(buf, m) = SubSeq(buf, 1, Find(buf, m) - 1) /\ Before(buf, m) \in Seq(S)
           /\ After(buf, m) = Dropped(buf, Find(buf, m) + Symbols(m) - 1) /\ After(buf, m) \in Seq(S)
           /\ Len(After(buf, m)) < Len(buf)
  <1>1. PICK f : f = Find(buf, m)
    OBVIOUS
  <1>2. f \in Nat /\ f \in Places(buf, m)
    BY <1>1, FindIs
  <1>3. 1 <= f /\ f + Symbols(m) <= Len(buf) + 1
    BY <1>2, PlacesAre
  <1>4. Symbols(m) \in {2, 3} /\ Len(buf) \in Nat
    BY MarkerIs
  <1>5. Before(buf, m) = SubSeq(buf, 1, f - 1)
    BY <1>1 DEF Before
  <1>6. SubSeq(buf, 1, f - 1) \in Seq(S)
    BY <1>2, <1>3, <1>4
  <1>7. After(buf, m) = SubSeq(buf, f + Symbols(m), Len(buf))
    BY <1>1 DEF After
  <1>8. PICK n \in Nat : n = f + Symbols(m) - 1
    BY <1>2, <1>4
  <1>9. n + 1 = f + Symbols(m) /\ n \in 0 .. Len(buf) /\ 0 < n
    BY <1>2, <1>3, <1>4, <1>8
  <1>10. After(buf, m) = Dropped(buf, n)
    BY <1>7, <1>9 DEF Dropped
  <1>11. Dropped(buf, n) \in Seq(S) /\ Len(Dropped(buf, n)) = Len(buf) - n
    BY <1>9, DroppedIs
  <1>12. Len(After(buf, m)) < Len(buf)
    BY <1>4, <1>9, <1>10, <1>11
  <1> QED BY <1>1, <1>2, <1>3, <1>5, <1>6, <1>8, <1>10, <1>11, <1>12

LEMMA DroppedOfMore ==
    ASSUME NEW S, NEW buf \in Seq(S), NEW more \in Seq(S), NEW n \in 0 .. Len(buf)
    PROVE  /\ buf \o more \in Seq(S) /\ n \in 0 .. Len(buf \o more)
           /\ Dropped(buf \o more, n) = Dropped(buf, n) \o more
  <1>1. PICK all : all = buf \o more
    OBVIOUS
  <1>2. all \in Seq(S) /\ Len(all) = Len(buf) + Len(more) /\ Len(buf) \in Nat /\ Len(more) \in Nat
        /\ n \in 0 .. Len(all)
    BY <1>1
  <1>3. PICK rest : rest = Dropped(buf, n)
    OBVIOUS
  <1>4. rest \in Seq(S) /\ Len(rest) = Len(buf) - n /\ \A i \in 1 .. Len(buf) - n : rest[i] = buf[i + n]
    BY <1>3, DroppedIs
  <1>5. PICK late : late = Dropped(all, n)
    OBVIOUS
  <1>6. late \in Seq(S) /\ Len(late) = Len(all) - n /\ \A i \in 1 .. Len(all) - n : late[i] = all[i + n]
    BY <1>2, <1>5, DroppedIs
  <1>7. PICK put : put = rest \o more
    OBVIOUS
  <1>8. put \in Seq(S) /\ Len(put) = Len(rest) + Len(more)
    <2>1. rest \in Seq(S)
      BY <1>4
    <2>2. rest \o more \in Seq(S) /\ Len(rest \o more) = Len(rest) + Len(more)
      BY <2>1
    <2> QED BY <1>7, <2>2
  <1>9. ASSUME NEW i \in 1 .. Len(late) PROVE late[i] = put[i]
    <2>1. late[i] = all[i + n]
      BY <1>6
    <2>2. CASE i <= Len(rest)
      <3>1. put[i] = rest[i]
        BY <1>4, <1>7, <2>2
      <3>2. rest[i] = buf[i + n] /\ i + n \in 1 .. Len(buf)
        BY <1>2, <1>4, <2>2
      <3>3. all[i + n] = buf[i + n]
        BY <1>1, <1>2, <3>2
      <3> QED BY <2>1, <3>1, <3>2, <3>3
    <2>3. CASE ~(i <= Len(rest))
      <3>1. i - Len(rest) \in 1 .. Len(more) /\ (i + n) - Len(buf) = i - Len(rest)
        BY <1>2, <1>4, <1>6, <2>3
      <3>2. put[i] = more[i - Len(rest)]
        BY <1>4, <1>6, <1>7, <1>8, <2>3, <3>1, SMTT(30)
      <3>3. all[i + n] = more[(i + n) - Len(buf)]
        BY <1>1, <1>2, <1>6, <2>3, <1>4, <3>1
      <3> QED BY <2>1, <3>1, <3>2, <3>3
    <2> QED BY <2>2, <2>3
  <1>10. Len(late) = Len(put)
    BY <1>2, <1>4, <1>6, <1>8
  <1>11. late = put
    BY <1>6, <1>8, <1>9, <1>10, SeqEqual
  <1> QED BY <1>1, <1>2, <1>3, <1>5, <1>7, <1>11

\* What goes out before a marker is the same however much follows it.
LEMMA FindOfMore ==
    ASSUME NEW S, NEW buf \in Seq(S), NEW more \in Seq(S), NEW m \in Markers, Occurs(buf, m)
    PROVE  /\ Occurs(buf \o more, m) /\ Find(buf \o more, m) = Find(buf, m)
           /\ Before(buf \o more, m) = Before(buf, m)
           /\ After(buf \o more, m) = After(buf, m) \o more
  <1>1. PICK all : all = buf \o more
    OBVIOUS
  <1>2. all \in Seq(S) /\ Len(all) = Len(buf) + Len(more) /\ Len(buf) \in Nat /\ Len(more) \in Nat
    BY <1>1
  <1>3. PICK f : f = Find(buf, m)
    OBVIOUS
  <1>4. /\ f \in Nat /\ 1 <= f /\ f + Symbols(m) <= Len(buf) + 1 /\ f \in Places(buf, m)
        /\ \A j \in Places(buf, m) : f <= j
    BY <1>3, AtPlace, FindIs
  <1>5. Symbols(m) \in {2, 3}
    BY MarkerIs
  <1>6. f \in Places(all, m)
    BY <1>1, <1>4, PlacesOfMore
  <1>7. ASSUME NEW j \in Places(all, m) PROVE f <= j
    <2>1. j \in Nat
      BY <1>2, FindIs
    <2>2. CASE j + Symbols(m) <= Len(buf) + 1
      <3>1. j \in Places(buf, m)
        BY <1>1, <2>1, <2>2, PlacesOfMore
      <3> QED BY <1>4, <3>1
    <2>3. CASE ~(j + Symbols(m) <= Len(buf) + 1)
      BY <1>2, <1>4, <1>5, <2>1, <2>3
    <2> QED BY <2>2, <2>3
  <1>8. Occurs(all, m) /\ Find(all, m) = f
    BY <1>2, <1>6, <1>7, FindIs DEF Occurs
  <1>9. Before(all, m) = Before(buf, m)
    <2>1. SubSeq(all, 1, f - 1) = SubSeq(buf, 1, f - 1)
      <3>1. PICK g \in Nat : g = f - 1 /\ g <= Len(buf)
        BY <1>2, <1>4, <1>5
      <3>2. \A i \in 1 .. g : all[i] = buf[i]
        BY <1>1, <1>2, <3>1
      <3>3. SubSeq(all, 1, g) = [i \in 1 .. g |-> all[i]] /\ SubSeq(buf, 1, g) = [i \in 1 .. g |-> buf[i]]
        BY <1>2, <3>1
      <3> QED BY <3>1, <3>2, <3>3
    <2> QED BY <1>3, <1>8, <2>1 DEF Before
  <1>10. After(all, m) = After(buf, m) \o more
    <2>1. PICK n \in 0 .. Len(buf) : n = f + Symbols(m) - 1
      BY <1>2, <1>4, <1>5
    <2>2. After(all, m) = Dropped(all, n) /\ After(buf, m) = Dropped(buf, n)
      BY <1>2, <1>3, <1>8, <2>1, AtPlace
    <2>3. Dropped(all, n) = Dropped(buf, n) \o more
      BY <1>1, DroppedOfMore
    <2> QED BY <2>2, <2>3
  <1> QED BY <1>1, <1>3, <1>8, <1>9, <1>10

LEMMA LeadsOfMore ==
    ASSUME NEW S, NEW buf \in Seq(S), NEW more \in Seq(S), NEW M, M \subseteq Markers, NEW m,
           Leads(buf, M, m)
    PROVE  /\ Leads(buf \o more, M, m)
           /\ Before(buf \o more, m) = Before(buf, m)
           /\ After(buf \o more, m) = After(buf, m) \o more
  <1>1. PICK all : all = buf \o more
    OBVIOUS
  <1>2. all \in Seq(S) /\ Len(buf) \in Nat
    BY <1>1
  <1>3. m \in Markers /\ m \in M /\ Occurs(buf, m)
    BY DEF Leads
  <1>4. Occurs(all, m) /\ Find(all, m) = Find(buf, m) /\ Find(buf, m) \in Nat
        /\ Find(buf, m) + Symbols(m) <= Len(buf) + 1 /\ Symbols(m) \in {2, 3}
    BY <1>1, <1>3, FindOfMore, AtPlace, MarkerIs
  <1>5. ASSUME NEW o \in M, o # m, Occurs(all, o) PROVE Find(all, m) < Find(all, o)
    <2>1. CASE Occurs(buf, o)
      <3>1. Find(all, o) = Find(buf, o)
        BY <1>1, <2>1, FindOfMore
      <3>2. Find(buf, m) < Find(buf, o)
        BY <1>5, <2>1 DEF Leads
      <3> QED BY <1>4, <3>1, <3>2
    <2>2. CASE ~Occurs(buf, o)
      <3>1. PICK j : j = Find(all, o)
        OBVIOUS
      <3>2. j \in Nat /\ j \in Places(all, o) /\ Symbols(o) \in {2, 3}
        BY <1>2, <1>5, <3>1, FindIs, MarkerIs
      <3>3. ~(j + Symbols(o) <= Len(buf) + 1)
        BY <1>1, <2>2, <3>2, PlacesOfMore DEF Occurs
      <3>4. PICK f \in Nat : f = Find(all, m)
        BY <1>4
      <3>5. f # j
        <4>1. f \in Places(all, m)
          BY <1>2, <1>3, <1>4, <3>4, FindIs
        <4> QED BY <1>2, <1>3, <1>5, <3>2, <4>1, PlacesDiffer
      <3>6. f < j
        BY <1>2, <1>4, <3>2, <3>3, <3>4, <3>5
      <3> QED BY <3>1, <3>4, <3>6
    <2> QED BY <2>1, <2>2
  <1>6. Leads(all, M, m)
    BY <1>3, <1>4, <1>5 DEF Leads
  <1> QED BY <1>1, <1>3, <1>6, FindOfMore

\* None of M stands in buf, and n symbols of it may go: not those a marker
\* could begin with.
MayGo(buf, M, n) == Absent(buf, M) /\ n \in 0 .. Len(buf) /\ (n = 0 \/ n + MaxLookahead <= Len(buf))

LEMMA PlacesBeyond ==
    ASSUME NEW S, NEW buf \in Seq(S), NEW more \in Seq(S), NEW M, M \subseteq Markers, NEW n,
           MayGo(buf, M, n), NEW m \in M, NEW i \in Places(buf \o more, m)
    PROVE  i \in Nat /\ n < i /\ i - n \in Places(Dropped(buf \o more, n), m)
  <1>1. PICK all : all = buf \o more
    OBVIOUS
  <1>2. all \in Seq(S) /\ n \in 0 .. Len(all) /\ Len(buf) \in Nat /\ n \in 0 .. Len(buf)
    BY <1>1, DroppedOfMore DEF MayGo
  <1>3. i \in Nat /\ Symbols(m) \in {2, 3} /\ m \in Markers /\ i \in Places(all, m)
    BY <1>1, <1>2, FindIs, MarkerIs
  <1>4. 1 <= i
    BY <1>2, <1>3, PlacesAre
  <1>5. ~(i + Symbols(m) <= Len(buf) + 1)
    <2>1. i \notin Places(buf, m)
      BY DEF MayGo, Absent, Occurs
    <2> QED BY <1>1, <1>3, <2>1, PlacesOfMore
  <1>6. n = 0 \/ n + 3 <= Len(buf)
    BY DEF MayGo, MaxLookahead
  <1>7. n < i
    BY <1>2, <1>3, <1>4, <1>5, <1>6
  <1>8. i - n \in Int /\ 1 <= i - n /\ (i - n) + n = i
    BY <1>2, <1>3, <1>7
  <1>9. i - n \in Places(Dropped(all, n), m)
    BY <1>2, <1>3, <1>8, PlacesOfDropped
  <1> QED BY <1>1, <1>3, <1>7, <1>9

\* With what may go gone, the markers are found where they were, that much
\* nearer.
LEMMA FindOfRest ==
    ASSUME NEW S, NEW buf \in Seq(S), NEW more \in Seq(S), NEW M, M \subseteq Markers, NEW n,
           MayGo(buf, M, n), NEW m \in M
    PROVE  /\ Occurs(buf \o more, m) <=> Occurs(Dropped(buf, n) \o more, m)
           /\ Occurs(buf \o more, m) =>
                /\ Find(Dropped(buf, n) \o more, m) = Find(buf \o more, m) - n
                /\ Find(buf \o more, m) \in Nat /\ n < Find(buf \o more, m)
  <1>1. PICK all : all = buf \o more
    OBVIOUS
  <1>2. PICK rest : rest = Dropped(buf, n) \o more
    OBVIOUS
  <1>3. all \in Seq(S) /\ n \in 0 .. Len(all) /\ rest = Dropped(all, n) /\ rest \in Seq(S) /\ m \in Markers
    BY <1>1, <1>2, DroppedOfMore, DroppedIs, SMTT(30) DEF MayGo
  <1>4. ASSUME NEW i \in Places(all, m) PROVE i \in Nat /\ n < i /\ i - n \in Places(rest, m)
    BY <1>1, <1>3, <1>4, PlacesBeyond
  <1>5. ASSUME NEW i \in Places(rest, m) PROVE i \in Nat /\ i + n \in Places(all, m)
    <2>1. i \in Nat
      BY <1>3, FindIs
    <2>2. 1 <= i
      BY <1>3, <2>1, PlacesAre
    <2> QED BY <1>3, <2>1, <2>2, PlacesOfDropped
  <1>6. Occurs(all, m) <=> Occurs(rest, m)
    BY <1>4, <1>5 DEF Occurs
  <1>7. ASSUME Occurs(all, m) PROVE Find(rest, m) = Find(all, m) - n /\ Find(all, m) \in Nat /\ n < Find(all, m)
    <2>1. PICK f : f = Find(all, m)
      OBVIOUS
    <2>2. f \in Places(all, m) /\ \A j \in Places(all, m) : f <= j
      BY <1>3, <1>7, <2>1, FindIs
    <2>3. f \in Nat /\ n < f /\ f - n \in Places(rest, m) /\ n \in Nat
      BY <1>3, <1>4, <2>2
    <2>4. ASSUME NEW j \in Places(rest, m) PROVE f - n <= j
      <3>1. j \in Nat /\ j + n \in Places(all, m)
        BY <1>5
      <3>2. f <= j + n
        BY <2>2, <3>1
      <3> QED BY <2>3, <3>1, <3>2
    <2>5. f - n = Find(rest, m)
      BY <1>3, <2>3, <2>4, FindIs
    <2> QED BY <2>1, <2>3, <2>5
  <1> QED BY <1>1, <1>2, <1>6, <1>7

LEMMA TakenIs ==
    ASSUME NEW S, NEW buf \in Seq(S), NEW n \in 0 .. Len(buf)
    PROVE  /\ SubSeq(buf, 1, n) \in Seq(S) /\ Len(SubSeq(buf, 1, n)) = n
           /\ \A i \in 1 .. n : SubSeq(buf, 1, n)[i] = buf[i]
  <1>1. Len(buf) \in Nat
    OBVIOUS
  <1>2. SubSeq(buf, 1, n) = [i \in 1 .. n |-> buf[i]]
    BY <1>1
  <1>3. \A i \in 1 .. n : buf[i] \in S
    BY <1>1
  <1> QED BY <1>1, <1>2, <1>3

LEMMA JoinIs ==
    ASSUME NEW S, NEW a \in Seq(S), NEW b \in Seq(S)
    PROVE  /\ a \o b \in Seq(S) /\ Len(a \o b) = Len(a) + Len(b) /\ Len(a) \in Nat /\ Len(b) \in Nat
           /\ \A i \in 1 .. Len(a) : (a \o b)[i] = a[i]
           /\ \A i \in 1 .. Len(b) : (a \o b)[i + Len(a)] = b[i]
  <1>1. a \o b \in Seq(S) /\ Len(a \o b) = Len(a) + Len(b) /\ Len(a) \in Nat /\ Len(b) \in Nat
    OBVIOUS
  <1>2. ASSUME NEW i \in 1 .. Len(b) PROVE (a \o b)[i + Len(a)] = b[i]
    <2>1. i + Len(a) \in 1 .. Len(a) + Len(b) /\ i + Len(a) > Len(a) /\ (i + Len(a)) - Len(a) = i
      BY <1>1
    <2> QED BY <2>1
  <1> QED BY <1>1, <1>2

\* What is said after the first n symbols of buf have been.
Spoken(buf, n, s) == SubSeq(buf, 1, n) \o s

LEMMA LeadsOfRest ==
    ASSUME NEW S, NEW buf \in Seq(S), NEW more \in Seq(S), NEW M, M \subseteq Markers, NEW n,
           MayGo(buf, M, n)
    PROVE  /\ Absent(buf \o more, M) => Absent(Dropped(buf, n) \o more, M)
           /\ \A m : Leads(buf \o more, M, m) =>
                 /\ Leads(Dropped(buf, n) \o more, M, m)
                 /\ Before(buf \o more, m) = Spoken(buf, n, Before(Dropped(buf, n) \o more, m))
                 /\ After(buf \o more, m) = After(Dropped(buf, n) \o more, m)
  <1>1. PICK all : all = buf \o more
    OBVIOUS
  <1>2. PICK rest : rest = Dropped(buf, n) \o more
    OBVIOUS
  <1>3. /\ all \in Seq(S) /\ n \in 0 .. Len(all) /\ rest = Dropped(all, n) /\ rest \in Seq(S)
        /\ n \in 0 .. Len(buf) /\ Len(buf) \in Nat
    <2>1. n \in 0 .. Len(buf) /\ Len(buf) \in Nat
      BY DEF MayGo
    <2>2. all \in Seq(S) /\ n \in 0 .. Len(all) /\ rest = Dropped(all, n)
      BY <1>1, <1>2, <2>1, DroppedOfMore
    <2>3. rest \in Seq(S)
      BY <2>2, DroppedIs
    <2> QED BY <2>1, <2>2, <2>3
  <1>0. n \in Nat /\ Len(all) \in Nat /\ n <= Len(all) /\ Len(rest) = Len(all) - n
        /\ \A i \in 1 .. Len(all) - n : rest[i] = all[i + n]
    <2>1. all \in Seq(S) /\ n \in 0 .. Len(all) /\ rest = Dropped(all, n)
      BY <1>3
    <2>2. Len(Dropped(all, n)) = Len(all) - n /\ \A i \in 1 .. Len(all) - n : Dropped(all, n)[i] = all[i + n]
      BY <2>1, DroppedIs
    <2>3. Len(all) \in Nat
      BY <2>1
    <2> QED BY <2>1, <2>2, <2>3
  <1>4. ASSUME NEW m \in M
        PROVE  /\ Occurs(all, m) <=> Occurs(rest, m)
               /\ Occurs(all, m) => Find(rest, m) = Find(all, m) - n /\ Find(all, m) \in Nat /\ n < Find(all, m)
    BY <1>1, <1>2, FindOfRest
  <1>5. ASSUME Absent(all, M) PROVE Absent(rest, M)
    BY <1>4, <1>5 DEF Absent
  <1>6. ASSUME NEW m, Leads(all, M, m)
        PROVE  /\ Leads(rest, M, m)
               /\ Before(all, m) = Spoken(buf, n, Before(rest, m))
               /\ After(all, m) = After(rest, m)
    <2>1. m \in M /\ m \in Markers /\ Occurs(all, m) /\ Occurs(rest, m)
      BY <1>4, <1>6 DEF Leads
    <2>2. PICK f \in Nat : f = Find(all, m) /\ n < f
      BY <1>4, <2>1
    <2>3. PICK g \in Nat : g = Find(rest, m) /\ g = f - n
      BY <1>3, <1>4, <2>1, <2>2
    <2>4. ASSUME NEW o \in M, o # m, Occurs(rest, o) PROVE Find(rest, m) < Find(rest, o)
      <3>1. Find(all, m) < Find(all, o)
        BY <1>4, <1>6, <2>4 DEF Leads
      <3>2. PICK h \in Nat : h = Find(all, o)
        BY <1>4, <2>4
      <3>3. Find(rest, o) = h - n
        BY <1>4, <2>4, <3>2
      <3> QED BY <1>3, <2>2, <2>3, <3>1, <3>2, <3>3
    <2>5. Leads(rest, M, m)
      BY <2>1, <2>4 DEF Leads
    <2>6. Symbols(m) \in {2, 3} /\ f + Symbols(m) <= Len(all) + 1 /\ 1 <= g
      BY <1>0, <1>3, <2>1, <2>2, <2>3, AtPlace, MarkerIs
    <2>7. After(all, m) = After(rest, m)
      <3>1. PICK d \in Nat : d = g + Symbols(m) - 1
        BY <2>6
      <3>2. d \in 0 .. Len(rest) /\ d + n \in 0 .. Len(all) /\ d + n = f + Symbols(m) - 1 /\ Len(rest) = Len(all) - n
        <4>1. PICK y \in {2, 3} : y = Symbols(m)
          BY <2>6
        <4>2. PICK N \in Nat : N = Len(all) /\ n \in Nat /\ Len(rest) = N - n
          BY <1>0
        <4>3. f + y <= N + 1 /\ g = f - n /\ d = g + y - 1 /\ 1 <= g
          BY <2>3, <2>6, <3>1, <4>1, <4>2
        <4>4. d \in 0 .. N - n /\ d + n \in 0 .. N /\ d + n = f + y - 1
          BY <4>2, <4>3
        <4> QED BY <4>1, <4>2, <4>4
      <3>3. After(all, m) = Dropped(all, d + n) /\ After(rest, m) = Dropped(rest, d)
        BY <1>3, <2>1, <2>2, <2>3, <3>1, <3>2, AtPlace
      <3>4. Dropped(all, d + n) = Dropped(rest, d)
        <4>1. /\ Dropped(all, d + n) \in Seq(S) /\ Len(Dropped(all, d + n)) = Len(all) - (d + n)
              /\ \A i \in 1 .. Len(all) - (d + n) : Dropped(all, d + n)[i] = all[i + (d + n)]
          BY <1>3, <3>2, DroppedIs
        <4>2. /\ Dropped(rest, d) \in Seq(S) /\ Len(Dropped(rest, d)) = Len(rest) - d
              /\ \A i \in 1 .. Len(rest) - d : Dropped(rest, d)[i] = rest[i + d]
          BY <1>3, <3>2, DroppedIs
        <4>3. \A i \in 1 .. Len(all) - n : rest[i] = all[i + n]
          BY <1>3, DroppedIs
        <4>4. Len(all) \in Nat /\ n \in Nat /\ Len(all) - (d + n) = Len(rest) - d
          BY <1>3, <3>2
        <4>5. ASSUME NEW i \in 1 .. Len(all) - (d + n) PROVE Dropped(all, d + n)[i] = Dropped(rest, d)[i]
          <5>1. i + d \in 1 .. Len(all) - n /\ (i + d) + n = i + (d + n) /\ i \in 1 .. Len(rest) - d
            BY <4>4, <3>1, <3>2, SMTT(30)
          <5> QED BY <4>1, <4>2, <4>3, <5>1
        <4> QED BY <4>1, <4>2, <4>4, <4>5, SeqEqual
      <3> QED BY <3>3, <3>4
    <2>8. Before(all, m) = SubSeq(buf, 1, n) \o Before(rest, m)
      <3>1. Before(all, m) = SubSeq(all, 1, f - 1) /\ Before(rest, m) = SubSeq(rest, 1, g - 1)
        BY <2>2, <2>3 DEF Before
      <3>2. f - 1 \in 0 .. Len(all) /\ g - 1 \in 0 .. Len(rest)
        BY <1>0, <2>2, <2>3, <2>6
      <3>3. PICK a : a = SubSeq(all, 1, f - 1)
        OBVIOUS
      <3>4. a \in Seq(S) /\ Len(a) = f - 1 /\ \A i \in 1 .. f - 1 : a[i] = all[i]
        BY <1>3, <3>2, <3>3, TakenIs
      <3>5. PICK b : b = SubSeq(rest, 1, g - 1)
        OBVIOUS
      <3>6. b \in Seq(S) /\ Len(b) = g - 1 /\ \A i \in 1 .. g - 1 : b[i] = rest[i]
        BY <1>3, <3>2, <3>5, TakenIs
      <3>7. PICK c : c = SubSeq(buf, 1, n)
        OBVIOUS
      <3>8. c \in Seq(S) /\ Len(c) = n /\ \A i \in 1 .. n : c[i] = buf[i]
        BY <1>3, <3>7, TakenIs
      <3>9. PICK d : d = c \o b
        OBVIOUS
      <3>10. /\ d \in Seq(S) /\ Len(d) = n + (g - 1) /\ \A i \in 1 .. n : d[i] = c[i]
             /\ \A i \in 1 .. g - 1 : d[i + n] = b[i]
        <4>1. c \in Seq(S) /\ b \in Seq(S)
          BY <3>6, <3>8
        <4>2. /\ d \in Seq(S) /\ Len(d) = Len(c) + Len(b) /\ \A i \in 1 .. Len(c) : d[i] = c[i]
              /\ \A i \in 1 .. Len(b) : d[i + Len(c)] = b[i]
          BY <3>9, <4>1, JoinIs
        <4> QED BY <4>2, <3>6, <3>8
      <3>11. ASSUME NEW i \in 1 .. f - 1 PROVE a[i] = d[i]
        <4>1. CASE i <= n
          <5>1. d[i] = c[i] /\ c[i] = buf[i] /\ i \in 1 .. Len(buf)
            BY <1>0, <1>3, <3>8, <3>10, <4>1
          <5>2. all[i] = buf[i]
            BY <1>1, <5>1, JoinIs
          <5> QED BY <3>4, <5>1, <5>2
        <4>2. CASE ~(i <= n)
          <5>1. PICK k \in 1 .. g - 1 : k + n = i
            BY <1>0, <2>2, <2>3, <4>2
          <5>2. d[i] = b[k] /\ b[k] = rest[k]
            BY <3>6, <3>10, <5>1
          <5>3. rest[k] = all[k + n]
            BY <1>0, <2>3, <3>2, <5>1
          <5> QED BY <3>4, <5>1, <5>2, <5>3
        <4> QED BY <4>1, <4>2
      <3>12. Len(a) = Len(d)
        BY <1>0, <2>2, <2>3, <3>4, <3>10, SMTT(30)
      <3>13. a = d
        BY <3>4, <3>10, <3>11, <3>12, SeqEqual
      <3> QED BY <3>1, <3>3, <3>5, <3>7, <3>9, <3>13
    <2> QED BY <2>5, <2>7, <2>8 DEF Spoken
  <1> QED BY <1>1, <1>2, <1>5, <1>6

----------------------------------------------------------------------------
(* What JSON makes of a text.                                               *)

\* The loop of FlattenSeq.
Joined(t, n, f) == f = [i \in 1 .. n |-> IF i = 1 THEN t[i] ELSE f[i - 1] \o t[i]]

LEMMA JoinedSteps ==
    ASSUME NEW t, NEW n \in Nat, NEW f, Joined(t, n, f)
    PROVE  (1 <= n => f[1] = t[1]) /\ \A i \in 2 .. n : f[i] = f[i - 1] \o t[i]
  <1> DEFINE g == [i \in 1 .. n |-> IF i = 1 THEN t[i] ELSE f[i - 1] \o t[i]]
  <1>1. f = g
    BY DEF Joined
  <1>2. 1 <= n => g[1] = t[1]
    OBVIOUS
  <1>3. ASSUME NEW i \in 2 .. n PROVE g[i] = f[i - 1] \o t[i]
    <2>1. i \in 1 .. n /\ i # 1
      OBVIOUS
    <2> QED BY <2>1
  <1> HIDE DEF g
  <1> QED BY <1>1, <1>2, <1>3

LEMMA JoinedExists ==
    ASSUME NEW t
    PROVE  \A n \in Nat : \E f : Joined(t, n, f)
  <1> DEFINE S == {n \in Nat : \E f : Joined(t, n, f)}
  <1>1. 0 \in S
    <2> DEFINE f == [i \in 1 .. 0 |-> <<>>]
    <2>1. f = [i \in 1 .. 0 |-> IF i = 1 THEN t[i] ELSE f[i - 1] \o t[i]]
      OBVIOUS
    <2> HIDE DEF f
    <2>2. Joined(t, 0, f)
      BY <2>1 DEF Joined
    <2> QED BY <2>2
  <1>2. ASSUME NEW n \in Nat, n \in S PROVE n + 1 \in S
    <2>1. PICK f : Joined(t, n, f)
      BY <1>2
    <2>2. (1 <= n => f[1] = t[1]) /\ \A i \in 2 .. n : f[i] = f[i - 1] \o t[i]
      BY <2>1, JoinedSteps
    <2> DEFINE new == IF n = 0 THEN t[1] ELSE f[n] \o t[n + 1]
               g == [i \in 1 .. n + 1 |-> IF i = n + 1 THEN new ELSE f[i]]
    <2>3. ASSUME NEW i \in 1 .. n + 1
          PROVE  g[i] = IF i = 1 THEN t[i] ELSE g[i - 1] \o t[i]
      <3>1. CASE i = n + 1 /\ n = 0
        BY <3>1
      <3>2. CASE i = n + 1 /\ n # 0
        <4>1. i - 1 = n /\ n \in 1 .. n + 1 /\ n # n + 1 /\ i # 1
          BY <3>2
        <4>2. g[i - 1] = f[n] /\ g[i] = f[n] \o t[n + 1]
          BY <3>2, <4>1
        <4> HIDE DEF g
        <4> QED BY <3>2, <4>1, <4>2
      <3>3. CASE i # n + 1 /\ i = 1
        <4>1. 1 <= n /\ g[i] = f[1]
          BY <3>3
        <4> HIDE DEF g
        <4> QED BY <2>2, <3>3, <4>1
      <3>4. CASE i # n + 1 /\ i # 1
        <4>1. i \in 2 .. n /\ i - 1 \in 1 .. n + 1 /\ i - 1 # n + 1
          BY <3>4
        <4>2. g[i - 1] = f[i - 1] /\ g[i] = f[i]
          BY <3>4, <4>1
        <4> HIDE DEF g
        <4> QED BY <2>2, <3>4, <4>1, <4>2
      <3> QED BY <3>1, <3>2, <3>3, <3>4
    <2>4. g = [i \in 1 .. n + 1 |-> g[i]]
      OBVIOUS
    <2> HIDE DEF g
    <2>5. g = [i \in 1 .. n + 1 |-> IF i = 1 THEN t[i] ELSE g[i - 1] \o t[i]]
      BY <2>3, <2>4
    <2>6. Joined(t, n + 1, g)
      BY <2>5 DEF Joined
    <2> QED BY <1>2, <2>6
  <1> HIDE DEF S
  <1>3. \A n \in Nat : n \in S
    BY <1>1, <1>2, Ascend
  <1> QED BY <1>3 DEF S

LEMMA JoinedAlike ==
    ASSUME NEW t, NEW u, NEW n \in Nat, NEW m \in Nat, NEW f, NEW g, Joined(t, n, f), Joined(u, m, g),
           1 <= n, n <= m, \A i \in 1 .. n : t[i] = u[i]
    PROVE  f[n] = g[n]
  <1> DEFINE S == {k \in Nat : k + 1 <= n => f[k + 1] = g[k + 1]}
  <1>1. f[1] = t[1] /\ \A i \in 2 .. n : f[i] = f[i - 1] \o t[i]
    <2>1. (1 <= n => f[1] = t[1]) /\ \A i \in 2 .. n : f[i] = f[i - 1] \o t[i]
      BY JoinedSteps, Zenon
    <2> QED BY <2>1, Zenon
  <1>2. g[1] = u[1] /\ \A i \in 2 .. m : g[i] = g[i - 1] \o u[i]
    <2>1. 1 <= m
      OBVIOUS
    <2>2. (1 <= m => g[1] = u[1]) /\ \A i \in 2 .. m : g[i] = g[i - 1] \o u[i]
      BY JoinedSteps
    <2> QED BY <2>1, <2>2
  <1>3. 0 \in S
    BY <1>1, <1>2
  <1>4. ASSUME NEW k \in Nat, k \in S PROVE k + 1 \in S
    <2> SUFFICES ASSUME (k + 1) + 1 <= n PROVE f[(k + 1) + 1] = g[(k + 1) + 1]
      OBVIOUS
    <2>1. PICK i \in Nat : i = (k + 1) + 1
      OBVIOUS
    <2>2. i \in 2 .. n /\ i \in 2 .. m /\ i - 1 = k + 1 /\ k + 1 <= n /\ i \in 1 .. n
      BY <2>1
    <2>3. f[i - 1] = g[i - 1]
      BY <1>4, <2>2
    <2>4. f[i] = f[i - 1] \o t[i] /\ g[i] = g[i - 1] \o u[i] /\ t[i] = u[i]
      BY <1>1, <1>2, <2>2
    <2> QED BY <2>1, <2>3, <2>4
  <1> HIDE DEF S
  <1>5. \A k \in Nat : k \in S
    BY <1>3, <1>4, Ascend
  <1>6. n - 1 \in S /\ n - 1 \in Nat /\ (n - 1) + 1 = n
    BY <1>5
  <1> QED BY <1>6 DEF S

LEMMA FlattenIs ==
    ASSUME NEW t, NEW n \in Nat \ {0}, Len(t) = n
    PROVE  \E f : Joined(t, n, f) /\ FlattenSeq(t) = f[n]
  <1> DEFINE flat == CHOOSE f : f = [i \in 1 .. n |-> IF i = 1 THEN t[i] ELSE f[i - 1] \o t[i]]
             chosen == CHOOSE f : Joined(t, n, f)
  <1>1. FlattenSeq(t) = flat[n]
    <2>1. Len(t) # 0
      OBVIOUS
    <2> QED BY <2>1, Zenon DEF FlattenSeq
  <1>2. flat = chosen
    BY DEF Joined
  <1> HIDE DEF flat
  <1>3. Joined(t, n, chosen)
    BY JoinedExists
  <1> QED BY <1>1, <1>2, <1>3

\* FlattenSeq, an element at a time.
LEMMA FlattenSteps ==
    ASSUME NEW S
    PROVE  /\ FlattenSeq(<<>>) = <<>>
           /\ \A t \in Seq(Seq(S)), x \in Seq(S) : FlattenSeq(Append(t, x)) = FlattenSeq(t) \o x
  <1>1. FlattenSeq(<<>>) = <<>>
    <2>1. Len(<<>>) = 0
      OBVIOUS
    <2> QED BY <2>1, Zenon DEF FlattenSeq
  <1>2. ASSUME NEW t \in Seq(Seq(S)), NEW x \in Seq(S) PROVE FlattenSeq(Append(t, x)) = FlattenSeq(t) \o x
    <2>1. PICK u : u = Append(t, x)
      OBVIOUS
    <2>2. Len(t) \in Nat /\ Len(u) = Len(t) + 1 /\ u[Len(t) + 1] = x /\ \A i \in 1 .. Len(t) : u[i] = t[i]
      BY <2>1
    <2>3. PICK n \in Nat : n = Len(t)
      BY <2>2
    <2>4. PICK m \in Nat \ {0} : m = n + 1
      OBVIOUS
    <2>5. PICK g : Joined(u, m, g) /\ FlattenSeq(u) = g[m]
      <3>1. Len(u) = m
        BY <2>2, <2>3, <2>4
      <3> QED BY <3>1, FlattenIs
    <2>6. CASE n = 0
      <3>1. m = 1 /\ g[1] = u[1] /\ u[1] = x
        <4>1. 1 <= m => g[1] = u[1]
          BY <2>5, JoinedSteps, ZenonT(60)
        <4>2. m = 1 /\ u[1] = x
          BY <2>2, <2>3, <2>4, <2>6
        <4> QED BY <4>1, <4>2
      <3>2. t = <<>>
        <4>1. Len(t) = 0
          BY <2>3, <2>6
        <4> QED BY <4>1, EmptySeq
      <3>3. FlattenSeq(t) = <<>>
        BY <1>1, <3>2
      <3>4. <<>> \o x = x
        OBVIOUS
      <3> QED BY <2>1, <2>5, <3>1, <3>3, <3>4
    <2>7. CASE n # 0
      <3>1. PICK f : Joined(t, n, f) /\ FlattenSeq(t) = f[n]
        BY <2>3, <2>7, FlattenIs
      <3>2. 1 <= n /\ n <= m /\ \A i \in 1 .. n : t[i] = u[i]
        BY <2>2, <2>3, <2>4, <2>7
      <3>3. f[n] = g[n]
        BY <2>5, <3>1, <3>2, JoinedAlike
      <3>4. m \in 2 .. m /\ m - 1 = n
        BY <2>4, <2>7
      <3>5. g[m] = g[n] \o u[m]
        BY <2>5, <3>4, JoinedSteps
      <3> QED BY <2>1, <2>2, <2>3, <2>4, <2>5, <3>1, <3>3, <3>5
    <2> QED BY <2>6, <2>7
  <1> QED BY <1>1, <1>2

\* Of one symbol.
Spelt(c) == IF c \in Special THEN <<"\\", c>> ELSE <<c>>
Spelling(s) == [i \in DOMAIN s |-> Spelt(s[i])]

\* Everything that is sent.
Out == Alphabet \cup {"\\", "\"", "{", "}", ":", ","}

LEMMA SpeltIs == \A c \in Alphabet : Spelt(c) \in Seq(Out)
  <1> SUFFICES ASSUME NEW c \in Alphabet PROVE Spelt(c) \in Seq(Out)
    OBVIOUS
  <1>1. c \in Out /\ "\\" \in Out
    BY DEF Out
  <1> QED BY <1>1 DEF Spelt

LEMMA SpellingIs ==
    ASSUME NEW s \in Seq(Alphabet)
    PROVE  /\ Spelling(s) \in Seq(Seq(Out))
           /\ \A c \in Alphabet : Spelling(Append(s, c)) = Append(Spelling(s), Spelt(c))
  <1>1. PICK n \in Nat : n = Len(s)
    OBVIOUS
  <1>2. DOMAIN s = 1 .. n /\ \A i \in 1 .. n : s[i] \in Alphabet
    BY <1>1
  <1>3. Spelling(s) = [i \in 1 .. n |-> Spelt(s[i])]
    BY <1>2 DEF Spelling
  <1>4. \A i \in 1 .. n : Spelt(s[i]) \in Seq(Out)
    BY <1>2, SpeltIs
  <1>5. Spelling(s) \in Seq(Seq(Out)) /\ Len(Spelling(s)) = n
    BY <1>3, <1>4
  <1>6. ASSUME NEW c \in Alphabet PROVE Spelling(Append(s, c)) = Append(Spelling(s), Spelt(c))
    <2>1. PICK u : u = Append(s, c)
      OBVIOUS
    <2>2. DOMAIN u = 1 .. n + 1 /\ u[n + 1] = c /\ (\A i \in 1 .. n : u[i] = s[i]) /\ u \in Seq(Alphabet)
      BY <1>1, <2>1
    <2>3. Spelling(u) = [i \in 1 .. n + 1 |-> Spelt(u[i])]
      BY <2>2 DEF Spelling
    <2>4. \A i \in 1 .. n + 1 : u[i] \in Alphabet
      BY <2>2
    <2>5. \A i \in 1 .. n + 1 : Spelt(u[i]) \in Seq(Out)
      BY <2>4, SpeltIs
    <2>6. Spelling(u) \in Seq(Seq(Out)) /\ Len(Spelling(u)) = n + 1
      BY <2>3, <2>5
    <2>7. PICK w : w = Append(Spelling(s), Spelt(c))
      OBVIOUS
    <2>8. /\ w \in Seq(Seq(Out)) /\ Len(w) = n + 1 /\ w[n + 1] = Spelt(c)
          /\ \A i \in 1 .. n : w[i] = Spelling(s)[i]
      BY <1>5, <2>7, SpeltIs
    <2>9. ASSUME NEW i \in 1 .. n + 1 PROVE Spelling(u)[i] = w[i]
      <3>1. CASE i = n + 1
        BY <2>2, <2>3, <2>8, <3>1
      <3>2. CASE i # n + 1
        <4>1. i \in 1 .. n
          BY <3>2
        <4>2. Spelling(u)[i] = Spelt(u[i]) /\ u[i] = s[i] /\ w[i] = Spelling(s)[i] /\ Spelling(s)[i] = Spelt(s[i])
          BY <1>3, <2>2, <2>3, <2>8, <4>1
        <4> QED BY <4>2
      <3> QED BY <3>1, <3>2
    <2>10. Spelling(u) = w
      BY <2>6, <2>8, <2>9, SeqEqual
    <2> QED BY <2>1, <2>7, <2>10
  <1> QED BY <1>5, <1>6

\* A set that holds the empty text, and with a text all that are one symbol
\* longer, holds them all.
LEMMA ByOneSymbol ==
    ASSUME NEW A, NEW S, <<>> \in S, \A s \in Seq(A), c \in A : s \in S => Append(s, c) \in S
    PROVE  \A s \in Seq(A) : s \in S
  <1> DEFINE N == {n \in Nat : \A s \in Seq(A) : Len(s) = n => s \in S}
  <1>1. 0 \in N
    <2>1. ASSUME NEW s \in Seq(A), Len(s) = 0 PROVE s \in S
      <3>1. s = <<>>
        BY <2>1, EmptySeq
      <3> QED BY <3>1
    <2> QED BY <2>1
  <1>2. ASSUME NEW n \in Nat, n \in N PROVE n + 1 \in N
    <2> SUFFICES ASSUME NEW s \in Seq(A), Len(s) = n + 1 PROVE s \in S
      OBVIOUS
    <2>1. PICK a : a = SubSeq(s, 1, n)
      OBVIOUS
    <2>2. a \in Seq(A) /\ Len(a) = n /\ \A i \in 1 .. n : a[i] = s[i]
      <3>1. n \in 0 .. Len(s)
        OBVIOUS
      <3> QED BY <2>1, <3>1, TakenIs
    <2>3. s[n + 1] \in A
      OBVIOUS
    <2>4. a \in S
      BY <1>2, <2>2
    <2>5. PICK w : w = Append(a, s[n + 1])
      OBVIOUS
    <2>6. w \in Seq(A) /\ Len(w) = n + 1 /\ w[n + 1] = s[n + 1] /\ \A i \in 1 .. n : w[i] = a[i]
      BY <2>2, <2>3, <2>5
    <2>7. \A i \in 1 .. n + 1 : w[i] = s[i]
      BY <2>2, <2>6
    <2>8. w = s
      BY <2>6, <2>7, SeqEqual
    <2> QED BY <2>2, <2>3, <2>4, <2>5, <2>8
  <1> HIDE DEF N
  <1>3. \A n \in Nat : n \in N
    BY <1>1, <1>2, Ascend
  <1> QED BY <1>3 DEF N

LEMMA EscapedSteps ==
    /\ Escaped(<<>>) = <<>>
    /\ \A s \in Seq(Alphabet), c \in Alphabet : Escaped(Append(s, c)) = Escaped(s) \o Spelt(c)
  <1>1. ASSUME NEW s PROVE Escaped(s) = FlattenSeq(Spelling(s))
    BY Zenon DEF Escaped, Spelling, Spelt
  <1>2. Spelling(<<>>) = <<>>
    BY DEF Spelling
  <1>3. Escaped(<<>>) = <<>>
    BY <1>1, <1>2, FlattenSteps
  <1>4. ASSUME NEW s \in Seq(Alphabet), NEW c \in Alphabet
        PROVE  Escaped(Append(s, c)) = Escaped(s) \o Spelt(c)
    <2>1. Spelling(s) \in Seq(Seq(Out)) /\ Spelling(Append(s, c)) = Append(Spelling(s), Spelt(c)) /\ Spelt(c) \in Seq(Out)
      BY SpellingIs, SpeltIs
    <2>2. FlattenSeq(Append(Spelling(s), Spelt(c))) = FlattenSeq(Spelling(s)) \o Spelt(c)
      BY <2>1, FlattenSteps
    <2> QED BY <1>1, <2>1, <2>2
  <1> QED BY <1>3, <1>4

LEMMA EscapedText == \A s \in Seq(Alphabet) : Escaped(s) \in Seq(Out)
  <1> DEFINE S == {s \in Seq(Alphabet) : Escaped(s) \in Seq(Out)}
  <1>1. <<>> \in S
    <2>1. <<>> \in Seq(Out) /\ <<>> \in Seq(Alphabet) /\ Escaped(<<>>) = <<>>
      BY EscapedSteps
    <2> QED BY <2>1
  <1>2. \A s \in Seq(Alphabet), c \in Alphabet : s \in S => Append(s, c) \in S
    <2> SUFFICES ASSUME NEW s \in Seq(Alphabet), NEW c \in Alphabet, s \in S PROVE Append(s, c) \in S
      OBVIOUS
    <2>1. Escaped(Append(s, c)) = Escaped(s) \o Spelt(c)
      BY EscapedSteps
    <2>2. Escaped(s) \in Seq(Out) /\ Spelt(c) \in Seq(Out)
      BY SpeltIs
    <2>3. Escaped(Append(s, c)) \in Seq(Out)
      BY <2>1, <2>2
    <2> QED BY <2>3
  <1> HIDE DEF S
  <1>3. \A s \in Seq(Alphabet) : s \in S
    BY <1>1, <1>2, ByOneSymbol
  <1> QED BY <1>3 DEF S

\* A text is escaped piece by piece as it is escaped whole.
LEMMA EscapedJoins ==
    ASSUME NEW a \in Seq(Alphabet)
    PROVE  \A b \in Seq(Alphabet) : Escaped(a \o b) = Escaped(a) \o Escaped(b)
  <1> DEFINE S == {b \in Seq(Alphabet) : Escaped(a \o b) = Escaped(a) \o Escaped(b)}
  <1>1. <<>> \in S
    <2>1. a \o <<>> = a /\ Escaped(a) \o <<>> = Escaped(a) /\ Escaped(<<>>) = <<>>
      <3>1. Escaped(a) \in Seq(Out)
        BY EscapedText
      <3> QED BY <3>1, EscapedSteps, ConcatEmptySeq
    <2>2. <<>> \in Seq(Alphabet)
      OBVIOUS
    <2> QED BY <2>1, <2>2
  <1>2. \A b \in Seq(Alphabet), c \in Alphabet : b \in S => Append(b, c) \in S
    <2> SUFFICES ASSUME NEW b \in Seq(Alphabet), NEW c \in Alphabet, b \in S PROVE Append(b, c) \in S
      OBVIOUS
    <2>1. a \o Append(b, c) = Append(a \o b, c) /\ a \o b \in Seq(Alphabet) /\ Append(b, c) \in Seq(Alphabet)
      <3>1. Append(b, c) = b \o <<c>> /\ Append(a \o b, c) = (a \o b) \o <<c>> /\ <<c>> \in Seq(Alphabet)
        OBVIOUS
      <3> QED BY <3>1, ConcatAssociative
    <2>2. Escaped(Append(a \o b, c)) = Escaped(a \o b) \o Spelt(c)
      BY <2>1, EscapedSteps
    <2>3. Escaped(a \o b) = Escaped(a) \o Escaped(b)
      OBVIOUS
    <2>4. Escaped(a) \in Seq(Out) /\ Escaped(b) \in Seq(Out) /\ Spelt(c) \in Seq(Out)
      BY EscapedText, SpeltIs
    <2>5. (Escaped(a) \o Escaped(b)) \o Spelt(c) = Escaped(a) \o (Escaped(b) \o Spelt(c))
      BY <2>4, ConcatAssociative
    <2>6. Escaped(Append(b, c)) = Escaped(b) \o Spelt(c)
      BY EscapedSteps
    <2>7. Escaped(a \o Append(b, c)) = Escaped(a) \o Escaped(Append(b, c))
      BY <2>1, <2>2, <2>3, <2>5, <2>6
    <2> QED BY <2>1, <2>7
  <1> HIDE DEF S
  <1>3. \A b \in Seq(Alphabet) : b \in S
    BY <1>1, <1>2, ByOneSymbol
  <1> QED BY <1>3 DEF S

----------------------------------------------------------------------------
(* One turn of the loop.                                                    *)

ParserStates == {"TEXT", "THINKING", "TOOL_NAME", "TOOL_WAIT_KEY", "TOOL_KEY", "TOOL_WAIT_VAL", "TOOL_VAL"}
Clients == [content : Seq(Out), reasoning : Seq(Out), calls : Seq([name : Seq(Out), arguments : Seq(Out)])]
ParserRecord ==
    [state : ParserStates, buf : Seq(Alphabet), tc_index : Nat, name : Seq(Alphabet),
     arg_key : Seq(Alphabet), first_arg : BOOLEAN, client : Clients]

\* The client has been told of the calls up to the one under way, if its name
\* is known.
Numbered(p) ==
    Len(p.client.calls) = p.tc_index + (IF p.state \in {"TEXT", "THINKING", "TOOL_NAME"} THEN 0 ELSE 1)
Parsers == {p \in ParserRecord : Numbered(p)}

\* What each state looks for, and what it does when it finds m after said and
\* before rest.
Watched(state) ==
    CASE state = "TEXT" -> {"<think>", "<tool_call>"}
      [] state = "THINKING" -> {"</think>"}
      [] state \in {"TOOL_NAME", "TOOL_WAIT_KEY"} -> {"</tool_call>", "<arg_key>"}
      [] state = "TOOL_KEY" -> {"</arg_key>"}
      [] state = "TOOL_WAIT_VAL" -> {"<arg_value>"}
      [] state = "TOOL_VAL" -> {"</arg_value>"}

Enters(m) ==
    CASE m = "<think>" -> "THINKING"
      [] m = "<tool_call>" -> "TOOL_NAME"
      [] m \in {"</think>", "</tool_call>"} -> "TEXT"
      [] m = "<arg_key>" -> "TOOL_KEY"
      [] m = "</arg_key>" -> "TOOL_WAIT_VAL"
      [] m = "<arg_value>" -> "TOOL_VAL"
      [] m = "</arg_value>" -> "TOOL_WAIT_KEY"

Brace == <<"}">>
EndsCall(p, c, m) == IF m = "</tool_call>" THEN Argues(c, p.tc_index, Brace) ELSE c
Tells(p, m, said) ==
    CASE p.state = "TEXT" -> Says(p.client, said)
      [] p.state = "THINKING" -> Reasons(p.client, said)
      [] p.state = "TOOL_NAME" -> EndsCall(p, Calls(p.client, said), m)
      [] p.state = "TOOL_WAIT_KEY" -> EndsCall(p, p.client, m)
      [] p.state = "TOOL_KEY" -> p.client
      [] p.state = "TOOL_WAIT_VAL" -> Argues(p.client, p.tc_index, ValueOpens(p))
      [] p.state = "TOOL_VAL" -> Argues(p.client, p.tc_index, Encoded(p, said) \o ValueCloses(p))

ParserOf(state, buf, tc_index, name, arg_key, first_arg, client) ==
    [state |-> state, buf |-> buf, tc_index |-> tc_index, name |-> name,
     arg_key |-> arg_key, first_arg |-> first_arg, client |-> client]

Took(p, m, said, rest) ==
    ParserOf(Enters(m), rest,
             IF m = "</tool_call>" THEN p.tc_index + 1 ELSE p.tc_index,
             IF m = "<tool_call>" THEN <<>> ELSE IF p.state = "TOOL_NAME" THEN said ELSE p.name,
             IF m = "<arg_key>" THEN <<>> ELSE IF m = "</arg_key>" THEN said ELSE p.arg_key,
             IF m = "<tool_call>" THEN TRUE ELSE IF m = "<arg_value>" THEN FALSE ELSE p.first_arg,
             Tells(p, m, said))

\* What it lets go when it finds nothing, and what it does then.
Gone(p) == IF p.state \in {"TEXT", "THINKING", "TOOL_VAL"} THEN Safe(p) ELSE 0
Flushes(p, said) ==
    CASE p.state = "TEXT" -> Says(p.client, said)
      [] p.state = "THINKING" -> Reasons(p.client, said)
      [] p.state = "TOOL_VAL" -> Argues(p.client, p.tc_index, Encoded(p, said))
      [] p.state \notin {"TEXT", "THINKING", "TOOL_VAL"} -> p.client
Idles(p) ==
    ParserOf(p.state, Dropped(p.buf, Gone(p)), p.tc_index, p.name, p.arg_key, p.first_arg,
             Flushes(p, SubSeq(p.buf, 1, Gone(p))))

LEMMA WatchedMarkers ==
    ASSUME NEW state \in ParserStates
    PROVE  Watched(state) \subseteq Markers
  BY DEF Watched, ParserStates, Markers

\* A parser is its fields, and one of them can be changed.
LEMMA SameParser ==
    ASSUME NEW p \in ParserRecord
    PROVE  p = ParserOf(p.state, p.buf, p.tc_index, p.name, p.arg_key, p.first_arg, p.client)
  BY DEF ParserRecord, ParserOf

LEMMA FieldsOf ==
    ASSUME NEW a, NEW b, NEW c, NEW d, NEW e, NEW f, NEW g
    PROVE  /\ ParserOf(a, b, c, d, e, f, g).state = a
           /\ ParserOf(a, b, c, d, e, f, g).buf = b
           /\ ParserOf(a, b, c, d, e, f, g).tc_index = c
           /\ ParserOf(a, b, c, d, e, f, g).name = d
           /\ ParserOf(a, b, c, d, e, f, g).arg_key = e
           /\ ParserOf(a, b, c, d, e, f, g).first_arg = f
           /\ ParserOf(a, b, c, d, e, f, g).client = g
  BY DEF ParserOf

LEMMA PastOf ==
    ASSUME NEW a, NEW b, NEW c, NEW d, NEW e, NEW f, NEW g, NEW m, NEW state
    PROVE  Past(ParserOf(a, b, c, d, e, f, g), m, state) = ParserOf(state, After(b, m), c, d, e, f, g)
  <1> DEFINE q == ParserOf(a, b, c, d, e, f, g)
             r == ParserOf(a, After(b, m), c, d, e, f, g)
  <1>1. Past(q, m, state) = [[q EXCEPT !.buf = After(q.buf, m)] EXCEPT !.state = state]
    BY DEF Past
  <1>2. q.buf = b
    BY DEF ParserOf
  <1>3. [q EXCEPT !.buf = After(b, m)] = r
    BY DEF ParserOf
  <1>4. [r EXCEPT !.state = state] = ParserOf(state, After(b, m), c, d, e, f, g)
    BY DEF ParserOf
  <1> HIDE DEF q, r
  <1>5. Past(q, m, state) = ParserOf(state, After(b, m), c, d, e, f, g)
    BY <1>1, <1>2, <1>3, <1>4
  <1> QED BY <1>5 DEF q

LEMMA PastIs ==
    ASSUME NEW p \in ParserRecord, NEW m, NEW state
    PROVE  Past(p, m, state) =
              ParserOf(state, After(p.buf, m), p.tc_index, p.name, p.arg_key, p.first_arg, p.client)
  <1> DEFINE q == ParserOf(p.state, p.buf, p.tc_index, p.name, p.arg_key, p.first_arg, p.client)
  <1>1. p = q
    BY SameParser
  <1>2. Past(q, m, state) =
              ParserOf(state, After(p.buf, m), p.tc_index, p.name, p.arg_key, p.first_arg, p.client)
    BY PastOf
  <1> HIDE DEF q
  <1> QED BY <1>1, <1>2

\* The ends of a turn, field by field.
LEMMA CallEndsOf ==
    ASSUME NEW a, NEW b, NEW c, NEW d, NEW e, NEW f, NEW g
    PROVE  CallEnds(ParserOf(a, b, c, d, e, f, g)) =
              ParserOf("TEXT", After(b, "</tool_call>"), c + 1, d, e, f, Argues(g, c, Brace))
  <1> DEFINE q == ParserOf(a, b, c, d, e, f, g)
             r == ParserOf("TEXT", After(b, "</tool_call>"), c, d, e, f, g)
             x == Argues(g, c, Brace)
             s == ParserOf("TEXT", After(b, "</tool_call>"), c, d, e, f, x)
  <1>1. Past(q, "</tool_call>", "TEXT") = r
    BY PastOf
  <1>2. q.tc_index = c /\ r.client = g /\ s.tc_index = c /\ r.tc_index = c
    BY DEF ParserOf
  <1>3. CallEnds(q) = [[r EXCEPT !.client = Argues(r.client, q.tc_index, Brace)] EXCEPT !.tc_index = r.tc_index + 1]
    <2> HIDE DEF q, r
    <2> QED BY <1>1 DEF CallEnds, Brace
  <1>4. [r EXCEPT !.client = x] = s
    <2> HIDE DEF x
    <2> QED BY DEF ParserOf
  <1>5. [s EXCEPT !.tc_index = c + 1] = ParserOf("TEXT", After(b, "</tool_call>"), c + 1, d, e, f, x)
    <2> HIDE DEF x
    <2> QED BY DEF ParserOf
  <1>6. CallEnds(q) = ParserOf("TEXT", After(b, "</tool_call>"), c + 1, d, e, f, x)
    <2>1. Argues(r.client, q.tc_index, Brace) = x
      <3> HIDE DEF q, r
      <3> QED BY <1>2 DEF x
    <2> HIDE DEF q, r, s, x
    <2> QED BY <1>2, <1>3, <1>4, <1>5, <2>1
  <1> HIDE DEF q
  <1> QED BY <1>6 DEF q

LEMMA KeyBeginsOf ==
    ASSUME NEW a, NEW b, NEW c, NEW d, NEW e, NEW f, NEW g
    PROVE  KeyBegins(ParserOf(a, b, c, d, e, f, g)) =
              ParserOf("TOOL_KEY", After(b, "<arg_key>"), c, d, <<>>, f, g)
  <1> DEFINE q == ParserOf(a, b, c, d, e, f, g)
             r == ParserOf("TOOL_KEY", After(b, "<arg_key>"), c, d, e, f, g)
  <1>1. Past(q, "<arg_key>", "TOOL_KEY") = r
    BY PastOf
  <1>2. [r EXCEPT !.arg_key = <<>>] = ParserOf("TOOL_KEY", After(b, "<arg_key>"), c, d, <<>>, f, g)
    BY DEF ParserOf
  <1> HIDE DEF q, r
  <1>3. KeyBegins(q) = ParserOf("TOOL_KEY", After(b, "<arg_key>"), c, d, <<>>, f, g)
    BY <1>1, <1>2 DEF KeyBegins
  <1> QED BY <1>3 DEF q

LEMMA NamedIs ==
    ASSUME NEW p \in ParserRecord, NEW m
    PROVE  Named(p, m) = ParserOf(p.state, p.buf, p.tc_index, Before(p.buf, m), p.arg_key, p.first_arg,
                                  Calls(p.client, Before(p.buf, m)))
  <1> DEFINE q == ParserOf(p.state, p.buf, p.tc_index, p.name, p.arg_key, p.first_arg, p.client)
             said == Before(p.buf, m)
             r == ParserOf(p.state, p.buf, p.tc_index, said, p.arg_key, p.first_arg, p.client)
             c == Calls(p.client, said)
             s == ParserOf(p.state, p.buf, p.tc_index, said, p.arg_key, p.first_arg, c)
  <1>1. p = q
    BY SameParser
  <1>2. Named(p, m) = [[p EXCEPT !.name = said] EXCEPT !.client = c]
    BY DEF Named
  <1>3. [q EXCEPT !.name = said] = r
    <2> HIDE DEF said
    <2> QED BY DEF ParserOf
  <1>4. [r EXCEPT !.client = c] = s
    <2> HIDE DEF said, c
    <2> QED BY DEF ParserOf
  <1>5. Named(p, m) = s
    <2> HIDE DEF q, r, s, said, c
    <2> QED BY <1>1, <1>2, <1>3, <1>4
  <1> QED BY <1>5

LEMMA TextTakes ==
    ASSUME NEW p \in ParserRecord, p.state = "TEXT", NEW m, Leads(p.buf, Watched(p.state), m)
    PROVE  Turn(p) = Took(p, m, Before(p.buf, m), After(p.buf, m)) /\ Turn(p).state # p.state
  <1>1. Turn(p) = InText(p)
    BY DEF Turn
  <1>2. Watched(p.state) = {"<think>", "<tool_call>"}
    BY DEF Watched
  <1>3. m \in {"<think>", "<tool_call>"} /\ p.buf \in Seq(Alphabet) /\ "<think>" \in Markers /\ "<tool_call>" \in Markers
    BY <1>2 DEF Leads, ParserRecord, Markers
  <1>4. CASE m = "<think>"
    <2>1. First(p.buf, "<think>", "<tool_call>")
      BY <1>2, <1>3, <1>4, OneOrOther
    <2>2. Turn(p) = [Past(p, "<think>", "THINKING") EXCEPT !.client = Says(@, Before(p.buf, "<think>"))]
      BY <1>1, <2>1 DEF InText
    <2>3. Turn(p) = ParserOf("THINKING", After(p.buf, m), p.tc_index, p.name, p.arg_key, p.first_arg,
                              Says(p.client, Before(p.buf, m)))
      BY <1>4, <2>2, PastIs, FieldsOf DEF ParserOf
    <2> QED BY <1>4, <2>3, FieldsOf DEF Took, Tells, Enters
  <1>5. CASE m = "<tool_call>"
    <2>1. ~First(p.buf, "<think>", "<tool_call>") /\ Occurs(p.buf, "<tool_call>")
      BY <1>2, <1>3, <1>5, OneOrOther
    <2>2. Turn(p) = [Past(p, "<tool_call>", "TOOL_NAME") EXCEPT
            !.client = Says(@, Before(p.buf, "<tool_call>")), !.name = <<>>, !.first_arg = TRUE]
      BY <1>1, <2>1 DEF InText
    <2> DEFINE c == Says(p.client, Before(p.buf, m))
               q0 == ParserOf("TOOL_NAME", After(p.buf, m), p.tc_index, p.name, p.arg_key, p.first_arg, p.client)
               q1 == ParserOf("TOOL_NAME", After(p.buf, m), p.tc_index, p.name, p.arg_key, p.first_arg, c)
               q2 == ParserOf("TOOL_NAME", After(p.buf, m), p.tc_index, <<>>, p.arg_key, p.first_arg, c)
               q3 == ParserOf("TOOL_NAME", After(p.buf, m), p.tc_index, <<>>, p.arg_key, TRUE, c)
    <2>3. Past(p, "<tool_call>", "TOOL_NAME") = q0 /\ q0.client = p.client
      BY <1>5, PastIs, FieldsOf
    <2>4. Turn(p) = [[[q0 EXCEPT !.client = c] EXCEPT !.name = <<>>] EXCEPT !.first_arg = TRUE]
      BY <1>5, <2>2, <2>3
    <2>5. [q0 EXCEPT !.client = c] = q1
      BY DEF ParserOf
    <2>6. [q1 EXCEPT !.name = <<>>] = q2
      BY DEF ParserOf
    <2>7. [q2 EXCEPT !.first_arg = TRUE] = q3
      <3>1. \A x : [q2 EXCEPT !.first_arg = x] =
                ParserOf("TOOL_NAME", After(p.buf, m), p.tc_index, <<>>, p.arg_key, x, c)
        <4> HIDE DEF c
        <4> QED BY DEF ParserOf
      <3> HIDE DEF q2, c
      <3> QED BY <3>1, Zenon DEF q3
    <2>8. Turn(p) = q3
      <3> HIDE DEF q0, q1, q2, q3, c
      <3> QED BY <2>4, <2>5, <2>6, <2>7
    <2>9. Tells(p, m, Before(p.buf, m)) = c /\ Enters(m) = "TOOL_NAME"
      BY <1>5 DEF Tells, Enters
    <2>10. Took(p, m, Before(p.buf, m), After(p.buf, m)) = q3
      BY <1>5, <2>9 DEF Took
    <2>11. q3.state = "TOOL_NAME"
      BY DEF ParserOf
    <2> QED BY <2>8, <2>10, <2>11
  <1> QED BY <1>3, <1>4, <1>5

LEMMA ThinkingTakes ==
    ASSUME NEW p \in ParserRecord, p.state = "THINKING", NEW m, Leads(p.buf, Watched(p.state), m)
    PROVE  Turn(p) = Took(p, m, Before(p.buf, m), After(p.buf, m)) /\ Turn(p).state # p.state
  <1> DEFINE c == Reasons(p.client, Before(p.buf, m))
             q == ParserOf("TEXT", After(p.buf, m), p.tc_index, p.name, p.arg_key, p.first_arg, p.client)
             r == ParserOf("TEXT", After(p.buf, m), p.tc_index, p.name, p.arg_key, p.first_arg, c)
  <1>1. Turn(p) = InThinking(p)
    BY DEF Turn
  <1>2. m = "</think>" /\ Occurs(p.buf, "</think>")
    BY DEF Watched, Leads
  <1>3. Turn(p) = [Past(p, "</think>", "TEXT") EXCEPT !.client = Reasons(@, Before(p.buf, "</think>"))]
    BY <1>1, <1>2 DEF InThinking
  <1>4. Past(p, "</think>", "TEXT") = q /\ q.client = p.client
    BY <1>2, PastIs, FieldsOf
  <1>5. Turn(p) = [q EXCEPT !.client = c]
    BY <1>2, <1>3, <1>4
  <1>6. [q EXCEPT !.client = c] = r
    <2> HIDE DEF c
    <2> QED BY DEF ParserOf
  <1>7. Tells(p, m, Before(p.buf, m)) = c /\ Enters(m) = "TEXT"
    BY <1>2 DEF Tells, Enters
  <1>8. Took(p, m, Before(p.buf, m), After(p.buf, m)) = r
    BY <1>2, <1>7 DEF Took
  <1>9. r.state = "TEXT"
    BY DEF ParserOf
  <1> QED BY <1>5, <1>6, <1>8, <1>9

LEMMA NameTakes ==
    ASSUME NEW p \in ParserRecord, p.state = "TOOL_NAME", NEW m, Leads(p.buf, Watched(p.state), m)
    PROVE  Turn(p) = Took(p, m, Before(p.buf, m), After(p.buf, m)) /\ Turn(p).state # p.state
  <1> DEFINE said == Before(p.buf, m)
             c == Calls(p.client, said)
             q == ParserOf(p.state, p.buf, p.tc_index, said, p.arg_key, p.first_arg, c)
  <1>1. Turn(p) = InToolName(p)
    BY DEF Turn
  <1>2. Watched(p.state) = {"</tool_call>", "<arg_key>"}
    BY DEF Watched
  <1>3. m \in {"</tool_call>", "<arg_key>"} /\ p.buf \in Seq(Alphabet)
        /\ "</tool_call>" \in Markers /\ "<arg_key>" \in Markers
    BY <1>2 DEF Leads, ParserRecord, Markers
  <1>4. Named(p, m) = q
    BY NamedIs
  <1>5. CASE m = "</tool_call>"
    <2> DEFINE r == ParserOf("TEXT", After(p.buf, m), p.tc_index + 1, said, p.arg_key, p.first_arg,
                             Argues(c, p.tc_index, Brace))
    <2>1. First(p.buf, "</tool_call>", "<arg_key>")
      BY <1>2, <1>3, <1>5, OneOrOther
    <2>2. Turn(p) = CallEnds(q)
      BY <1>1, <1>4, <1>5, <2>1 DEF InToolName
    <2>3. CallEnds(q) = r
      <3>1. CallEnds(q) = ParserOf("TEXT", After(p.buf, "</tool_call>"), p.tc_index + 1, said, p.arg_key,
                                   p.first_arg, Argues(c, p.tc_index, Brace))
        <4> HIDE DEF c, said
        <4> QED BY CallEndsOf
      <3> HIDE DEF c, said, q
      <3> QED BY <1>5, <3>1
    <2>4. Tells(p, m, said) = Argues(c, p.tc_index, Brace) /\ Enters(m) = "TEXT"
      BY <1>5 DEF Tells, Enters, EndsCall
    <2>5. Took(p, m, said, After(p.buf, m)) = r
      BY <1>5, <2>4 DEF Took
    <2>6. r.state = "TEXT"
      BY DEF ParserOf
    <2> QED BY <2>2, <2>3, <2>5, <2>6
  <1>6. CASE m = "<arg_key>"
    <2> DEFINE r == ParserOf("TOOL_KEY", After(p.buf, m), p.tc_index, said, <<>>, p.first_arg, c)
    <2>1. ~First(p.buf, "</tool_call>", "<arg_key>") /\ Occurs(p.buf, "<arg_key>")
      BY <1>2, <1>3, <1>6, OneOrOther
    <2>2. Turn(p) = KeyBegins(q)
      BY <1>1, <1>4, <1>6, <2>1 DEF InToolName
    <2>3. KeyBegins(q) = r
      <3> HIDE DEF c, said
      <3> QED BY <1>6, KeyBeginsOf
    <2>4. Tells(p, m, said) = c /\ Enters(m) = "TOOL_KEY"
      BY <1>6 DEF Tells, Enters, EndsCall
    <2>5. Took(p, m, said, After(p.buf, m)) = r
      BY <1>6, <2>4 DEF Took
    <2>6. r.state = "TOOL_KEY"
      BY DEF ParserOf
    <2> QED BY <2>2, <2>3, <2>5, <2>6
  <1> QED BY <1>3, <1>5, <1>6

LEMMA WaitKeyTakes ==
    ASSUME NEW p \in ParserRecord, p.state = "TOOL_WAIT_KEY", NEW m, Leads(p.buf, Watched(p.state), m)
    PROVE  Turn(p) = Took(p, m, Before(p.buf, m), After(p.buf, m)) /\ Turn(p).state # p.state
  <1> DEFINE said == Before(p.buf, m)
             q == ParserOf(p.state, p.buf, p.tc_index, p.name, p.arg_key, p.first_arg, p.client)
  <1>1. Turn(p) = InWaitKey(p)
    BY DEF Turn
  <1>2. Watched(p.state) = {"</tool_call>", "<arg_key>"}
    BY DEF Watched
  <1>3. m \in {"</tool_call>", "<arg_key>"} /\ p.buf \in Seq(Alphabet)
        /\ "</tool_call>" \in Markers /\ "<arg_key>" \in Markers
    BY <1>2 DEF Leads, ParserRecord, Markers
  <1>4. p = q
    BY SameParser
  <1>5. CASE m = "</tool_call>"
    <2> DEFINE r == ParserOf("TEXT", After(p.buf, m), p.tc_index + 1, p.name, p.arg_key, p.first_arg,
                             Argues(p.client, p.tc_index, Brace))
    <2>1. First(p.buf, "</tool_call>", "<arg_key>")
      BY <1>2, <1>3, <1>5, OneOrOther
    <2>2. Turn(p) = CallEnds(p)
      BY <1>1, <2>1 DEF InWaitKey
    <2>3. CallEnds(q) = r
      <3>1. CallEnds(q) = ParserOf("TEXT", After(p.buf, "</tool_call>"), p.tc_index + 1, p.name, p.arg_key,
                                   p.first_arg, Argues(p.client, p.tc_index, Brace))
        BY CallEndsOf
      <3> HIDE DEF q
      <3> QED BY <1>5, <3>1
    <2>4. Tells(p, m, said) = Argues(p.client, p.tc_index, Brace) /\ Enters(m) = "TEXT"
      BY <1>5 DEF Tells, Enters, EndsCall
    <2>5. Took(p, m, said, After(p.buf, m)) = r
      BY <1>5, <2>4 DEF Took
    <2>6. r.state = "TEXT"
      BY DEF ParserOf
    <2>7. Turn(p) = r
      <3> HIDE DEF q, r
      <3> QED BY <1>4, <2>2, <2>3
    <2> QED BY <2>5, <2>6, <2>7
  <1>6. CASE m = "<arg_key>"
    <2> DEFINE r == ParserOf("TOOL_KEY", After(p.buf, m), p.tc_index, p.name, <<>>, p.first_arg, p.client)
    <2>1. ~First(p.buf, "</tool_call>", "<arg_key>") /\ Occurs(p.buf, "<arg_key>")
      BY <1>2, <1>3, <1>6, OneOrOther
    <2>2. Turn(p) = KeyBegins(p)
      BY <1>1, <2>1 DEF InWaitKey
    <2>3. KeyBegins(q) = r
      BY <1>6, KeyBeginsOf
    <2>4. Tells(p, m, said) = p.client /\ Enters(m) = "TOOL_KEY"
      BY <1>6 DEF Tells, Enters, EndsCall
    <2>5. Took(p, m, said, After(p.buf, m)) = r
      BY <1>6, <2>4 DEF Took
    <2>6. r.state = "TOOL_KEY"
      BY DEF ParserOf
    <2>7. Turn(p) = r
      <3> HIDE DEF q, r
      <3> QED BY <1>4, <2>2, <2>3
    <2> QED BY <2>5, <2>6, <2>7
  <1> QED BY <1>3, <1>5, <1>6

LEMMA KeyTakes ==
    ASSUME NEW p \in ParserRecord, p.state = "TOOL_KEY", NEW m, Leads(p.buf, Watched(p.state), m)
    PROVE  Turn(p) = Took(p, m, Before(p.buf, m), After(p.buf, m)) /\ Turn(p).state # p.state
  <1> DEFINE said == Before(p.buf, m)
             q == ParserOf("TOOL_WAIT_VAL", After(p.buf, m), p.tc_index, p.name, p.arg_key, p.first_arg, p.client)
             r == ParserOf("TOOL_WAIT_VAL", After(p.buf, m), p.tc_index, p.name, said, p.first_arg, p.client)
  <1>1. Turn(p) = InToolKey(p)
    BY DEF Turn
  <1>2. m = "</arg_key>" /\ Occurs(p.buf, "</arg_key>")
    BY DEF Watched, Leads
  <1>3. Turn(p) = [Past(p, m, "TOOL_WAIT_VAL") EXCEPT !.arg_key = said]
    BY <1>1, <1>2 DEF InToolKey
  <1>4. Past(p, m, "TOOL_WAIT_VAL") = q
    BY PastIs
  <1>5. [q EXCEPT !.arg_key = said] = r
    <2> HIDE DEF said
    <2> QED BY DEF ParserOf
  <1>6. Tells(p, m, said) = p.client /\ Enters(m) = "TOOL_WAIT_VAL"
    BY <1>2 DEF Tells, Enters
  <1>7. Took(p, m, said, After(p.buf, m)) = r
    BY <1>2, <1>6 DEF Took
  <1>8. r.state = "TOOL_WAIT_VAL"
    BY DEF ParserOf
  <1> QED BY <1>3, <1>4, <1>5, <1>7, <1>8

LEMMA WaitValTakes ==
    ASSUME NEW p \in ParserRecord, p.state = "TOOL_WAIT_VAL", NEW m, Leads(p.buf, Watched(p.state), m)
    PROVE  Turn(p) = Took(p, m, Before(p.buf, m), After(p.buf, m)) /\ Turn(p).state # p.state
  <1> DEFINE said == Before(p.buf, m)
             c == Argues(p.client, p.tc_index, ValueOpens(p))
             q == ParserOf("TOOL_VAL", After(p.buf, m), p.tc_index, p.name, p.arg_key, p.first_arg, p.client)
             r == ParserOf("TOOL_VAL", After(p.buf, m), p.tc_index, p.name, p.arg_key, p.first_arg, c)
             s == ParserOf("TOOL_VAL", After(p.buf, m), p.tc_index, p.name, p.arg_key, FALSE, c)
  <1>1. Turn(p) = InWaitVal(p)
    BY DEF Turn
  <1>2. m = "<arg_value>" /\ Occurs(p.buf, "<arg_value>")
    BY DEF Watched, Leads
  <1>3. Past(p, m, "TOOL_VAL") = q
    BY PastIs
  <1>4. q.client = p.client
    BY DEF ParserOf
  <1>5. Turn(p) = [[q EXCEPT !.client = c] EXCEPT !.first_arg = FALSE]
    <2> HIDE DEF q
    <2> QED BY <1>1, <1>2, <1>3, <1>4 DEF InWaitVal
  <1>6. [q EXCEPT !.client = c] = r
    <2> HIDE DEF c
    <2> QED BY DEF ParserOf
  <1>7. [r EXCEPT !.first_arg = FALSE] = s
    <2>1. \A x : [r EXCEPT !.first_arg = x] =
                   ParserOf("TOOL_VAL", After(p.buf, m), p.tc_index, p.name, p.arg_key, x, c)
      <3> HIDE DEF c
      <3> QED BY DEF ParserOf
    <2> HIDE DEF r, c
    <2> QED BY <2>1, Zenon DEF s
  <1>8. Tells(p, m, said) = c /\ Enters(m) = "TOOL_VAL"
    BY <1>2 DEF Tells, Enters
  <1>9. Took(p, m, said, After(p.buf, m)) = s
    BY <1>2, <1>8 DEF Took
  <1>10. s.state = "TOOL_VAL"
    BY DEF ParserOf
  <1>11. Turn(p) = s
    <2> HIDE DEF q, r, s, c
    <2> QED BY <1>5, <1>6, <1>7
  <1> QED BY <1>9, <1>10, <1>11

LEMMA ValTakes ==
    ASSUME NEW p \in ParserRecord, p.state = "TOOL_VAL", NEW m, Leads(p.buf, Watched(p.state), m)
    PROVE  Turn(p) = Took(p, m, Before(p.buf, m), After(p.buf, m)) /\ Turn(p).state # p.state
  <1> DEFINE said == Before(p.buf, m)
             c == Argues(p.client, p.tc_index, Encoded(p, said) \o ValueCloses(p))
             q == ParserOf("TOOL_WAIT_KEY", After(p.buf, m), p.tc_index, p.name, p.arg_key, p.first_arg, p.client)
             r == ParserOf("TOOL_WAIT_KEY", After(p.buf, m), p.tc_index, p.name, p.arg_key, p.first_arg, c)
  <1>1. Turn(p) = InToolVal(p)
    BY DEF Turn
  <1>2. m = "</arg_value>" /\ Occurs(p.buf, "</arg_value>")
    BY DEF Watched, Leads
  <1>3. Past(p, m, "TOOL_WAIT_KEY") = q
    BY PastIs
  <1>4. q.client = p.client
    BY DEF ParserOf
  <1>5. Turn(p) = [q EXCEPT !.client = c]
    <2> HIDE DEF q
    <2> QED BY <1>1, <1>2, <1>3, <1>4 DEF InToolVal
  <1>6. [q EXCEPT !.client = c] = r
    <2> HIDE DEF c
    <2> QED BY DEF ParserOf
  <1>7. Tells(p, m, said) = c /\ Enters(m) = "TOOL_WAIT_KEY"
    BY <1>2 DEF Tells, Enters
  <1>8. Took(p, m, said, After(p.buf, m)) = r
    BY <1>2, <1>7 DEF Took
  <1>9. r.state = "TOOL_WAIT_KEY"
    BY DEF ParserOf
  <1> QED BY <1>5, <1>6, <1>8, <1>9

\* A turn that finds a marker goes past it, into another state.
LEMMA TurnTakes ==
    ASSUME NEW p \in ParserRecord, NEW m, Leads(p.buf, Watched(p.state), m)
    PROVE  Turn(p) = Took(p, m, Before(p.buf, m), After(p.buf, m)) /\ Turn(p).state # p.state
  <1>1. p.state \in ParserStates
    BY DEF ParserRecord
  <1> QED BY <1>1, TextTakes, ThinkingTakes, NameTakes, WaitKeyTakes, KeyTakes, WaitValTakes, ValTakes
             DEF ParserStates

LEMMA KeepRestIs ==
    ASSUME NEW p \in ParserRecord
    PROVE  KeepRest(p) = ParserOf(p.state, Dropped(p.buf, Safe(p)), p.tc_index, p.name, p.arg_key, p.first_arg, p.client)
  <1> DEFINE q == ParserOf(p.state, p.buf, p.tc_index, p.name, p.arg_key, p.first_arg, p.client)
             rest == Dropped(p.buf, Safe(p))
             r == ParserOf(p.state, rest, p.tc_index, p.name, p.arg_key, p.first_arg, p.client)
  <1>1. p = q
    BY SameParser
  <1>2. KeepRest(p) = [p EXCEPT !.buf = rest]
    BY DEF KeepRest, Dropped
  <1>3. [q EXCEPT !.buf = rest] = r
    <2> HIDE DEF rest
    <2> QED BY DEF ParserOf
  <1>4. KeepRest(p) = r
    <2> HIDE DEF q, rest, r
    <2> QED BY <1>1, <1>2, <1>3
  <1> QED BY <1>4

\* A turn that finds nothing keeps what may be the beginning of a marker.
LEMMA TurnIdles ==
    ASSUME NEW p \in ParserRecord, Absent(p.buf, Watched(p.state))
    PROVE  Turn(p) = Idles(p) /\ Idles(p).state = p.state
  <1>1. Idles(p).state = p.state
    BY DEF Idles, ParserOf
  <1>2. p.state \in ParserStates /\ p.buf \in Seq(Alphabet)
    BY DEF ParserRecord
  <1>3. CASE p.state \in {"TEXT", "THINKING", "TOOL_VAL"}
    <2> DEFINE rest == Dropped(p.buf, Safe(p))
               c == Flushes(p, SafeText(p))
               q == ParserOf(p.state, rest, p.tc_index, p.name, p.arg_key, p.first_arg, p.client)
               r == ParserOf(p.state, rest, p.tc_index, p.name, p.arg_key, p.first_arg, c)
    <2>1. KeepRest(p) = q
      BY KeepRestIs
    <2>2. q.client = p.client
      BY DEF ParserOf
    <2>3. Turn(p) = [q EXCEPT !.client = c]
      <3> HIDE DEF q
      <3>1. CASE p.state = "TEXT"
        <4>1. Absent(p.buf, {"<think>", "<tool_call>"})
          BY <3>1 DEF Watched
        <4>2. "<think>" \in Markers /\ "<tool_call>" \in Markers
          BY DEF Markers
        <4>3. ~First(p.buf, "<think>", "<tool_call>") /\ ~Occurs(p.buf, "<tool_call>")
          BY <1>2, <4>1, <4>2, OneOrOther
        <4>4. Turn(p) = InText(p) /\ c = Says(p.client, SafeText(p))
          BY <3>1 DEF Turn, Flushes
        <4> HIDE DEF c
        <4> QED BY <2>1, <2>2, <4>3, <4>4 DEF InText
      <3>2. CASE p.state = "THINKING"
        <4>1. ~Occurs(p.buf, "</think>")
          BY <3>2 DEF Watched, Absent
        <4>2. Turn(p) = InThinking(p) /\ c = Reasons(p.client, SafeText(p))
          BY <3>2 DEF Turn, Flushes
        <4> HIDE DEF c
        <4> QED BY <2>1, <2>2, <4>1, <4>2 DEF InThinking
      <3>3. CASE p.state = "TOOL_VAL"
        <4>1. ~Occurs(p.buf, "</arg_value>")
          BY <3>3 DEF Watched, Absent
        <4>2. Turn(p) = InToolVal(p) /\ c = Argues(p.client, p.tc_index, Encoded(p, SafeText(p)))
          BY <3>3 DEF Turn, Flushes
        <4> HIDE DEF c
        <4> QED BY <2>1, <2>2, <4>1, <4>2 DEF InToolVal
      <3> QED BY <1>3, <3>1, <3>2, <3>3
    <2>4. [q EXCEPT !.client = c] = r
      <3> HIDE DEF c, rest
      <3> QED BY DEF ParserOf
    <2>5. Idles(p) = r
      BY <1>3 DEF Idles, Gone, SafeText
    <2> QED BY <1>1, <2>3, <2>4, <2>5
  <1>4. CASE p.state \notin {"TEXT", "THINKING", "TOOL_VAL"}
    <2>1. Turn(p) = p
      <3>1. CASE p.state \in {"TOOL_NAME", "TOOL_WAIT_KEY"}
        <4>1. Absent(p.buf, {"</tool_call>", "<arg_key>"})
          BY <3>1 DEF Watched
        <4>2. "</tool_call>" \in Markers /\ "<arg_key>" \in Markers
          BY DEF Markers
        <4>3. ~First(p.buf, "</tool_call>", "<arg_key>") /\ ~Occurs(p.buf, "<arg_key>")
          BY <1>2, <4>1, <4>2, OneOrOther
        <4> QED BY <3>1, <4>3 DEF Turn, InToolName, InWaitKey
      <3>2. CASE p.state = "TOOL_KEY"
        <4>1. ~Occurs(p.buf, "</arg_key>")
          BY <3>2 DEF Watched, Absent
        <4> QED BY <3>2, <4>1 DEF Turn, InToolKey
      <3>3. CASE p.state = "TOOL_WAIT_VAL"
        <4>1. ~Occurs(p.buf, "<arg_value>")
          BY <3>3 DEF Watched, Absent
        <4> QED BY <3>3, <4>1 DEF Turn, InWaitVal
      <3> QED BY <1>2, <1>4, <3>1, <3>2, <3>3 DEF ParserStates
    <2>2. Dropped(p.buf, 0) = p.buf
      BY <1>2 DEF Dropped
    <2>3. Flushes(p, SubSeq(p.buf, 1, Gone(p))) = p.client
      BY <1>2, <1>4 DEF Flushes, ParserStates
    <2>4. Gone(p) = 0
      BY <1>4 DEF Gone
    <2>5. Idles(p) = ParserOf(p.state, p.buf, p.tc_index, p.name, p.arg_key, p.first_arg, p.client)
      BY <2>2, <2>3, <2>4 DEF Idles
    <2> QED BY <1>1, <2>1, <2>5, SameParser
  <1> QED BY <1>3, <1>4

\* One or the other.
LEMMA FindsOrNot ==
    ASSUME NEW p \in ParserRecord
    PROVE  Absent(p.buf, Watched(p.state)) \/ \E m : Leads(p.buf, Watched(p.state), m)
  <1> DEFINE M == Watched(p.state)
             F == {Find(p.buf, m) : m \in {o \in M : Occurs(p.buf, o)}}
  <1>1. p.buf \in Seq(Alphabet) /\ M \subseteq Markers
    BY WatchedMarkers DEF ParserRecord
  <1> SUFFICES ASSUME ~Absent(p.buf, M) PROVE \E m : Leads(p.buf, M, m)
    OBVIOUS
  <1>2. F \subseteq Nat /\ F # {}
    BY <1>1, FindIs DEF Absent
  <1>3. PICK x \in F : \A y \in F : x <= y
    <2> HIDE DEF F
    <2> QED BY <1>2, LeastElement
  <1>4. PICK m \in M : Occurs(p.buf, m) /\ x = Find(p.buf, m)
    OBVIOUS
  <1>5. ASSUME NEW o \in M, o # m, Occurs(p.buf, o)
        PROVE  Find(p.buf, m) < Find(p.buf, o)
    <2>1. Find(p.buf, m) <= Find(p.buf, o) /\ Find(p.buf, m) \in Nat /\ Find(p.buf, o) \in Nat
      BY <1>2, <1>3, <1>4, <1>5
    <2>2. Find(p.buf, m) \in Places(p.buf, m) /\ Find(p.buf, o) \in Places(p.buf, o)
      BY <1>1, <1>4, <1>5, FindIs
    <2>3. Find(p.buf, m) # Find(p.buf, o)
      BY <1>1, <1>4, <1>5, <2>2, PlacesDiffer
    <2> QED BY <2>1, <2>3
  <1> QED BY <1>4, <1>5 DEF Leads

----------------------------------------------------------------------------
(* What a client puts together.                                             *)

ToolCalls == [name : Seq(Out), arguments : Seq(Out)]
ClientOf(content, reasoning, calls) == [content |-> content, reasoning |-> reasoning, calls |-> calls]

LEMMA SameClient ==
    ASSUME NEW c \in Clients
    PROVE  /\ c = ClientOf(c.content, c.reasoning, c.calls)
           /\ c.content \in Seq(Out) /\ c.reasoning \in Seq(Out) /\ c.calls \in Seq(ToolCalls)
  BY DEF Clients, ClientOf, ToolCalls

LEMMA ClientOfIs ==
    ASSUME NEW a \in Seq(Out), NEW b \in Seq(Out), NEW d \in Seq(ToolCalls)
    PROVE  ClientOf(a, b, d) \in Clients
  BY DEF Clients, ClientOf, ToolCalls

LEMMA PartsOfClient ==
    ASSUME NEW a, NEW b, NEW d
    PROVE  ClientOf(a, b, d).content = a /\ ClientOf(a, b, d).reasoning = b /\ ClientOf(a, b, d).calls = d
  BY DEF ClientOf

LEMMA SaysIs ==
    ASSUME NEW a, NEW b, NEW d, NEW s
    PROVE  Says(ClientOf(a, b, d), s) = ClientOf(a \o s, b, d)
  <1> DEFINE c == ClientOf(a, b, d)
  <1>1. Says(c, s) = [c EXCEPT !.content = c.content \o s] /\ c.content = a
    BY DEF Says, ClientOf
  <1>2. \A x : [c EXCEPT !.content = x] = ClientOf(x, b, d)
    BY DEF ClientOf
  <1> HIDE DEF c
  <1>3. Says(c, s) = ClientOf(a \o s, b, d)
    BY <1>1, <1>2
  <1> QED BY <1>3 DEF c

LEMMA ReasonsIs ==
    ASSUME NEW a, NEW b, NEW d, NEW s
    PROVE  Reasons(ClientOf(a, b, d), s) = ClientOf(a, b \o s, d)
  <1> DEFINE c == ClientOf(a, b, d)
  <1>1. Reasons(c, s) = [c EXCEPT !.reasoning = c.reasoning \o s] /\ c.reasoning = b
    BY DEF Reasons, ClientOf
  <1>2. \A x : [c EXCEPT !.reasoning = x] = ClientOf(a, x, d)
    BY DEF ClientOf
  <1> HIDE DEF c
  <1>3. Reasons(c, s) = ClientOf(a, b \o s, d)
    BY <1>1, <1>2
  <1> QED BY <1>3 DEF c

\* Call i of calls, with s after its arguments.
Longer(calls, i, s) == [calls EXCEPT ![i] = [name |-> calls[i].name, arguments |-> calls[i].arguments \o s]]

LEMMA LongerIs ==
    ASSUME NEW calls \in Seq(ToolCalls), NEW i \in 1 .. Len(calls), NEW s \in Seq(Out)
    PROVE  /\ [calls EXCEPT ![i].arguments = @ \o s] = Longer(calls, i, s)
           /\ Longer(calls, i, s) \in Seq(ToolCalls) /\ Len(Longer(calls, i, s)) = Len(calls)
           /\ Longer(calls, i, s)[i] = [name |-> calls[i].name, arguments |-> calls[i].arguments \o s]
           /\ \A j \in 1 .. Len(calls) : j # i => Longer(calls, i, s)[j] = calls[j]
  <1> DEFINE x == [name |-> calls[i].name, arguments |-> calls[i].arguments \o s]
  <1>1. calls[i] \in ToolCalls
    OBVIOUS
  <1>2. calls[i].name \in Seq(Out) /\ calls[i].arguments \in Seq(Out)
    BY <1>1 DEF ToolCalls
  <1>3. calls[i].arguments \o s \in Seq(Out)
    BY <1>2
  <1>4. x \in ToolCalls
    BY <1>2, <1>3 DEF ToolCalls
  <1>5. [calls[i] EXCEPT !.arguments = @ \o s] = x
    <2> DEFINE n == calls[i].name
               r == calls[i].arguments
               z == r \o s
    <2>1. calls[i] = [name |-> n, arguments |-> r]
      BY <1>1 DEF ToolCalls
    <2>2. [calls[i] EXCEPT !.arguments = @ \o s] = [calls[i] EXCEPT !.arguments = z]
      OBVIOUS
    <2> HIDE DEF n, r, z
    <2>3. [[name |-> n, arguments |-> r] EXCEPT !.arguments = z] = [name |-> n, arguments |-> z]
      OBVIOUS
    <2> QED BY <2>1, <2>2, <2>3 DEF n, r, z
  <1>6. [calls EXCEPT ![i].arguments = @ \o s] = [calls EXCEPT ![i] = [calls[i] EXCEPT !.arguments = @ \o s]]
    OBVIOUS
  <1> HIDE DEF x
  <1>7. Longer(calls, i, s) = [calls EXCEPT ![i] = x]
    BY DEF Longer, x
  <1>8. /\ [calls EXCEPT ![i] = x] \in Seq(ToolCalls) /\ Len([calls EXCEPT ![i] = x]) = Len(calls)
        /\ [calls EXCEPT ![i] = x][i] = x
        /\ \A j \in 1 .. Len(calls) : j # i => [calls EXCEPT ![i] = x][j] = calls[j]
    BY <1>4
  <1>9. [calls EXCEPT ![i].arguments = @ \o s] = Longer(calls, i, s)
    BY <1>5, <1>6, <1>7
  <1>10. Longer(calls, i, s)[i] = [name |-> calls[i].name, arguments |-> calls[i].arguments \o s]
    BY <1>7, <1>8 DEF x
  <1> QED BY <1>7, <1>8, <1>9, <1>10

LEMMA LongerTwice ==
    ASSUME NEW calls \in Seq(ToolCalls), NEW i \in 1 .. Len(calls), NEW s \in Seq(Out), NEW t \in Seq(Out)
    PROVE  Longer(Longer(calls, i, s), i, t) = Longer(calls, i, s \o t)
  <1> DEFINE u == Longer(calls, i, s)
             v == Longer(u, i, t)
             w == Longer(calls, i, s \o t)
  <1>1. s \o t \in Seq(Out)
    OBVIOUS
  <1>2. /\ u \in Seq(ToolCalls) /\ Len(u) = Len(calls)
        /\ u[i] = [name |-> calls[i].name, arguments |-> calls[i].arguments \o s]
        /\ \A j \in 1 .. Len(calls) : j # i => u[j] = calls[j]
    BY LongerIs, ZenonT(60)
  <1>3. /\ w \in Seq(ToolCalls) /\ Len(w) = Len(calls)
        /\ w[i] = [name |-> calls[i].name, arguments |-> calls[i].arguments \o (s \o t)]
        /\ \A j \in 1 .. Len(calls) : j # i => w[j] = calls[j]
    BY <1>1, LongerIs, ZenonT(60)
  <1>4. i \in 1 .. Len(u)
    BY <1>2
  <1>5. /\ v \in Seq(ToolCalls) /\ Len(v) = Len(u)
        /\ v[i] = [name |-> u[i].name, arguments |-> u[i].arguments \o t]
        /\ \A j \in 1 .. Len(u) : j # i => v[j] = u[j]
    <2> HIDE DEF u
    <2> QED BY <1>2, <1>4, LongerIs, ZenonT(60)
  <1>6. u[i].name = calls[i].name /\ u[i].arguments = calls[i].arguments \o s
    BY <1>2
  <1>7. (calls[i].arguments \o s) \o t = calls[i].arguments \o (s \o t)
    <2>1. calls[i] \in ToolCalls
      OBVIOUS
    <2>2. calls[i].arguments \in Seq(Out)
      BY <2>1 DEF ToolCalls
    <2> HIDE DEF u, v, w
    <2> DEFINE r == calls[i].arguments
    <2>3. r \in Seq(Out)
      BY <2>2
    <2> HIDE DEF r
    <2>4. (r \o s) \o t = r \o (s \o t)
      BY <2>3, ConcatAssociative, SMTT(30)
    <2> QED BY <2>4 DEF r
  <1> HIDE DEF u, v, w
  <1>8. v[i] = w[i]
    BY <1>3, <1>5, <1>6, <1>7
  <1>9. \A j \in 1 .. Len(calls) : v[j] = w[j]
    BY <1>2, <1>3, <1>5, <1>8
  <1>10. v = w
    <2>1. v = [j \in 1 .. Len(calls) |-> v[j]]
      BY <1>2, <1>5
    <2>2. w = [j \in 1 .. Len(calls) |-> w[j]]
      BY <1>3
    <2> QED BY <1>9, <2>1, <2>2
  <1> QED BY <1>10 DEF u, v, w

LEMMA ArguesIs ==
    ASSUME NEW a, NEW b, NEW calls \in Seq(ToolCalls), NEW n \in Nat, n < Len(calls), NEW s \in Seq(Out)
    PROVE  Argues(ClientOf(a, b, calls), n, s) = ClientOf(a, b, Longer(calls, n + 1, s))
  <1> DEFINE c == ClientOf(a, b, calls)
  <1>1. c.calls = calls
    BY DEF ClientOf
  <1>2. [calls EXCEPT ![n + 1].arguments = @ \o s] = Longer(calls, n + 1, s)
    <2> DEFINE i == n + 1
    <2>1. i \in 1 .. Len(calls)
      OBVIOUS
    <2> HIDE DEF i
    <2>2. [calls EXCEPT ![i].arguments = @ \o s] = Longer(calls, i, s)
      BY <2>1, LongerIs
    <2> QED BY <2>2 DEF i
  <1>3. \A x : [c EXCEPT !.calls = x] = ClientOf(a, b, x)
    BY DEF ClientOf
  <1> HIDE DEF c
  <1>4. Argues(c, n, s) = [c EXCEPT !.calls[n + 1].arguments = @ \o s]
    BY <1>1 DEF Argues
  <1>5. [c EXCEPT !.calls[n + 1].arguments = @ \o s] = [c EXCEPT !.calls = [c.calls EXCEPT ![n + 1].arguments = @ \o s]]
    OBVIOUS
  <1>6. Argues(c, n, s) = ClientOf(a, b, Longer(calls, n + 1, s))
    BY <1>1, <1>2, <1>3, <1>4, <1>5
  <1> QED BY <1>6 DEF c

Opening == <<"{">>

LEMMA CallsIs ==
    ASSUME NEW a, NEW b, NEW calls \in Seq(ToolCalls), NEW s \in Seq(Out)
    PROVE  /\ Calls(ClientOf(a, b, calls), s) =
                 ClientOf(a, b, Append(calls, [name |-> s, arguments |-> Opening]))
           /\ [name |-> s, arguments |-> Opening] \in ToolCalls
  <1> DEFINE c == ClientOf(a, b, calls)
             x == [name |-> s, arguments |-> Opening]
  <1>1. c.calls = calls
    BY DEF ClientOf
  <1>2. \A y : [c EXCEPT !.calls = y] = ClientOf(a, b, y)
    BY DEF ClientOf
  <1>3. Opening \in Seq(Out)
    <2>1. "{" \in Out
      BY DEF Out
    <2>2. \A o \in Out : <<o>> \in Seq(Out)
      OBVIOUS
    <2> QED BY <2>1, <2>2, Zenon DEF Opening
  <1>4. x \in ToolCalls
    BY <1>3 DEF ToolCalls
  <1>5. Calls(c, s) = [c EXCEPT !.calls = Append(c.calls, x)]
    BY DEF Calls, Opening
  <1> HIDE DEF c, x
  <1>6. Calls(c, s) = ClientOf(a, b, Append(calls, x))
    BY <1>1, <1>2, <1>5
  <1> QED BY <1>4, <1>6 DEF c, x

LEMMA SaysTwice ==
    ASSUME NEW c \in Clients, NEW s \in Seq(Out), NEW t \in Seq(Out)
    PROVE  /\ Says(c, s) \in Clients /\ Says(c, s).calls = c.calls
           /\ Says(Says(c, s), t) = Says(c, s \o t)
  <1> DEFINE a == c.content
             b == c.reasoning
             d == c.calls
             k == ClientOf(a, b, d)
  <1>1. c = k /\ a \in Seq(Out) /\ b \in Seq(Out) /\ d \in Seq(ToolCalls)
    BY SameClient
  <1> HIDE DEF a, b, d
  <1>2. a \o s \in Seq(Out) /\ (a \o s) \o t = a \o (s \o t)
    BY <1>1, ConcatAssociative
  <1>3. Says(k, s) = ClientOf(a \o s, b, d) /\ Says(k, s \o t) = ClientOf(a \o (s \o t), b, d)
    BY SaysIs
  <1>4. Says(ClientOf(a \o s, b, d), t) = ClientOf((a \o s) \o t, b, d)
    BY SaysIs
  <1>5. ClientOf(a \o s, b, d) \in Clients /\ ClientOf(a \o s, b, d).calls = d
    <2> DEFINE u == a \o s
    <2>1. u \in Seq(Out)
      BY <1>2
    <2> HIDE DEF u
    <2>2. ClientOf(u, b, d) \in Clients /\ ClientOf(u, b, d).calls = d
      BY <1>1, <2>1, ClientOfIs, PartsOfClient
    <2> QED BY <2>2 DEF u
  <1>6. d = c.calls
    BY DEF d
  <1> HIDE DEF k
  <1> QED BY <1>1, <1>2, <1>3, <1>4, <1>5, <1>6

LEMMA ReasonsTwice ==
    ASSUME NEW c \in Clients, NEW s \in Seq(Out), NEW t \in Seq(Out)
    PROVE  /\ Reasons(c, s) \in Clients /\ Reasons(c, s).calls = c.calls
           /\ Reasons(Reasons(c, s), t) = Reasons(c, s \o t)
  <1> DEFINE a == c.content
             b == c.reasoning
             d == c.calls
             k == ClientOf(a, b, d)
  <1>1. c = k /\ a \in Seq(Out) /\ b \in Seq(Out) /\ d \in Seq(ToolCalls)
    BY SameClient
  <1> HIDE DEF a, b, d
  <1>2. b \o s \in Seq(Out) /\ (b \o s) \o t = b \o (s \o t)
    BY <1>1, ConcatAssociative
  <1>3. Reasons(k, s) = ClientOf(a, b \o s, d) /\ Reasons(k, s \o t) = ClientOf(a, b \o (s \o t), d)
    BY ReasonsIs
  <1>4. Reasons(ClientOf(a, b \o s, d), t) = ClientOf(a, (b \o s) \o t, d)
    BY ReasonsIs
  <1>5. ClientOf(a, b \o s, d) \in Clients /\ ClientOf(a, b \o s, d).calls = d
    <2> DEFINE u == b \o s
    <2>1. u \in Seq(Out)
      BY <1>2
    <2> HIDE DEF u
    <2>2. ClientOf(a, u, d) \in Clients /\ ClientOf(a, u, d).calls = d
      BY <1>1, <2>1, ClientOfIs, PartsOfClient
    <2> QED BY <2>2 DEF u
  <1>6. d = c.calls
    BY DEF d
  <1> HIDE DEF k
  <1> QED BY <1>1, <1>2, <1>3, <1>4, <1>5, <1>6

LEMMA ArguesTwice ==
    ASSUME NEW c \in Clients, NEW n \in Nat, n < Len(c.calls), NEW s \in Seq(Out), NEW t \in Seq(Out)
    PROVE  /\ Argues(c, n, s) \in Clients /\ Len(Argues(c, n, s).calls) = Len(c.calls)
           /\ Argues(Argues(c, n, s), n, t) = Argues(c, n, s \o t)
  <1> DEFINE a == c.content
             b == c.reasoning
             d == c.calls
             k == ClientOf(a, b, d)
             e == Longer(d, n + 1, s)
  <1>1. c = k /\ a \in Seq(Out) /\ b \in Seq(Out) /\ d \in Seq(ToolCalls) /\ d = c.calls
    BY SameClient
  <1> HIDE DEF a, b, d
  <1>2. n < Len(d) /\ s \o t \in Seq(Out) /\ n + 1 \in 1 .. Len(d)
    BY <1>1
  <1>3. e \in Seq(ToolCalls) /\ Len(e) = Len(d) /\ Longer(e, n + 1, t) = Longer(d, n + 1, s \o t)
    <2> DEFINE i == n + 1
    <2>1. i \in 1 .. Len(d)
      BY <1>2
    <2> HIDE DEF i
    <2>2. /\ Longer(d, i, s) \in Seq(ToolCalls) /\ Len(Longer(d, i, s)) = Len(d)
          /\ Longer(Longer(d, i, s), i, t) = Longer(d, i, s \o t)
      <3>1. Longer(d, i, s) \in Seq(ToolCalls) /\ Len(Longer(d, i, s)) = Len(d)
        <4>1. d \in Seq(ToolCalls)
          BY <1>1
        <4> HIDE DEF k, e
        <4> QED BY <2>1, <4>1, LongerIs, Zenon
      <3>2. Longer(Longer(d, i, s), i, t) = Longer(d, i, s \o t)
        BY <1>1, <2>1, LongerTwice
      <3> QED BY <3>1, <3>2
    <2> QED BY <2>2 DEF i
  <1>4. Argues(k, n, s) = ClientOf(a, b, e) /\ Argues(k, n, s \o t) = ClientOf(a, b, Longer(d, n + 1, s \o t))
    <2> DEFINE st == s \o t
    <2>1. st \in Seq(Out)
      BY <1>2
    <2> HIDE DEF st
    <2>2. Argues(k, n, s) = ClientOf(a, b, e) /\ Argues(k, n, st) = ClientOf(a, b, Longer(d, n + 1, st))
      BY <1>1, <1>2, <2>1, ArguesIs
    <2> QED BY <2>2 DEF st
  <1> HIDE DEF e
  <1>5. Argues(ClientOf(a, b, e), n, t) = ClientOf(a, b, Longer(e, n + 1, t))
    BY <1>2, <1>3, ArguesIs
  <1>6. ClientOf(a, b, e) \in Clients /\ ClientOf(a, b, e).calls = e
    BY <1>1, <1>3, ClientOfIs, PartsOfClient
  <1> HIDE DEF k
  <1> QED BY <1>1, <1>3, <1>4, <1>5, <1>6

LEMMA CallsOnce ==
    ASSUME NEW c \in Clients, NEW s \in Seq(Out)
    PROVE  Calls(c, s) \in Clients /\ Len(Calls(c, s).calls) = Len(c.calls) + 1
  <1> DEFINE a == c.content
             b == c.reasoning
             d == c.calls
             k == ClientOf(a, b, d)
             x == [name |-> s, arguments |-> Opening]
  <1>1. c = k /\ a \in Seq(Out) /\ b \in Seq(Out) /\ d \in Seq(ToolCalls) /\ d = c.calls
    BY SameClient
  <1> HIDE DEF a, b, d
  <1>2. Calls(k, s) = ClientOf(a, b, Append(d, x)) /\ x \in ToolCalls
    BY <1>1, CallsIs
  <1> HIDE DEF x
  <1>3. Append(d, x) \in Seq(ToolCalls) /\ Len(Append(d, x)) = Len(d) + 1
    BY <1>1, <1>2
  <1>4. ClientOf(a, b, Append(d, x)) \in Clients /\ ClientOf(a, b, Append(d, x)).calls = Append(d, x)
    <2> DEFINE u == Append(d, x)
    <2>1. u \in Seq(ToolCalls)
      BY <1>3
    <2> HIDE DEF u
    <2>2. ClientOf(a, b, u) \in Clients /\ ClientOf(a, b, u).calls = u
      BY <1>1, <2>1, ClientOfIs, PartsOfClient
    <2> QED BY <2>2 DEF u
  <1> HIDE DEF k
  <1> QED BY <1>1, <1>2, <1>3, <1>4

LEMMA OneSymbol ==
    /\ <<"{">> \in Seq(Out) /\ <<"}">> \in Seq(Out) /\ <<":">> \in Seq(Out) /\ <<",">> \in Seq(Out)
    /\ <<"\"">> \in Seq(Out) /\ <<>> \in Seq(Out)
  <1>1. \A o \in Out : <<o>> \in Seq(Out)
    OBVIOUS
  <1>2. "{" \in Out /\ "}" \in Out /\ ":" \in Out /\ "," \in Out /\ "\"" \in Out
    BY DEF Out
  <1>3. <<>> \in Seq(Out)
    OBVIOUS
  <1> QED BY <1>1, <1>2, <1>3, Zenon

\* What is sent is made of what the engine prints and of JSON's own symbols.
LEMMA TextsOf ==
    ASSUME NEW p \in ParserRecord, NEW s \in Seq(Alphabet)
    PROVE  /\ s \in Seq(Out) /\ Brace \in Seq(Out) /\ ValueOpens(p) \in Seq(Out)
           /\ Encoded(p, s) \in Seq(Out) /\ ValueCloses(p) \in Seq(Out)
  <1>1. s \in Seq(Out)
    <2>1. \A i \in 1 .. Len(s) : s[i] \in Out
      <3>1. Alphabet \subseteq Out
        BY DEF Out
      <3>2. \A i \in 1 .. Len(s) : s[i] \in Alphabet
        OBVIOUS
      <3> QED BY <3>1, <3>2
    <2>2. Len(s) \in Nat /\ s = [i \in 1 .. Len(s) |-> s[i]]
      OBVIOUS
    <2> QED BY <2>1, <2>2
  <1>2. Brace \in Seq(Out)
    BY OneSymbol DEF Brace
  <1>3. Encoded(p, s) \in Seq(Out)
    BY <1>1, EscapedText DEF Encoded
  <1>4. ValueCloses(p) \in Seq(Out)
    BY OneSymbol, Zenon DEF ValueCloses
  <1>5. ValueOpens(p) \in Seq(Out)
    <2> DEFINE u == IF p.first_arg THEN <<>> ELSE <<",">>
               v == Quoted(p.arg_key)
               w == <<":">>
               x == IF IsString(p) THEN <<"\"">> ELSE <<>>
    <2>1. u \in Seq(Out) /\ w \in Seq(Out) /\ x \in Seq(Out)
      BY OneSymbol, Zenon
    <2>2. v \in Seq(Out)
      <3> DEFINE q == <<"\"">>
                 e == Escaped(p.arg_key)
      <3>1. q \in Seq(Out)
        BY OneSymbol, Zenon
      <3>2. e \in Seq(Out)
        BY EscapedText DEF ParserRecord
      <3>3. v = q \o e \o q
        BY DEF Quoted
      <3> HIDE DEF q, e, v
      <3> QED BY <3>1, <3>2, <3>3
    <2>3. ValueOpens(p) = u \o v \o w \o x
      BY DEF ValueOpens
    <2> HIDE DEF u, v, w, x
    <2> QED BY <2>1, <2>2, <2>3
  <1> QED BY <1>1, <1>2, <1>3, <1>4, <1>5

LEMMA ParserOfIs ==
    ASSUME NEW a \in ParserStates, NEW b \in Seq(Alphabet), NEW c \in Nat, NEW d \in Seq(Alphabet),
           NEW e \in Seq(Alphabet), NEW f \in BOOLEAN, NEW g \in Clients
    PROVE  ParserOf(a, b, c, d, e, f, g) \in ParserRecord
  BY DEF ParserOf, ParserRecord

LEMMA FieldsAre ==
    ASSUME NEW p \in ParserRecord
    PROVE  /\ p.state \in ParserStates /\ p.buf \in Seq(Alphabet) /\ p.tc_index \in Nat /\ p.name \in Seq(Alphabet)
           /\ p.arg_key \in Seq(Alphabet) /\ p.first_arg \in BOOLEAN /\ p.client \in Clients
  BY DEF ParserRecord

\* What is sent in a turn does not depend on the rest of the buffer.
LEMMA Alike ==
    ASSUME NEW p, NEW q, p.state = q.state, p.tc_index = q.tc_index, p.name = q.name, p.arg_key = q.arg_key,
           p.first_arg = q.first_arg
    PROVE  /\ IsString(p) = IsString(q) /\ ValueOpens(p) = ValueOpens(q) /\ ValueCloses(p) = ValueCloses(q)
           /\ \A s : Encoded(p, s) = Encoded(q, s)
           /\ p.client = q.client => \A m, s : Tells(p, m, s) = Tells(q, m, s) /\ Flushes(p, s) = Flushes(q, s)
  <1>1. IsString(p) = IsString(q)
    BY DEF IsString
  <1>2. ValueOpens(p) = ValueOpens(q)
    BY <1>1, Zenon DEF ValueOpens
  <1>3. ValueCloses(p) = ValueCloses(q)
    BY <1>1, Zenon DEF ValueCloses
  <1>4. \A s : Encoded(p, s) = Encoded(q, s)
    BY <1>1, Zenon DEF Encoded
  <1>5. ASSUME p.client = q.client, NEW m, NEW s
        PROVE  Tells(p, m, s) = Tells(q, m, s) /\ Flushes(p, s) = Flushes(q, s)
    <2>1. Tells(p, m, s) = Tells(q, m, s)
      BY <1>2, <1>3, <1>4, <1>5, Zenon DEF Tells, EndsCall
    <2>2. Flushes(p, s) = Flushes(q, s)
      BY <1>4, <1>5, Zenon DEF Flushes
    <2> QED BY <2>1, <2>2
  <1> QED BY <1>1, <1>2, <1>3, <1>4, <1>5, Zenon

LEMMA FlushesIs ==
    ASSUME NEW p \in Parsers, NEW s \in Seq(Alphabet)
    PROVE  Flushes(p, s) \in Clients /\ Len(Flushes(p, s).calls) = Len(p.client.calls)
  <1>1. p \in ParserRecord /\ p.client \in Clients /\ p.tc_index \in Nat /\ p.state \in ParserStates
    BY FieldsAre DEF Parsers
  <1>2. s \in Seq(Out) /\ Encoded(p, s) \in Seq(Out)
    BY <1>1, TextsOf
  <1>3. CASE p.state = "TEXT"
    BY <1>1, <1>2, <1>3, SaysTwice DEF Flushes
  <1>4. CASE p.state = "THINKING"
    BY <1>1, <1>2, <1>4, ReasonsTwice DEF Flushes
  <1>5. CASE p.state = "TOOL_VAL"
    <2>1. p.tc_index < Len(p.client.calls)
      BY <1>1, <1>5 DEF Parsers, Numbered
    <2> QED BY <1>1, <1>2, <1>5, <2>1, ArguesTwice DEF Flushes
  <1>6. CASE p.state \notin {"TEXT", "THINKING", "TOOL_VAL"}
    BY <1>1, <1>6 DEF Flushes
  <1> QED BY <1>3, <1>4, <1>5, <1>6

\* The number of the call under way, and whether the client knows of it.
Counted(state, tc_index) == tc_index + (IF state \in {"TEXT", "THINKING", "TOOL_NAME"} THEN 0 ELSE 1)

LEMMA TellsIs ==
    ASSUME NEW p \in Parsers, NEW m \in Watched(p.state), NEW s \in Seq(Alphabet)
    PROVE  /\ Tells(p, m, s) \in Clients
           /\ Len(Tells(p, m, s).calls) =
                Counted(Enters(m), IF m = "</tool_call>" THEN p.tc_index + 1 ELSE p.tc_index)
           /\ Enters(m) \in ParserStates
  <1>1. p \in ParserRecord /\ p.client \in Clients /\ p.tc_index \in Nat /\ p.state \in ParserStates
    BY FieldsAre DEF Parsers
  <1>2. /\ s \in Seq(Out) /\ Brace \in Seq(Out) /\ ValueOpens(p) \in Seq(Out)
        /\ Encoded(p, s) \o ValueCloses(p) \in Seq(Out)
    BY <1>1, TextsOf
  <1>3. Len(p.client.calls) = Counted(p.state, p.tc_index)
    BY DEF Parsers, Numbered, Counted
  <1>4. CASE p.state = "TEXT"
    <2>1. m \in {"<think>", "<tool_call>"}
      BY <1>4 DEF Watched
    <2>2. Tells(p, m, s) = Says(p.client, s)
      BY <1>4 DEF Tells
    <2>3. Enters(m) \in {"THINKING", "TOOL_NAME"} /\ m # "</tool_call>"
      BY <2>1 DEF Enters
    <2> QED BY <1>1, <1>2, <1>3, <1>4, <2>2, <2>3, SaysTwice DEF Counted, ParserStates
  <1>5. CASE p.state = "THINKING"
    <2>1. m = "</think>"
      BY <1>5 DEF Watched
    <2>2. Tells(p, m, s) = Reasons(p.client, s)
      BY <1>5 DEF Tells
    <2>3. Enters(m) = "TEXT"
      BY <2>1 DEF Enters
    <2> QED BY <1>1, <1>2, <1>3, <1>5, <2>1, <2>2, <2>3, ReasonsTwice DEF Counted, ParserStates
  <1>6. CASE p.state \in {"TOOL_NAME", "TOOL_WAIT_KEY"}
    <2> DEFINE c == IF p.state = "TOOL_NAME" THEN Calls(p.client, s) ELSE p.client
    <2>1. m \in {"</tool_call>", "<arg_key>"}
      BY <1>6 DEF Watched
    <2>2. Tells(p, m, s) = EndsCall(p, c, m)
      BY <1>6 DEF Tells
    <2>3. c \in Clients /\ Len(c.calls) = p.tc_index + 1
      <3>1. CASE p.state = "TOOL_NAME"
        <4>1. c = Calls(p.client, s) /\ Len(p.client.calls) = p.tc_index
          BY <1>1, <1>3, <3>1 DEF Counted
        <4>2. Calls(p.client, s) \in Clients /\ Len(Calls(p.client, s).calls) = Len(p.client.calls) + 1
          BY <1>1, <1>2, CallsOnce
        <4> QED BY <4>1, <4>2
      <3>2. CASE p.state = "TOOL_WAIT_KEY"
        BY <1>1, <1>3, <3>2 DEF Counted
      <3> QED BY <1>6, <3>1, <3>2
    <2> HIDE DEF c
    <2>4. CASE m = "</tool_call>"
      <3>1. Enters(m) = "TEXT"
        BY <2>4 DEF Enters
      <3>2. Tells(p, m, s) = Argues(c, p.tc_index, Brace)
        BY <2>2, <2>4 DEF EndsCall
      <3>3. p.tc_index < Len(c.calls)
        BY <1>1, <2>3
      <3>4. Argues(c, p.tc_index, Brace) \in Clients /\ Len(Argues(c, p.tc_index, Brace).calls) = p.tc_index + 1
        BY <1>1, <1>2, <2>3, <3>3, ArguesTwice
      <3> QED BY <1>1, <2>4, <3>1, <3>2, <3>4 DEF Counted, ParserStates
    <2>5. CASE m = "<arg_key>"
      <3>1. Enters(m) = "TOOL_KEY"
        BY <2>5 DEF Enters
      <3>2. Tells(p, m, s) = c
        BY <2>2, <2>5 DEF EndsCall
      <3> QED BY <1>1, <2>3, <2>5, <3>1, <3>2 DEF Counted, ParserStates
    <2> QED BY <2>1, <2>4, <2>5
  <1>7. CASE p.state = "TOOL_KEY"
    <2>1. m = "</arg_key>"
      BY <1>7 DEF Watched
    <2>2. Tells(p, m, s) = p.client
      BY <1>7 DEF Tells
    <2>3. Enters(m) = "TOOL_WAIT_VAL"
      BY <2>1 DEF Enters
    <2> QED BY <1>1, <1>3, <1>7, <2>1, <2>2, <2>3 DEF Counted, ParserStates
  <1>8. CASE p.state \in {"TOOL_WAIT_VAL", "TOOL_VAL"}
    <2> DEFINE x == IF p.state = "TOOL_WAIT_VAL" THEN ValueOpens(p) ELSE Encoded(p, s) \o ValueCloses(p)
    <2>1. m \in {"<arg_value>", "</arg_value>"}
      BY <1>8 DEF Watched
    <2>2. Tells(p, m, s) = Argues(p.client, p.tc_index, x)
      BY <1>8, Zenon DEF Tells
    <2>3. x \in Seq(Out)
      BY <1>2
    <2>4. Enters(m) \in {"TOOL_VAL", "TOOL_WAIT_KEY"} /\ m # "</tool_call>"
      BY <2>1 DEF Enters
    <2>5. p.tc_index < Len(p.client.calls) /\ Len(p.client.calls) = p.tc_index + 1
      BY <1>1, <1>3, <1>8 DEF Counted
    <2> HIDE DEF x
    <2>6. Argues(p.client, p.tc_index, x) \in Clients /\ Len(Argues(p.client, p.tc_index, x).calls) = p.tc_index + 1
      BY <1>1, <2>3, <2>5, ArguesTwice
    <2> QED BY <1>1, <2>2, <2>4, <2>6 DEF Counted, ParserStates
  <1> QED BY <1>1, <1>4, <1>5, <1>6, <1>7, <1>8 DEF ParserStates

LEMMA TookIs ==
    ASSUME NEW p \in Parsers, NEW m \in Watched(p.state), NEW said \in Seq(Alphabet), NEW rest \in Seq(Alphabet)
    PROVE  Took(p, m, said, rest) \in Parsers /\ Took(p, m, said, rest).buf = rest
  <1> DEFINE a == Enters(m)
             c == IF m = "</tool_call>" THEN p.tc_index + 1 ELSE p.tc_index
             d == IF m = "<tool_call>" THEN <<>> ELSE IF p.state = "TOOL_NAME" THEN said ELSE p.name
             e == IF m = "<arg_key>" THEN <<>> ELSE IF m = "</arg_key>" THEN said ELSE p.arg_key
             f == IF m = "<tool_call>" THEN TRUE ELSE IF m = "<arg_value>" THEN FALSE ELSE p.first_arg
             g == Tells(p, m, said)
             q == ParserOf(a, rest, c, d, e, f, g)
  <1>1. p \in ParserRecord
    BY DEF Parsers
  <1>2. a \in ParserStates /\ g \in Clients /\ Len(g.calls) = Counted(a, c)
    BY TellsIs
  <1>3. c \in Nat
    BY <1>1, FieldsAre
  <1>4. d \in Seq(Alphabet)
    BY <1>1, FieldsAre
  <1>5. e \in Seq(Alphabet)
    BY <1>1, FieldsAre
  <1>6. f \in BOOLEAN
    BY <1>1, FieldsAre, Zenon
  <1>7. Took(p, m, said, rest) = q
    BY Zenon DEF Took
  <1> HIDE DEF a, c, d, e, f, g
  <1>8. q \in ParserRecord
    BY <1>2, <1>3, <1>4, <1>5, <1>6, ParserOfIs
  <1>9. q.state = a /\ q.tc_index = c /\ q.client = g /\ q.buf = rest
    BY DEF ParserOf
  <1> HIDE DEF q
  <1> QED BY <1>2, <1>7, <1>8, <1>9 DEF Parsers, Numbered, Counted

LEMMA IdlesIs ==
    ASSUME NEW p \in Parsers
    PROVE  /\ Idles(p) \in Parsers /\ Gone(p) \in 0 .. Len(p.buf)
           /\ (Absent(p.buf, Watched(p.state)) => MayGo(p.buf, Watched(p.state), Gone(p)))
           /\ Dropped(p.buf, Gone(p)) \in Seq(Alphabet) /\ SubSeq(p.buf, 1, Gone(p)) \in Seq(Alphabet)
  <1> DEFINE n == Gone(p)
             b == Dropped(p.buf, n)
             g == Flushes(p, SubSeq(p.buf, 1, n))
             q == ParserOf(p.state, b, p.tc_index, p.name, p.arg_key, p.first_arg, g)
  <1>1. p \in ParserRecord /\ p.buf \in Seq(Alphabet) /\ Len(p.buf) \in Nat
    BY FieldsAre DEF Parsers
  <1>2. n \in 0 .. Len(p.buf) /\ (n = 0 \/ n + MaxLookahead <= Len(p.buf))
    BY <1>1 DEF Gone, Safe, MaxLookahead
  <1> HIDE DEF n
  <1>3. b \in Seq(Alphabet) /\ SubSeq(p.buf, 1, n) \in Seq(Alphabet)
    BY <1>1, <1>2, DroppedIs, TakenIs
  <1>4. g \in Clients /\ Len(g.calls) = Len(p.client.calls)
    BY <1>3, FlushesIs
  <1> HIDE DEF b, g
  <1>5. q \in ParserRecord
    BY <1>1, <1>3, <1>4, FieldsAre, ParserOfIs
  <1>6. q.state = p.state /\ q.tc_index = p.tc_index /\ q.client = g
    BY DEF ParserOf
  <1>7. Idles(p) = q
    BY DEF Idles, n, b, g
  <1> HIDE DEF q
  <1>8. Numbered(p)
    BY DEF Parsers
  <1>9. Idles(p) \in Parsers
    BY <1>4, <1>5, <1>6, <1>7, <1>8 DEF Parsers, Numbered
  <1>10. Absent(p.buf, Watched(p.state)) => MayGo(p.buf, Watched(p.state), n)
    BY <1>2 DEF MayGo
  <1> QED BY <1>2, <1>3, <1>9, <1>10 DEF n, b

----------------------------------------------------------------------------
(* More of the text.                                                        *)

Plus(p, b) == [p EXCEPT !.buf = @ \o b]

LEMMA PlusIs ==
    ASSUME NEW p \in Parsers, NEW b \in Seq(Alphabet)
    PROVE  /\ Plus(p, b) = ParserOf(p.state, p.buf \o b, p.tc_index, p.name, p.arg_key, p.first_arg, p.client)
           /\ Plus(p, b) \in Parsers /\ Plus(p, b).buf = p.buf \o b /\ p.buf \o b \in Seq(Alphabet)
           /\ Plus(p, b).state = p.state /\ Plus(p, b).tc_index = p.tc_index /\ Plus(p, b).name = p.name
           /\ Plus(p, b).arg_key = p.arg_key /\ Plus(p, b).first_arg = p.first_arg /\ Plus(p, b).client = p.client
  <1> DEFINE k == ParserOf(p.state, p.buf, p.tc_index, p.name, p.arg_key, p.first_arg, p.client)
             x == p.buf \o b
             q == ParserOf(p.state, x, p.tc_index, p.name, p.arg_key, p.first_arg, p.client)
  <1>1. p \in ParserRecord
    BY DEF Parsers
  <1>2. p = k
    BY <1>1, SameParser
  <1>3. Plus(p, b) = [p EXCEPT !.buf = x]
    BY DEF Plus
  <1>4. x \in Seq(Alphabet)
    BY <1>1, FieldsAre
  <1> HIDE DEF x
  <1>5. [k EXCEPT !.buf = x] = q
    BY DEF ParserOf
  <1>6. q \in ParserRecord
    BY <1>1, <1>4, FieldsAre, ParserOfIs
  <1>7. q.state = p.state /\ q.tc_index = p.tc_index /\ q.client = p.client /\ q.name = p.name
        /\ q.arg_key = p.arg_key /\ q.first_arg = p.first_arg /\ q.buf = x
    BY DEF ParserOf
  <1>8. Plus(p, b) = q
    <2> HIDE DEF k, q
    <2> QED BY <1>2, <1>3, <1>5
  <1>9. q \in Parsers
    <2> HIDE DEF q
    <2>1. Numbered(p)
      BY DEF Parsers
    <2> QED BY <1>6, <1>7, <2>1 DEF Parsers, Numbered
  <1>10. q.buf = p.buf \o b /\ p.buf \o b \in Seq(Alphabet)
    BY <1>4, <1>7 DEF x
  <1>11. Plus(p, b) = ParserOf(p.state, p.buf \o b, p.tc_index, p.name, p.arg_key, p.first_arg, p.client)
    BY <1>8 DEF x
  <1> HIDE DEF q
  <1> QED BY <1>7, <1>8, <1>9, <1>10, <1>11

\* A turn that finds a marker is the same turn if more of the text is there.
LEMMA TookMore ==
    ASSUME NEW p \in Parsers, NEW m, Leads(p.buf, Watched(p.state), m), NEW b \in Seq(Alphabet)
    PROVE  Turn(Plus(p, b)) = Plus(Turn(p), b) /\ Turn(p) \in Parsers
           /\ Turn(p).state # p.state /\ Turn(Plus(p, b)).state # Plus(p, b).state
           /\ Len(Turn(p).buf) < Len(p.buf)
  <1> DEFINE P == Plus(p, b)
             said == Before(p.buf, m)
             rest == After(p.buf, m)
             t == Took(p, m, said, rest)
  <1>1. p \in ParserRecord /\ p.buf \in Seq(Alphabet) /\ p.state \in ParserStates
    BY FieldsAre DEF Parsers
  <1>2. m \in Watched(p.state) /\ m \in Markers /\ Watched(p.state) \subseteq Markers /\ Occurs(p.buf, m)
    BY <1>1, WatchedMarkers DEF Leads
  <1>3. said \in Seq(Alphabet) /\ rest \in Seq(Alphabet) /\ Len(rest) < Len(p.buf)
    BY <1>1, <1>2, AtPlace
  <1>4. Turn(p) = t /\ Turn(p).state # p.state
    BY <1>1, TurnTakes
  <1>5. t \in Parsers /\ t.buf = rest
    BY <1>2, <1>3, TookIs
  <1>6. /\ Leads(p.buf \o b, Watched(p.state), m) /\ Before(p.buf \o b, m) = said
        /\ After(p.buf \o b, m) = rest \o b
    BY <1>1, <1>2, LeadsOfMore
  <1>7. /\ P \in Parsers /\ P \in ParserRecord /\ P.buf = p.buf \o b /\ P.state = p.state /\ P.tc_index = p.tc_index
        /\ P.name = p.name /\ P.arg_key = p.arg_key /\ P.first_arg = p.first_arg /\ P.client = p.client
    BY PlusIs DEF Parsers
  <1> HIDE DEF P, said, rest
  <1>8. Turn(P) = Took(P, m, said, rest \o b) /\ Turn(P).state # P.state
    <2>1. Leads(P.buf, Watched(P.state), m)
      BY <1>6, <1>7
    <2>2. Turn(P) = Took(P, m, Before(P.buf, m), After(P.buf, m)) /\ Turn(P).state # P.state
      BY <1>7, <2>1, TurnTakes
    <2> QED BY <1>6, <1>7, <2>2
  <1>9. Took(P, m, said, rest \o b) = Plus(t, b)
    <2> DEFINE a == Enters(m)
               c == IF m = "</tool_call>" THEN p.tc_index + 1 ELSE p.tc_index
               d == IF m = "<tool_call>" THEN <<>> ELSE IF p.state = "TOOL_NAME" THEN said ELSE p.name
               e == IF m = "<arg_key>" THEN <<>> ELSE IF m = "</arg_key>" THEN said ELSE p.arg_key
               f == IF m = "<tool_call>" THEN TRUE ELSE IF m = "<arg_value>" THEN FALSE ELSE p.first_arg
               g == Tells(p, m, said)
    <2>1. Tells(P, m, said) = g
      <3>1. \A x, s : Tells(P, x, s) = Tells(p, x, s) /\ Flushes(P, s) = Flushes(p, s)
        BY <1>7, Alike
      <3> QED BY <3>1
    <2>2. Took(P, m, said, rest \o b) = ParserOf(a, rest \o b, c, d, e, f, g)
      BY <1>7, <2>1, Zenon DEF Took
    <2>3. t = ParserOf(a, rest, c, d, e, f, g)
      BY Zenon DEF Took
    <2> HIDE DEF a, c, d, e, f, g, t
    <2>4. t.state = a /\ t.tc_index = c /\ t.name = d /\ t.arg_key = e /\ t.first_arg = f /\ t.client = g
      BY <2>3, FieldsOf
    <2>5. Plus(t, b) = ParserOf(t.state, t.buf \o b, t.tc_index, t.name, t.arg_key, t.first_arg, t.client)
      BY <1>5, PlusIs
    <2> QED BY <1>5, <2>2, <2>4, <2>5
  <1> HIDE DEF t
  <1> QED BY <1>3, <1>4, <1>5, <1>8, <1>9 DEF P

LEMMA EncodedJoins ==
    ASSUME NEW p \in ParserRecord, NEW s \in Seq(Alphabet), NEW t \in Seq(Alphabet)
    PROVE  /\ s \o t \in Seq(Alphabet)
           /\ Encoded(p, s \o t) = Encoded(p, s) \o Encoded(p, t)
           /\ Encoded(p, s \o t) \o ValueCloses(p) = Encoded(p, s) \o (Encoded(p, t) \o ValueCloses(p))
  <1>1. s \o t \in Seq(Alphabet)
    OBVIOUS
  <1>2. Encoded(p, s \o t) = Encoded(p, s) \o Encoded(p, t)
    BY EscapedJoins DEF Encoded
  <1>3. Encoded(p, s) \in Seq(Out) /\ Encoded(p, t) \in Seq(Out) /\ ValueCloses(p) \in Seq(Out)
    BY TextsOf
  <1> QED BY <1>1, <1>2, <1>3, ConcatAssociative

\* What was let go and what is said later add up to what is said at once.
LEMMA SaidInTwo ==
    ASSUME NEW p \in Parsers, p.state \in {"TEXT", "THINKING", "TOOL_VAL"},
           NEW s \in Seq(Alphabet), NEW t \in Seq(Alphabet), NEW q,
           q.state = p.state, q.tc_index = p.tc_index, q.name = p.name, q.arg_key = p.arg_key,
           q.first_arg = p.first_arg, q.client = Flushes(p, s)
    PROVE  Flushes(q, t) = Flushes(p, s \o t) /\ \A m : Tells(q, m, t) = Tells(p, m, s \o t)
  <1>1. p \in ParserRecord /\ p.client \in Clients /\ p.tc_index \in Nat
    BY FieldsAre DEF Parsers
  <1>2. s \in Seq(Out) /\ t \in Seq(Out)
    BY <1>1, TextsOf
  <1>3. CASE p.state = "TEXT"
    <2>1. q.client = Says(p.client, s)
      BY <1>3 DEF Flushes
    <2>2. Says(q.client, t) = Says(p.client, s \o t)
      BY <1>1, <1>2, <2>1, SaysTwice
    <2>3. Flushes(q, t) = Says(q.client, t) /\ Flushes(p, s \o t) = Says(p.client, s \o t)
      BY <1>3 DEF Flushes
    <2>4. \A m : Tells(q, m, t) = Says(q.client, t) /\ Tells(p, m, s \o t) = Says(p.client, s \o t)
      BY <1>3 DEF Tells
    <2> QED BY <2>2, <2>3, <2>4
  <1>4. CASE p.state = "THINKING"
    <2>1. q.client = Reasons(p.client, s)
      BY <1>4 DEF Flushes
    <2>2. Reasons(q.client, t) = Reasons(p.client, s \o t)
      BY <1>1, <1>2, <2>1, ReasonsTwice
    <2>3. Flushes(q, t) = Reasons(q.client, t) /\ Flushes(p, s \o t) = Reasons(p.client, s \o t)
      BY <1>4 DEF Flushes
    <2>4. \A m : Tells(q, m, t) = Reasons(q.client, t) /\ Tells(p, m, s \o t) = Reasons(p.client, s \o t)
      BY <1>4 DEF Tells
    <2> QED BY <2>2, <2>3, <2>4
  <1>5. CASE p.state = "TOOL_VAL"
    <2> DEFINE n == p.tc_index
               x == Encoded(p, s)
               y == Encoded(p, t)
               z == ValueCloses(p)
    <2>1. /\ \A o : Encoded(q, o) = Encoded(p, o)
          /\ ValueCloses(q) = ValueCloses(p)
      BY Alike
    <2>2. x \in Seq(Out) /\ y \in Seq(Out) /\ y \o z \in Seq(Out)
      BY <1>1, TextsOf
    <2>3. q.client = Argues(p.client, n, x)
      BY <1>5 DEF Flushes
    <2>4. n < Len(p.client.calls)
      BY <1>1, <1>5 DEF Parsers, Numbered
    <2>5. Flushes(q, t) = Argues(q.client, n, y) /\ Flushes(p, s \o t) = Argues(p.client, n, Encoded(p, s \o t))
      BY <1>5, <2>1 DEF Flushes
    <2>6. \A m : /\ Tells(q, m, t) = Argues(q.client, n, y \o z)
                 /\ Tells(p, m, s \o t) = Argues(p.client, n, Encoded(p, s \o t) \o z)
      BY <1>5, <2>1 DEF Tells
    <2>7. Encoded(p, s \o t) = x \o y /\ Encoded(p, s \o t) \o z = x \o (y \o z)
      BY <1>1, EncodedJoins
    <2> HIDE DEF x, y, z
    <2>8. Argues(Argues(p.client, n, x), n, y) = Argues(p.client, n, x \o y)
      BY <1>1, <2>2, <2>4, ArguesTwice
    <2>9. Argues(Argues(p.client, n, x), n, y \o z) = Argues(p.client, n, x \o (y \o z))
      <3> DEFINE w == y \o z
      <3>1. w \in Seq(Out)
        BY <2>2
      <3> HIDE DEF w
      <3>2. Argues(Argues(p.client, n, x), n, w) = Argues(p.client, n, x \o w)
        BY <1>1, <2>2, <2>4, <3>1, ArguesTwice
      <3> QED BY <3>2 DEF w
    <2> QED BY <2>3, <2>5, <2>6, <2>7, <2>8, <2>9
  <1> QED BY <1>3, <1>4, <1>5

LEMMA DroppedTwice ==
    ASSUME NEW S, NEW x \in Seq(S), NEW n \in 0 .. Len(x), NEW k \in 0 .. Len(x) - n
    PROVE  /\ Dropped(Dropped(x, n), k) = Dropped(x, n + k)
           /\ SubSeq(x, 1, n) \o SubSeq(Dropped(x, n), 1, k) = SubSeq(x, 1, n + k)
  <1> DEFINE y == Dropped(x, n)
             a == Dropped(y, k)
             b == Dropped(x, n + k)
             u == SubSeq(x, 1, n)
             v == SubSeq(y, 1, k)
             w == SubSeq(x, 1, n + k)
             z == u \o v
  <1>0. Len(x) \in Nat /\ n \in Nat /\ k \in Nat /\ n + k \in 0 .. Len(x) /\ n <= Len(x)
    OBVIOUS
  <1>1. y \in Seq(S) /\ Len(y) = Len(x) - n /\ \A i \in 1 .. Len(x) - n : y[i] = x[i + n]
    BY DroppedIs
  <1>2. b \in Seq(S) /\ Len(b) = Len(x) - (n + k) /\ \A i \in 1 .. Len(x) - (n + k) : b[i] = x[i + (n + k)]
    BY <1>0, DroppedIs
  <1>3. u \in Seq(S) /\ Len(u) = n /\ \A i \in 1 .. n : u[i] = x[i]
    BY TakenIs
  <1>4. w \in Seq(S) /\ Len(w) = n + k /\ \A i \in 1 .. n + k : w[i] = x[i]
    BY <1>0, TakenIs
  <1> HIDE DEF y, b, u, w
  <1>5. k \in 0 .. Len(y)
    BY <1>0, <1>1
  <1>6. a \in Seq(S) /\ Len(a) = Len(y) - k /\ \A i \in 1 .. Len(y) - k : a[i] = y[i + k]
    BY <1>1, <1>5, DroppedIs
  <1>7. v \in Seq(S) /\ Len(v) = k /\ \A i \in 1 .. k : v[i] = y[i]
    BY <1>1, <1>5, TakenIs
  <1> HIDE DEF a, v
  <1>8. z \in Seq(S) /\ Len(z) = n + k /\ (\A i \in 1 .. n : z[i] = u[i]) /\ \A i \in 1 .. k : z[i + n] = v[i]
    <2>1. u \in Seq(S) /\ v \in Seq(S) /\ Len(u) = n /\ Len(v) = k /\ n \in Nat /\ k \in Nat
      BY <1>0, <1>3, <1>7
    <2>2. z \in Seq(S) /\ Len(z) = n + k /\ \A i \in 1 .. n : z[i] = u[i]
      BY <2>1
    <2>3. ASSUME NEW i \in 1 .. k PROVE z[i + n] = v[i]
      <3>1. i + n \in 1 .. n + k /\ i + n > n /\ (i + n) - n = i
        BY <2>1
      <3> QED BY <2>1, <3>1
    <2> QED BY <2>2, <2>3
  <1> HIDE DEF z
  <1>9. a = b
    <2>1. Len(a) = Len(b)
      BY <1>0, <1>1, <1>2, <1>6
    <2>2. ASSUME NEW i \in 1 .. Len(b) PROVE a[i] = b[i]
      <3>1. i \in Nat /\ i \in 1 .. Len(y) - k /\ i + k \in 1 .. Len(x) - n /\ i \in 1 .. Len(x) - (n + k)
        BY <1>0, <1>1, <1>2, <2>2
      <3>2. a[i] = y[i + k] /\ y[i + k] = x[(i + k) + n] /\ b[i] = x[i + (n + k)]
        BY <1>1, <1>2, <1>6, <3>1
      <3>3. (i + k) + n = i + (n + k)
        BY <1>0, <3>1
      <3> QED BY <3>2, <3>3
    <2>3. a = [i \in 1 .. Len(a) |-> a[i]] /\ b = [i \in 1 .. Len(b) |-> b[i]]
      BY <1>2, <1>6
    <2> QED BY <2>1, <2>2, <2>3
  <1>10. z = w
    <2>1. ASSUME NEW i \in 1 .. n + k PROVE z[i] = w[i]
      <3>1. CASE i <= n
        <4>1. i \in 1 .. n
          BY <1>0, <3>1
        <4> QED BY <1>3, <1>4, <1>8, <4>1
      <3>2. CASE i > n
        <4> DEFINE j == i - n
        <4>1. j \in 1 .. k /\ j \in 1 .. Len(x) - n /\ j + n = i
          BY <1>0, <3>2
        <4> HIDE DEF j
        <4>2. z[j + n] = v[j] /\ v[j] = y[j] /\ y[j] = x[j + n]
          BY <1>1, <1>7, <1>8, <4>1
        <4> QED BY <1>4, <4>1, <4>2
      <3> QED BY <1>0, <3>1, <3>2
    <2>2. z = [i \in 1 .. n + k |-> z[i]] /\ w = [i \in 1 .. n + k |-> w[i]]
      BY <1>4, <1>8
    <2> QED BY <2>1, <2>2
  <1> QED BY <1>9, <1>10 DEF y, a, b, u, v, w, z

LEMMA IdlesSame ==
    ASSUME NEW p \in Parsers, p.state \notin {"TEXT", "THINKING", "TOOL_VAL"}
    PROVE  Idles(p) = p
  <1>1. p \in ParserRecord /\ p.buf \in Seq(Alphabet)
    BY FieldsAre DEF Parsers
  <1>2. Gone(p) = 0 /\ Dropped(p.buf, 0) = p.buf
    BY <1>1 DEF Gone, Dropped
  <1>3. \A s : Flushes(p, s) = p.client
    BY DEF Flushes
  <1>4. Idles(p) = ParserOf(p.state, p.buf, p.tc_index, p.name, p.arg_key, p.first_arg, p.client)
    BY <1>2, <1>3 DEF Idles
  <1> QED BY <1>1, <1>4, SameParser

\* A turn that found nothing changes nothing of what the next one does with
\* more of the text.
LEMMA IdledMore ==
    ASSUME NEW q \in Parsers, Absent(q.buf, Watched(q.state)), NEW b \in Seq(Alphabet)
    PROVE  /\ Idles(q) \in Parsers
           /\ Turn(Plus(Idles(q), b)) = Turn(Plus(q, b))
           /\ Plus(Idles(q), b).state = Plus(q, b).state
  <1> DEFINE r == Idles(q)
             P == Plus(q, b)
             R == Plus(r, b)
             n == Gone(q)
             M == Watched(q.state)
             x == q.buf \o b
             y == Dropped(x, n)
             head == SubSeq(q.buf, 1, n)
  <1>1. q \in ParserRecord /\ q.buf \in Seq(Alphabet) /\ q.state \in ParserStates /\ Len(q.buf) \in Nat
    BY FieldsAre DEF Parsers
  <1>2. /\ r \in Parsers /\ n \in 0 .. Len(q.buf) /\ MayGo(q.buf, M, n)
        /\ Dropped(q.buf, n) \in Seq(Alphabet) /\ head \in Seq(Alphabet)
    BY IdlesIs
  <1>3. CASE q.state \notin {"TEXT", "THINKING", "TOOL_VAL"}
    BY <1>2, <1>3, IdlesSame
  <1>4. CASE q.state \in {"TEXT", "THINKING", "TOOL_VAL"}
    <2>1. /\ r.state = q.state /\ r.buf = Dropped(q.buf, n) /\ r.tc_index = q.tc_index /\ r.name = q.name
          /\ r.arg_key = q.arg_key /\ r.first_arg = q.first_arg /\ r.client = Flushes(q, head)
      BY FieldsOf DEF Idles
    <2> HIDE DEF r
    <2>2. /\ P \in Parsers /\ P.buf = x /\ P.state = q.state /\ P.tc_index = q.tc_index /\ P.name = q.name
          /\ P.arg_key = q.arg_key /\ P.first_arg = q.first_arg /\ P.client = q.client /\ x \in Seq(Alphabet)
      BY PlusIs
    <2>3. /\ R \in Parsers /\ R.buf = Dropped(q.buf, n) \o b /\ R.state = r.state /\ R.tc_index = r.tc_index
          /\ R.name = r.name /\ R.arg_key = r.arg_key /\ R.first_arg = r.first_arg /\ R.client = r.client
      <3>1. r \in Parsers
        BY <1>2
      <3>2. R.buf = r.buf \o b
        BY <3>1, PlusIs
      <3>3. /\ R \in Parsers /\ R.state = r.state /\ R.tc_index = r.tc_index
            /\ R.name = r.name /\ R.arg_key = r.arg_key /\ R.first_arg = r.first_arg /\ R.client = r.client
        BY <3>1, PlusIs
      <3> QED BY <2>1, <3>2, <3>3
    <2> HIDE DEF P, R, n
    <2>4. /\ Dropped(q.buf, n) \o b = y /\ n \in 0 .. Len(x) /\ SubSeq(x, 1, n) = head
          /\ Len(x) = Len(q.buf) + Len(b) /\ Len(b) \in Nat
      <3>1. Dropped(q.buf, n) \o b = y /\ n \in 0 .. Len(x)
        BY <1>1, <1>2, DroppedOfMore
      <3>2. Len(x) = Len(q.buf) + Len(b) /\ Len(b) \in Nat /\ \A i \in 1 .. Len(q.buf) : x[i] = q.buf[i]
        BY <1>1, JoinIs
      <3>3. SubSeq(x, 1, n) = head
        <4> DEFINE h == SubSeq(x, 1, n)
        <4>1. h \in Seq(Alphabet) /\ Len(h) = n /\ \A i \in 1 .. n : h[i] = x[i]
          BY <2>2, <3>1, TakenIs
        <4>2. Len(head) = n /\ \A i \in 1 .. n : head[i] = q.buf[i]
          BY <1>1, <1>2, TakenIs
        <4> HIDE DEF h, head, x
        <4>3. \A i \in 1 .. n : h[i] = head[i]
          <5>1. \A i \in 1 .. n : i \in 1 .. Len(q.buf)
            BY <1>1, <1>2
          <5> QED BY <3>2, <4>1, <4>2, <5>1
        <4>4. h = [i \in 1 .. n |-> h[i]] /\ head = [i \in 1 .. n |-> head[i]]
          BY <1>2, <4>1, <4>2
        <4> QED BY <4>3, <4>4 DEF h
      <3> QED BY <3>1, <3>2, <3>3
    <2> HIDE DEF head, x
    <2>5. y \in Seq(Alphabet) /\ Len(y) = Len(x) - n /\ R.buf = y
      BY <2>2, <2>3, <2>4, DroppedIs
    <2>6. R.client = Flushes(P, head)
      <3>1. \A m, s : Tells(P, m, s) = Tells(q, m, s) /\ Flushes(P, s) = Flushes(q, s)
        BY <2>2, Alike
      <3> QED BY <2>1, <2>3, <3>1
    <2>7. ASSUME NEW t \in Seq(Alphabet)
          PROVE  Flushes(R, t) = Flushes(P, head \o t) /\ \A m : Tells(R, m, t) = Tells(P, m, head \o t)
      BY <1>2, <1>4, <2>1, <2>2, <2>3, <2>6, SaidInTwo
    <2>8. /\ Absent(x, M) => Absent(y, M)
          /\ \A m : Leads(x, M, m) =>
               Leads(y, M, m) /\ Before(x, m) = head \o Before(y, m) /\ After(x, m) = After(y, m)
      <3>1. M \subseteq Markers
        BY <1>1, WatchedMarkers
      <3> HIDE DEF M
      <3>2. /\ Absent(q.buf \o b, M) => Absent(Dropped(q.buf, n) \o b, M)
            /\ \A m : Leads(q.buf \o b, M, m) =>
                  /\ Leads(Dropped(q.buf, n) \o b, M, m)
                  /\ Before(q.buf \o b, m) = Spoken(q.buf, n, Before(Dropped(q.buf, n) \o b, m))
                  /\ After(q.buf \o b, m) = After(Dropped(q.buf, n) \o b, m)
        <4>1. q.buf \in Seq(Alphabet) /\ MayGo(q.buf, M, n)
          BY <1>1, <1>2
        <4> HIDE DEF y, r
        <4> QED BY <3>1, <4>1, LeadsOfRest, SMTT(30)
      <3> QED BY <2>4, <3>2 DEF x, head, Spoken
    <2>9. P \in ParserRecord /\ R \in ParserRecord /\ R.state = P.state /\ R.tc_index = P.tc_index
          /\ R.name = P.name /\ R.arg_key = P.arg_key /\ R.first_arg = P.first_arg
      BY <2>1, <2>2, <2>3 DEF Parsers
    <2>10. Turn(R) = Turn(P)
      <3>1. CASE Absent(x, M)
        <4> DEFINE k == Gone(R)
        <4>1. Turn(P) = Idles(P) /\ Turn(R) = Idles(R)
          BY <2>1, <2>2, <2>3, <2>5, <2>8, <2>9, <3>1, TurnIdles
        <4>2. k \in 0 .. Len(x) - n /\ Gone(P) = n + k
          <5>1. n = IF Len(q.buf) > 3 THEN Len(q.buf) - 3 ELSE 0
            BY <1>4 DEF Gone, Safe, MaxLookahead, n
          <5>2. Gone(P) = IF Len(x) > 3 THEN Len(x) - 3 ELSE 0
            BY <1>4, <2>2 DEF Gone, Safe, MaxLookahead
          <5>3. k = IF Len(y) > 3 THEN Len(y) - 3 ELSE 0
            BY <1>4, <2>1, <2>3, <2>5 DEF Gone, Safe, MaxLookahead
          <5>4. Len(y) = Len(x) - n /\ Len(x) = Len(q.buf) + Len(b) /\ Len(b) \in Nat /\ Len(q.buf) \in Nat
            BY <1>1, <2>4, <2>5
          <5> HIDE DEF k, y
          <5>5. ASSUME NEW l \in Nat, NEW more \in Nat, NEW u, u = l + more, NEW v, v = u - n,
                       n = (IF l > 3 THEN l - 3 ELSE 0), Gone(P) = (IF u > 3 THEN u - 3 ELSE 0),
                       k = (IF v > 3 THEN v - 3 ELSE 0)
                PROVE  k \in 0 .. u - n /\ Gone(P) = n + k
            BY <5>5
          <5> QED BY <5>1, <5>2, <5>3, <5>4, <5>5, Zenon
        <4> HIDE DEF k
        <4>3. Dropped(y, k) = Dropped(x, n + k) /\ head \o SubSeq(y, 1, k) = SubSeq(x, 1, n + k)
          BY <2>2, <2>4, <4>2, DroppedTwice
        <4>4. SubSeq(y, 1, k) \in Seq(Alphabet)
          BY <2>5, <4>2, TakenIs
        <4>5. Flushes(R, SubSeq(y, 1, k)) = Flushes(P, SubSeq(x, 1, n + k))
          BY <2>7, <4>3, <4>4
        <4>6. Idles(P) = ParserOf(P.state, Dropped(x, n + k), P.tc_index, P.name, P.arg_key, P.first_arg,
                                  Flushes(P, SubSeq(x, 1, n + k)))
          BY <2>2, <4>2 DEF Idles
        <4>7. Idles(R) = ParserOf(R.state, Dropped(y, k), R.tc_index, R.name, R.arg_key, R.first_arg,
                                  Flushes(R, SubSeq(y, 1, k)))
          BY <2>5 DEF Idles, k
        <4> QED BY <2>9, <4>1, <4>3, <4>5, <4>6, <4>7
      <3>2. CASE \E m : Leads(x, M, m)
        <4>1. PICK m : Leads(x, M, m)
          BY <3>2
        <4> DEFINE t == Before(y, m)
                   u == After(y, m)
        <4>2. Leads(y, M, m) /\ Before(x, m) = head \o t /\ After(x, m) = u /\ m \in M
          BY <2>8, <4>1 DEF Leads
        <4>3. Turn(P) = Took(P, m, head \o t, u)
          BY <2>2, <2>9, <4>1, <4>2, TurnTakes
        <4>4. Turn(R) = Took(R, m, t, u)
          BY <2>1, <2>3, <2>5, <2>9, <4>2, TurnTakes
        <4>5. t \in Seq(Alphabet)
          <5>1. m \in Markers /\ Occurs(y, m)
            BY <1>1, <4>2, WatchedMarkers DEF Leads
          <5> QED BY <2>5, <5>1, AtPlace
        <4> HIDE DEF t, u
        <4>6. Tells(R, m, t) = Tells(P, m, head \o t)
          BY <2>7, <4>5
        <4>7. P.state # "TOOL_NAME" /\ m # "</arg_key>"
          BY <1>4, <2>2, <4>2 DEF Watched
        <4>8. Took(P, m, head \o t, u) = Took(R, m, t, u)
          BY <2>9, <4>6, <4>7, Zenon DEF Took
        <4> QED BY <4>3, <4>4, <4>8
      <3>3. Absent(P.buf, Watched(P.state)) \/ \E m : Leads(P.buf, Watched(P.state), m)
        BY <2>9, FindsOrNot
      <3> QED BY <2>2, <3>1, <3>2, <3>3
    <2> QED BY <1>2, <2>1, <2>2, <2>3, <2>10 DEF P, R, r
  <1> QED BY <1>3, <1>4

----------------------------------------------------------------------------
(* The loop.                                                                *)

\* The turns of it from p, the first N; turn n finds nothing.
Runs(p, N, f) == f = [n \in 0 .. N |-> IF n = 0 THEN p ELSE Turn(f[n - 1])]
Stops(f, n) == f[n].state = f[n - 1].state

LEMMA RunSteps ==
    ASSUME NEW p, NEW N \in Nat, NEW f, Runs(p, N, f)
    PROVE  f[0] = p /\ \A n \in 1 .. N : f[n] = Turn(f[n - 1])
  <1> DEFINE g == [n \in 0 .. N |-> IF n = 0 THEN p ELSE Turn(f[n - 1])]
  <1>1. f = g
    BY DEF Runs
  <1>2. g[0] = p
    OBVIOUS
  <1>3. ASSUME NEW n \in 1 .. N PROVE g[n] = Turn(f[n - 1])
    <2>1. n \in 0 .. N /\ n # 0
      OBVIOUS
    <2> QED BY <2>1
  <1> HIDE DEF g
  <1> QED BY <1>1, <1>2, <1>3

LEMMA RunExists ==
    ASSUME NEW p
    PROVE  \A N \in Nat : \E f : Runs(p, N, f)
  <1> DEFINE S == {N \in Nat : \E f : Runs(p, N, f)}
  <1>1. 0 \in S
    <2> DEFINE f == [n \in 0 .. 0 |-> p]
    <2>1. f = [n \in 0 .. 0 |-> IF n = 0 THEN p ELSE Turn(f[n - 1])]
      OBVIOUS
    <2> HIDE DEF f
    <2>2. Runs(p, 0, f)
      BY <2>1 DEF Runs
    <2> QED BY <2>2
  <1>2. ASSUME NEW N \in Nat, N \in S PROVE N + 1 \in S
    <2>1. PICK f : Runs(p, N, f)
      BY <1>2
    <2>2. f[0] = p /\ \A n \in 1 .. N : f[n] = Turn(f[n - 1])
      BY <2>1, RunSteps
    <2> DEFINE new == Turn(f[N])
               g == [n \in 0 .. N + 1 |-> IF n = N + 1 THEN new ELSE f[n]]
    <2>3. ASSUME NEW n \in 0 .. N + 1
          PROVE  g[n] = IF n = 0 THEN p ELSE Turn(g[n - 1])
      <3>1. CASE n = N + 1
        <4>1. n - 1 = N /\ N \in 0 .. N + 1 /\ N # N + 1 /\ n # 0
          BY <3>1
        <4>2. g[n - 1] = f[N] /\ g[n] = Turn(f[N])
          BY <3>1, <4>1
        <4> HIDE DEF g
        <4> QED BY <3>1, <4>1, <4>2
      <3>2. CASE n # N + 1 /\ n = 0
        <4>1. g[n] = f[0]
          BY <3>2
        <4> HIDE DEF g
        <4> QED BY <2>2, <3>2, <4>1
      <3>3. CASE n # N + 1 /\ n # 0
        <4>1. n \in 1 .. N /\ n - 1 \in 0 .. N + 1 /\ n - 1 # N + 1
          BY <3>3
        <4>2. g[n - 1] = f[n - 1] /\ g[n] = f[n]
          BY <3>3, <4>1
        <4> HIDE DEF g
        <4> QED BY <2>2, <3>3, <4>1, <4>2
      <3> QED BY <3>1, <3>2, <3>3
    <2>4. g = [n \in 0 .. N + 1 |-> g[n]]
      OBVIOUS
    <2> HIDE DEF g
    <2>5. g = [n \in 0 .. N + 1 |-> IF n = 0 THEN p ELSE Turn(g[n - 1])]
      BY <2>3, <2>4
    <2>6. Runs(p, N + 1, g)
      BY <2>5 DEF Runs
    <2> QED BY <1>2, <2>6
  <1> HIDE DEF S
  <1>3. \A N \in Nat : N \in S
    BY <1>1, <1>2, Ascend
  <1> QED BY <1>3 DEF S

\* A turn that goes on has taken a marker.
LEMMA TurnOn ==
    ASSUME NEW p \in Parsers, Turn(p).state # p.state
    PROVE  /\ Turn(p) \in Parsers /\ Len(Turn(p).buf) < Len(p.buf)
           /\ \A b \in Seq(Alphabet) : /\ Turn(Plus(p, b)) = Plus(Turn(p), b)
                                       /\ Turn(Plus(p, b)).state # Plus(p, b).state
  <1>1. p \in ParserRecord
    BY DEF Parsers
  <1>2. ~Absent(p.buf, Watched(p.state))
    BY <1>1, TurnIdles
  <1>3. PICK m : Leads(p.buf, Watched(p.state), m)
    BY <1>1, <1>2, FindsOrNot
  <1>4. ASSUME NEW b \in Seq(Alphabet)
        PROVE  /\ Turn(Plus(p, b)) = Plus(Turn(p), b) /\ Turn(p) \in Parsers
               /\ Turn(Plus(p, b)).state # Plus(p, b).state /\ Len(Turn(p).buf) < Len(p.buf)
    BY <1>3, TookMore
  <1>5. <<>> \in Seq(Alphabet)
    OBVIOUS
  <1> QED BY <1>4, <1>5

LEMMA TurnOver ==
    ASSUME NEW p \in Parsers, Turn(p).state = p.state
    PROVE  Turn(p) = Idles(p) /\ Absent(p.buf, Watched(p.state))
  <1>1. p \in ParserRecord
    BY DEF Parsers
  <1>2. ASSUME NEW m PROVE ~Leads(p.buf, Watched(p.state), m)
    BY <1>1, TurnTakes
  <1>3. Absent(p.buf, Watched(p.state))
    BY <1>1, <1>2, FindsOrNot
  <1> QED BY <1>1, <1>3, TurnIdles

\* A loop from p is over after no more turns than there are symbols, and one.
LEMMA RunStops ==
    ASSUME NEW p \in Parsers, NEW N \in Nat, N = Len(p.buf) + 1, NEW f, Runs(p, N, f)
    PROVE  \E k \in 1 .. N : Stops(f, k) /\ \A m \in 1 .. k - 1 : ~Stops(f, m)
  <1> DEFINE T == {k \in 1 .. N : Stops(f, k)}
             S == {n \in Nat : n <= N => f[n] \in Parsers /\ Len(f[n].buf) + n <= Len(p.buf)}
  <1>1. f[0] = p /\ \A n \in 1 .. N : f[n] = Turn(f[n - 1])
    BY RunSteps
  <1>2. ASSUME NEW q \in Parsers PROVE Len(q.buf) \in Nat
    <2>1. q.buf \in Seq(Alphabet)
      BY FieldsAre DEF Parsers
    <2> QED BY <2>1
  <1>3. T # {}
    <2> SUFFICES ASSUME \A k \in 1 .. N : ~Stops(f, k) PROVE FALSE
      OBVIOUS
    <2>1. 0 \in S
      BY <1>1, <1>2
    <2>2. ASSUME NEW n \in Nat, n \in S PROVE n + 1 \in S
      <3>1. PICK i \in Nat : i = n + 1 /\ i - 1 = n
        OBVIOUS
      <3>2. ASSUME i <= N PROVE f[i] \in Parsers /\ Len(f[i].buf) + i <= Len(p.buf)
        <4>1. n <= N /\ i \in 1 .. N
          BY <3>1, <3>2
        <4>2. f[n] \in Parsers /\ Len(f[n].buf) + n <= Len(p.buf)
          BY <2>2, <4>1
        <4>3. f[i] = Turn(f[n]) /\ ~Stops(f, i)
          BY <1>1, <3>1, <4>1
        <4>4. Turn(f[n]).state # f[n].state
          BY <3>1, <4>3 DEF Stops
        <4>5. f[i] \in Parsers /\ Len(f[i].buf) < Len(f[n].buf)
          BY <4>2, <4>3, <4>4, TurnOn
        <4>6. PICK x \in Nat, y \in Nat, z \in Nat : x = Len(f[i].buf) /\ y = Len(f[n].buf) /\ z = Len(p.buf)
          BY <1>2, <4>2, <4>5
        <4>7. x < y /\ y + n <= z
          BY <4>2, <4>5, <4>6
        <4>8. x + i <= z
          BY <3>1, <4>7
        <4> QED BY <4>5, <4>6, <4>8
      <3>3. i \in S
        BY <3>2
      <3> QED BY <3>1, <3>3
    <2> HIDE DEF S
    <2>3. N \in S
      BY <2>1, <2>2, Ascend
    <2>4. f[N] \in Parsers /\ Len(f[N].buf) + N <= Len(p.buf)
      BY <2>3 DEF S
    <2>5. PICK x \in Nat, z \in Nat : x = Len(f[N].buf) /\ z = Len(p.buf)
      BY <1>2, <2>4
    <2>6. x + N <= z /\ N = z + 1
      BY <2>4, <2>5
    <2> QED BY <2>6
  <1>4. T \subseteq Nat
    OBVIOUS
  <1>5. PICK k \in T : \A m \in T : k <= m
    <2> HIDE DEF T
    <2> QED BY <1>3, <1>4, LeastElement
  <1>6. ASSUME NEW m \in 1 .. k - 1 PROVE ~Stops(f, m)
    <2>1. m \in 1 .. N /\ ~(k <= m)
      BY <1>5
    <2> QED BY <1>5, <2>1
  <1> QED BY <1>5, <1>6

LEMMA LoopIs ==
    ASSUME NEW p \in Parsers, NEW N \in Nat, N = Len(p.buf) + 1
    PROVE  \E f : /\ Runs(p, N, f)
                  /\ \A k \in 1 .. N : Stops(f, k) /\ (\A m \in 1 .. k - 1 : ~Stops(f, m)) => Loop(p) = f[k]
  <1> DEFINE after == CHOOSE f : f = [n \in 0 .. Len(p.buf) + 1 |-> IF n = 0 THEN p ELSE Turn(f[n - 1])]
             chosen == CHOOSE f : Runs(p, N, f)
             Over(k) == Stops(chosen, k) /\ \A m \in 1 .. k - 1 : ~Stops(chosen, m)
             last == CHOOSE k \in 1 .. N : Over(k)
  <1>1. after = chosen
    BY DEF Runs
  <1>2. Loop(p) = after[CHOOSE n \in 1 .. Len(p.buf) + 1 :
                           /\ after[n].state = after[n - 1].state
                           /\ \A m \in 1 .. n - 1 : ~(after[m].state = after[m - 1].state)]
    BY Zenon DEF Loop
  <1> HIDE DEF after
  <1>3. Runs(p, N, chosen)
    BY RunExists
  <1> HIDE DEF chosen
  <1>4. Loop(p) = chosen[last]
    BY <1>1, <1>2 DEF Stops
  <1>5. ASSUME NEW k \in 1 .. N, Over(k) PROVE last = k
    <2>1. last \in 1 .. N /\ Over(last)
      BY <1>5
    <2> HIDE DEF last
    <2>2. ~(last < k) /\ ~(k < last)
      <3>1. last < k => last \in 1 .. k - 1
        BY <2>1
      <3>2. k < last => k \in 1 .. last - 1
        BY <2>1
      <3> QED BY <1>5, <2>1, <3>1, <3>2
    <2> QED BY <2>1, <2>2
  <1> QED BY <1>3, <1>4, <1>5

LEMMA BufLen ==
    ASSUME NEW p \in Parsers
    PROVE  Len(p.buf) \in Nat
  <1>1. p.buf \in Seq(Alphabet)
    BY FieldsAre DEF Parsers
  <1> QED BY <1>1

\* A turn that finds nothing is the last; after another the loop goes on.
LEMMA LoopStops ==
    ASSUME NEW p \in Parsers, Turn(p).state = p.state
    PROVE  Loop(p) = Turn(p)
  <1>1. PICK N \in Nat : N = Len(p.buf) + 1
    BY BufLen
  <1>2. PICK f : /\ Runs(p, N, f)
                 /\ \A k \in 1 .. N : Stops(f, k) /\ (\A m \in 1 .. k - 1 : ~Stops(f, m)) => Loop(p) = f[k]
    BY <1>1, LoopIs
  <1>3. 1 \in 1 .. N /\ 1 - 1 = 0 /\ \A m \in 1 .. 1 - 1 : ~Stops(f, m)
    BY <1>1, BufLen
  <1>4. f[0] = p /\ f[1] = Turn(f[1 - 1])
    <2>1. Runs(p, N, f) /\ N \in Nat
      BY <1>2
    <2>2. f[0] = p /\ \A n \in 1 .. N : f[n] = Turn(f[n - 1])
      BY <2>1, RunSteps
    <2> QED BY <1>3, <2>2
  <1>5. f[1] = Turn(p) /\ Stops(f, 1)
    BY <1>3, <1>4 DEF Stops
  <1> QED BY <1>2, <1>3, <1>5

LEMMA LoopGoesOn ==
    ASSUME NEW p \in Parsers, Turn(p).state # p.state
    PROVE  Loop(p) = Loop(Turn(p))
  <1> DEFINE t == Turn(p)
  <1>1. t \in Parsers /\ Len(t.buf) < Len(p.buf)
    BY TurnOn
  <1>2. PICK N \in Nat : N = Len(p.buf) + 1
    BY BufLen
  <1>3. PICK M \in Nat : M = Len(t.buf) + 1 /\ M < N
    BY <1>1, <1>2, BufLen
  <1>4. PICK f : /\ Runs(p, N, f)
                 /\ \A k \in 1 .. N : Stops(f, k) /\ (\A m \in 1 .. k - 1 : ~Stops(f, m)) => Loop(p) = f[k]
    BY <1>2, LoopIs
  <1> HIDE DEF t
  <1>5. PICK g : /\ Runs(t, M, g)
                 /\ \A k \in 1 .. M : Stops(g, k) /\ (\A m \in 1 .. k - 1 : ~Stops(g, m)) => Loop(t) = g[k]
    BY <1>1, <1>3, LoopIs
  <1>6. PICK k \in 1 .. M : Stops(g, k) /\ \A m \in 1 .. k - 1 : ~Stops(g, m)
    BY <1>1, <1>3, <1>5, RunStops
  <1>7. f[0] = p /\ \A n \in 1 .. N : f[n] = Turn(f[n - 1])
    <2>1. Runs(p, N, f) /\ N \in Nat
      BY <1>4
    <2> QED BY <2>1, RunSteps
  <1>8. g[0] = t /\ \A n \in 1 .. M : g[n] = Turn(g[n - 1])
    BY <1>5, RunSteps
  <1> DEFINE S == {n \in Nat : n <= M => f[n + 1] = g[n]}
  <1>9. \A n \in Nat : n \in S
    <2>1. 0 \in S
      <3>1. 1 \in 1 .. N /\ 1 - 1 = 0
        BY <1>3
      <3>2. f[1] = t
        BY <1>7, <3>1 DEF t
      <3>3. 0 + 1 = 1
        OBVIOUS
      <3> QED BY <1>8, <3>2, <3>3
    <2>2. ASSUME NEW n \in Nat, n \in S PROVE n + 1 \in S
      <3>1. PICK i \in Nat : i = n + 1 /\ i - 1 = n
        OBVIOUS
      <3>2. PICK j \in Nat : j = i + 1 /\ j - 1 = i
        OBVIOUS
      <3>3. ASSUME i <= M PROVE f[j] = g[i]
        <4>1. n <= M /\ i \in 1 .. M /\ j \in 1 .. N
          BY <1>3, <3>1, <3>2, <3>3
        <4>2. f[i] = g[n]
          BY <2>2, <3>1, <4>1
        <4>3. f[j] = Turn(f[i]) /\ g[i] = Turn(g[n])
          BY <1>7, <1>8, <3>1, <3>2, <4>1
        <4> QED BY <4>2, <4>3
      <3>4. i \in S
        BY <3>2, <3>3
      <3> QED BY <3>1, <3>4
    <2> HIDE DEF S
    <2> QED BY <2>1, <2>2, Ascend
  <1>10. ASSUME NEW n \in 1 .. M PROVE Stops(f, n + 1) <=> Stops(g, n)
    <2>1. PICK h \in Nat : h = n - 1 /\ h + 1 = n /\ h <= M /\ n \in Nat /\ n <= M
      OBVIOUS
    <2>2. f[n + 1] = g[n] /\ f[h + 1] = g[h]
      <3>1. n \in S /\ h \in S
        BY <1>9, <2>1
      <3> QED BY <2>1, <3>1
    <2>3. PICK i \in Nat : i = n + 1 /\ i - 1 = n
      BY <2>1
    <2>4. f[i] = g[n] /\ f[i - 1] = g[n - 1]
      BY <2>1, <2>2, <2>3
    <2>5. Stops(f, i) <=> Stops(g, n)
      BY <2>4 DEF Stops
    <2> QED BY <2>3, <2>5
  <1>11. ~Stops(f, 1)
    <2>1. 1 \in 1 .. N /\ 1 - 1 = 0
      BY <1>3
    <2>2. f[1] = Turn(p)
      BY <1>7, <2>1
    <2> QED BY <1>7, <2>1, <2>2 DEF Stops
  <1>12. PICK j \in 1 .. N : j = k + 1
    BY <1>3
  <1>13. Stops(f, j)
    BY <1>6, <1>10, <1>12
  <1>14. ASSUME NEW m \in 1 .. j - 1 PROVE ~Stops(f, m)
    <2>1. CASE m = 1
      BY <1>11, <2>1
    <2>2. CASE m # 1
      <3>1. PICK n \in 1 .. k - 1 : n + 1 = m
        <4>1. m - 1 \in 1 .. k - 1 /\ (m - 1) + 1 = m
          BY <1>12, <2>2
        <4> QED BY <4>1
      <3>2. n \in 1 .. M
        OBVIOUS
      <3>3. Stops(f, n + 1) <=> Stops(g, n)
        BY <1>10, <3>2
      <3> QED BY <1>6, <3>1, <3>3
    <2> QED BY <2>1, <2>2
  <1>15. Loop(p) = f[j]
    BY <1>4, <1>13, <1>14
  <1>16. Loop(t) = g[k]
    BY <1>5, <1>6
  <1>17. f[j] = g[k]
    <2>1. k \in S /\ k <= M
      BY <1>9
    <2> QED BY <1>12, <2>1
  <1> QED BY <1>15, <1>16, <1>17 DEF t

\* Two parsers whose next turns are the same end in the same place.
LEMMA SameLoop ==
    ASSUME NEW p \in Parsers, NEW q \in Parsers, Turn(p) = Turn(q), p.state = q.state
    PROVE  Loop(p) = Loop(q)
  <1>1. CASE Turn(p).state = p.state
    BY <1>1, LoopStops
  <1>2. CASE Turn(p).state # p.state
    BY <1>2, LoopGoesOn
  <1> QED BY <1>1, <1>2

\* The loop over a text and then over more of it is the loop over the whole.
LEMMA LoopInTwo ==
    ASSUME NEW b \in Seq(Alphabet)
    PROVE  \A p \in Parsers : Loop(p) \in Parsers /\ Loop(Plus(Loop(p), b)) = Loop(Plus(p, b))
  <1> DEFINE Fine(p) == Loop(p) \in Parsers /\ Loop(Plus(Loop(p), b)) = Loop(Plus(p, b))
             S == {n \in Nat : \A p \in Parsers : Len(p.buf) < n => Fine(p)}
  <1> HIDE DEF Fine
  <1>1. 0 \in S
    BY BufLen
  <1>2. ASSUME NEW n \in Nat, n \in S PROVE n + 1 \in S
    <2>1. ASSUME NEW p \in Parsers, Len(p.buf) < n + 1 PROVE Fine(p)
      <3>1. CASE Turn(p).state = p.state
        <4>1. Loop(p) = Idles(p) /\ Absent(p.buf, Watched(p.state))
          BY <3>1, LoopStops, TurnOver
        <4>2. /\ Idles(p) \in Parsers /\ Turn(Plus(Idles(p), b)) = Turn(Plus(p, b))
              /\ Plus(Idles(p), b).state = Plus(p, b).state
          BY <4>1, IdledMore
        <4>3. Plus(Idles(p), b) \in Parsers /\ Plus(p, b) \in Parsers
          BY <4>2, PlusIs
        <4>4. Loop(Plus(Idles(p), b)) = Loop(Plus(p, b))
          BY <4>2, <4>3, SameLoop
        <4> QED BY <4>1, <4>2, <4>4 DEF Fine
      <3>2. CASE Turn(p).state # p.state
        <4> DEFINE t == Turn(p)
        <4>1. t \in Parsers /\ Len(t.buf) < Len(p.buf)
          BY <3>2, TurnOn
        <4>2. Turn(Plus(p, b)) = Plus(t, b) /\ Turn(Plus(p, b)).state # Plus(p, b).state
          BY <3>2, TurnOn
        <4>3. Len(t.buf) < n
          BY <2>1, <4>1, BufLen
        <4>4. Loop(p) = Loop(t)
          BY <3>2, LoopGoesOn
        <4> HIDE DEF t
        <4>5. Fine(t)
          BY <1>2, <4>1, <4>3
        <4>6. Plus(p, b) \in Parsers
          BY PlusIs
        <4>7. Loop(Plus(p, b)) = Loop(Plus(t, b))
          BY <4>2, <4>6, LoopGoesOn
        <4> QED BY <4>4, <4>5, <4>7 DEF Fine
      <3> QED BY <3>1, <3>2
    <2> QED BY <2>1
  <1> HIDE DEF S
  <1>3. \A n \in Nat : n \in S
    BY <1>1, <1>2, Ascend
  <1>4. ASSUME NEW p \in Parsers PROVE Fine(p)
    <2>1. PICK l \in Nat : l = Len(p.buf)
      BY BufLen
    <2>2. l + 1 \in S /\ l < l + 1
      BY <1>3, <2>1
    <2> QED BY <2>1, <2>2 DEF S
  <1> QED BY <1>4 DEF Fine

LEMMA PlusTwice ==
    ASSUME NEW p \in Parsers, NEW a \in Seq(Alphabet), NEW b \in Seq(Alphabet)
    PROVE  Plus(Plus(p, a), b) = Plus(p, a \o b)
  <1> DEFINE q == Plus(p, a)
             ab == a \o b
  <1>1. /\ q \in Parsers /\ q.buf = p.buf \o a /\ q.state = p.state /\ q.tc_index = p.tc_index /\ q.name = p.name
        /\ q.arg_key = p.arg_key /\ q.first_arg = p.first_arg /\ q.client = p.client
    BY PlusIs
  <1>2. ab \in Seq(Alphabet)
    OBVIOUS
  <1>3. (p.buf \o a) \o b = p.buf \o ab
    <2>1. p.buf \in Seq(Alphabet)
      BY FieldsAre DEF Parsers
    <2> HIDE DEF q
    <2> DEFINE r == p.buf
    <2>2. r \in Seq(Alphabet)
      BY <2>1
    <2> HIDE DEF r
    <2>3. (r \o a) \o b = r \o (a \o b)
      BY <2>2, ConcatAssociative
    <2> QED BY <2>3 DEF r
  <1> HIDE DEF q, ab
  <1>4. Plus(q, b) = ParserOf(q.state, q.buf \o b, q.tc_index, q.name, q.arg_key, q.first_arg, q.client)
    BY <1>1, PlusIs
  <1>5. Plus(p, ab) = ParserOf(p.state, p.buf \o ab, p.tc_index, p.name, p.arg_key, p.first_arg, p.client)
    BY <1>2, PlusIs
  <1>6. Plus(q, b) = Plus(p, ab)
    BY <1>1, <1>3, <1>4, <1>5
  <1> QED BY <1>6 DEF q, ab

LEMMA CutInTwo ==
    ASSUME NEW S, NEW s \in Seq(S), NEW k \in Nat, NEW n \in Nat, k < n, n <= Len(s)
    PROVE  /\ SubSeq(s, 1, n) \in Seq(S) /\ SubSeq(s, 1, k) \in Seq(S) /\ SubSeq(s, k + 1, n) \in Seq(S)
           /\ SubSeq(s, 1, k) \o SubSeq(s, k + 1, n) = SubSeq(s, 1, n)
  <1>1. SubSeq(s, 1, n) \in Seq(S) /\ SubSeq(s, 1, k) \in Seq(S) /\ SubSeq(s, k + 1, n) \in Seq(S)
    OBVIOUS
  <1>2. SubSeq(s, 1, k) \o SubSeq(s, k + 1, n) = SubSeq(s, 1, n)
    OBVIOUS
  <1> QED BY <1>1, <1>2

LEMMA MinOfTwo ==
    ASSUME NEW a \in Nat, NEW k \in Nat
    PROVE  Min({a, k}) <= a /\ Min({a, k}) \in Nat
  <1> DEFINE x == IF a <= k THEN a ELSE k
  <1>1. x \in {a, k} /\ \A y \in {a, k} : x <= y
    OBVIOUS
  <1>2. Min({a, k}) \in {a, k} /\ \A y \in {a, k} : Min({a, k}) <= y
    BY <1>1 DEF Min
  <1> QED BY <1>2

LEMMA StartIs == Start \in Parsers /\ Start.buf = <<>>
  <1> DEFINE c == ClientOf(<<>>, <<>>, <<>>)
             s == ParserOf("TEXT", <<>>, 0, <<>>, <<>>, TRUE, c)
  <1>1. Start = s
    BY Zenon DEF Start, NoClient, ParserOf, ClientOf
  <1>2. c \in Clients /\ c.calls = <<>>
    BY DEF ClientOf, Clients
  <1> HIDE DEF c
  <1>3. s \in ParserRecord
    <2>1. "TEXT" \in ParserStates /\ <<>> \in Seq(Alphabet) /\ 0 \in Nat /\ TRUE \in BOOLEAN
      BY DEF ParserStates
    <2> QED BY <1>2, <2>1, ParserOfIs, Zenon
  <1>4. s.state = "TEXT" /\ s.buf = <<>> /\ s.tc_index = 0 /\ s.client = c
    BY DEF ParserOf
  <1> HIDE DEF s
  <1> QED BY <1>1, <1>2, <1>3, <1>4 DEF Parsers, Numbered

----------------------------------------------------------------------------
(* The theorem.                                                             *)

\* The text read so far went through the parser, in whatever pieces.
ParserInvariant ==
    /\ reply \in Replies /\ read \in 0 .. Len(reply)
    /\ read = 0 => parser = Start
    /\ ChunkIndependent

LEMMA ParserStarts == ParserInit => ParserInvariant
  <1> SUFFICES ASSUME ParserInit PROVE ParserInvariant
    OBVIOUS
  <1>1. reply \in Replies /\ read = 0 /\ parser = Start
    BY DEF ParserInit
  <1>2. reply \in Seq(Alphabet)
    BY <1>1, ParserAssumption
  <1>3. Len(reply) \in Nat
    BY <1>2
  <1> QED BY <1>1, <1>3 DEF ParserInvariant, ChunkIndependent

LEMMA ParserStep == ParserInvariant /\ [ParserNext]_parserVars => ParserInvariant'
  <1> SUFFICES ASSUME ParserInvariant, [ParserNext]_parserVars PROVE ParserInvariant'
    OBVIOUS
  <1>1. CASE UNCHANGED parserVars
    BY <1>1 DEF parserVars, ParserInvariant, ChunkIndependent
  <1>2. CASE Chunk
    <2>1. /\ reply \in Replies /\ read \in 0 .. Len(reply) /\ reply \in Seq(Alphabet) /\ Len(reply) \in Nat
          /\ reply' = reply /\ read < Len(reply)
      <3>1. reply \in Replies /\ reply \in Seq(Alphabet)
        BY ParserAssumption DEF ParserInvariant
      <3> QED BY <1>2, <3>1 DEF Chunk, ParserInvariant
    <2>2. PICK n \in read + 1 .. Min({Len(reply), read + MaxPiece}) :
             parser' = AddChunk(parser, SubSeq(reply, read + 1, n)) /\ read' = n
      BY <1>2 DEF Chunk
    <2>3. n \in Nat /\ read < n /\ n <= Len(reply)
      <3>0. read \in Nat /\ MaxPiece \in Nat
        <4>1. MaxPiece \in Nat
          BY ParserAssumption, Zenon
        <4> QED BY <2>1, <4>1
      <3>1. PICK a \in Nat, k \in Nat : a = Len(reply) /\ k = read + MaxPiece
        <4>1. Len(reply) \in Nat /\ read + MaxPiece \in Nat
          BY <2>1, <3>0
        <4> QED BY <4>1, Zenon
      <3>2. Min({a, k}) <= a /\ Min({a, k}) \in Nat
        BY <3>1, MinOfTwo
      <3>3. n \in read + 1 .. Min({a, k})
        BY <2>2, <3>1
      <3> QED BY <3>0, <3>1, <3>2, <3>3
    <2> DEFINE whole == SubSeq(reply, 1, n)
               first == SubSeq(reply, 1, read)
               more == SubSeq(reply, read + 1, n)
    <2>4. whole \in Seq(Alphabet) /\ first \in Seq(Alphabet) /\ more \in Seq(Alphabet) /\ first \o more = whole
      BY <2>1, <2>3, CutInTwo
    <2>5. parser' = AddChunk(Start, whole)
      <3>1. CASE read = 0
        <4>1. parser = Start /\ read + 1 = 1
          BY <3>1 DEF ParserInvariant
        <4> QED BY <2>2, <4>1
      <3>2. CASE read # 0
        <4> DEFINE p == Plus(Start, first)
        <4>1. parser = AddChunk(Start, first)
          BY <2>1, <3>2 DEF ParserInvariant, ChunkIndependent
        <4>2. Loop(p) \in Parsers /\ Loop(Plus(Loop(p), more)) = Loop(Plus(p, more))
          <5>1. p \in Parsers
            BY <2>4, StartIs, PlusIs
          <5> HIDE DEF p, more
          <5> QED BY <2>4, <5>1, LoopInTwo
        <4>3. Plus(p, more) = Plus(Start, whole)
          BY <2>4, StartIs, PlusTwice, ZenonT(60)
        <4>4. parser' = Loop(Plus(parser, more)) /\ parser = Loop(p)
          BY <2>2, <4>1 DEF AddChunk, Plus
        <4>5. AddChunk(Start, whole) = Loop(Plus(Start, whole))
          BY DEF AddChunk, Plus
        <4> HIDE DEF p, more, whole
        <4> QED BY <4>2, <4>3, <4>4, <4>5
      <3> QED BY <3>1, <3>2
    <2>6. ChunkIndependent'
      BY <2>1, <2>2, <2>5 DEF ChunkIndependent
    <2> QED BY <2>1, <2>2, <2>3, <2>6 DEF ParserInvariant
  <1> QED BY <1>1, <1>2 DEF ParserNext

\* Where the engine cuts a reply makes no difference to what the parser has
\* done with what it has got of it, for every set of replies, every cut and
\* every number of pieces.
THEOREM ChunksNeverMatter == ParserSpec => []ChunkIndependent
  <1>1. ParserInvariant => ChunkIndependent
    BY DEF ParserInvariant
  <1> QED BY <1>1, ParserStarts, ParserStep, PTL DEF ParserSpec

----------------------------------------------------------------------------
(* Quotes.                                                                  *)

Quote == "\""
QuotesAt(s) == {i \in 1 .. Len(s) : s[i] = Quote}

LEMMA QuotesAre ==
    ASSUME NEW s \in Seq(Out)
    PROVE  /\ Quotes(s) = Cardinality(QuotesAt(s)) /\ Quotes(s) \in Nat /\ IsFiniteSet(QuotesAt(s))
           /\ (\A i \in 1 .. Len(s) : s[i] # Quote) => Quotes(s) = 0
  <1>1. Quotes(s) = Cardinality(QuotesAt(s))
    <2>1. DOMAIN s = 1 .. Len(s)
      OBVIOUS
    <2> QED BY <2>1, Zenon DEF Quotes, QuotesAt, Quote
  <1>2. QuotesAt(s) \subseteq 1 .. Len(s) /\ IsFiniteSet(1 .. Len(s))
    <2>1. Len(s) \in Nat
      OBVIOUS
    <2>2. IsFiniteSet(1 .. Len(s))
      BY <2>1, FS_Interval
    <2> QED BY <2>2 DEF QuotesAt
  <1>3. IsFiniteSet(QuotesAt(s))
    BY <1>2, FS_Subset
  <1>4. Quotes(s) \in Nat
    BY <1>1, <1>3, FS_CardinalityType
  <1>5. ASSUME \A i \in 1 .. Len(s) : s[i] # Quote PROVE Quotes(s) = 0
    <2>1. QuotesAt(s) = {}
      BY <1>5 DEF QuotesAt
    <2> QED BY <1>1, <2>1, FS_EmptySet
  <1> QED BY <1>1, <1>3, <1>4, <1>5

LEMMA QuotesJoin ==
    ASSUME NEW a \in Seq(Out), NEW b \in Seq(Out)
    PROVE  a \o b \in Seq(Out) /\ Quotes(a \o b) = Quotes(a) + Quotes(b)
  <1>1. PICK c \in Seq(Out) : c = a \o b
    <2>1. a \o b \in Seq(Out)
      OBVIOUS
    <2> QED BY <2>1
  <1>2. PICK n \in Nat, m \in Nat : n = Len(a) /\ m = Len(b) /\ Len(c) = n + m
    BY <1>1
  <1>3. (\A i \in 1 .. n : c[i] = a[i]) /\ \A i \in 1 .. m : c[i + n] = b[i]
    BY <1>1, <1>2, JoinIs
  <1> DEFINE A == QuotesAt(a)
             B == QuotesAt(b)
             C == {i \in 1 .. Len(c) : c[i] = Quote /\ i > n}
             f == [i \in B |-> i + n]
  <1>4. QuotesAt(c) = A \cup C /\ A \cap C = {}
    <2>1. ASSUME NEW i PROVE i \in QuotesAt(c) <=> i \in A \/ i \in C
      <3>1. i \in A => i \in QuotesAt(c)
        BY <1>2, <1>3 DEF QuotesAt
      <3>2. i \in C => i \in QuotesAt(c)
        BY DEF QuotesAt
      <3>3. i \in QuotesAt(c) => i \in A \/ i \in C
        BY <1>2, <1>3 DEF QuotesAt
      <3> QED BY <3>1, <3>2, <3>3
    <2>2. A \cap C = {}
      BY <1>2 DEF QuotesAt
    <2> QED BY <2>1, <2>2
  <1>5. ExistsBijection(B, C)
    <2>1. f \in [B -> C]
      <3>1. ASSUME NEW i \in B PROVE i + n \in C
        BY <1>2, <1>3 DEF QuotesAt
      <3> QED BY <3>1
    <2>2. ASSUME NEW i \in B, NEW j \in B, f[i] = f[j] PROVE i = j
      <3>1. i \in Nat /\ j \in Nat /\ i + n = j + n
        BY <2>2 DEF QuotesAt
      <3> QED BY <3>1
    <2>3. ASSUME NEW k \in C PROVE \E i \in B : f[i] = k
      <3>1. k \in Nat /\ n < k /\ k <= n + m /\ c[k] = Quote
        BY <1>2
      <3>2. PICK i \in 1 .. m : i + n = k
        <4>1. k - n \in 1 .. m /\ (k - n) + n = k
          BY <3>1
        <4> QED BY <4>1
      <3>3. i \in B
        BY <1>2, <1>3, <3>1, <3>2 DEF QuotesAt
      <3> QED BY <3>2, <3>3
    <2> HIDE DEF f, B, C
    <2>4. f \in Bijection(B, C)
      BY <2>1, <2>2, <2>3 DEF Bijection, Injection, Surjection, IsInjective
    <2> QED BY <2>4 DEF ExistsBijection
  <1>6. IsFiniteSet(A) /\ IsFiniteSet(B) /\ Quotes(a) = Cardinality(A) /\ Quotes(b) = Cardinality(B)
        /\ Quotes(c) = Cardinality(QuotesAt(c)) /\ Quotes(a) \in Nat /\ Quotes(b) \in Nat
    BY QuotesAre
  <1> HIDE DEF A, B, C
  <1>7. IsFiniteSet(C) /\ Cardinality(C) = Cardinality(B)
    BY <1>5, <1>6, FS_Bijection
  <1>8. Cardinality(A \cup C) = Cardinality(A) + Cardinality(C)
    <2>1. Cardinality(A \cup C) = Cardinality(A) + Cardinality(C) - Cardinality(A \cap C)
      BY <1>6, <1>7, FS_Union
    <2>2. Cardinality(A \cap C) = 0
      BY <1>4, FS_EmptySet
    <2> QED BY <1>6, <1>7, <2>1, <2>2
  <1>9. Quotes(c) = Quotes(a) + Quotes(b)
    BY <1>4, <1>6, <1>7, <1>8
  <1> QED BY <1>1, <1>9

LEMMA NoQuotes ==
    ASSUME NEW s \in Seq(Alphabet)
    PROVE  s \in Seq(Out) /\ Quotes(s) = 0
  <1>1. s \in Seq(Out) /\ \A i \in 1 .. Len(s) : s[i] \in Alphabet
    <2>1. \A i \in 1 .. Len(s) : s[i] \in Alphabet
      OBVIOUS
    <2>2. Alphabet \subseteq Out
      BY DEF Out
    <2>3. Len(s) \in Nat /\ s = [i \in 1 .. Len(s) |-> s[i]]
      OBVIOUS
    <2> QED BY <2>1, <2>2, <2>3
  <1>2. Quote \notin Alphabet
    BY ParserAssumption DEF Quote
  <1>3. \A i \in 1 .. Len(s) : s[i] # Quote
    BY <1>1, <1>2
  <1> QED BY <1>1, <1>3, QuotesAre

LEMMA QuotesOfOne ==
    /\ \A o \in Out : <<o>> \in Seq(Out) /\ Quotes(<<o>>) = IF o = Quote THEN 1 ELSE 0
    /\ Quotes(<<>>) = 0
  <1>1. ASSUME NEW o \in Out PROVE <<o>> \in Seq(Out) /\ Quotes(<<o>>) = IF o = Quote THEN 1 ELSE 0
    <2>1. <<o>> \in Seq(Out) /\ Len(<<o>>) = 1 /\ <<o>>[1] = o
      OBVIOUS
    <2>2. CASE o = Quote
      <3>1. QuotesAt(<<o>>) = {1}
        BY <2>1, <2>2 DEF QuotesAt
      <3>2. Quotes(<<o>>) = Cardinality(QuotesAt(<<o>>))
        BY <2>1, QuotesAre
      <3>3. Cardinality({1}) = 1
        BY FS_Singleton
      <3> QED BY <2>1, <2>2, <3>1, <3>2, <3>3
    <2>3. CASE o # Quote
      <3>1. \A i \in 1 .. Len(<<o>>) : <<o>>[i] # Quote
        BY <2>1, <2>3
      <3>2. Quotes(<<o>>) = 0
        BY <2>1, <3>1, QuotesAre
      <3> QED BY <2>1, <2>3, <3>2
    <2> QED BY <2>2, <2>3
  <1>2. Quotes(<<>>) = 0
    <2>1. <<>> \in Seq(Alphabet)
      OBVIOUS
    <2> QED BY <2>1, NoQuotes
  <1> QED BY <1>1, <1>2

LEMMA JsonQuotes ==
    /\ Quotes(<<"{">>) = 0 /\ Quotes(<<"}">>) = 0 /\ Quotes(<<":">>) = 0 /\ Quotes(<<",">>) = 0
    /\ Quotes(<<"\"">>) = 1 /\ Quotes(<<"\\">>) = 0
  <1>1. /\ "{" \in Out /\ "}" \in Out /\ ":" \in Out /\ "," \in Out /\ "\"" \in Out /\ "\\" \in Out
    BY DEF Out
  <1>2. Quote = "\"" /\ Quote # "{" /\ Quote # "}" /\ Quote # ":" /\ Quote # "," /\ Quote # "\\"
    BY DEF Quote
  <1>3. ASSUME NEW o \in Out, Quote # o PROVE Quotes(<<o>>) = 0
    BY <1>3, QuotesOfOne
  <1>4. Quotes(<<Quote>>) = 1
    BY <1>1, <1>2, QuotesOfOne
  <1>5. Quotes(<<"\"">>) = 1
    BY <1>4 DEF Quote
  <1> QED BY <1>1, <1>2, <1>3, <1>5, Zenon

LEMMA EscapedQuotes == \A s \in Seq(Alphabet) : Escaped(s) \in Seq(Out) /\ Quotes(Escaped(s)) = 0
  <1> DEFINE S == {s \in Seq(Alphabet) : Quotes(Escaped(s)) = 0}
  <1>1. <<>> \in S
    BY EscapedSteps, QuotesOfOne
  <1>2. ASSUME NEW s \in Seq(Alphabet), NEW c \in Alphabet, s \in S PROVE Append(s, c) \in S
    <2>1. Escaped(Append(s, c)) = Escaped(s) \o Spelt(c) /\ Append(s, c) \in Seq(Alphabet)
      BY EscapedSteps
    <2>2. Escaped(s) \in Seq(Out) /\ Spelt(c) \in Seq(Out)
      BY EscapedText, SpeltIs
    <2>3. Quotes(Spelt(c)) = 0
      <3>1. c \in Out /\ c # Quote
        BY ParserAssumption DEF Out, Quote
      <3>2. Quotes(<<c>>) = 0
        BY <3>1, QuotesOfOne
      <3>3. Quotes(<<"\\", c>>) = 0
        <4>1. \A x, y \in Out : x # Quote /\ y # Quote => Quotes(<<x, y>>) = 0
          <5> SUFFICES ASSUME NEW x \in Out, NEW y \in Out, x # Quote, y # Quote PROVE Quotes(<<x, y>>) = 0
            OBVIOUS
          <5>1. <<x, y>> \in Seq(Out) /\ \A i \in 1 .. Len(<<x, y>>) : <<x, y>>[i] # Quote
            OBVIOUS
          <5> QED BY <5>1, QuotesAre
        <4>2. "\\" \in Out /\ "\\" # Quote
          BY DEF Out, Quote
        <4> QED BY <3>1, <4>1, <4>2, Zenon
      <3> QED BY <3>2, <3>3, Zenon DEF Spelt
    <2>4. Quotes(Escaped(s) \o Spelt(c)) = 0
      BY <1>2, <2>2, <2>3, QuotesJoin
    <2> QED BY <2>1, <2>4
  <1> HIDE DEF S
  <1>3. \A s \in Seq(Alphabet) : s \in S
    BY <1>1, <1>2, ByOneSymbol
  <1> QED BY <1>3, EscapedText DEF S

\* The parser opens a string with one quote and closes it with another.
LEMMA QuotesOfValue ==
    ASSUME NEW p \in ParserRecord, NEW s \in Seq(Alphabet)
    PROVE  /\ ValueOpens(p) \in Seq(Out) /\ Quotes(ValueOpens(p)) = IF IsString(p) THEN 3 ELSE 2
           /\ Encoded(p, s) \in Seq(Out) /\ Quotes(Encoded(p, s)) = 0
           /\ ValueCloses(p) \in Seq(Out) /\ Quotes(ValueCloses(p)) = IF IsString(p) THEN 1 ELSE 0
           /\ Encoded(p, s) \o ValueCloses(p) \in Seq(Out)
           /\ Quotes(Encoded(p, s) \o ValueCloses(p)) = IF IsString(p) THEN 1 ELSE 0
  <1>1. ValueOpens(p) \in Seq(Out) /\ Encoded(p, s) \in Seq(Out) /\ ValueCloses(p) \in Seq(Out)
    BY TextsOf
  <1>2. Quotes(Encoded(p, s)) = 0
    BY NoQuotes, EscapedQuotes DEF Encoded
  <1>3. Quotes(ValueCloses(p)) = IF IsString(p) THEN 1 ELSE 0
    BY JsonQuotes, QuotesOfOne, Zenon DEF ValueCloses
  <1>4. /\ Encoded(p, s) \o ValueCloses(p) \in Seq(Out)
        /\ Quotes(Encoded(p, s) \o ValueCloses(p)) = IF IsString(p) THEN 1 ELSE 0
    <2> DEFINE x == Encoded(p, s)
               y == ValueCloses(p)
    <2>1. x \in Seq(Out) /\ y \in Seq(Out) /\ Quotes(x) = 0
      BY <1>1, <1>2
    <2> HIDE DEF x, y
    <2>2. x \o y \in Seq(Out) /\ Quotes(x \o y) = 0 + Quotes(y) /\ Quotes(y) \in Nat
      BY <2>1, QuotesJoin, QuotesAre
    <2>3. Quotes(x \o y) = Quotes(y)
      BY <2>2
    <2> QED BY <1>3, <2>2, <2>3, Zenon DEF x, y
  <1>5. Quotes(ValueOpens(p)) = IF IsString(p) THEN 3 ELSE 2
    <2> DEFINE q == <<"\"">>
               e == Escaped(p.arg_key)
               u == IF p.first_arg THEN <<>> ELSE <<",">>
               w == <<":">>
               x == IF IsString(p) THEN <<"\"">> ELSE <<>>
               k == q \o e \o q
    <2>1. q \in Seq(Out) /\ Quotes(q) = 1
      BY OneSymbol, JsonQuotes, Zenon
    <2>2. e \in Seq(Out) /\ Quotes(e) = 0
      BY EscapedQuotes DEF ParserRecord
    <2>3. u \in Seq(Out) /\ Quotes(u) = 0
      BY OneSymbol, JsonQuotes, QuotesOfOne, Zenon
    <2>4. w \in Seq(Out) /\ Quotes(w) = 0
      BY OneSymbol, JsonQuotes, Zenon
    <2>5. x \in Seq(Out) /\ Quotes(x) = IF IsString(p) THEN 1 ELSE 0
      BY OneSymbol, JsonQuotes, QuotesOfOne, Zenon
    <2>6. ValueOpens(p) = u \o k \o w \o x
      BY DEF ValueOpens, Quoted
    <2> HIDE DEF q, e, u, w, x
    <2> DEFINE qe == q \o e
               uk == u \o k
               ukw == uk \o w
    <2>7. qe \in Seq(Out) /\ Quotes(qe) = 1
      BY <2>1, <2>2, QuotesJoin
    <2>8. k = qe \o q
      OBVIOUS
    <2> HIDE DEF qe, k
    <2>9. k \in Seq(Out) /\ Quotes(k) = 2
      BY <2>1, <2>7, <2>8, QuotesJoin
    <2>10. uk \in Seq(Out) /\ Quotes(uk) = 2
      BY <2>3, <2>9, QuotesJoin
    <2>11. ukw = u \o k \o w
      OBVIOUS
    <2> HIDE DEF uk
    <2>12. ukw \in Seq(Out) /\ Quotes(ukw) = 2
      BY <2>4, <2>10, QuotesJoin
    <2> HIDE DEF ukw
    <2>13. Quotes(ukw \o x) = 2 + Quotes(x)
      BY <2>5, <2>12, QuotesJoin
    <2> QED BY <2>5, <2>6, <2>11, <2>13
  <1> QED BY <1>1, <1>2, <1>3, <1>4, <1>5

----------------------------------------------------------------------------
(* What the client was told of the calls.                                   *)

\* The arguments open an object, after which there is an odd number of quotes
\* or not.
Opened(s, odd) == Len(s) >= 1 /\ s[1] = "{" /\ Quotes(s) % 2 = odd
Shut(s) == Opened(s, 0) /\ s[Len(s)] = "}"

\* The first n calls are closed objects, and a call after them is open.
Told(calls, n, odd) ==
    \A i \in 1 .. Len(calls) :
      /\ i <= n => Shut(calls[i].arguments)
      /\ i > n => Opened(calls[i].arguments, odd)

LEMMA OpenedLonger ==
    ASSUME NEW s \in Seq(Out), NEW t \in Seq(Out), NEW odd \in 0 .. 1, Opened(s, odd)
    PROVE  Opened(s \o t, (odd + Quotes(t)) % 2)
  <1>1. PICK c \in Seq(Out) : c = s \o t
    <2>1. s \o t \in Seq(Out)
      OBVIOUS
    <2> QED BY <2>1
  <1>2. PICK n \in Nat, m \in Nat : n = Len(s) /\ m = Len(t) /\ Len(c) = n + m
    BY <1>1
  <1>3. \A i \in 1 .. n : c[i] = s[i]
    BY <1>1, <1>2, JoinIs
  <1>4. Len(c) >= 1 /\ c[1] = "{"
    <2>1. Len(s) >= 1 /\ s[1] = "{"
      BY DEF Opened
    <2>2. 1 \in 1 .. n /\ Len(c) >= 1
      <3>1. Len(s) >= 1
        BY <2>1
      <3> QED BY <1>2, <3>1
    <2>3. c[1] = s[1]
      BY <1>3, <2>2
    <2> QED BY <2>1, <2>2, <2>3
  <1>5. PICK a \in Nat, b \in Nat : a = Quotes(s) /\ b = Quotes(t) /\ Quotes(c) = a + b
    BY <1>1, QuotesAre, QuotesJoin
  <1>6. a % 2 = odd
    BY <1>5 DEF Opened
  <1>7. (a + b) % 2 = (odd + b) % 2
    BY <1>6
  <1>8. Quotes(c) % 2 = (odd + Quotes(t)) % 2
    BY <1>5, <1>7
  <1> QED BY <1>1, <1>4, <1>8 DEF Opened

LEMMA LastOfJoin ==
    ASSUME NEW S, NEW s \in Seq(S), NEW t \in Seq(S), Len(t) = 1
    PROVE  Len(s \o t) = Len(s) + 1 /\ (s \o t)[Len(s) + 1] = t[1]
  <1>1. /\ Len(s \o t) = Len(s) + Len(t) /\ Len(s) \in Nat
        /\ \A i \in 1 .. Len(t) : (s \o t)[i + Len(s)] = t[i]
    BY JoinIs
  <1>2. (s \o t)[1 + Len(s)] = t[1]
    BY <1>1
  <1>3. 1 + Len(s) = Len(s) + 1
    BY <1>1
  <1> QED BY <1>1, <1>2, <1>3

LEMMA ShutByBrace ==
    ASSUME NEW s \in Seq(Out), Opened(s, 0)
    PROVE  Shut(s \o Brace)
  <1>1. Brace \in Seq(Out) /\ Quotes(Brace) = 0 /\ Len(Brace) = 1 /\ Brace[1] = "}"
    <2>1. Brace \in Seq(Out) /\ Quotes(Brace) = 0
      BY OneSymbol, JsonQuotes, Zenon DEF Brace
    <2>2. \A o : Len(<<o>>) = 1 /\ <<o>>[1] = o
      OBVIOUS
    <2> QED BY <2>1, <2>2, Zenon DEF Brace
  <1>2. Opened(s \o Brace, 0)
    <2>1. 0 \in 0 .. 1 /\ (0 + 0) % 2 = 0
      OBVIOUS
    <2>2. Opened(s \o Brace, (0 + Quotes(Brace)) % 2)
      BY <1>1, <2>1, OpenedLonger
    <2> QED BY <1>1, <2>1, <2>2
  <1>3. PICK b \in Seq(Out) : b = Brace /\ Len(b) = 1 /\ b[1] = "}"
    BY <1>1
  <1>4. Len(s \o b) = Len(s) + 1 /\ (s \o b)[Len(s) + 1] = "}"
    <2>1. (s \o b)[Len(s) + 1] = b[1] /\ Len(s \o b) = Len(s) + 1
      <3>1. b \in Seq(Out) /\ Len(b) = 1
        BY <1>3
      <3> QED BY <3>1, LastOfJoin
    <2> QED BY <1>3, <2>1
  <1>5. (s \o b)[Len(s \o b)] = "}"
    BY <1>4
  <1> QED BY <1>2, <1>3, <1>5 DEF Shut

LEMMA OpeningIs == Opening \in Seq(Out) /\ Opened(Opening, 0)
  <1>1. Opening \in Seq(Out) /\ Quotes(Opening) = 0
    BY OneSymbol, JsonQuotes, Zenon DEF Opening
  <1>2. Len(Opening) = 1 /\ Opening[1] = "{"
    <2>2. \A o : Len(<<o>>) = 1 /\ <<o>>[1] = o
      OBVIOUS
    <2> QED BY <2>2, Zenon DEF Opening
  <1>3. \A x, k : x = 0 /\ k = 1 => x % 2 = 0 /\ k >= 1
    OBVIOUS
  <1> QED BY <1>1, <1>2, <1>3, Zenon DEF Opened

\* A piece of the arguments of the call under way.
LEMMA ToldMore ==
    ASSUME NEW c \in Clients, NEW n \in Nat, Len(c.calls) = n + 1, NEW s \in Seq(Out),
           NEW odd \in 0 .. 1, NEW odder \in 0 .. 1, odder = (odd + Quotes(s)) % 2, Told(c.calls, n, odd)
    PROVE  Told(Argues(c, n, s).calls, n, odder)
  <1> DEFINE d == c.calls
  <1>1. c = ClientOf(c.content, c.reasoning, d) /\ d \in Seq(ToolCalls)
    BY SameClient
  <1>2. PICK k \in Nat : k = n + 1 /\ k \in 1 .. Len(d) /\ Len(d) = k
    BY <1>1
  <1> DEFINE e == Longer(d, k, s)
  <1>3. Argues(c, n, s).calls = e
    <2> DEFINE a == c.content
               b == c.reasoning
    <2>1. c = ClientOf(a, b, d) /\ n < Len(d)
      BY <1>1, <1>2
    <2> HIDE DEF a, b, d, e
    <2>2. Argues(ClientOf(a, b, d), n, s) = ClientOf(a, b, e)
      <3>1. Argues(ClientOf(a, b, d), n, s) = ClientOf(a, b, Longer(d, n + 1, s))
        BY <1>1, <2>1, ArguesIs
      <3> QED BY <1>2, <3>1 DEF e
    <2> QED BY <2>1, <2>2, PartsOfClient
  <1>4. /\ Len(e) = k /\ e[k].arguments = d[k].arguments \o s
        /\ \A j \in 1 .. k : j # k => e[j] = d[j]
    <2>1. k \in 1 .. Len(d) /\ d \in Seq(ToolCalls)
      BY <1>1, <1>2
    <2> HIDE DEF d
    <2>2. /\ Len(e) = Len(d) /\ e[k] = [name |-> d[k].name, arguments |-> d[k].arguments \o s]
          /\ \A j \in 1 .. Len(d) : j # k => e[j] = d[j]
      BY <2>1, LongerIs, ZenonT(60)
    <2> HIDE DEF e
    <2> QED BY <1>2, <2>2
  <1>5. Told(d, n, odd)
    OBVIOUS
  <1>6. d[k].arguments \in Seq(Out) /\ Opened(d[k].arguments, odd)
    <2> HIDE DEF d
    <2>1. d[k] \in ToolCalls /\ k > n /\ k \in 1 .. Len(d)
      BY <1>1, <1>2
    <2> QED BY <1>5, <2>1 DEF Told, ToolCalls
  <1>7. Opened(e[k].arguments, odder)
    BY <1>4, <1>6, OpenedLonger
  <1> HIDE DEF d, e
  <1>8. Told(e, n, odder)
    <2>1. ASSUME NEW i \in 1 .. Len(e), i <= n PROVE Shut(e[i].arguments)
      BY <1>2, <1>4, <1>5, <2>1 DEF Told
    <2>2. ASSUME NEW i \in 1 .. Len(e), i > n PROVE Opened(e[i].arguments, odder)
      <3>1. i = k
        BY <1>2, <1>4, <2>2
      <3> QED BY <1>7, <3>1
    <2> QED BY <2>1, <2>2 DEF Told
  <1> QED BY <1>3, <1>8

\* The end of the call under way.
LEMMA ToldEnd ==
    ASSUME NEW c \in Clients, NEW n \in Nat, Len(c.calls) = n + 1, Told(c.calls, n, 0)
    PROVE  \A odd : Told(Argues(c, n, Brace).calls, n + 1, odd)
  <1> DEFINE d == c.calls
  <1>0. Brace \in Seq(Out)
    BY OneSymbol, Zenon DEF Brace
  <1>1. c = ClientOf(c.content, c.reasoning, d) /\ d \in Seq(ToolCalls)
    BY SameClient
  <1>2. PICK k \in Nat : k = n + 1 /\ k \in 1 .. Len(d) /\ Len(d) = k
    BY <1>1
  <1> DEFINE e == Longer(d, k, Brace)
  <1>3. Argues(c, n, Brace).calls = e
    <2> DEFINE a == c.content
               b == c.reasoning
    <2>1. c = ClientOf(a, b, d) /\ n < Len(d)
      BY <1>1, <1>2
    <2> HIDE DEF a, b, d, e
    <2>2. Argues(ClientOf(a, b, d), n, Brace) = ClientOf(a, b, e)
      <3>1. Argues(ClientOf(a, b, d), n, Brace) = ClientOf(a, b, Longer(d, n + 1, Brace))
        BY <1>0, <1>1, <2>1, ArguesIs
      <3> QED BY <1>2, <3>1 DEF e
    <2> QED BY <2>1, <2>2, PartsOfClient
  <1>4. /\ Len(e) = k /\ e[k].arguments = d[k].arguments \o Brace
        /\ \A j \in 1 .. k : j # k => e[j] = d[j]
    <2>1. k \in 1 .. Len(d) /\ d \in Seq(ToolCalls)
      BY <1>1, <1>2
    <2> HIDE DEF d
    <2>2. /\ Len(e) = Len(d) /\ e[k] = [name |-> d[k].name, arguments |-> d[k].arguments \o Brace]
          /\ \A j \in 1 .. Len(d) : j # k => e[j] = d[j]
      BY <1>0, <2>1, LongerIs, ZenonT(60)
    <2> HIDE DEF e
    <2> QED BY <1>2, <2>2
  <1>5. Told(d, n, 0)
    OBVIOUS
  <1>6. d[k].arguments \in Seq(Out) /\ Opened(d[k].arguments, 0)
    <2> HIDE DEF d
    <2>1. d[k] \in ToolCalls /\ k > n /\ k \in 1 .. Len(d)
      BY <1>1, <1>2
    <2> QED BY <1>5, <2>1 DEF Told, ToolCalls
  <1>7. Shut(e[k].arguments)
    BY <1>4, <1>6, ShutByBrace
  <1> HIDE DEF d, e
  <1>8. ASSUME NEW i \in 1 .. Len(e) PROVE Shut(e[i].arguments) /\ i <= k
    <2>1. i \in Nat /\ i <= k /\ i \in 1 .. Len(d)
      BY <1>2, <1>4
    <2>2. CASE i = k
      BY <1>7, <2>1, <2>2
    <2>3. CASE i # k
      <3>1. i <= n /\ e[i] = d[i]
        BY <1>2, <1>4, <2>1, <2>3
      <3> QED BY <1>5, <2>1, <3>1 DEF Told
    <2> QED BY <2>2, <2>3
  <1>9. \A odd : Told(e, k, odd)
    BY <1>2, <1>4, <1>8 DEF Told
  <1> QED BY <1>2, <1>3, <1>9

\* A call the client is told of.
LEMMA ToldOfCall ==
    ASSUME NEW c \in Clients, NEW n \in Nat, Len(c.calls) = n, NEW s \in Seq(Out), Told(c.calls, n, 0)
    PROVE  Told(Calls(c, s).calls, n, 0)
  <1> DEFINE d == c.calls
             x == [name |-> s, arguments |-> Opening]
             e == Append(d, x)
  <1>1. c = ClientOf(c.content, c.reasoning, d) /\ d \in Seq(ToolCalls)
    BY SameClient
  <1>2. Calls(c, s).calls = e
    <2> DEFINE a == c.content
               b == c.reasoning
    <2>1. c = ClientOf(a, b, d)
      BY <1>1
    <2> HIDE DEF a, b, d, e
    <2>2. Calls(ClientOf(a, b, d), s) = ClientOf(a, b, e)
      BY <1>1, CallsIs DEF e
    <2> QED BY <2>1, <2>2, PartsOfClient
  <1>3. x.arguments = Opening
    OBVIOUS
  <1>4. Len(d) = n /\ Told(d, n, 0)
    OBVIOUS
  <1> HIDE DEF d, x
  <1>5. Len(e) = n + 1 /\ e[n + 1] = x /\ \A j \in 1 .. n : e[j] = d[j]
    BY <1>1, <1>4
  <1> HIDE DEF e
  <1>6. ASSUME NEW i \in 1 .. Len(e)
        PROVE  (i <= n => Shut(e[i].arguments)) /\ (i > n => Opened(e[i].arguments, 0))
    <2>1. CASE i <= n
      BY <1>4, <1>5, <2>1 DEF Told
    <2>2. CASE i > n
      BY <1>3, <1>5, <2>2, OpeningIs
    <2> QED BY <2>1, <2>2
  <1>7. Told(e, n, 0)
    BY <1>6 DEF Told
  <1> QED BY <1>2, <1>7

\* Within a string there is one quote too many.
Odd(p) == IF p.state = "TOOL_VAL" /\ IsString(p) THEN 1 ELSE 0
WellTold(p) == Told(p.client.calls, p.tc_index, Odd(p))

LEMMA SaysCalls ==
    ASSUME NEW c \in Clients, NEW s \in Seq(Out)
    PROVE  Says(c, s).calls = c.calls /\ Reasons(c, s).calls = c.calls
  <1> DEFINE a == c.content
             b == c.reasoning
             d == c.calls
  <1>1. c = ClientOf(a, b, d) /\ d = c.calls
    BY SameClient
  <1> HIDE DEF a, b, d
  <1>2. Says(ClientOf(a, b, d), s).calls = d /\ Reasons(ClientOf(a, b, d), s).calls = d
    BY SaysIs, ReasonsIs, PartsOfClient
  <1> QED BY <1>1, <1>2

LEMMA FlushTold ==
    ASSUME NEW p \in Parsers, WellTold(p), NEW s \in Seq(Alphabet)
    PROVE  Told(Flushes(p, s).calls, p.tc_index, Odd(p))
  <1>1. p \in ParserRecord /\ p.client \in Clients /\ p.tc_index \in Nat /\ p.state \in ParserStates
    BY FieldsAre DEF Parsers
  <1>2. s \in Seq(Out) /\ Encoded(p, s) \in Seq(Out) /\ Quotes(Encoded(p, s)) = 0
    BY <1>1, TextsOf, QuotesOfValue
  <1>3. CASE p.state # "TOOL_VAL"
    <2>1. Flushes(p, s).calls = p.client.calls
      BY <1>1, <1>2, <1>3, SaysCalls, Zenon DEF Flushes, ParserStates
    <2> QED BY <2>1 DEF WellTold
  <1>4. CASE p.state = "TOOL_VAL"
    <2>1. Flushes(p, s) = Argues(p.client, p.tc_index, Encoded(p, s))
      BY <1>4 DEF Flushes
    <2>2. Len(p.client.calls) = p.tc_index + 1
      BY <1>1, <1>4 DEF Parsers, Numbered
    <2>3. Odd(p) \in 0 .. 1
      BY DEF Odd
    <2>4. Odd(p) = (Odd(p) + Quotes(Encoded(p, s))) % 2
      BY <1>2, <2>3
    <2> QED BY <1>1, <1>2, <2>1, <2>2, <2>3, <2>4, ToldMore DEF WellTold
  <1> QED BY <1>3, <1>4

LEMMA IdlesTold ==
    ASSUME NEW p \in Parsers, WellTold(p)
    PROVE  WellTold(Idles(p))
  <1> DEFINE q == Idles(p)
             s == SubSeq(p.buf, 1, Gone(p))
  <1>1. s \in Seq(Alphabet)
    BY IdlesIs
  <1>2. q.state = p.state /\ q.tc_index = p.tc_index /\ q.name = p.name /\ q.arg_key = p.arg_key
        /\ q.first_arg = p.first_arg /\ q.client = Flushes(p, s)
    BY FieldsOf DEF Idles
  <1> HIDE DEF q, s
  <1>3. IsString(q) = IsString(p)
    BY <1>2, Alike
  <1>4. Odd(q) = Odd(p)
    BY <1>2, <1>3, Zenon DEF Odd
  <1>5. Told(Flushes(p, s).calls, p.tc_index, Odd(p))
    BY <1>1, FlushTold
  <1>6. WellTold(q)
    BY <1>2, <1>4, <1>5, Zenon DEF WellTold
  <1> QED BY <1>6 DEF q

LEMMA PlusTold ==
    ASSUME NEW p \in Parsers, NEW b \in Seq(Alphabet), WellTold(p)
    PROVE  WellTold(Plus(p, b))
  <1> DEFINE q == Plus(p, b)
  <1>1. q.state = p.state /\ q.tc_index = p.tc_index /\ q.name = p.name /\ q.arg_key = p.arg_key
        /\ q.first_arg = p.first_arg /\ q.client = p.client
    BY PlusIs
  <1> HIDE DEF q
  <1>2. IsString(q) = IsString(p)
    BY <1>1, Alike
  <1>3. Odd(q) = Odd(p)
    BY <1>1, <1>2, Zenon DEF Odd
  <1>4. WellTold(q)
    BY <1>1, <1>3, Zenon DEF WellTold
  <1> QED BY <1>4 DEF q

\* The end of a call, whether there is one at m or not.
LEMMA EndsTold ==
    ASSUME NEW p, NEW c \in Clients, NEW n \in Nat, n = p.tc_index, Len(c.calls) = n + 1, Told(c.calls, n, 0),
           NEW m \in {"</tool_call>", "<arg_key>"}
    PROVE  Told(EndsCall(p, c, m).calls, IF m = "</tool_call>" THEN n + 1 ELSE n, 0)
  <1>1. CASE m = "</tool_call>"
    <2>1. EndsCall(p, c, m) = Argues(c, n, Brace)
      BY <1>1 DEF EndsCall
    <2>2. Told(Argues(c, n, Brace).calls, n + 1, 0)
      BY ToldEnd
    <2> QED BY <1>1, <2>1, <2>2
  <1>2. CASE m = "<arg_key>"
    <2>1. EndsCall(p, c, m) = c
      BY <1>2 DEF EndsCall
    <2> QED BY <1>2, <2>1
  <1> QED BY <1>1, <1>2

LEMMA TellsTold ==
    ASSUME NEW p \in Parsers, NEW m \in Watched(p.state), NEW s \in Seq(Alphabet), WellTold(p)
    PROVE  Told(Tells(p, m, s).calls, IF m = "</tool_call>" THEN p.tc_index + 1 ELSE p.tc_index,
                IF p.state = "TOOL_WAIT_VAL" /\ IsString(p) THEN 1 ELSE 0)
  <1> DEFINE c == p.client
             n == p.tc_index
  <1>1. p \in ParserRecord /\ c \in Clients /\ n \in Nat /\ p.state \in ParserStates /\ s \in Seq(Out)
    BY FieldsAre, TextsOf DEF Parsers
  <1>2. p.state \notin {"TEXT", "THINKING", "TOOL_NAME"} => Len(c.calls) = n + 1
    BY <1>1 DEF Parsers, Numbered
  <1>3. p.state \in {"TEXT", "THINKING", "TOOL_NAME"} => Len(c.calls) = n
    BY <1>1 DEF Parsers, Numbered
  <1>4. Told(c.calls, n, Odd(p)) /\ (p.state # "TOOL_VAL" => Odd(p) = 0)
    BY Zenon DEF WellTold, Odd
  <1>5. CASE p.state \in {"TEXT", "THINKING"}
    <2>1. m # "</tool_call>"
      BY <1>5 DEF Watched
    <2>2. Tells(p, m, s).calls = c.calls
      BY <1>1, <1>5, SaysCalls DEF Tells
    <2>3. Odd(p) = 0
      BY <1>4, <1>5
    <2> QED BY <1>4, <1>5, <2>1, <2>2, <2>3
  <1>6. CASE p.state = "TOOL_KEY"
    <2>1. m # "</tool_call>"
      BY <1>6 DEF Watched
    <2>2. Tells(p, m, s).calls = c.calls
      BY <1>6 DEF Tells
    <2>3. Odd(p) = 0
      BY <1>4, <1>6
    <2> QED BY <1>4, <1>6, <2>1, <2>2, <2>3
  <1>7. CASE p.state \in {"TOOL_NAME", "TOOL_WAIT_KEY"}
    <2> DEFINE d == IF p.state = "TOOL_NAME" THEN Calls(c, s) ELSE c
    <2>1. m \in {"</tool_call>", "<arg_key>"}
      BY <1>7 DEF Watched
    <2>2. Tells(p, m, s) = EndsCall(p, d, m)
      BY <1>7 DEF Tells
    <2>3. Odd(p) = 0
      BY <1>4, <1>7
    <2>4. d \in Clients /\ Len(d.calls) = n + 1 /\ Told(d.calls, n, 0)
      <3>1. CASE p.state = "TOOL_NAME"
        <4>1. Calls(c, s) \in Clients /\ Len(Calls(c, s).calls) = n + 1
          BY <1>1, <1>3, <3>1, CallsOnce
        <4>2. Told(Calls(c, s).calls, n, 0)
          BY <1>1, <1>3, <1>4, <2>3, <3>1, ToldOfCall
        <4>3. d = Calls(c, s)
          BY <3>1
        <4> HIDE DEF d
        <4> QED BY <4>1, <4>2, <4>3
      <3>2. CASE p.state = "TOOL_WAIT_KEY"
        BY <1>1, <1>2, <1>4, <2>3, <3>2
      <3> QED BY <1>7, <3>1, <3>2
    <2> HIDE DEF d
    <2>5. Told(EndsCall(p, d, m).calls, IF m = "</tool_call>" THEN n + 1 ELSE n, 0)
      BY <1>1, <2>1, <2>4, EndsTold
    <2>6. p.state # "TOOL_WAIT_VAL"
      BY <1>7
    <2> QED BY <2>2, <2>5, <2>6
  <1>8. CASE p.state = "TOOL_WAIT_VAL"
    <2> DEFINE odder == IF IsString(p) THEN 1 ELSE 0
    <2>1. m # "</tool_call>"
      BY <1>8 DEF Watched
    <2>2. Tells(p, m, s) = Argues(c, n, ValueOpens(p))
      BY <1>8 DEF Tells
    <2>3. Odd(p) = 0
      BY <1>4, <1>8
    <2>4. ValueOpens(p) \in Seq(Out) /\ Quotes(ValueOpens(p)) = IF IsString(p) THEN 3 ELSE 2
      BY <1>1, QuotesOfValue
    <2>5. odder \in 0 .. 1 /\ odder = (0 + Quotes(ValueOpens(p))) % 2
      BY <2>4
    <2> HIDE DEF odder
    <2>6. Told(Argues(c, n, ValueOpens(p)).calls, n, odder)
      BY <1>1, <1>2, <1>4, <1>8, <2>3, <2>4, <2>5, ToldMore
    <2> QED BY <1>8, <2>1, <2>2, <2>6 DEF odder
  <1>9. CASE p.state = "TOOL_VAL"
    <2> DEFINE x == Encoded(p, s) \o ValueCloses(p)
    <2>1. m # "</tool_call>"
      BY <1>9 DEF Watched
    <2>2. Tells(p, m, s) = Argues(c, n, x)
      BY <1>9 DEF Tells
    <2>3. x \in Seq(Out) /\ Quotes(x) = IF IsString(p) THEN 1 ELSE 0
      BY <1>1, QuotesOfValue
    <2>4. Odd(p) = IF IsString(p) THEN 1 ELSE 0
      BY <1>9 DEF Odd
    <2> HIDE DEF x
    <2>5. Odd(p) \in 0 .. 1 /\ 0 \in 0 .. 1 /\ 0 = (Odd(p) + Quotes(x)) % 2
      BY <2>3, <2>4
    <2>6. Told(Argues(c, n, x).calls, n, 0)
      BY <1>1, <1>2, <1>4, <1>9, <2>3, <2>5, ToldMore
    <2> QED BY <1>9, <2>1, <2>2, <2>6
  <1> QED BY <1>1, <1>5, <1>6, <1>7, <1>8, <1>9 DEF ParserStates

LEMMA TookTold ==
    ASSUME NEW p \in Parsers, NEW m \in Watched(p.state), NEW s \in Seq(Alphabet), NEW rest, WellTold(p)
    PROVE  WellTold(Took(p, m, s, rest))
  <1> DEFINE q == Took(p, m, s, rest)
             n == IF m = "</tool_call>" THEN p.tc_index + 1 ELSE p.tc_index
             odd == IF p.state = "TOOL_WAIT_VAL" /\ IsString(p) THEN 1 ELSE 0
  <1>0. p.state \in ParserStates
    BY FieldsAre DEF Parsers
  <1>1. /\ q.state = Enters(m) /\ q.tc_index = n /\ q.client = Tells(p, m, s)
        /\ q.name = IF m = "<tool_call>" THEN <<>> ELSE IF p.state = "TOOL_NAME" THEN s ELSE p.name
        /\ q.arg_key = IF m = "<arg_key>" THEN <<>> ELSE IF m = "</arg_key>" THEN s ELSE p.arg_key
    <2> DEFINE d == IF m = "<tool_call>" THEN <<>> ELSE IF p.state = "TOOL_NAME" THEN s ELSE p.name
               e == IF m = "<arg_key>" THEN <<>> ELSE IF m = "</arg_key>" THEN s ELSE p.arg_key
               f == IF m = "<tool_call>" THEN TRUE ELSE IF m = "<arg_value>" THEN FALSE ELSE p.first_arg
    <2>1. q = ParserOf(Enters(m), rest, n, d, e, f, Tells(p, m, s))
      BY Zenon DEF Took
    <2> HIDE DEF q, n, d, e, f
    <2>2. q.state = Enters(m) /\ q.tc_index = n /\ q.client = Tells(p, m, s) /\ q.name = d /\ q.arg_key = e
      BY <2>1, FieldsOf
    <2> QED BY <2>2, Zenon DEF d, e
  <1>2. Told(Tells(p, m, s).calls, n, odd)
    BY TellsTold
  <1> HIDE DEF q
  <1>3. Odd(q) = odd
    <2>1. CASE p.state = "TOOL_WAIT_VAL"
      <3>1. m = "<arg_value>"
        BY <2>1 DEF Watched
      <3>2. q.state = "TOOL_VAL" /\ q.name = p.name /\ q.arg_key = p.arg_key
        BY <1>1, <2>1, <3>1 DEF Enters
      <3>3. IsString(q) = IsString(p)
        BY <3>2, Zenon DEF IsString
      <3> QED BY <2>1, <3>2, <3>3, Zenon DEF Odd
    <2>2. CASE p.state # "TOOL_WAIT_VAL"
      <3>1. m # "<arg_value>" /\ m \in Markers
        BY <1>0, <2>2, WatchedMarkers DEF Watched, ParserStates
      <3>2. Enters(m) # "TOOL_VAL"
        BY <3>1 DEF Enters, Markers
      <3> QED BY <1>1, <2>2, <3>2, Zenon DEF Odd
    <2> QED BY <2>1, <2>2
  <1> HIDE DEF n, odd
  <1>4. WellTold(q)
    BY <1>1, <1>2, <1>3, Zenon DEF WellTold
  <1> QED BY <1>4 DEF q

LEMMA TurnTold ==
    ASSUME NEW p \in Parsers, WellTold(p)
    PROVE  WellTold(Turn(p))
  <1>1. p \in ParserRecord /\ p.buf \in Seq(Alphabet)
    BY FieldsAre DEF Parsers
  <1>2. CASE Absent(p.buf, Watched(p.state))
    <2>1. Turn(p) = Idles(p)
      BY <1>1, <1>2, TurnIdles
    <2> QED BY <2>1, IdlesTold
  <1>3. CASE ~Absent(p.buf, Watched(p.state))
    <2>1. PICK m : Leads(p.buf, Watched(p.state), m)
      BY <1>1, <1>3, FindsOrNot
    <2>2. m \in Watched(p.state) /\ m \in Markers /\ Occurs(p.buf, m)
      BY <1>1, <2>1, FieldsAre, WatchedMarkers DEF Leads
    <2>3. Before(p.buf, m) \in Seq(Alphabet)
      BY <1>1, <2>2, AtPlace
    <2>4. Turn(p) = Took(p, m, Before(p.buf, m), After(p.buf, m))
      BY <1>1, <2>1, TurnTakes
    <2> QED BY <2>2, <2>3, <2>4, TookTold
  <1> QED BY <1>2, <1>3

LEMMA LoopTold ==
    ASSUME NEW p \in Parsers, WellTold(p)
    PROVE  WellTold(Loop(p))
  <1> DEFINE S == {n \in Nat : \A q \in Parsers : WellTold(q) /\ Len(q.buf) < n => WellTold(Loop(q))}
  <1>1. 0 \in S
    BY BufLen
  <1>2. ASSUME NEW n \in Nat, n \in S PROVE n + 1 \in S
    <2>1. ASSUME NEW q \in Parsers, WellTold(q), Len(q.buf) < n + 1 PROVE WellTold(Loop(q))
      <3>1. WellTold(Turn(q))
        BY <2>1, TurnTold
      <3>2. CASE Turn(q).state = q.state
        BY <3>1, <3>2, LoopStops
      <3>3. CASE Turn(q).state # q.state
        <4> DEFINE t == Turn(q)
        <4>1. t \in Parsers /\ Len(t.buf) < Len(q.buf)
          BY <3>3, TurnOn
        <4>2. Len(t.buf) < n
          BY <2>1, <4>1, BufLen
        <4>3. Loop(q) = Loop(t)
          BY <3>3, LoopGoesOn
        <4> HIDE DEF t
        <4>4. WellTold(Loop(t))
          BY <1>2, <3>1, <4>1, <4>2 DEF t
        <4> QED BY <4>3, <4>4
      <3> QED BY <3>2, <3>3
    <2> QED BY <2>1
  <1> HIDE DEF S
  <1>3. \A n \in Nat : n \in S
    BY <1>1, <1>2, Ascend
  <1>4. PICK l \in Nat : l = Len(p.buf)
    BY BufLen
  <1>5. l + 1 \in S /\ l < l + 1
    BY <1>3, <1>4
  <1> QED BY <1>4, <1>5 DEF S

\* What finalize leaves the client with.
LEMMA FlushedIs ==
    ASSUME NEW p \in Parsers, WellTold(p), p.state # "TOOL_NAME"
    PROVE  /\ Flushed(p).calls \in Seq(ToolCalls)
           /\ \A i \in 1 .. Len(Flushed(p).calls) : Shut(Flushed(p).calls[i].arguments)
  <1> DEFINE c == p.client
             n == p.tc_index
  <1>1. p \in ParserRecord /\ c \in Clients /\ n \in Nat /\ p.state \in ParserStates /\ p.buf \in Seq(Alphabet)
    BY FieldsAre DEF Parsers
  <1>2. p.buf \in Seq(Out) /\ Brace \in Seq(Out)
    BY <1>1, TextsOf
  <1>3. Told(c.calls, n, Odd(p)) /\ (p.state # "TOOL_VAL" => Odd(p) = 0)
    BY Zenon DEF WellTold, Odd
  <1>4. CASE p.state \in {"TEXT", "THINKING"}
    <2>1. Flushed(p).calls = c.calls
      BY <1>1, <1>2, <1>4, SaysCalls DEF Flushed
    <2>2. Len(c.calls) = n /\ c.calls \in Seq(ToolCalls)
      BY <1>1, <1>4, SameClient DEF Parsers, Numbered
    <2>3. \A i \in 1 .. Len(c.calls) : Shut(c.calls[i].arguments)
      <3>1. \A i \in 1 .. Len(c.calls) : i <= n
        BY <1>1, <2>2
      <3> QED BY <1>3, <3>1 DEF Told
    <2> QED BY <2>1, <2>2, <2>3
  <1>5. CASE p.state \notin {"TEXT", "THINKING"}
    <2>1. Len(c.calls) = n + 1
      BY <1>1, <1>5 DEF Parsers, Numbered
    <2>2. PICK d \in Clients : Flushed(p) = Argues(d, n, Brace) /\ Len(d.calls) = n + 1 /\ Told(d.calls, n, 0)
      <3>1. CASE p.state = "TOOL_VAL"
        <4> DEFINE x == Encoded(p, p.buf) \o ValueCloses(p)
                   e == Argues(c, n, x)
        <4>1. x \in Seq(Out) /\ Quotes(x) = IF IsString(p) THEN 1 ELSE 0
          BY <1>1, QuotesOfValue
        <4>2. Odd(p) = IF IsString(p) THEN 1 ELSE 0
          BY <3>1 DEF Odd
        <4>3. Flushed(p) = Argues(c, n, x \o Brace)
          BY <3>1 DEF Flushed, Brace
        <4> HIDE DEF x
        <4>4. Odd(p) \in 0 .. 1 /\ 0 \in 0 .. 1 /\ 0 = (Odd(p) + Quotes(x)) % 2
          BY <4>1, <4>2
        <4>5. Told(e.calls, n, 0)
          BY <1>1, <1>3, <2>1, <4>1, <4>4, ToldMore
        <4>6. n < Len(c.calls)
          BY <1>1, <2>1
        <4>7. e \in Clients /\ Len(e.calls) = n + 1 /\ Argues(e, n, Brace) = Argues(c, n, x \o Brace)
          BY <1>1, <1>2, <2>1, <4>1, <4>6, ArguesTwice
        <4> HIDE DEF e
        <4> QED BY <4>3, <4>5, <4>7
      <3>2. CASE p.state # "TOOL_VAL"
        <4>1. Flushed(p) = Argues(c, n, Brace)
          BY <1>5, <3>2 DEF Flushed, Brace
        <4> QED BY <1>1, <1>3, <2>1, <3>2, <4>1
      <3> QED BY <3>1, <3>2
    <2>3. Told(Argues(d, n, Brace).calls, n + 1, 0)
      BY <1>1, <2>2, ToldEnd
    <2>4. Argues(d, n, Brace) \in Clients /\ Len(Argues(d, n, Brace).calls) = n + 1
      <3>1. n < Len(d.calls)
        BY <1>1, <2>2
      <3> QED BY <1>1, <1>2, <2>2, <3>1, ArguesTwice
    <2> DEFINE f == Argues(d, n, Brace)
    <2>5. f.calls \in Seq(ToolCalls) /\ Told(f.calls, n + 1, 0) /\ Len(f.calls) = n + 1 /\ Flushed(p) = f
      BY <2>2, <2>3, <2>4, SameClient
    <2> HIDE DEF f
    <2>6. \A i \in 1 .. Len(f.calls) : Shut(f.calls[i].arguments)
      <3>1. \A i \in 1 .. Len(f.calls) : i <= n + 1
        BY <1>1, <2>5
      <3> QED BY <2>5, <3>1 DEF Told
    <2> QED BY <2>5, <2>6
  <1> QED BY <1>4, <1>5

LEMMA StartTold == WellTold(Start)
  <1>1. Len(Start.client.calls) = 0
    BY DEF Start, NoClient
  <1> QED BY <1>1 DEF WellTold, Told

\* Every call a reply has told the client of is closed when it ends.
THEOREM EveryCallClosed == ParserSpec => []CallsAreClosed
  <1>1. ParserInvariant => CallsAreClosed
    <2> SUFFICES ASSUME ParserInvariant, read > 0, parser.state # "TOOL_NAME",
                        NEW i \in DOMAIN Finalize(parser).client.calls
                 PROVE  Closed(Finalize(parser).client.calls[i])
      BY DEF CallsAreClosed
    <2> DEFINE first == SubSeq(reply, 1, read)
               p == Plus(Start, first)
    <2>1. first \in Seq(Alphabet)
      <3>1. reply \in Seq(Alphabet) /\ read \in 0 .. Len(reply)
        BY ParserAssumption DEF ParserInvariant
      <3> QED BY <3>1, TakenIs
    <2>2. parser = Loop(p)
      BY DEF ParserInvariant, ChunkIndependent, AddChunk, Plus
    <2> HIDE DEF first
    <2>3. p \in Parsers /\ WellTold(p)
      BY <2>1, StartIs, StartTold, PlusIs, PlusTold
    <2> HIDE DEF p
    <2>4. parser \in Parsers /\ WellTold(parser)
      <3>1. <<>> \in Seq(Alphabet)
        OBVIOUS
      <3> QED BY <2>2, <2>3, <3>1, LoopInTwo, LoopTold
    <2> DEFINE d == Flushed(parser).calls
    <2>5. Finalize(parser).client.calls = d
      <3> DEFINE q == [parser EXCEPT !.client = Flushed(parser)]
      <3>1. parser \in ParserRecord
        BY <2>4 DEF Parsers
      <3>2. q.client = Flushed(parser) /\ "buf" \in DOMAIN q
        BY <3>1 DEF ParserRecord
      <3>3. Finalize(parser) = [q EXCEPT !.buf = <<>>]
        BY DEF Finalize
      <3> HIDE DEF q
      <3>4. [q EXCEPT !.buf = <<>>].client = q.client
        OBVIOUS
      <3> QED BY <3>2, <3>3, <3>4
    <2>6. d \in Seq(ToolCalls) /\ \A j \in 1 .. Len(d) : Shut(d[j].arguments)
      BY <2>4, FlushedIs
    <2> HIDE DEF d
    <2>7. i \in 1 .. Len(d)
      BY <2>5, <2>6
    <2>8. d[i].arguments \in Seq(Out) /\ Shut(d[i].arguments)
      <3>1. d[i] \in ToolCalls
        BY <2>6, <2>7
      <3> QED BY <2>6, <2>7, <3>1 DEF ToolCalls
    <2>9. Closed(d[i])
      BY <2>8, Zenon DEF Closed, Shut, Opened, Last
    <2> QED BY <2>5, <2>9
  <1> QED BY <1>1, ParserStarts, ParserStep, PTL DEF ParserSpec

=============================================================================

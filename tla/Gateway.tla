------------------------------- MODULE Gateway -------------------------------
(***************************************************************************)
(* Generations and model loads in one gateway process: do_POST,            *)
(* APIHandler.generation and APIServer.reload_backend of openai_server.py. *)
(*                                                                         *)
(* Every request has a thread that runs its handler, and a second one for  *)
(* a stream (the keep-alive pump).  A load runs in the thread of the       *)
(* administrator's request.  They share the attributes of the server       *)
(* object, without a lock: a handler reads one attribute at a time, and a  *)
(* load replaces them one at a time, so each read and each assignment is a *)
(* step of its own.                                                        *)
(*                                                                         *)
(* Two parts of this process have modules of their own and are represented *)
(* by their promises: an admission by SlotAdmission (one line, one holder  *)
(* per slot), a call of Engine.generate by what EngineLink shows of it     *)
(* (exactly one answer, an error when the engine is closed or dies).  All  *)
(* requests carry the same prompt and temperature 0.                       *)
(***************************************************************************)
EXTENDS Naturals, Sequences, FiniteSetsExt, SequencesExt

CONSTANTS
    Requests,
    Streams,     \* those that may ask for a stream
    Models,
    Started,     \* the model the gateway is started with
    NoModel,     \* no model loaded, no model named
    Slots,
    MaxQueue,
    MaxLoads,    \* bound: loads and unloads of a behaviour
    MaxPings     \* bound: keep-alive events of a stream

ASSUME GatewayAssumption ==
    /\ NoModel \notin Models /\ Started \in Models /\ Streams \subseteq Requests
    /\ Slots # {} /\ Slots \subseteq Nat
    /\ MaxQueue \in Nat /\ MaxLoads \in Nat /\ MaxPings \in Nat

VARIABLES
    server,    \* the attributes of APIServer that handlers and loads share
    engines,   \* every Engine made: its model, not closed, process alive
    gates,     \* every GenerationScheduler made: open, line, holder of slots
    load,      \* the load in progress
    req,       \* the handler of each request
    pump,      \* the keep-alive thread of each stream
    wire,      \* what the client of a stream has been sent
    cache      \* ResponseCache: what is filed under each model

vars == <<server, engines, gates, load, req, pump, wire, cache>>

None == 0      \* no engine; engines and schedulers are numbered from 1
Nobody == "nobody"

Usable(e) == e # None /\ engines[e].open /\ engines[e].alive

NewGate == [open |-> TRUE, line |-> <<>>, holder |-> [s \in Slots |-> Nobody]]

NewRequest == [pc |-> "new", stream |-> FALSE, gate |-> 1, slot |-> None,
               engine |-> None, loads |-> 0, label |-> NoModel, gone |-> FALSE]

\* serve(), started with a model.  (Started without one it is where an unload
\* leaves it.)
Init ==
    /\ server = [model_id |-> Started, engine |-> 1, runtime_proc |-> 1,
                 active_backend |-> "native", scheduler |-> 1]
    /\ engines = <<[model |-> Started, open |-> TRUE, alive |-> TRUE]>>
    /\ gates = <<NewGate>>
    /\ load = [pc |-> "idle", model |-> NoModel, count |-> 0]
    /\ req = [r \in Requests |-> NewRequest]
    /\ pump = [r \in Requests |-> [pc |-> "none", stop |-> FALSE, connected |-> TRUE]]
    /\ wire = [r \in Requests |-> <<>>]
    /\ cache = [m \in Models \cup {NoModel} |-> {}]

---------------------------------------------------------------------------
(* reload_backend                                                         *)

LoadVars == <<req, pump, wire, cache>>

\* The checks of the request and of the file come first and change nothing.
BeginLoad ==
    /\ load.pc = "idle" /\ load.count < MaxLoads
    /\ \E m \in Models \cup {NoModel} :
         load' = [pc |-> "close", model |-> m, count |-> load.count + 1]
    /\ UNCHANGED <<server, engines, gates>> /\ UNCHANGED LoadVars

Then(pc) == load' = [load EXCEPT !.pc = pc]
LoadEnds == load' = [load EXCEPT !.pc = "idle", !.model = NoModel]

CloseEngineNot ==
    /\ load.pc = "close" /\ Then("drop_engine")
    /\ UNCHANGED <<server, gates, engines>> /\ UNCHANGED LoadVars

\* Engine.close(): calls in progress are answered with an error, the process
\* is terminated.
CloseEngine ==
    /\ load.pc = "close" /\ Then("drop_engine")
    /\ engines' = [e \in DOMAIN engines |->
         IF e = server.runtime_proc THEN [engines[e] EXCEPT !.open = FALSE, !.alive = FALSE] ELSE engines[e]]
    /\ UNCHANGED <<server, gates>> /\ UNCHANGED LoadVars

DropEngine ==
    /\ load.pc = "drop_engine" /\ Then("drop_backend")
    /\ server' = [server EXCEPT !.runtime_proc = None, !.engine = None]
    /\ UNCHANGED <<engines, gates>> /\ UNCHANGED LoadVars

DropBackend ==
    /\ load.pc = "drop_backend" /\ Then("close_scheduler")
    /\ server' = [server EXCEPT !.active_backend = "nil"]
    /\ UNCHANGED <<engines, gates>> /\ UNCHANGED LoadVars

CloseScheduler ==
    /\ load.pc = "close_scheduler" /\ Then("new_scheduler")
    /\ gates' = [gates EXCEPT ![server.scheduler].open = FALSE]
    /\ UNCHANGED <<server, engines>> /\ UNCHANGED LoadVars

NewScheduler ==
    /\ load.pc = "new_scheduler" /\ Then("name")
    /\ gates' = Append(gates, NewGate)
    /\ server' = [server EXCEPT !.scheduler = Len(gates) + 1]
    /\ UNCHANGED engines /\ UNCHANGED LoadVars

NameModel ==
    /\ load.pc = "name" /\ Then("spawn")
    /\ server' = [server EXCEPT !.model_id = load.model]
    /\ UNCHANGED <<engines, gates>> /\ UNCHANGED LoadVars

\* Nobody sees the new engine before it is assigned.
Spawn ==
    /\ load.pc = "spawn" /\ load.model # NoModel /\ Then("announce")
    /\ engines' = Append(engines, [model |-> load.model, open |-> TRUE, alive |-> TRUE])
    /\ server' = [server EXCEPT !.engine = Len(engines) + 1]
    /\ UNCHANGED gates /\ UNCHANGED LoadVars

\* Engine() raises: the executable is missing, or the process ends before it
\* is ready.  Nothing is undone and nothing restored.
SpawnFails ==
    /\ load.pc = "spawn" /\ load.model # NoModel /\ LoadEnds
    /\ UNCHANGED <<server, engines, gates>> /\ UNCHANGED LoadVars

Unload ==
    /\ load.pc = "spawn" /\ load.model = NoModel /\ LoadEnds
    /\ server' = [server EXCEPT !.active_backend = "none"]
    /\ UNCHANGED <<engines, gates>> /\ UNCHANGED LoadVars

\* runtime_proc is read by loads only, so one step does for both.
Announce ==
    /\ load.pc = "announce" /\ LoadEnds
    /\ server' = [server EXCEPT !.runtime_proc = server.engine, !.active_backend = "native"]
    /\ UNCHANGED <<engines, gates>> /\ UNCHANGED LoadVars

Load == \/ BeginLoad \/ CloseEngine \/ DropEngine \/ DropBackend \/ CloseScheduler
        \/ NewScheduler \/ NameModel \/ Spawn \/ SpawnFails \/ Unload \/ Announce

\* External: the engine's process ends by itself (at a time when a handler is
\* about to look: earlier makes no difference).
EngineDies ==
    /\ \E e \in DOMAIN engines :
         /\ engines[e].alive
         /\ \E r \in Requests : req[r].pc \in {"call", "generating"} /\ req[r].engine = e
         /\ engines' = [engines EXCEPT ![e].alive = FALSE]
    /\ UNCHANGED <<server, gates, load>> /\ UNCHANGED LoadVars

---------------------------------------------------------------------------
(* A handler, from the parsed request to admission                        *)

At(r, pc) == req[r].pc = pc
Goto(r, pc) == req' = [req EXCEPT ![r].pc = pc]
Sends(r, what) == wire' = [wire EXCEPT ![r] = Append(@, what)]

\* The handler returns and its variables are gone; the pump of a stream that
\* failed still sees the connection.
Ends(r) == req' = [req EXCEPT ![r] = [NewRequest EXCEPT !.pc = "ended", !.gone = req[r].gone /\ pump[r].pc # "none"]]
ServerVars == <<server, engines, load>>

\* check_model and the options: the request names the model or none.
CheckModel(r) ==
    /\ At(r, "new")
    /\ \E named \in Models \cup {NoModel}, stream \in BOOLEAN :
         /\ stream => r \in Streams
         /\ IF named \in {NoModel, server.model_id}
            THEN req' = [req EXCEPT ![r].stream = stream, ![r].pc = "backend"]
            ELSE Ends(r)
    /\ UNCHANGED <<gates, pump, wire, cache>> /\ UNCHANGED ServerVars

\* 503 while no engine runs, 400 when none is to run.
ReadBackend(r) ==
    /\ At(r, "backend")
    /\ IF server.active_backend = "native"
       THEN Goto(r, IF req[r].stream THEN "admit" ELSE "cache")
       ELSE Ends(r)
    /\ UNCHANGED <<gates, pump, wire, cache>> /\ UNCHANGED ServerVars

\* ResponseCache.get; a hit is sent without admission.
LookUp(r) ==
    /\ At(r, "cache")
    /\ IF cache[server.model_id] = {} THEN Goto(r, "admit") ELSE Ends(r)
    /\ UNCHANGED <<gates, pump, wire, cache>> /\ UNCHANGED ServerVars

FreeSlots(g) == {s \in Slots : gates[g].holder[s] = Nobody}

Take(r, g, line) ==
    LET s == Min(FreeSlots(g))
    IN  /\ gates' = [gates EXCEPT ![g].holder[s] = r, ![g].line = line]
        /\ req' = [req EXCEPT ![r].pc = IF req[r].stream THEN "head" ELSE "engine",
                              ![r].gate = g, ![r].slot = s]

\* admit() of the scheduler the handler reads now, to its first decision.
Admit(r) ==
    LET g == server.scheduler
        line == gates[g].line
        busy == line # <<>> \/ FreeSlots(g) = {}
    IN  /\ At(r, "admit")
        /\ \/ /\ ~gates[g].open \/ (busy /\ Len(line) >= MaxQueue)
              /\ Ends(r) /\ UNCHANGED gates
           \/ /\ gates[g].open /\ ~busy
              /\ Take(r, g, line)
           \/ /\ gates[g].open /\ busy /\ Len(line) < MaxQueue
              /\ gates' = [gates EXCEPT ![g].line = Append(line, r)]
              /\ req' = [req EXCEPT ![r].pc = "wait", ![r].gate = g]
        /\ UNCHANGED <<wire, pump, cache>> /\ UNCHANGED ServerVars

Grantable(r) ==
    LET g == req[r].gate
    IN  gates[g].open /\ Head(gates[g].line) = r /\ FreeSlots(g) # {}

Granted(r) ==
    /\ At(r, "wait") /\ Grantable(r)
    /\ Take(r, req[r].gate, Tail(gates[req[r].gate].line))
    /\ UNCHANGED <<wire, pump, cache>> /\ UNCHANGED ServerVars

GivesUp(r) ==
    /\ At(r, "wait") /\ ~Grantable(r)
    /\ gates' = [gates EXCEPT ![req[r].gate].line = Remove(@, r)]
    /\ Ends(r)
    /\ UNCHANGED <<wire, pump, cache>> /\ UNCHANGED ServerVars

\* The scheduler was closed (503), or the client hung up.
TurnedAway(r) == (~gates[req[r].gate].open \/ req[r].gone) /\ GivesUp(r)

\* The deadline passed (429).
TimesOut(r) == gates[req[r].gate].open /\ ~req[r].gone /\ GivesUp(r)

---------------------------------------------------------------------------
(* A handler that holds a slot                                            *)

\* The head of a stream, its role chunk, and the start of the pump; or the
\* client is gone and the write raises.
SendHead(r) ==
    /\ At(r, "head")
    /\ \/ /\ Goto(r, "engine")
          /\ wire' = [wire EXCEPT ![r] = <<"head">>]
          /\ pump' = [pump EXCEPT ![r].pc = "on"]
       \/ /\ req[r].gone /\ Goto(r, "release")
          /\ UNCHANGED <<wire, pump>>
    /\ UNCHANGED <<gates, cache>> /\ UNCHANGED ServerVars

\* self.server.engine is read after the admission, whichever engine that is;
\* None has no generate().
ReadEngine(r) ==
    /\ At(r, "engine")
    /\ req' = [req EXCEPT ![r].engine = server.engine,
                          ![r].loads = IF load.pc = "idle" THEN load.count ELSE MaxLoads + 1,
                          ![r].pc = IF server.engine = None THEN "failed" ELSE "call"]
    /\ UNCHANGED <<gates, wire, pump, cache>> /\ UNCHANGED ServerVars

Register(r) ==
    /\ At(r, "call")
    /\ Goto(r, IF Usable(req[r].engine) THEN "generating" ELSE "failed")
    /\ UNCHANGED <<gates, wire, pump, cache>> /\ UNCHANGED ServerVars

\* event() of a stream: a chunk is written, or the client is found gone.
Event(r, what) ==
    \/ pump[r].connected /\ Sends(r, what) /\ UNCHANGED pump
    \/ /\ req[r].gone \/ ~pump[r].connected
       /\ pump' = [pump EXCEPT ![r].connected = FALSE]
       /\ UNCHANGED wire

\* One piece of text per request stands for all of them.
Text(r) ==
    /\ At(r, "generating") /\ Usable(req[r].engine)
    /\ req[r].stream /\ ~Contains(wire[r], "text") /\ pump[r].connected
    /\ Event(r, "text")
    /\ UNCHANGED <<req, gates, cache>> /\ UNCHANGED ServerVars

\* The answer to generate(): DONE; or CANCELLED, as a chunk showed that the
\* client is gone; or ERROR.  An engine that is closed or dies answers with an
\* error (EngineLink: every call returns).
Generated(r) ==
    /\ At(r, "generating")
    /\ \/ Usable(req[r].engine) /\ Goto(r, IF req[r].stream THEN "stop" ELSE "payload")
       \/ (IF req[r].stream THEN ~pump[r].connected ELSE req[r].gone) /\ Goto(r, "release")
       \/ Goto(r, "failed")
    /\ UNCHANGED <<gates, wire, pump, cache>> /\ UNCHANGED ServerVars

\* The body names the model that is loaded by now.
Payload(r) ==
    /\ At(r, "payload")
    /\ req' = [req EXCEPT ![r].label = server.model_id, ![r].pc = "put"]
    /\ UNCHANGED <<gates, wire, pump, cache>> /\ UNCHANGED ServerVars

\* ResponseCache.put, with the key made from the model loaded by now.  "calm":
\* no load was under way from the reading of the engine to here.
Entry(r) == [made |-> engines[req[r].engine].model, label |-> req[r].label,
             calm |-> req[r].loads = load.count]

PutAnyModel(r) ==
    /\ At(r, "put") /\ Goto(r, "release")
    /\ cache' = [m \in DOMAIN cache |-> {Entry(r)}]
    /\ UNCHANGED <<gates, wire, pump>> /\ UNCHANGED ServerVars

Put(r) ==
    /\ At(r, "put") /\ Goto(r, "release")
    /\ cache' = [cache EXCEPT ![server.model_id] = {Entry(r)}]
    /\ UNCHANGED <<gates, wire, pump>> /\ UNCHANGED ServerVars

\* The end of a stream: stop the pump, join it, the final chunk, [DONE].
StopPump(r) ==
    /\ At(r, "stop") /\ Goto(r, "join")
    /\ pump' = [pump EXCEPT ![r].stop = TRUE]
    /\ UNCHANGED <<gates, wire, cache>> /\ UNCHANGED ServerVars

\* join(timeout=2); a write of the pump is taken to last less.
JoinPumpNot(r) ==
    /\ At(r, "join") /\ Goto(r, "final")
    /\ UNCHANGED <<gates, wire, pump, cache>> /\ UNCHANGED ServerVars

JoinPump(r) ==
    /\ At(r, "join") /\ pump[r].pc = "ended" /\ Goto(r, "final")
    /\ UNCHANGED <<gates, wire, pump, cache>> /\ UNCHANGED ServerVars

FinalChunk(r) ==
    /\ At(r, "final") /\ Goto(r, "done")
    /\ Event(r, "final")
    /\ UNCHANGED <<gates, cache>> /\ UNCHANGED ServerVars

SendDone(r) ==
    /\ At(r, "done") /\ Goto(r, "release")
    /\ \/ pump[r].connected /\ Sends(r, "done")
       \/ (req[r].gone \/ ~pump[r].connected) /\ UNCHANGED wire
    /\ UNCHANGED <<gates, pump, cache>> /\ UNCHANGED ServerVars

\* The finally of admit(): the slot goes back to the scheduler it came from,
\* however the generation ended.
ReleaseOnSuccess(r) ==
    /\ req[r].pc \in {"release", "failed"}
    /\ gates' = IF At(r, "failed") THEN gates ELSE [gates EXCEPT ![req[r].gate].holder[req[r].slot] = Nobody]
    /\ IF At(r, "failed") /\ req[r].stream THEN Goto(r, "error") ELSE Ends(r)
    /\ UNCHANGED <<wire, pump, cache>> /\ UNCHANGED ServerVars

Release(r) ==
    /\ req[r].pc \in {"release", "failed"}
    /\ gates' = [gates EXCEPT ![req[r].gate].holder[req[r].slot] = Nobody]
    /\ IF At(r, "failed") /\ req[r].stream THEN Goto(r, "error") ELSE Ends(r)
    /\ UNCHANGED <<wire, pump, cache>> /\ UNCHANGED ServerVars

\* do_POST answers 500, in a stream after the head and whatever was sent,
\* without ka_lock, and without stopping the pump.
SendError(r) ==
    /\ At(r, "error") /\ Ends(r)
    /\ Sends(r, "error")
    /\ UNCHANGED <<gates, pump, cache>> /\ UNCHANGED ServerVars

Handler(r) ==
    \/ ReadBackend(r) \/ LookUp(r) \/ Admit(r) \/ Granted(r) \/ TurnedAway(r)
    \/ SendHead(r) \/ ReadEngine(r) \/ Register(r) \/ Text(r) \/ Generated(r)
    \/ Payload(r) \/ Put(r) \/ StopPump(r) \/ JoinPump(r)
    \/ FinalChunk(r) \/ SendDone(r) \/ Release(r) \/ SendError(r)

---------------------------------------------------------------------------
(* The keep-alive pump of a stream                                        *)

Pings(r) == Len(SelectSeq(wire[r], LAMBDA what : what = "ping"))

PumpWakes(r) ==
    /\ pump[r].pc = "on"
    /\ IF pump[r].stop \/ ~pump[r].connected
       THEN pump' = [pump EXCEPT ![r].pc = "ended"]
       ELSE Pings(r) < MaxPings /\ pump' = [pump EXCEPT ![r].pc = "ping"]
    /\ UNCHANGED <<req, gates, wire, cache>> /\ UNCHANGED ServerVars

PumpPings(r) ==
    /\ pump[r].pc = "ping"
    /\ \/ pump[r].connected /\ Sends(r, "ping") /\ pump' = [pump EXCEPT ![r].pc = "on"]
       \/ /\ req[r].gone \/ ~pump[r].connected
          /\ pump' = [pump EXCEPT ![r].pc = "on", ![r].connected = FALSE]
          /\ UNCHANGED wire
    /\ UNCHANGED <<req, gates, cache>> /\ UNCHANGED ServerVars

Pump(r) == PumpWakes(r) \/ PumpPings(r)

\* External: the client closes the connection (at a time when it is about to
\* be used: earlier makes no difference).
HangUp(r) ==
    /\ req[r].pc \in {"wait", "head", "generating", "final", "done"} \/ pump[r].pc = "ping"
    /\ ~req[r].gone
    /\ req' = [req EXCEPT ![r].gone = TRUE]
    /\ UNCHANGED <<gates, wire, pump, cache>> /\ UNCHANGED ServerVars

Next ==
    \/ Load \/ EngineDies
    \/ \E r \in Requests : CheckModel(r) \/ Handler(r) \/ TimesOut(r) \/ Pump(r) \/ HangUp(r)

Spec == Init /\ [][Next]_vars

\* The threads of requests and pumps are scheduled, and generate() returns
\* (EngineLink, EveryCallReturns).  No deadline need pass, no client hang up,
\* and a load may stop at any step.
FairSpec == Spec /\ \A r \in Requests : WF_vars(Handler(r)) /\ WF_vars(Pump(r))

---------------------------------------------------------------------------
(* Properties                                                             *)

\* However loads interleave with requests and dying engines: an engine that
\* is not closed is the one the server knows (the old one is closed before it
\* is forgotten, so no process with a model in memory is left behind); the
\* engine handlers find is of the model they find; and between loads the
\* three attributes agree and the scheduler is open, also after a load that
\* failed (lines 1937-1991).
Settled ==
    /\ \A e \in DOMAIN engines : engines[e].open => e \in {server.engine, server.runtime_proc}
    /\ server.engine # None => engines[server.engine].model = server.model_id \/ load.pc \in {"close", "drop_engine"}
    /\ load.pc = "idle" =>
         /\ server.runtime_proc = server.engine
         /\ server.active_backend = "native" <=> server.engine # None
         /\ gates[server.scheduler].open

\* What the cache files under a model was generated by it and says so, except
\* for an answer whose generation a load overlapped (lines 3316, 3353-3355).
CacheFiled == \A m \in DOMAIN cache : \A entry \in cache[m] :
    entry.calm => entry.made = m /\ entry.label = m

\* A stream that is ended properly ends with its final chunk and [DONE]: no
\* keep-alive comes between the two or after, whenever the pump last looked at
\* its clock (lines 3517-3530).
EndsWithDone == \A r \in Requests : \A i \in 1 .. Len(wire[r]) - 1 :
    /\ wire[r][i] # "done"
    /\ wire[r][i] = "final" => wire[r][i + 1] = "done"

\* Every request ends: closing the scheduler and the engine under waiting and
\* generating requests, at any step of a load, leaves none waiting for an
\* answer or for a slot that nobody will give back.
EveryRequestEnds == \A r \in Requests : req[r].pc # "new" ~> req[r].pc = "ended"

=============================================================================

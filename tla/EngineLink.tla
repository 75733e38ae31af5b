----------------------------- MODULE EngineLink -----------------------------
(***************************************************************************)
(* The gateway's Engine object (c/openai_server.py) and the engine process    *)
(* behind it.  A call is one Engine.generate: it registers an event queue,    *)
(* writes SUBMIT, and takes events until its answer; one dispatcher thread     *)
(* reads the engine's stdout and feeds the queues; close() may run at any      *)
(* time, the process may die at any time, a client may hang up at any time.    *)
(* The process is one of the two engines that speak the protocol: glm          *)
(* (MuxServer) or qwnrun (QwnServe).  Request ids are a counter, so a call     *)
(* and its id are one number.                                                  *)
(***************************************************************************)
EXTENDS EngineIO

CONSTANTS Slots, NGen, Bos,
          QwnCtx,       \* the context of qwnrun (MaxCtx is glm's)
          Kinds,        \* the engines considered, of {"glm", "qwnrun"}
          MaxCalls,     \* generate calls in a behaviour
          Requests      \* what calls ask for: <<tokens of the prompt, max_tokens>>

VARIABLES kind,         \* which engine runs
          req, len, turn, rows, \* its state if it is glm
          job,                  \* its state if it is qwnrun
          closing,      \* close(): "open", "failing", "stopping", "closed"
          dispErr,      \* dispatcher_error is set
          disp,         \* the dispatcher: what it does, the event in its hand
          pending,      \* the calls registered in self.pending
          next,         \* next_request_id
          call          \* per call, its generate()

ASSUME EngineAssumption ==
  /\ MaxCtx \in Nat /\ QwnCtx \in Nat \ {0} /\ NGen \in Nat /\ MaxCalls \in Nat
  /\ Bos \in {0, 1} /\ Slots \subseteq Nat
  /\ Requests \subseteq Nat \X Nat
  /\ Kinds \subseteq {"glm", "qwnrun"}

Mux == INSTANCE MuxServer
Qwn == INSTANCE QwnServe WITH MaxCtx <- QwnCtx

engineVars == <<kind, pipes, req, len, turn, rows, job>>
linkVars == <<closing, dispErr, disp, pending, next, call>>
vars == <<engineVars, linkVars>>

Ids == 1..MaxCalls
NoEvent == Data(0, 0)
Call(pc, slot, ask) == [pc |-> pc, slot |-> slot, ask |-> ask, inbox |-> <<>>,
                        heard |-> <<>>, cancelSent |-> FALSE]
\* After generate() has returned, and before it is entered.
Returned(how) == Call(how, 0, <<0, 0>>)
NoCall == Returned("idle")
Answers == {"DONE", "ERROR"}
Busy == {c \in Ids : call[c].pc \in {"writing", "waiting"}}

Init ==
  /\ kind \in Kinds
  /\ PipesInit /\ Mux!MuxInit /\ Qwn!QwnInit
  /\ closing = "open" /\ dispErr = FALSE
  /\ disp = [pc |-> "read", event |-> NoEvent]
  /\ pending = {} /\ next = 1
  /\ call = [c \in Ids |-> NoCall]
-----------------------------------------------------------------------------
(* The process.                                                             *)

EngineStep ==
  /\ life = "up"
  /\ \/ kind = "glm" /\ Mux!MuxNext /\ UNCHANGED job
     \/ kind = "qwnrun" /\ Qwn!QwnNext /\ UNCHANGED <<req, len, turn, rows>>
  /\ UNCHANGED <<kind, life, linkVars>>

\* The process dies (or is terminated by close): its memory and what it had not
\* read are gone, its pipes close before poll() can report its exit.  "decode
\* batch failed" ends glm's loop the same way.
Dies ==
  /\ life = "up" /\ life' = "eof"
  /\ stdin' = <<>>
  /\ req' = [s \in Slots |-> Mux!NoRequest] /\ len' = [s \in Slots |-> 0]
  /\ turn' = "poll" /\ rows' = {}
  /\ job' = Qwn!NoJob
  /\ UNCHANGED <<kind, stdout, stderr>>

Crash == Dies /\ UNCHANGED linkVars

Exit == /\ life = "eof" /\ life' = "exited"
        /\ UNCHANGED <<kind, stdin, stdout, stderr, req, len, turn, rows, job, linkVars>>
-----------------------------------------------------------------------------
(* The threads that call generate().                                        *)

\* min(free_slots): the slot the scheduler admits an unpinned request on.
Admitted(s) == LET free == Slots \ {call[c].slot : c \in Busy}
               IN s \in free /\ \A t \in free : s <= t

\* Under pending_lock.
Register ==
  /\ next \in Ids
  /\ IF closing # "open" \/ dispErr \/ life = "exited"
     THEN /\ call' = [call EXCEPT ![next] = Returned("failed")]
          /\ UNCHANGED pending
     ELSE /\ \E s \in Slots, ask \in Requests :
               Admitted(s) /\ call' = [call EXCEPT ![next] = Call("writing", s, ask)]
          /\ pending' = pending \union {next}
  /\ next' = next + 1
  /\ UNCHANGED <<engineVars, closing, dispErr, disp>>

\* Under write_lock; a write to a dead process raises and takes the entry back.
Write(c) ==
  /\ call[c].pc = "writing"
  /\ \/ /\ life = "up"
        /\ stdin' = Append(stdin, Submit(c, call[c].slot, call[c].ask[1], call[c].ask[2]))
        /\ call' = [call EXCEPT ![c].pc = "waiting", ![c].ask = <<0, 0>>]
        /\ UNCHANGED pending
     \/ /\ life # "up"
        /\ call' = [call EXCEPT ![c] = Returned("failed")]
        /\ pending' = pending \ {c}
        /\ UNCHANGED stdin
  /\ UNCHANGED <<kind, stdout, stderr, life, req, len, turn, rows, job,
                 closing, dispErr, disp, next>>

Taken(c) == [call[c] EXCEPT !.inbox = Tail(@)]
NextEvent(c) == call[c].pc = "waiting" /\ call[c].inbox # <<>>

\* A data event: passed on, and the moment cancelled() is asked whether the
\* client has hung up.  The CANCEL is written without a look at the process: on
\* a closed pipe generate() raises.
Hears(c) == [Taken(c) EXCEPT !.heard = Append(@, Head(call[c].inbox).n)]
HangUpUnsent(c) ==      \* mutant: generate() raises, the engine is not told
  call' = [call EXCEPT ![c] = Returned("cancelled")] /\ UNCHANGED stdin
HangUp(c) ==
  IF life = "up"
  THEN /\ stdin' = Append(stdin, Cancel(c))
       /\ call' = [call EXCEPT ![c] = [Taken(c) EXCEPT !.cancelSent = TRUE, !.heard = <<>>]]
  ELSE call' = [call EXCEPT ![c] = Returned("failed")] /\ UNCHANGED stdin

TakeData(c) ==
  /\ NextEvent(c) /\ Head(call[c].inbox).kind = "DATA"
  /\ \/ /\ call[c].cancelSent
        /\ call' = [call EXCEPT ![c] = Taken(c)] /\ UNCHANGED stdin
     \/ /\ ~call[c].cancelSent
        /\ call' = [call EXCEPT ![c] = Hears(c)] /\ UNCHANGED stdin
     \/ ~call[c].cancelSent /\ HangUp(c)
  /\ UNCHANGED <<kind, stdout, stderr, life, req, len, turn, rows, job,
                 closing, dispErr, disp, pending, next>>

\* What generate() does with the event that ends it.
AnswerOf(c) ==
  LET e == Head(call[c].inbox) IN
  IF e.kind = "DONE" THEN "done"
  ELSE IF call[c].cancelSent /\ e.why = "CANCELLED" THEN "cancelled" ELSE "failed"

TakeAnswer(c) ==
  /\ NextEvent(c) /\ Head(call[c].inbox).kind \in Answers
  /\ call' = [call EXCEPT ![c] = Returned(AnswerOf(c))]
  /\ UNCHANGED <<engineVars, closing, dispErr, disp, pending, next>>

Take(c) == TakeData(c) \/ TakeAnswer(c)
-----------------------------------------------------------------------------
(* The dispatcher thread, _dispatch_stdout.                                 *)

\* Under pending_lock: find the call's queue; an answer takes the entry out.
DispatchKept ==         \* mutant: get() where the code pops
  /\ disp.pc = "read" /\ stdout # <<>>
  /\ LET e == Head(stdout) IN
       disp' = IF e.id \in pending THEN [pc |-> "put", event |-> e] ELSE disp
  /\ stdout' = Tail(stdout)
  /\ UNCHANGED <<kind, stdin, stderr, life, req, len, turn, rows, job,
                 closing, dispErr, pending, next, call>>
Dispatch ==
  /\ disp.pc = "read" /\ stdout # <<>>
  /\ LET e == Head(stdout) IN
       /\ disp' = IF e.id \in pending THEN [pc |-> "put", event |-> e] ELSE disp
       /\ pending' = IF e.kind \in Answers THEN pending \ {e.id} ELSE pending
  /\ stdout' = Tail(stdout)
  /\ UNCHANGED <<kind, stdin, stderr, life, req, len, turn, rows, job,
                 closing, dispErr, next, call>>

\* After the lock: events.put.
Put ==
  /\ disp.pc = "put"
  /\ call' = [call EXCEPT ![disp.event.id].inbox = Append(@, disp.event)]
  /\ disp' = [pc |-> "read", event |-> NoEvent]
  /\ UNCHANGED <<engineVars, closing, dispErr, pending, next>>

\* End of stdout: unless close() is at work, the dispatcher stops with an error.
EndOfOutput ==
  /\ disp.pc = "read" /\ stdout = <<>> /\ life # "up"
  /\ disp' = [pc |-> IF closing = "open" THEN "failing" ELSE "dead", event |-> NoEvent]
  /\ dispErr' = (closing = "open")
  /\ UNCHANGED <<engineVars, closing, pending, next, call>>

\* _fail_pending: every registered call gets an error, no call stays registered.
FailPendingSilent(why) ==       \* mutant: the table is cleared, nobody is told
  pending' = {} /\ UNCHANGED call
FailPending(why) ==
  /\ call' = [c \in Ids |-> IF c \in pending
                            THEN [call[c] EXCEPT !.inbox = Append(@, Error(c, why))]
                            ELSE call[c]]
  /\ pending' = {}

DispatcherFails ==
  /\ disp.pc = "failing" /\ FailPending("dispatcher")
  /\ disp' = [pc |-> "dead", event |-> NoEvent]
  /\ UNCHANGED <<engineVars, closing, dispErr, next>>

Dispatcher == Dispatch \/ Put \/ EndOfOutput \/ DispatcherFails
-----------------------------------------------------------------------------
(* close().                                                                 *)

Close ==
  /\ closing = "open" /\ closing' = "failing"
  /\ UNCHANGED <<engineVars, dispErr, disp, pending, next, call>>

CloseFails ==
  /\ closing = "failing" /\ closing' = "stopping"
  /\ FailPending("shutting-down")
  /\ UNCHANGED <<engineVars, dispErr, disp, next>>

\* terminate and wait; the join of the dispatcher changes nothing.
CloseStops ==
  /\ closing = "stopping" /\ closing' = "closed"
  /\ \/ Dies
     \/ life # "up" /\ UNCHANGED engineVars
  /\ UNCHANGED <<dispErr, disp, pending, next, call>>
-----------------------------------------------------------------------------
Next == \/ EngineStep \/ Crash \/ Exit
        \/ Register
        \/ \E c \in Ids : Write(c) \/ Take(c)
        \/ Dispatcher
        \/ Close \/ CloseFails \/ CloseStops

\* Nobody has to die, call or close.  Everything begun goes on: the
\* engine computes, the operating system runs every thread of the gateway and
\* reaps the dead process.
Fairness ==
  /\ WF_vars(EngineStep) /\ WF_vars(Exit) /\ WF_vars(Dispatcher)
  /\ \A c \in Ids : WF_vars(Write(c) \/ Take(c))
  /\ WF_vars(CloseFails \/ CloseStops)

Spec == Init /\ [][Next]_vars /\ Fairness
-----------------------------------------------------------------------------
\* Where the answer to a call can be: in its queue, or in the dispatcher's hand.
AnswersIn(c) == {i \in 1..Len(call[c].inbox) : call[c].inbox[i].kind \in Answers}
InHand(c) == disp.pc = "put" /\ disp.event.id = c /\ disp.event.kind \in Answers

(* A generate() in progress is owed exactly one answer: it is registered, or  *)
(* its answer is on its way to it, never both and never neither, whatever the *)
(* dispatcher, close() and a failing process do at the same time              *)
(* (the pops and clears under pending_lock, c/openai_server.py:1415-1484).    *)
OneAnswer ==
  \A c \in Busy :
    IF c \in pending THEN ~InHand(c) /\ AnswersIn(c) = {}
    ELSE IF InHand(c) THEN AnswersIn(c) = {}
    ELSE \E i \in 1..Len(call[c].inbox) : AnswersIn(c) = {i}

(* A call that returns normally has passed on every token its DONE counts,    *)
(* once and in order: no text is lost between the engine's loop, the pipe,     *)
(* the dispatcher and the queue.                                              *)
DoneIsComplete ==
  [][\A c \in Ids :
       call[c].pc = "waiting" /\ ~call[c].cancelSent /\ call'[c].pc = "done" =>
         call[c].heard = [k \in 1..Head(call[c].inbox).n |-> k]]_vars

(* The engine never refuses a request because its slot or its id is taken:    *)
(* the slot a caller gives up when generate() returns is idle in the engine   *)
(* by the time the next caller's SUBMIT is read (c/glm.c:4935-4940).          *)
SlotNeverBusy ==
  \A i \in 1..Len(stdout) : stdout[i].why \notin {"SLOT_BUSY", "DUPLICATE_ID"}

(* A request being decoded never writes its history or cache past the       *)
(* context, in either engine, whatever prompt, answer limit and turn-taking  *)
(* led there (c/glm.c:4960-4964 and 5043; c/qwanto_decode.c:2634-2674).      *)
HistoryFits == Mux!HistoryFits /\ Qwn!PositionFits

(* A request finds its slot idle and fits the context it was given: what one  *)
(* caller leaves behind never meets the next one's tokens.                    *)
SlotsFit == SlotNeverBusy /\ HistoryFits

(* Every generate() returns, with an answer or an exception: no death,        *)
(* shutdown or hang-up leaves a gateway thread waiting for an event nobody    *)
(* will send.                                                                 *)
EveryCallReturns ==
  \A c \in Ids : c \in Busy ~> c \notin Busy
=============================================================================

--------------------------- MODULE DesktopRuntime ---------------------------
(***************************************************************************)
(* QwantoRuntimeManager of the desktop host                                  *)
(* (desktop/src-tauri/src/runtime_manager.rs): one qwnrun process at a time, *)
(* started, stopped, asked and polled by commands of the user interface, and *)
(* a thread per process that reads its standard output and goes on reading   *)
(* what is left of it after the process was replaced.                        *)
(*                                                                           *)
(* A command holds the manager's outer mutex from its first step to its      *)
(* last; the reader threads only take the inner ones, of the status and of   *)
(* the request table.  stderr is read by a thread of its own and so never    *)
(* fills; the back end name it finds there and last_error are only shown.    *)
(***************************************************************************)
EXTENDS Naturals, Sequences, FiniteSets

CONSTANTS Prompts,      \* request ids of the user interface
          MaxProcs,     \* processes started
          MaxTokens,    \* tokens of an answer
          MaxCancels,   \* cancellations asked for
          InRoom,       \* writes a stdin pipe holds
          OutRoom       \* frames a stdout pipe holds

VARIABLES proc,         \* the processes started, in order, with their pipes
          child,        \* self.child: the process managed, 0 when None
          stdin,        \* self.stdin: whose, 0 when None
          status,       \* self.status: is_running and pid
          cmd,          \* the command that holds the manager, and where it is
          tracked,      \* self.request_tracking
          sentTo,       \* [Prompts -> process a prompt was handed to whole]
          cancelled,    \* prompts a CANCEL was asked for
          ended         \* prompts a done or an error event was emitted for

rtVars == <<proc, child, stdin, status, cmd, tracked, sentTo, cancelled, ended>>

NoJob == [at |-> "boot", id |-> "none", n |-> 0]
Fresh == [alive |-> TRUE, reading |-> TRUE, in |-> <<>>, out |-> <<>>, job |-> NoJob]
NoCmd == [op |-> "none", id |-> "none"]
Frame(op, id) == [op |-> op, id |-> id]

RtInit ==
  /\ proc = <<>> /\ child = 0 /\ stdin = 0
  /\ status = [running |-> FALSE, pid |-> 0]
  /\ cmd = NoCmd /\ tracked = {} /\ sentTo = [r \in Prompts |-> 0]
  /\ cancelled = {} /\ ended = {}

\* A process that ends takes its input with it; what it printed can be read.
Dead(p) == [p EXCEPT !.alive = FALSE, !.in = <<>>, !.job = NoJob]

\* stop_model: under all three inner locks.
StopModelKeepsChild ==  \* mutant: the process is asked to stop by closing stdin only
  /\ stdin' = 0 /\ child' = 0
  /\ status' = [running |-> FALSE, pid |-> 0]
  /\ UNCHANGED proc
StopModel ==
  /\ stdin' = 0 /\ child' = 0
  /\ status' = [running |-> FALSE, pid |-> 0]
  /\ proc' = IF child = 0 THEN proc ELSE [proc EXCEPT ![child] = Dead(@)]

Stop == cmd = NoCmd /\ StopModel /\ UNCHANGED <<cmd, tracked, sentTo, cancelled, ended>>

\* start_model stops what runs, lets the inner locks go, and then looks at the
\* model file and the options or fails to spawn ...
StartBegins ==
  /\ cmd = NoCmd /\ StopModel
  /\ cmd' = [NoCmd EXCEPT !.op = "start"]
  /\ UNCHANGED <<tracked, sentTo, cancelled, ended>>
StartRefused ==
  /\ cmd.op = "start" /\ cmd' = NoCmd
  /\ UNCHANGED <<proc, child, stdin, status, tracked, sentTo, cancelled, ended>>
\* ... or has a new process, and sets the status under its lock.
StartSpawns ==
  /\ cmd.op = "start" /\ Len(proc) < MaxProcs
  /\ proc' = Append(proc, Fresh)
  /\ child' = Len(proc') /\ stdin' = Len(proc')
  /\ status' = [running |-> TRUE, pid |-> Len(proc')]
  /\ cmd' = NoCmd
  /\ UNCHANGED <<tracked, sentTo, cancelled, ended>>

\* send_prompt enters the request in the table and makes two writes, each of
\* which waits for room in the pipe, and fails when its reader is gone.
SendBegins(r) ==
  /\ cmd = NoCmd /\ stdin # 0 /\ r \notin tracked \cup ended
  /\ tracked' = tracked \cup {r} /\ cmd' = [op |-> "header", id |-> r]
  /\ UNCHANGED <<proc, child, stdin, status, sentTo, cancelled, ended>>

Writes(op) ==
  /\ proc[stdin].alive /\ Len(proc[stdin].in) < InRoom
  /\ proc' = [proc EXCEPT ![stdin].in = Append(@, Frame(op, cmd.id))]

SendHeader ==
  /\ cmd.op = "header" /\ Writes("SUBMIT")
  /\ cmd' = [cmd EXCEPT !.op = "body"]
  /\ UNCHANGED <<child, stdin, status, tracked, sentTo, cancelled, ended>>
SendBody ==
  /\ cmd.op = "body" /\ Writes("BODY")
  /\ sentTo' = [sentTo EXCEPT ![cmd.id] = stdin] /\ cmd' = NoCmd
  /\ UNCHANGED <<child, stdin, status, tracked, cancelled, ended>>

\* cancel_generation; the result of its write is ignored.
CancelBegins(r) ==
  /\ cmd = NoCmd /\ stdin # 0 /\ sentTo[r] # 0 /\ Cardinality(cancelled) < MaxCancels
  /\ cancelled' = cancelled \cup {r} /\ cmd' = [op |-> "cancel", id |-> r]
  /\ UNCHANGED <<proc, child, stdin, status, tracked, sentTo, ended>>
CancelWrites ==
  /\ cmd.op = "cancel" /\ Writes("CANCEL") /\ cmd' = NoCmd
  /\ UNCHANGED <<child, stdin, status, tracked, sentTo, cancelled, ended>>
WriteFails ==
  /\ cmd.op \in {"header", "body", "cancel"} /\ ~proc[stdin].alive
  /\ cmd' = NoCmd
  /\ UNCHANGED <<proc, child, stdin, status, tracked, sentTo, cancelled, ended>>

\* get_status asks the process, when there is one, and corrects the status.
PollTrusts ==           \* mutant: a process that still runs leaves the status as it is
  /\ cmd = NoCmd
  /\ status' = IF child # 0 /\ ~proc[child].alive
               THEN [running |-> FALSE, pid |-> 0] ELSE status
  /\ UNCHANGED <<proc, child, stdin, cmd, tracked, sentTo, cancelled, ended>>
Poll ==
  /\ cmd = NoCmd
  /\ status' = IF child = 0 THEN status
               ELSE IF proc[child].alive THEN [status EXCEPT !.running = TRUE]
               ELSE [running |-> FALSE, pid |-> 0]
  /\ UNCHANGED <<proc, child, stdin, cmd, tracked, sentTo, cancelled, ended>>

CommandGoesOn == StartRefused \/ StartSpawns \/ SendHeader \/ SendBody
                 \/ CancelWrites \/ WriteFails
CommandBegins == Stop \/ StartBegins \/ Poll
                 \/ \E r \in Prompts : SendBegins(r) \/ CancelBegins(r)

(* qwnrun, serve_mode: it prints READY, then reads a frame at a time.         *)
Prints(p, frames, job) ==
  /\ Len(proc[p].out) < OutRoom
  /\ proc' = [proc EXCEPT ![p].out = @ \o frames, ![p].job = job]
TakesIn(p, job) ==
  proc' = [proc EXCEPT ![p].in = Tail(@), ![p].job = job]
At(p, at) == proc[p].alive /\ proc[p].job.at = at
Next1(p, op) == proc[p].in # <<>> /\ Head(proc[p].in).op = op

Idle == [NoJob EXCEPT !.at = "idle"]
EngineReady(p) == At(p, "boot") /\ Prints(p, <<Frame("READY", "none")>>, Idle)
EngineSubmit(p) ==
  /\ At(p, "idle") /\ Next1(p, "SUBMIT")
  /\ TakesIn(p, [at |-> "body", id |-> Head(proc[p].in).id, n |-> 0])
EngineBody(p) ==
  /\ At(p, "body") /\ Next1(p, "BODY")
  /\ TakesIn(p, [proc[p].job EXCEPT !.at = "generate"])
EngineToken(p) ==
  /\ At(p, "generate") /\ proc[p].job.n < MaxTokens
  /\ Prints(p, <<Frame("DATA", proc[p].job.id)>>, [proc[p].job EXCEPT !.n = @ + 1])
EngineEnds(p) ==
  /\ At(p, "generate")
  /\ \E op \in {"DONE", "ERROR"} : Prints(p, <<Frame(op, proc[p].job.id)>>, Idle)
EngineCancel(p) ==
  /\ At(p, "idle") /\ Next1(p, "CANCEL") /\ Len(proc[p].out) < OutRoom
  /\ proc' = [proc EXCEPT ![p].in = Tail(@),
                          ![p].out = Append(@, Frame("ERROR", Head(proc[p].in).id))]
EngineStep(p) ==
  /\ EngineReady(p) \/ EngineSubmit(p) \/ EngineBody(p) \/ EngineToken(p)
     \/ EngineEnds(p) \/ EngineCancel(p)
  /\ UNCHANGED <<child, stdin, status, cmd, tracked, sentTo, cancelled, ended>>
EngineDies(p) ==
  /\ proc[p].alive /\ proc' = [proc EXCEPT ![p] = Dead(@)]
  /\ UNCHANGED <<child, stdin, status, cmd, tracked, sentTo, cancelled, ended>>

(* The reader thread of process p.                                            *)
ReadFrame(p) ==
  /\ proc[p].reading /\ proc[p].out # <<>>
  /\ LET f == Head(proc[p].out) IN
       /\ status' = IF f.op = "READY" THEN [status EXCEPT !.running = TRUE] ELSE status
       /\ tracked' = IF f.op = "DONE" THEN tracked \ {f.id} ELSE tracked
       /\ ended' = IF f.op \in {"DONE", "ERROR"} THEN ended \cup {f.id} ELSE ended
  /\ proc' = [proc EXCEPT ![p].out = Tail(@)]
  /\ UNCHANGED <<child, stdin, cmd, sentTo, cancelled>>
\* The end of the pipe, of whichever process: the status is everybody's.
ReadEof(p) ==
  /\ proc[p].reading /\ proc[p].out = <<>> /\ ~proc[p].alive
  /\ status' = [running |-> FALSE, pid |-> 0]
  /\ proc' = [proc EXCEPT ![p].reading = FALSE]
  /\ UNCHANGED <<child, stdin, cmd, tracked, sentTo, cancelled, ended>>
ReaderStepLocked(p) ==  \* mutant: the reader waits for the manager's own mutex
  cmd = NoCmd /\ (ReadFrame(p) \/ ReadEof(p))
ReaderStep(p) == ReadFrame(p) \/ ReadEof(p)

Living == {p \in DOMAIN proc : proc[p].alive}
\* No thread still reads from a process that is not the one managed.
NoStragglers == \A p \in DOMAIN proc : proc[p].reading => p = child
=============================================================================

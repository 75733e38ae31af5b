------------------------------ MODULE EngineIO ------------------------------
(***************************************************************************)
(* What the gateway and an inference engine share: the three pipes of the   *)
(* engine process and the life of that process (Engine.__init__,            *)
(* c/openai_server.py, starts it with all three redirected).  Frames and     *)
(* events are records: the text protocol's header fields that the two sides  *)
(* act on, without their spelling.                                           *)
(***************************************************************************)
EXTENDS Naturals, Sequences

CONSTANTS MaxCtx,       \* CTX, the tokens one conversation can hold
          StderrRoom    \* the diagnostic lines an undrained stderr pipe holds

VARIABLES stdin,        \* frames written by the gateway, not yet read
          stdout,       \* events printed by the engine, not yet dispatched
          stderr,       \* lines in the stderr pipe: nobody reads it after startup
          life          \* "up"; "eof": the pipes are closed; "exited": poll() sees it

pipes == <<stdin, stdout, stderr, life>>

Submit(id, slot, prompt, max) ==
  [op |-> "SUBMIT", id |-> id, slot |-> slot, prompt |-> prompt, max |-> max]
Cancel(id) == [op |-> "CANCEL", id |-> id]

\* DATA carries the ordinal of its token, DONE the tokens it counts.
Data(id, k)    == [kind |-> "DATA",  id |-> id, n |-> k, why |-> "none"]
Done(id, n)    == [kind |-> "DONE",  id |-> id, n |-> n, why |-> "none"]
Error(id, why) == [kind |-> "ERROR", id |-> id, n |-> 0, why |-> why]

Smaller(a, b) == IF a <= b THEN a ELSE b

\* A line written to stderr: the writer blocks while the pipe is full.
Report == stderr < StderrRoom /\ stderr' = stderr + 1

\* The engine reads its next frame.
Read(op) == stdin # <<>> /\ Head(stdin).op = op /\ stdin' = Tail(stdin)

Emit(events) == stdout' = stdout \o events

PipesInit == stdin = <<>> /\ stdout = <<>> /\ stderr = 0 /\ life = "up"
=============================================================================

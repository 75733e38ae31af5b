------------------------------ MODULE QwnServe ------------------------------
(***************************************************************************)
(* The engine loop serve_mode of qwnrun (c/qwnrun.c) for the frames the       *)
(* gateway sends: one generation at a time, from reset to its last token,    *)
(* without looking at stdin, and a runtime report on stderr after each one.  *)
(***************************************************************************)
EXTENDS EngineIO

CONSTANTS NGen,         \* config.max_tokens, the answer limit of the process
          Bos           \* 1 when the model has a BOS token, else 0

VARIABLE job            \* the generation in progress

NoJob == [phase |-> "read", id |-> 0, emitted |-> 0, maximum |-> 0, pos |-> 0]

QwnInit == job = NoJob

\* The prompt's token ids; it was cut to leave room for BOS.
Count(prompt) == Smaller(prompt, MaxCtx - 1) + Bos

QwnSubmit ==
  /\ job.phase = "read" /\ Read("SUBMIT")
  /\ LET f == Head(stdin) IN
       \/ /\ f.prompt = 0
          /\ Emit(<<Error(f.id, "empty-prompt")>>)
          /\ UNCHANGED job
       \/ /\ f.prompt > 0                        \* reset, then the prefill
          /\ job' = [phase |-> "generate", id |-> f.id, emitted |-> 0,
                     maximum |-> Smaller(f.max, NGen), pos |-> Count(f.prompt)]
          /\ UNCHANGED stdout
  /\ UNCHANGED stderr

\* A CANCEL is seen between generations only, when its request is over.
QwnCancel ==
  /\ job.phase = "read" /\ Read("CANCEL")
  /\ Emit(<<Error(Head(stdin).id, "CANCELLED")>>)
  /\ UNCHANGED <<stderr, job>>

\* One token is sampled, printed, and run through the model: the forward pass
\* fails when the context is full.
QwnTokenUnbounded ==    \* mutant: the forward pass does not look at the context
  /\ job.phase = "generate" /\ job.emitted < job.maximum
  /\ Emit(<<Data(job.id, job.emitted + 1)>>)
  /\ job' = [job EXCEPT !.emitted = @ + 1, !.pos = @ + 1]
  /\ UNCHANGED <<stdin, stderr>>
QwnToken ==
  /\ job.phase = "generate" /\ job.emitted < job.maximum
  /\ Emit(<<Data(job.id, job.emitted + 1)>>)
  /\ job' = IF job.pos >= MaxCtx THEN [job EXCEPT !.phase = "failed"]
            ELSE [job EXCEPT !.emitted = @ + 1, !.pos = @ + 1]
  /\ UNCHANGED <<stdin, stderr>>

\* The limit is reached, or the token sampled is the end of the text.
QwnDone ==
  /\ job.phase = "generate"
  /\ Emit(<<Done(job.id, job.emitted)>>)
  /\ job' = [job EXCEPT !.phase = "report"]
  /\ UNCHANGED <<stdin, stderr>>

\* A failed generation says so on stderr first, then to the gateway.
QwnFail ==
  /\ job.phase = "failed" /\ Report
  /\ Emit(<<Error(job.id, "generation-failed")>>)
  /\ job' = NoJob
  /\ UNCHANGED stdin

\* print_runtime_info, before the next frame is read.
QwnReport ==
  /\ job.phase = "report" /\ Report
  /\ job' = NoJob
  /\ UNCHANGED <<stdin, stdout>>

QwnNext == QwnSubmit \/ QwnCancel \/ QwnToken \/ QwnDone \/ QwnFail \/ QwnReport

\* The decoder's position never passes the context its caches are made for.
PositionFits == job.pos <= MaxCtx
=============================================================================

----------------------------- MODULE Conversion -----------------------------
(***************************************************************************)
(* ConversionManager of c/openai_server.py, over convert_to_qwn of           *)
(* c/model_acquisition.py and write_qwn of c/tools/qwn_convert.py: one       *)
(* thread turns a source model into a .qwn.  Its payloads are written by a    *)
(* pool of threads into <name>.part.partial, that becomes <name>.part, is     *)
(* validated, opened by qwnrun, and renamed over the output; then a manifest  *)
(* is written beside it.  The gateway may be killed at any moment.           *)
(***************************************************************************)
EXTENDS Naturals, FiniteSets

CONSTANTS
    Tensors,       \* the tensors whose payload is streamed
    MaxWriters,    \* threads of the pool
    MaxConversions \* bound: conversions that are started

ASSUME ConversionAssumption ==
  IsFiniteSet(Tensors) /\ MaxWriters \in Nat \ {0} /\ MaxConversions \in Nat

VARIABLES
    conversion,  \* status, the cancel event, and where the thread is
    writers,     \* of write_qwn: tensors to do, being written, and a failure
    partial,     \* <name>.part.partial on disk,
    staged,      \* <name>.part,
    output,      \* <name>,
    record       \* and <name>.manifest.json: the number of the conversion it tells of

conversionVars == <<conversion, writers, partial, staged, output, record>>
qwnFiles == <<partial, staged, output, record>>

\* A container: the conversion that wrote it, the payloads it holds, its tail.
NoContainer == [by |-> 0, payload |-> {}, tail |-> FALSE]
Whole(file) == file.tail /\ file.payload = Tensors

NoWriters == [todo |-> {}, busy |-> {}, failed |-> FALSE]

ConversionInit ==
  /\ conversion = [status |-> "idle", stop |-> FALSE, pc |-> "none", id |-> 0, over |-> FALSE]
  /\ writers = NoWriters
  /\ partial = NoContainer /\ staged = NoContainer /\ output = NoContainer /\ record = 0

At(pc) == conversion.pc = pc
To(pc) == conversion' = [conversion EXCEPT !.pc = pc]

----------------------------------------------------------------------------
\* The handler of /v1/qwanto/convert and start_conversion.
StartConversion(over) ==
  /\ conversion.id < MaxConversions
  /\ output = NoContainer \/ over
  /\ conversion.status # "converting"
  /\ conversion' = [status |-> "converting", stop |-> FALSE, pc |-> "inspect",
                    id |-> conversion.id + 1, over |-> over]
  /\ UNCHANGED <<writers, qwnFiles>>

CancelConversion ==
  /\ conversion.id > 0
  /\ conversion' = [conversion EXCEPT !.stop = TRUE]
  /\ UNCHANGED <<writers, qwnFiles>>

\* The except clauses of _run, and before it of convert_to_qwn: the staged file
\* goes, what was published stays.
Fail ==
  /\ conversion' = [conversion EXCEPT !.pc = "none",
                      !.status = IF conversion.stop THEN "cancelled" ELSE "error"]
  /\ UNCHANGED <<output, record>>
Dropped == staged' = NoContainer

\* The paths, the source, and what an earlier run has left are looked at.
Inspect ==
  /\ At("inspect")
  /\ \/ Fail /\ UNCHANGED staged
     \/ /\ ~conversion.stop /\ (output = NoContainer \/ conversion.over)
        /\ staged' = NoContainer
        /\ To("layout")
        /\ UNCHANGED <<output, record>>
  /\ UNCHANGED <<writers, partial>>

\* The header and the small payloads; the file has its full size from here on.
LayOut ==
  /\ At("layout")
  /\ \/ Fail /\ Dropped /\ partial' = NoContainer /\ UNCHANGED writers
     \/ /\ partial' = [NoContainer EXCEPT !.by = conversion.id]
        /\ writers' = [NoWriters EXCEPT !.todo = Tensors]
        /\ To("payload")
        /\ UNCHANGED <<staged, output, record>>

TakeTensor(t) ==
  /\ At("payload") /\ t \in writers.todo /\ Cardinality(writers.busy) < MaxWriters
  /\ writers' = [writers EXCEPT !.todo = @ \ {t}, !.busy = @ \union {t}]
  /\ UNCHANGED <<conversion, qwnFiles>>

\* A tensor is read from the source and written; after a failure those that
\* wait are given up, at once or when pool.map gets to it.
WriteTensor(t) ==
  /\ t \in writers.busy
  /\ \/ /\ partial' = [partial EXCEPT !.payload = @ \union {t}]
        /\ writers' = [writers EXCEPT !.busy = @ \ {t}]
     \/ /\ \E waiting \in {{}, writers.todo} :
             writers' = [todo |-> waiting, busy |-> writers.busy \ {t}, failed |-> TRUE]
        /\ UNCHANGED partial
  /\ UNCHANGED <<conversion, staged, output, record>>

TailAtOnce ==   \* mutant: the pool is not waited for
  /\ At("payload") /\ writers.todo = {}
  /\ IF writers.failed
     THEN Fail /\ Dropped /\ partial' = NoContainer
     ELSE partial' = [partial EXCEPT !.tail = TRUE] /\ To("rename") /\ UNCHANGED <<staged, output, record>>
  /\ UNCHANGED writers

\* The pool has ended: the tail, or, after a failure, the end.
WriteTail ==
  /\ At("payload") /\ writers.todo = {} /\ writers.busy = {}
  /\ IF writers.failed
     THEN Fail /\ Dropped /\ partial' = NoContainer
     ELSE partial' = [partial EXCEPT !.tail = TRUE] /\ To("rename") /\ UNCHANGED <<staged, output, record>>
  /\ UNCHANGED writers

RenamePartial ==
  /\ At("rename")
  /\ staged' = partial /\ partial' = NoContainer
  /\ To("validate")
  /\ UNCHANGED <<writers, output, record>>

\* A cancel is heard before; the header, the descriptors and the tail are
\* checked, the payloads are not.
Validate ==
  /\ At("validate")
  /\ IF conversion.stop \/ ~staged.tail THEN Fail /\ Dropped
     ELSE To("smoke") /\ UNCHANGED <<staged, output, record>>
  /\ UNCHANGED <<writers, partial>>

\* qwnrun opens it and answers PING within ten seconds, or there is no qwnrun.
SmokeTest ==
  /\ At("smoke")
  /\ (Fail /\ Dropped) \/ (To("replace") /\ UNCHANGED <<staged, output, record>>)
  /\ UNCHANGED <<writers, partial>>

\* The last point at which a cancel undoes anything.
Replace ==
  /\ At("replace")
  /\ IF conversion.stop THEN Fail /\ Dropped
     ELSE output' = staged /\ staged' = NoContainer /\ To("record") /\ UNCHANGED record
  /\ UNCHANGED <<writers, partial>>

WriteManifest ==
  /\ At("record")
  /\ \/ record' = conversion.id /\ To("finish") /\ UNCHANGED <<staged, output>>
     \/ Fail /\ Dropped
  /\ UNCHANGED <<writers, partial>>

Finished ==
  /\ At("finish")
  /\ IF conversion.stop THEN Fail
     ELSE conversion' = [conversion EXCEPT !.pc = "none", !.status = "done"] /\ UNCHANGED <<output, record>>
  /\ UNCHANGED <<writers, partial, staged>>

ConversionWork ==
  \/ Inspect \/ LayOut \/ WriteTail \/ RenamePartial \/ Validate \/ SmokeTest
  \/ Replace \/ WriteManifest \/ Finished
  \/ \E t \in Tensors : TakeTensor(t) \/ WriteTensor(t)

\* The gateway is killed and started again: the files stay.
ConversionLost ==
  /\ conversion.status # "idle"
  /\ conversion' = [conversion EXCEPT !.status = "idle", !.stop = FALSE, !.pc = "none"]
  /\ writers' = NoWriters
  /\ UNCHANGED qwnFiles

\* A client deletes the output, at any time; its manifest stays.
DeleteOutput ==
  /\ output # NoContainer /\ output' = NoContainer
  /\ UNCHANGED <<conversion, writers, partial, staged, record>>

ConversionNext ==
  \/ \E over \in BOOLEAN : StartConversion(over)
  \/ CancelConversion \/ ConversionWork \/ ConversionLost \/ DeleteOutput
----------------------------------------------------------------------------
(* Whatever fails, is cancelled or killed, only a whole container, checked and *)
(* opened, ever takes the output's name, and no thread writes a file that was  *)
(* given up or renamed; a conversion that did not get there leaves the output  *)
(* that was; and one reported done is described by the manifest beside it, if  *)
(* the output is still there (c/openai_server.py:1624-1659,                    *)
(* c/model_acquisition.py:774-825, c/tools/qwn_convert.py:728, "never          *)
(* publishing a partial file").                                              *)
ConversionsAreWhole ==
  [][/\ output' \notin {output, NoContainer} => Whole(output') /\ output'.by = conversion.id /\ ~conversion.stop
     /\ writers'.busy # {} => partial'.by = conversion'.id /\ ~partial'.tail
     /\ conversion'.status = "done" /\ conversion.status # "done" =>
          record' = conversion.id /\ output'.by \in {0, conversion.id}]_conversionVars

(* A conversion ends, whatever its pool, qwnrun and its clients do.           *)
ConversionEnds == conversion.status = "converting" ~> conversion.status # "converting"
=============================================================================

------------------------------- MODULE KVFile -------------------------------
(***************************************************************************)
(* The conversation of one KV slot on disk: kv_disk_open/truncate/reset/   *)
(* append/load of c/glm.c, as the serve loops use them (prefix match,      *)
(* truncate, prefill and decode, append at the end of the turn), with a    *)
(* crash of the process between any two writes.                            *)
(*                                                                         *)
(* A KV row is known by the tokens it was computed from, so the row of     *)
(* position i (from 1) of a sound cache is SubSeq(hist, 1, i).  The file   *)
(* is a header (layout, nrec) and a sequence of cells; a record of layout  *)
(* v takes v cells, so a crash can tear it, and a record of another        *)
(* layout does not line up with it.  Writes reach the file in program      *)
(* order: a crash is that of the process, not of the machine.              *)
(***************************************************************************)
EXTENDS Naturals, Sequences, SequencesExt

CONSTANTS Tokens,   \* token ids
          Contexts, \* values of CTX the engine is started with
          Layouts,  \* record layouts: cells of a record (DSA on or off)
          Reserve,  \* 8 + g_draft
          Faults    \* subset of {"truncate", "append"}: the calls that may fail

ASSUME KVFileAssumption ==
    /\ Tokens \subseteq Nat \ {0}
    /\ Contexts \subseteq {c \in Nat : c > 2} /\ Contexts # {}
    /\ Layouts \subseteq Nat \ {0} /\ Layouts # {}
    /\ Reserve \in Nat
    /\ Faults \subseteq {"truncate", "append"}

VARIABLES up,     \* [ctx, layout] of the running engine, or Down
          hist,   \* s->hist[0..len)
          kv,     \* the rows of Lc/Rc/Ic for those positions
          diskN,  \* k->disk_nrec
          pc,     \* "idle"; "append"; "write": in the loop; "count": after it
          cursor, \* cells from the header to the file position
          file,   \* the file, or NoFile
          failures \* the calls of Faults that have failed so far

kvVars == <<up, hist, kv, diskN, pc, cursor, file, failures>>

Down == [ctx |-> 0, layout |-> 0]
Engines == [ctx : Contexts, layout : Layouts]
Garbage == <<>>                                \* a row computed from nothing
Hole == [of |-> Garbage, tok |-> 0, part |-> 0, layout |-> 0]
NewFile(v) == [layout |-> v, nrec |-> 0, cells |-> <<>>]
NoFile == [layout |-> 0, nrec |-> 0, cells |-> <<>>]

Longest(e) == e.ctx - 2                        \* tokens a slot ever holds
RowOf(tokens, i) == SubSeq(tokens, 1, i)
RowsOf(tokens) == [i \in 1 .. Len(tokens) |-> RowOf(tokens, i)]

Cell(row, t, part, v) == [of |-> row, tok |-> t, part |-> part, layout |-> v]

KInit ==
    /\ up = Down /\ hist = <<>> /\ kv = <<>> /\ diskN = 0
    /\ pc = "idle" /\ cursor = 0
    /\ file = NoFile /\ failures = {}

----------------------------------------------------------------------------
(* Reading the file back. *)

\* Rows there are, torn last one left out: what a short fread finds.
WholeRows(f, v) == Len(f.cells) \div v

FirstCell(v, i) == (i - 1) * v + 1
RowAt(f, v, i) ==
    LET cells == SubSeq(f.cells, FirstCell(v, i), i * v)
        first == cells[1]
    IN  IF cells = [j \in 1 .. v |-> Cell(first.of, first.tok, j, v)]
        THEN first.of ELSE Garbage

\* The token is the first field of the record.
TokenAt(f, v, i) ==
    LET cell == f.cells[FirstCell(v, i)]
    IN  IF cell.part = 1 THEN cell.tok ELSE 0

\* How many rows kv_disk_load resumes: none from another layout or from a
\* conversation too long for the context.
Resumable(f, e) ==
    IF f.layout # e.layout \/ f.nrec + Reserve >= e.ctx THEN 0
    ELSE IF f.nrec <= WholeRows(f, e.layout) THEN f.nrec ELSE WholeRows(f, e.layout)

ResumedHist(f, e) == [i \in 1 .. Resumable(f, e) |-> TokenAt(f, e.layout, i)]
ResumedRows(f, e) == [i \in 1 .. Resumable(f, e) |-> RowAt(f, e.layout, i)]

----------------------------------------------------------------------------
(* The engine. *)

\* serve_ctx_init of a started engine.
Boot(e) ==
    /\ up = Down
    /\ up' = e
    /\ hist' = ResumedHist(file, e) /\ kv' = ResumedRows(file, e)
    /\ diskN' = Resumable(file, e)
    /\ UNCHANGED <<pc, cursor, file, failures>>

Fails(call) == call \in Faults /\ failures' = failures \cup {call}

\* kv_disk_truncate: the count goes down in memory and in the header, which
\* is written even when it counted fewer.
Truncated(n) ==
    \/ /\ file # NoFile
       /\ diskN' = n
       /\ file' = [file EXCEPT !.nrec = n]
       /\ UNCHANGED failures
    \/ /\ diskN' = 0                              \* fopen fails
       /\ \/ file = NoFile /\ UNCHANGED failures
          \/ file # NoFile /\ Fails("truncate")
       /\ UNCHANGED file

CommonPrefix(prompt) ==
    CHOOSE n \in 0 .. Len(prompt) :
        /\ n <= Len(hist) /\ SubSeq(hist, 1, n) = SubSeq(prompt, 1, n)
        /\ (n < Len(prompt) /\ n < Len(hist)) => hist[n + 1] # prompt[n + 1]

\* A turn: prompt tokens[1..n], the rest generated.  What the prompt shares
\* with the history keeps its rows; the file is cut to it when it is shorter.
Turn(tokens, n) ==
    /\ up # Down /\ pc = "idle"
    /\ Len(tokens) <= Longest(up) /\ n \in 1 .. Len(tokens)
    /\ LET p == CommonPrefix(SubSeq(tokens, 1, n))
       IN  /\ IF p < Len(hist) THEN Truncated(p) ELSE UNCHANGED <<diskN, file, failures>>
           /\ kv' = SubSeq(kv, 1, p) \o SubSeq(RowsOf(tokens), p + 1, Len(tokens))
    /\ hist' = tokens
    /\ pc' = "append"
    /\ UNCHANGED <<up, cursor>>

\* \x02RESET of the chat loop, and a line that no longer fits the context.
Reset ==
    /\ up # Down /\ pc = "idle"
    /\ hist' = <<>> /\ kv' = <<>>
    /\ Truncated(0)
    /\ UNCHANGED <<up, pc, cursor>>

----------------------------------------------------------------------------
(* kv_disk_append. *)

\* kv_disk_open: a missing file is created with a header that counts none.
Opened == IF file = NoFile THEN NewFile(up.layout) ELSE file

\* Nothing new, the file cannot be opened, or no staging buffer.
AppendSkipped ==
    /\ up # Down /\ pc = "append"
    /\ \/ Len(hist) <= diskN /\ UNCHANGED <<file, failures>>
       \/ Len(hist) > diskN /\ Fails("append") /\ file' \in {file, Opened}
    /\ pc' = "idle"
    /\ UNCHANGED <<up, hist, kv, diskN, cursor>>

\* The header is written before the rows.
AppendBeginCounted ==
    /\ up # Down /\ pc = "append" /\ Len(hist) > diskN
    /\ file' = [Opened EXCEPT !.nrec = Len(hist)]
    /\ cursor' = diskN * up.layout
    /\ pc' = "write"
    /\ UNCHANGED <<up, hist, kv, diskN, failures>>

\* The rows are written at the end of the file.
AppendBeginAtEnd ==
    /\ up # Down /\ pc = "append" /\ Len(hist) > diskN
    /\ file' = Opened
    /\ cursor' = Len(file.cells)
    /\ pc' = "write"
    /\ UNCHANGED <<up, hist, kv, diskN, failures>>

\* kv_disk_open and the fseek past the rows that are there.
AppendBegin ==
    /\ up # Down /\ pc = "append" /\ Len(hist) > diskN
    /\ file' = Opened
    /\ cursor' = diskN * up.layout
    /\ pc' = "write"
    /\ UNCHANGED <<up, hist, kv, diskN, failures>>

\* f with a cell at offset o; a gap before it reads as zeros.
Written(f, o, cell) ==
    [f EXCEPT !.cells = [i \in 1 .. (IF o < Len(@) THEN Len(@) ELSE o + 1) |->
        IF i = o + 1 THEN cell ELSE IF i <= Len(@) THEN @[i] ELSE Hole]]

WriteCell ==
    /\ up # Down /\ pc = "write" /\ cursor < Len(hist) * up.layout
    /\ LET p == cursor \div up.layout + 1
           part == (cursor % up.layout) + 1
       IN  file' = Written(file, cursor, Cell(kv[p], hist[p], part, up.layout))
    /\ cursor' = cursor + 1
    /\ UNCHANGED <<up, hist, kv, diskN, pc, failures>>

\* Data first, then the counter: the only field of an old header rewritten.
WriteCount ==
    /\ up # Down /\ pc = "write" /\ cursor >= Len(hist) * up.layout
    /\ file' = [file EXCEPT !.nrec = Len(hist)]
    /\ diskN' = Len(hist)
    /\ pc' = "idle" /\ cursor' = 0
    /\ UNCHANGED <<up, hist, kv, failures>>

\* The process ends; the file is what was written.
Crash ==
    /\ up # Down
    /\ up' = Down /\ hist' = <<>> /\ kv' = <<>> /\ diskN' = 0
    /\ pc' = "idle" /\ cursor' = 0
    /\ UNCHANGED <<file, failures>>

KNext ==
    \/ \E e \in Engines : Boot(e)
    \/ \E k \in 1 .. up.ctx : \E tokens \in [1 .. k -> Tokens], n \in 1 .. k : Turn(tokens, n)
    \/ Reset
    \/ AppendSkipped \/ AppendBegin \/ WriteCell \/ WriteCount
    \/ Crash

KSpec == KInit /\ [][KNext]_kvVars

----------------------------------------------------------------------------
(* Properties. *)

\* Every row the model attends to was computed from the tokens before it: a
\* conversation reopened from disk, after a crash at any write, is one that
\* took place (docs/ENVIRONMENT.md:27, "lossless round-trip").
ResumeCoherent == failures = {} => kv = RowsOf(hist)

\* disk_nrec is never ahead of the conversation, whatever fails, and the first
\* disk_nrec rows of the file are those in memory, also after a truncate that
\* could not open it: an append leaves out only what is there.
DiskMatchesMemory ==
    up # Down =>
        /\ diskN <= Len(hist)
        /\ "append" \notin failures =>
               \A i \in 1 .. diskN :
                   /\ i <= WholeRows(file, up.layout)
                   /\ RowAt(file, up.layout, i) = kv[i]

\* An append that ran to its end has the whole conversation on disk, whatever
\* truncates failed before it.
AppendedAll ==
    \A i \in 1 .. Len(hist) : RowAt(file', up.layout, i) = kv[i]

\* The file stands for the conversation in memory: after every step it is not
\* ahead of it, and after every append that ran to its end it is whole.
DiskIsMemory ==
    [][DiskMatchesMemory' /\ (WriteCount /\ "append" \notin failures => AppendedAll)]_kvVars
============================================================================

---------------------------- MODULE StorageProofs ----------------------------
(***************************************************************************)
(* Two parts that live on in files.                                          *)
(*                                                                         *)
(* The conversation on disk, for any tokens, contexts, layouts and faults:    *)
(* what counts as saved is what is in memory, at every write; and what is     *)
(* resumed took place, if the engine is always started in one way.           *)
(*                                                                         *)
(* The model library, for any files, chunks, attempts, tensors and writers:   *)
(* what has a model's name is whole, wherever the gateway is killed.  The     *)
(* invariants say of each place of a thread what the files hold there.        *)
(***************************************************************************)
EXTENDS MCStores, Integers, SequenceTheorems, FiniteSetTheorems, TLAPS

Row == Seq(Nat)
Cells == [of : Row, tok : Nat, part : Nat, layout : Nat]
Contents == [layout : Nat, nrec : Nat, cells : Seq(Cells)]

LEMMA FunctionSeq ==
  ASSUME NEW S, NEW n \in Nat, NEW f \in [1 .. n -> S]
  PROVE  f \in Seq(S) /\ Len(f) = n
  <1>1. f \in Seq(S)
    BY SeqDef
  <1>2. QED
    BY <1>1, LenProperties

-----------------------------------------------------------------------------
(* Where the cells of a record lie.                                         *)

LEMMA Division ==
  ASSUME NEW v \in Nat \ {0}, NEW k \in Nat
  PROVE  /\ k \div v \in Nat /\ k % v \in 0 .. v - 1
         /\ k = (k \div v) * v + (k % v)
  OBVIOUS

LEMMA WholeRow ==
  ASSUME NEW v \in Nat \ {0}, NEW k \in Nat, NEW i \in Nat
  PROVE  i <= k \div v <=> i * v <= k
  OBVIOUS

\* A cell belongs to one record.
LEMMA CellPlace ==
  ASSUME NEW v \in Nat \ {0}, NEW q \in Nat, NEW r \in 0 .. v - 1
  PROVE  (q * v + r) \div v = q /\ (q * v + r) % v = r
  OBVIOUS

LEMMA RowsInOrder ==
  ASSUME NEW v \in Nat \ {0}, NEW i \in Nat, NEW k \in Nat, i <= k
  PROVE  i * v <= k * v /\ i * v \in Nat /\ k * v \in Nat
  OBVIOUS

LEMMA CellOrder ==
  ASSUME NEW v \in Nat \ {0}, NEW i \in Nat \ {0}, NEW k \in Nat \ {0}, i < k,
         NEW j \in 1 .. v, NEW l \in 1 .. v
  PROVE  FirstCell(v, i) + j - 1 < FirstCell(v, k) + l - 1
  <1>1. i * v <= (k - 1) * v
    BY RowsInOrder
  <1>2. FirstCell(v, i) = i * v - v + 1
    BY DEF FirstCell
  <1>3. (k - 1) * v \in Nat /\ i * v \in Nat
    BY RowsInOrder
  <1>4. QED
    BY <1>1, <1>2, <1>3 DEF FirstCell

LEMMA FirstAndLast ==
  ASSUME NEW v \in Nat \ {0}, NEW i \in Nat \ {0}
  PROVE  /\ FirstCell(v, i) \in Nat \ {0} /\ i * v \in Nat
         /\ i * v = FirstCell(v, i) + v - 1
         /\ FirstCell(v, i) + 1 - 1 = FirstCell(v, i)
  <1>1. FirstCell(v, i) \in Nat \ {0}
    BY DEF FirstCell
  <1>2. QED
    BY <1>1 DEF FirstCell

-----------------------------------------------------------------------------
(* Reading records.                                                         *)

\* The v cells of record i.
Record(f, v, i) == SubSeq(f.cells, FirstCell(v, i), i * v)

LEMMA RecordCells ==
  ASSUME NEW f \in Contents, NEW v \in Nat \ {0}, NEW i \in Nat \ {0},
         i * v <= Len(f.cells)
  PROVE  /\ Record(f, v, i) \in Seq(Cells) /\ Len(Record(f, v, i)) = v
         /\ \A j \in 1 .. v : Record(f, v, i)[j] = f.cells[FirstCell(v, i) + j - 1]
  <1>1. FirstCell(v, i) \in Nat \ {0} /\ i * v \in Nat /\ i * v = FirstCell(v, i) + v - 1
    BY FirstAndLast
  <1>2. f.cells \in Seq(Cells) /\ Len(f.cells) \in Nat
    BY LenProperties DEF Contents
  <1>3. \A n \in FirstCell(v, i) .. i * v : f.cells[n] \in Cells
    BY <1>1, <1>2, ElementOfSeq
  <1>4. /\ SubSeq(f.cells, FirstCell(v, i), i * v) \in Seq(Cells)
        /\ Len(SubSeq(f.cells, FirstCell(v, i), i * v)) = v
        /\ \A j \in 1 .. v : SubSeq(f.cells, FirstCell(v, i), i * v)[j]
                               = f.cells[FirstCell(v, i) + j - 1]
    BY <1>1, <1>2, <1>3, SubSeqProperties
  <1>5. QED
    BY <1>4 DEF Record

LEMMA RowAtType ==
  ASSUME NEW f \in Contents, NEW v \in Nat \ {0}, NEW i \in Nat \ {0},
         i * v <= Len(f.cells)
  PROVE  RowAt(f, v, i) \in Row /\ TokenAt(f, v, i) \in Nat
  <1>0. 1 \in 1 .. v
    OBVIOUS
  <1>1. FirstCell(v, i) \in Nat \ {0}
    BY FirstAndLast
  <1>2. Record(f, v, i) \in Seq(Cells) /\ 1 \in 1 .. Len(Record(f, v, i))
    BY <1>0, RecordCells
  <1>3. Record(f, v, i)[1] \in Cells
    BY <1>2, ElementOfSeq
  <1>4. Record(f, v, i)[1] = f.cells[FirstCell(v, i) + 1 - 1]
    BY <1>0, RecordCells
  <1>5. f.cells[FirstCell(v, i)] \in Cells
    BY <1>1, <1>3, <1>4
  <1>6. Record(f, v, i)[1].of \in Row /\ <<>> \in Row
    BY <1>3, EmptySeq DEF Cells, Row
  <1>7. RowAt(f, v, i) \in Row
    BY <1>6 DEF RowAt, Record, Garbage
  <1>8. QED
    BY <1>5, <1>7 DEF TokenAt, Cells

\* A record is known by its cells alone.
LEMMA SameRecord ==
  ASSUME NEW f \in Contents, NEW g \in Contents, NEW v \in Nat \ {0}, NEW i \in Nat \ {0},
         i * v <= Len(f.cells), i * v <= Len(g.cells),
         \A j \in 1 .. v : g.cells[FirstCell(v, i) + j - 1] = f.cells[FirstCell(v, i) + j - 1]
  PROVE  RowAt(g, v, i) = RowAt(f, v, i) /\ TokenAt(g, v, i) = TokenAt(f, v, i)
  <1>1. /\ Record(f, v, i) \in Seq(Cells) /\ Len(Record(f, v, i)) = v
        /\ Record(g, v, i) \in Seq(Cells) /\ Len(Record(g, v, i)) = v
        /\ \A j \in 1 .. v : Record(g, v, i)[j] = Record(f, v, i)[j]
    BY RecordCells
  <1>2. Record(g, v, i) = Record(f, v, i)
    BY <1>1, SeqEqual
  <1>3. FirstCell(v, i) + 1 - 1 = FirstCell(v, i)
    BY FirstAndLast
  <1>4. 1 \in 1 .. v
    OBVIOUS
  <1>5. g.cells[FirstCell(v, i)] = f.cells[FirstCell(v, i)]
    BY <1>3, <1>4
  <1>6. RowAt(g, v, i) = RowAt(f, v, i)
    BY <1>2 DEF RowAt, Record
  <1>7. QED
    BY <1>5, <1>6 DEF TokenAt

\* A record whose cells belong together is read as it was written.
LEMMA WrittenRecord ==
  ASSUME NEW f \in Contents, NEW v \in Nat \ {0}, NEW i \in Nat \ {0},
         i * v <= Len(f.cells),
         \A j \in 1 .. v : f.cells[FirstCell(v, i) + j - 1]
           = Cell(f.cells[FirstCell(v, i)].of, f.cells[FirstCell(v, i)].tok, j, v)
  PROVE  /\ RowAt(f, v, i) = f.cells[FirstCell(v, i)].of
         /\ TokenAt(f, v, i) = f.cells[FirstCell(v, i)].tok
  <1> DEFINE first == f.cells[FirstCell(v, i)]
             whole == [j \in 1 .. v |-> Cell(first.of, first.tok, j, v)]
  <1>1. /\ Record(f, v, i) \in Seq(Cells) /\ Len(Record(f, v, i)) = v
        /\ \A j \in 1 .. v : Record(f, v, i)[j] = f.cells[FirstCell(v, i) + j - 1]
    BY RecordCells
  <1>2. 1 \in 1 .. v /\ FirstCell(v, i) + 1 - 1 = FirstCell(v, i)
    BY FirstAndLast
  <1>3. Record(f, v, i)[1] = first /\ first.part = 1
    <2>1. Record(f, v, i)[1] = first
      BY <1>1, <1>2
    <2>2. first = Cell(first.of, first.tok, 1, v)
      BY <1>2
    <2> HIDE DEF first
    <2>3. \A a, b, c, d : Cell(a, b, c, d).part = c
      BY DEF Cell
    <2>4. first.part = 1
      BY <2>2, <2>3
    <2>5. QED
      BY <2>1, <2>4 DEF first
  <1>4. Record(f, v, i) = whole
    <2>1. \A j \in 1 .. v : Record(f, v, i)[j] = whole[j]
      BY <1>1
    <2>2. \A j \in 1 .. v : Record(f, v, i)[j] \in Cells
      BY <1>1, ElementOfSeq
    <2>3. whole \in [1 .. v -> Cells]
      BY <2>1, <2>2
    <2> HIDE DEF whole
    <2>4. whole \in Seq(Cells) /\ Len(whole) = v
      BY <2>3, FunctionSeq
    <2>5. QED
      BY <1>1, <2>1, <2>4, SeqEqual
  <1>5. RowAt(f, v, i) = first.of
    BY <1>3, <1>4 DEF RowAt, Record
  <1>6. QED
    BY <1>3, <1>5 DEF TokenAt

\* One more cell, at the end or over another.
LEMMA Writes ==
  ASSUME NEW f \in Contents, NEW o \in Nat, NEW cell \in Cells
  PROVE  /\ Written(f, o, cell) \in Contents
         /\ Written(f, o, cell).nrec = f.nrec /\ Written(f, o, cell).layout = f.layout
         /\ Len(Written(f, o, cell).cells) = IF o < Len(f.cells) THEN Len(f.cells) ELSE o + 1
         /\ Written(f, o, cell).cells[o + 1] = cell
         /\ \A q \in 1 .. Len(f.cells) : q # o + 1 => Written(f, o, cell).cells[q] = f.cells[q]
  <1> DEFINE n == IF o < Len(f.cells) THEN Len(f.cells) ELSE o + 1
             new == [i \in 1 .. n |-> IF i = o + 1 THEN cell
                                      ELSE IF i <= Len(f.cells) THEN f.cells[i] ELSE Hole]
  <1>1. f.cells \in Seq(Cells) /\ Len(f.cells) \in Nat /\ n \in Nat
    BY LenProperties DEF Contents
  <1>2. Hole \in Cells
    BY DEF Hole, Garbage, Cells, Row
  <1>3. \A i \in 1 .. n : new[i] \in Cells
    BY <1>1, <1>2, ElementOfSeq
  <1>4. new \in Seq(Cells) /\ Len(new) = n
    <2>1. new \in [1 .. n -> Cells]
      BY <1>3
    <2> HIDE DEF n, new
    <2>2. QED
      BY <1>1, <2>1, FunctionSeq
  <1>5. new[o + 1] = cell /\ \A q \in 1 .. Len(f.cells) : q # o + 1 => new[q] = f.cells[q]
    BY <1>1
  <1>6. Written(f, o, cell) = [f EXCEPT !.cells = new]
    BY DEF Written
  <1> HIDE DEF new
  <1>7. /\ [f EXCEPT !.cells = new].cells = new /\ [f EXCEPT !.cells = new].nrec = f.nrec
        /\ [f EXCEPT !.cells = new].layout = f.layout /\ [f EXCEPT !.cells = new] \in Contents
    BY <1>4 DEF Contents
  <1>8. QED
    BY <1>4, <1>5, <1>6, <1>7
-----------------------------------------------------------------------------
(* The prefix a prompt shares with the history.                             *)

LEMMA PrefixEqual ==
  ASSUME NEW S, NEW s \in Seq(S), NEW t \in Seq(S), NEW n \in 0 .. Len(s), n <= Len(t),
         \A i \in 1 .. n : s[i] = t[i]
  PROVE  SubSeq(s, 1, n) = SubSeq(t, 1, n)
  <1>1. Len(s) \in Nat /\ Len(t) \in Nat
    BY LenProperties
  <1>2. \A i \in 1 .. n : s[i] \in S /\ t[i] \in S
    BY <1>1, ElementOfSeq
  <1>3. /\ SubSeq(s, 1, n) \in Seq(S) /\ Len(SubSeq(s, 1, n)) = n
        /\ \A i \in 1 .. n : SubSeq(s, 1, n)[i] = s[i]
    BY <1>1, <1>2, SubSeqProperties
  <1>4. /\ SubSeq(t, 1, n) \in Seq(S) /\ Len(SubSeq(t, 1, n)) = n
        /\ \A i \in 1 .. n : SubSeq(t, 1, n)[i] = t[i]
    BY <1>1, <1>2, SubSeqProperties
  <1>5. QED
    BY <1>3, <1>4, SeqEqual

LEMMA PrefixAt ==
  ASSUME NEW S, NEW s \in Seq(S), NEW n \in 0 .. Len(s)
  PROVE  /\ SubSeq(s, 1, n) \in Seq(S) /\ Len(SubSeq(s, 1, n)) = n
         /\ \A i \in 1 .. n : SubSeq(s, 1, n)[i] = s[i] /\ s[i] \in S
  <1>1. Len(s) \in Nat
    BY LenProperties
  <1>2. \A i \in 1 .. n : s[i] \in S
    BY <1>1, ElementOfSeq
  <1>3. QED
    BY <1>1, <1>2, SubSeqProperties

\* The set of the positions up to which two sequences agree is an interval.
LEMMA AgreementIsInterval ==
  ASSUME NEW m \in Nat, NEW S, S \subseteq 1 .. m,
         \A i \in S : \A j \in 1 .. i : j \in S
  PROVE  \E n \in 0 .. m : S = 1 .. n
  <1> DEFINE n == Cardinality(S)
  <1>1. /\ IsFiniteSet(1 .. m) /\ Cardinality(1 .. m) = m
    BY FS_Interval
  <1>2. IsFiniteSet(S) /\ n \in Nat /\ n <= m
    BY ZenonT(30), <1>1, FS_Subset, FS_CardinalityType
  <1>3. ASSUME NEW i \in S PROVE i \in 1 .. n
    <2>1. i \in Nat \ {0} /\ 1 .. i \in SUBSET S
      OBVIOUS
    <2>2. Cardinality(1 .. i) = i
      BY <2>1, FS_Interval
    <2>3. i <= n
      BY <1>2, <2>1, <2>2, FS_Subset
    <2>4. QED
      BY <1>2, <2>1, <2>3
  <1>4. IsFiniteSet(1 .. n) /\ Cardinality(1 .. n) = n
    BY <1>2, FS_Interval
  <1>5. S = 1 .. n
    BY <1>3, <1>4, FS_Subset
  <1>6. QED
    BY <1>2, <1>5

LEMMA CommonPrefixIs ==
  ASSUME NEW prompt \in Seq(Nat), hist \in Seq(Nat)
  PROVE  /\ CommonPrefix(prompt) \in 0 .. Len(prompt)
         /\ CommonPrefix(prompt) <= Len(hist)
         /\ \A i \in 1 .. CommonPrefix(prompt) : hist[i] = prompt[i]
  <1> DEFINE Agree(n) == /\ n <= Len(hist) /\ SubSeq(hist, 1, n) = SubSeq(prompt, 1, n)
                         /\ (n < Len(prompt) /\ n < Len(hist)) => hist[n + 1] # prompt[n + 1]
             same == {i \in 1 .. Len(prompt) : i <= Len(hist) /\ \A j \in 1 .. i : hist[j] = prompt[j]}
  <1>1. Len(prompt) \in Nat /\ Len(hist) \in Nat
    BY LenProperties
  <1>2. PICK n \in 0 .. Len(prompt) : same = 1 .. n
    <2>1. same \subseteq 1 .. Len(prompt)
      OBVIOUS
    <2>2. \A i \in same : \A j \in 1 .. i : j \in same
      BY <1>1
    <2> HIDE DEF same
    <2>3. QED
      BY <1>1, <2>1, <2>2, AgreementIsInterval
  <1>3. n <= Len(hist) /\ \A i \in 1 .. n : hist[i] = prompt[i]
    <2>1. CASE n = 0
      BY <1>1, <2>1
    <2>2. CASE n # 0
      <3>1. n \in same
        <4>1. n \in 1 .. n
          BY <2>2
        <4> HIDE DEF same
        <4>2. QED
          BY <1>2, <4>1
      <3>2. QED
        BY <3>1
    <2>3. QED
      BY <2>1, <2>2
  <1>4. SubSeq(hist, 1, n) = SubSeq(prompt, 1, n)
    BY <1>1, <1>3, PrefixEqual
  <1>5. (n < Len(prompt) /\ n < Len(hist)) => hist[n + 1] # prompt[n + 1]
    <2> SUFFICES ASSUME n < Len(prompt), n < Len(hist), hist[n + 1] = prompt[n + 1] PROVE FALSE
      OBVIOUS
    <2>1. n + 1 \in 1 .. Len(prompt) /\ n + 1 <= Len(hist)
      BY <1>1
    <2>2. \A j \in 1 .. n + 1 : hist[j] = prompt[j]
      BY <1>1, <1>3
    <2>3. n + 1 \in same
      BY <2>1, <2>2
    <2>4. n + 1 \in 1 .. n
      BY <1>2, <2>3
    <2>5. n \in Nat
      BY <1>1
    <2> HIDE DEF same
    <2>6. QED
      BY <2>4, <2>5
  <1>6. Agree(n)
    BY <1>3, <1>4, <1>5
  <1> HIDE DEF Agree
  <1>7. CommonPrefix(prompt) = CHOOSE k \in 0 .. Len(prompt) : Agree(k)
    BY DEF CommonPrefix, Agree
  <1>8. CommonPrefix(prompt) \in 0 .. Len(prompt) /\ Agree(CommonPrefix(prompt))
    BY <1>6, <1>7
  <1> DEFINE p == CommonPrefix(prompt)
  <1>9. p \in 0 .. Len(prompt) /\ p <= Len(hist) /\ SubSeq(hist, 1, p) = SubSeq(prompt, 1, p)
    BY <1>8 DEF Agree
  <1>10. \A i \in 1 .. p : SubSeq(hist, 1, p)[i] = hist[i] /\ SubSeq(prompt, 1, p)[i] = prompt[i]
    BY <1>1, <1>9, PrefixAt
  <1>11. QED
    BY <1>9, <1>10
-----------------------------------------------------------------------------
(***************************************************************************)
(* The invariant.                                                           *)
(***************************************************************************)
KTypes ==
  /\ up \in Engines \cup {Down}
  /\ hist \in Seq(Nat) /\ kv \in Seq(Row) /\ Len(kv) = Len(hist)
  /\ diskN \in Nat /\ diskN <= Len(hist)
  /\ pc \in {"idle", "append", "write"} /\ cursor \in Nat
  /\ file \in Contents /\ failures \subseteq {"truncate", "append"}
  /\ up = Down => pc = "idle" /\ hist = <<>>

\* The rows counted in memory are in the file.
Saved ==
  \A i \in 1 .. diskN :
    /\ i * up.layout <= Len(file.cells)
    /\ RowAt(file, up.layout, i) = kv[i] /\ TokenAt(file, up.layout, i) = hist[i]

\* So are those written since, cell by cell.
CellsWritten ==
  /\ diskN * up.layout <= cursor /\ cursor <= Len(hist) * up.layout
  /\ cursor <= Len(file.cells)
  /\ \A i \in 1 .. Len(hist), j \in 1 .. up.layout :
       LET q == FirstCell(up.layout, i) + j - 1 IN
       diskN * up.layout < q /\ q <= cursor
         => file.cells[q] = Cell(kv[i], hist[i], j, up.layout)
InFile ==
  up # Down /\ "append" \notin failures =>
    /\ Saved
    /\ pc = "idle" => diskN = Len(hist)
    /\ pc = "write" => CellsWritten
DiskInv == KTypes /\ InFile

LEMMA EngineSizes ==
  ASSUME NEW e \in Engines
  PROVE  e.layout \in Nat \ {0} /\ e.ctx \in Nat /\ e # Down
  <1>1. e.layout \in Layouts /\ e.ctx \in Contexts
    BY DEF Engines
  <1>2. e.layout \in Nat \ {0} /\ e.ctx \in Nat
    BY <1>1, KVFileAssumption
  <1>3. e # Down
    BY <1>2 DEF Down
  <1>4. QED
    BY <1>2, <1>3

LEMMA Layout ==
  ASSUME KTypes, up # Down
  PROVE  up.layout \in Nat \ {0} /\ up.ctx \in Nat /\ up \in Engines
  BY EngineSizes DEF KTypes

LEMMA Lengths ==
  ASSUME KTypes
  PROVE  /\ Len(hist) \in Nat /\ Len(kv) = Len(hist) /\ Len(file.cells) \in Nat
         /\ \A i \in 1 .. Len(hist) : hist[i] \in Nat /\ kv[i] \in Row
  <1>1. file.cells \in Seq(Cells)
    BY DEF KTypes, Contents
  <1>2. QED
    BY <1>1, LenProperties, ElementOfSeq DEF KTypes

LEMMA DiskInit == KInit => DiskInv
  <1>1. NoFile \in Contents /\ <<>> \in Seq(Nat) /\ <<>> \in Seq(Row) /\ Len(<<>>) = 0
    BY EmptySeq DEF NoFile, Contents
  <1>2. QED
    BY <1>1 DEF KInit, DiskInv, KTypes, InFile

-----------------------------------------------------------------------------
(* Starting: what the file holds is what is resumed.                        *)
LEMMA ResumableIs ==
  ASSUME KTypes, NEW e \in Engines
  PROVE  /\ Resumable(file, e) \in Nat
         /\ \A i \in 1 .. Resumable(file, e) : i * e.layout <= Len(file.cells)
         /\ Resumable(file, e) # 0 => /\ file.layout = e.layout /\ file.nrec + Reserve < e.ctx
                                      /\ Resumable(file, e) <= file.nrec
  <1>1. e.layout \in Nat \ {0} /\ Len(file.cells) \in Nat /\ file.nrec \in Nat /\ e.ctx \in Nat
        /\ Reserve \in Nat
    BY EngineSizes, Lengths, KVFileAssumption DEF KTypes, Contents
  <1>2. Len(file.cells) \div e.layout \in Nat
    BY <1>1, Division
  <1>3. Resumable(file, e) \in Nat /\ Resumable(file, e) <= Len(file.cells) \div e.layout
    BY <1>1, <1>2 DEF Resumable, WholeRows
  <1>4. \A i \in 1 .. Resumable(file, e) : i * e.layout <= Len(file.cells)
    BY <1>1, <1>2, <1>3, WholeRow
  <1>5. QED
    BY <1>1, <1>2, <1>3, <1>4 DEF Resumable, WholeRows

LEMMA BootLoads ==
  ASSUME DiskInv, NEW e \in Engines, Boot(e)
  PROVE  /\ hist' \in Seq(Nat) /\ kv' \in Seq(Row)
         /\ Len(hist') = Resumable(file, e) /\ Len(kv') = Resumable(file, e)
         /\ \A i \in 1 .. Resumable(file, e) :
              hist'[i] = TokenAt(file, e.layout, i) /\ kv'[i] = RowAt(file, e.layout, i)
  <1> DEFINE n == Resumable(file, e)
  <1>1. /\ n \in Nat /\ file \in Contents /\ e.layout \in Nat \ {0}
        /\ \A i \in 1 .. n : i * e.layout <= Len(file.cells)
    BY ResumableIs, EngineSizes DEF DiskInv, KTypes
  <1>2. \A i \in 1 .. n : TokenAt(file, e.layout, i) \in Nat /\ RowAt(file, e.layout, i) \in Row
    BY <1>1, RowAtType
  <1>3. /\ hist' = [i \in 1 .. n |-> TokenAt(file, e.layout, i)]
        /\ kv' = [i \in 1 .. n |-> RowAt(file, e.layout, i)]
    BY DEF Boot, ResumedHist, ResumedRows
  <1> HIDE DEF n
  <1>4. hist' \in [1 .. n -> Nat] /\ kv' \in [1 .. n -> Row]
    BY <1>2, <1>3
  <1>5. /\ hist' \in Seq(Nat) /\ kv' \in Seq(Row) /\ Len(hist') = n /\ Len(kv') = n
    BY <1>1, <1>4, FunctionSeq
  <1>6. QED
    BY <1>3, <1>5 DEF n

LEMMA BootKeeps ==
  ASSUME DiskInv, NEW e \in Engines, Boot(e)
  PROVE  DiskInv'
  <1> DEFINE n == Resumable(file, e)
  <1>1. /\ up' = e /\ diskN' = n /\ UNCHANGED <<pc, cursor, file, failures>> /\ pc = "idle"
    BY DEF Boot, DiskInv, KTypes
  <1>2. n \in Nat /\ \A i \in 1 .. n : i * e.layout <= Len(file.cells)
    BY ResumableIs DEF DiskInv
  <1>3. KTypes'
    BY <1>1, <1>2, BootLoads, EngineSizes DEF DiskInv, KTypes
  <1>4. InFile'
    BY <1>1, <1>2, BootLoads DEF InFile, Saved
  <1>5. QED
    BY <1>3, <1>4 DEF DiskInv

-----------------------------------------------------------------------------
(* A turn and a reset: the file is cut to what stays.                       *)

\* What kv_disk_truncate does to the count, and to the header alone.
LEMMA TruncatedIs ==
  ASSUME KTypes, NEW n \in Nat, Truncated(n)
  PROVE  /\ diskN' \in {0, n}
         /\ file' \in Contents /\ file'.cells = file.cells /\ file'.layout = file.layout
         /\ failures' \subseteq {"truncate", "append"} /\ failures \subseteq failures'
         /\ \/ file # NoFile /\ diskN' = n /\ file'.nrec = n
            \/ diskN' = 0 /\ file' = file /\ (file = NoFile \/ failures' # {})
  <1>1. file \in Contents
    BY DEF KTypes
  <1>2. CASE file # NoFile /\ diskN' = n /\ file' = [file EXCEPT !.nrec = n] /\ UNCHANGED failures
    BY <1>1, <1>2 DEF Contents, KTypes
  <1>3. CASE diskN' = 0 /\ UNCHANGED file /\ file = NoFile /\ UNCHANGED failures
    BY <1>1, <1>3 DEF KTypes
  <1>4. CASE diskN' = 0 /\ UNCHANGED file /\ file # NoFile /\ Fails("truncate")
    BY <1>1, <1>4 DEF KTypes, Fails
  <1>5. \/ file # NoFile /\ diskN' = n /\ file' = [file EXCEPT !.nrec = n] /\ UNCHANGED failures
        \/ diskN' = 0 /\ UNCHANGED file /\ file = NoFile /\ UNCHANGED failures
        \/ diskN' = 0 /\ UNCHANGED file /\ file # NoFile /\ Fails("truncate")
    BY DEF Truncated
  <1>6. QED
    BY <1>2, <1>3, <1>4, <1>5

\* The rows the turn leaves: those of the prefix, then new ones.
LEMMA TurnRows ==
  ASSUME KTypes, NEW k \in 1 .. up.ctx, NEW tokens \in [1 .. k -> Tokens], NEW n \in 1 .. k,
         Turn(tokens, n)
  PROVE  \E p \in 0 .. n :
           /\ p <= Len(hist) /\ tokens \in Seq(Nat) /\ Len(tokens) = k
           /\ IF p < Len(hist) THEN Truncated(p) ELSE UNCHANGED <<diskN, file, failures>>
           /\ hist' = tokens
           /\ kv' \in Seq(Row) /\ Len(kv') = k
           /\ \A i \in 1 .. p : kv'[i] = kv[i] /\ tokens[i] = hist[i]
           /\ \A i \in p + 1 .. k : kv'[i] = RowOf(tokens, i)
  <1>1. tokens \in Seq(Nat) /\ Len(tokens) = k /\ k \in Nat
    <2>1. k \in Nat
      BY Layout DEF Turn
    <2>2. Tokens \subseteq Nat
      BY KVFileAssumption
    <2>3. tokens \in [1 .. k -> Nat]
      BY <2>2
    <2>4. QED
      BY <2>1, <2>3, FunctionSeq
  <1>2. n \in 0 .. Len(tokens) /\ k \in Nat
    BY <1>1
  <1>3. /\ SubSeq(tokens, 1, n) \in Seq(Nat) /\ Len(SubSeq(tokens, 1, n)) = n
        /\ \A i \in 1 .. n : SubSeq(tokens, 1, n)[i] = tokens[i]
    BY <1>1, <1>2, PrefixAt
  <1> DEFINE p == CommonPrefix(SubSeq(tokens, 1, n))
             rows == RowsOf(tokens)
  <1>4. p \in 0 .. n /\ p <= Len(hist) /\ \A i \in 1 .. p : hist[i] = tokens[i]
    <2> DEFINE prompt == SubSeq(tokens, 1, n)
    <2>1. prompt \in Seq(Nat) /\ hist \in Seq(Nat) /\ Len(prompt) = n
      BY <1>3 DEF KTypes
    <2>2. \A i \in 1 .. n : prompt[i] = tokens[i]
      BY <1>3
    <2> HIDE DEF prompt
    <2>3. /\ CommonPrefix(prompt) \in 0 .. n /\ CommonPrefix(prompt) <= Len(hist)
          /\ \A i \in 1 .. CommonPrefix(prompt) : hist[i] = prompt[i]
      BY <2>1, CommonPrefixIs
    <2>4. \A i \in 1 .. CommonPrefix(prompt) : hist[i] = tokens[i]
      BY <2>2, <2>3
    <2>5. QED
      BY <2>3, <2>4 DEF prompt
  <1>5. \A i \in 1 .. k : RowOf(tokens, i) \in Row
    BY <1>1, PrefixAt DEF RowOf, Row
  <1>6. rows \in Seq(Row) /\ Len(rows) = k /\ \A i \in 1 .. k : rows[i] = RowOf(tokens, i)
    <2>1. rows \in [1 .. k -> Row] /\ \A i \in 1 .. k : rows[i] = RowOf(tokens, i)
      BY <1>1, <1>5 DEF RowsOf
    <2>2. QED
      BY <1>2, <2>1, FunctionSeq
  <1>7. /\ SubSeq(kv, 1, p) \in Seq(Row) /\ Len(SubSeq(kv, 1, p)) = p
        /\ \A i \in 1 .. p : SubSeq(kv, 1, p)[i] = kv[i]
    BY <1>4, PrefixAt DEF KTypes
  <1>8. /\ SubSeq(rows, p + 1, k) \in Seq(Row) /\ Len(SubSeq(rows, p + 1, k)) = k - p
        /\ \A i \in 1 .. k - p : SubSeq(rows, p + 1, k)[i] = rows[p + i]
    <2>1. \A i \in p + 1 .. k : rows[i] \in Row
      BY <1>4, <1>5, <1>6
    <2>2. p + 1 \in Int /\ k \in Int /\ p \in Nat /\ p <= k
      BY <1>2, <1>4
    <2> HIDE DEF rows, p
    <2>3. /\ SubSeq(rows, p + 1, k) \in Seq(Row)
          /\ Len(SubSeq(rows, p + 1, k)) = IF p + 1 <= k THEN k - (p + 1) + 1 ELSE 0
          /\ \A i \in 1 .. k - (p + 1) + 1 : SubSeq(rows, p + 1, k)[i] = rows[p + 1 + i - 1]
      BY <2>1, <2>2, SubSeqProperties
    <2>4. QED
      BY <2>2, <2>3
  <1>9. kv' = SubSeq(kv, 1, p) \o SubSeq(rows, p + 1, k)
    BY <1>1 DEF Turn
  <1> HIDE DEF p, rows
  <1>10. /\ kv' \in Seq(Row) /\ Len(kv') = k
         /\ \A i \in 1 .. k : kv'[i] = IF i <= p THEN kv[i] ELSE rows[i]
    <2> DEFINE old == SubSeq(kv, 1, p)
               new == SubSeq(rows, p + 1, k)
    <2>1. old \in Seq(Row) /\ new \in Seq(Row) /\ Len(old) = p /\ Len(new) = k - p
      BY <1>7, <1>8
    <2>2. p \in Nat /\ p <= k /\ k \in Nat
      BY <1>2, <1>4
    <2>3. \A i \in 1 .. p : old[i] = kv[i]
      BY <1>7
    <2>4. \A i \in 1 .. k : i > p => new[i - p] = rows[i]
      BY <1>8, <2>2
    <2>5. kv' = old \o new
      BY <1>9
    <2> HIDE DEF old, new
    <2>6. /\ old \o new \in Seq(Row) /\ Len(old \o new) = Len(old) + Len(new)
          /\ \A i \in 1 .. Len(old) + Len(new) :
               (old \o new)[i] = IF i <= Len(old) THEN old[i] ELSE new[i - Len(old)]
      BY <2>1, ConcatProperties
    <2>7. Len(old) + Len(new) = k
      BY <2>1, <2>2
    <2>8. kv' \in Seq(Row) /\ Len(kv') = k
          /\ \A i \in 1 .. k : kv'[i] = IF i <= p THEN old[i] ELSE new[i - p]
      BY <2>1, <2>5, <2>6, <2>7
    <2>9. QED
      BY <2>2, <2>3, <2>4, <2>8
  <1>11. /\ IF p < Len(hist) THEN Truncated(p) ELSE UNCHANGED <<diskN, file, failures>>
         /\ hist' = tokens
    BY DEF Turn, p
  <1>12. QED
    BY <1>1, <1>2, <1>4, <1>6, <1>10, <1>11

LEMMA TurnKeeps ==
  ASSUME DiskInv, NEW k \in 1 .. up.ctx, NEW tokens \in [1 .. k -> Tokens], NEW n \in 1 .. k,
         Turn(tokens, n)
  PROVE  DiskInv'
  <1>1. KTypes /\ up # Down /\ pc = "idle" /\ pc' = "append" /\ UNCHANGED <<up, cursor>>
    BY DEF DiskInv, Turn
  <1>2. PICK p \in 0 .. n :
           /\ p <= Len(hist) /\ tokens \in Seq(Nat) /\ Len(tokens) = k
           /\ IF p < Len(hist) THEN Truncated(p) ELSE UNCHANGED <<diskN, file, failures>>
           /\ hist' = tokens
           /\ kv' \in Seq(Row) /\ Len(kv') = k
           /\ \A i \in 1 .. p : kv'[i] = kv[i] /\ tokens[i] = hist[i]
           /\ \A i \in p + 1 .. k : kv'[i] = RowOf(tokens, i)
    BY <1>1, TurnRows
  <1>3. p \in Nat /\ p <= k /\ k \in Nat /\ Len(hist) \in Nat /\ diskN \in Nat /\ diskN <= Len(hist)
    BY <1>1, Lengths DEF KTypes
  <1>4. /\ diskN' \in Nat /\ diskN' <= p
        /\ file' \in Contents /\ file'.cells = file.cells
        /\ failures' \subseteq {"truncate", "append"} /\ failures \subseteq failures'
    <2>1. CASE p < Len(hist)
      BY <1>1, <1>2, <1>3, <2>1, TruncatedIs
    <2>2. CASE ~(p < Len(hist))
      <3>1. p = Len(hist) /\ UNCHANGED <<diskN, file, failures>>
        BY <1>2, <1>3, <2>2
      <3>2. QED
        BY <1>1, <3>1 DEF KTypes
    <2>3. QED
      BY <2>1, <2>2
  <1>5. KTypes'
    BY <1>1, <1>2, <1>3, <1>4 DEF KTypes
  <1>6. ASSUME "append" \notin failures'
        PROVE  Saved'
    <2>1. Saved /\ diskN = Len(hist)
      BY <1>1, <1>4, <1>6 DEF DiskInv, InFile
    <2>2. \A i \in 1 .. diskN' : i \in 1 .. diskN /\ kv'[i] = kv[i] /\ hist'[i] = hist[i]
      BY <1>2, <1>3, <1>4, <2>1
    <2>3. \A v, i : RowAt(file', v, i) = RowAt(file, v, i) /\ TokenAt(file', v, i) = TokenAt(file, v, i)
      BY <1>4 DEF RowAt, TokenAt
    <2>4. QED
      BY <1>1, <1>4, <2>1, <2>2, <2>3 DEF Saved
  <1>7. QED
    BY <1>1, <1>5, <1>6 DEF DiskInv, InFile

LEMMA ResetKeeps ==
  ASSUME DiskInv, Reset
  PROVE  DiskInv'
  <1>1. KTypes /\ up # Down /\ pc = "idle" /\ UNCHANGED <<up, pc, cursor>> /\ Truncated(0)
        /\ hist' = <<>> /\ kv' = <<>>
    BY DEF DiskInv, Reset
  <1>2. /\ diskN' = 0 /\ file' \in Contents
        /\ failures' \subseteq {"truncate", "append"}
    BY <1>1, TruncatedIs
  <1>3. <<>> \in Seq(Nat) /\ <<>> \in Seq(Row) /\ Len(<<>>) = 0
    BY EmptySeq
  <1>4. KTypes'
    BY <1>1, <1>2, <1>3 DEF KTypes
  <1>5. InFile'
    BY <1>1, <1>2, <1>3 DEF InFile, Saved
  <1>6. QED
    BY <1>4, <1>5 DEF DiskInv

-----------------------------------------------------------------------------
(* The append.                                                              *)
LEMMA OpenedIs ==
  ASSUME KTypes, up # Down
  PROVE  Opened \in Contents /\ Opened.cells = file.cells
  <1>1. CASE file = NoFile
    <2>1. NewFile(up.layout) \in Contents /\ NewFile(up.layout).cells = <<>>
      BY Layout, EmptySeq DEF NewFile, Contents
    <2>2. file.cells = <<>>
      BY <1>1 DEF NoFile
    <2>3. QED
      BY <1>1, <2>1, <2>2 DEF Opened
  <1>2. CASE file # NoFile
    BY <1>2 DEF Opened, KTypes
  <1>3. QED
    BY <1>1, <1>2

\* Saved looks at nothing but the cells.
LEMMA SameCells ==
  ASSUME file'.cells = file.cells, UNCHANGED <<up, hist, kv, diskN>>
  PROVE  Saved' = Saved
  BY DEF Saved, RowAt, TokenAt

LEMMA AppendSkippedKeeps ==
  ASSUME DiskInv, AppendSkipped
  PROVE  DiskInv'
  <1>1. KTypes /\ up # Down /\ pc = "append" /\ pc' = "idle" /\ UNCHANGED <<up, hist, kv, diskN, cursor>>
    BY DEF DiskInv, AppendSkipped
  <1>2. CASE Len(hist) <= diskN /\ UNCHANGED <<file, failures>>
    <2>1. diskN = Len(hist)
      BY <1>1, <1>2, Lengths DEF KTypes
    <2>2. KTypes'
      BY <1>1, <1>2 DEF KTypes
    <2>3. Saved' = Saved
      BY <1>1, <1>2, SameCells
    <2>4. InFile'
      BY <1>1, <1>2, <2>1, <2>3 DEF DiskInv, InFile
    <2>5. QED
      BY <2>2, <2>4 DEF DiskInv
  <1>3. CASE Fails("append") /\ file' \in {file, Opened}
    <2>1. file' \in Contents
      BY <1>1, <1>3, OpenedIs DEF KTypes
    <2>2. failures' = failures \cup {"append"}
      BY <1>3 DEF Fails
    <2>3. KTypes'
      BY <1>1, <2>1, <2>2 DEF KTypes
    <2>4. QED
      BY <2>2, <2>3 DEF DiskInv, InFile
  <1>4. QED
    BY <1>2, <1>3 DEF AppendSkipped

LEMMA AppendBeginKeeps ==
  ASSUME DiskInv, AppendBegin
  PROVE  DiskInv'
  <1>1. /\ KTypes /\ up # Down /\ pc = "append" /\ pc' = "write"
        /\ UNCHANGED <<up, hist, kv, diskN, failures>>
        /\ file' = Opened /\ cursor' = diskN * up.layout
    BY DEF DiskInv, AppendBegin
  <1> DEFINE v == up.layout
  <1>2. /\ v \in Nat \ {0} /\ diskN \in Nat /\ Len(hist) \in Nat /\ diskN <= Len(hist)
        /\ Len(file.cells) \in Nat
    BY <1>1, Layout, Lengths DEF KTypes
  <1>3. file' \in Contents /\ file'.cells = file.cells
    BY <1>1, OpenedIs
  <1>4. diskN * v <= Len(hist) * v /\ diskN * v \in Nat
    BY <1>2, RowsInOrder
  <1>5. KTypes'
    BY <1>1, <1>3, <1>4 DEF KTypes
  <1>6. ASSUME "append" \notin failures
        PROVE  Saved' /\ CellsWritten'
    <2>1. Saved
      BY <1>1, <1>6 DEF DiskInv, InFile
    <2>2. Saved'
      BY <1>1, <1>3, <2>1, SameCells
    <2>3. diskN * v <= Len(file.cells)
      <3>1. CASE diskN = 0
        BY <1>2, <3>1
      <3>2. CASE diskN # 0
        <4>1. diskN \in 1 .. diskN
          BY <1>2, <3>2
        <4>2. QED
          BY <2>1, <4>1 DEF Saved
      <3>3. QED
        BY <3>1, <3>2
    <2>4. /\ diskN' * up'.layout <= cursor' /\ cursor' <= Len(hist') * up'.layout
          /\ cursor' <= Len(file'.cells)
      BY <1>1, <1>3, <1>4, <2>3
    <2>5. \A i \in 1 .. Len(hist), j \in 1 .. v :
            ~(diskN * v < FirstCell(v, i) + j - 1 /\ FirstCell(v, i) + j - 1 <= diskN * v)
      <3> SUFFICES ASSUME NEW i \in 1 .. Len(hist), NEW j \in 1 .. v
                   PROVE  ~(diskN * v < FirstCell(v, i) + j - 1 /\ FirstCell(v, i) + j - 1 <= diskN * v)
        OBVIOUS
      <3>1. i \in Nat \ {0} /\ j \in Nat /\ v \in Nat \ {0}
        BY <1>2
      <3> HIDE DEF v
      <3>2. FirstCell(v, i) \in Nat
        BY <3>1, FirstAndLast
      <3>3. QED
        BY <1>2, <1>4, <3>1, <3>2
    <2>6. CellsWritten'
      BY <1>1, <2>4, <2>5 DEF CellsWritten
    <2>7. QED
      BY <2>2, <2>6
  <1>7. QED
    BY <1>1, <1>5, <1>6 DEF DiskInv, InFile

LEMMA OffsetInRows ==
  ASSUME NEW v \in Nat \ {0}, NEW n \in Nat, NEW o \in Nat, o < n * v
  PROVE  o \div v + 1 \in 1 .. n /\ (o % v) + 1 \in 1 .. v
  <1>1. o \div v \in Nat /\ o % v \in 0 .. v - 1 /\ o = (o \div v) * v + (o % v)
    BY Division
  <1> DEFINE q == o \div v
  <1> HIDE DEF q
  <1>2. q < n
    <2> SUFFICES ASSUME n <= q PROVE FALSE
      BY <1>1 DEF q
    <2>1. n * v <= q * v /\ n * v \in Nat /\ q * v \in Nat
      BY <1>1, RowsInOrder DEF q
    <2>2. q * v <= o
      BY <1>1, <2>1 DEF q
    <2>3. QED
      BY <2>1, <2>2
  <1>3. QED
    BY <1>1, <1>2 DEF q

LEMMA WriteCellKeeps ==
  ASSUME DiskInv, WriteCell
  PROVE  DiskInv'
  <1> DEFINE v == up.layout
             p == cursor \div v + 1
             piece == (cursor % v) + 1
             cell == Cell(kv[p], hist[p], piece, v)
  <1>1. /\ KTypes /\ up # Down /\ pc = "write" /\ cursor < Len(hist) * v
        /\ UNCHANGED <<up, hist, kv, diskN, pc, failures>>
        /\ file' = Written(file, cursor, cell) /\ cursor' = cursor + 1
    BY DEF DiskInv, WriteCell
  <1>2. /\ v \in Nat \ {0} /\ diskN \in Nat /\ Len(hist) \in Nat /\ diskN <= Len(hist)
        /\ Len(file.cells) \in Nat /\ cursor \in Nat /\ file \in Contents
    BY <1>1, Layout, Lengths DEF KTypes
  <1>3. p \in 1 .. Len(hist) /\ piece \in 1 .. v
    BY <1>1, <1>2, OffsetInRows
  <1>4. cell \in Cells
    <2>1. kv[p] \in Row /\ hist[p] \in Nat
      BY <1>1, <1>3, Lengths
    <2> HIDE DEF p, piece, v
    <2>2. QED
      BY <1>2, <1>3, <2>1 DEF Cell, Cells
  <1> HIDE DEF p, piece, cell
  <1>5. /\ file' \in Contents
        /\ Len(file'.cells) = IF cursor < Len(file.cells) THEN Len(file.cells) ELSE cursor + 1
        /\ file'.cells[cursor + 1] = cell
        /\ \A q \in 1 .. Len(file.cells) : q # cursor + 1 => file'.cells[q] = file.cells[q]
    BY ZenonT(30), <1>1, <1>2, <1>4, Writes
  <1>6. KTypes'
    BY <1>1, <1>2, <1>5 DEF KTypes
  <1>7. ASSUME "append" \notin failures
        PROVE  Saved' /\ CellsWritten'
    <2>1. Saved /\ CellsWritten
      BY <1>1, <1>7 DEF DiskInv, InFile
    <2>2. /\ diskN * v <= cursor /\ cursor <= Len(file.cells) /\ cursor <= Len(hist) * v
      BY <2>1 DEF CellsWritten
    <2>3. ASSUME NEW i \in 1 .. diskN
          PROVE  /\ i * v <= Len(file'.cells)
                 /\ RowAt(file', v, i) = kv[i] /\ TokenAt(file', v, i) = hist[i]
      <3> HIDE DEF v
      <3>0. i \in Nat \ {0} /\ v \in Nat \ {0} /\ i <= diskN
        BY <1>2
      <3>1. i * v <= diskN * v /\ i * v \in Nat /\ diskN * v \in Nat
        BY <1>2, <3>0, RowsInOrder
      <3>2. i * v <= Len(file.cells) /\ i * v <= Len(file'.cells) /\ i * v <= cursor
        <4>1. \A a, b \in Nat : a <= b /\ b <= cursor => a <= cursor /\ a <= Len(file.cells)
          BY <1>2, <2>2
        <4>2. i * v <= cursor /\ i * v <= Len(file.cells)
          BY <2>2, <3>1, <4>1
        <4>3. \A a \in Nat : a <= Len(file.cells) => a <= Len(file'.cells)
          BY <1>2, <1>5
        <4>4. QED
          BY <3>1, <4>2, <4>3
      <3>3. FirstCell(v, i) \in Nat \ {0} /\ i * v = FirstCell(v, i) + v - 1
        BY <3>0, FirstAndLast
      <3>4. \A j \in 1 .. v : file'.cells[FirstCell(v, i) + j - 1] = file.cells[FirstCell(v, i) + j - 1]
        <4> SUFFICES ASSUME NEW j \in 1 .. v
                     PROVE  file'.cells[FirstCell(v, i) + j - 1] = file.cells[FirstCell(v, i) + j - 1]
          OBVIOUS
        <4>1. FirstCell(v, i) + j - 1 \in 1 .. Len(file.cells) /\ FirstCell(v, i) + j - 1 # cursor + 1
          BY <1>2, <3>0, <3>1, <3>2, <3>3
        <4>2. QED
          BY <1>5, <4>1
      <3>5. RowAt(file', v, i) = RowAt(file, v, i) /\ TokenAt(file', v, i) = TokenAt(file, v, i)
        BY <1>2, <1>5, <3>0, <3>2, <3>4, SameRecord
      <3>6. QED
        BY <2>1, <3>2, <3>5 DEF Saved, v
    <2>4. Saved'
      BY <1>1, <2>3 DEF Saved
    <2>5. ASSUME NEW i \in 1 .. Len(hist), NEW j \in 1 .. v,
                 diskN * v < FirstCell(v, i) + j - 1, FirstCell(v, i) + j - 1 <= cursor + 1
          PROVE  file'.cells[FirstCell(v, i) + j - 1] = Cell(kv[i], hist[i], j, v)
      <3>0. i \in Nat \ {0} /\ v \in Nat \ {0} /\ j \in 1 .. v /\ cursor \in Nat
        BY <1>2
      <3> HIDE DEF v
      <3>1. FirstCell(v, i) \in Nat \ {0}
        BY <3>0, FirstAndLast
      <3>2. CASE FirstCell(v, i) + j - 1 = cursor + 1
        <4>1. i = cursor \div v + 1 /\ j = (cursor % v) + 1
          <5> DEFINE q == i - 1
                     r == j - 1
          <5>1. q \in Nat /\ r \in 0 .. v - 1 /\ i = q + 1 /\ j = r + 1
            BY <3>0
          <5>2. q * v + r = cursor
            BY <3>0, <3>2 DEF FirstCell
          <5> HIDE DEF q, r
          <5>3. (q * v + r) \div v = q /\ (q * v + r) % v = r
            BY <3>0, <5>1, CellPlace
          <5>4. QED
            BY <5>1, <5>2, <5>3
        <4>2. QED
          BY <1>5, <3>2, <4>1 DEF cell, p, piece
      <3>3. CASE FirstCell(v, i) + j - 1 # cursor + 1
        <4>1. FirstCell(v, i) + j - 1 <= cursor /\ FirstCell(v, i) + j - 1 \in 1 .. Len(file.cells)
          BY <1>2, <2>2, <2>5, <3>1, <3>3
        <4>2. file.cells[FirstCell(v, i) + j - 1] = Cell(kv[i], hist[i], j, v)
          BY <2>1, <2>5, <4>1 DEF CellsWritten, v
        <4>3. QED
          BY <1>5, <3>3, <4>1, <4>2
      <3>4. QED
        BY <3>2, <3>3
    <2>6. /\ diskN * v <= cursor + 1 /\ cursor + 1 <= Len(hist) * v
          /\ cursor + 1 <= Len(file'.cells)
      <3>1. diskN * v \in Nat /\ Len(hist) * v \in Nat
        BY <1>2, RowsInOrder
      <3>2. QED
        BY SMTT(30), <1>1, <1>2, <1>5, <2>2, <3>1
    <2>7. CellsWritten'
      BY <1>1, <2>5, <2>6 DEF CellsWritten
    <2>8. QED
      BY <2>4, <2>7
  <1>8. QED
    BY <1>1, <1>6, <1>7 DEF DiskInv, InFile

\* After the loop every row is there.
LEMMA AllWritten ==
  ASSUME DiskInv, up # Down, pc = "write", "append" \notin failures,
         cursor >= Len(hist) * up.layout, NEW i \in 1 .. Len(hist)
  PROVE  /\ i * up.layout <= Len(file.cells)
         /\ RowAt(file, up.layout, i) = kv[i] /\ TokenAt(file, up.layout, i) = hist[i]
  <1> DEFINE v == up.layout
  <1>1. KTypes /\ Saved /\ CellsWritten
    BY DEF DiskInv, InFile
  <1>2. /\ v \in Nat \ {0} /\ diskN \in Nat /\ Len(hist) \in Nat /\ file \in Contents
        /\ Len(file.cells) \in Nat /\ cursor \in Nat
        /\ i \in Nat \ {0} /\ i <= Len(hist)
    BY <1>1, Layout, Lengths DEF KTypes
  <1>3. kv[i] \in Row /\ hist[i] \in Nat
    BY <1>1, Lengths
  <1>10. diskN < i => diskN <= i - 1 /\ i - 1 \in Nat
    BY <1>2
  <1> HIDE DEF v
  <1>4. /\ i * v <= Len(hist) * v /\ i * v \in Nat /\ Len(hist) * v \in Nat
        /\ i * v = FirstCell(v, i) + v - 1 /\ FirstCell(v, i) \in Nat \ {0}
    BY <1>2, RowsInOrder, FirstAndLast
  <1>5. i * v <= cursor /\ cursor <= Len(file.cells)
    BY <1>1, <1>2, <1>4 DEF CellsWritten, v
  <1>6. i * v <= Len(file.cells)
    BY <1>2, <1>4, <1>5
  <1>7. CASE i <= diskN
    BY <1>1, <1>2, <1>7 DEF Saved, v
  <1>8. CASE diskN < i
    <2>1. diskN * v <= (i - 1) * v /\ (i - 1) * v \in Nat /\ diskN * v \in Nat
      BY <1>2, <1>8, <1>10, RowsInOrder
    <2>2. FirstCell(v, i) = (i - 1) * v + 1
      BY DEF FirstCell
    <2>3. \A j \in 1 .. v : file.cells[FirstCell(v, i) + j - 1] = Cell(kv[i], hist[i], j, v)
      <3> SUFFICES ASSUME NEW j \in 1 .. v
                   PROVE  file.cells[FirstCell(v, i) + j - 1] = Cell(kv[i], hist[i], j, v)
        OBVIOUS
      <3>1. diskN * v < FirstCell(v, i) + j - 1 /\ FirstCell(v, i) + j - 1 <= cursor
        BY <1>2, <1>4, <1>5, <2>1, <2>2
      <3>2. QED
        BY <1>1, <3>1 DEF CellsWritten, v
    <2>4. RowAt(file, v, i) = kv[i] /\ TokenAt(file, v, i) = hist[i]
      <3>1. 1 \in 1 .. v /\ FirstCell(v, i) + 1 - 1 = FirstCell(v, i)
        BY <1>2, FirstAndLast
      <3>2. file.cells[FirstCell(v, i)] = Cell(kv[i], hist[i], 1, v)
        BY <2>3, <3>1
      <3>3. file.cells[FirstCell(v, i)].of = kv[i] /\ file.cells[FirstCell(v, i)].tok = hist[i]
        BY <3>2 DEF Cell
      <3>4. QED
        BY <1>2, <1>6, <2>3, <3>3, WrittenRecord
    <2>5. QED
      BY <1>6, <2>4 DEF v
  <1>9. QED
    BY <1>2, <1>6, <1>7, <1>8 DEF v

LEMMA WriteCountKeeps ==
  ASSUME DiskInv, WriteCount
  PROVE  DiskInv'
  <1>1. /\ KTypes /\ up # Down /\ pc = "write" /\ cursor >= Len(hist) * up.layout
        /\ file' = [file EXCEPT !.nrec = Len(hist)] /\ diskN' = Len(hist)
        /\ pc' = "idle" /\ cursor' = 0 /\ UNCHANGED <<up, hist, kv, failures>>
    BY DEF DiskInv, WriteCount
  <1>2. file' \in Contents /\ file'.cells = file.cells
    BY <1>1, Lengths DEF KTypes, Contents
  <1>3. KTypes'
    BY <1>1, <1>2, Lengths DEF KTypes
  <1>4. ASSUME "append" \notin failures
        PROVE  Saved'
    <2>1. \A v, i : RowAt(file', v, i) = RowAt(file, v, i) /\ TokenAt(file', v, i) = TokenAt(file, v, i)
      BY <1>2 DEF RowAt, TokenAt
    <2>2. \A i \in 1 .. Len(hist) :
            /\ i * up.layout <= Len(file.cells)
            /\ RowAt(file, up.layout, i) = kv[i] /\ TokenAt(file, up.layout, i) = hist[i]
      BY <1>1, <1>4, AllWritten
    <2>3. QED
      BY <1>1, <1>2, <2>1, <2>2 DEF Saved
  <1>5. QED
    BY <1>1, <1>3, <1>4 DEF DiskInv, InFile

LEMMA CrashKeeps ==
  ASSUME DiskInv, Crash
  PROVE  DiskInv'
  <1>1. <<>> \in Seq(Nat) /\ <<>> \in Seq(Row) /\ Len(<<>>) = 0
    BY EmptySeq
  <1>2. QED
    BY <1>1 DEF DiskInv, KTypes, InFile, Crash

LEMMA StutterKeeps ==
  ASSUME DiskInv, UNCHANGED kvVars
  PROVE  DiskInv'
  <1>1. UNCHANGED <<up, hist, kv, diskN, pc, cursor, file, failures>>
    BY DEF kvVars
  <1>2. KTypes'
    BY <1>1 DEF DiskInv, KTypes
  <1>3. Saved' = Saved
    BY <1>1, SameCells
  <1>4. CellsWritten' = CellsWritten
    BY <1>1 DEF CellsWritten
  <1>5. QED
    BY <1>1, <1>2, <1>3, <1>4 DEF DiskInv, InFile

LEMMA DiskStep == DiskInv /\ [KNext]_kvVars => DiskInv'
  <1> SUFFICES ASSUME DiskInv, [KNext]_kvVars PROVE DiskInv'
    OBVIOUS
  <1>1. ASSUME NEW e \in Engines, Boot(e) PROVE DiskInv'
    BY <1>1, BootKeeps
  <1>2. ASSUME NEW k \in 1 .. up.ctx, NEW tokens \in [1 .. k -> Tokens], NEW n \in 1 .. k,
               Turn(tokens, n)
        PROVE  DiskInv'
    BY <1>2, TurnKeeps
  <1>3. QED
    BY <1>1, <1>2, ResetKeeps, AppendSkippedKeeps, AppendBeginKeeps, WriteCellKeeps,
       WriteCountKeeps, CrashKeeps, StutterKeeps DEF KNext

LEMMA DiskAlways == KSpec => []DiskInv
  BY DiskInit, DiskStep, PTL DEF KSpec

-----------------------------------------------------------------------------
LEMMA InvMatches == DiskInv => DiskMatchesMemory
  <1> SUFFICES ASSUME DiskInv, up # Down
               PROVE  /\ diskN <= Len(hist)
                      /\ "append" \notin failures =>
                           \A i \in 1 .. diskN :
                             /\ i <= WholeRows(file, up.layout)
                             /\ RowAt(file, up.layout, i) = kv[i]
    BY DEF DiskMatchesMemory
  <1>1. KTypes /\ diskN \in Nat /\ diskN <= Len(hist)
    BY DEF DiskInv, KTypes
  <1>2. ASSUME "append" \notin failures, NEW i \in 1 .. diskN
        PROVE  i <= WholeRows(file, up.layout) /\ RowAt(file, up.layout, i) = kv[i]
    <2>1. i * up.layout <= Len(file.cells) /\ RowAt(file, up.layout, i) = kv[i]
      BY <1>2 DEF DiskInv, InFile, Saved
    <2>2. up.layout \in Nat \ {0} /\ Len(file.cells) \in Nat /\ i \in Nat
      BY <1>1, Layout, Lengths
    <2>3. i <= Len(file.cells) \div up.layout
      BY <2>1, <2>2, WholeRow
    <2>4. QED
      BY <2>1, <2>3 DEF WholeRows
  <1>3. QED
    BY <1>1, <1>2

\* kv_disk_append and kv_disk_truncate, whichever calls fail and wherever the
\* process ends: disk_nrec counts rows of the conversation that are in the
\* file, and an append that ran to its end has left none out.
THEOREM DiskFollowsMemory == KSpec => DiskIsMemory
  <1>1. DiskInv /\ DiskInv' /\ [KNext]_kvVars
        => [DiskMatchesMemory' /\ (WriteCount /\ "append" \notin failures => AppendedAll)]_kvVars
    <2> SUFFICES ASSUME DiskInv, DiskInv', [KNext]_kvVars
                 PROVE  DiskMatchesMemory' /\ (WriteCount /\ "append" \notin failures => AppendedAll)
      OBVIOUS
    <2>1. DiskMatchesMemory'
      BY InvMatches, PTL
    <2>2. ASSUME WriteCount, "append" \notin failures
          PROVE  AppendedAll
      <3>1. /\ up # Down /\ pc = "write" /\ cursor >= Len(hist) * up.layout
            /\ file' = [file EXCEPT !.nrec = Len(hist)]
        BY <2>2 DEF WriteCount
      <3>2. file'.cells = file.cells
        BY <3>1 DEF DiskInv, KTypes, Contents
      <3>3. \A v, i : RowAt(file', v, i) = RowAt(file, v, i)
        BY <3>2 DEF RowAt
      <3>4. QED
        BY <2>2, <3>1, <3>3, AllWritten DEF AppendedAll
    <2>3. QED
      BY <2>1, <2>2
  <1>2. QED
    BY <1>1, DiskAlways, PTL DEF KSpec, DiskIsMemory
-----------------------------------------------------------------------------
(***************************************************************************)
(* What is resumed, when the engine is always started with one context and  *)
(* one record layout.  As long as no call fails, a file whose count would   *)
(* be resumed counts rows of one conversation, and the engine agrees with   *)
(* the count; a file that counts more is written over from its first cell,  *)
(* with that count in the header until the rows are there.                  *)
(***************************************************************************)
Engine == CHOOSE e \in Engines : TRUE
OneEngine == Engines = {Engine}

Counts == file.nrec + Reserve < Engine.ctx
OneConversation ==
  \A i \in 1 .. file.nrec :
    /\ i * Engine.layout <= Len(file.cells)
    /\ RowAt(file, Engine.layout, i) = [j \in 1 .. i |-> TokenAt(file, Engine.layout, j)]
Coherent ==
  /\ file.layout = Engine.layout \/ (file = NoFile /\ pc # "write")
  /\ Counts => OneConversation /\ (up # Down => file.nrec = diskN)
  /\ kv = RowsOf(hist)
CoherentInv == failures = {} => Coherent

LEMMA TheEngine ==
  ASSUME OneEngine
  PROVE  /\ Engine \in Engines /\ Engine.layout \in Nat \ {0} /\ Engine.ctx \in Nat
         /\ Engine # Down /\ \A e \in Engines : e = Engine
  <1>1. Engine \in Engines /\ \A e \in Engines : e = Engine
    BY DEF OneEngine
  <1>2. QED
    BY <1>1, EngineSizes

LEMMA Running ==
  ASSUME OneEngine, KTypes, up # Down
  PROVE  up = Engine
  BY TheEngine DEF KTypes

LEMMA RowOfIs ==
  ASSUME NEW tokens \in Seq(Nat), NEW i \in 0 .. Len(tokens)
  PROVE  RowOf(tokens, i) = [j \in 1 .. i |-> tokens[j]]
  <1> DEFINE row == [j \in 1 .. i |-> tokens[j]]
  <1>1. /\ SubSeq(tokens, 1, i) \in Seq(Nat) /\ Len(SubSeq(tokens, 1, i)) = i
        /\ \A j \in 1 .. i : SubSeq(tokens, 1, i)[j] = tokens[j] /\ tokens[j] \in Nat
    BY PrefixAt
  <1>2. i \in Nat
    BY LenProperties
  <1>3. row \in [1 .. i -> Nat] /\ \A j \in 1 .. i : row[j] = tokens[j]
    BY <1>1
  <1> HIDE DEF row
  <1>4. row \in Seq(Nat) /\ Len(row) = i
    BY <1>2, <1>3, FunctionSeq
  <1>5. SubSeq(tokens, 1, i) = row
    BY <1>1, <1>3, <1>4, SeqEqual
  <1>6. QED
    BY <1>5 DEF RowOf, row

\* A cache is sound when each of its rows is.
LEMMA SoundRows ==
  ASSUME NEW tokens \in Seq(Nat), NEW rows \in Seq(Row), Len(rows) = Len(tokens),
         \A i \in 1 .. Len(tokens) : rows[i] = RowOf(tokens, i)
  PROVE  rows = RowsOf(tokens)
  <1>1. Len(tokens) \in Nat
    BY LenProperties
  <1>2. rows = [i \in 1 .. Len(tokens) |-> RowOf(tokens, i)]
    <2>1. rows = [i \in 1 .. Len(rows) |-> rows[i]]
      BY LenProperties
    <2>2. QED
      BY <2>1
  <1>3. QED
    BY <1>2 DEF RowsOf

\* What is saved of a sound cache is one conversation.
LEMMA SavedIsSound ==
  ASSUME KTypes, kv = RowsOf(hist), NEW v \in Nat \ {0}, NEW n \in 0 .. Len(hist),
         \A i \in 1 .. n : RowAt(file, v, i) = kv[i] /\ TokenAt(file, v, i) = hist[i],
         NEW i \in 1 .. n
  PROVE  RowAt(file, v, i) = [j \in 1 .. i |-> TokenAt(file, v, j)]
  <1>1. Len(hist) \in Nat /\ hist \in Seq(Nat)
    BY Lengths DEF KTypes
  <1>2. kv[i] = RowOf(hist, i) /\ i \in 0 .. Len(hist)
    BY <1>1 DEF RowsOf
  <1>3. kv[i] = [j \in 1 .. i |-> hist[j]]
    BY <1>1, <1>2, RowOfIs
  <1>4. \A j \in 1 .. i : hist[j] = TokenAt(file, v, j)
    BY <1>1
  <1>5. QED
    BY <1>3, <1>4

LEMMA CoherentInit == KInit => CoherentInv
  BY DEF KInit, CoherentInv, Coherent, OneConversation, RowsOf, NoFile

LEMMA CoherentBoot ==
  ASSUME OneEngine, DiskInv, CoherentInv, NEW e \in Engines, Boot(e)
  PROVE  CoherentInv'
  <1> SUFFICES ASSUME failures = {} PROVE Coherent'
    BY DEF CoherentInv, Boot
  <1> DEFINE n == Resumable(file, e)
  <1>1. /\ e = Engine /\ up' = e /\ diskN' = n /\ UNCHANGED <<pc, file, failures>> /\ Coherent
    BY TheEngine DEF Boot, CoherentInv
  <1>2. /\ hist' \in Seq(Nat) /\ kv' \in Seq(Row) /\ Len(hist') = n /\ Len(kv') = n
        /\ \A i \in 1 .. n :
             hist'[i] = TokenAt(file, e.layout, i) /\ kv'[i] = RowAt(file, e.layout, i)
    BY BootLoads
  <1>3. /\ n \in Nat /\ \A i \in 1 .. n : i * e.layout <= Len(file.cells)
        /\ n # 0 => file.layout = e.layout /\ Counts /\ n <= file.nrec
    BY <1>1, ResumableIs DEF DiskInv, Counts
  <1>4. file.nrec \in Nat /\ Reserve \in Nat /\ e.ctx \in Nat /\ e.layout \in Nat \ {0}
        /\ Len(file.cells) \in Nat
    BY EngineSizes, KVFileAssumption, Lengths DEF DiskInv, KTypes, Contents
  <1>5. ASSUME Counts PROVE file.nrec = n
    <2>1. CASE file = NoFile
      <3>1. file.nrec = 0 /\ file.layout # e.layout
        BY <1>4, <2>1 DEF NoFile
      <3>2. QED
        BY <3>1 DEF Resumable
    <2>2. CASE file # NoFile /\ file.nrec = 0
      BY <1>3, <1>4, <2>2
    <2>3. CASE file # NoFile /\ file.nrec # 0
      <3>1. file.layout = e.layout /\ ~(file.nrec + Reserve >= e.ctx)
        BY <1>1, <1>4, <1>5, <2>3 DEF Coherent, Counts
      <3>2. file.nrec * e.layout <= Len(file.cells)
        <4>1. file.nrec \in 1 .. file.nrec
          BY <1>4, <2>3
        <4>2. QED
          BY <1>1, <1>5, <4>1 DEF Coherent, OneConversation
      <3>3. file.nrec <= Len(file.cells) \div e.layout
        BY <1>4, <3>2, WholeRow
      <3>4. QED
        BY <3>1, <3>3 DEF Resumable, WholeRows
    <2>4. QED
      BY <2>1, <2>2, <2>3
  <1>6. ASSUME NEW i \in 1 .. n PROVE kv'[i] = RowOf(hist', i)
    <2>1. Counts /\ i \in 1 .. file.nrec /\ i \in 0 .. n
      BY <1>3, <1>4
    <2>2. kv'[i] = [j \in 1 .. i |-> TokenAt(file, e.layout, j)]
      BY <1>1, <1>2, <2>1 DEF Coherent, OneConversation
    <2>3. \A j \in 1 .. i : hist'[j] = TokenAt(file, e.layout, j)
      BY <1>2, <1>3
    <2> HIDE DEF n
    <2>4. RowOf(hist', i) = [j \in 1 .. i |-> hist'[j]]
      BY <1>2, <2>1, RowOfIs
    <2>5. QED
      BY <2>2, <2>3, <2>4
  <1>7. kv' = RowsOf(hist')
    BY <1>2, <1>6, SoundRows
  <1>8. Counts' = Counts /\ OneConversation' = OneConversation
    BY <1>1 DEF Counts, OneConversation, RowAt, TokenAt
  <1>9. QED
    BY <1>1, <1>5, <1>7, <1>8 DEF Coherent

LEMMA CoherentTurn ==
  ASSUME OneEngine, DiskInv, CoherentInv, NEW k \in 1 .. up.ctx, NEW tokens \in [1 .. k -> Tokens],
         NEW n \in 1 .. k, Turn(tokens, n)
  PROVE  CoherentInv'
  <1> SUFFICES ASSUME failures' = {} PROVE Coherent'
    BY DEF CoherentInv
  <1>1. KTypes /\ up # Down /\ pc = "idle" /\ pc' = "append" /\ UNCHANGED up /\ up = Engine
    BY Running DEF DiskInv, Turn
  <1>2. PICK p \in 0 .. n :
           /\ p <= Len(hist) /\ tokens \in Seq(Nat) /\ Len(tokens) = k
           /\ IF p < Len(hist) THEN Truncated(p) ELSE UNCHANGED <<diskN, file, failures>>
           /\ hist' = tokens
           /\ kv' \in Seq(Row) /\ Len(kv') = k
           /\ \A i \in 1 .. p : kv'[i] = kv[i] /\ tokens[i] = hist[i]
           /\ \A i \in p + 1 .. k : kv'[i] = RowOf(tokens, i)
    BY <1>1, TurnRows
  <1>3. p \in Nat /\ p <= k /\ k \in Nat /\ Len(hist) \in Nat /\ hist \in Seq(Nat)
    BY <1>1, <1>2, Lengths DEF KTypes
  <1>4. failures = {} /\ Coherent
    BY <1>1, <1>2, <1>3, TruncatedIs DEF CoherentInv
  <1>5. Saved /\ diskN = Len(hist)
    BY <1>1, <1>4 DEF DiskInv, InFile
  <1>6. kv' = RowsOf(hist')
    <2>1. ASSUME NEW i \in 1 .. p PROVE kv'[i] = RowOf(tokens, i)
      <3>1. i \in 0 .. Len(hist) /\ i \in 1 .. Len(hist) /\ i \in 0 .. Len(tokens)
        BY <1>2, <1>3
      <3>2. kv[i] = RowOf(hist, i)
        BY <1>4, <3>1 DEF Coherent, RowsOf
      <3>3. RowOf(hist, i) = [j \in 1 .. i |-> hist[j]] /\ RowOf(tokens, i) = [j \in 1 .. i |-> tokens[j]]
        BY <1>2, <1>3, <3>1, RowOfIs
      <3>4. \A j \in 1 .. i : hist[j] = tokens[j]
        BY SMTT(30), <1>2, <1>3
      <3>5. QED
        BY <1>2, <3>2, <3>3, <3>4
    <2>2. \A i \in 1 .. k : kv'[i] = RowOf(tokens, i)
      BY <1>2, <1>3, <2>1
    <2>3. QED
      BY <1>2, <2>2, SoundRows
  <1>7. CASE p < Len(hist)
    <2>1. /\ Truncated(p) /\ file' \in Contents /\ file'.cells = file.cells /\ file'.layout = file.layout
          /\ \/ file # NoFile /\ diskN' = p /\ file'.nrec = p
             \/ diskN' = 0 /\ file' = file /\ file = NoFile
      BY <1>1, <1>2, <1>3, <1>7, TruncatedIs
    <2>2. CASE file # NoFile /\ diskN' = p /\ file'.nrec = p
      <3>1. \A i \in 1 .. p :
              /\ i * up.layout <= Len(file.cells)
              /\ RowAt(file, up.layout, i) = kv[i] /\ TokenAt(file, up.layout, i) = hist[i]
        BY <1>3, <1>5, <1>7 DEF Saved
      <3>2. up.layout \in Nat \ {0} /\ p \in 0 .. Len(hist)
        BY <1>1, <1>3, <1>7, Layout
      <3>3. \A i \in 1 .. p :
              RowAt(file, up.layout, i) = [j \in 1 .. i |-> TokenAt(file, up.layout, j)]
        BY ZenonT(30), <1>1, <1>4, <3>1, <3>2, SavedIsSound DEF Coherent
      <3>4. \A v, i : RowAt(file', v, i) = RowAt(file, v, i) /\ TokenAt(file', v, i) = TokenAt(file, v, i)
        BY <2>1 DEF RowAt, TokenAt
      <3>5. OneConversation'
        BY <1>1, <2>1, <2>2, <3>1, <3>3, <3>4 DEF OneConversation
      <3>6. file'.layout = Engine.layout
        BY <1>4, <2>1, <2>2 DEF Coherent
      <3>7. QED
        BY <1>1, <1>6, <2>2, <3>5, <3>6 DEF Coherent
    <2>3. CASE diskN' = 0 /\ file' = file /\ file = NoFile
      <3>1. file'.nrec = 0 /\ file' = NoFile
        BY <2>3 DEF NoFile
      <3>2. OneConversation'
        BY <3>1 DEF OneConversation
      <3>3. QED
        BY <1>1, <1>6, <2>3, <3>1, <3>2 DEF Coherent
    <2>4. QED
      BY <2>1, <2>2, <2>3
  <1>8. CASE ~(p < Len(hist))
    <2>1. UNCHANGED <<diskN, file, failures, up>>
      BY <1>1, <1>2, <1>8
    <2>2. Counts' = Counts /\ OneConversation' = OneConversation
      BY <2>1 DEF Counts, OneConversation, RowAt, TokenAt
    <2>3. QED
      BY <1>1, <1>4, <1>6, <2>1, <2>2 DEF Coherent
  <1>9. QED
    BY <1>7, <1>8

LEMMA CoherentReset ==
  ASSUME DiskInv, CoherentInv, Reset
  PROVE  CoherentInv'
  <1> SUFFICES ASSUME failures' = {} PROVE Coherent'
    BY DEF CoherentInv
  <1>1. KTypes /\ Truncated(0) /\ hist' = <<>> /\ kv' = <<>> /\ pc' = "idle"
    BY DEF DiskInv, Reset
  <1>2. /\ diskN' \in {0, 0} /\ file'.layout = file.layout
        /\ \/ file # NoFile /\ diskN' = 0 /\ file'.nrec = 0
           \/ diskN' = 0 /\ file' = file /\ (file = NoFile \/ failures' # {})
        /\ failures \subseteq failures'
    <2>1. 0 \in Nat
      OBVIOUS
    <2>2. QED
      BY <1>1, <2>1, TruncatedIs
  <1>3. file'.nrec = 0
    BY <1>2 DEF NoFile
  <1>4. OneConversation'
    BY <1>3 DEF OneConversation
  <1>5. file'.layout = Engine.layout \/ (file' = NoFile /\ pc' # "write")
    BY <1>1, <1>2 DEF CoherentInv, Coherent
  <1>6. kv' = RowsOf(hist')
    BY <1>1 DEF RowsOf
  <1>7. QED
    BY <1>2, <1>3, <1>4, <1>5, <1>6 DEF Coherent

LEMMA CoherentOpened ==
  ASSUME OneEngine, KTypes, up # Down
  PROVE  /\ Opened.nrec = file.nrec /\ Opened.cells = file.cells
         /\ file = NoFile \/ file.layout = Engine.layout => Opened.layout = Engine.layout
  <1>1. up = Engine /\ Opened.cells = file.cells
    BY Running, OpenedIs
  <1>2. QED
    BY <1>1 DEF Opened, NewFile, NoFile

LEMMA SameConversation ==
  ASSUME Coherent, file'.nrec = file.nrec, file'.cells = file.cells,
         file'.layout = Engine.layout \/ (file' = NoFile /\ pc' # "write"), UNCHANGED <<up, hist, kv, diskN>>
  PROVE  Coherent'
  <1>1. Counts' = Counts
    BY DEF Counts
  <1>2. \A v, i : RowAt(file', v, i) = RowAt(file, v, i) /\ TokenAt(file', v, i) = TokenAt(file, v, i)
    BY DEF RowAt, TokenAt
  <1>3. OneConversation' = OneConversation
    BY <1>2 DEF OneConversation
  <1>4. QED
    BY <1>1, <1>3 DEF Coherent

LEMMA CoherentAppend ==
  ASSUME OneEngine, DiskInv, CoherentInv, AppendSkipped \/ AppendBegin
  PROVE  CoherentInv'
  <1> SUFFICES ASSUME failures' = {} PROVE Coherent'
    BY DEF CoherentInv
  <1>1. KTypes /\ up # Down /\ UNCHANGED <<up, hist, kv, diskN>>
    BY DEF DiskInv, AppendSkipped, AppendBegin
  <1>2. failures = {} /\ ((UNCHANGED file /\ pc' = "idle") \/ file' = Opened)
    BY DEF AppendSkipped, AppendBegin, Fails
  <1>3. Coherent
    BY <1>2 DEF CoherentInv
  <1>4. CASE UNCHANGED file /\ pc' = "idle"
    BY <1>1, <1>3, <1>4, SameConversation DEF Coherent
  <1>5. CASE file' = Opened
    <2>1. /\ file'.nrec = file.nrec /\ file'.cells = file.cells
          /\ file'.layout = Engine.layout
      BY <1>1, <1>3, <1>5, CoherentOpened DEF Coherent
    <2>2. QED
      <3>1. file'.layout = Engine.layout \/ (file' = NoFile /\ pc' # "write")
        BY <2>1
      <3>2. file'.nrec = file.nrec /\ file'.cells = file.cells
        BY <2>1
      <3>3. up' = up /\ hist' = hist /\ kv' = kv /\ diskN' = diskN
        BY <1>1
      <3>4. QED
        BY <1>3, <3>1, <3>2, <3>3, SameConversation
  <1>6. QED
    BY <1>2, <1>4, <1>5

\* A cell past those that count leaves the records that count.
LEMMA CoherentWriteCell ==
  ASSUME OneEngine, DiskInv, CoherentInv, WriteCell
  PROVE  CoherentInv'
  <1> SUFFICES ASSUME failures = {} PROVE Coherent'
    BY DEF CoherentInv, WriteCell
  <1> DEFINE v == up.layout
             p == cursor \div v + 1
             piece == (cursor % v) + 1
             cell == Cell(kv[p], hist[p], piece, v)
  <1>1. /\ KTypes /\ up # Down /\ pc = "write" /\ cursor < Len(hist) * v
        /\ UNCHANGED <<up, hist, kv, diskN, pc, failures>>
        /\ file' = Written(file, cursor, cell) /\ up = Engine /\ Coherent
    BY Running DEF DiskInv, WriteCell, CoherentInv
  <1>2. /\ v \in Nat \ {0} /\ diskN \in Nat /\ Len(hist) \in Nat
        /\ Len(file.cells) \in Nat /\ cursor \in Nat /\ file \in Contents /\ v = Engine.layout
    BY <1>1, Layout, Lengths DEF KTypes
  <1>3. p \in 1 .. Len(hist) /\ piece \in 1 .. v
    BY <1>1, <1>2, OffsetInRows
  <1>4. cell \in Cells
    <2>1. kv[p] \in Row /\ hist[p] \in Nat
      BY <1>1, <1>3, Lengths
    <2> HIDE DEF p, piece, v
    <2>2. QED
      BY <1>2, <1>3, <2>1 DEF Cell, Cells
  <1> HIDE DEF p, piece, cell
  <1>5. /\ file' \in Contents /\ file'.nrec = file.nrec /\ file'.layout = file.layout
        /\ Len(file'.cells) = IF cursor < Len(file.cells) THEN Len(file.cells) ELSE cursor + 1
        /\ \A q \in 1 .. Len(file.cells) : q # cursor + 1 => file'.cells[q] = file.cells[q]
    BY ZenonT(30), <1>1, <1>2, <1>4, Writes
  <1>6. diskN * v <= cursor
    BY <1>1 DEF DiskInv, InFile, CellsWritten
  <1> HIDE DEF v
  <1>7. ASSUME Counts
        PROVE  OneConversation' /\ file.nrec = diskN
    <2>1. OneConversation /\ file.nrec = diskN
      BY <1>1, <1>7 DEF Coherent
    <2>2. ASSUME NEW i \in 1 .. diskN
          PROVE  /\ i * v <= Len(file'.cells)
                 /\ RowAt(file', v, i) = RowAt(file, v, i) /\ TokenAt(file', v, i) = TokenAt(file, v, i)
      <3>1. i \in Nat \ {0} /\ i <= diskN
        BY <1>2
      <3>2. i * v <= diskN * v /\ i * v \in Nat /\ diskN * v \in Nat
        BY <1>2, <3>1, RowsInOrder
      <3>3. i * v <= Len(file.cells)
        BY <1>2, <2>1 DEF OneConversation
      <3>4. i * v <= Len(file'.cells)
        BY <1>2, <1>5, <3>2, <3>3
      <3>5. FirstCell(v, i) \in Nat \ {0} /\ i * v = FirstCell(v, i) + v - 1
        BY <1>2, <3>1, FirstAndLast
      <3>6. \A j \in 1 .. v : file'.cells[FirstCell(v, i) + j - 1] = file.cells[FirstCell(v, i) + j - 1]
        <4> SUFFICES ASSUME NEW j \in 1 .. v
                     PROVE  file'.cells[FirstCell(v, i) + j - 1] = file.cells[FirstCell(v, i) + j - 1]
          OBVIOUS
        <4>1. FirstCell(v, i) + j - 1 \in 1 .. Len(file.cells) /\ FirstCell(v, i) + j - 1 # cursor + 1
          <5> DEFINE last == i * v
                     place == FirstCell(v, i) + j - 1
          <5>1. last <= cursor /\ last <= Len(file.cells) /\ last \in Nat
            BY <1>2, <1>6, <3>2, <3>3
          <5>2. place <= last /\ 1 <= place /\ place \in Nat
            BY SMTT(30), <1>2, <3>5
          <5> HIDE DEF last, place
          <5>3. place \in 1 .. Len(file.cells) /\ place # cursor + 1
            BY <1>2, <5>1, <5>2
          <5>4. QED
            BY <5>3 DEF place
        <4>2. QED
          BY <1>5, <4>1
      <3>7. QED
        BY <1>2, <1>5, <3>1, <3>3, <3>4, <3>6, SameRecord
    <2>3. ASSUME NEW i \in 1 .. diskN
          PROVE  RowAt(file', v, i) = [j \in 1 .. i |-> TokenAt(file', v, j)]
      <3>1. RowAt(file, v, i) = [j \in 1 .. i |-> TokenAt(file, v, j)]
        BY <1>2, <2>1 DEF OneConversation
      <3>2. \A j \in 1 .. i : TokenAt(file', v, j) = TokenAt(file, v, j)
        BY <1>2, <2>2
      <3>3. QED
        BY <2>2, <3>1, <3>2
    <2>4. QED
      BY <1>2, <1>5, <2>1, <2>2, <2>3 DEF OneConversation
  <1>8. Counts' = Counts
    BY <1>5 DEF Counts
  <1>9. file'.layout = Engine.layout
    BY <1>1, <1>5 DEF Coherent
  <1>10. QED
    BY <1>1, <1>5, <1>7, <1>8, <1>9 DEF Coherent

LEMMA CoherentWriteCount ==
  ASSUME OneEngine, DiskInv, CoherentInv, WriteCount
  PROVE  CoherentInv'
  <1> SUFFICES ASSUME failures = {} PROVE Coherent'
    BY DEF CoherentInv, WriteCount
  <1>1. /\ KTypes /\ up # Down /\ pc = "write" /\ cursor >= Len(hist) * up.layout
        /\ file' = [file EXCEPT !.nrec = Len(hist)] /\ diskN' = Len(hist) /\ pc' = "idle"
        /\ UNCHANGED <<up, hist, kv, failures>> /\ up = Engine /\ Coherent
    BY Running DEF DiskInv, WriteCount, CoherentInv
  <1>2. file'.cells = file.cells /\ file'.nrec = Len(hist) /\ file'.layout = file.layout
    BY <1>1 DEF KTypes, Contents
  <1>3. \A i \in 1 .. Len(hist) :
          /\ i * up.layout <= Len(file.cells)
          /\ RowAt(file, up.layout, i) = kv[i] /\ TokenAt(file, up.layout, i) = hist[i]
    BY <1>1, AllWritten
  <1>4. up.layout \in Nat \ {0} /\ Len(hist) \in 0 .. Len(hist)
    BY <1>1, Layout, Lengths
  <1>5. \A i \in 1 .. Len(hist) :
          RowAt(file, up.layout, i) = [j \in 1 .. i |-> TokenAt(file, up.layout, j)]
    BY <1>1, <1>3, <1>4, SavedIsSound DEF Coherent
  <1>6. \A v, i : RowAt(file', v, i) = RowAt(file, v, i) /\ TokenAt(file', v, i) = TokenAt(file, v, i)
    BY <1>2 DEF RowAt, TokenAt
  <1>7. OneConversation'
    BY <1>1, <1>2, <1>3, <1>5, <1>6 DEF OneConversation
  <1>8. QED
    BY <1>1, <1>2, <1>7 DEF Coherent

LEMMA CoherentCrash ==
  ASSUME CoherentInv, Crash
  PROVE  CoherentInv'
  <1> SUFFICES ASSUME failures = {} PROVE Coherent'
    BY DEF CoherentInv, Crash
  <1>1. Coherent /\ UNCHANGED file /\ up' = Down /\ hist' = <<>> /\ kv' = <<>> /\ pc' = "idle"
    BY DEF CoherentInv, Crash
  <1>2. Counts' = Counts /\ OneConversation' = OneConversation
    BY <1>1 DEF Counts, OneConversation, RowAt, TokenAt
  <1>3. kv' = RowsOf(hist')
    BY <1>1 DEF RowsOf
  <1>4. QED
    BY <1>1, <1>2, <1>3 DEF Coherent

LEMMA CoherentStutter ==
  ASSUME CoherentInv, UNCHANGED kvVars
  PROVE  CoherentInv'
  <1>1. UNCHANGED <<up, hist, kv, diskN, pc, cursor, file, failures>>
    BY DEF kvVars
  <1>2. Coherent' = Coherent
    BY <1>1 DEF Coherent, Counts, OneConversation, RowAt, TokenAt
  <1>3. QED
    BY <1>1, <1>2 DEF CoherentInv

LEMMA CoherentStep ==
  ASSUME OneEngine
  PROVE  DiskInv /\ CoherentInv /\ [KNext]_kvVars => CoherentInv'
  <1> SUFFICES ASSUME DiskInv, CoherentInv, [KNext]_kvVars PROVE CoherentInv'
    OBVIOUS
  <1>1. ASSUME NEW e \in Engines, Boot(e) PROVE CoherentInv'
    BY <1>1, CoherentBoot
  <1>2. ASSUME NEW k \in 1 .. up.ctx, NEW tokens \in [1 .. k -> Tokens], NEW n \in 1 .. k,
               Turn(tokens, n)
        PROVE  CoherentInv'
    BY <1>2, CoherentTurn
  <1>3. QED
    BY <1>1, <1>2, CoherentReset, CoherentAppend, CoherentWriteCell, CoherentWriteCount,
       CoherentCrash, CoherentStutter DEF KNext

\* docs/ENVIRONMENT.md:27, "lossless round-trip": wherever the process ends, what
\* kv_disk_load resumes is the rows of the tokens it resumes, when the engine is
\* started as it was before and no call failed.
THEOREM ResumesWhatWas ==
  ASSUME OneEngine
  PROVE  KSpec => []ResumeCoherent
  <1>1. CoherentInv => ResumeCoherent
    BY DEF CoherentInv, Coherent, ResumeCoherent
  <1>2. DiskInv /\ CoherentInv /\ [KNext]_kvVars => CoherentInv'
    BY CoherentStep
  <1>3. QED
    BY <1>1, <1>2, CoherentInit, DiskAlways, PTL DEF KSpec
(***************************************************************************)
(* The model library: conversions.                                          *)
(***************************************************************************)
ConversionPCs == {"none", "inspect", "layout", "payload", "rename", "validate", "smoke",
                  "replace", "record", "finish"}
Container == [by : Nat, payload : SUBSET Tensors, tail : BOOLEAN]

ConversionTypes ==
  /\ conversion \in [status : {"idle", "converting", "cancelled", "error", "done"},
                     stop : BOOLEAN, pc : ConversionPCs, id : Nat, over : BOOLEAN]
  /\ writers \in [todo : SUBSET Tensors, busy : SUBSET Tensors, failed : BOOLEAN]
  /\ partial \in Container /\ staged \in Container /\ output \in Container

\* Writers write only the file of the conversion under way, before its tail; what
\* they have not written they have before them, unless one has failed.
PoolWrites ==
  /\ writers.todo # {} \/ writers.busy # {} => conversion.pc = "payload"
  /\ conversion.pc = "payload" =>
       /\ partial.by = conversion.id /\ ~partial.tail
       /\ ~writers.failed => Tensors = partial.payload \union writers.todo \union writers.busy

\* From there on the file is whole, whichever name it has.
WholeOf(container) == Whole(container) /\ container.by = conversion.id
StagesWhole ==
  /\ conversion.pc = "rename" => WholeOf(partial)
  /\ conversion.pc \in {"validate", "smoke", "replace"} => WholeOf(staged)
  /\ conversion.pc \in {"record", "finish"} => output.by \in {0, conversion.id}
  /\ conversion.pc = "finish" => record = conversion.id

ConversionInv ==
  /\ ConversionTypes /\ PoolWrites /\ StagesWhole
  /\ conversion.pc # "none" <=> conversion.status = "converting"

LEMMA ConversionStarts == ConversionInit => ConversionInv
  BY DEF ConversionInit, ConversionInv, ConversionTypes, PoolWrites, StagesWhole, Container,
         ConversionPCs, NoContainer, NoWriters

\* A conversion that gives up has no writers left and keeps what was published.
LEMMA GivenUp ==
  ASSUME ConversionInv, Fail, conversion.pc # "none", writers.todo = {}, writers.busy = {},
         UNCHANGED writers, partial' \in Container, staged' \in Container
  PROVE  ConversionInv'
  <1>1. /\ conversion' \in [status : {"idle", "converting", "cancelled", "error", "done"},
                            stop : BOOLEAN, pc : ConversionPCs, id : Nat, over : BOOLEAN]
        /\ conversion'.pc = "none" /\ conversion'.status \in {"cancelled", "error"}
    BY DEF Fail, ConversionInv, ConversionTypes, ConversionPCs
  <1>2. QED
    BY <1>1 DEF Fail, ConversionInv, ConversionTypes, PoolWrites, StagesWhole

LEMMA NoContainerIs == NoContainer \in Container
  BY DEF NoContainer, Container

\* The thread goes on to another of its places.
LEMMA GoneOn ==
  ASSUME ConversionTypes, NEW place \in ConversionPCs, To(place)
  PROVE  /\ conversion' \in [status : {"idle", "converting", "cancelled", "error", "done"},
                             stop : BOOLEAN, pc : ConversionPCs, id : Nat, over : BOOLEAN]
         /\ conversion'.pc = place /\ conversion'.id = conversion.id
         /\ conversion'.status = conversion.status
  BY DEF To, ConversionTypes

LEMMA PreparesInv ==
  ASSUME ConversionInv, Inspect \/ LayOut
  PROVE  ConversionInv'
  <1>1. CASE Inspect
    <2>1. CASE Fail /\ UNCHANGED staged
      BY <1>1, <2>1, GivenUp DEF Inspect, At, ConversionInv, ConversionTypes, PoolWrites
    <2>2. CASE To("layout") /\ staged' = NoContainer /\ UNCHANGED <<output, record>>
      <3>1. UNCHANGED <<writers, partial>> /\ conversion.pc = "inspect"
        BY <1>1 DEF Inspect, At
      <3>2. QED
        BY <2>2, <3>1, GoneOn, NoContainerIs
           DEF ConversionInv, ConversionTypes, PoolWrites, StagesWhole, ConversionPCs
    <2>3. QED
      BY <1>1, <2>1, <2>2 DEF Inspect
  <1>2. CASE LayOut
    <2>1. CASE Fail /\ Dropped /\ partial' = NoContainer /\ UNCHANGED writers
      BY <1>2, <2>1, GivenUp, NoContainerIs
         DEF LayOut, At, Dropped, ConversionInv, ConversionTypes, PoolWrites
    <2>2. CASE /\ partial' = [NoContainer EXCEPT !.by = conversion.id]
               /\ writers' = [NoWriters EXCEPT !.todo = Tensors]
               /\ To("payload") /\ UNCHANGED <<staged, output, record>>
      <3>1. conversion.pc = "layout"
        BY <1>2 DEF LayOut, At
      <3>2. /\ partial' \in Container /\ partial'.by = conversion.id /\ ~partial'.tail
            /\ writers' \in [todo : SUBSET Tensors, busy : SUBSET Tensors, failed : BOOLEAN]
            /\ writers'.todo = Tensors /\ writers'.busy = {} /\ partial'.payload = {}
        BY <2>2 DEF NoContainer, NoWriters, Container, ConversionInv, ConversionTypes
      <3>3. QED
        BY <2>2, <3>1, <3>2, GoneOn
           DEF ConversionInv, ConversionTypes, PoolWrites, StagesWhole, ConversionPCs
    <2>3. QED
      BY <1>2, <2>1, <2>2 DEF LayOut
  <1>3. QED
    BY <1>1, <1>2

LEMMA WritersInv ==
  ASSUME ConversionInv, NEW t \in Tensors, TakeTensor(t) \/ WriteTensor(t)
  PROVE  ConversionInv'
  <1>1. UNCHANGED <<conversion, staged, output, record>> /\ conversion.pc = "payload"
    BY DEF TakeTensor, WriteTensor, At, qwnFiles, ConversionInv, PoolWrites
  <1>2. CASE TakeTensor(t)
    <2>1. /\ writers' \in [todo : SUBSET Tensors, busy : SUBSET Tensors, failed : BOOLEAN]
          /\ writers'.todo = writers.todo \ {t} /\ writers'.busy = writers.busy \union {t}
          /\ writers'.failed = writers.failed /\ UNCHANGED partial
      BY <1>2 DEF TakeTensor, ConversionInv, ConversionTypes, qwnFiles
    <2>2. QED
      BY <1>1, <2>1 DEF ConversionInv, ConversionTypes, PoolWrites, StagesWhole
  <1>3. CASE /\ partial' = [partial EXCEPT !.payload = @ \union {t}]
             /\ writers' = [writers EXCEPT !.busy = @ \ {t}]
    <2>1. /\ writers' \in [todo : SUBSET Tensors, busy : SUBSET Tensors, failed : BOOLEAN]
          /\ writers'.todo = writers.todo /\ writers'.busy = writers.busy \ {t}
          /\ writers'.failed = writers.failed
      BY <1>3 DEF ConversionInv, ConversionTypes
    <2>2. /\ partial' \in Container /\ partial'.by = partial.by
          /\ partial'.tail = partial.tail /\ partial'.payload = partial.payload \union {t}
      BY <1>3 DEF ConversionInv, ConversionTypes, Container
    <2>3. QED
      BY <1>1, <2>1, <2>2 DEF ConversionInv, ConversionTypes, PoolWrites, StagesWhole
  <1>4. CASE /\ \E waiting \in {{}, writers.todo} :
                  writers' = [todo |-> waiting, busy |-> writers.busy \ {t}, failed |-> TRUE]
             /\ UNCHANGED partial
    <2>1. /\ writers' \in [todo : SUBSET Tensors, busy : SUBSET Tensors, failed : BOOLEAN]
          /\ writers'.failed
      BY <1>4 DEF ConversionInv, ConversionTypes
    <2>2. QED
      BY <1>1, <1>4, <2>1 DEF ConversionInv, ConversionTypes, PoolWrites, StagesWhole
  <1>5. QED
    BY <1>2, <1>3, <1>4 DEF WriteTensor

\* The tail is written when every payload is.
LEMMA TailInv ==
  ASSUME ConversionInv, WriteTail
  PROVE  ConversionInv'
  <1>1. /\ conversion.pc = "payload" /\ writers.todo = {} /\ writers.busy = {}
        /\ UNCHANGED writers
    BY DEF WriteTail, At
  <1>2. CASE writers.failed
    BY <1>1, <1>2, GivenUp, NoContainerIs DEF WriteTail, Dropped
  <1>3. CASE ~writers.failed
    <2>1. /\ partial' = [partial EXCEPT !.tail = TRUE] /\ To("rename")
          /\ UNCHANGED <<staged, output, record>>
      BY <1>3 DEF WriteTail
    <2>2. /\ partial' \in Container /\ partial'.by = conversion.id
          /\ partial'.tail /\ partial'.payload = Tensors
      BY <1>1, <1>3, <2>1 DEF ConversionInv, ConversionTypes, PoolWrites, Container
    <2>3. conversion'.pc = "rename" /\ conversion'.id = conversion.id
      BY <2>1, GoneOn DEF ConversionInv, ConversionPCs
    <2>4. StagesWhole'
      BY <2>2, <2>3 DEF StagesWhole, WholeOf, Whole
    <2>5. QED
      BY <1>1, <2>1, <2>2, <2>3, <2>4, GoneOn
         DEF ConversionInv, ConversionTypes, PoolWrites, ConversionPCs
  <1>4. QED
    BY <1>2, <1>3

LEMMA PublishesInv ==
  ASSUME ConversionInv,
         RenamePartial \/ Validate \/ SmokeTest \/ Replace \/ WriteManifest \/ Finished
  PROVE  ConversionInv'
  <1>1. /\ conversion.pc \in {"rename", "validate", "smoke", "replace", "record", "finish"}
        /\ writers.todo = {} /\ writers.busy = {} /\ UNCHANGED writers
    BY DEF RenamePartial, Validate, SmokeTest, Replace, WriteManifest, Finished, At,
           ConversionInv, PoolWrites
  <1>2. CASE Fail /\ UNCHANGED partial /\ (Dropped \/ UNCHANGED staged)
    BY <1>1, <1>2, GivenUp, NoContainerIs DEF Dropped, ConversionInv, ConversionTypes
  <1>3. CASE RenamePartial
    <2>1. /\ WholeOf(partial) /\ staged' = partial /\ partial' = NoContainer /\ To("validate")
          /\ UNCHANGED <<output, record>>
      BY <1>3 DEF RenamePartial, At, ConversionInv, StagesWhole
    <2>2. conversion'.pc = "validate" /\ conversion'.id = conversion.id
      BY <2>1, GoneOn DEF ConversionInv, ConversionPCs
    <2>3. StagesWhole'
      BY <2>1, <2>2 DEF StagesWhole, WholeOf, Whole
    <2>4. QED
      BY <1>1, <2>1, <2>2, <2>3, GoneOn, NoContainerIs
         DEF ConversionInv, ConversionTypes, PoolWrites, ConversionPCs
  <1>4. CASE /\ UNCHANGED <<partial, staged, output, record>>
             /\ \/ conversion.pc = "validate" /\ To("smoke")
                \/ conversion.pc = "smoke" /\ To("replace")
    <2>1. conversion'.pc \in {"smoke", "replace"} /\ conversion'.id = conversion.id
      BY <1>4, GoneOn DEF ConversionInv, ConversionPCs
    <2>2. StagesWhole'
      BY <1>4, <2>1 DEF ConversionInv, StagesWhole, WholeOf, Whole
    <2>3. QED
      BY <1>1, <1>4, <2>1, <2>2, GoneOn DEF ConversionInv, ConversionTypes, PoolWrites, ConversionPCs
  <1>5. CASE /\ conversion.pc = "replace" /\ output' = staged /\ staged' = NoContainer
             /\ To("record") /\ UNCHANGED <<partial, record>>
    <2>1. conversion'.pc = "record" /\ conversion'.id = conversion.id
      BY <1>5, GoneOn DEF ConversionInv, ConversionPCs
    <2>2. StagesWhole'
      BY <1>5, <2>1 DEF ConversionInv, StagesWhole, WholeOf
    <2>3. QED
      BY <1>1, <1>5, <2>1, <2>2, GoneOn, NoContainerIs
         DEF ConversionInv, ConversionTypes, PoolWrites, ConversionPCs
  <1>6. CASE /\ conversion.pc = "record" /\ record' = conversion.id /\ To("finish")
             /\ UNCHANGED <<partial, staged, output>>
    <2>1. conversion'.pc = "finish" /\ conversion'.id = conversion.id
      BY <1>6, GoneOn DEF ConversionInv, ConversionPCs
    <2>2. QED
      BY <1>1, <1>6, <2>1, GoneOn
         DEF ConversionInv, ConversionTypes, PoolWrites, ConversionPCs, StagesWhole
  <1>7. CASE /\ conversion' = [conversion EXCEPT !.pc = "none", !.status = "done"]
             /\ UNCHANGED <<partial, staged, output, record>>
    <2>1. /\ conversion' \in [status : {"idle", "converting", "cancelled", "error", "done"},
                              stop : BOOLEAN, pc : ConversionPCs, id : Nat, over : BOOLEAN]
          /\ conversion'.pc = "none" /\ conversion'.status = "done"
      BY <1>7 DEF ConversionInv, ConversionTypes, ConversionPCs
    <2>2. QED
      BY <1>1, <1>7, <2>1 DEF ConversionInv, ConversionTypes, PoolWrites, StagesWhole
  <1>8. QED
    BY <1>2, <1>3, <1>4, <1>5, <1>6, <1>7
       DEF Validate, SmokeTest, Replace, WriteManifest, Finished, At

LEMMA ClientsInv ==
  ASSUME ConversionInv,
         \/ \E over \in BOOLEAN : StartConversion(over)
         \/ CancelConversion \/ ConversionLost \/ DeleteOutput
  PROVE  ConversionInv'
  <1>1. ASSUME NEW over \in BOOLEAN, StartConversion(over) PROVE ConversionInv'
    <2>1. /\ conversion' \in [status : {"idle", "converting", "cancelled", "error", "done"},
                              stop : BOOLEAN, pc : ConversionPCs, id : Nat, over : BOOLEAN]
          /\ conversion'.pc = "inspect" /\ conversion'.status = "converting"
          /\ conversion.status # "converting" /\ UNCHANGED <<writers, qwnFiles>>
      BY <1>1 DEF StartConversion, ConversionInv, ConversionTypes, ConversionPCs
    <2>2. QED
      BY <2>1 DEF ConversionInv, ConversionTypes, PoolWrites, StagesWhole, qwnFiles
  <1>2. CASE CancelConversion
    <2>1. /\ conversion' \in [status : {"idle", "converting", "cancelled", "error", "done"},
                              stop : BOOLEAN, pc : ConversionPCs, id : Nat, over : BOOLEAN]
          /\ conversion'.pc = conversion.pc /\ conversion'.status = conversion.status
          /\ conversion'.id = conversion.id /\ UNCHANGED <<writers, qwnFiles>>
      BY <1>2 DEF CancelConversion, ConversionInv, ConversionTypes
    <2>2. QED
      BY <2>1 DEF ConversionInv, ConversionTypes, PoolWrites, StagesWhole, qwnFiles, WholeOf, Whole
  <1>3. CASE ConversionLost
    <2>1. /\ conversion' \in [status : {"idle", "converting", "cancelled", "error", "done"},
                              stop : BOOLEAN, pc : ConversionPCs, id : Nat, over : BOOLEAN]
          /\ conversion'.pc = "none" /\ conversion'.status = "idle"
      BY <1>3 DEF ConversionLost, ConversionInv, ConversionTypes, ConversionPCs
    <2>2. UNCHANGED qwnFiles /\ writers' = NoWriters
      BY <1>3 DEF ConversionLost
    <2>3. QED
      BY <2>1, <2>2 DEF ConversionInv, ConversionTypes, PoolWrites, StagesWhole, qwnFiles, NoWriters
  <1>4. CASE DeleteOutput
    <2>1. UNCHANGED <<conversion, writers, partial, staged, record>> /\ output' = NoContainer
      BY <1>4 DEF DeleteOutput
    <2>2. output'.by = 0
      BY <2>1 DEF NoContainer
    <2>3. QED
      BY <2>1, <2>2, NoContainerIs
         DEF ConversionInv, ConversionTypes, PoolWrites, StagesWhole, WholeOf, Whole
  <1>5. QED
    BY <1>1, <1>2, <1>3, <1>4

LEMMA ConversionStep == ConversionInv /\ [ConversionNext]_conversionVars => ConversionInv'
  <1>1. CASE UNCHANGED conversionVars
    BY <1>1 DEF conversionVars, qwnFiles, ConversionInv, ConversionTypes, PoolWrites, StagesWhole,
               WholeOf, Whole
  <1>2. CASE ConversionInv /\ ConversionNext
    BY <1>2, PreparesInv, WritersInv, TailInv, PublishesInv, ClientsInv
       DEF ConversionNext, ConversionWork
  <1>3. QED
    BY <1>1, <1>2

\* What a step of a conversion may do to the output, to the file being written and
\* to the status: ConversionsAreWhole.
WholeStep ==
  /\ output' \notin {output, NoContainer} =>
       Whole(output') /\ output'.by = conversion.id /\ ~conversion.stop
  /\ writers'.busy # {} => partial'.by = conversion'.id /\ ~partial'.tail
  /\ conversion'.status = "done" /\ conversion.status # "done" =>
       record' = conversion.id /\ output'.by \in {0, conversion.id}

LEMMA OnlyReplacePublishes ==
  ASSUME ConversionInv, ConversionNext, output' \notin {output, NoContainer}
  PROVE  Replace /\ ~conversion.stop
  BY DEF ConversionNext, ConversionWork, StartConversion, CancelConversion, ConversionLost,
         DeleteOutput, Inspect, LayOut, WriteTail, RenamePartial, Validate, SmokeTest, Replace,
         WriteManifest, Finished, TakeTensor, WriteTensor, Fail, qwnFiles

LEMMA OnlyFinishedIsDone ==
  ASSUME ConversionInv, ConversionNext, conversion'.status = "done", conversion.status # "done"
  PROVE  conversion.pc = "finish" /\ UNCHANGED <<output, record>>
  <1>1. CASE Finished
    BY <1>1 DEF Finished, At, Fail
  <1>2. ~Fail
    BY DEF Fail, ConversionInv, ConversionTypes
  <1>3. ASSUME NEW place, To(place) PROVE FALSE
    BY <1>3 DEF To, ConversionInv, ConversionTypes
  <1>4. ~ConversionWork \/ Finished
    BY <1>2, <1>3
       DEF ConversionWork, Inspect, LayOut, WriteTail, RenamePartial, Validate, SmokeTest, Replace,
           WriteManifest, TakeTensor, WriteTensor
  <1>5. ~CancelConversion /\ ~ConversionLost /\ ~DeleteOutput
    BY DEF CancelConversion, ConversionLost, DeleteOutput, ConversionInv, ConversionTypes
  <1>6. \A over \in BOOLEAN : ~StartConversion(over)
    BY DEF StartConversion
  <1>7. QED
    BY <1>1, <1>4, <1>5, <1>6 DEF ConversionNext

LEMMA ConversionSteps == ConversionInv /\ [ConversionNext]_conversionVars => [WholeStep]_conversionVars
  <1> SUFFICES ASSUME ConversionInv, ConversionNext PROVE WholeStep
    OBVIOUS
  <1>1. ConversionInv'
    BY ConversionStep
  <1>3. ASSUME writers'.busy # {} PROVE partial'.by = conversion'.id /\ ~partial'.tail
    BY <1>1, <1>3 DEF ConversionInv, PoolWrites
  <1>4. ASSUME conversion'.status = "done", conversion.status # "done"
        PROVE  record' = conversion.id /\ output'.by \in {0, conversion.id}
    BY <1>4, OnlyFinishedIsDone DEF ConversionInv, StagesWhole
  <1>5. output' \notin {output, NoContainer} =>
          Whole(output') /\ output'.by = conversion.id /\ ~conversion.stop
    BY OnlyReplacePublishes DEF Replace, At, ConversionInv, StagesWhole, WholeOf
  <1>6. QED
    BY <1>3, <1>4, <1>5 DEF WholeStep
(***************************************************************************)
(* The model library: downloads.                                            *)
(***************************************************************************)
Chunks == Seq(Nat) \union {Absent}
DownloadPCs == {"none", "next", "open", "transfer", "hash", "publish", "mark"}
Shards == Range(Bundle)
\* A thread that works on File, with it still to be put in place.
Fetching == w.pc \in {"open", "transfer", "hash", "publish"}

Thread(single) ==
  [pc : DownloadPCs, job : {"file", "bundle"}, todo : Seq(Files), done : SUBSET Files,
   over : BOOLEAN, single : {single}, attempt : Nat, of : Nat, pos : Nat, gone : SUBSET Files]

DownloadTypes ==
  /\ version \in Nat
  /\ part \in [Files -> Chunks] /\ target \in [Files -> Chunks]
  /\ w \in Thread(w.single)
  /\ w.pc # "none" <=> Active
  /\ marker # NoMarker => marker \subseteq Shards

\* What a manifest promises of a file.
Promised(manifest, contents) ==
  /\ manifest.hashed => contents = Original
  /\ manifest.sized => Len(contents) = Size
ShardInPlace(f, contents) == contents # Absent => Promised(Manifest(ShardRequests[f]), contents)

\* Where the thread is in its list of files.
Course ==
  /\ w.pc = "next" \/ w.pc = "mark" => w.job = "bundle"
  /\ Fetching \/ w.pc = "mark" => w.todo # <<>>
  /\ w.pc # "none" /\ w.job = "file" => w.todo = <<Single>>
  /\ w.pc # "none" /\ w.job = "bundle" => w.todo \in Seq(Shards) /\ w.done \subseteq Shards
  /\ w.pc = "publish" /\ part[File] # Absent => Promised(ManifestOf(File), part[File])

\* A shard in place is what was promised, and one the thread has passed is in
\* place, unless a client took it away.
InPlace ==
  /\ \A f \in Shards : ShardInPlace(f, target[f])
  /\ w.pc # "none" /\ w.job = "bundle" =>
       \A f \in Shards : f \in Range(w.todo) \/ f \in w.gone \/ target[f] # Absent
  /\ w.pc = "mark" => File \in w.gone \/ target[File] # Absent

\* A shard the marker names is not fetched unless it is not there.
Marked ==
  /\ (Fetching \/ w.pc = "mark") /\ w.job = "bundle" => File \notin w.done
  /\ w.pc # "none" /\ w.job = "bundle" /\ marker # NoMarker =>
       \A f \in marker : \/ f \in w.done
                         \/ Fetching /\ f = File /\ target[f] = Absent
                         \/ w.pc = "mark" /\ f = File

DownloadInv == DownloadTypes /\ Course /\ InPlace /\ Marked
LEMMA ShardsAreFiles ==
  /\ Single \in Files /\ Shards \subseteq Files /\ Single \notin Shards
  /\ Bundle \in Seq(Shards) /\ Range(Bundle) = Shards
  BY DownloadAssumption DEF Files, Shards

LEMMA ShardManifest == \A f \in Shards : ManifestOf(f) = Manifest(ShardRequests[f])
  BY ShardsAreFiles DEF ManifestOf

\* What is left of a list, and what was at its head.
LEMMA RangeOfTail ==
  ASSUME NEW S, NEW s \in Seq(S), s # <<>>
  PROVE  /\ Head(s) \in S /\ Tail(s) \in Seq(S)
         /\ \A x \in Range(s) : x = Head(s) \/ x \in Range(Tail(s))
         /\ Head(s) \in Range(s)
  <1>1. /\ Len(s) \in Nat \ {0} /\ DOMAIN s = 1 .. Len(s) /\ Head(s) = s[1]
        /\ Head(s) \in S
    OBVIOUS
  <1>2. /\ Tail(s) \in Seq(S) /\ DOMAIN Tail(s) = 1 .. Len(s) - 1
        /\ \A i \in 1 .. Len(s) - 1 : Tail(s)[i] = s[i + 1]
    OBVIOUS
  <1>3. ASSUME NEW i \in 1 .. Len(s), i # 1 PROVE s[i] \in Range(Tail(s))
    <2>1. i - 1 \in 1 .. Len(s) - 1 /\ s[i] = Tail(s)[i - 1]
      BY <1>1, <1>2, <1>3
    <2>2. QED
      BY <1>2, <2>1 DEF Range
  <1>4. QED
    BY <1>1, <1>2, <1>3 DEF Range

LEMMA StoppedIs == Stopped \in Thread(Stopped.single) /\ Stopped.pc = "none"
  <1> DEFINE m == Manifest([provider |-> "", sha256 |-> FALSE, expected_size |-> FALSE])
  <1>1. Stopped = [pc |-> "none", job |-> "file", todo |-> <<>>, done |-> {}, over |-> FALSE,
                   single |-> m, attempt |-> 0, of |-> 1, pos |-> 0, gone |-> {}]
    BY DEF Stopped
  <1> HIDE DEF m
  <1>2. /\ <<>> \in Seq(Files) /\ {} \in SUBSET Files /\ 0 \in Nat /\ 1 \in Nat
        /\ "none" \in DownloadPCs
    BY DEF DownloadPCs
  <1>3. Stopped.single = m /\ Stopped.pc = "none"
    BY <1>1
  <1>4. QED
    BY <1>1, <1>2, <1>3 DEF Thread

LEMMA DownloadStarts == DInit => DownloadInv
  <1> SUFFICES ASSUME DInit PROVE DownloadInv
    OBVIOUS
  <1>1. DownloadTypes
    BY StoppedIs DEF DInit, DownloadTypes, Active, Chunks
  <1>2. Course /\ Marked /\ w.pc = "none"
    BY DEF DInit, Course, Marked, Stopped, Fetching
  <1>3. \A f \in Shards : target[f] = Absent
    BY ShardsAreFiles DEF DInit
  <1>4. InPlace
    BY <1>2, <1>3 DEF InPlace, ShardInPlace
  <1>5. QED
    BY <1>1, <1>2, <1>4 DEF DownloadInv

\* A thread that ends leaves files and marker as good as they are.
LEMMA ThreadEnds ==
  ASSUME w' = Stopped, status' \notin {"downloading", "paused"}, version' \in Nat,
         part' \in [Files -> Chunks], target' \in [Files -> Chunks],
         marker' # NoMarker => marker' \subseteq Shards,
         \A f \in Shards : ShardInPlace(f, target'[f])
  PROVE  DownloadInv'
  <1>1. w' \in Thread(w'.single) /\ w'.pc = "none"
    BY StoppedIs
  <1>2. DownloadTypes'
    BY <1>1 DEF DownloadTypes, Active
  <1>3. Course' /\ InPlace' /\ Marked'
    BY <1>1 DEF Course, InPlace, Marked, Fetching
  <1>4. QED
    BY <1>2, <1>3 DEF DownloadInv

LEMMA GivesUpInv ==
  ASSUME DownloadInv, NEW wrong \in BOOLEAN, GivesUp(wrong)
  PROVE  DownloadInv'
  <1>1. part' \in [Files -> Chunks] /\ UNCHANGED <<target, marker, version>>
    BY DEF GivesUp, Ends, DownloadInv, DownloadTypes, Chunks
  <1>2. w' = Stopped /\ status' = "error"
    BY DEF GivesUp, Ends
  <1>3. QED
    BY <1>1, <1>2, ThreadEnds DEF DownloadInv, DownloadTypes, InPlace

\* The thread keeps its file and goes on; only the partial may change.
LEMMA GoesOn ==
  ASSUME DownloadInv, Fetching, UNCHANGED <<version, target, marker, status>>,
         part' \in [Files -> Chunks],
         NEW place \in {"open", "transfer", "hash", "publish"},
         NEW attempt \in Nat, NEW of \in Nat, NEW pos \in Nat,
         w' = [w EXCEPT !.pc = place, !.attempt = attempt, !.of = of, !.pos = pos],
         place = "publish" /\ part'[File] # Absent => Promised(ManifestOf(File), part'[File])
  PROVE  DownloadInv'
  <1>1. /\ w' \in Thread(w'.single)
        /\ w'.pc = place /\ w'.job = w.job /\ w'.todo = w.todo /\ w'.done = w.done
        /\ w'.single = w.single /\ w'.gone = w.gone /\ w.pc # "none"
    BY DEF DownloadInv, DownloadTypes, DownloadPCs, Fetching, Thread
  <1>2. File' = File /\ ManifestOf(File)' = ManifestOf(File)
    BY <1>1 DEF File, ManifestOf
  <1>3. DownloadTypes'
    BY <1>1 DEF DownloadInv, DownloadTypes, Active
  <1>4. Course'
    BY <1>1, <1>2 DEF DownloadInv, Course, Fetching
  <1>5. InPlace' /\ Marked'
    BY <1>1, <1>2 DEF DownloadInv, InPlace, Marked, Fetching
  <1>6. QED
    BY <1>3, <1>4, <1>5 DEF DownloadInv

\* A request to start makes a thread that has everything before it.
LEMMA StartFileInv ==
  ASSUME DownloadInv, NEW request \in Requested, NEW over \in BOOLEAN, StartFile(request, over)
  PROVE  DownloadInv'
  <1> DEFINE m == Manifest(request)
  <1>1. /\ w' = [Stopped EXCEPT !.pc = "open", !.job = "file", !.todo = <<Single>>, !.done = {},
                                !.over = over, !.single = m]
        /\ status' = "downloading" /\ UNCHANGED <<version, disk>>
    BY DEF StartFile, Begin
  <1> HIDE DEF m
  <1>2. <<Single>> \in Seq(Files) /\ <<Single>> # <<>>
    BY ShardsAreFiles
  <1>3. /\ w' \in Thread(w'.single) /\ w'.pc = "open" /\ w'.job = "file"
        /\ w'.todo = <<Single>> /\ w'.done = {}
    BY <1>1, <1>2, StoppedIs DEF Thread, DownloadPCs
  <1>4. DownloadTypes'
    BY <1>1, <1>3 DEF DownloadInv, DownloadTypes, Active, disk
  <1>5. Course' /\ InPlace' /\ Marked'
    BY <1>1, <1>2, <1>3 DEF DownloadInv, Course, InPlace, Marked, Fetching, disk
  <1>6. QED
    BY <1>4, <1>5 DEF DownloadInv

LEMMA StartBundleInv ==
  ASSUME DownloadInv, NEW over \in BOOLEAN, StartBundle(over)
  PROVE  DownloadInv'
  <1> DEFINE completed == IF marker = NoMarker THEN {} ELSE marker
  <1>1. /\ w' = [Stopped EXCEPT !.pc = "next", !.job = "bundle", !.todo = Bundle,
                                !.done = completed, !.over = over, !.single = Stopped.single]
        /\ status' = "downloading" /\ marker' = completed /\ UNCHANGED <<version, part, target>>
    BY DEF StartBundle, Begin
  <1>2. completed \subseteq Shards
    BY DEF DownloadInv, DownloadTypes
  <1> HIDE DEF completed
  <1>3. Bundle \in Seq(Files) /\ completed \subseteq Files
    BY <1>2, ShardsAreFiles
  <1>4. /\ w' \in Thread(w'.single) /\ w'.pc = "next" /\ w'.job = "bundle"
        /\ w'.todo = Bundle /\ w'.done = completed
    BY <1>1, <1>3, StoppedIs DEF Thread, DownloadPCs
  <1>5. DownloadTypes'
    BY <1>1, <1>2, <1>4 DEF DownloadInv, DownloadTypes, Active
  <1>6. Course' /\ InPlace' /\ Marked'
    BY <1>1, <1>2, <1>4, ShardsAreFiles DEF DownloadInv, Course, InPlace, Marked, Fetching
  <1>7. QED
    BY <1>5, <1>6 DEF DownloadInv

\* The flags, and the remote: the thread and the files are not touched.
LEMMA FlagsInv ==
  ASSUME DownloadInv, Pause \/ Resume \/ Cancel \/ Republish
  PROVE  DownloadInv'
  <1>1. UNCHANGED <<disk, w>> /\ version' \in Nat /\ (Active' <=> Active)
    BY DEF Pause, Resume, Cancel, Republish, DownloadInv, DownloadTypes, Active, flags
  <1>2. File' = File /\ \A f : ManifestOf(f)' = ManifestOf(f)
    BY <1>1 DEF File, ManifestOf
  <1>3. DownloadTypes'
    BY <1>1 DEF DownloadInv, DownloadTypes, disk
  <1>4. Course' /\ InPlace' /\ Marked'
    BY <1>1, <1>2 DEF DownloadInv, Course, InPlace, Marked, Fetching, disk
  <1>5. QED
    BY <1>3, <1>4 DEF DownloadInv

LEMMA RestartInv ==
  ASSUME DownloadInv, Restart
  PROVE  DownloadInv'
  BY ThreadEnds DEF Restart, disk, DownloadInv, DownloadTypes, InPlace

LEMMA FinishInv ==
  ASSUME DownloadInv, Finish
  PROVE  DownloadInv'
  BY ThreadEnds DEF Finish, Ends, disk, DownloadInv, DownloadTypes, InPlace

\* A bundle goes on to its next shard, or begins with it.
LEMMA SkipInv ==
  ASSUME DownloadInv, Skip
  PROVE  DownloadInv'
  <1>1. /\ w.pc = "next" /\ w.job = "bundle" /\ w.todo \in Seq(Shards) /\ w.todo # <<>>
        /\ File \in w.done /\ target[File] # Absent
        /\ w' = [w EXCEPT !.todo = Tail(w.todo)]
        /\ UNCHANGED <<version, part, target, marker, flags>>
    BY DEF Skip, Going, DownloadInv, Course
  <1>2. /\ Tail(w.todo) \in Seq(Shards)
        /\ \A f \in Range(w.todo) : f = File \/ f \in Range(Tail(w.todo))
    BY <1>1, RangeOfTail DEF File
  <1>3. Tail(w.todo) \in Seq(Files)
    BY <1>2, ShardsAreFiles
  <1>4. /\ w' \in Thread(w'.single) /\ w'.pc = w.pc /\ w'.job = w.job /\ w'.done = w.done
        /\ w'.gone = w.gone /\ w'.todo = Tail(w.todo)
    BY <1>1, <1>3 DEF DownloadInv, DownloadTypes, Thread
  <1>5. DownloadTypes'
    BY <1>1, <1>4 DEF DownloadInv, DownloadTypes, Active, flags
  <1>6. Course' /\ InPlace' /\ Marked'
    BY <1>1, <1>2, <1>4 DEF DownloadInv, Course, InPlace, Marked, Fetching
  <1>7. QED
    BY <1>5, <1>6 DEF DownloadInv

LEMMA ShardInv ==
  ASSUME DownloadInv, Shard
  PROVE  DownloadInv'
  <1>1. CASE Ends("error") /\ UNCHANGED disk
    BY <1>1, ThreadEnds DEF Ends, disk, DownloadInv, DownloadTypes, InPlace
  <1>2. CASE /\ w' = [w EXCEPT !.pc = "open", !.done = @ \ {File}, !.attempt = 0]
             /\ UNCHANGED part /\ Going
    <2>1. /\ w.pc = "next" /\ w.job = "bundle" /\ w.todo \in Seq(Shards) /\ w.todo # <<>>
          /\ File \in w.done => target[File] = Absent
      BY DEF Shard, DownloadInv, Course
    <2>2. /\ w' \in Thread(w'.single) /\ w'.pc = "open" /\ w'.job = w.job
          /\ w'.done = w.done \ {File} /\ w'.gone = w.gone /\ w'.todo = w.todo
      BY <1>2 DEF DownloadInv, DownloadTypes, Thread, DownloadPCs
    <2>3. File' = File /\ UNCHANGED <<version, part, target, marker, status>>
      BY <1>2, <2>2 DEF File, Going, flags
    <2>4. DownloadTypes'
      BY <2>1, <2>2, <2>3 DEF DownloadInv, DownloadTypes, Active
    <2>5. Course' /\ InPlace' /\ Marked'
      BY <2>1, <2>2, <2>3 DEF DownloadInv, Course, InPlace, Marked, Fetching
    <2>6. QED
      BY <2>4, <2>5 DEF DownloadInv
  <1>3. QED
    BY <1>1, <1>2 DEF Shard

\* A file is fetched: attempts, chunks, ends of responses.
LEMMA RetryInv ==
  ASSUME DownloadInv, Fetching, Retry
  PROVE  DownloadInv'
  <1>1. CASE GivesUp(FALSE)
    BY <1>1, GivesUpInv
  <1>2. CASE /\ w' = [w EXCEPT !.pc = "open", !.attempt = @ + 1]
             /\ UNCHANGED part /\ Going
    <2> DEFINE n == w.attempt + 1
    <2>1. n \in Nat /\ w.of \in Nat /\ w.pos \in Nat /\ w \in Thread(w.single)
      BY DEF DownloadInv, DownloadTypes, Thread
    <2>2. w' = [w EXCEPT !.pc = "open", !.attempt = n]
      BY <1>2
    <2> HIDE DEF n
    <2>3. w' = [w EXCEPT !.pc = "open", !.attempt = n, !.of = w.of, !.pos = w.pos]
      BY <2>1, <2>2 DEF Thread
    <2>4. UNCHANGED <<version, target, marker, status, part>>
      BY <1>2 DEF Going, flags
    <2>5. QED
      BY <2>1, <2>3, <2>4, GoesOn DEF DownloadInv, DownloadTypes
  <1>3. QED
    BY <1>1, <1>2 DEF Retry

LEMMA ResponseInv ==
  ASSUME DownloadInv, Fetching, NEW offset \in Nat, Response(offset), Going,
         part' \in [Files -> Chunks]
  PROVE  DownloadInv'
  <1>1. /\ w.attempt \in Nat /\ version \in Nat
        /\ w' = [w EXCEPT !.pc = "transfer", !.attempt = w.attempt, !.of = version, !.pos = offset]
    BY DEF Response, DownloadInv, DownloadTypes, Thread
  <1>2. UNCHANGED <<version, target, marker, status>>
    BY DEF Going, flags
  <1>3. QED
    BY <1>1, <1>2, GoesOn

LEMMA OpensInv ==
  ASSUME DownloadInv, Open \/ OpenLocal \/ OpenDropped
  PROVE  DownloadInv'
  <1>1. Fetching
    BY DEF Open, OpenLocal, OpenDropped, Fetching
  <1>2. /\ [part EXCEPT ![File] = <<>>] \in [Files -> Chunks]
        /\ [part EXCEPT ![File] = Absent] \in [Files -> Chunks]
        /\ part \in [Files -> Chunks]
    <2>1. <<>> \in Chunks /\ Absent \in Chunks
      BY DEF Chunks
    <2>2. QED
      BY <2>1 DEF DownloadInv, DownloadTypes
  <1>3. CASE GivesUp(FALSE) \/ Retry
    BY <1>1, <1>3, GivesUpInv, RetryInv
  <1>4. CASE Response(0) /\ part' = [part EXCEPT ![File] = <<>>] /\ Going
    BY <1>1, <1>2, <1>4, ResponseInv
  <1>5. CASE Stored(File) \in 1 .. Size - 1 /\ Response(Stored(File)) /\ UNCHANGED part /\ Going
    <2>1. Stored(File) \in Nat
      BY <1>5, DownloadAssumption
    <2>2. QED
      BY <1>1, <1>2, <1>5, <2>1, ResponseInv
  <1>6. CASE OpenDropped /\ Ends("error")
    <2>1. UNCHANGED <<target, marker>>
      BY <1>6 DEF OpenDropped, Going
    <2>2. QED
      BY <1>2, <1>6, <2>1, ThreadEnds DEF OpenDropped, Ends, DownloadInv, DownloadTypes, InPlace
  <1>7. CASE OpenDropped /\ w' = [w EXCEPT !.attempt = @ + 1] /\ Going
    <2> DEFINE n == w.attempt + 1
    <2>1. /\ n \in Nat /\ w.of \in Nat /\ w.pos \in Nat /\ w \in Thread(w.single)
          /\ w.pc = "open"
      BY <1>7 DEF OpenDropped, DownloadInv, DownloadTypes, Thread
    <2>2. w' = [w EXCEPT !.attempt = n]
      BY <1>7
    <2> HIDE DEF n
    <2>3. w' = [w EXCEPT !.pc = "open", !.attempt = n, !.of = w.of, !.pos = w.pos]
      BY <2>1, <2>2 DEF Thread
    <2>4. UNCHANGED <<version, target, marker, status>> /\ part' \in [Files -> Chunks]
      BY <1>2, <1>7 DEF Going, flags, OpenDropped
    <2>5. QED
      BY <1>1, <2>1, <2>3, <2>4, GoesOn
  <1>8. CASE Open
    BY <1>3, <1>4, <1>5, <1>8 DEF Open
  <1>9. CASE OpenLocal
    BY <1>3, <1>4, <1>9 DEF OpenLocal
  <1>10. CASE OpenDropped
    BY <1>6, <1>7, <1>10 DEF OpenDropped
  <1>11. QED
    BY <1>8, <1>9, <1>10

LEMMA TransferInv ==
  ASSUME DownloadInv, Transfer
  PROVE  DownloadInv'
  <1>1. Fetching /\ w.todo # <<>> /\ File \in Files
    BY RangeOfTail DEF Transfer, Fetching, File, DownloadInv, Course, DownloadTypes, Thread
  <1>2. CASE GivesUp(FALSE) \/ Retry
    BY <1>1, <1>2, GivesUpInv, RetryInv
  <1>3. CASE w' = [w EXCEPT !.pos = @ + 1] /\ WriteChunk(w.of) /\ Going
    <2> DEFINE n == w.pos + 1
    <2>1. /\ n \in Nat /\ w.of \in Nat /\ w.attempt \in Nat /\ w \in Thread(w.single)
          /\ w.pc = "transfer"
      BY DEF Transfer, DownloadInv, DownloadTypes, Thread
    <2>2. part[File] = Absent \/ part[File] \in Seq(Nat)
      BY <1>1 DEF DownloadInv, DownloadTypes, Chunks
    <2>3. part[File] \in Seq(Nat) => Append(part[File], w.of) \in Seq(Nat)
      BY <2>1
    <2>4. part' \in [Files -> Chunks]
      BY <1>3, <2>2, <2>3 DEF WriteChunk, DownloadInv, DownloadTypes, Chunks
    <2>5. w' = [w EXCEPT !.pos = n]
      BY <1>3
    <2> HIDE DEF n
    <2>6. w' = [w EXCEPT !.pc = "transfer", !.attempt = w.attempt, !.of = w.of, !.pos = n]
      BY <2>1, <2>5 DEF Thread
    <2>7. UNCHANGED <<version, target, marker, status>>
      BY <1>3 DEF Going, flags
    <2>8. QED
      BY <1>1, <2>1, <2>4, <2>6, <2>7, GoesOn
  <1>4. CASE Goto("hash") /\ UNCHANGED part /\ Going
    <2>1. /\ w.pos \in Nat /\ w.of \in Nat /\ w.attempt \in Nat
          /\ w' = [w EXCEPT !.pc = "hash", !.attempt = w.attempt, !.of = w.of, !.pos = w.pos]
      BY <1>4 DEF Goto, DownloadInv, DownloadTypes, Thread
    <2>2. QED
      BY <1>1, <1>4, <2>1, GoesOn DEF Going, flags, DownloadInv, DownloadTypes
  <1>5. QED
    BY <1>2, <1>3, <1>4 DEF Transfer

\* The check before the rename is that of the promise.
LEMMA HashInv ==
  ASSUME DownloadInv, Hash
  PROVE  DownloadInv'
  <1>1. Fetching
    BY DEF Hash, Fetching
  <1>2. CASE GivesUp(FALSE) \/ GivesUp(TRUE)
    BY <1>2, GivesUpInv
  <1>3. CASE ~GivesUp(FALSE) /\ ~GivesUp(TRUE)
    <2>1. /\ part[File] # Absent /\ ~Mismatch
          /\ ~(ManifestOf(File).sized /\ Stored(File) # Size)
          /\ Goto("publish") /\ UNCHANGED part /\ Going
      BY <1>3 DEF Hash
    <2>2. Promised(ManifestOf(File), part[File])
      BY <2>1 DEF Promised, Mismatch, Stored
    <2>3. /\ w.pos \in Nat /\ w.of \in Nat /\ w.attempt \in Nat
          /\ w' = [w EXCEPT !.pc = "publish", !.attempt = w.attempt, !.of = w.of, !.pos = w.pos]
      BY <2>1 DEF Goto, DownloadInv, DownloadTypes, Thread
    <2>4. QED
      BY <1>1, <2>1, <2>2, <2>3, GoesOn DEF Going, flags, DownloadInv, DownloadTypes
  <1>4. QED
    BY <1>2, <1>3

\* The rename puts in place what the check has found good.
LEMMA PublishFacts ==
  ASSUME DownloadInv, Publish, ~GivesUp(FALSE)
  PROVE  /\ w.pc = "publish" /\ w.todo # <<>> /\ File \in Files
         /\ w.job = "bundle" => File \in Shards
         /\ part[File] # Absent /\ Promised(ManifestOf(File), part[File])
         /\ target' = [target EXCEPT ![File] = part[File]]
         /\ part' = [part EXCEPT ![File] = Absent] /\ UNCHANGED marker
         /\ IF w.job = "file" THEN Ends("completed")
                              ELSE Goto("mark") /\ UNCHANGED <<version, flags>>
         /\ part' \in [Files -> Chunks] /\ target' \in [Files -> Chunks]
         /\ \A f \in Shards : ShardInPlace(f, target'[f])
  <1>1. /\ w.pc = "publish" /\ part[File] # Absent
        /\ target' = [target EXCEPT ![File] = part[File]]
        /\ part' = [part EXCEPT ![File] = Absent] /\ UNCHANGED marker
        /\ IF w.job = "file" THEN Ends("completed")
                             ELSE Goto("mark") /\ UNCHANGED <<version, flags>>
    BY DEF Publish
  <1>2. w.todo # <<>> /\ Promised(ManifestOf(File), part[File])
    BY <1>1 DEF DownloadInv, Course, Fetching
  <1>3. File \in Files /\ (w.job = "bundle" => File \in Shards)
    BY <1>1, <1>2, RangeOfTail DEF File, DownloadInv, DownloadTypes, Course, Thread
  <1>4. /\ part \in [Files -> Chunks] /\ target \in [Files -> Chunks] /\ Absent \in Chunks
        /\ \A f \in Shards : ShardInPlace(f, target[f])
    BY DEF DownloadInv, DownloadTypes, InPlace, Chunks
  <1>5. part' \in [Files -> Chunks] /\ target' \in [Files -> Chunks]
    BY <1>1, <1>3, <1>4
  <1>6. ASSUME NEW f \in Shards PROVE ShardInPlace(f, target'[f])
    <2>1. f \in Files
      BY ShardsAreFiles
    <2>2. CASE f = File
      <3>1. target'[f] = part[File] /\ ManifestOf(File) = Manifest(ShardRequests[f])
        BY <1>1, <1>4, <2>1, <2>2, ShardManifest
      <3>2. QED
        BY <1>2, <3>1 DEF ShardInPlace
    <2>3. CASE f # File
      <3>1. target'[f] = target[f]
        BY <1>1, <1>4, <2>1, <2>3
      <3>2. QED
        BY <1>4, <3>1
    <2>4. QED
      BY <2>2, <2>3
  <1>7. QED
    BY <1>1, <1>2, <1>3, <1>5, <1>6

LEMMA PublishInv ==
  ASSUME DownloadInv, Publish
  PROVE  DownloadInv'
  <1>1. CASE GivesUp(FALSE)
    BY <1>1, GivesUpInv
  <1>2. CASE ~GivesUp(FALSE) /\ w.job = "file"
    BY <1>2, PublishFacts, ThreadEnds DEF Ends, DownloadInv, DownloadTypes
  <1>3. CASE ~GivesUp(FALSE) /\ w.job # "file"
    <2>1. /\ w.pc = "publish" /\ w.job = "bundle" /\ w.todo # <<>> /\ File \in Files
          /\ part[File] # Absent
          /\ target' = [target EXCEPT ![File] = part[File]]
          /\ UNCHANGED <<version, status, marker>>
          /\ part' \in [Files -> Chunks] /\ target' \in [Files -> Chunks]
          /\ \A f \in Shards : ShardInPlace(f, target'[f])
          /\ w' = [w EXCEPT !.pc = "mark"]
      BY <1>3, PublishFacts DEF Goto, flags, DownloadInv, DownloadTypes, Thread
    <2>2. /\ w' \in Thread(w'.single) /\ w'.pc = "mark" /\ w'.job = w.job /\ w'.todo = w.todo
          /\ w'.done = w.done /\ w'.gone = w.gone
      BY <2>1 DEF DownloadInv, DownloadTypes, Thread, DownloadPCs
    <2>3. File' = File
      BY <2>2 DEF File
    <2>4. target \in [Files -> Chunks]
      BY DEF DownloadInv, DownloadTypes
    <2>5. target'[File] # Absent /\ \A f \in Files : target[f] # Absent => target'[f] # Absent
      BY <2>1, <2>4
    <2>6. DownloadTypes'
      BY <2>1, <2>2 DEF DownloadInv, DownloadTypes, Active
    <2>7. Course' /\ Marked'
      BY <2>1, <2>2, <2>3 DEF DownloadInv, Course, Marked, Fetching
    <2>8. InPlace'
      BY <2>1, <2>2, <2>3, <2>5, ShardsAreFiles DEF DownloadInv, InPlace
    <2>9. QED
      BY <2>6, <2>7, <2>8 DEF DownloadInv
  <1>4. QED
    BY <1>1, <1>2, <1>3

\* The marker then names it, and the bundle goes on.
LEMMA MarkInv ==
  ASSUME DownloadInv, Mark
  PROVE  DownloadInv'
  <1>1. CASE GivesUp(FALSE)
    BY <1>1, GivesUpInv
  <1>2. CASE /\ marker' = w.done \union {File}
             /\ w' = [w EXCEPT !.pc = "next", !.done = marker', !.todo = Tail(w.todo)]
             /\ UNCHANGED <<version, part, target, flags>>
    <2>1. /\ w.pc = "mark" /\ w.job = "bundle" /\ w.todo \in Seq(Shards) /\ w.todo # <<>>
          /\ w.done \subseteq Shards /\ (File \in w.gone \/ target[File] # Absent)
      BY DEF Mark, DownloadInv, Course, InPlace
    <2>2. /\ File \in Shards /\ Tail(w.todo) \in Seq(Shards)
          /\ \A f \in Range(w.todo) : f = File \/ f \in Range(Tail(w.todo))
      BY <2>1, RangeOfTail DEF File
    <2>3. marker' \subseteq Shards /\ marker' \subseteq Files /\ Tail(w.todo) \in Seq(Files)
      BY <1>2, <2>1, <2>2, ShardsAreFiles
    <2>4. /\ w' \in Thread(w'.single) /\ w'.pc = "next" /\ w'.job = w.job
          /\ w'.gone = w.gone /\ w'.todo = Tail(w.todo) /\ w'.done = marker'
      BY <1>2, <2>3 DEF DownloadInv, DownloadTypes, Thread, DownloadPCs
    <2>5. DownloadTypes'
      BY <1>2, <2>1, <2>3, <2>4 DEF DownloadInv, DownloadTypes, Active, flags
    <2>6. Course' /\ InPlace' /\ Marked'
      BY <1>2, <2>1, <2>2, <2>3, <2>4 DEF DownloadInv, Course, InPlace, Marked, Fetching
    <2>7. QED
      BY <2>5, <2>6 DEF DownloadInv
  <1>3. QED
    BY <1>1, <1>2 DEF Mark

\* A client takes files away: the thread knows, or at least the model does.
LEMMA TakenAway ==
  ASSUME DownloadInv, NEW files \in SUBSET Files, Notes(files), UNCHANGED <<version, flags>>,
         part' \in [Files -> Chunks], target' \in [Files -> Chunks],
         \A f \in Files : target'[f] = IF f \in files THEN Absent ELSE target[f],
         \A f \in Files : part'[f] \in {part[f], Absent},
         marker' \in {marker, NoMarker}
  PROVE  DownloadInv'
  <1>1. /\ w' \in Thread(w'.single) /\ w'.pc = w.pc /\ w'.job = w.job /\ w'.todo = w.todo
        /\ w'.done = w.done /\ w'.single = w.single
        /\ w.pc # "none" => w'.gone = w.gone \union files
    <2>1. CASE w.pc = "none"
      BY <2>1 DEF Notes, DownloadInv, DownloadTypes
    <2>2. CASE w.pc # "none"
      BY <2>2 DEF Notes, DownloadInv, DownloadTypes, Thread
    <2>3. QED
      BY <2>1, <2>2
  <1>2. File' = File /\ ManifestOf(File)' = ManifestOf(File)
    BY <1>1 DEF File, ManifestOf
  <1>3. w.pc # "none" /\ w.todo # <<>> => File \in Files
    BY <1>1, RangeOfTail DEF File, Thread
  <1>4. DownloadTypes'
    BY <1>1 DEF DownloadInv, DownloadTypes, Active, flags
  <1>5. Course'
    BY <1>1, <1>2, <1>3 DEF DownloadInv, Course, Fetching
  <1>6. InPlace'
    <2>1. \A f \in Shards : ShardInPlace(f, target'[f])
      BY ShardsAreFiles DEF DownloadInv, InPlace, ShardInPlace
    <2>2. w.pc = "mark" => w.todo # <<>>
      BY DEF DownloadInv, Course
    <2>3. QED
      BY <1>1, <1>2, <1>3, <2>1, <2>2, ShardsAreFiles DEF DownloadInv, InPlace
  <1>7. Marked'
    <2>1. marker' # NoMarker => marker' = marker /\ marker \subseteq Files
      BY ShardsAreFiles DEF DownloadInv, DownloadTypes
    <2>2. QED
      BY <1>1, <1>2, <2>1 DEF DownloadInv, Marked, Fetching
  <1>8. QED
    BY <1>4, <1>5, <1>6, <1>7 DEF DownloadInv

LEMMA DeletesInv ==
  ASSUME DownloadInv, DeleteBundle \/ \E f \in Files : DeleteFile(f)
  PROVE  DownloadInv'
  <1>1. /\ part \in [Files -> Chunks] /\ target \in [Files -> Chunks] /\ Absent \in Chunks
    BY DEF DownloadInv, DownloadTypes, Chunks
  <1>2. ASSUME NEW f \in Files, DeleteFile(f) PROVE DownloadInv'
    <2>1. /\ target' = [target EXCEPT ![f] = Absent] /\ Notes({f})
          /\ UNCHANGED <<version, part, marker, flags>>
      BY <1>2 DEF DeleteFile
    <2>2. /\ target' \in [Files -> Chunks]
          /\ \A g \in Files : target'[g] = IF g \in {f} THEN Absent ELSE target[g]
      BY <1>1, <2>1
    <2>3. QED
      BY <1>1, <2>1, <2>2, TakenAway
  <1>3. CASE DeleteBundle
    <2>1. /\ target' = [f \in Files |-> IF f = Single THEN target[f] ELSE Absent]
          /\ part' = [f \in Files |-> IF f = Single THEN part[f] ELSE Absent]
          /\ Notes(Shards) /\ marker' = NoMarker /\ UNCHANGED <<version, flags>>
      BY <1>3 DEF DeleteBundle, Shards
    <2>2. part' \in [Files -> Chunks] /\ target' \in [Files -> Chunks]
      BY <1>1, <2>1
    <2>3. /\ \A f \in Files : target'[f] = IF f \in Shards THEN Absent ELSE target[f]
          /\ \A f \in Files : part'[f] \in {part[f], Absent}
      BY <2>1, ShardsAreFiles DEF Files, Shards
    <2>4. QED
      BY <2>1, <2>2, <2>3, ShardsAreFiles, TakenAway
  <1>4. QED
    BY <1>2, <1>3

Downloading == FileRequest \/ BundleRequest \/ DownloadNext

LEMMA DownloadStep == DownloadInv /\ [Downloading]_downloadVars => DownloadInv'
  <1>1. CASE DownloadInv /\ UNCHANGED downloadVars
    <2>1. UNCHANGED <<version, part, target, marker, status, w>>
      BY <1>1 DEF downloadVars, disk, flags
    <2>2. File' = File /\ \A f : ManifestOf(f)' = ManifestOf(f)
      BY <2>1 DEF File, ManifestOf
    <2>3. QED
      BY <1>1, <2>1, <2>2
         DEF DownloadInv, DownloadTypes, Course, InPlace, Marked, Fetching, Active
  <1>2. CASE DownloadInv /\ Downloading
    BY <1>2, StartFileInv, StartBundleInv, FlagsInv, RestartInv, FinishInv, SkipInv, ShardInv,
       OpensInv, TransferInv, HashInv, PublishInv, MarkInv, DeletesInv
       DEF Downloading, FileRequest, BundleRequest, DownloadNext, Work
  <1>3. QED
    BY <1>1, <1>2

\* What a step of a download may do: CompletedIsWhole and ShardsAreKept.
CompletedStep ==
  status' = "completed" /\ status # "completed" =>
    \A f \in (IF w.job = "file" THEN {Single} ELSE Range(Bundle)) \ w.gone :
      /\ target'[f] # Absent
      /\ ManifestOf(f).hashed => target'[f] = Original
      /\ ManifestOf(f).sized => Len(target'[f]) = Size
KeptStep ==
  w.pc # "none" /\ marker # NoMarker =>
    \A f \in marker : Absent \in {target[f], target'[f]} \/ target'[f] = target[f]

LEMMA OnlyEndsComplete ==
  ASSUME DownloadInv, Downloading, status' = "completed", status # "completed"
  PROVE  Finish \/ (Publish /\ ~GivesUp(FALSE) /\ w.job = "file")
  <1>1. ~(UNCHANGED status)
    OBVIOUS
  <1>2. ~GivesUp(FALSE) /\ ~GivesUp(TRUE) /\ ~Ends("error")
    BY DEF GivesUp, Ends
  <1>3. ~Retry /\ ~Going
    BY <1>1, <1>2 DEF Retry, Going, flags
  <1>4. CASE Work
    <2>1. CASE Finish \/ Publish
      BY <1>1, <1>2, <2>1 DEF Publish, flags
    <2>2. CASE ~Finish /\ ~Publish
      BY <1>1, <1>2, <1>3, <1>4, <2>2
         DEF Work, Skip, Shard, Open, OpenDropped, OpenLocal, Transfer, Hash, Mark, flags
    <2>3. QED
      BY <2>1, <2>2
  <1>5. ~Pause /\ ~Resume /\ ~Cancel /\ ~Restart /\ ~Republish /\ ~DeleteBundle
    BY <1>1 DEF Pause, Resume, Cancel, Restart, Republish, DeleteBundle, flags
  <1>6. /\ \A over \in BOOLEAN : ~StartBundle(over)
        /\ \A over \in BOOLEAN, request \in Requested : ~StartFile(request, over)
        /\ \A f \in Files : ~DeleteFile(f)
    BY <1>1 DEF StartBundle, StartFile, Begin, DeleteFile, flags
  <1>7. QED
    BY <1>4, <1>5, <1>6 DEF Downloading, FileRequest, BundleRequest, DownloadNext

LEMMA CompletesWhole == DownloadInv /\ Downloading => CompletedStep
  <1> SUFFICES ASSUME DownloadInv, Downloading, status' = "completed", status # "completed",
                      NEW f \in (IF w.job = "file" THEN {Single} ELSE Range(Bundle)) \ w.gone
               PROVE  target'[f] # Absent /\ Promised(ManifestOf(f), target'[f])
    BY DEF CompletedStep, Promised
  <1>1. CASE Finish
    <2>1. w.job = "bundle" /\ w.todo = <<>> /\ f \in Shards /\ target' = target
      BY <1>1 DEF Finish, disk, DownloadInv, Course, Shards
    <2>2. f \notin Range(w.todo)
      BY <2>1 DEF Range
    <2>3. target[f] # Absent /\ ShardInPlace(f, target[f])
      BY <1>1, <2>1, <2>2 DEF Finish, DownloadInv, InPlace
    <2>4. QED
      BY <2>1, <2>3, ShardManifest DEF ShardInPlace
  <1>2. CASE Publish /\ ~GivesUp(FALSE) /\ w.job = "file"
    <2>1. /\ part[File] # Absent /\ Promised(ManifestOf(File), part[File]) /\ File \in Files
          /\ target' = [target EXCEPT ![File] = part[File]] /\ w.pc = "publish"
      BY <1>2, PublishFacts
    <2>2. File = Single /\ f = Single
      BY <1>2, <2>1 DEF File, DownloadInv, Course
    <2>3. target'[f] = part[File]
      BY <2>1, <2>2 DEF DownloadInv, DownloadTypes
    <2>4. QED
      BY <2>1, <2>2, <2>3
  <1>3. QED
    BY <1>1, <1>2, OnlyEndsComplete

\* Only the rename gives a file contents, and what the marker names is not renamed
\* over: it is not there.
LEMMA TargetChanges ==
  ASSUME DownloadInv, Downloading
  PROVE  \/ UNCHANGED target
         \/ Publish /\ ~GivesUp(FALSE)
         \/ \A f \in Files : target'[f] \in {target[f], Absent}
  <1>1. GivesUp(FALSE) \/ GivesUp(TRUE) \/ Going \/ Retry => UNCHANGED target
    BY DEF GivesUp, Going, Retry
  <1>2. CASE Work
    BY <1>1, <1>2
       DEF Work, Finish, Skip, Shard, Open, OpenDropped, OpenLocal, Transfer, Hash, Publish, Mark,
           disk
  <1>3. CASE Pause \/ Resume \/ Cancel \/ Restart \/ Republish
    BY <1>3 DEF Pause, Resume, Cancel, Restart, Republish, disk
  <1>4. CASE FileRequest \/ \E over \in BOOLEAN : StartBundle(over)
    BY <1>4 DEF FileRequest, StartFile, StartBundle, disk
  <1>5. CASE DeleteBundle
    BY <1>5 DEF DeleteBundle
  <1>6. ASSUME NEW f \in Files, DeleteFile(f) PROVE \A g \in Files : target'[g] \in {target[g], Absent}
    BY <1>6 DEF DeleteFile, DownloadInv, DownloadTypes
  <1>7. QED
    BY <1>2, <1>3, <1>4, <1>5, <1>6 DEF Downloading, BundleRequest, DownloadNext

LEMMA KeepsShards == DownloadInv /\ Downloading => KeptStep
  <1> SUFFICES ASSUME DownloadInv, Downloading, w.pc # "none", marker # NoMarker, NEW f \in marker
               PROVE  Absent \in {target[f], target'[f]} \/ target'[f] = target[f]
    BY DEF KeptStep
  <1>1. f \in Shards /\ f \in Files /\ f # Single
    BY ShardsAreFiles DEF DownloadInv, DownloadTypes
  <1>2. CASE Publish /\ ~GivesUp(FALSE)
    <2>1. /\ w.pc = "publish" /\ target' = [target EXCEPT ![File] = part[File]]
          /\ File \in Files
      BY <1>2, PublishFacts
    <2>2. CASE f # File
      BY <1>1, <2>1, <2>2 DEF DownloadInv, DownloadTypes
    <2>3. CASE f = File
      <3>1. w.job = "bundle"
        BY <1>1, <2>3, <2>1 DEF File, DownloadInv, DownloadTypes, Course, Thread
      <3>2. File \notin w.done
        BY <2>1, <3>1 DEF DownloadInv, Marked, Fetching
      <3>3. target[f] = Absent
        BY <2>1, <2>3, <3>1, <3>2 DEF DownloadInv, Marked
      <3>4. QED
        BY <3>3
    <2>4. QED
      BY <2>2, <2>3
  <1>3. QED
    BY <1>1, <1>2, TargetChanges

-----------------------------------------------------------------------------
LEMMA LibraryStep ==
  [StoresNext]_storesVars => [Downloading]_downloadVars /\ [ConversionNext]_conversionVars
  BY DEF StoresNext, storesVars, Downloading

\* What the library holds under a model's name is whole, for any number of files, chunks,
\* attempts, tensors, writers and conversions, wherever the gateway is killed: a
\* completed download has every file its manifests promise, shards the marker
\* names are kept, and only a container with every payload and its tail takes a
\* model's name (c/model_acquisition.py:459-476, 582, 620-696, 774-825).
THEOREM LibraryAlwaysWhole == StoresSpec => LibraryIsWhole
  <1>1. StoresInit => DownloadInv /\ ConversionInv
    BY DownloadStarts, ConversionStarts DEF StoresInit
  <1>2. DownloadInv /\ [StoresNext]_storesVars => DownloadInv'
    BY LibraryStep, DownloadStep
  <1>3. ConversionInv /\ [StoresNext]_storesVars => ConversionInv'
    BY LibraryStep, ConversionStep
  <1>4. DownloadInv /\ [StoresNext]_storesVars => [CompletedStep]_downloadVars /\ [KeptStep]_downloadVars
    BY LibraryStep, CompletesWhole, KeepsShards
  <1>5. ConversionInv /\ [StoresNext]_storesVars => [WholeStep]_conversionVars
    BY LibraryStep, ConversionSteps
  <1>6. StoresInit /\ [][StoresNext]_storesVars =>
          [][CompletedStep]_downloadVars /\ [][KeptStep]_downloadVars /\ [][WholeStep]_conversionVars
    BY <1>1, <1>2, <1>3, <1>4, <1>5, PTL
  <1>7. QED
    BY <1>6
       DEF StoresSpec, LibraryIsWhole, DownloadsAreWhole, CompletedIsWhole, ShardsAreKept,
           ConversionsAreWhole, CompletedStep, KeptStep, WholeStep
=============================================================================

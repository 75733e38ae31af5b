-------------------------- MODULE EngineLinkProofs --------------------------
(***************************************************************************)
(* OneAnswer, SlotsFit and DoneIsComplete for any number of calls, slots and  *)
(* tokens, either engine, and every interleaving.  To the first the engine is *)
(* irrelevant: whatever it prints, the table, the dispatcher's hand and the    *)
(* queues account for every call.  For the other two, FlowInv says what the    *)
(* engine holds of each call and ChainInv follows a call's tokens from the     *)
(* engine through pipe, hand and queue to its generate().                     *)
(***************************************************************************)
EXTENDS EngineLink, TLAPS

\* A queue without an answer, and one with exactly one.
NoneIn(q) == \A i \in 1..Len(q) : q[i].kind \notin Answers
OneIn(q) == \E i \in 1..Len(q) : /\ q[i].kind \in Answers
                                 /\ \A j \in 1..Len(q) : q[j].kind \in Answers => j = i

LEMMA NoneAppend ==
  ASSUME NEW U, NEW q \in Seq(U), NEW e, NoneIn(q)
  PROVE  IF e.kind \in Answers THEN OneIn(Append(q, e)) ELSE NoneIn(Append(q, e))
  <1> DEFINE r == Append(q, e)
             n == Len(q)
  <1>1. /\ n \in Nat /\ Len(r) = n + 1 /\ r[n + 1] = e
        /\ \A i \in 1..n : r[i] = q[i]
    <2>1. q \in Seq(U \union {e}) /\ e \in U \union {e}
      OBVIOUS
    <2>2. QED
      BY <2>1
  <1> HIDE DEF r, n
  <1>2. \A i \in 1..Len(r) : i \in 1..n \/ i = n + 1
    BY <1>1
  <1>3. \A i \in 1..n : r[i].kind \notin Answers
    BY <1>1 DEF NoneIn, n
  <1>4. CASE e.kind \in Answers
    <2>1. n + 1 \in 1..Len(r) /\ r[n + 1].kind \in Answers
      BY <1>1, <1>4
    <2>2. \A j \in 1..Len(r) : r[j].kind \in Answers => j = n + 1
      BY <1>2, <1>3
    <2>3. QED
      BY <2>1, <2>2, <1>4 DEF OneIn, r
  <1>5. CASE e.kind \notin Answers
    BY <1>1, <1>2, <1>3, <1>5 DEF NoneIn, r
  <1>6. QED
    BY <1>4, <1>5

LEMMA OneAppend ==
  ASSUME NEW U, NEW q \in Seq(U), NEW e, OneIn(q), e.kind \notin Answers
  PROVE  OneIn(Append(q, e))
  <1> DEFINE r == Append(q, e)
             n == Len(q)
  <1>1. /\ n \in Nat /\ Len(r) = n + 1 /\ r[n + 1] = e
        /\ \A i \in 1..n : r[i] = q[i]
    <2>1. q \in Seq(U \union {e}) /\ e \in U \union {e}
      OBVIOUS
    <2>2. QED
      BY <2>1
  <1>2. PICK i \in 1..n : /\ q[i].kind \in Answers
                          /\ \A j \in 1..n : q[j].kind \in Answers => j = i
    BY DEF OneIn
  <1> HIDE DEF r, n
  <1>3. i \in 1..Len(r) /\ r[i].kind \in Answers
    BY <1>1, <1>2
  <1>4. \A j \in 1..Len(r) : r[j].kind \in Answers => j = i
    BY <1>1, <1>2
  <1>5. QED
    BY <1>3, <1>4 DEF OneIn, r

LEMMA DropData ==
  ASSUME NEW U, NEW q \in Seq(U), q # <<>>, Head(q).kind \notin Answers
  PROVE  /\ Tail(q) \in Seq(U)
         /\ NoneIn(q) => NoneIn(Tail(q))
         /\ OneIn(q) => OneIn(Tail(q))
  <1> DEFINE t == Tail(q)
             n == Len(q)
  <1>1. /\ n \in Nat \ {0} /\ t \in Seq(U) /\ Len(t) = n - 1
        /\ \A i \in 1..Len(t) : t[i] = q[i + 1]
        /\ Head(q) = q[1]
    OBVIOUS
  <1> HIDE DEF t, n
  <1>2. ASSUME NoneIn(q) PROVE NoneIn(t)
    <2>1. \A i \in 1..Len(t) : i + 1 \in 1..n
      BY <1>1
    <2>2. QED
      BY <1>1, <1>2, <2>1 DEF NoneIn, n
  <1>3. ASSUME OneIn(q) PROVE OneIn(t)
    <2>1. PICK i \in 1..n : /\ q[i].kind \in Answers
                            /\ \A j \in 1..n : q[j].kind \in Answers => j = i
      BY <1>3 DEF OneIn, n
    <2>2. i # 1
      BY <2>1, <1>1
    <2>3. i - 1 \in 1..Len(t) /\ t[i - 1] = q[i]
      BY <2>1, <2>2, <1>1
    <2>4. \A j \in 1..Len(t) : t[j].kind \in Answers => j = i - 1
      <3>1. \A j \in 1..Len(t) : j + 1 \in 1..n /\ t[j] = q[j + 1]
        BY <1>1
      <3>2. \A j \in 1..Len(t) : t[j].kind \in Answers => j + 1 = i
        BY <3>1, <2>1
      <3>3. QED
        BY <3>2, <2>1, <1>1
    <2>5. QED
      BY <2>1, <2>3, <2>4 DEF OneIn
  <1>4. QED
    BY <1>1, <1>2, <1>3 DEF t
-----------------------------------------------------------------------------
(* The inductive invariant.                                                 *)

PCs == {"idle", "writing", "waiting", "done", "cancelled", "failed"}
Base == {0, <<0, 0>>} \union Slots \union Requests

\* A call's record, whatever its events and slots are.
CallRecord(U) == [pc : PCs, slot : U, ask : U, inbox : Seq(U), heard : Seq(U),
                  cancelSent : BOOLEAN]
Calls == \E U : Base \subseteq U /\ call \in [Ids -> CallRecord(U)]

Known == /\ next \in Nat
         /\ pending \subseteq {c \in Ids : c < next}
         /\ \A c \in Ids : c >= next => call[c].pc = "idle"
         /\ disp.pc = "put" => disp.event.id \in Ids /\ disp.event.id < next

\* OneAnswer for one call, in the form the queue lemmas speak.
Owed(c) == IF c \in pending THEN ~InHand(c) /\ NoneIn(call[c].inbox)
           ELSE IF InHand(c) THEN NoneIn(call[c].inbox)
           ELSE OneIn(call[c].inbox)

LinkInv == Calls /\ Known /\ \A c \in Busy : Owed(c)

LEMMA OwedIsOneAnswer == ASSUME \A c \in Busy : Owed(c) PROVE OneAnswer
  <1> SUFFICES ASSUME NEW c \in Busy
               PROVE  IF c \in pending THEN ~InHand(c) /\ AnswersIn(c) = {}
                      ELSE IF InHand(c) THEN AnswersIn(c) = {}
                      ELSE \E i \in 1..Len(call[c].inbox) : AnswersIn(c) = {i}
    BY DEF OneAnswer
  <1>1. NoneIn(call[c].inbox) => AnswersIn(c) = {}
    BY DEF NoneIn, AnswersIn
  <1>2. OneIn(call[c].inbox) => \E i \in 1..Len(call[c].inbox) : AnswersIn(c) = {i}
    BY DEF OneIn, AnswersIn
  <1>3. QED
    BY <1>1, <1>2 DEF Owed

\* A universe can be enlarged by what a step brings in.
LEMMA Enlarge ==
  ASSUME Calls, NEW x
  PROVE  \E U : Base \subseteq U /\ x \in U /\ call \in [Ids -> CallRecord(U)]
  <1>1. PICK U : Base \subseteq U /\ call \in [Ids -> CallRecord(U)]
    BY DEF Calls
  <1> DEFINE V == U \union {x}
  <1>2. Seq(U) \subseteq Seq(V)
    OBVIOUS
  <1>3. CallRecord(U) \subseteq CallRecord(V)
    BY <1>2 DEF CallRecord
  <1> HIDE DEF V
  <1>4. call \in [Ids -> CallRecord(V)]
    BY <1>1, <1>3
  <1>5. QED
    BY <1>1, <1>4 DEF V

LEMMA IdsAreNat == Ids \subseteq Nat
  BY DEF Ids

LEMMA CallIsRecord ==
  ASSUME NEW U, Base \subseteq U, NEW pc \in PCs, NEW slot \in U, NEW ask \in U
  PROVE  /\ Call(pc, slot, ask) \in CallRecord(U)
         /\ Call(pc, slot, ask).pc = pc /\ Call(pc, slot, ask).inbox = <<>>
  <1>1. <<>> \in Seq(U)
    OBVIOUS
  <1>2. QED
    BY <1>1 DEF Call, CallRecord

LEMMA ReturnedIsRecord ==
  ASSUME NEW U, Base \subseteq U, NEW how \in PCs
  PROVE  /\ Returned(how) \in CallRecord(U)
         /\ Returned(how).pc = how /\ Returned(how).inbox = <<>>
  <1>1. 0 \in U /\ <<0, 0>> \in U
    BY DEF Base
  <1>2. QED
    BY <1>1, CallIsRecord DEF Returned
-----------------------------------------------------------------------------
(* One lemma per step.                                                      *)

LEMMA InitLink == Init => LinkInv
  <1> SUFFICES ASSUME Init PROVE LinkInv
    OBVIOUS
  <1>1. NoCall \in CallRecord(Base)
    BY ReturnedIsRecord DEF NoCall, PCs
  <1>2. Calls
    BY <1>1 DEF Init, Calls
  <1>3. \A c \in Ids : call[c].pc = "idle"
    BY DEF Init, NoCall, Returned, Call
  <1>4. Known /\ Busy = {}
    BY <1>3 DEF Init, Known, Busy
  <1>5. QED
    BY <1>2, <1>4 DEF LinkInv

LEMMA QuietStep == LinkInv /\ UNCHANGED linkVars => LinkInv'
  BY DEF LinkInv, Calls, Known, Owed, InHand, Busy, linkVars

LEMMA RegisterStep == LinkInv /\ Register => LinkInv'
  <1> SUFFICES ASSUME LinkInv, Register PROVE LinkInv'
    OBVIOUS
  <1> DEFINE refused == closing # "open" \/ dispErr \/ life = "exited"
  <1>1. /\ next \in Ids /\ next \in Nat /\ next' = next + 1
        /\ UNCHANGED disp
    BY DEF Register, LinkInv, Known
  <1>2. PICK U : Base \subseteq U /\ call \in [Ids -> CallRecord(U)]
    BY DEF LinkInv, Calls
  <1>3. PICK rec \in CallRecord(U) :
          /\ call' = [call EXCEPT ![next] = rec] /\ rec.inbox = <<>>
          /\ \/ rec.pc = "failed" /\ pending' = pending
             \/ rec.pc = "writing" /\ pending' = pending \union {next}
    <2>1. CASE refused
      <3>1. /\ Returned("failed") \in CallRecord(U)
            /\ Returned("failed").inbox = <<>> /\ Returned("failed").pc = "failed"
        BY <1>2, ReturnedIsRecord DEF PCs
      <3>2. QED
        BY <2>1, <3>1 DEF Register
    <2>2. CASE ~refused
      <3>1. PICK s \in Slots, ask \in Requests :
              call' = [call EXCEPT ![next] = Call("writing", s, ask)]
        BY <2>2 DEF Register
      <3>2. /\ Call("writing", s, ask) \in CallRecord(U)
            /\ Call("writing", s, ask).inbox = <<>> /\ Call("writing", s, ask).pc = "writing"
        <4>1. s \in U /\ ask \in U /\ "writing" \in PCs
          BY <1>2 DEF Base, PCs
        <4>2. QED
          BY <1>2, <4>1, CallIsRecord
      <3>3. QED
        BY <2>2, <3>1, <3>2 DEF Register
    <2>3. QED
      BY <2>1, <2>2
  <1>4. /\ call' \in [Ids -> CallRecord(U)] /\ call'[next] = rec
        /\ \A c \in Ids : c # next => call'[c] = call[c]
    BY <1>1, <1>2, <1>3
  <1>5. Calls'
    BY <1>2, <1>4 DEF Calls, Base
  <1>6. Known'
    <2>1. /\ next < next'
          /\ \A c \in Nat : c < next => c < next'
          /\ \A c \in Nat : c >= next' => c >= next /\ c # next
      BY <1>1
    <2>2. pending' \subseteq {c \in Ids : c < next'}
      <3>1. pending' \subseteq pending \union {next}
        BY <1>3
      <3>2. \A c \in pending : c \in Ids /\ c < next
        BY DEF LinkInv, Known
      <3>3. \A c \in pending \union {next} : c \in Ids /\ c < next'
        <4>1. ASSUME NEW c \in pending PROVE c \in Ids /\ c < next'
          BY <2>1, <3>2, IdsAreNat
        <4>2. QED
          BY <1>1, <2>1, <4>1
      <3>4. QED
        BY <3>1, <3>3
    <2>3. \A c \in Ids : c >= next' => call'[c].pc = "idle"
      BY <1>1, <1>4, <2>1, IdsAreNat DEF LinkInv, Known
    <2>4. disp'.pc = "put" => disp'.event.id \in Ids /\ disp'.event.id < next'
      <3>1. disp.pc = "put" => disp.event.id \in Ids /\ disp.event.id < next
        BY DEF LinkInv, Known
      <3>2. disp.event.id \in Ids /\ disp.event.id < next => disp.event.id < next'
        BY <2>1, IdsAreNat
      <3>3. QED
        BY <1>1, <3>1, <3>2
    <2>5. QED
      BY <1>1, <2>2, <2>3, <2>4 DEF Known
  <1>7. ASSUME NEW c \in Busy' PROVE Owed(c)'
    <2>1. InHand(c)' <=> InHand(c)
      BY <1>1 DEF InHand
    <2>2. CASE c # next
      <3>1. c \in Busy /\ call'[c] = call[c] /\ (c \in pending' <=> c \in pending)
        BY <1>3, <1>4, <1>7, <2>2 DEF Busy
      <3>2. QED
        BY <2>1, <3>1 DEF LinkInv, Owed
    <2>3. CASE c = next
      <3>1. rec.pc = "writing" /\ c \in pending'
        BY <1>3, <1>4, <1>7, <2>3 DEF Busy
      <3>2. ~InHand(c)
        BY <2>3, <1>1 DEF InHand, LinkInv, Known
      <3>3. NoneIn(call'[c].inbox)
        BY <1>3, <1>4, <2>3 DEF NoneIn
      <3>4. QED
        BY <2>1, <3>1, <3>2, <3>3 DEF Owed
    <2>4. QED
      BY <2>2, <2>3
  <1>8. QED
    BY <1>5, <1>6, <1>7 DEF LinkInv

\* What one call's generate() does: it keeps or gives up its own entry.
LEMMA CallStep ==
  ASSUME LinkInv, NEW c \in Ids, c < next, UNCHANGED <<disp, next>>,
         NEW U, Base \subseteq U, call \in [Ids -> CallRecord(U)],
         NEW rec \in CallRecord(U), call' = [call EXCEPT ![c] = rec],
         pending' = pending \/ pending' = pending \ {c},
         c \in Busy' => Owed(c)'
  PROVE  LinkInv'
  <1>1. /\ call' \in [Ids -> CallRecord(U)]
        /\ \A d \in Ids : d # c => call'[d] = call[d]
    OBVIOUS
  <1>2. Calls'
    BY <1>1 DEF Calls, Base
  <1>3. Known'
    <2>1. pending' \subseteq {d \in Ids : d < next'}
      BY DEF LinkInv, Known
    <2>2. \A d \in Ids : d >= next' => call'[d].pc = "idle"
      <3>1. ~(c >= next)
        BY IdsAreNat DEF LinkInv, Known
      <3>2. QED
        BY <1>1, <3>1 DEF LinkInv, Known
    <2>3. QED
      BY <2>1, <2>2 DEF LinkInv, Known, Ids
  <1>4. ASSUME NEW d \in Busy' PROVE Owed(d)'
    <2>1. CASE d # c
      <3>1. d \in Busy /\ (d \in pending' <=> d \in pending) /\ call'[d] = call[d]
        BY <1>1, <1>4, <2>1 DEF Busy, Ids
      <3>2. QED
        BY <3>1 DEF LinkInv, Owed, InHand
    <2>2. QED
      BY <1>4, <2>1
  <1>5. QED
    BY <1>2, <1>3, <1>4 DEF LinkInv

\* A call that has returned is owed nothing.
LEMMA ReturnStep ==
  ASSUME LinkInv, NEW c \in Ids, c < next, UNCHANGED <<disp, next>>,
         NEW how \in PCs \ {"writing", "waiting"},
         call' = [call EXCEPT ![c] = Returned(how)],
         pending' = pending \/ pending' = pending \ {c}
  PROVE  LinkInv'
  <1>1. PICK U : Base \subseteq U /\ call \in [Ids -> CallRecord(U)]
    BY DEF LinkInv, Calls
  <1>2. Returned(how) \in CallRecord(U) /\ Returned(how).pc = how
    BY <1>1, ReturnedIsRecord
  <1>3. c \notin Busy'
    BY <1>1, <1>2 DEF Busy
  <1>4. QED
    BY <1>1, <1>2, <1>3, CallStep

LEMMA WriteStep == ASSUME NEW c \in Ids, LinkInv, Write(c) PROVE LinkInv'
  <1>1. PICK U : Base \subseteq U /\ call \in [Ids -> CallRecord(U)]
    BY DEF LinkInv, Calls
  <1>2. UNCHANGED <<disp, next>> /\ call[c].pc = "writing" /\ c \in Busy /\ c < next
    BY IdsAreNat DEF Write, Busy, LinkInv, Known
  <1>3. CASE life = "up"
    <2> DEFINE rec == [call[c] EXCEPT !.pc = "waiting", !.ask = <<0, 0>>]
    <2>1. call' = [call EXCEPT ![c] = rec] /\ pending' = pending
      BY <1>1, <1>3 DEF Write, CallRecord
    <2>2. rec \in CallRecord(U) /\ rec.inbox = call[c].inbox
      BY <1>1 DEF CallRecord, Base, PCs
    <2>3. call'[c].inbox = call[c].inbox
      BY <1>1, <2>1, <2>2
    <2>4. Owed(c)'
      BY <1>2, <2>1, <2>3 DEF LinkInv, Owed, InHand
    <2>5. QED
      BY <1>1, <1>2, <2>1, <2>2, <2>4, CallStep
  <1>4. CASE life # "up"
    <2>1. call' = [call EXCEPT ![c] = Returned("failed")] /\ pending' = pending \ {c}
      BY <1>4 DEF Write
    <2>2. QED
      BY <1>2, <2>1, ReturnStep DEF PCs
  <1>5. QED
    BY <1>3, <1>4

LEMMA TakeAnswerStep == ASSUME NEW c \in Ids, LinkInv, TakeAnswer(c) PROVE LinkInv'
  <1>1. c < next /\ UNCHANGED <<disp, next, pending>>
    BY IdsAreNat DEF TakeAnswer, NextEvent, LinkInv, Known
  <1>2. PICK how \in {"done", "cancelled", "failed"} :
          call' = [call EXCEPT ![c] = Returned(how)]
    BY DEF TakeAnswer, AnswerOf
  <1>3. QED
    BY <1>1, <1>2, ReturnStep DEF PCs

LEMMA TakeDataStep == ASSUME NEW c \in Ids, LinkInv, TakeData(c) PROVE LinkInv'
  <1> DEFINE e == Head(call[c].inbox)
  <1>1. /\ c < next /\ UNCHANGED <<disp, next, pending>> /\ c \in Busy
        /\ call[c].inbox # <<>> /\ e.kind \notin Answers
    BY IdsAreNat DEF TakeData, NextEvent, LinkInv, Known, Busy, Answers
  <1>2. PICK U : Base \subseteq U /\ e.n \in U /\ call \in [Ids -> CallRecord(U)]
    BY Enlarge DEF LinkInv
  <1>3. /\ call[c].inbox \in Seq(U) /\ call[c].heard \in Seq(U)
        /\ Tail(call[c].inbox) \in Seq(U)
        /\ NoneIn(call[c].inbox) => NoneIn(Tail(call[c].inbox))
        /\ OneIn(call[c].inbox) => OneIn(Tail(call[c].inbox))
    <2>1. call[c].inbox \in Seq(U) /\ call[c].heard \in Seq(U)
      BY <1>2 DEF CallRecord
    <2>2. QED
      BY <1>1, <2>1, DropData
  <1>4. Taken(c) \in CallRecord(U) /\ Taken(c).inbox = Tail(call[c].inbox)
    BY <1>2, <1>3 DEF Taken, CallRecord
  <1>5. ASSUME NEW rec \in CallRecord(U), rec.inbox = Tail(call[c].inbox),
               call' = [call EXCEPT ![c] = rec]
        PROVE  LinkInv'
    <2>1. call'[c].inbox = Tail(call[c].inbox)
      BY <1>2, <1>5
    <2>2. Owed(c)
      BY <1>1 DEF LinkInv
    <2>3. Owed(c)'
      BY <1>1, <1>3, <2>1, <2>2 DEF Owed, InHand
    <2>4. QED
      BY <1>1, <1>2, <1>5, <2>3, CallStep
  <1>6. CASE call' = [call EXCEPT ![c] = Taken(c)]
    BY <1>4, <1>5, <1>6
  <1>7. CASE call' = [call EXCEPT ![c] = Hears(c)]
    <2>1. Append(call[c].heard, e.n) \in Seq(U)
      BY <1>2, <1>3
    <2>2. Hears(c) \in CallRecord(U) /\ Hears(c).inbox = Tail(call[c].inbox)
      BY <1>2, <1>4, <2>1 DEF Hears, Taken, CallRecord
    <2>3. QED
      BY <1>5, <1>7, <2>2
  <1>8. CASE HangUp(c)
    <2>1. CASE call' = [call EXCEPT ![c] = Returned("failed")]
      BY <1>1, <2>1, ReturnStep DEF PCs
    <2> DEFINE rec == [Taken(c) EXCEPT !.cancelSent = TRUE, !.heard = <<>>]
    <2>2. CASE call' = [call EXCEPT ![c] = rec]
      <3>1. <<>> \in Seq(U)
        OBVIOUS
      <3>2. rec \in CallRecord(U) /\ rec.inbox = Tail(call[c].inbox)
        BY <1>4, <3>1 DEF CallRecord
      <3>3. QED
        BY <1>5, <2>2, <3>2
    <2>3. QED
      BY <1>8, <2>1, <2>2 DEF HangUp
  <1>9. QED
    BY <1>6, <1>7, <1>8 DEF TakeData

LEMMA DispatchStep == LinkInv /\ Dispatch => LinkInv'
  <1> SUFFICES ASSUME LinkInv, Dispatch PROVE LinkInv'
    OBVIOUS
  <1> DEFINE e == Head(stdout)
  <1>1. /\ UNCHANGED <<next, call>> /\ disp.pc = "read"
        /\ disp' = IF e.id \in pending THEN [pc |-> "put", event |-> e] ELSE disp
        /\ pending' = IF e.kind \in Answers THEN pending \ {e.id} ELSE pending
    BY DEF Dispatch
  <1> HIDE DEF e
  <1>2. Calls'
    BY <1>1 DEF LinkInv, Calls, Base
  <1>3. Known'
    <2>1. \A c \in pending : c \in Ids /\ c < next
      BY DEF LinkInv, Known
    <2>2. disp'.pc = "put" => disp'.event.id \in pending
      BY <1>1
    <2>3. QED
      BY <1>1, <2>1, <2>2 DEF LinkInv, Known, Ids
  <1>4. ASSUME NEW c \in Busy' PROVE Owed(c)'
    <2>1. c \in Busy /\ Owed(c) /\ ~InHand(c) /\ call'[c] = call[c]
      BY <1>1, <1>4 DEF LinkInv, Busy, InHand
    <2>2. InHand(c)' <=> e.id = c /\ c \in pending /\ e.kind \in Answers
      BY <1>1 DEF InHand
    <2>3. QED
      BY <1>1, <2>1, <2>2 DEF Owed
  <1>5. QED
    BY <1>2, <1>3, <1>4 DEF LinkInv

LEMMA PutStep == LinkInv /\ Put => LinkInv'
  <1> SUFFICES ASSUME LinkInv, Put PROVE LinkInv'
    OBVIOUS
  <1> DEFINE e == disp.event
             c == disp.event.id
             q == call[c].inbox
             rec == [call[c] EXCEPT !.inbox = Append(q, e)]
  <1>1. /\ UNCHANGED <<pending, next>> /\ disp.pc = "put" /\ disp'.pc = "read"
        /\ c \in Ids /\ c < next
    BY DEF Put, LinkInv, Known
  <1>2. PICK U : Base \subseteq U /\ e \in U /\ call \in [Ids -> CallRecord(U)]
    BY Enlarge DEF LinkInv
  <1>3. q \in Seq(U) /\ Append(q, e) \in Seq(U)
    <2>1. q \in Seq(U)
      BY <1>1, <1>2 DEF CallRecord
    <2>2. QED
      BY <1>2, <2>1
  <1>4. /\ rec \in CallRecord(U) /\ rec.inbox = Append(q, e) /\ rec.pc = call[c].pc
        /\ call' = [call EXCEPT ![c] = rec]
    BY <1>1, <1>2, <1>3 DEF CallRecord, Put
  <1> HIDE DEF rec, c, e, q
  <1>5. /\ call' \in [Ids -> CallRecord(U)] /\ call'[c] = rec
        /\ \A d \in Ids : d # c => call'[d] = call[d]
    BY <1>1, <1>2, <1>4
  <1>6. Calls'
    BY <1>2, <1>5 DEF Calls, Base
  <1>7. Known'
    BY <1>1, <1>4, <1>5 DEF LinkInv, Known, Ids, c
  <1>8. ASSUME NEW d \in Busy' PROVE Owed(d)'
    <2>1. d \in Busy /\ Owed(d) /\ ~InHand(d)'
      BY <1>1, <1>4, <1>5, <1>8 DEF LinkInv, Busy, InHand, Ids, c
    <2>2. CASE d # c
      <3>1. call'[d] = call[d] /\ ~InHand(d)
        BY <1>5, <2>1, <2>2 DEF InHand, Busy, c
      <3>2. QED
        BY <1>1, <2>1, <3>1 DEF Owed
    <2>3. CASE d = c
      <3>1. call'[d].inbox = Append(q, e) /\ (InHand(d) <=> e.kind \in Answers)
        BY <1>1, <1>4, <1>5, <2>3 DEF InHand, c, e
      <3>2. CASE d \in pending
        <4>1. NoneIn(q) /\ e.kind \notin Answers
          BY <2>1, <2>3, <3>1, <3>2 DEF Owed, q
        <4>2. NoneIn(Append(q, e))
          BY <1>3, <4>1, NoneAppend
        <4>3. QED
          BY <1>1, <2>1, <3>1, <3>2, <4>2 DEF Owed
      <3>3. CASE d \notin pending /\ InHand(d)
        <4>1. NoneIn(q) /\ e.kind \in Answers
          BY <2>1, <2>3, <3>1, <3>3 DEF Owed, q
        <4>2. OneIn(Append(q, e))
          BY <1>3, <4>1, NoneAppend
        <4>3. QED
          BY <1>1, <2>1, <3>1, <3>3, <4>2 DEF Owed
      <3>4. CASE d \notin pending /\ ~InHand(d)
        <4>1. OneIn(q) /\ e.kind \notin Answers
          BY <2>1, <2>3, <3>1, <3>4 DEF Owed, q
        <4>2. OneIn(Append(q, e))
          BY <1>3, <4>1, OneAppend
        <4>3. QED
          BY <1>1, <2>1, <3>1, <3>4, <4>2 DEF Owed
      <3>5. QED
        BY <3>2, <3>3, <3>4
    <2>4. QED
      BY <2>2, <2>3
  <1>9. QED
    BY <1>6, <1>7, <1>8 DEF LinkInv

\* _fail_pending, by the dispatcher or by close(), while no answer is in hand
\* that is not still there afterwards.
LEMMA FailPendingStep ==
  ASSUME LinkInv, NEW why, FailPending(why), next' = next,
         disp' = disp \/ (disp.pc # "put" /\ disp'.pc # "put")
  PROVE  LinkInv'
  <1>1. PICK U : Base \subseteq U /\ call \in [Ids -> CallRecord(U)]
    BY DEF LinkInv, Calls
  <1> DEFINE V == U \union {Error(c, why) : c \in Ids}
             after(c) == IF c \in pending
                         THEN [call[c] EXCEPT !.inbox = Append(@, Error(c, why))]
                         ELSE call[c]
  <1>2. call' = [c \in Ids |-> after(c)] /\ pending' = {}
    BY DEF FailPending
  <1>3. CallRecord(U) \subseteq CallRecord(V)
    <2>1. Seq(U) \subseteq Seq(V) /\ U \subseteq V
      OBVIOUS
    <2> HIDE DEF V
    <2>2. QED
      BY <2>1 DEF CallRecord
  <1>4. \A c \in Ids : Error(c, why) \in V
    OBVIOUS
  <1>5. Base \subseteq V
    BY <1>1
  <1> HIDE DEF V
  <1>6. ASSUME NEW c \in Ids
        PROVE  /\ call[c].inbox \in Seq(V)
               /\ after(c) \in CallRecord(V) /\ after(c).pc = call[c].pc
               /\ after(c).inbox = IF c \in pending THEN Append(call[c].inbox, Error(c, why))
                                  ELSE call[c].inbox
    <2>1. call[c] \in CallRecord(V)
      BY <1>1, <1>3
    <2>2. call[c].inbox \in Seq(V) /\ Append(call[c].inbox, Error(c, why)) \in Seq(V)
      <3>1. call[c].inbox \in Seq(V)
        BY <2>1 DEF CallRecord
      <3>2. QED
        BY <3>1, <1>4
    <2>3. QED
      BY <2>1, <2>2 DEF CallRecord
  <1> HIDE DEF after
  <1>7. call' \in [Ids -> CallRecord(V)]
    BY <1>2, <1>6
  <1>8. Calls'
    BY <1>5, <1>7 DEF Calls, Base
  <1>9. Known'
    BY <1>2, <1>6 DEF LinkInv, Known, Ids
  <1>10. ASSUME NEW c \in Busy' PROVE Owed(c)'
    <2>1. c \in Ids /\ c \in Busy /\ Owed(c) /\ (InHand(c)' <=> InHand(c))
      BY <1>2, <1>6, <1>10 DEF LinkInv, Busy, InHand, Ids
    <2>2. call'[c].inbox = after(c).inbox
      BY <1>2, <2>1
    <2>3. CASE c \in pending
      <3>1. Error(c, why).kind \in Answers
        BY DEF Error, Answers
      <3>2. OneIn(Append(call[c].inbox, Error(c, why)))
        BY <1>6, <2>1, <2>3, <3>1, NoneAppend DEF Owed
      <3>3. QED
        BY <1>2, <1>6, <2>1, <2>2, <2>3, <3>2 DEF Owed
    <2>4. CASE c \notin pending
      BY <1>2, <1>6, <2>1, <2>2, <2>4 DEF Owed
    <2>5. QED
      BY <2>3, <2>4
  <1>11. QED
    BY <1>8, <1>9, <1>10 DEF LinkInv

LEMMA EndOfOutputStep == LinkInv /\ EndOfOutput => LinkInv'
  <1> SUFFICES ASSUME LinkInv, EndOfOutput PROVE LinkInv'
    OBVIOUS
  <1>1. /\ UNCHANGED <<call, pending, next>>
        /\ disp.pc = "read" /\ disp'.pc \in {"failing", "dead"}
    BY DEF EndOfOutput
  <1>2. Calls' /\ Known'
    BY <1>1 DEF LinkInv, Calls, Known, Ids, Base
  <1>3. Busy' = Busy
    BY <1>1 DEF Busy, Ids
  <1>4. \A c \in Busy : Owed(c)'
    BY <1>1 DEF LinkInv, Owed, InHand
  <1>5. QED
    BY <1>2, <1>3, <1>4 DEF LinkInv
-----------------------------------------------------------------------------
LEMMA StepKeepsLink == LinkInv /\ [Next]_vars => LinkInv'
  <1> SUFFICES ASSUME LinkInv, [Next]_vars PROVE LinkInv'
    OBVIOUS
  <1>1. CASE EngineStep \/ Crash \/ Exit \/ UNCHANGED vars
    BY <1>1, QuietStep DEF EngineStep, Crash, Exit, vars
  <1>2. CASE Register
    BY <1>2, RegisterStep
  <1>3. CASE \E c \in Ids : Write(c) \/ Take(c)
    BY <1>3, WriteStep, TakeDataStep, TakeAnswerStep DEF Take
  <1>4. CASE Dispatcher
    <2>1. CASE DispatcherFails
      BY <2>1, FailPendingStep DEF DispatcherFails
    <2>2. QED
      BY <1>4, <2>1, DispatchStep, PutStep, EndOfOutputStep DEF Dispatcher
  <1>5. CASE Close \/ CloseStops
    <2>1. UNCHANGED <<disp, pending, next, call>>
      BY <1>5 DEF Close, CloseStops
    <2>2. QED
      BY <2>1 DEF LinkInv, Calls, Known, Owed, InHand, Busy, Ids, Base
  <1>6. CASE CloseFails
    BY <1>6, FailPendingStep DEF CloseFails
  <1>7. QED
    BY <1>1, <1>2, <1>3, <1>4, <1>5, <1>6 DEF Next

(* OneAnswer is an invariant whatever the constants: any number of calls and  *)
(* slots, either engine, any context; no interleaving of the dispatcher,       *)
(* close(), a dying process and the callers loses an answer or makes two       *)
(* (the pops and clears under pending_lock, c/openai_server.py:1415-1484).    *)
THEOREM OneAnswerAlways == Spec => []OneAnswer
  <1>1. LinkInv => OneAnswer
    BY OwedIsOneAnswer DEF LinkInv
  <1>2. QED
    BY InitLink, StepKeepsLink, <1>1, PTL DEF Spec
-----------------------------------------------------------------------------
(* The pipe.  A sequence of events tells of a call's tokens from b to e when  *)
(* its DATA count on from b, each by one, and a DONE counts what came before. *)

Fits(a, n) == (a.kind = "DATA" => a.n = n + 1) /\ (a.kind = "DONE" => a.n = n)
After(a, n) == IF a.kind = "DATA" THEN a.n ELSE n
Tells(q, c, b, e) ==
  \E g \in [0..Len(q) -> Nat] :
    /\ g[0] = b /\ g[Len(q)] = e
    /\ \A i \in 1..Len(q) :
         IF q[i].id = c THEN Fits(q[i], g[i - 1]) /\ g[i] = After(q[i], g[i - 1])
         ELSE g[i] = g[i - 1]

Whys == {"none", "EMPTY_PROMPT", "NOT_FOUND", "CANCELLED", "empty-prompt",
         "generation-failed", "dispatcher", "shutting-down"}
Events == [kind : {"DATA", "DONE", "ERROR"}, id : Nat, n : Nat, why : Whys]

LEMMA EventsAre ==
  ASSUME NEW c \in Nat, NEW n \in Nat, NEW why \in Whys
  PROVE  Data(c, n) \in Events /\ Done(c, n) \in Events /\ Error(c, why) \in Events
  BY DEF Data, Done, Error, Events, Whys

LEMMA Appended ==
  ASSUME NEW U, NEW q \in Seq(U), NEW a \in U
  PROVE  /\ Append(q, a) \in Seq(U) /\ Len(q) \in Nat /\ Len(Append(q, a)) = Len(q) + 1
         /\ Append(q, a)[Len(q) + 1] = a
         /\ \A i \in 1..Len(q) : Append(q, a)[i] = q[i]
         /\ \A i \in 1..Len(Append(q, a)) : i \in 1..Len(q) \/ i = Len(q) + 1
  <1>1. Len(q) \in Nat /\ Len(Append(q, a)) = Len(q) + 1
    OBVIOUS
  <1>2. QED
    BY <1>1

LEMMA Behind ==
  ASSUME NEW U, NEW q \in Seq(U), q # <<>>
  PROVE  /\ Head(q) \in U /\ Head(q) = q[1] /\ 1 \in 1..Len(q)
         /\ Tail(q) \in Seq(U) /\ Len(q) \in Nat /\ Len(Tail(q)) = Len(q) - 1
         /\ \A i \in 1..Len(Tail(q)) : i + 1 \in 1..Len(q) /\ Tail(q)[i] = q[i + 1]
  <1>1. /\ Len(q) \in Nat \ {0} /\ Tail(q) \in Seq(U) /\ Len(Tail(q)) = Len(q) - 1
        /\ Head(q) = q[1]
    OBVIOUS
  <1>2. QED
    BY <1>1

\* An event at the end of the pipe.
LEMMA TellsMore ==
  ASSUME NEW q \in Seq(Events), NEW a \in Events, NEW c \in Nat,
         NEW b \in Nat, NEW e \in Nat, NEW f \in Nat, Tells(q, c, b, e),
         IF a.id = c THEN Fits(a, e) /\ f = After(a, e) ELSE f = e
  PROVE  Tells(Append(q, a), c, b, f)
  <1> DEFINE r == Append(q, a)
             n == Len(q)
  <1>1. PICK g \in [0..n -> Nat] :
          /\ g[0] = b /\ g[n] = e
          /\ \A i \in 1..n : IF q[i].id = c THEN Fits(q[i], g[i - 1]) /\ g[i] = After(q[i], g[i - 1])
                             ELSE g[i] = g[i - 1]
    BY DEF Tells
  <1>2. /\ n \in Nat /\ Len(r) = n + 1 /\ r[n + 1] = a /\ \A i \in 1..n : r[i] = q[i]
        /\ \A i \in 1..Len(r) : i \in 1..n \/ i = n + 1
    BY Appended
  <1> DEFINE h == [i \in 0..n + 1 |-> IF i = n + 1 THEN f ELSE g[i]]
  <1> HIDE DEF r, n
  <1>3. /\ h \in [0..Len(r) -> Nat] /\ h[0] = b /\ h[Len(r)] = f
        /\ \A i \in 0..n : h[i] = g[i]
    BY <1>1, <1>2
  <1>4. h[n + 1] = f
    BY <1>2
  <1> HIDE DEF h
  <1>5. ASSUME NEW i \in 1..Len(r)
        PROVE  IF r[i].id = c THEN Fits(r[i], h[i - 1]) /\ h[i] = After(r[i], h[i - 1])
               ELSE h[i] = h[i - 1]
    <2>1. CASE i \in 1..n
      <3>1. h[i] = g[i] /\ h[i - 1] = g[i - 1] /\ r[i] = q[i]
        BY <1>2, <1>3, <2>1
      <3>2. QED
        BY <1>1, <2>1, <3>1
    <2>2. CASE i = n + 1
      <3>1. h[i] = f /\ h[i - 1] = e /\ r[i] = a
        BY <1>1, <1>2, <1>3, <1>4, <2>2
      <3>2. QED
        BY <3>1
    <2>3. QED
      BY <1>2, <2>1, <2>2
  <1>6. QED
    BY <1>3, <1>5 DEF Tells, r

\* The event at its head is taken.
LEMMA TellsOn ==
  ASSUME NEW q \in Seq(Events), q # <<>>, NEW c \in Nat,
         NEW b \in Nat, NEW e \in Nat, Tells(q, c, b, e)
  PROVE  IF Head(q).id = c
         THEN Fits(Head(q), b) /\ Tells(Tail(q), c, After(Head(q), b), e)
         ELSE Tells(Tail(q), c, b, e)
  <1> DEFINE r == Tail(q)
             n == Len(q)
  <1>1. PICK g \in [0..n -> Nat] :
          /\ g[0] = b /\ g[n] = e
          /\ \A i \in 1..n : IF q[i].id = c THEN Fits(q[i], g[i - 1]) /\ g[i] = After(q[i], g[i - 1])
                             ELSE g[i] = g[i - 1]
    BY DEF Tells
  <1>2. /\ Head(q) = q[1] /\ 1 \in 1..n /\ n \in Nat /\ Len(r) = n - 1
        /\ \A i \in 1..Len(r) : i + 1 \in 1..n /\ r[i] = q[i + 1]
    BY Behind
  <1> DEFINE h == [i \in 0..n - 1 |-> g[i + 1]]
  <1> HIDE DEF r, n
  <1>3. /\ h \in [0..Len(r) -> Nat] /\ h[0] = g[1] /\ h[Len(r)] = e
        /\ \A i \in 1..Len(r) : h[i] = g[i + 1] /\ h[i - 1] = g[i]
    BY <1>1, <1>2
  <1> HIDE DEF h
  <1>4. ASSUME NEW i \in 1..Len(r)
        PROVE  IF r[i].id = c THEN Fits(r[i], h[i - 1]) /\ h[i] = After(r[i], h[i - 1])
               ELSE h[i] = h[i - 1]
    <2>1. i + 1 \in 1..n /\ (i + 1) - 1 = i /\ r[i] = q[i + 1]
      BY <1>2
    <2>2. IF q[i + 1].id = c
          THEN Fits(q[i + 1], g[(i + 1) - 1]) /\ g[i + 1] = After(q[i + 1], g[(i + 1) - 1])
          ELSE g[i + 1] = g[(i + 1) - 1]
      BY <1>1, <2>1
    <2>3. QED
      BY <1>3, <2>1, <2>2
  <1>5. IF q[1].id = c THEN Fits(q[1], g[0]) /\ g[1] = After(q[1], g[0]) ELSE g[1] = g[0]
    <2>1. 1 - 1 = 0
      OBVIOUS
    <2>2. QED
      BY <1>1, <1>2, <2>1
  <1>6. Tells(r, c, g[1], e)
    BY <1>3, <1>4 DEF Tells
  <1>7. QED
    BY <1>1, <1>2, <1>5, <1>6 DEF r

\* A pipe without an event about a call.
LEMMA TellsNothing ==
  ASSUME NEW q \in Seq(Events), NEW c \in Nat, NEW b \in Nat,
         \A i \in 1..Len(q) : q[i].id # c
  PROVE  Tells(q, c, b, b)
  <1> DEFINE g == [i \in 0..Len(q) |-> b]
  <1>1. Len(q) \in Nat
    OBVIOUS
  <1>2. g \in [0..Len(q) -> Nat] /\ \A i \in 0..Len(q) : g[i] = b
    OBVIOUS
  <1>3. 0 \in 0..Len(q) /\ Len(q) \in 0..Len(q)
    BY <1>1
  <1>4. \A i \in 1..Len(q) : i \in 0..Len(q) /\ i - 1 \in 0..Len(q)
    BY <1>1
  <1> HIDE DEF g
  <1>5. QED
    BY <1>2, <1>3, <1>4 DEF Tells
-----------------------------------------------------------------------------
(* The inductive invariant of SlotsFit and DoneIsComplete.  Held is what the   *)
(* engine has of the gateway's calls: SUBMIT frames it will read and requests  *)
(* it decodes, each with the slot it is for.                                  *)

Active == Mux!Active
Submits == {i \in 1..Len(stdin) : stdin[i].op = "SUBMIT"}
Held == {<<stdin[i].id, stdin[i].slot>> : i \in Submits} \union {<<req[s].id, s>> : s \in Active}
Sent(c) == c \in Ids /\ c < next /\ call[c].pc # "writing"

Submissions == [op : {"SUBMIT"}, id : Ids, slot : Slots, prompt : Nat, max : Nat]
Frames == Submissions \union [op : {"CANCEL"}, id : Ids]
ServeReqs == [active : BOOLEAN, id : Nat, emitted : Nat, maximum : Nat]
Jobs == [phase : {"read", "generate", "report", "failed"}, id : Nat, emitted : Nat,
         maximum : Nat, pos : Nat]
Generates == [pc : PCs, slot : Nat, ask : Nat \X Nat, inbox : Seq(Events), heard : Seq(Nat),
              cancelSent : BOOLEAN]

EngineTypes ==
  /\ kind \in {"glm", "qwnrun"} /\ life \in {"up", "eof", "exited"}
  /\ stdin \in Seq(Frames) /\ stdout \in Seq(Events)
  /\ req \in [Slots -> ServeReqs] /\ len \in [Slots -> Nat]
  /\ turn \in {"poll", "decode", "rows", "interrupt"} /\ job \in Jobs
GatewayTypes ==
  /\ disp \in [pc : {"read", "put", "failing", "dead"}, event : Events]
  /\ call \in [Ids -> Generates] /\ next \in Nat
  /\ \A c \in Busy : call[c].slot \in Slots

\* The process has no more of the gateway than was written to it; what it is
\* not, and what has ended, holds nothing.
Speaks ==
  /\ \A i \in 1..Len(stdin) : Sent(stdin[i].id)
  /\ \A i \in 1..Len(stdout) : Sent(stdout[i].id)
  /\ \A s \in Active : Sent(req[s].id)
  /\ job.phase # "read" => Sent(job.id)
  /\ disp.pc = "put" => Sent(disp.event.id)
Silent ==
  /\ life # "up" => stdin = <<>> /\ Active = {} /\ job.phase = "read"
  /\ kind # "glm" => Active = {}
  /\ kind # "qwnrun" => job.phase = "read"
  /\ disp.pc = "failing" => life # "up"

\* SUBMIT is the first the engine hears of an id.
FirstFrame ==
  \A j \in Submits :
    /\ \A i \in 1..j - 1 : stdin[i].id # stdin[j].id
    /\ \A s \in Active : req[s].id # stdin[j].id
    /\ job.phase # "read" => job.id # stdin[j].id

\* One request per slot, on the slot of its call, which no other call has.
Apart ==
  /\ \A s, t \in Active : req[s].id = req[t].id => s = t
  /\ \A p, q \in Held : p[2] = q[2] => p[1] = q[1]
  /\ \A p \in Held, d \in Busy : p[2] = call[d].slot <=> p[1] = d
  /\ \A c, d \in Busy : call[c].slot = call[d].slot => c = d

\* A call returns while the engine has its request only when close() is at work.
Owned ==
  \A p \in Held :
    /\ p[1] \in Busy \/ closing # "open"
    /\ \A i \in 1..Len(stdout) : stdout[i].id = p[1] => stdout[i].kind \notin Answers
    /\ ~InHand(p[1])
    /\ ~NoneIn(call[p[1]].inbox) => closing # "open"
Early == \A c \in Ids : call[c].pc = "writing" /\ ~NoneIn(call[c].inbox) =>
                          closing # "open" \/ life # "up"

\* The room a request being decoded still has in its context.
Room ==
  /\ \A s \in Active : /\ req[s].emitted < req[s].maximum
                       /\ len[s] + (req[s].maximum - req[s].emitted) <= MaxCtx - 2
  /\ rows \subseteq Active /\ (turn # "rows" => rows = {})
  /\ job.pos <= QwnCtx

FlowInv == /\ LinkInv /\ EngineTypes /\ GatewayTypes /\ Speaks /\ Silent
           /\ FirstFrame /\ Apart /\ Owned /\ Early /\ Room

\* The tokens of a call: those its generate() has passed on, in its queue and in
\* the dispatcher's hand, then those in the pipe, then the engine's count.
Passed(c) == Len(call[c].heard) + Len(call[c].inbox)
             + (IF disp.pc = "put" /\ disp.event.id = c THEN 1 ELSE 0)
Reached(c, e) ==
  /\ \A s \in Active : req[s].id = c => e = req[s].emitted
  /\ job.phase = "generate" /\ job.id = c => e = job.emitted
  /\ call[c].pc = "writing" \/ (\E i \in Submits : stdin[i].id = c) => e = 0
Queued(c) ==
  \A i \in 1..Len(call[c].inbox) :
    (\A j \in 1..i - 1 : call[c].inbox[j].kind \notin Answers) =>
      Fits(call[c].inbox[i], Len(call[c].heard) + i - 1)
Chain(c) ==
  /\ call[c].heard = [k \in 1..Len(call[c].heard) |-> k]
  /\ Queued(c)
  /\ disp.pc = "put" /\ disp.event.id = c /\ NoneIn(call[c].inbox) =>
       Fits(disp.event, Len(call[c].heard) + Len(call[c].inbox))
  /\ c \in pending => \E e \in Nat : Tells(stdout, c, Passed(c), e) /\ Reached(c, e)
ChainInv == \A c \in Busy : ~call[c].cancelSent => Chain(c)
-----------------------------------------------------------------------------
(* What every step of the engine does: it reads at most one frame, prints at   *)
(* most two events about one id, and is done with that id when it answers.    *)

Kept(s) == s \in Active /\ req'[s].id = req[s].id
Begun(s) == Head(stdin).op = "SUBMIT" /\ s = Head(stdin).slot /\ req'[s].id = Head(stdin).id
KeptJob == job'.phase # "read" => job.phase # "read" /\ job'.id = job.id
BegunJob == Head(stdin).op = "SUBMIT" /\ job'.id = Head(stdin).id
Quiet(x) == (\A s \in Active : req[s].id # x) /\ (\A i \in Submits : stdin[i].id # x)
IsAbout(w, x) == \/ w = <<>>
                 \/ \E a \in Events : a.id = x /\ w = <<a>>
                 \/ \E a, b \in Events : a.id = x /\ b.id = x /\ w = <<a, b>>

EngineMove(x, w) ==
  /\ Sent(x) /\ IsAbout(w, x) /\ stdout' = stdout \o w
  /\ \/ /\ stdin' = stdin /\ KeptJob /\ \A s \in Active' : Kept(s)
     \/ /\ stdin # <<>> /\ stdin' = Tail(stdin)
        /\ KeptJob \/ BegunJob
        /\ \A s \in Active' : Kept(s) \/ Begun(s)
  /\ (\E i \in 1..Len(w) : w[i].kind \in Answers) => Quiet(x)'

\* How the tokens an id has got change with the events printed about it.
Counts(w, e, f) ==
  \/ w = <<>> /\ f = e
  \/ \E a \in Events : w = <<a>> /\ Fits(a, e) /\ f = After(a, e)
  \/ \E a, b \in Events : /\ w = <<a, b>> /\ Fits(a, e) /\ After(a, e) \in Nat
                          /\ Fits(b, After(a, e)) /\ f = After(b, After(a, e))
EngineCounts(x, w) ==
  /\ \A e \in Nat : Reached(x, e) => \E f \in Nat : Counts(w, e, f) /\ Reached(x, f)'
  /\ \A s \in Active' : req'[s].id # x => Kept(s) /\ req'[s].emitted = req[s].emitted
  /\ job'.phase = "generate" /\ job'.id # x => job' = job
EngineKind == EngineTypes' /\ Silent' /\ Room'
LEMMA AboutIs ==
  ASSUME NEW w, NEW x, IsAbout(w, x)
  PROVE  /\ w \in Seq(Events) /\ Len(w) \in Nat
         /\ \A i \in 1..Len(w) : w[i].id = x /\ w[i] \in Events
  <1>1. CASE w = <<>>
    BY <1>1
  <1>2. CASE \E a \in Events : a.id = x /\ w = <<a>>
    BY <1>2
  <1>3. CASE \E a, b \in Events : a.id = x /\ b.id = x /\ w = <<a, b>>
    <2>1. PICK a \in Events, b \in Events : a.id = x /\ b.id = x /\ w = <<a, b>>
      BY <1>3
    <2>2. w \in Seq(Events) /\ Len(w) = 2 /\ w[1] = a /\ w[2] = b
      BY <2>1
    <2>3. \A i \in 1..2 : i = 1 \/ i = 2
      OBVIOUS
    <2>4. QED
      BY <2>1, <2>2, <2>3
  <1>4. QED
    BY <1>1, <1>2, <1>3 DEF IsAbout

\* The frames left are those from the first or the second on.
LEMMA FramesLeft ==
  ASSUME EngineTypes, stdin' = stdin \/ (stdin # <<>> /\ stdin' = Tail(stdin))
  PROVE  \E d \in {0, 1} :
           /\ \A j \in 1..Len(stdin') : j + d \in 1..Len(stdin) /\ stdin'[j] = stdin[j + d]
           /\ \A j \in Submits' : j + d \in Submits /\ j \in 1..Len(stdin')
           /\ d = 1 => stdin # <<>> /\ Head(stdin) = stdin[1] /\ 1 \in 1..Len(stdin)
           /\ d = 0 => stdin' = stdin
  <1>1. CASE stdin' = stdin
    <2>1. Len(stdin) \in Nat
      BY DEF EngineTypes
    <2>2. \A j \in 1..Len(stdin) : j + 0 = j
      OBVIOUS
    <2>3. \A j \in Submits : j + 0 = j /\ j \in 1..Len(stdin)
      BY DEF Submits
    <2>4. Submits' = Submits
      BY <1>1 DEF Submits
    <2>5. QED
      BY <1>1, <2>2, <2>3, <2>4
  <1>2. CASE stdin # <<>> /\ stdin' = Tail(stdin)
    <2>1. /\ Head(stdin) = stdin[1] /\ 1 \in 1..Len(stdin)
          /\ \A j \in 1..Len(stdin') : j + 1 \in 1..Len(stdin) /\ stdin'[j] = stdin[j + 1]
      BY <1>2, Behind DEF EngineTypes
    <2>2. \A j \in Submits' : j + 1 \in Submits /\ j \in 1..Len(stdin')
      BY <2>1 DEF Submits
    <2>3. QED
      BY <1>2, <2>1, <2>2
  <1>3. QED
    BY <1>1, <1>2

LEMMA EngineHolds ==
  ASSUME EngineTypes, NEW x, NEW w, EngineMove(x, w)
  PROVE  Held' \subseteq Held
  <1>1. PICK d \in {0, 1} :
           /\ \A j \in 1..Len(stdin') : j + d \in 1..Len(stdin) /\ stdin'[j] = stdin[j + d]
           /\ \A j \in Submits' : j + d \in Submits /\ j \in 1..Len(stdin')
           /\ d = 1 => stdin # <<>> /\ Head(stdin) = stdin[1] /\ 1 \in 1..Len(stdin)
           /\ d = 0 => stdin' = stdin
    BY FramesLeft DEF EngineMove
  <1>2. ASSUME NEW j \in Submits' PROVE <<stdin'[j].id, stdin'[j].slot>> \in Held
    BY <1>1 DEF Held
  <1>3. ASSUME NEW s \in Active' PROVE <<req'[s].id, s>> \in Held
    <2>1. CASE Kept(s)
      BY <2>1 DEF Kept, Held
    <2>2. CASE stdin # <<>> /\ Begun(s)
      <3>1. 1 \in Submits /\ req'[s].id = stdin[1].id /\ s = stdin[1].slot
        BY <2>2, Behind DEF Begun, Submits, EngineTypes
      <3>2. QED
        BY <3>1 DEF Held
    <2>3. QED
      BY <2>1, <2>2 DEF EngineMove
  <1>4. QED
    BY <1>2, <1>3 DEF Held

LEMMA EventsPrinted ==
  ASSUME EngineTypes, NEW x, NEW w, EngineMove(x, w)
  PROVE  /\ stdout' \in Seq(Events)
         /\ \A i \in 1..Len(stdout') :
              \/ i \in 1..Len(stdout) /\ stdout'[i] = stdout[i]
              \/ stdout'[i].id = x /\ (stdout'[i].kind \in Answers => Quiet(x)')
  <1>1. /\ w \in Seq(Events) /\ Len(w) \in Nat /\ \A i \in 1..Len(w) : w[i].id = x
        /\ stdout' = stdout \o w /\ stdout \in Seq(Events)
    BY AboutIs DEF EngineMove, EngineTypes
  <1>2. /\ stdout' \in Seq(Events) /\ Len(stdout) \in Nat /\ Len(stdout') = Len(stdout) + Len(w)
        /\ \A i \in 1..Len(stdout) : stdout'[i] = stdout[i]
    BY <1>1
  <1>3. ASSUME NEW i \in 1..Len(stdout'), i \notin 1..Len(stdout)
        PROVE  i - Len(stdout) \in 1..Len(w) /\ stdout'[i] = w[i - Len(stdout)]
    BY <1>1, <1>2, <1>3
  <1>4. QED
    BY <1>1, <1>2, <1>3 DEF EngineMove

LEMMA EngineKeeps ==
  ASSUME FlowInv, UNCHANGED <<life, kind, linkVars>>, NEW x, NEW w, EngineMove(x, w), EngineKind
  PROVE  FlowInv'
  <1> USE DEF linkVars
  <1>1. PICK d \in {0, 1} :
           /\ \A j \in 1..Len(stdin') : j + d \in 1..Len(stdin) /\ stdin'[j] = stdin[j + d]
           /\ \A j \in Submits' : j + d \in Submits /\ j \in 1..Len(stdin')
           /\ d = 1 => stdin # <<>> /\ Head(stdin) = stdin[1] /\ 1 \in 1..Len(stdin)
           /\ d = 0 => stdin' = stdin
    BY FramesLeft DEF EngineMove, FlowInv
  <1>2. Held' \subseteq Held
    BY EngineHolds DEF FlowInv
  <1>3. /\ stdout' \in Seq(Events)
        /\ \A i \in 1..Len(stdout') :
             \/ i \in 1..Len(stdout) /\ stdout'[i] = stdout[i]
             \/ stdout'[i].id = x /\ (stdout'[i].kind \in Answers => Quiet(x)')
    BY EventsPrinted DEF FlowInv
  <1>4. LinkInv'
    BY QuietStep DEF FlowInv
  <1>5. GatewayTypes'
    BY DEF FlowInv, GatewayTypes, Busy
  <1>6. \A c : Sent(c)' <=> Sent(c)
    BY DEF Sent
  <1>7. \A p \in Held : Sent(p[1])
    BY DEF Held, FlowInv, Speaks, Submits
  <1>8. Speaks'
    <2>1. \A i \in 1..Len(stdin') : Sent(stdin'[i].id)
      BY <1>1 DEF FlowInv, Speaks
    <2>2. \A i \in 1..Len(stdout') : Sent(stdout'[i].id)
      BY <1>3 DEF FlowInv, Speaks, EngineMove
    <2>3. \A s \in Active' : <<req'[s].id, s>> \in Held
      BY <1>2 DEF Held
    <2>4. \A s \in Active' : Sent(req'[s].id)
      BY <1>7, <2>3
    <2>5. ASSUME job'.phase # "read" PROVE Sent(job'.id)
      <3>1. CASE KeptJob
        BY <2>5, <3>1 DEF KeptJob, FlowInv, Speaks
      <3>2. CASE stdin # <<>> /\ BegunJob
        BY <3>2, Behind DEF BegunJob, FlowInv, Speaks, EngineTypes
      <3>3. QED
        BY <3>1, <3>2 DEF EngineMove
    <2>6. disp'.pc = "put" => Sent(disp'.event.id)
      BY DEF FlowInv, Speaks
    <2>7. QED
      BY <1>6, <2>1, <2>2, <2>4, <2>5, <2>6 DEF Speaks
  <1>9. FirstFrame'
    <2> SUFFICES ASSUME NEW j \in Submits'
                 PROVE  /\ \A i \in 1..j - 1 : stdin'[i].id # stdin'[j].id
                        /\ \A s \in Active' : req'[s].id # stdin'[j].id
                        /\ job'.phase # "read" => job'.id # stdin'[j].id
      BY DEF FirstFrame
    <2>1. /\ j + d \in Submits /\ stdin'[j] = stdin[j + d] /\ j \in 1..Len(stdin')
          /\ Len(stdin') \in Nat
      BY <1>1 DEF EngineKind, EngineTypes
    <2>2. /\ \A i \in 1..j + d - 1 : stdin[i].id # stdin[j + d].id
          /\ \A s \in Active : req[s].id # stdin[j + d].id
          /\ job.phase # "read" => job.id # stdin[j + d].id
      BY <2>1 DEF FlowInv, FirstFrame
    <2>3. \A i \in 1..j - 1 : i \in 1..Len(stdin') /\ i + d \in 1..j + d - 1
      BY <2>1
    <2>4. \A i \in 1..j - 1 : stdin'[i].id # stdin'[j].id
      BY <1>1, <2>1, <2>2, <2>3
    <2>5. d = 1 => 1 \in 1..j + d - 1 /\ Head(stdin) = stdin[1]
      BY <1>1, <2>1
    <2>6. d = 1 => Head(stdin).id # stdin'[j].id
      BY <2>1, <2>2, <2>5
    <2>7. stdin # <<>> /\ stdin' = Tail(stdin) => d = 1
      BY <1>1, Behind DEF FlowInv, EngineTypes
    <2>8. \A s \in Active' : req'[s].id # stdin'[j].id
      BY <2>1, <2>2, <2>6, <2>7 DEF EngineMove, Kept, Begun
    <2>9. job'.phase # "read" => job'.id # stdin'[j].id
      BY <2>1, <2>2, <2>6, <2>7 DEF EngineMove, KeptJob, BegunJob
    <2>10. QED
      BY <2>4, <2>8, <2>9
  <1>10. Apart'
    <2>1. \A s, t \in Active' : req'[s].id = req'[t].id => s = t
      <3> SUFFICES ASSUME NEW s \in Active', NEW t \in Active', req'[s].id = req'[t].id
                   PROVE  s = t
        OBVIOUS
      <3>1. CASE Kept(s) /\ Kept(t)
        <4>1. s \in Active /\ t \in Active /\ req[s].id = req[t].id
          BY <3>1 DEF Kept
        <4>2. Apart
          BY DEF FlowInv
        <4>3. QED
          BY <4>1, <4>2 DEF Apart
      <3>2. ASSUME NEW u \in Active, stdin # <<>>, Head(stdin).op = "SUBMIT"
            PROVE  req[u].id # Head(stdin).id
        <4>1. 1 \in Submits /\ Head(stdin) = stdin[1]
          BY <3>2, Behind DEF Submits, FlowInv, EngineTypes
        <4>2. QED
          BY <4>1 DEF FlowInv, FirstFrame
      <3>3. CASE stdin # <<>> /\ (Begun(s) \/ Begun(t))
        BY <3>2, <3>3 DEF Kept, Begun, EngineMove
      <3>4. QED
        BY <3>1, <3>3 DEF EngineMove
    <2>2. QED
      BY <1>2, <2>1 DEF FlowInv, Apart, Busy
  <1>11. Owned'
    <2> SUFFICES ASSUME NEW p \in Held'
                 PROVE  /\ p[1] \in Busy \/ closing # "open"
                        /\ \A i \in 1..Len(stdout') : stdout'[i].id = p[1] => stdout'[i].kind \notin Answers
                        /\ ~InHand(p[1])
                        /\ ~NoneIn(call[p[1]].inbox) => closing # "open"
      BY DEF Owned, Busy, InHand, NoneIn
    <2>1. p \in Held
      BY <1>2
    <2>2. Quiet(x)' => p[1] # x
      BY DEF Quiet, Held
    <2>3. \A i \in 1..Len(stdout') : stdout'[i].id = p[1] => stdout'[i].kind \notin Answers
      BY <1>3, <2>1, <2>2 DEF FlowInv, Owned
    <2>4. QED
      BY <2>1, <2>3 DEF FlowInv, Owned
  <1>12. Early'
    BY DEF FlowInv, Early, NoneIn
  <1>13. QED
    BY <1>4, <1>5, <1>8, <1>9, <1>10, <1>11, <1>12 DEF FlowInv, EngineKind
-----------------------------------------------------------------------------
(* The steps of run_serve_mux.                                              *)

EngineActs == \E x, w : EngineMove(x, w) /\ EngineCounts(x, w) /\ EngineKind

LEMMA ActiveIs == Active = {s \in Slots : req[s].active}
  BY DEF Active, Mux!Active

\* A request in a slot leaves room for the tokens it may still get.
HasRoom(r, n) == r.active => /\ r.emitted < r.maximum
                             /\ n + (r.maximum - r.emitted) <= MaxCtx - 2

\* One slot's request is replaced.
LEMMA SlotChanges ==
  ASSUME FlowInv, kind = "glm", life = "up", UNCHANGED <<kind, life, job, disp>>,
         stdin' \in Seq(Frames), stdout' \in Seq(Events),
         NEW s \in Slots, NEW r \in ServeReqs, req' = [req EXCEPT ![s] = r],
         len' \in [Slots -> Nat], \A t \in Slots \ {s} : len'[t] = len[t],
         turn' \in {"poll", "decode", "rows", "interrupt"},
         rows' \subseteq Active', turn' # "rows" => rows' = {},
         HasRoom(r, len'[s])
  PROVE  /\ EngineKind
         /\ req'[s] = r /\ \A t \in Slots \ {s} : req'[t] = req[t]
         /\ Active' = IF r.active THEN Active \union {s} ELSE Active \ {s}
  <1>1. /\ req' \in [Slots -> ServeReqs] /\ req'[s] = r
        /\ \A t \in Slots \ {s} : req'[t] = req[t]
    BY DEF FlowInv, EngineTypes
  <1>2. Active' = {t \in Slots : req'[t].active} /\ Active = {t \in Slots : req[t].active}
    BY DEF Active, Mux!Active
  <1>3. Active' = IF r.active THEN Active \union {s} ELSE Active \ {s}
    BY <1>1, <1>2
  <1>4. EngineTypes'
    BY <1>1 DEF FlowInv, EngineTypes
  <1>5. Silent'
    BY DEF FlowInv, Silent
  <1>6. Room'
    <2>1. ASSUME NEW t \in Active'
          PROVE  /\ req'[t].emitted < req'[t].maximum
                 /\ len'[t] + (req'[t].maximum - req'[t].emitted) <= MaxCtx - 2
      <3>1. CASE t = s
        BY <1>1, <1>2, <2>1, <3>1 DEF HasRoom
      <3>2. CASE t # s
        <4>1. t \in Active /\ req'[t] = req[t] /\ len'[t] = len[t]
          BY <1>1, <1>2, <2>1, <3>2
        <4>2. QED
          BY <4>1 DEF FlowInv, Room
      <3>3. QED
        BY <3>1, <3>2
    <2>2. job'.pos <= QwnCtx
      BY DEF FlowInv, Room
    <2>3. QED
      BY <2>1, <2>2 DEF Room
  <1>7. QED
    BY <1>1, <1>3, <1>4, <1>5, <1>6 DEF EngineKind

\* SUBMIT frames behind the one read are about other calls.
LEMMA BehindHead ==
  ASSUME FlowInv, stdin # <<>>, stdin' = Tail(stdin)
  PROVE  /\ stdin' \in Seq(Frames) /\ Head(stdin) \in Frames /\ Sent(Head(stdin).id)
         /\ \A j \in Submits' : stdin'[j].id # Head(stdin).id
         /\ \A j \in Submits' : \E i \in Submits : stdin'[j] = stdin[i]
  <1>1. /\ stdin' \in Seq(Frames) /\ Head(stdin) \in Frames /\ Head(stdin) = stdin[1]
        /\ 1 \in 1..Len(stdin) /\ Len(stdin) \in Nat
        /\ \A j \in 1..Len(stdin') : j + 1 \in 1..Len(stdin) /\ stdin'[j] = stdin[j + 1]
    BY Behind DEF FlowInv, EngineTypes
  <1>2. \A j \in Submits' : j \in 1..Len(stdin') /\ j + 1 \in Submits
    BY <1>1 DEF Submits
  <1>3. \A j \in Submits' : 1 \in 1..(j + 1) - 1
    BY <1>2
  <1>4. ASSUME NEW j \in Submits' PROVE stdin'[j].id # Head(stdin).id
    <2>1. FirstFrame
      BY DEF FlowInv
    <2>2. stdin[1].id # stdin[j + 1].id
      BY <1>2, <1>3, <2>1 DEF FirstFrame
    <2>3. QED
      BY <1>1, <1>2, <2>2
  <1>5. Sent(Head(stdin).id)
    BY <1>1 DEF FlowInv, Speaks
  <1>6. QED
    BY <1>1, <1>2, <1>4, <1>5

\* A request goes on or ends: a row of a batch, an interrupt, a CANCEL.
LEMMA SlotGoesOn ==
  ASSUME FlowInv, kind = "glm", life = "up", UNCHANGED <<kind, life, job, linkVars>>,
         stdin' = stdin \/ (stdin # <<>> /\ stdin' = Tail(stdin)),
         NEW s \in Active, NEW r \in ServeReqs, r.id = req[s].id, req' = [req EXCEPT ![s] = r],
         NEW w, IsAbout(w, r.id), stdout' = stdout \o w,
         (\E i \in 1..Len(w) : w[i].kind \in Answers) => ~r.active,
         NEW f \in Nat, Counts(w, req[s].emitted, f), r.active => f = r.emitted,
         len' \in [Slots -> Nat], \A t \in Slots \ {s} : len'[t] = len[t],
         turn' \in {"poll", "decode", "rows", "interrupt"},
         rows' \subseteq Active', turn' # "rows" => rows' = {},
         HasRoom(r, len'[s])
  PROVE  EngineActs
  <1> DEFINE x == r.id
  <1> USE DEF linkVars
  <1>1. s \in Slots
    BY ActiveIs
  <1>2. stdin' \in Seq(Frames) /\ stdout' \in Seq(Events)
    <2>1. w \in Seq(Events) /\ stdout \in Seq(Events)
      BY AboutIs DEF FlowInv, EngineTypes
    <2>2. stdin' \in Seq(Frames)
      BY BehindHead DEF FlowInv, EngineTypes
    <2>3. QED
      BY <2>1, <2>2
  <1>3. /\ EngineKind /\ req'[s] = r /\ \A t \in Slots \ {s} : req'[t] = req[t]
        /\ Active' = IF r.active THEN Active \union {s} ELSE Active \ {s}
    BY <1>1, <1>2, SlotChanges
  <1>4. \A t \in Active' : Kept(t) /\ t \in Slots
    BY <1>1, <1>3, ActiveIs DEF Kept
  <1>5. Sent(x)
    BY DEF FlowInv, Speaks
  <1>6. \A j \in Submits' : stdin'[j].id # x
    <2>1. \A j \in Submits : stdin[j].id # x
      BY DEF FlowInv, FirstFrame
    <2>2. CASE stdin' = stdin
      BY <2>1, <2>2 DEF Submits
    <2>3. CASE stdin # <<>> /\ stdin' = Tail(stdin)
      BY <2>1, <2>3, BehindHead
    <2>4. QED
      BY <2>2, <2>3
  <1>7. ASSUME NEW t \in Active, req[t].id = x PROVE t = s
    <2>1. Apart
      BY DEF FlowInv
    <2>2. QED
      BY <1>7, <2>1 DEF Apart
  <1>8. \A t \in Active' : req'[t].id = x => t = s
    BY <1>4, <1>7 DEF Kept
  <1>9. ~r.active => Quiet(x)'
    BY <1>3, <1>6, <1>8 DEF Quiet
  <1>10. job'.phase = "read" /\ job.phase = "read" /\ KeptJob
    BY DEF FlowInv, Silent, KeptJob
  <1>11. EngineMove(x, w)
    BY <1>4, <1>5, <1>9, <1>10 DEF EngineMove
  <1>12. EngineCounts(x, w)
    <2>1. ASSUME NEW e \in Nat, Reached(x, e) PROVE Counts(w, e, f) /\ Reached(x, f)'
      <3>1. e = req[s].emitted
        BY <2>1 DEF Reached
      <3>2. \A t \in Active' : req'[t].id = x => f = req'[t].emitted
        BY <1>3, <1>8
      <3>3. call'[x].pc # "writing"
        BY <1>5 DEF Sent
      <3>4. Reached(x, f)'
        BY <1>6, <1>10, <3>2, <3>3 DEF Reached
      <3>5. QED
        BY <3>1, <3>4
    <2>2. \A t \in Active' : req'[t].id # x => Kept(t) /\ req'[t].emitted = req[t].emitted
      BY <1>3, <1>4
    <2>3. QED
      BY <1>10, <2>1, <2>2 DEF EngineCounts
  <1>13. QED
    BY <1>3, <1>11, <1>12 DEF EngineActs

LEMMA ActiveRequest ==
  ASSUME FlowInv, NEW s \in Active
  PROVE  /\ s \in Slots /\ req[s] \in ServeReqs /\ req[s].active /\ len[s] \in Nat
         /\ req[s].emitted < req[s].maximum
         /\ len[s] + (req[s].maximum - req[s].emitted) <= MaxCtx - 2
         /\ req \in [Slots -> ServeReqs] /\ len \in [Slots -> Nat]
  BY ActiveIs DEF FlowInv, EngineTypes, Room

\* A record with a request changed.
LEMMA Inactive ==
  ASSUME req \in [Slots -> ServeReqs], NEW s \in Slots
  PROVE  /\ [req EXCEPT ![s].active = FALSE] = [req EXCEPT ![s] = [req[s] EXCEPT !.active = FALSE]]
         /\ [req[s] EXCEPT !.active = FALSE] \in ServeReqs
         /\ [req[s] EXCEPT !.active = FALSE].id = req[s].id
         /\ ~[req[s] EXCEPT !.active = FALSE].active
  <1>1. req[s] \in ServeReqs
    OBVIOUS
  <1>2. QED
    BY <1>1 DEF ServeReqs

LEMMA Interrupts ==
  ASSUME FlowInv, kind = "glm", life = "up", UNCHANGED <<kind, life, job, linkVars>>, Mux!Interrupt
  PROVE  EngineActs
  <1>1. PICK s \in Active :
          /\ stdout' = stdout \o <<Done(req[s].id, req[s].emitted)>>
          /\ req' = [req EXCEPT ![s].active = FALSE]
          /\ turn \in {"poll", "interrupt"} /\ turn' \in {"poll", "interrupt"}
          /\ UNCHANGED <<stdin, len, rows>>
    BY DEF Mux!Interrupt, Mux!Emit, Mux!Done, Done, Active
  <1> DEFINE r == [req[s] EXCEPT !.active = FALSE]
             w == <<Done(req[s].id, req[s].emitted)>>
  <1>2. /\ s \in Slots /\ r \in ServeReqs /\ r.id = req[s].id /\ ~r.active
        /\ req' = [req EXCEPT ![s] = r] /\ req[s].emitted \in Nat /\ r.id \in Nat
    BY <1>1, ActiveRequest, Inactive DEF ServeReqs
  <1>3. Done(r.id, req[s].emitted) \in Events
    BY <1>2, EventsAre DEF Whys
  <1>4. IsAbout(w, r.id) /\ Counts(w, req[s].emitted, req[s].emitted)
    BY <1>2, <1>3 DEF IsAbout, Counts, Fits, After, Done
  <1>5. rows' = {} /\ turn' # "rows" /\ rows' \subseteq Active'
    BY <1>1 DEF FlowInv, Room
  <1>6. len' \in [Slots -> Nat] /\ \A t \in Slots \ {s} : len'[t] = len[t]
    BY <1>1 DEF FlowInv, EngineTypes
  <1> HIDE DEF r, w
  <1>7. stdout' = stdout \o w
    BY <1>1 DEF w
  <1>8. turn' \in {"poll", "decode", "rows", "interrupt"}
    BY <1>1
  <1>9. HasRoom(r, len'[s])
    BY <1>2 DEF HasRoom
  <1>10. QED
    BY <1>1, <1>2, <1>4, <1>5, <1>6, <1>7, <1>8, <1>9, SlotGoesOn

LEMMA Joined ==
  ASSUME NEW a, NEW b
  PROVE  <<a>> \o <<b>> = <<a, b>> /\ <<a>> \o <<>> = <<a>>
  <1> DEFINE u == <<a>> \o <<b>>
             v == <<a>> \o <<>>
  <1>1. <<a>> \in Seq({a, b}) /\ <<b>> \in Seq({a, b}) /\ <<>> \in Seq({a, b})
    OBVIOUS
  <1>2. u \in Seq({a, b}) /\ Len(u) = 2 /\ u[1] = a /\ u[2] = b
    BY <1>1
  <1>3. v \in Seq({a, b}) /\ Len(v) = 1 /\ v[1] = a
    BY <1>1
  <1> HIDE DEF u, v
  <1>4. u = <<a, b>> /\ v = <<a>>
    BY <1>2, <1>3
  <1>5. QED
    BY <1>4 DEF u, v

LEMMA RowStep ==
  ASSUME FlowInv, kind = "glm", life = "up", UNCHANGED <<kind, life, job, linkVars>>, Mux!MuxRow
  PROVE  EngineActs
  <1>1. PICK s \in Mux!Batch, stop \in BOOLEAN :
          /\ stdout' = stdout \o Mux!Row(req[s], stop)
          /\ req' = [req EXCEPT ![s] = Mux!Advanced(req[s], stop)]
          /\ len' = [len EXCEPT ![s] = @ + 1]
          /\ rows' = Mux!Batch \ {s} /\ turn' = (IF Mux!Batch = {s} THEN "poll" ELSE "rows")
          /\ stdin' = stdin
    BY DEF Mux!MuxRow, Mux!Emit
  <1> DEFINE r == Mux!Advanced(req[s], stop)
             w == Mux!Row(req[s], stop)
             x == req[s].id
             k == req[s].emitted
             f == IF stop THEN k ELSE k + 1
  <1>2. Mux!Batch \subseteq Active
    BY DEF Mux!Batch, FlowInv, Room, Active
  <1>3. /\ s \in Active /\ s \in Slots /\ req[s] \in ServeReqs /\ req[s].active /\ len[s] \in Nat
        /\ k < req[s].maximum /\ len[s] + (req[s].maximum - k) <= MaxCtx - 2
        /\ req \in [Slots -> ServeReqs] /\ len \in [Slots -> Nat]
    BY <1>1, <1>2, ActiveRequest
  <1>4. k \in Nat /\ f \in Nat /\ x \in Nat /\ req[s].maximum \in Nat /\ k + 1 \in Nat
    BY <1>3 DEF ServeReqs
  <1>5. /\ r \in ServeReqs /\ r.id = x /\ r.maximum = req[s].maximum
        /\ r.emitted = f /\ (r.active <=> (~stop /\ k + 1 < req[s].maximum))
    <2>1. CASE stop
      <3>1. r = [req[s] EXCEPT !.active = FALSE]
        BY <2>1 DEF Mux!Advanced
      <3> HIDE DEF r
      <3>2. QED
        BY <1>3, <1>4, <2>1, <3>1 DEF ServeReqs
    <2>2. CASE ~stop
      <3>1. r = [req[s] EXCEPT !.emitted = @ + 1, !.active = k + 1 < req[s].maximum]
        BY <2>2 DEF Mux!Advanced
      <3> HIDE DEF r
      <3> DEFINE on == k + 1 < req[s].maximum
      <3>2. on \in BOOLEAN /\ r = [req[s] EXCEPT !.emitted = k + 1, !.active = on]
        BY <3>1
      <3> HIDE DEF on
      <3>3. /\ r \in ServeReqs /\ r.id = x /\ r.maximum = req[s].maximum
            /\ r.emitted = k + 1 /\ r.active = on
        BY <1>3, <1>4, <3>2 DEF ServeReqs
      <3>4. QED
        BY <2>2, <3>3 DEF on
    <2>3. QED
      BY <2>1, <2>2
  <1>6. /\ Data(x, k + 1) \in Events /\ Done(x, k) \in Events /\ Done(x, k + 1) \in Events
        /\ Data(x, k + 1).id = x /\ Done(x, k).id = x /\ Done(x, k + 1).id = x
        /\ Data(x, k + 1).kind = "DATA" /\ Data(x, k + 1).n = k + 1
        /\ Done(x, k).kind = "DONE" /\ Done(x, k).n = k
        /\ Done(x, k + 1).kind = "DONE" /\ Done(x, k + 1).n = k + 1
    BY <1>4, EventsAre DEF Whys, Data, Done
  <1>7. /\ IsAbout(w, x) /\ Counts(w, k, f)
        /\ (\E i \in 1..Len(w) : w[i].kind \in Answers) => ~r.active
    <2>1. CASE stop
      <3>1. w = <<Done(x, k)>>
        BY <2>1 DEF Mux!Row, Mux!Done, Done
      <3>2. IsAbout(w, x) /\ Counts(w, k, f)
        BY <2>1, <3>1, <1>6 DEF IsAbout, Counts, Fits, After
      <3>3. QED
        BY <1>5, <2>1, <3>2
    <2>2. CASE ~stop /\ k + 1 >= req[s].maximum
      <3>1. w = <<Data(x, k + 1)>> \o <<Done(x, k + 1)>>
        BY <2>2 DEF Mux!Row, Mux!Done, Mux!Data, Done, Data
      <3> HIDE DEF w, f, x, k
      <3>2. w = <<Data(x, k + 1), Done(x, k + 1)>>
        BY <3>1, Joined
      <3>3. IsAbout(w, x)
        BY <3>2, <1>6 DEF IsAbout
      <3>4. f = k + 1
        BY <2>2 DEF f
      <3>5. Counts(w, k, f)
        BY <3>2, <3>4, <1>4, <1>6 DEF Counts, Fits, After
      <3>6. ~r.active
        BY <1>3, <1>4, <1>5, <2>2
      <3>7. QED
        BY <3>3, <3>5, <3>6
    <2>3. CASE ~stop /\ ~(k + 1 >= req[s].maximum)
      <3>1. w = <<Data(x, k + 1)>> \o <<>>
        BY <2>3 DEF Mux!Row, Mux!Done, Mux!Data, Done, Data
      <3>2. w = <<Data(x, k + 1)>>
        BY <3>1, Joined
      <3> HIDE DEF w, x, k
      <3>3. IsAbout(w, x) /\ Counts(w, k, f)
        BY <2>3, <3>2, <1>6 DEF IsAbout, Counts, Fits, After
      <3>4. \A i \in 1..Len(w) : w[i].kind \notin Answers
        BY <3>2, <1>6 DEF Answers
      <3>5. QED
        BY <3>3, <3>4
    <2>4. QED
      BY <2>1, <2>2, <2>3
  <1>8. /\ len' \in [Slots -> Nat] /\ len'[s] = len[s] + 1
        /\ \A t \in Slots \ {s} : len'[t] = len[t]
    BY <1>1, <1>3
  <1>9. HasRoom(r, len'[s])
    BY <1>3, <1>4, <1>5, <1>8, EngineAssumption DEF HasRoom
  <1>10. rows' \subseteq Active' /\ turn' \in {"poll", "decode", "rows", "interrupt"}
         /\ (turn' # "rows" => rows' = {})
    <2>1. ASSUME NEW t \in rows' PROVE t \in Active'
      <3>1. t \in Active /\ t # s /\ t \in Slots /\ req[t].active
        BY <1>1, <1>2, <2>1, ActiveIs
      <3>2. req'[t] = req[t]
        BY <1>1, <1>3, <3>1
      <3>3. QED
        BY <3>1, <3>2 DEF Active, Mux!Active
    <2>2. QED
      BY <1>1, <2>1
  <1> HIDE DEF r, w, f
  <1>11. req' = [req EXCEPT ![s] = r] /\ stdout' = stdout \o w
    BY <1>1 DEF r, w
  <1>12. QED
    BY <1>1, <1>3, <1>4, <1>5, <1>7, <1>8, <1>9, <1>10, <1>11, SlotGoesOn

\* A frame is answered with an error and changes nothing.
LEMMA FrameRefused ==
  ASSUME FlowInv, job.phase = "read", life = "up", UNCHANGED <<kind, life, job, linkVars, req, len, rows>>,
         stdin # <<>>, stdin' = Tail(stdin), NEW why \in Whys, NEW x, x = Head(stdin).id,
         stdout' = stdout \o <<Error(x, why)>>, \A s \in Active : req[s].id # x,
         turn' = turn \/ (turn = "poll" /\ turn' \in {"poll", "decode"})
  PROVE  EngineActs
  <1> DEFINE w == <<Error(x, why)>>
  <1> USE DEF linkVars
  <1>1. /\ stdin' \in Seq(Frames) /\ Sent(x)
        /\ \A j \in Submits' : stdin'[j].id # x
        /\ \A j \in Submits' : \E i \in Submits : stdin'[j] = stdin[i]
    BY BehindHead
  <1>2. /\ Error(x, why) \in Events /\ Error(x, why).id = x /\ Error(x, why).kind = "ERROR"
    BY <1>1, EventsAre, IdsAreNat DEF Error, Sent
  <1>5. /\ Active' = Active /\ req' = req /\ call' = call
        /\ \A s \in Active : req[s].id # x
    BY DEF Active, Mux!Active
  <1>3. IsAbout(w, x) /\ \A e \in Nat : Counts(w, e, e)
    BY <1>2 DEF IsAbout, Counts, Fits, After
  <1>4. stdout' \in Seq(Events) /\ stdout' = stdout \o w
    BY <1>2 DEF FlowInv, EngineTypes
  <1>6. EngineTypes' /\ Silent' /\ Room'
    <2>1. EngineTypes'
      BY <1>1, <1>4 DEF FlowInv, EngineTypes
    <2>2. Silent'
      BY <1>5 DEF FlowInv, Silent
    <2>3. Room'
      BY <1>5 DEF FlowInv, Room
    <2>4. QED
      BY <2>1, <2>2, <2>3
  <1>7. Quiet(x)'
    BY <1>1, <1>5 DEF Quiet
  <1>8. KeptJob /\ \A s \in Active' : Kept(s)
    BY <1>5 DEF KeptJob, Kept
  <1> HIDE DEF w
  <1>9. EngineMove(x, w)
    BY <1>1, <1>3, <1>4, <1>7, <1>8 DEF EngineMove
  <1>10. EngineCounts(x, w)
    <2>1. ASSUME NEW e \in Nat, Reached(x, e) PROVE Reached(x, e)'
      <3>1. call'[x].pc # "writing" /\ \A s \in Active' : req'[s].id # x
        BY <1>1, <1>5 DEF Sent
      <3>2. job'.phase # "generate"
        BY DEF FlowInv, Silent
      <3>3. QED
        BY <1>1, <3>1, <3>2 DEF Reached
    <2>2. QED
      BY <1>3, <1>8, <2>1 DEF EngineCounts
  <1>11. QED
    BY <1>6, <1>9, <1>10 DEF EngineActs, EngineKind

\* A SUBMIT is taken: its slot has a new request.
LEMMA SlotBegins ==
  ASSUME FlowInv, kind = "glm", life = "up", UNCHANGED <<kind, life, job, linkVars, rows>>,
         stdin # <<>>, Head(stdin).op = "SUBMIT", stdin' = Tail(stdin),
         NEW s \in Slots, s = Head(stdin).slot, ~req[s].active,
         \A t \in Active : req[t].id # Head(stdin).id,
         NEW r \in ServeReqs, r.id = Head(stdin).id, req' = [req EXCEPT ![s] = r],
         NEW w, IsAbout(w, r.id), stdout' = stdout \o w,
         (\E i \in 1..Len(w) : w[i].kind \in Answers) => ~r.active,
         NEW f \in Nat, Counts(w, 0, f), r.active => f = r.emitted,
         NEW n \in Nat, len' = [len EXCEPT ![s] = n],
         turn = "poll", turn' \in {"poll", "decode"},
         HasRoom(r, n)
  PROVE  EngineActs
  <1> DEFINE x == r.id
  <1> USE DEF linkVars
  <1>1. /\ stdin' \in Seq(Frames) /\ Sent(x) /\ x = Head(stdin).id
        /\ \A j \in Submits' : stdin'[j].id # x
        /\ \A j \in Submits' : \E i \in Submits : stdin'[j] = stdin[i]
    BY BehindHead
  <1>2. stdout' \in Seq(Events)
    <2>1. w \in Seq(Events) /\ stdout \in Seq(Events)
      BY AboutIs DEF FlowInv, EngineTypes
    <2>2. QED
      BY <2>1
  <1>3. /\ len' \in [Slots -> Nat] /\ len'[s] = n
        /\ \A t \in Slots \ {s} : len'[t] = len[t]
    BY DEF FlowInv, EngineTypes
  <1>4. rows' = {} /\ turn' # "rows" /\ turn' \in {"poll", "decode", "rows", "interrupt"}
    BY DEF FlowInv, Room
  <1>5. /\ EngineKind /\ req'[s] = r /\ \A t \in Slots \ {s} : req'[t] = req[t]
        /\ Active' = IF r.active THEN Active \union {s} ELSE Active \ {s}
    <2>1. HasRoom(r, len'[s])
      BY <1>3
    <2>2. /\ stdin' \in Seq(Frames) /\ stdout' \in Seq(Events)
          /\ UNCHANGED <<kind, life, job, disp>>
      BY <1>1, <1>2
    <2>3. /\ len' \in [Slots -> Nat] /\ \A t \in Slots \ {s} : len'[t] = len[t]
          /\ turn' \in {"poll", "decode", "rows", "interrupt"}
          /\ rows' \subseteq Active' /\ (turn' # "rows" => rows' = {})
      BY <1>3, <1>4
    <2>4. FlowInv /\ kind = "glm" /\ life = "up" /\ s \in Slots /\ r \in ServeReqs
          /\ req' = [req EXCEPT ![s] = r]
      OBVIOUS
    <2>5. QED
      BY ONLY <2>1, <2>2, <2>3, <2>4, SlotChanges
  <1>6. \A t \in Active' : IF t = s THEN r.active /\ Begun(t) ELSE Kept(t) /\ req'[t] = req[t]
    BY <1>5, ActiveIs DEF Kept, Begun
  <1>7. ~r.active => Quiet(x)'
    BY <1>1, <1>6 DEF Quiet, Kept
  <1>8. job'.phase = "read" /\ job.phase = "read" /\ KeptJob
    BY DEF FlowInv, Silent, KeptJob
  <1>9. EngineMove(x, w)
    BY <1>1, <1>6, <1>7, <1>8 DEF EngineMove
  <1>10. EngineCounts(x, w)
    <2>1. ASSUME NEW e \in Nat, Reached(x, e) PROVE Counts(w, e, f) /\ Reached(x, f)'
      <3>1. 1 \in Submits /\ stdin[1].id = x
        BY <1>1, Behind DEF Submits, FlowInv, EngineTypes
      <3>2. e = 0
        BY <2>1, <3>1 DEF Reached
      <3>3. call'[x].pc # "writing"
        BY <1>1 DEF Sent
      <3>4. \A t \in Active' : req'[t].id = x => f = req'[t].emitted
        BY <1>1, <1>5, <1>6 DEF Kept
      <3>5. Reached(x, f)'
        BY <1>1, <1>8, <3>3, <3>4 DEF Reached
      <3>6. QED
        BY <3>2, <3>5
    <2>2. \A t \in Active' : req'[t].id # x => Kept(t) /\ req'[t].emitted = req[t].emitted
      BY <1>5, <1>6
    <2>3. QED
      BY <1>8, <2>1, <2>2 DEF EngineCounts
  <1>11. QED
    BY <1>5, <1>9, <1>10 DEF EngineActs

LEMMA Cancels ==
  ASSUME FlowInv, kind = "glm", life = "up", UNCHANGED <<kind, life, job, linkVars>>, Mux!MuxCancel
  PROVE  EngineActs
  <1> DEFINE id == Head(stdin).id
             mine == {s \in Active : req[s].id = id}
             why == IF mine = {} THEN "NOT_FOUND" ELSE "CANCELLED"
  <1>1. /\ turn = "poll" /\ stdin # <<>> /\ stdin' = Tail(stdin)
        /\ req' = [s \in Slots |-> [req[s] EXCEPT !.active = @ /\ s \notin mine]]
        /\ stdout' = stdout \o <<Error(id, why)>>
        /\ UNCHANGED <<len, rows>>
    BY DEF Mux!MuxCancel, Mux!Emit, Mux!Read, Mux!Error, Error, Mux!Active, Active
  <1>2. turn' \in {"poll", "decode"}
    BY DEF Mux!MuxCancel, Mux!NextTurn
  <1>3. rows = {} /\ rows' = {}
    BY <1>1 DEF FlowInv, Room
  <1>4. req \in [Slots -> ServeReqs] /\ len \in [Slots -> Nat]
    BY DEF FlowInv, EngineTypes
  <1>5. Active \subseteq Slots
    BY ActiveIs
  <1>6. CASE mine = {}
    <2>1. ASSUME NEW s \in Slots
          PROVE  [req[s] EXCEPT !.active = @ /\ s \notin mine] = req[s]
      <3>1. req[s] \in ServeReqs /\ s \notin mine
        BY <1>4, <1>6
      <3> HIDE DEF mine
      <3>2. (req[s].active /\ s \notin mine) = req[s].active
        BY <3>1 DEF ServeReqs
      <3>3. [req[s] EXCEPT !.active = @ /\ s \notin mine] = [req[s] EXCEPT !.active = req[s].active]
        BY <3>2, Zenon
      <3>4. [req[s] EXCEPT !.active = req[s].active] = req[s]
        BY <3>1 DEF ServeReqs
      <3>5. QED
        BY <3>3, <3>4
    <2>2. req' = [s \in Slots |-> req[s]]
      BY <1>1, <2>1, Zenon
    <2>3. req' = req
      BY <1>4, <2>2
    <2>4. \A s \in Active : req[s].id # id
      BY <1>6
    <2>5. stdout' = stdout \o <<Error(id, "NOT_FOUND")>> /\ "NOT_FOUND" \in Whys
      BY <1>1, <1>6 DEF Whys
    <2> HIDE DEF mine
    <2>6. job.phase = "read"
      BY DEF FlowInv, Silent
    <2>7. QED
      BY <1>1, <1>2, <2>3, <2>4, <2>5, <2>6, FrameRefused
  <1>7. ASSUME NEW s \in mine PROVE EngineActs
    <2> DEFINE r == [req[s] EXCEPT !.active = FALSE]
               w == <<Error(id, "CANCELLED")>>
    <2>1. s \in Active /\ s \in Slots /\ req[s].id = id /\ req[s] \in ServeReqs
          /\ req[s].emitted \in Nat /\ req[s].active /\ id \in Nat
      BY <1>4, <1>5, <1>7, ActiveIs DEF ServeReqs
    <2>2. mine = {s}
      <3>1. \A t \in Active : req[t].id = id => t = s
        <4>1. Apart
          BY DEF FlowInv
        <4>2. QED
          BY <2>1, <4>1 DEF Apart
      <3>2. QED
        BY <2>1, <3>1
    <2> HIDE DEF mine
    <2>3. r \in ServeReqs /\ r.id = id /\ ~r.active
      BY <1>4, <2>1, Inactive
    <2>4. ASSUME NEW t \in Slots
          PROVE  [req[t] EXCEPT !.active = @ /\ t \notin mine] = IF t = s THEN r ELSE req[t]
      <3>1. CASE t = s
        <4>1. (req[s].active /\ s \notin mine) = FALSE
          BY <2>2
        <4>2. QED
          BY <3>1, <4>1, Zenon
      <3>2. CASE t # s
        <4>1. req[t] \in ServeReqs /\ t \notin mine
          BY <1>4, <2>2, <3>2
        <4>2. (req[t].active /\ t \notin mine) = req[t].active
          BY <4>1 DEF ServeReqs
        <4>3. [req[t] EXCEPT !.active = @ /\ t \notin mine] = [req[t] EXCEPT !.active = req[t].active]
          BY <4>2, Zenon
        <4>4. [req[t] EXCEPT !.active = req[t].active] = req[t]
          BY <4>1 DEF ServeReqs
        <4>5. QED
          BY <3>2, <4>3, <4>4
      <3>3. QED
        BY <3>1, <3>2
    <2>5. req' = [t \in Slots |-> IF t = s THEN r ELSE req[t]]
      BY <1>1, <2>4, Zenon
    <2> HIDE DEF r
    <2>6. req' = [req EXCEPT ![s] = r]
      BY <1>4, <2>5
    <2>7. stdout' = stdout \o w
      BY <1>1, <2>2
    <2> HIDE DEF id
    <2>8. Error(id, "CANCELLED") \in Events /\ "CANCELLED" \in Whys
      BY <2>1, EventsAre DEF Whys
    <2>9. IsAbout(w, r.id) /\ Counts(w, req[s].emitted, req[s].emitted)
      BY <2>3, <2>8 DEF IsAbout, Counts, Fits, After, Error
    <2>10. len' \in [Slots -> Nat] /\ \A t \in Slots \ {s} : len'[t] = len[t]
      BY <1>1, <1>4
    <2>11. rows' \subseteq Active' /\ (turn' # "rows" => rows' = {})
           /\ turn' \in {"poll", "decode", "rows", "interrupt"}
      BY <1>2, <1>3
    <2> HIDE DEF w
    <2>12. r.id = req[s].id /\ (stdin # <<>> /\ stdin' = Tail(stdin))
      BY <1>1, <2>1, <2>3
    <2>13. HasRoom(r, len'[s])
      BY <2>3 DEF HasRoom
    <2>14. QED
      BY <2>1, <2>3, <2>6, <2>7, <2>9, <2>10, <2>11, <2>12, <2>13, SlotGoesOn
  <1>8. QED
    BY <1>6, <1>7

\* The SUBMIT at the head of stdin finds its slot idle and its id unknown.
LEMMA HeadSubmit ==
  ASSUME FlowInv, stdin # <<>>, Head(stdin).op = "SUBMIT"
  PROVE  /\ Head(stdin) \in Submissions
         /\ Head(stdin).slot \notin Active
         /\ \A t \in Active : req[t].id # Head(stdin).id
  <1>1. Head(stdin) = stdin[1] /\ 1 \in 1..Len(stdin) /\ Head(stdin) \in Frames
    BY Behind DEF FlowInv, EngineTypes
  <1>2. 1 \in Submits
    BY <1>1 DEF Submits
  <1>3. Head(stdin) \in Submissions
    BY <1>1 DEF Frames
  <1>4. \A t \in Active : req[t].id # Head(stdin).id
    BY <1>1, <1>2 DEF FlowInv, FirstFrame
  <1>5. ASSUME Head(stdin).slot \in Active PROVE FALSE
    <2> DEFINE s == Head(stdin).slot
    <2>1. <<req[s].id, s>> \in Held /\ <<Head(stdin).id, s>> \in Held
      BY <1>1, <1>2, <1>5 DEF Held
    <2>2. Apart
      BY DEF FlowInv
    <2> HIDE DEF s
    <2>3. req[s].id = Head(stdin).id
      BY <2>1, <2>2 DEF Apart
    <2>4. QED
      BY <1>4, <1>5, <2>3 DEF s
  <1>6. QED
    BY <1>3, <1>4, <1>5

LEMMA SubmitRefused ==
  ASSUME FlowInv, kind = "glm", life = "up", UNCHANGED <<kind, life, job, linkVars>>, Mux!MuxSubmit,
         Mux!Refusal(Head(stdin)) # "none"
  PROVE  EngineActs
  <1> DEFINE x == Head(stdin).id
  <1>1. /\ turn = "poll" /\ stdin # <<>> /\ Head(stdin).op = "SUBMIT" /\ stdin' = Tail(stdin)
        /\ stdout' = stdout \o <<Error(x, Mux!Refusal(Head(stdin)))>>
        /\ UNCHANGED <<req, len, rows>>
    BY DEF Mux!MuxSubmit, Mux!Emit, Mux!Read, Mux!Error, Error
  <1>2. turn' \in {"poll", "decode"}
    BY DEF Mux!MuxSubmit, Mux!NextTurn
  <1>3. /\ Head(stdin) \in Submissions /\ Head(stdin).slot \notin Active
        /\ \A t \in Active : req[t].id # x
    BY <1>1, HeadSubmit
  <1>4. ~req[Head(stdin).slot].active
    BY <1>3, ActiveIs DEF Submissions
  <1>5. Mux!Refusal(Head(stdin)) = "EMPTY_PROMPT"
    BY <1>3, <1>4 DEF Mux!Refusal, Mux!Active, Active
  <1>6. stdout' = stdout \o <<Error(x, "EMPTY_PROMPT")>> /\ "EMPTY_PROMPT" \in Whys
    BY <1>1, <1>5 DEF Whys
  <1>7. job.phase = "read"
    BY DEF FlowInv, Silent
  <1>8. QED
    BY <1>1, <1>2, <1>3, <1>6, <1>7, FrameRefused

LEMMA SubmitTaken ==
  ASSUME FlowInv, kind = "glm", life = "up", UNCHANGED <<kind, life, job, linkVars>>, Mux!MuxSubmit,
         Mux!Refusal(Head(stdin)) = "none"
  PROVE  EngineActs
  <1> DEFINE fr == Head(stdin)
             s == fr.slot
             x == fr.id
             n == Mux!Encoded(fr.prompt)
             max == Mux!Limit(fr.max, n)
             Slot(e, on) == [active |-> on, id |-> x, emitted |-> e, maximum |-> max]
  <1>1. /\ turn = "poll" /\ stdin # <<>> /\ fr.op = "SUBMIT" /\ stdin' = Tail(stdin)
        /\ Mux!Prefill(fr) /\ UNCHANGED rows
    BY DEF Mux!MuxSubmit, Mux!Read
  <1>2. turn' \in {"poll", "decode"}
    BY DEF Mux!MuxSubmit, Mux!NextTurn
  <1>3. /\ fr \in Submissions /\ s \notin Active /\ \A t \in Active : req[t].id # x
    BY <1>1, HeadSubmit
  <1>4. s \in Slots /\ ~req[s].active /\ x \in Nat /\ fr.prompt \in Nat /\ fr.max \in Nat
    BY <1>3, ActiveIs, IdsAreNat DEF Submissions
  <1>5. ~(n < 1)
    <2>1. "EMPTY_PROMPT" # "none"
      OBVIOUS
    <2>2. QED
      BY <2>1 DEF Mux!Refusal
  <1>6. n \in Nat /\ n <= MaxCtx - 2 /\ MaxCtx - n - 1 \in Nat
    BY <1>4, <1>5, EngineAssumption DEF Mux!Encoded, Mux!Smaller
  <1>7. max \in Nat /\ n + max <= MaxCtx - 1
    BY <1>4, <1>6, EngineAssumption DEF Mux!Limit, Mux!Smaller
  <1>8. /\ len' = [len EXCEPT ![s] = n]
        /\ \/ stdout' = stdout \o <<Done(x, 0)>> /\ req' = [req EXCEPT ![s] = Slot(0, FALSE)]
           \/ max > 1 /\ stdout' = stdout \o <<Data(x, 1)>> /\ req' = [req EXCEPT ![s] = Slot(1, TRUE)]
           \/ /\ max = 1 /\ stdout' = stdout \o <<Data(x, 1), Done(x, 1)>>
              /\ req' = [req EXCEPT ![s] = Slot(1, FALSE)]
    BY <1>1 DEF Mux!Prefill, Mux!Emit, Mux!Done, Mux!Data, Done, Data
  <1> HIDE DEF max, n
  <1>9. /\ Done(x, 0) \in Events /\ Data(x, 1) \in Events /\ Done(x, 1) \in Events
        /\ Data(x, 1).id = x /\ Done(x, 0).id = x /\ Done(x, 1).id = x
        /\ Data(x, 1).kind = "DATA" /\ Data(x, 1).n = 1
        /\ Done(x, 0).kind = "DONE" /\ Done(x, 0).n = 0
        /\ Done(x, 1).kind = "DONE" /\ Done(x, 1).n = 1
    BY <1>4, EventsAre DEF Whys, Data, Done
  <1>10. ASSUME NEW e \in {0, 1}, NEW on \in BOOLEAN
         PROVE  /\ Slot(e, on) \in ServeReqs /\ Slot(e, on).id = x /\ Slot(e, on).active = on
                /\ Slot(e, on).emitted = e /\ Slot(e, on).maximum = max
    BY <1>4, <1>7 DEF ServeReqs
  <1> HIDE DEF Slot, s, x, fr
  <1>11. stdin # <<>> /\ Head(stdin).op = "SUBMIT" /\ s = Head(stdin).slot /\ x = Head(stdin).id
    BY <1>1 DEF fr, s, x
  <1>12. CASE stdout' = stdout \o <<Done(x, 0)>> /\ req' = [req EXCEPT ![s] = Slot(0, FALSE)]
    <2> DEFINE r == Slot(0, FALSE)
               w == <<Done(x, 0)>>
    <2>1. r \in ServeReqs /\ r.id = x /\ r.active = FALSE
      BY <1>10
    <2>2. IsAbout(w, x) /\ Counts(w, 0, 0)
      BY <1>9 DEF IsAbout, Counts, Fits, After
    <2>3. stdout' = stdout \o w /\ req' = [req EXCEPT ![s] = r]
      BY <1>12
    <2> HIDE DEF r, w
    <2>4. HasRoom(r, n)
      BY <2>1 DEF HasRoom
    <2>5. QED
      BY <1>1, <1>2, <1>3, <1>4, <1>6, <1>8, <1>11, <2>1, <2>2, <2>3, <2>4, SlotBegins
  <1>13. CASE max > 1 /\ stdout' = stdout \o <<Data(x, 1)>> /\ req' = [req EXCEPT ![s] = Slot(1, TRUE)]
    <2> DEFINE r == Slot(1, TRUE)
               w == <<Data(x, 1)>>
    <2>1. r \in ServeReqs /\ r.id = x /\ r.emitted = 1 /\ r.maximum = max
      BY <1>10
    <2>2. IsAbout(w, x) /\ Counts(w, 0, 1)
      BY <1>9 DEF IsAbout, Counts, Fits, After
    <2>3. stdout' = stdout \o w /\ req' = [req EXCEPT ![s] = r]
      BY <1>13
    <2>4. \A i \in 1..Len(w) : w[i].kind \notin Answers
      BY <1>9 DEF Answers
    <2> HIDE DEF r, w
    <2>5. HasRoom(r, n)
      <3>1. max > 1
        BY <1>13
      <3>2. QED
        BY <1>6, <1>7, <2>1, <3>1, EngineAssumption DEF HasRoom
    <2>6. QED
      BY <1>1, <1>2, <1>3, <1>4, <1>6, <1>8, <1>11, <2>1, <2>2, <2>3, <2>4, <2>5, SlotBegins
  <1>14. CASE /\ max = 1 /\ stdout' = stdout \o <<Data(x, 1), Done(x, 1)>>
              /\ req' = [req EXCEPT ![s] = Slot(1, FALSE)]
    <2> DEFINE r == Slot(1, FALSE)
               w == <<Data(x, 1), Done(x, 1)>>
    <2>1. r \in ServeReqs /\ r.id = x /\ r.active = FALSE
      BY <1>10
    <2>2. IsAbout(w, x) /\ Counts(w, 0, 1)
      BY <1>9 DEF IsAbout, Counts, Fits, After
    <2>3. stdout' = stdout \o w /\ req' = [req EXCEPT ![s] = r]
      BY <1>14
    <2> HIDE DEF r, w
    <2>4. HasRoom(r, n)
      BY <2>1 DEF HasRoom
    <2>5. QED
      BY <1>1, <1>2, <1>3, <1>4, <1>6, <1>8, <1>11, <2>1, <2>2, <2>3, <2>4, SlotBegins
  <1>15. QED
    BY <1>8, <1>12, <1>13, <1>14

LEMMA MuxActs ==
  ASSUME FlowInv, kind = "glm", life = "up", UNCHANGED <<kind, life, job, linkVars>>, Mux!MuxNext
  PROVE  EngineActs
  BY Interrupts, RowStep, Cancels, SubmitRefused, SubmitTaken DEF Mux!MuxNext-----------------------------------------------------------------------------

(* The steps of serve_mode.                                                 *)

\* The generation in progress goes on or ends.
LEMMA JobGoesOn ==
  ASSUME FlowInv, kind = "qwnrun", life = "up",
         UNCHANGED <<kind, life, linkVars, req, len, turn, rows, stdin>>,
         job.phase # "read", NEW x, x = job.id, job' \in Jobs, job'.pos <= QwnCtx,
         job'.phase # "read" => job'.id = x,
         NEW w, IsAbout(w, x), stdout' = stdout \o w,
         \A e \in Nat : (job.phase = "generate" => e = job.emitted) =>
           \E f \in Nat : Counts(w, e, f) /\ (job'.phase = "generate" => f = job'.emitted)
  PROVE  EngineActs
  <1> USE DEF linkVars
  <1>1. Active = {} /\ Active' = {} /\ Submits' = Submits
    BY DEF FlowInv, Silent, Active, Mux!Active, Submits
  <1>2. Sent(x)
    BY DEF FlowInv, Speaks
  <1>3. \A i \in Submits : stdin[i].id # x
    BY DEF FlowInv, FirstFrame
  <1>4. stdout' \in Seq(Events)
    <2>1. w \in Seq(Events) /\ stdout \in Seq(Events)
      BY AboutIs DEF FlowInv, EngineTypes
    <2>2. QED
      BY <2>1
  <1>5. EngineKind
    <2>1. EngineTypes'
      BY <1>4 DEF FlowInv, EngineTypes
    <2>2. Silent'
      BY <1>1 DEF FlowInv, Silent
    <2>3. Room'
      BY <1>1 DEF FlowInv, Room
    <2>4. QED
      BY <2>1, <2>2, <2>3 DEF EngineKind
  <1>6. Quiet(x)'
    BY <1>1, <1>3 DEF Quiet
  <1>7. KeptJob
    BY DEF KeptJob
  <1>8. EngineMove(x, w)
    BY <1>1, <1>2, <1>6, <1>7 DEF EngineMove
  <1>9. EngineCounts(x, w)
    <2>1. ASSUME NEW e \in Nat, Reached(x, e) PROVE \E f \in Nat : Counts(w, e, f) /\ Reached(x, f)'
      <3>1. job.phase = "generate" => e = job.emitted
        BY <2>1 DEF Reached
      <3>2. PICK f \in Nat : Counts(w, e, f) /\ (job'.phase = "generate" => f = job'.emitted)
        BY <3>1
      <3>3. call'[x].pc # "writing"
        BY <1>2 DEF Sent
      <3>4. Reached(x, f)'
        BY <1>1, <1>3, <3>2, <3>3 DEF Reached
      <3>5. QED
        BY <3>2, <3>4
    <2>2. QED
      BY <1>1, <2>1 DEF EngineCounts
  <1>10. QED
    BY <1>5, <1>8, <1>9 DEF EngineActs

LEMMA JobFacts ==
  ASSUME FlowInv
  PROVE  /\ job \in Jobs /\ job.id \in Nat /\ job.emitted \in Nat /\ job.emitted + 1 \in Nat
         /\ job.pos \in Nat /\ job.pos <= QwnCtx /\ QwnCtx \in Nat \ {0}
  <1>1. job \in Jobs
    BY DEF FlowInv, EngineTypes
  <1>2. job.pos <= QwnCtx
    BY DEF FlowInv, Room
  <1>3. QED
    BY <1>1, <1>2, EngineAssumption DEF Jobs

LEMMA TokenStep ==
  ASSUME FlowInv, kind = "qwnrun", life = "up",
         UNCHANGED <<kind, life, linkVars, req, len, turn, rows>>, Qwn!QwnToken
  PROVE  EngineActs
  <1> DEFINE x == job.id
             k == job.emitted
             w == <<Data(x, k + 1)>>
  <1>1. /\ job.phase = "generate" /\ stdout' = stdout \o w /\ stdin' = stdin
        /\ job' = IF job.pos >= QwnCtx THEN [job EXCEPT !.phase = "failed"]
                  ELSE [job EXCEPT !.emitted = @ + 1, !.pos = @ + 1]
    BY DEF Qwn!QwnToken, Qwn!Emit, Qwn!Data, Data
  <1>2. /\ job \in Jobs /\ x \in Nat /\ k \in Nat /\ k + 1 \in Nat
        /\ job.pos \in Nat /\ job.pos <= QwnCtx /\ QwnCtx \in Nat
    BY JobFacts
  <1>3. /\ job' \in Jobs /\ job'.id = x /\ job'.pos <= QwnCtx
        /\ job'.phase = "generate" => job'.emitted = k + 1
    <2>1. CASE job.pos >= QwnCtx
      <3>1. job' = [job EXCEPT !.phase = "failed"]
        BY <1>1, <2>1
      <3>2. QED
        BY <1>2, <3>1 DEF Jobs
    <2>2. CASE ~(job.pos >= QwnCtx)
      <3>1. job' = [job EXCEPT !.emitted = k + 1, !.pos = job.pos + 1]
        BY <1>1, <2>2
      <3>2. job.pos + 1 \in Nat /\ job.pos + 1 <= QwnCtx
        BY <1>2, <2>2
      <3> HIDE DEF k
      <3>3. QED
        BY <1>2, <3>1, <3>2 DEF Jobs
    <2>3. QED
      BY <2>1, <2>2
  <1>4. /\ Data(x, k + 1) \in Events /\ Data(x, k + 1).id = x
        /\ Data(x, k + 1).kind = "DATA" /\ Data(x, k + 1).n = k + 1
    BY <1>2, EventsAre DEF Whys, Data
  <1> HIDE DEF x, k
  <1>5. IsAbout(w, x) /\ Counts(w, k, k + 1)
    BY <1>4 DEF IsAbout, Counts, Fits, After
  <1>6. ASSUME NEW e \in Nat, job.phase = "generate" => e = job.emitted
        PROVE  \E f \in Nat : Counts(w, e, f) /\ (job'.phase = "generate" => f = job'.emitted)
    <2>1. e = k
      BY <1>1, <1>6 DEF k
    <2> HIDE DEF w
    <2>2. QED
      BY <1>2, <1>3, <1>5, <2>1
  <1> HIDE DEF w
  <1>7. job.phase # "read" /\ x = job.id
    BY <1>1 DEF x
  <1>8. QED
    BY <1>1, <1>3, <1>5, <1>6, <1>7, JobGoesOn

LEMMA JobEnds ==
  ASSUME FlowInv, kind = "qwnrun", life = "up",
         UNCHANGED <<kind, life, linkVars, req, len, turn, rows>>,
         Qwn!QwnDone \/ Qwn!QwnFail \/ Qwn!QwnReport
  PROVE  EngineActs
  <1> DEFINE x == job.id
             k == job.emitted
  <1>1. /\ job \in Jobs /\ x \in Nat /\ k \in Nat /\ job.pos \in Nat /\ job.pos <= QwnCtx
    BY JobFacts
  <1>2. Qwn!NoJob \in Jobs /\ Qwn!NoJob.phase = "read" /\ Qwn!NoJob.pos = 0 /\ QwnCtx \in Nat
    BY EngineAssumption DEF Qwn!NoJob, Jobs
  <1>3. ASSUME Qwn!QwnDone PROVE EngineActs
    <2> DEFINE w == <<Done(x, k)>>
    <2>1. /\ job.phase = "generate" /\ stdout' = stdout \o w /\ stdin' = stdin
          /\ job' = [job EXCEPT !.phase = "report"]
      BY <1>3 DEF Qwn!QwnDone, Qwn!Emit, Qwn!Done, Done
    <2>2. job' \in Jobs /\ job'.id = x /\ job'.pos <= QwnCtx /\ job'.phase = "report"
      BY <1>1, <2>1 DEF Jobs
    <2> HIDE DEF x, k
    <2>3. IsAbout(w, x) /\ Counts(w, k, k)
      <3>1. /\ Done(x, k) \in Events /\ Done(x, k).id = x
            /\ Done(x, k).kind = "DONE" /\ Done(x, k).n = k
        BY <1>1, EventsAre DEF Done, Whys
      <3>2. QED
        BY <3>1 DEF IsAbout, Counts, Fits, After
    <2>4. ASSUME NEW e \in Nat, job.phase = "generate" => e = job.emitted
          PROVE  \E f \in Nat : Counts(w, e, f) /\ (job'.phase = "generate" => f = job'.emitted)
      <3>1. e = k
        BY <2>1, <2>4 DEF k
      <3> HIDE DEF w
      <3>2. QED
        BY <1>1, <2>2, <2>3, <3>1
    <2> HIDE DEF w
    <2>5. job.phase # "read" /\ x = job.id
      BY <2>1 DEF x
    <2>6. QED
      BY <2>1, <2>2, <2>3, <2>4, <2>5, JobGoesOn
  <1>4. ASSUME Qwn!QwnFail PROVE EngineActs
    <2> DEFINE w == <<Error(x, "generation-failed")>>
    <2>1. job.phase = "failed" /\ stdout' = stdout \o w /\ stdin' = stdin /\ job' = Qwn!NoJob
      BY <1>4 DEF Qwn!QwnFail, Qwn!Emit, Qwn!Error, Error
    <2> HIDE DEF x, k
    <2>2. Error(x, "generation-failed") \in Events
      BY <1>1, EventsAre DEF Whys
    <2>3. IsAbout(w, x) /\ \A e \in Nat : Counts(w, e, e)
      BY <2>2 DEF IsAbout, Counts, Fits, After, Error
    <2> HIDE DEF w
    <2>4. job.phase # "read" /\ x = job.id
      BY <2>1 DEF x
    <2>5. job' \in Jobs /\ job'.pos <= QwnCtx /\ job'.phase = "read"
      BY <1>2, <2>1
    <2>6. QED
      BY <2>1, <2>3, <2>4, <2>5, JobGoesOn, SMTT(30)
  <1>5. ASSUME Qwn!QwnReport PROVE EngineActs
    <2> DEFINE w == <<>>
    <2>1. job.phase = "report" /\ stdout' = stdout /\ stdin' = stdin /\ job' = Qwn!NoJob
      BY <1>5 DEF Qwn!QwnReport
    <2>2. stdout' = stdout \o w
      BY <2>1 DEF FlowInv, EngineTypes
    <2>3. IsAbout(w, x) /\ \A e \in Nat : Counts(w, e, e)
      BY DEF IsAbout, Counts
    <2> HIDE DEF w, x, k
    <2>4. job.phase # "read" /\ x = job.id
      BY <2>1 DEF x
    <2>5. QED
      BY <1>2, <2>1, <2>2, <2>3, <2>4, JobGoesOn
  <1>6. QED
    BY <1>3, <1>4, <1>5

LEMMA JobRefused ==
  ASSUME FlowInv, kind = "qwnrun", life = "up",
         UNCHANGED <<kind, life, linkVars, req, len, turn, rows>>,
         Qwn!QwnCancel \/ (Qwn!QwnSubmit /\ Head(stdin).prompt = 0)
  PROVE  EngineActs
  <1> DEFINE x == Head(stdin).id
  <1>1. /\ job.phase = "read" /\ stdin # <<>> /\ stdin' = Tail(stdin) /\ job' = job
        /\ \E y \in {"CANCELLED", "empty-prompt"} : stdout' = stdout \o <<Error(x, y)>>
    <2>1. CASE Qwn!QwnCancel
      BY <2>1 DEF Qwn!QwnCancel, Qwn!Read, Qwn!Emit, Qwn!Error, Error
    <2>2. CASE Qwn!QwnSubmit /\ Head(stdin).prompt = 0
      BY <2>2 DEF Qwn!QwnSubmit, Qwn!Read, Qwn!Emit, Qwn!Error, Error
    <2>3. QED
      BY <2>1, <2>2
  <1>2. PICK y \in {"CANCELLED", "empty-prompt"} : stdout' = stdout \o <<Error(x, y)>>
    BY <1>1
  <1>3. y \in Whys /\ \A s \in Active : req[s].id # x
    BY DEF FlowInv, Silent, Whys
  <1>4. QED
    BY <1>1, <1>2, <1>3, FrameRefused

LEMMA JobBegins ==
  ASSUME FlowInv, kind = "qwnrun", life = "up",
         UNCHANGED <<kind, life, linkVars, req, len, turn, rows>>,
         Qwn!QwnSubmit, Head(stdin).prompt > 0
  PROVE  EngineActs
  <1> USE DEF linkVars
  <1>1. PICK x \in Nat : x = Head(stdin).id
    <2>1. Head(stdin) \in Submissions
      BY HeadSubmit DEF Qwn!QwnSubmit, Qwn!Read
    <2>2. QED
      BY <2>1, IdsAreNat DEF Submissions
  <1>2. /\ job.phase = "read" /\ stdin # <<>> /\ Head(stdin).op = "SUBMIT" /\ stdin' = Tail(stdin)
        /\ stdout' = stdout
        /\ job' = [phase |-> "generate", id |-> x, emitted |-> 0,
                   maximum |-> Qwn!Smaller(Head(stdin).max, NGen), pos |-> Qwn!Count(Head(stdin).prompt)]
    <2>1. Head(stdin).prompt \in Nat
      BY HeadSubmit DEF Qwn!QwnSubmit, Qwn!Read, Submissions
    <2>2. Head(stdin).prompt # 0
      BY <2>1
    <2>3. QED
      BY <1>1, <2>2 DEF Qwn!QwnSubmit, Qwn!Read
  <1>3. Head(stdin) \in Submissions
    BY <1>2, HeadSubmit
  <1>4. /\ Qwn!Smaller(Head(stdin).max, NGen) \in Nat
        /\ Qwn!Count(Head(stdin).prompt) \in Nat /\ Qwn!Count(Head(stdin).prompt) <= QwnCtx
    <2>1. Head(stdin).max \in Nat /\ Head(stdin).prompt \in Nat /\ Head(stdin).prompt >= 1
      BY <1>3 DEF Submissions
    <2>2. NGen \in Nat /\ QwnCtx \in Nat \ {0} /\ Bos \in {0, 1}
      BY EngineAssumption
    <2>3. QED
      BY <2>1, <2>2 DEF Qwn!Smaller, Qwn!Count
  <1>5. /\ job' \in Jobs /\ job'.pos <= QwnCtx
        /\ job'.phase = "generate" /\ job'.id = x /\ job'.emitted = 0
    BY <1>1, <1>2, <1>4 DEF Jobs
  <1>6. /\ stdin' \in Seq(Frames) /\ Sent(x)
        /\ \A j \in Submits' : stdin'[j].id # x
    BY <1>1, <1>2, BehindHead
  <1>7. Active = {} /\ Active' = {}
    BY DEF FlowInv, Silent, Active, Mux!Active
  <1>8. EngineKind
    <2>1. EngineTypes'
      BY <1>2, <1>5, <1>6 DEF FlowInv, EngineTypes
    <2>2. Silent'
      BY <1>7 DEF FlowInv, Silent
    <2>3. Room'
      BY <1>5, <1>7 DEF FlowInv, Room
    <2>4. QED
      BY <2>1, <2>2, <2>3 DEF EngineKind
  <1> DEFINE w == <<>>
  <1>9. stdout' = stdout \o w /\ IsAbout(w, x) /\ ~\E i \in 1..Len(w) : w[i].kind \in Answers
    <2>1. stdout' = stdout \o w
      BY <1>2 DEF FlowInv, EngineTypes
    <2>2. Len(w) = 0
      OBVIOUS
    <2>3. QED
      BY <2>1, <2>2 DEF IsAbout
  <1>10. \A e \in Nat : Counts(w, e, e)
    BY DEF Counts
  <1> HIDE DEF w
  <1>11. BegunJob
    BY <1>1, <1>2, <1>5 DEF BegunJob
  <1>12. EngineMove(x, w)
    BY <1>2, <1>6, <1>7, <1>9, <1>11 DEF EngineMove
  <1>13. EngineCounts(x, w)
    <2>1. ASSUME NEW e \in Nat, Reached(x, e) PROVE Reached(x, e)'
      <3>1. 1 \in Submits /\ stdin[1].id = x
        BY <1>1, <1>2, Behind DEF Submits, FlowInv, EngineTypes
      <3>2. e = 0
        BY <2>1, <3>1 DEF Reached
      <3>3. call'[x].pc # "writing"
        BY <1>6 DEF Sent
      <3>4. QED
        BY <1>5, <1>6, <1>7, <3>2, <3>3 DEF Reached
    <2>2. QED
      BY <1>5, <1>7, <1>10, <2>1 DEF EngineCounts
  <1>14. QED
    BY <1>8, <1>12, <1>13 DEF EngineActs

LEMMA EngineDoes == ASSUME FlowInv, EngineStep PROVE EngineActs /\ FlowInv'
  <1>1. life = "up" /\ UNCHANGED <<kind, life, linkVars>>
    BY DEF EngineStep
  <1>2. EngineActs
    <2>1. CASE kind = "glm" /\ Mux!MuxNext /\ UNCHANGED job
      BY <1>1, <2>1, MuxActs
    <2>2. CASE kind = "qwnrun" /\ Qwn!QwnNext /\ UNCHANGED <<req, len, turn, rows>>
      <3>1. Head(stdin).prompt = 0 \/ Head(stdin).prompt > 0 \/ ~Qwn!QwnSubmit
        <4>1. ASSUME Qwn!QwnSubmit PROVE Head(stdin).prompt \in Nat
          BY <4>1, HeadSubmit DEF Qwn!QwnSubmit, Qwn!Read, Submissions
        <4>2. QED
          BY <4>1
      <3>2. QED
        BY <1>1, <2>2, <3>1, TokenStep, JobEnds, JobRefused, JobBegins DEF Qwn!QwnNext
    <2>3. QED
      BY <2>1, <2>2 DEF EngineStep
  <1>3. FlowInv'
    BY <1>1, <1>2, EngineKeeps DEF EngineActs
  <1>4. QED
    BY <1>2, <1>3-----------------------------------------------------------------------------

(* The steps of the gateway and the ends of the process.                     *)

LEMMA InitFlow == Init => FlowInv
  <1> SUFFICES ASSUME Init PROVE FlowInv
    OBVIOUS
  <1>1. /\ stdin = <<>> /\ stdout = <<>> /\ life = "up" /\ kind \in Kinds
        /\ req = [s \in Slots |-> Mux!NoRequest] /\ len = [s \in Slots |-> 0]
        /\ turn = "poll" /\ rows = {} /\ job = Qwn!NoJob
        /\ disp = [pc |-> "read", event |-> NoEvent] /\ next = 1
        /\ call = [c \in Ids |-> NoCall]
    BY DEF Init, PipesInit, Mux!MuxInit, Qwn!QwnInit
  <1>2. Mux!NoRequest \in ServeReqs /\ Mux!NoRequest.active = FALSE
    BY DEF Mux!NoRequest, ServeReqs
  <1>3. Qwn!NoJob \in Jobs /\ Qwn!NoJob.phase = "read" /\ Qwn!NoJob.pos = 0
    BY DEF Qwn!NoJob, Jobs
  <1>4. NoEvent \in Events
    BY EventsAre DEF NoEvent, Whys
  <1>5. NoCall \in Generates /\ NoCall.pc = "idle" /\ NoCall.inbox = <<>>
    BY DEF NoCall, Returned, Call, Generates, PCs
  <1>6. Active = {} /\ Submits = {}
    <2>1. Len(stdin) = 0
      BY <1>1
    <2>2. QED
      BY <1>1, <1>2, <2>1 DEF Active, Mux!Active, Submits
  <1>7. Held = {} /\ Busy = {}
    <2>1. \A c \in Ids : call[c].pc = "idle"
      BY <1>1, <1>5
    <2>2. QED
      BY <1>6, <2>1 DEF Held, Busy
  <1>8. EngineTypes
    BY <1>1, <1>2, <1>3, EngineAssumption DEF EngineTypes
  <1>9. GatewayTypes
    <2>1. call \in [Ids -> Generates]
      BY <1>1, <1>5
    <2>2. disp \in [pc : {"read", "put", "failing", "dead"}, event : Events]
      BY <1>1, <1>4
    <2>3. QED
      BY <1>1, <1>7, <2>1, <2>2 DEF GatewayTypes
  <1>10. Speaks /\ Silent
    <2>1. Len(stdin) = 0 /\ Len(stdout) = 0
      BY <1>1
    <2>2. QED
      BY <1>1, <1>3, <1>6, <2>1 DEF Speaks, Silent
  <1>11. FirstFrame /\ Apart /\ Owned
    BY <1>6, <1>7 DEF FirstFrame, Apart, Owned
  <1>12. Early
    BY <1>1, <1>5 DEF Early
  <1>13. Room
    BY <1>1, <1>3, <1>6, EngineAssumption DEF Room
  <1>14. QED
    BY InitLink, <1>8, <1>9, <1>10, <1>11, <1>12, <1>13 DEF FlowInv

\* The process is as it was.
LEMMA SameEngine ==
  ASSUME FlowInv, UNCHANGED engineVars
  PROVE  /\ EngineTypes' /\ FirstFrame' /\ Room'
         /\ Held' = Held /\ Active' = Active /\ Submits' = Submits
         /\ UNCHANGED <<kind, stdin, stdout, stderr, life, req, len, turn, rows, job>>
  <1>1. UNCHANGED <<kind, stdin, stdout, stderr, life, req, len, turn, rows, job>>
    BY DEF engineVars, pipes
  <1>2. Active' = Active /\ Submits' = Submits
    BY <1>1 DEF Active, Mux!Active, Submits
  <1>3. EngineTypes' /\ FirstFrame' /\ Room' /\ Held' = Held
    BY <1>1, <1>2 DEF FlowInv, EngineTypes, FirstFrame, Room, Held
  <1>4. QED
    BY <1>1, <1>2, <1>3

\* A dead process has nothing of the gateway.
LEMMA DeadHolds == ASSUME FlowInv, life # "up" PROVE Held = {} /\ Submits = {} /\ Active = {}
  <1>1. stdin = <<>> /\ Active = {}
    BY DEF FlowInv, Silent
  <1>2. Len(stdin) = 0
    BY <1>1
  <1>3. QED
    BY <1>1, <1>2 DEF Held, Submits

LEMMA HeldAreSent == ASSUME FlowInv, NEW p \in Held PROVE Sent(p[1])
  BY DEF Held, FlowInv, Speaks, Submits

LEMMA CallFacts ==
  ASSUME FlowInv, NEW c \in Ids
  PROVE  /\ call[c] \in Generates /\ call[c].inbox \in Seq(Events) /\ call[c].heard \in Seq(Nat)
         /\ Len(call[c].inbox) \in Nat /\ Len(call[c].heard) \in Nat /\ c \in Nat
         /\ call[c].cancelSent \in BOOLEAN
  <1>1. call[c] \in Generates /\ c \in Nat
    BY IdsAreNat DEF FlowInv, GatewayTypes
  <1>2. QED
    BY <1>1 DEF Generates

LEMMA RegisterFlow == ASSUME FlowInv, Register PROVE FlowInv'
  <1>1. /\ next \in Ids /\ next' = next + 1 /\ UNCHANGED <<engineVars, closing, dispErr, disp>>
        /\ next \in Nat
    BY DEF Register, FlowInv, GatewayTypes
  <1>2. LinkInv'
    BY RegisterStep DEF FlowInv
  <1>3. /\ EngineTypes' /\ FirstFrame' /\ Room'
        /\ Held' = Held /\ Active' = Active /\ Submits' = Submits
        /\ UNCHANGED <<kind, stdin, stdout, stderr, life, req, len, turn, rows, job>>
    BY <1>1, SameEngine
  <1>4. /\ call \in [Ids -> Generates] /\ next \notin Busy
        /\ \A c \in Busy : call[c].slot \in Slots /\ c < next
    <2>1. \A c \in Busy : c \in Ids /\ c \in Nat /\ call[c].pc # "idle"
      BY IdsAreNat DEF Busy
    <2>2. /\ call \in [Ids -> Generates] /\ \A c \in Busy : call[c].slot \in Slots
          /\ \A c \in Ids : c >= next => call[c].pc = "idle"
      BY DEF FlowInv, GatewayTypes, LinkInv, Known
    <2>3. QED
      BY <1>1, <2>1, <2>2
  <1>5. PICK r \in Generates :
          /\ call' = [call EXCEPT ![next] = r] /\ r.inbox = <<>>
          /\ \/ r.pc = "failed"
             \/ /\ r.pc = "writing" /\ r.slot \in Slots /\ closing = "open"
                /\ \A c \in Busy : call[c].slot # r.slot
    <2>1. Returned("failed") \in Generates /\ Returned("failed").pc = "failed"
          /\ Returned("failed").inbox = <<>>
      BY DEF Returned, Call, Generates, PCs
    <2>2. ASSUME NEW s \in Slots, NEW ask \in Requests
          PROVE  /\ Call("writing", s, ask) \in Generates /\ Call("writing", s, ask).pc = "writing"
                 /\ Call("writing", s, ask).inbox = <<>> /\ Call("writing", s, ask).slot = s
      <3>1. s \in Nat /\ ask \in Nat \X Nat
        BY EngineAssumption
      <3>2. QED
        BY <3>1 DEF Call, Generates, PCs
    <2>3. CASE call' = [call EXCEPT ![next] = Returned("failed")]
      BY <2>1, <2>3
    <2>4. CASE closing = "open" /\ \E s \in Slots, ask \in Requests :
                 Admitted(s) /\ call' = [call EXCEPT ![next] = Call("writing", s, ask)]
      <3>1. PICK s \in Slots, ask \in Requests :
              Admitted(s) /\ call' = [call EXCEPT ![next] = Call("writing", s, ask)]
        BY <2>4
      <3>2. \A c \in Busy : call[c].slot # s
        BY <3>1 DEF Admitted
      <3> DEFINE r == Call("writing", s, ask)
      <3>3. /\ r \in Generates /\ r.pc = "writing" /\ r.inbox = <<>> /\ r.slot = s
            /\ call' = [call EXCEPT ![next] = r]
        BY <2>2, <3>1
      <3> HIDE DEF r
      <3>4. QED
        BY <2>4, <3>2, <3>3
    <2>5. QED
      BY <2>3, <2>4 DEF Register
  <1>6. /\ call' \in [Ids -> Generates] /\ call'[next] = r
        /\ \A c \in Ids : c # next => call'[c] = call[c]
    BY <1>1, <1>4, <1>5
  <1>7. Busy \subseteq Busy' /\ Busy' \subseteq Busy \union {next}
        /\ (r.pc = "failed" => Busy' = Busy)
    BY <1>1, <1>4, <1>5, <1>6 DEF Busy
  <1>8. GatewayTypes'
    <2>1. \A c \in Busy' : call'[c].slot \in Slots
      BY <1>4, <1>5, <1>6, <1>7 DEF Busy
    <2>2. QED
      BY <1>1, <1>6, <2>1 DEF FlowInv, GatewayTypes
  <1>9. \A c : Sent(c) => Sent(c)' /\ c # next /\ c \in Ids /\ call'[c] = call[c]
    BY <1>1, <1>6, IdsAreNat DEF Sent
  <1>10. Speaks' /\ Silent'
    BY <1>1, <1>3, <1>9 DEF FlowInv, Speaks, Silent
  <1>11. \A p \in Held : p[1] # next /\ p[1] \in Ids /\ call'[p[1]] = call[p[1]]
    BY <1>9, HeldAreSent
  <1>12. Apart'
    <2>1. Apart /\ Owned
      BY DEF FlowInv
    <2>2. ASSUME NEW p \in Held, NEW d \in Busy' PROVE (p[2] = call'[d].slot <=> p[1] = d)
      <3>1. CASE d \in Busy
        <4>1. call'[d] = call[d]
          BY <1>4, <1>6, <3>1 DEF Busy
        <4>2. QED
          BY <2>1, <3>1, <4>1 DEF Apart
      <3>2. CASE d = next /\ d \notin Busy
        <4>1. r.pc = "writing" /\ closing = "open" /\ \A c \in Busy : call[c].slot # r.slot
          BY <1>5, <1>7, <3>2
        <4>2. p[1] \in Busy
          BY <2>1, <4>1 DEF Owned
        <4>3. p[2] = call[p[1]].slot
          BY <2>1, <4>2 DEF Apart
        <4>4. QED
          BY <1>6, <1>11, <3>2, <4>1, <4>2, <4>3
      <3>3. QED
        BY <1>7, <3>1, <3>2
    <2>3. ASSUME NEW c \in Busy', NEW d \in Busy', call'[c].slot = call'[d].slot PROVE c = d
      <3>1. ASSUME NEW b \in Busy PROVE call'[b] = call[b] /\ b # next
        BY <1>4, <1>6, <3>1 DEF Busy
      <3>2. ASSUME NEW b \in Busy', b \notin Busy
            PROVE  b = next /\ \A a \in Busy : call'[b].slot # call'[a].slot
        BY <1>5, <1>6, <1>7, <3>1, <3>2
      <3>3. CASE c \in Busy /\ d \in Busy
        BY <2>1, <2>3, <3>1, <3>3 DEF Apart
      <3>4. QED
        BY <2>3, <3>2, <3>3
    <2>4. \A s, t \in Active' : req'[s].id = req'[t].id => s = t
      BY <1>3, <2>1 DEF Apart
    <2>5. \A p, q \in Held' : p[2] = q[2] => p[1] = q[1]
      BY <1>3, <2>1 DEF Apart
    <2>6. QED
      BY <1>3, <2>2, <2>3, <2>4, <2>5 DEF Apart
  <1>13. Owned'
    <2> SUFFICES ASSUME NEW p \in Held
                 PROVE  /\ p[1] \in Busy' \/ closing' # "open"
                        /\ \A i \in 1..Len(stdout') : stdout'[i].id = p[1] => stdout'[i].kind \notin Answers
                        /\ ~InHand(p[1])'
                        /\ ~NoneIn(call[p[1]].inbox)' => closing' # "open"
      BY <1>3 DEF Owned
    <2>1. call'[p[1]] = call[p[1]]
      BY <1>11
    <2>2. QED
      BY <1>1, <1>3, <1>7, <2>1 DEF FlowInv, Owned, InHand, NoneIn
  <1>14. Early'
    <2>1. NoneIn(r.inbox)
      BY <1>5 DEF NoneIn
    <2>2. \A c \in Ids : c # next => (call'[c].pc = "writing" /\ ~NoneIn(call'[c].inbox) =>
                                        closing # "open" \/ life # "up")
      BY <1>6 DEF FlowInv, Early
    <2>3. QED
      BY <1>1, <1>3, <1>6, <2>1, <2>2 DEF Early, NoneIn
  <1>15. QED
    BY <1>2, <1>3, <1>8, <1>10, <1>12, <1>13, <1>14 DEF FlowInv

\* The requests the process has stay apart when calls only return.
LEMMA ApartStays ==
  ASSUME Apart, UNCHANGED req, Active' = Active, Held' = Held,
         Busy' \subseteq Busy, \A c \in Busy' : call'[c].slot = call[c].slot
  PROVE  Apart'
  BY DEF Apart

LEMMA InboxGrows ==
  ASSUME NEW r \in Generates, NEW a \in Events
  PROVE  LET q == [r EXCEPT !.inbox = Append(@, a)]
         IN /\ q \in Generates /\ q.inbox = Append(r.inbox, a) /\ q.pc = r.pc /\ q.slot = r.slot
            /\ q.heard = r.heard /\ q.cancelSent = r.cancelSent
  <1> DEFINE b == Append(r.inbox, a)
  <1>1. b \in Seq(Events)
    BY DEF Generates
  <1> HIDE DEF b
  <1>2. LET q == [r EXCEPT !.inbox = b]
        IN /\ q \in Generates /\ q.inbox = b /\ q.pc = r.pc /\ q.slot = r.slot
           /\ q.heard = r.heard /\ q.cancelSent = r.cancelSent
    BY <1>1 DEF Generates
  <1>3. QED
    BY <1>2 DEF b

LEMMA WriteFlow == ASSUME NEW c \in Ids, FlowInv, Write(c) PROVE FlowInv'
  <1>1. /\ call[c].pc = "writing" /\ c \in Busy
        /\ UNCHANGED <<kind, stdout, stderr, life, req, len, turn, rows, job, closing, dispErr, disp, next>>
    BY DEF Write, Busy
  <1>2. LinkInv'
    BY WriteStep DEF FlowInv
  <1>3. /\ call[c] \in Generates /\ c \in Nat /\ call \in [Ids -> Generates]
        /\ call[c].slot \in Slots /\ c < next /\ ~Sent(c)
    <2>1. call[c].pc # "idle" /\ c \in Nat /\ next \in Nat
      BY <1>1, CallFacts DEF FlowInv, GatewayTypes
    <2>2. c < next
      BY <2>1 DEF FlowInv, LinkInv, Known
    <2>3. QED
      BY <1>1, <2>1, <2>2, CallFacts DEF FlowInv, GatewayTypes, Sent
  <1>4. Active' = Active
    BY <1>1 DEF Active, Mux!Active
  <1>5. CASE life # "up"
    <2>1. call' = [call EXCEPT ![c] = Returned("failed")] /\ stdin' = stdin
      BY <1>5 DEF Write
    <2>2. Returned("failed") \in Generates /\ Returned("failed").pc = "failed"
      BY DEF Returned, Call, Generates, PCs
    <2>3. /\ call' \in [Ids -> Generates] /\ call'[c].pc = "failed"
          /\ \A d \in Ids : d # c => call'[d] = call[d]
      BY <1>3, <2>1, <2>2
    <2>4. Submits' = Submits
      BY <2>1 DEF Submits
    <2>5. Held = {} /\ Submits = {} /\ Active = {}
      BY <1>5, DeadHolds
    <2>6. Held' = Held
      BY <1>1, <1>4, <2>1, <2>4 DEF Held
    <2>7. \A d \in Busy' : d \in Busy /\ call'[d] = call[d]
      BY <2>3 DEF Busy
    <2>8. EngineTypes' /\ GatewayTypes'
      BY <1>1, <2>1, <2>3, <2>7 DEF FlowInv, EngineTypes, GatewayTypes
    <2>9. \A d : Sent(d) => Sent(d)'
      BY <1>1, <2>3 DEF Sent
    <2>10. Speaks' /\ Silent'
      BY <1>1, <1>4, <2>1, <2>9 DEF FlowInv, Speaks, Silent
    <2>11. FirstFrame' /\ Owned' /\ Early'
      BY <1>1, <1>5, <2>4, <2>5, <2>6 DEF FirstFrame, Owned, Early
    <2>12. Apart'
      BY <1>1, <1>4, <2>6, <2>7, ApartStays DEF FlowInv
    <2>13. Room'
      BY <1>1, <1>4 DEF FlowInv, Room
    <2>14. QED
      BY <1>2, <2>8, <2>10, <2>11, <2>12, <2>13 DEF FlowInv
  <1>6. CASE life = "up"
    <2> DEFINE fr == Submit(c, call[c].slot, call[c].ask[1], call[c].ask[2])
    <2>1. /\ stdin' = Append(stdin, fr)
          /\ call' = [call EXCEPT ![c].pc = "waiting", ![c].ask = <<0, 0>>]
      BY <1>6 DEF Write
    <2>2. /\ fr \in Frames /\ fr.id = c /\ fr.slot = call[c].slot /\ fr.op = "SUBMIT"
      <3>1. call[c].ask[1] \in Nat /\ call[c].ask[2] \in Nat
        BY <1>3 DEF Generates
      <3>2. QED
        BY <1>3, <3>1 DEF Submit, Submissions, Frames
    <2> HIDE DEF fr
    <2>3. /\ stdin' \in Seq(Frames) /\ Len(stdin) \in Nat /\ Len(stdin') = Len(stdin) + 1
          /\ stdin'[Len(stdin) + 1] = fr
          /\ \A i \in 1..Len(stdin) : stdin'[i] = stdin[i]
          /\ \A i \in 1..Len(stdin') : i \in 1..Len(stdin) \/ i = Len(stdin) + 1
      BY <2>1, <2>2, Appended DEF FlowInv, EngineTypes
    <2> DEFINE new == [call[c] EXCEPT !.pc = "waiting", !.ask = <<0, 0>>]
    <2>4. /\ new \in Generates /\ new.pc = "waiting" /\ new.slot = call[c].slot
          /\ new.inbox = call[c].inbox
      BY <1>3 DEF Generates, PCs
    <2>5. call' = [call EXCEPT ![c] = new]
      BY <1>3, <2>1
    <2> HIDE DEF new
    <2>6. /\ call' \in [Ids -> Generates] /\ call'[c] = new
          /\ \A d \in Ids : d # c => call'[d] = call[d]
      BY <1>3, <2>4, <2>5
    <2>7. \A d \in Ids : call'[d].slot = call[d].slot /\ call'[d].inbox = call[d].inbox
      BY <2>4, <2>6
    <2>8. Busy' = Busy
      BY <1>1, <2>4, <2>6 DEF Busy
    <2>9. (\A d : Sent(d) => Sent(d)' /\ d # c) /\ Sent(c)'
      BY <1>1, <1>3, <2>4, <2>6 DEF Sent
    <2>10. EngineTypes' /\ GatewayTypes'
      BY <1>1, <2>3, <2>6, <2>7, <2>8 DEF FlowInv, EngineTypes, GatewayTypes, Busy
    <2>11. Speaks'
      <3>1. (\A i \in 1..Len(stdin) : Sent(stdin[i].id))'
        BY <2>2, <2>3, <2>9 DEF FlowInv, Speaks
      <3>2. QED
        BY <1>1, <1>4, <2>9, <3>1 DEF FlowInv, Speaks
    <2>12. Silent'
      BY <1>1, <1>4, <1>6 DEF FlowInv, Silent
    <2>13. \A j \in Submits' : j \in Submits \/ j = Len(stdin) + 1
      BY <2>3 DEF Submits
    <2>14. \A j \in Submits : j \in Submits' /\ j \in 1..Len(stdin)
      BY <2>3 DEF Submits
    <2>15. FirstFrame'
      <3> SUFFICES ASSUME NEW j \in Submits'
                   PROVE  /\ \A i \in 1..j - 1 : stdin'[i].id # stdin'[j].id
                          /\ \A s \in Active' : req'[s].id # stdin'[j].id
                          /\ job'.phase # "read" => job'.id # stdin'[j].id
        BY DEF FirstFrame
      <3>1. CASE j \in Submits
        <4>1. stdin'[j] = stdin[j] /\ \A i \in 1..j - 1 : stdin'[i] = stdin[i]
          BY <2>3, <2>14, <3>1
        <4>2. QED
          BY <1>1, <1>4, <3>1, <4>1 DEF FlowInv, FirstFrame
      <3>2. CASE j = Len(stdin) + 1
        <4>1. stdin'[j].id = c /\ \A i \in 1..j - 1 : i \in 1..Len(stdin) /\ stdin'[i] = stdin[i]
          BY <2>2, <2>3, <3>2
        <4>2. QED
          BY <1>1, <1>4, <2>9, <4>1 DEF FlowInv, Speaks
      <3>3. QED
        BY <2>13, <3>1, <3>2
    <2>16. \A p \in Held' : p \in Held \/ p = <<c, call[c].slot>>
      <3>1. \A j \in Submits' : IF j \in Submits THEN stdin'[j] = stdin[j] ELSE stdin'[j] = fr
        BY <2>3, <2>13, <2>14
      <3>2. QED
        BY <1>1, <1>4, <2>2, <3>1 DEF Held
    <2>17. Apart'
      <3>1. Apart
        BY DEF FlowInv
      <3>2. ASSUME NEW p \in Held', NEW d \in Busy PROVE (p[2] = call[d].slot <=> p[1] = d)
        BY <1>1, <2>16, <3>1 DEF Apart
      <3>3. ASSUME NEW p \in Held', NEW q \in Held', p[2] = q[2] PROVE p[1] = q[1]
        <4>1. CASE p \in Held /\ q \in Held
          BY <3>1, <3>3, <4>1 DEF Apart
        <4>2. CASE p = <<c, call[c].slot>> \/ q = <<c, call[c].slot>>
          <5>1. p[1] = c \/ q[1] = c
            BY <4>2
          <5>2. p[2] = call[c].slot
            BY <3>3, <4>2
          <5>3. p[1] = c
            BY <1>1, <3>2, <5>2
          <5>4. q[1] = c
            BY <1>1, <3>2, <3>3, <5>2
          <5>5. QED
            BY <5>3, <5>4
        <4>3. QED
          BY <2>16, <4>1, <4>2
      <3>4. \A d \in Busy : call'[d].slot = call[d].slot
        BY <2>7 DEF Busy
      <3>5. \A s, t \in Active' : req'[s].id = req'[t].id => s = t
        BY <1>1, <1>4, <3>1 DEF Apart
      <3>6. \A d, e \in Busy' : call'[d].slot = call'[e].slot => d = e
        BY <2>8, <3>1, <3>4 DEF Apart
      <3>7. \A p \in Held', d \in Busy' : (p[2] = call'[d].slot <=> p[1] = d)
        BY <2>8, <3>2, <3>4
      <3>8. QED
        BY <3>3, <3>5, <3>6, <3>7 DEF Apart
    <2>18. Owned'
      <3> SUFFICES ASSUME NEW p \in Held'
                   PROVE  /\ p[1] \in Busy' \/ closing' # "open"
                          /\ \A i \in 1..Len(stdout') : stdout'[i].id = p[1] => stdout'[i].kind \notin Answers
                          /\ ~InHand(p[1])'
                          /\ ~NoneIn(call[p[1]].inbox)' => closing' # "open"
        BY DEF Owned
      <3>1. CASE p \in Held
        <4>1. call'[p[1]].inbox = call[p[1]].inbox
          BY <2>7, <3>1, HeldAreSent DEF Sent
        <4>2. QED
          BY <1>1, <2>8, <3>1, <4>1 DEF FlowInv, Owned, InHand, NoneIn
      <3>2. CASE p = <<c, call[c].slot>>
        <4>1. p[1] = c /\ call'[c].inbox = call[c].inbox
          BY <2>7, <3>2
        <4>2. \A i \in 1..Len(stdout') : stdout'[i].id # c
          BY <1>1, <2>9 DEF FlowInv, Speaks
        <4>3. ~InHand(c)'
          BY <1>1, <2>9 DEF FlowInv, Speaks, InHand
        <4>4. ~NoneIn(call[c].inbox) => closing # "open"
          BY <1>1, <1>6 DEF FlowInv, Early
        <4>5. QED
          BY <1>1, <2>8, <4>1, <4>2, <4>3, <4>4 DEF NoneIn
      <3>3. QED
        BY <2>16, <3>1, <3>2
    <2>19. Early'
      <3>1. \A d \in Ids : call'[d].pc = "writing" => call[d].pc = "writing"
        BY <2>4, <2>6
      <3>2. QED
        BY <1>1, <2>7, <3>1 DEF FlowInv, Early, NoneIn
    <2>20. Room'
      BY <1>1, <1>4 DEF FlowInv, Room
    <2>21. QED
      BY <1>2, <2>10, <2>11, <2>12, <2>15, <2>17, <2>18, <2>19, <2>20 DEF FlowInv
  <1>7. QED
    BY <1>5, <1>6

\* A generate() that waits takes an event, and may tell the engine to stop.
LEMMA TakeFlow ==
  ASSUME FlowInv, LinkInv', NEW c \in Ids, call[c].pc = "waiting",
         UNCHANGED <<kind, stdout, stderr, life, req, len, turn, rows, job,
                     closing, dispErr, disp, next>>,
         NEW r \in Generates, call' = [call EXCEPT ![c] = r], r.pc # "writing",
         stdin' = stdin \/ (life = "up" /\ stdin' = Append(stdin, Cancel(c))),
         NoneIn(call[c].inbox) => NoneIn(r.inbox),
         \/ r.pc = "waiting" /\ r.slot = call[c].slot
         \/ r.pc # "waiting" /\ (life # "up" \/ ~NoneIn(call[c].inbox))
  PROVE  FlowInv'
  <1>1. /\ c \in Busy /\ c \in Nat /\ Sent(c)
        /\ call' \in [Ids -> Generates] /\ call'[c] = r
        /\ \A d \in Ids : d # c => call'[d] = call[d]
    <2>1. call[c].pc # "idle" /\ c \in Nat /\ next \in Nat
      BY CallFacts DEF FlowInv, GatewayTypes
    <2>2. c < next
      BY <2>1 DEF FlowInv, LinkInv, Known
    <2>3. QED
      BY <2>1, <2>2 DEF FlowInv, GatewayTypes, Sent, Busy
  <1>2. Active' = Active
    BY DEF Active, Mux!Active
  <1>3. /\ stdin' \in Seq(Frames) /\ Len(stdin) \in Nat
        /\ \A i \in 1..Len(stdin) : stdin'[i] = stdin[i] /\ i \in 1..Len(stdin')
        /\ \A i \in 1..Len(stdin') : i \in 1..Len(stdin) \/ stdin'[i] = Cancel(c)
        /\ stdin # stdin' => life = "up"
    <2>1. stdin \in Seq(Frames) /\ Cancel(c) \in Frames
      BY DEF FlowInv, EngineTypes, Cancel, Frames
    <2>2. CASE stdin' = stdin
      BY <2>1, <2>2
    <2>3. CASE life = "up" /\ stdin' = Append(stdin, Cancel(c))
      BY <2>1, <2>3, Appended
    <2>4. QED
      BY <2>2, <2>3
  <1>4. Submits' = Submits /\ Held' = Held
    <2>1. Cancel(c).op # "SUBMIT"
      BY DEF Cancel
    <2>2. Submits' = Submits
      BY <1>3, <2>1 DEF Submits
    <2>3. \A j \in Submits : stdin'[j] = stdin[j]
      BY <1>3 DEF Submits
    <2>4. QED
      BY <1>2, <2>2, <2>3 DEF Held
  <1>5. Busy' \subseteq Busy /\ \A d \in Busy : d # c => d \in Busy'
    BY <1>1 DEF Busy
  <1>6. r.pc = "waiting" => c \in Busy'
    BY <1>1 DEF Busy
  <1>7. \A d \in Busy' : call'[d].slot = call[d].slot
    <2>1. c \in Busy' => r.pc = "waiting"
      BY <1>1 DEF Busy
    <2>2. QED
      BY <1>1, <2>1 DEF Busy
  <1>8. EngineTypes' /\ GatewayTypes'
    BY <1>1, <1>3, <1>5, <1>7 DEF FlowInv, EngineTypes, GatewayTypes
  <1>9. \A d : Sent(d) => Sent(d)'
    BY <1>1 DEF Sent
  <1>10. Speaks'
    <2>1. (\A i \in 1..Len(stdin) : Sent(stdin[i].id))'
      <3>1. Cancel(c).id = c
        BY DEF Cancel
      <3>2. QED
        BY <1>1, <1>3, <1>9, <3>1 DEF FlowInv, Speaks
    <2>2. QED
      BY <1>2, <1>9, <2>1 DEF FlowInv, Speaks
  <1>11. Silent'
    BY <1>2, <1>3 DEF FlowInv, Silent
  <1>12. FirstFrame'
    <2> SUFFICES ASSUME NEW j \in Submits
                 PROVE  /\ \A i \in 1..j - 1 : stdin'[i].id # stdin'[j].id
                        /\ \A s \in Active' : req'[s].id # stdin'[j].id
                        /\ job'.phase # "read" => job'.id # stdin'[j].id
      BY <1>4 DEF FirstFrame
    <2>1. j \in 1..Len(stdin)
      BY DEF Submits
    <2>2. stdin'[j] = stdin[j] /\ \A i \in 1..j - 1 : stdin'[i] = stdin[i]
      BY <1>3, <2>1
    <2>3. QED
      BY <1>2, <2>2 DEF FlowInv, FirstFrame
  <1>13. Apart'
    BY <1>2, <1>4, <1>5, <1>7, ApartStays DEF FlowInv
  <1>14. Owned'
    <2> SUFFICES ASSUME NEW p \in Held
                 PROVE  /\ p[1] \in Busy' \/ closing' # "open"
                        /\ \A i \in 1..Len(stdout') : stdout'[i].id = p[1] => stdout'[i].kind \notin Answers
                        /\ ~InHand(p[1])'
                        /\ ~NoneIn(call[p[1]].inbox)' => closing' # "open"
      BY <1>4 DEF Owned
    <2>1. /\ p[1] \in Busy \/ closing # "open"
          /\ \A i \in 1..Len(stdout) : stdout[i].id = p[1] => stdout[i].kind \notin Answers
          /\ ~InHand(p[1]) /\ (~NoneIn(call[p[1]].inbox) => closing # "open")
      BY DEF FlowInv, Owned
    <2>2. life = "up"
      BY DeadHolds
    <2>3. CASE p[1] # c
      <3>1. call'[p[1]] = call[p[1]]
        BY <1>1, <2>3, HeldAreSent DEF Sent
      <3>2. QED
        BY <1>5, <2>1, <2>3, <3>1 DEF InHand, NoneIn
    <2>4. CASE p[1] = c
      <3>1. ~NoneIn(call'[c].inbox) => closing # "open"
        BY <1>1, <2>1, <2>4
      <3>2. c \in Busy' \/ closing # "open"
        BY <1>6, <2>1, <2>2, <2>4
      <3>3. QED
        BY <2>1, <2>4, <3>1, <3>2 DEF InHand, NoneIn
    <2>5. QED
      BY <2>3, <2>4
  <1>15. Early'
    <2>1. \A d \in Ids : call'[d].pc = "writing" => d # c /\ call'[d] = call[d]
      BY <1>1
    <2>2. QED
      BY <2>1 DEF FlowInv, Early, NoneIn
  <1>16. Room'
    BY <1>2 DEF FlowInv, Room
  <1>17. QED
    BY <1>8, <1>10, <1>11, <1>12, <1>13, <1>14, <1>15, <1>16 DEF FlowInv

LEMMA ReturnedIs ==
  ASSUME NEW how \in PCs
  PROVE  /\ Returned(how) \in Generates /\ Returned(how).pc = how /\ NoneIn(Returned(how).inbox)
         /\ Returned(how).inbox = <<>>
  BY DEF Returned, Call, Generates, NoneIn

LEMMA TakeAnswerFlow == ASSUME NEW c \in Ids, FlowInv, TakeAnswer(c) PROVE FlowInv'
  <1> DEFINE r == Returned(AnswerOf(c))
  <1>1. /\ call[c].pc = "waiting" /\ call[c].inbox # <<>> /\ Head(call[c].inbox).kind \in Answers
        /\ call' = [call EXCEPT ![c] = r] /\ UNCHANGED <<engineVars, closing, dispErr, disp, next>>
    BY DEF TakeAnswer, NextEvent
  <1>2. AnswerOf(c) \in PCs /\ AnswerOf(c) \notin {"writing", "waiting"}
    BY DEF AnswerOf, PCs
  <1>3. r \in Generates /\ r.pc \notin {"writing", "waiting"} /\ NoneIn(r.inbox)
    BY <1>2, ReturnedIs
  <1>4. ~NoneIn(call[c].inbox)
    BY <1>1, CallFacts, Behind DEF NoneIn
  <1>5. LinkInv'
    BY TakeAnswerStep DEF FlowInv
  <1> HIDE DEF r
  <1>6. UNCHANGED <<kind, stdin, stdout, stderr, life, req, len, turn, rows, job>>
    BY <1>1 DEF engineVars, pipes
  <1>7. QED
    BY <1>1, <1>3, <1>4, <1>5, <1>6, TakeFlow

LEMMA TakeDataIs ==
  ASSUME FlowInv, NEW c \in Ids, TakeData(c)
  PROVE  /\ call[c].pc = "waiting" /\ call[c].inbox # <<>> /\ Head(call[c].inbox).kind = "DATA"
         /\ UNCHANGED <<kind, stdout, stderr, life, req, len, turn, rows, job,
                        closing, dispErr, disp, pending, next>>
         /\ stdin' = stdin \/ (life = "up" /\ stdin' = Append(stdin, Cancel(c)))
         /\ \E r \in Generates :
              /\ call' = [call EXCEPT ![c] = r]
              /\ \/ /\ r.pc = "waiting" /\ r.slot = call[c].slot /\ r.inbox = Tail(call[c].inbox)
                    /\ r.cancelSent \/ ( /\ ~call[c].cancelSent
                                         /\ r.heard = Append(call[c].heard, Head(call[c].inbox).n))
                 \/ r = Returned("failed") /\ life # "up"
  <1> DEFINE o == call[c]
             n == Head(o.inbox).n
             r0 == [o EXCEPT !.inbox = Tail(@)]
             r1 == [r0 EXCEPT !.heard = Append(@, n)]
             r2 == [r0 EXCEPT !.cancelSent = TRUE, !.heard = <<>>]
  <1>1. /\ o.pc = "waiting" /\ o.inbox # <<>> /\ Head(o.inbox).kind = "DATA"
        /\ UNCHANGED <<kind, stdout, stderr, life, req, len, turn, rows, job,
                       closing, dispErr, disp, pending, next>>
    BY DEF TakeData, NextEvent
  <1>2. /\ o \in Generates /\ o.inbox \in Seq(Events) /\ Tail(o.inbox) \in Seq(Events)
        /\ o.heard \in Seq(Nat) /\ n \in Nat
    <2>1. o \in Generates /\ o.inbox \in Seq(Events) /\ o.heard \in Seq(Nat)
      BY CallFacts
    <2> HIDE DEF o
    <2>2. Tail(o.inbox) \in Seq(Events) /\ Head(o.inbox) \in Events
      BY <1>1, <2>1, Behind
    <2>3. QED
      BY <2>1, <2>2 DEF Events
  <1>3. \/ o.cancelSent /\ call' = [call EXCEPT ![c] = r0] /\ stdin' = stdin
        \/ ~o.cancelSent /\ call' = [call EXCEPT ![c] = r1] /\ stdin' = stdin
        \/ /\ life = "up" /\ stdin' = Append(stdin, Cancel(c)) /\ call' = [call EXCEPT ![c] = r2]
        \/ life # "up" /\ call' = [call EXCEPT ![c] = Returned("failed")] /\ stdin' = stdin
    BY DEF TakeData, Taken, Hears, HangUp
  <1> HIDE DEF o, n
  <1>4. /\ r0 \in Generates /\ r0.pc = o.pc /\ r0.slot = o.slot /\ r0.inbox = Tail(o.inbox)
        /\ r0.cancelSent = o.cancelSent /\ r0.heard = o.heard
    BY <1>2 DEF Generates
  <1> HIDE DEF r0
  <1>5. /\ r1 \in Generates /\ r1.pc = o.pc /\ r1.slot = o.slot /\ r1.inbox = Tail(o.inbox)
        /\ r1.heard = Append(o.heard, n)
    <2> DEFINE h == Append(o.heard, n)
    <2>1. h \in Seq(Nat)
      BY <1>2
    <2>2. r1 = [r0 EXCEPT !.heard = h]
      BY <1>4
    <2> HIDE DEF h, r1
    <2>3. /\ r1 \in Generates /\ r1.pc = o.pc /\ r1.slot = o.slot /\ r1.inbox = Tail(o.inbox)
          /\ r1.heard = h
      BY <1>4, <2>1, <2>2 DEF Generates
    <2>4. QED
      BY <2>3 DEF h
  <1>6. /\ r2 \in Generates /\ r2.pc = o.pc /\ r2.slot = o.slot /\ r2.inbox = Tail(o.inbox)
        /\ r2.cancelSent = TRUE
    <2>1. <<>> \in Seq(Nat)
      OBVIOUS
    <2>2. QED
      BY <1>4, <2>1 DEF Generates
  <1>7. Returned("failed") \in Generates
    BY ReturnedIs DEF PCs
  <1> HIDE DEF r1, r2
  <1> DEFINE Goes(r) ==
               \/ /\ r.pc = "waiting" /\ r.slot = o.slot /\ r.inbox = Tail(o.inbox)
                  /\ r.cancelSent \/ (~o.cancelSent /\ r.heard = Append(o.heard, n))
               \/ r = Returned("failed") /\ life # "up"
  <1>8. \E r \in Generates : call' = [call EXCEPT ![c] = r] /\ Goes(r)
    <2>1. CASE o.cancelSent /\ call' = [call EXCEPT ![c] = r0]
      BY <1>1, <1>4, <2>1
    <2>2. CASE ~o.cancelSent /\ call' = [call EXCEPT ![c] = r1]
      BY <1>1, <1>5, <2>2
    <2>3. CASE call' = [call EXCEPT ![c] = r2]
      BY <1>1, <1>6, <2>3
    <2>4. CASE life # "up" /\ call' = [call EXCEPT ![c] = Returned("failed")]
      BY <1>7, <2>4
    <2>5. QED
      BY <1>3, <2>1, <2>2, <2>3, <2>4
  <1>9. stdin' = stdin \/ (life = "up" /\ stdin' = Append(stdin, Cancel(c)))
    BY <1>3
  <1>10. QED
    BY <1>1, <1>8, <1>9 DEF o, n

LEMMA TakeDataFlow == ASSUME NEW c \in Ids, FlowInv, TakeData(c) PROVE FlowInv'
  <1>1. /\ call[c].pc = "waiting" /\ call[c].inbox # <<>>
        /\ UNCHANGED <<kind, stdout, stderr, life, req, len, turn, rows, job,
                       closing, dispErr, disp, pending, next>>
        /\ stdin' = stdin \/ (life = "up" /\ stdin' = Append(stdin, Cancel(c)))
    BY TakeDataIs
  <1>2. PICK r \in Generates :
          /\ call' = [call EXCEPT ![c] = r]
          /\ \/ r.pc = "waiting" /\ r.slot = call[c].slot /\ r.inbox = Tail(call[c].inbox)
             \/ r = Returned("failed") /\ life # "up"
    BY TakeDataIs
  <1>3. NoneIn(call[c].inbox) => NoneIn(Tail(call[c].inbox))
    <2>1. /\ Len(Tail(call[c].inbox)) \in Nat
          /\ \A i \in 1..Len(Tail(call[c].inbox)) :
               i + 1 \in 1..Len(call[c].inbox) /\ Tail(call[c].inbox)[i] = call[c].inbox[i + 1]
      BY <1>1, CallFacts, Behind
    <2>2. QED
      BY <2>1 DEF NoneIn
  <1>4. LinkInv'
    BY TakeDataStep DEF FlowInv
  <1>5. CASE r.pc = "waiting" /\ r.slot = call[c].slot /\ r.inbox = Tail(call[c].inbox)
    <2>1. r.pc # "writing" /\ (NoneIn(call[c].inbox) => NoneIn(r.inbox))
      BY <1>3, <1>5
    <2>2. QED
      BY <1>1, <1>2, <1>4, <1>5, <2>1, TakeFlow
  <1>6. CASE r = Returned("failed") /\ life # "up"
    <2>1. r.pc \notin {"writing", "waiting"} /\ NoneIn(r.inbox)
      BY <1>6, ReturnedIs DEF PCs
    <2>2. QED
      BY <1>1, <1>2, <1>4, <1>6, <2>1, TakeFlow
  <1>7. QED
    BY <1>2, <1>5, <1>6

LEMMA DispatchFlow == ASSUME FlowInv, Dispatch PROVE FlowInv'
  <1> DEFINE a == Head(stdout)
  <1>1. /\ disp.pc = "read" /\ stdout # <<>> /\ stdout' = Tail(stdout)
        /\ disp' = (IF a.id \in pending THEN [pc |-> "put", event |-> a] ELSE disp)
        /\ UNCHANGED <<kind, stdin, stderr, life, req, len, turn, rows, job,
                       closing, dispErr, next, call>>
    BY DEF Dispatch
  <1>2. /\ stdout' \in Seq(Events) /\ a \in Events /\ a = stdout[1] /\ 1 \in 1..Len(stdout)
        /\ \A i \in 1..Len(stdout') : i + 1 \in 1..Len(stdout) /\ stdout'[i] = stdout[i + 1]
    BY <1>1, Behind DEF FlowInv, EngineTypes
  <1> HIDE DEF a
  <1>3. Active' = Active /\ Submits' = Submits
    BY <1>1 DEF Active, Mux!Active, Submits
  <1>4. Held' = Held /\ Busy' = Busy
    BY <1>1, <1>3 DEF Held, Busy
  <1>5. LinkInv'
    BY DispatchStep DEF FlowInv
  <1>6. EngineTypes'
    BY <1>1, <1>2 DEF FlowInv, EngineTypes
  <1>7. disp' \in [pc : {"read", "put", "failing", "dead"}, event : Events]
    BY <1>1, <1>2 DEF FlowInv, GatewayTypes
  <1>8. GatewayTypes'
    BY <1>1, <1>4, <1>7 DEF FlowInv, GatewayTypes
  <1>9. Speaks'
    <2>1. \A d : Sent(d)' <=> Sent(d)
      BY <1>1 DEF Sent
    <2>2. (\A i \in 1..Len(stdout) : Sent(stdout[i].id))'
      BY <1>2, <2>1 DEF FlowInv, Speaks
    <2>3. (disp.pc = "put" => Sent(disp.event.id))'
      BY <1>1, <1>2, <2>1 DEF FlowInv, Speaks
    <2>4. (\A i \in 1..Len(stdin) : Sent(stdin[i].id))' /\ (\A s \in Active : Sent(req[s].id))'
          /\ (job.phase # "read" => Sent(job.id))'
      BY <1>1, <1>3, <2>1 DEF FlowInv, Speaks
    <2>5. QED
      BY <2>2, <2>3, <2>4 DEF Speaks
  <1>10. Silent'
    BY <1>1, <1>3 DEF FlowInv, Silent
  <1>11. FirstFrame' /\ Room'
    BY <1>1, <1>3 DEF FlowInv, FirstFrame, Room
  <1>12. Apart'
    BY <1>1, <1>3, <1>4, ApartStays DEF FlowInv
  <1>13. Owned'
    <2> SUFFICES ASSUME NEW p \in Held
                 PROVE  /\ p[1] \in Busy' \/ closing' # "open"
                        /\ \A i \in 1..Len(stdout') : stdout'[i].id = p[1] => stdout'[i].kind \notin Answers
                        /\ ~InHand(p[1])'
                        /\ ~NoneIn(call[p[1]].inbox)' => closing' # "open"
      BY <1>4 DEF Owned
    <2>1. /\ p[1] \in Busy \/ closing # "open"
          /\ \A i \in 1..Len(stdout) : stdout[i].id = p[1] => stdout[i].kind \notin Answers
          /\ ~NoneIn(call[p[1]].inbox) => closing # "open"
      BY DEF FlowInv, Owned
    <2>2. \A i \in 1..Len(stdout') : stdout'[i].id = p[1] => stdout'[i].kind \notin Answers
      BY <1>2, <2>1
    <2>3. ~InHand(p[1])'
      BY <1>1, <1>2, <2>1 DEF InHand
    <2>4. QED
      BY <1>1, <1>4, <2>1, <2>2, <2>3 DEF NoneIn
  <1>14. Early'
    BY <1>1 DEF FlowInv, Early, NoneIn
  <1>15. QED
    BY <1>5, <1>6, <1>8, <1>9, <1>10, <1>11, <1>12, <1>13, <1>14 DEF FlowInv

\* An answer in a queue is still there when an event comes behind it.
LEMMA NoneInAppend ==
  ASSUME NEW q \in Seq(Events), NEW a \in Events
  PROVE  NoneIn(Append(q, a)) <=> (NoneIn(q) /\ a.kind \notin Answers)
  <1> DEFINE r == Append(q, a)
  <1>1. /\ Len(q) \in Nat /\ Len(r) = Len(q) + 1 /\ r[Len(q) + 1] = a
        /\ \A i \in 1..Len(q) : r[i] = q[i]
        /\ \A i \in 1..Len(r) : i \in 1..Len(q) \/ i = Len(q) + 1
    BY Appended
  <1>2. Len(q) + 1 \in 1..Len(r) /\ \A i \in 1..Len(q) : i \in 1..Len(r)
    BY <1>1
  <1> HIDE DEF r
  <1>3. QED
    BY <1>1, <1>2 DEF NoneIn, r

\* Queues grow, each with an event of the dispatcher or of close().
LEMMA QueuesGrow ==
  ASSUME FlowInv, LinkInv', UNCHANGED engineVars, UNCHANGED next,
         closing' = closing \/ (closing # "open" /\ closing' # "open"),
         disp' \in [pc : {"read", "dead"}, event : Events] \/ disp' = disp,
         call' \in [Ids -> Generates],
         \A d \in Ids : /\ call'[d].pc = call[d].pc /\ call'[d].slot = call[d].slot
                        /\ \/ NoneIn(call'[d].inbox) <=> NoneIn(call[d].inbox)
                           \/ life # "up"
                           \/ closing # "open"
                           \/ InHand(d) /\ call[d].pc # "writing"
  PROVE  FlowInv'
  <1>1. /\ EngineTypes' /\ FirstFrame' /\ Room'
        /\ Held' = Held /\ Active' = Active /\ Submits' = Submits
        /\ UNCHANGED <<kind, stdin, stdout, stderr, life, req, len, turn, rows, job>>
    BY SameEngine
  <1>2. Busy' = Busy
    BY DEF Busy
  <1>3. GatewayTypes'
    BY <1>2 DEF FlowInv, GatewayTypes, Busy
  <1>4. \A d : Sent(d)' <=> Sent(d)
    BY DEF Sent
  <1>5. disp' = disp \/ disp'.pc \in {"read", "dead"}
    OBVIOUS
  <1>6. Speaks' /\ Silent'
    BY <1>1, <1>4, <1>5 DEF FlowInv, Speaks, Silent
  <1>7. Apart'
    BY <1>1, <1>2, ApartStays DEF FlowInv, Busy
  <1>8. Owned'
    <2> SUFFICES ASSUME NEW p \in Held
                 PROVE  /\ p[1] \in Busy' \/ closing' # "open"
                        /\ \A i \in 1..Len(stdout') : stdout'[i].id = p[1] => stdout'[i].kind \notin Answers
                        /\ ~InHand(p[1])'
                        /\ ~NoneIn(call[p[1]].inbox)' => closing' # "open"
      BY <1>1 DEF Owned
    <2>1. /\ p[1] \in Busy \/ closing # "open"
          /\ \A i \in 1..Len(stdout) : stdout[i].id = p[1] => stdout[i].kind \notin Answers
          /\ ~InHand(p[1]) /\ (~NoneIn(call[p[1]].inbox) => closing # "open")
      BY DEF FlowInv, Owned
    <2>2. life = "up" /\ p[1] \in Ids
      BY DeadHolds, HeldAreSent DEF Sent
    <2>3. (~NoneIn(call[p[1]].inbox))' => closing' # "open"
      BY <2>1, <2>2
    <2>4. ~InHand(p[1])'
      BY <1>5, <2>1 DEF InHand
    <2>5. QED
      BY <1>1, <1>2, <2>1, <2>3, <2>4
  <1>9. Early'
    BY <1>1 DEF FlowInv, Early
  <1>10. QED
    BY <1>1, <1>3, <1>6, <1>7, <1>8, <1>9 DEF FlowInv

LEMMA PutFlow == ASSUME FlowInv, Put PROVE FlowInv'
  <1> DEFINE c == disp.event.id
             r == [call[c] EXCEPT !.inbox = Append(@, disp.event)]
  <1>1. /\ disp.pc = "put" /\ call' = [call EXCEPT ![c].inbox = Append(@, disp.event)]
        /\ disp' = [pc |-> "read", event |-> NoEvent]
        /\ UNCHANGED <<engineVars, closing, dispErr, pending, next>>
    BY DEF Put
  <1>2. c \in Ids /\ disp.event \in Events /\ call \in [Ids -> Generates] /\ Sent(c)
    BY <1>1 DEF FlowInv, LinkInv, Known, GatewayTypes, Speaks
  <1>3. call' = [call EXCEPT ![c] = r]
    BY <1>1
  <1>4. /\ r \in Generates /\ r.inbox = Append(call[c].inbox, disp.event) /\ r.pc = call[c].pc
        /\ r.slot = call[c].slot
    BY <1>2, InboxGrows
  <1> HIDE DEF r
  <1>5. /\ call' \in [Ids -> Generates] /\ call'[c] = r
        /\ \A d \in Ids : d # c => call'[d] = call[d]
    BY <1>2, <1>3, <1>4
  <1>6. NoEvent \in Events
    BY EventsAre DEF NoEvent, Whys
  <1>7. call[c].pc # "writing" /\ call[c].inbox \in Seq(Events)
    BY <1>2, CallFacts DEF Sent
  <1>8. (NoneIn(call'[c].inbox) <=> NoneIn(call[c].inbox)) \/ (InHand(c) /\ call[c].pc # "writing")
    <2>1. NoneIn(r.inbox) <=> (NoneIn(call[c].inbox) /\ disp.event.kind \notin Answers)
      BY <1>2, <1>4, <1>7, NoneInAppend
    <2>2. QED
      BY <1>1, <1>5, <1>7, <2>1 DEF InHand
  <1>9. \A d \in Ids : /\ call'[d].pc = call[d].pc /\ call'[d].slot = call[d].slot
                      /\ \/ NoneIn(call'[d].inbox) <=> NoneIn(call[d].inbox)
                         \/ InHand(d) /\ call[d].pc # "writing"
    BY <1>4, <1>5, <1>8
  <1>10. LinkInv'
    BY PutStep DEF FlowInv
  <1>11. disp' \in [pc : {"read", "dead"}, event : Events]
    BY <1>1, <1>6
  <1>12. QED
    BY <1>1, <1>5, <1>9, <1>10, <1>11, QueuesGrow

LEMMA EndOfOutputFlow == ASSUME FlowInv, EndOfOutput PROVE FlowInv'
  <1>1. /\ disp.pc = "read" /\ life # "up"
        /\ disp' = [pc |-> IF closing = "open" THEN "failing" ELSE "dead", event |-> NoEvent]
        /\ UNCHANGED <<engineVars, closing, pending, next, call>>
    BY DEF EndOfOutput
  <1>2. /\ EngineTypes' /\ FirstFrame' /\ Room'
        /\ Held' = Held /\ Active' = Active /\ Submits' = Submits
        /\ UNCHANGED <<kind, stdin, stdout, stderr, life, req, len, turn, rows, job>>
    BY <1>1, SameEngine
  <1>3. Busy' = Busy /\ \A d : Sent(d)' <=> Sent(d)
    BY <1>1 DEF Busy, Sent
  <1>4. NoEvent \in Events
    BY EventsAre DEF NoEvent, Whys
  <1>5. GatewayTypes'
    <2>1. disp' \in [pc : {"read", "put", "failing", "dead"}, event : Events]
      BY <1>1, <1>4
    <2>2. QED
      BY <1>1, <1>3, <2>1 DEF FlowInv, GatewayTypes
  <1>6. Speaks' /\ Silent' /\ Early'
    BY <1>1, <1>2, <1>3 DEF FlowInv, Speaks, Silent, Early, NoneIn
  <1>7. Held = {}
    BY <1>1, DeadHolds
  <1>8. Owned' /\ Apart'
    <2>1. Owned'
      BY <1>2, <1>7 DEF Owned
    <2>2. QED
      BY <1>1, <1>2, <1>3, <2>1, ApartStays DEF FlowInv
  <1>9. LinkInv'
    BY EndOfOutputStep DEF FlowInv
  <1>10. QED
    BY <1>2, <1>5, <1>6, <1>8, <1>9 DEF FlowInv

\* _fail_pending: the registered calls have an error behind their events.
LEMMA PendingFailed ==
  ASSUME FlowInv, NEW why \in Whys, FailPending(why)
  PROVE  /\ call' \in [Ids -> Generates] /\ pending' = {}
         /\ \A d \in Ids : d \notin pending => call'[d] = call[d]
         /\ \A d \in Ids : d \in pending =>
              /\ call'[d].inbox = Append(call[d].inbox, Error(d, why))
              /\ call'[d].pc = call[d].pc /\ call'[d].slot = call[d].slot
              /\ call'[d].heard = call[d].heard /\ call'[d].cancelSent = call[d].cancelSent
  <1> DEFINE R(d) == [call[d] EXCEPT !.inbox = Append(@, Error(d, why))]
  <1>1. /\ call' = [d \in Ids |-> IF d \in pending THEN R(d) ELSE call[d]]
        /\ pending' = {}
    BY DEF FailPending
  <1>2. ASSUME NEW d \in Ids
        PROVE  /\ R(d) \in Generates /\ R(d).inbox = Append(call[d].inbox, Error(d, why))
               /\ R(d).pc = call[d].pc /\ R(d).slot = call[d].slot
               /\ R(d).heard = call[d].heard /\ R(d).cancelSent = call[d].cancelSent
    <2>1. call[d] \in Generates /\ Error(d, why) \in Events
      BY CallFacts, EventsAre
    <2>2. QED
      BY <2>1, InboxGrows
  <1> HIDE DEF R
  <1>3. QED
    BY <1>1, <1>2, CallFacts

LEMMA FailPendingFlow ==
  ASSUME FlowInv, DispatcherFails \/ CloseFails
  PROVE  FlowInv'
  <1>1. \E why \in Whys : FailPending(why)
    BY DEF DispatcherFails, CloseFails, Whys
  <1>2. /\ call' \in [Ids -> Generates]
        /\ \A d \in Ids : call'[d].pc = call[d].pc /\ call'[d].slot = call[d].slot
    BY <1>1, PendingFailed
  <1>3. NoEvent \in Events
    BY EventsAre DEF NoEvent, Whys
  <1>4. LinkInv'
    BY FailPendingStep DEF FlowInv, DispatcherFails, CloseFails
  <1>5. CASE DispatcherFails
    <2>1. /\ disp.pc = "failing" /\ disp' = [pc |-> "dead", event |-> NoEvent]
          /\ UNCHANGED <<engineVars, closing, dispErr, next>>
      BY <1>5 DEF DispatcherFails
    <2>2. life # "up" /\ disp' \in [pc : {"read", "dead"}, event : Events]
      BY <1>3, <2>1 DEF FlowInv, Silent
    <2>3. QED
      BY <1>2, <1>4, <2>1, <2>2, QueuesGrow
  <1>6. CASE CloseFails
    <2>1. /\ closing = "failing" /\ closing' = "stopping"
          /\ UNCHANGED <<engineVars, dispErr, disp, next>>
      BY <1>6 DEF CloseFails
    <2>2. QED
      BY <1>2, <1>4, <2>1, QueuesGrow
  <1>7. QED
    BY <1>5, <1>6

LEMMA CloseFlow == ASSUME FlowInv, Close PROVE FlowInv'
  <1>1. /\ closing = "open" /\ closing' = "failing"
        /\ UNCHANGED <<engineVars, dispErr, disp, pending, next, call>>
    BY DEF Close
  <1>2. /\ EngineTypes' /\ FirstFrame' /\ Room'
        /\ Held' = Held /\ Active' = Active /\ Submits' = Submits
        /\ UNCHANGED <<kind, stdin, stdout, stderr, life, req, len, turn, rows, job>>
    BY <1>1, SameEngine
  <1>3. Busy' = Busy /\ \A d : Sent(d)' <=> Sent(d)
    BY <1>1 DEF Busy, Sent
  <1>4. LinkInv'
    BY <1>1, StepKeepsLink DEF FlowInv, Next, Close
  <1>5. GatewayTypes' /\ Speaks' /\ Silent' /\ Early'
    BY <1>1, <1>2, <1>3 DEF FlowInv, GatewayTypes, Speaks, Silent, Early, NoneIn
  <1>6. Apart'
    BY <1>1, <1>2, <1>3, ApartStays DEF FlowInv
  <1>7. Owned'
    BY <1>1, <1>2, <1>3 DEF FlowInv, Owned, InHand, NoneIn
  <1>8. QED
    BY <1>2, <1>4, <1>5, <1>6, <1>7 DEF FlowInv

\* The process dies, is reaped, or is stopped by close().
LEMMA DeathFlow ==
  ASSUME FlowInv, LinkInv', Dies \/ (life # "up" /\ UNCHANGED engineVars) \/ Exit,
         UNCHANGED <<disp, pending, next, call>>, closing' = closing \/ closing' # "open"
  PROVE  /\ FlowInv' /\ stdout' = stdout
         /\ Active' = {} /\ Submits' = {} /\ Active' \subseteq Active /\ job'.phase = "read"
  <1>1. Mux!NoRequest \in ServeReqs /\ Mux!NoRequest.active = FALSE
    BY DEF Mux!NoRequest, ServeReqs
  <1>2. Qwn!NoJob \in Jobs /\ Qwn!NoJob.phase = "read" /\ Qwn!NoJob.pos = 0
    BY DEF Qwn!NoJob, Jobs
  <1>3. /\ kind' = kind /\ stdout' = stdout /\ life' \in {"eof", "exited"} /\ stdin' = <<>>
        /\ EngineTypes' /\ Active' = {} /\ job'.phase = "read" /\ Room'
    <2>1. CASE Dies
      <3>1. /\ kind' = kind /\ stdout' = stdout /\ life' = "eof" /\ stdin' = <<>>
            /\ req' = [s \in Slots |-> Mux!NoRequest] /\ len' = [s \in Slots |-> 0]
            /\ turn' = "poll" /\ rows' = {} /\ job' = Qwn!NoJob
        BY <2>1 DEF Dies
      <3>2. Active' = {}
        BY <1>1, <3>1 DEF Active, Mux!Active
      <3>3. EngineTypes'
        BY <1>1, <1>2, <3>1 DEF FlowInv, EngineTypes
      <3>4. Room'
        BY <1>2, <3>1, <3>2, EngineAssumption DEF Room
      <3>5. QED
        BY <1>2, <3>1, <3>2, <3>3, <3>4
    <2>2. CASE (life # "up" /\ UNCHANGED engineVars) \/ Exit
      <3>1. /\ life # "up" /\ life' \in {"eof", "exited"}
            /\ UNCHANGED <<kind, stdin, stdout, stderr, req, len, turn, rows, job>>
        BY <2>2 DEF Exit, engineVars, pipes, FlowInv, EngineTypes
      <3>2. Active' = Active
        BY <3>1 DEF Active, Mux!Active
      <3>3. QED
        BY <3>1, <3>2 DEF FlowInv, EngineTypes, Silent, Room
    <2>3. QED
      BY <2>1, <2>2
  <1>4. Submits' = {} /\ Held' = {}
    <2>1. Len(stdin') = 0
      BY <1>3
    <2>2. QED
      BY <1>3, <2>1 DEF Submits, Held
  <1>5. Busy' = Busy /\ \A d : Sent(d)' <=> Sent(d)
    BY DEF Busy, Sent
  <1>6. GatewayTypes'
    BY <1>5 DEF FlowInv, GatewayTypes
  <1>7. Speaks' /\ Silent'
    <2>1. Len(stdin') = 0
      BY <1>3
    <2>2. QED
      BY <1>3, <1>5, <2>1 DEF FlowInv, Speaks, Silent
  <1>8. FirstFrame' /\ Owned' /\ Early'
    BY <1>3, <1>4 DEF FirstFrame, Owned, Early
  <1>9. Apart'
    BY <1>3, <1>4, <1>5 DEF FlowInv, Apart
  <1>10. QED
    BY <1>3, <1>4, <1>6, <1>7, <1>8, <1>9 DEF FlowInv

LEMMA StepKeepsFlow == FlowInv /\ [Next]_vars => FlowInv'
  <1> SUFFICES ASSUME FlowInv, [Next]_vars PROVE FlowInv'
    OBVIOUS
  <1>1. LinkInv'
    BY StepKeepsLink DEF FlowInv
  <1>2. CASE UNCHANGED vars
    <2>1. /\ EngineTypes' /\ FirstFrame' /\ Room'
          /\ Held' = Held /\ Active' = Active /\ Submits' = Submits
          /\ UNCHANGED <<kind, stdin, stdout, stderr, life, req, len, turn, rows, job>>
      BY <1>2, SameEngine DEF vars
    <2>2. UNCHANGED <<closing, dispErr, disp, pending, next, call>>
      BY <1>2 DEF vars, linkVars
    <2>3. Busy' = Busy /\ \A d : Sent(d)' <=> Sent(d)
      BY <2>2 DEF Busy, Sent
    <2>4. GatewayTypes' /\ Speaks' /\ Silent' /\ Early'
      BY <2>1, <2>2, <2>3 DEF FlowInv, GatewayTypes, Speaks, Silent, Early, NoneIn
    <2>5. Apart'
      BY <2>1, <2>2, <2>3, ApartStays DEF FlowInv
    <2>6. Owned'
      BY <2>1, <2>2, <2>3 DEF FlowInv, Owned, InHand, NoneIn
    <2>7. QED
      BY <1>1, <2>1, <2>4, <2>5, <2>6 DEF FlowInv
  <1>3. CASE Crash \/ Exit \/ CloseStops
    <2>1. /\ Dies \/ (life # "up" /\ UNCHANGED engineVars) \/ Exit
          /\ UNCHANGED <<disp, pending, next, call>> /\ (closing' = closing \/ closing' # "open")
      BY <1>3 DEF Crash, Exit, CloseStops, linkVars
    <2>2. QED
      BY <1>1, <2>1, DeathFlow
  <1>4. QED
    BY <1>2, <1>3, EngineDoes, RegisterFlow, WriteFlow, TakeDataFlow, TakeAnswerFlow, DispatchFlow,
       PutFlow, EndOfOutputFlow, FailPendingFlow, CloseFlow DEF Next, Dispatcher, Take-----------------------------------------------------------------------------

(* A call's tokens, step by step.                                           *)

LEMMA InitChain == Init => ChainInv
  <1> SUFFICES ASSUME Init PROVE ChainInv
    OBVIOUS
  <1>1. \A c \in Ids : call[c].pc = "idle"
    BY DEF Init, NoCall, Returned, Call
  <1>2. QED
    BY <1>1 DEF ChainInv, Busy

\* Nothing is printed, passed on or begun.
LEMMA ChainStays ==
  ASSUME FlowInv, NEW c \in Ids, Chain(c), stdout' = stdout,
         call'[c].heard = call[c].heard, call'[c].inbox = call[c].inbox,
         call'[c].pc = "writing" => call[c].pc = "writing",
         c \in pending' => c \in pending,
         disp' = disp \/ (disp.pc # "put" /\ disp'.pc # "put"),
         \A s \in Active' : s \in Active /\ req'[s] = req[s],
         job'.phase = "generate" => job' = job,
         \A i \in Submits' : stdin'[i].id = c =>
           call[c].pc = "writing" \/ \E j \in Submits : stdin[j].id = c
  PROVE  Chain(c)'
  <1>1. ASSUME NEW e, Reached(c, e) PROVE Reached(c, e)'
    BY <1>1 DEF Reached
  <1>2. Passed(c)' = Passed(c)
    BY DEF Passed
  <1>3. (c \in pending => \E e \in Nat : Tells(stdout, c, Passed(c), e) /\ Reached(c, e))'
    <2>1. ASSUME c \in pending'
          PROVE  \E e \in Nat : Tells(stdout, c, Passed(c)', e) /\ Reached(c, e)'
      BY <1>1, <1>2, <2>1 DEF Chain
    <2>2. QED
      BY <2>1
  <1>4. Queued(c)' /\ (call[c].heard = [k \in 1..Len(call[c].heard) |-> k])'
    BY DEF Chain, Queued
  <1>5. (disp.pc = "put" /\ disp.event.id = c /\ NoneIn(call[c].inbox) =>
           Fits(disp.event, Len(call[c].heard) + Len(call[c].inbox)))'
    BY DEF Chain, Fits, NoneIn
  <1>6. QED
    BY <1>3, <1>4, <1>5 DEF Chain

\* The engine prints: its events follow what the gateway has not read.
LEMMA TellsAll ==
  ASSUME NEW q \in Seq(Events), NEW w, NEW x, IsAbout(w, x), NEW c \in Nat,
         NEW b \in Nat, NEW e \in Nat, NEW f \in Nat, Tells(q, c, b, e),
         IF x = c THEN Counts(w, e, f) ELSE f = e
  PROVE  Tells(q \o w, c, b, f)
  <1>1. CASE w = <<>>
    <2>1. q \o w = q /\ Len(w) = 0
      BY <1>1
    <2>2. f = e
      <3>1. \A a, b1 : w # <<a>> /\ w # <<a, b1>>
        BY <1>1
      <3>2. QED
        BY <3>1 DEF Counts
    <2>3. QED
      BY <2>1, <2>2
  <1>2. CASE \E a \in Events : a.id = x /\ w = <<a>>
    <2>1. PICK a \in Events : a.id = x /\ w = <<a>>
      BY <1>2
    <2>2. q \o w = Append(q, a)
      BY <2>1
    <2>3. IF a.id = c THEN Fits(a, e) /\ f = After(a, e) ELSE f = e
      <3>1. CASE x = c
        <4>1. \A a1, a2 : /\ <<a>> # <<>> /\ <<a>> # <<a1, a2>> /\ (<<a>> = <<a1>> => a = a1)
          OBVIOUS
        <4>2. QED
          BY <2>1, <3>1, <4>1 DEF Counts
      <3>2. QED
        BY <2>1, <3>1
    <2>4. QED
      BY <2>2, <2>3, TellsMore
  <1>3. CASE \E a1, a2 \in Events : a1.id = x /\ a2.id = x /\ w = <<a1, a2>>
    <2>1. PICK a1 \in Events, a2 \in Events : a1.id = x /\ a2.id = x /\ w = <<a1, a2>>
      BY <1>3
    <2>2. q \o w = Append(Append(q, a1), a2)
      BY <2>1
    <2> DEFINE m == IF x = c THEN After(a1, e) ELSE e
    <2>3. /\ m \in Nat
          /\ IF a1.id = c THEN Fits(a1, e) /\ m = After(a1, e) ELSE m = e
          /\ IF a2.id = c THEN Fits(a2, m) /\ f = After(a2, m) ELSE f = m
      <3>1. CASE x = c
        <4>1. \A d1, d2 : /\ <<a1, a2>> # <<>> /\ <<a1, a2>> # <<d1>>
                          /\ (<<a1, a2>> = <<d1, d2>> => a1 = d1 /\ a2 = d2)
          OBVIOUS
        <4>2. /\ Fits(a1, e) /\ After(a1, e) \in Nat
              /\ Fits(a2, After(a1, e)) /\ f = After(a2, After(a1, e))
          BY <2>1, <3>1, <4>1 DEF Counts
        <4>3. QED
          BY <2>1, <3>1, <4>2
      <3>2. QED
        BY <2>1, <3>1
    <2> HIDE DEF m
    <2>4. Append(q, a1) \in Seq(Events)
      OBVIOUS
    <2>5. Tells(Append(q, a1), c, b, m)
      BY <2>3, TellsMore
    <2>6. Tells(Append(Append(q, a1), a2), c, b, f)
      BY <2>3, <2>4, <2>5, TellsMore
    <2>7. QED
      BY <2>2, <2>6
  <1>4. QED
    BY <1>1, <1>2, <1>3 DEF IsAbout

LEMMA PassedIsNat == ASSUME FlowInv, NEW c \in Ids PROVE Passed(c) \in Nat
  <1> DEFINE m == Len(call[c].heard)
             n == Len(call[c].inbox)
  <1>1. m \in Nat /\ n \in Nat
    BY CallFacts
  <1>2. Passed(c) = m + n \/ Passed(c) = m + n + 1
    <2>1. Passed(c) = m + n + (IF disp.pc = "put" /\ disp.event.id = c THEN 1 ELSE 0)
      BY DEF Passed
    <2> HIDE DEF m, n
    <2>2. QED
      BY <1>1, <2>1
  <1> HIDE DEF m, n
  <1>3. QED
    BY <1>1, <1>2

LEMMA EngineChain == ASSUME FlowInv, ChainInv, EngineStep PROVE ChainInv'
  <1>1. life = "up" /\ UNCHANGED <<kind, life, closing, dispErr, disp, pending, next, call>>
    BY DEF EngineStep, linkVars
  <1>2. PICK x, w : EngineMove(x, w) /\ EngineCounts(x, w)
    BY EngineDoes DEF EngineActs
  <1>3. stdout' = stdout \o w /\ IsAbout(w, x) /\ stdout \in Seq(Events)
    BY <1>2 DEF EngineMove, FlowInv, EngineTypes
  <1> SUFFICES ASSUME NEW c \in Ids, Chain(c) PROVE Chain(c)'
    BY <1>1 DEF ChainInv, Busy
  <1>4. Passed(c)' = Passed(c) /\ Passed(c) \in Nat /\ c \in Nat
    BY <1>1, PassedIsNat, CallFacts DEF Passed
  <1>5. ASSUME NEW e \in Nat, Tells(stdout, c, Passed(c), e), Reached(c, e)
        PROVE  \E f \in Nat : Tells(stdout \o w, c, Passed(c), f) /\ Reached(c, f)'
    <2>1. CASE c = x
      <3>1. PICK f \in Nat : Counts(w, e, f) /\ Reached(c, f)'
        BY <1>2, <1>5, <2>1 DEF EngineCounts
      <3>2. Tells(stdout \o w, c, Passed(c), f)
        BY <1>3, <1>4, <1>5, <2>1, <3>1, TellsAll
      <3>3. QED
        BY <3>1, <3>2
    <2>2. CASE c # x
      <3>1. Tells(stdout \o w, c, Passed(c), e)
        BY <1>3, <1>4, <1>5, <2>2, TellsAll
      <3>2. \A s \in Active' : req'[s].id = c => e = req'[s].emitted
        BY <1>2, <1>5, <2>2 DEF EngineCounts, Kept, Reached
      <3>3. job'.phase = "generate" /\ job'.id = c => e = job'.emitted
        BY <1>2, <1>5, <2>2 DEF EngineCounts, Reached
      <3>4. (\E i \in Submits' : stdin'[i].id = c) => \E i \in Submits : stdin[i].id = c
        <4>1. stdin' = stdin \/ (stdin # <<>> /\ stdin' = Tail(stdin))
          BY <1>2 DEF EngineMove
        <4>2. PICK d \in {0, 1} :
                /\ \A j \in 1..Len(stdin') : j + d \in 1..Len(stdin) /\ stdin'[j] = stdin[j + d]
                /\ \A j \in Submits' : j + d \in Submits /\ j \in 1..Len(stdin')
          BY <4>1, FramesLeft DEF FlowInv
        <4>3. QED
          BY <4>2
      <3>5. Reached(c, e)'
        BY <1>1, <1>5, <3>2, <3>3, <3>4 DEF Reached
      <3>6. QED
        BY <3>1, <3>5
    <2>3. QED
      BY <2>1, <2>2
  <1>6. (c \in pending => \E e \in Nat : Tells(stdout, c, Passed(c), e) /\ Reached(c, e))'
    <2>1. ASSUME c \in pending
          PROVE  \E f \in Nat : Tells(stdout \o w, c, Passed(c), f) /\ Reached(c, f)'
      BY <1>5, <2>1 DEF Chain
    <2>2. c \in pending => \E f \in Nat : Tells(stdout', c, Passed(c)', f) /\ Reached(c, f)'
      BY <1>3, <1>4, <2>1
    <2>3. QED
      BY <1>1, <2>2
  <1>7. QED
    BY <1>1, <1>6 DEF Chain, Queued, Fits, NoneIn

LEMMA RegisterChain == ASSUME FlowInv, ChainInv, Register PROVE ChainInv'
  <1>1. /\ next \in Ids /\ UNCHANGED <<engineVars, closing, dispErr, disp>>
        /\ \/ call' = [call EXCEPT ![next] = Returned("failed")] /\ pending' = pending
           \/ /\ pending' = pending \union {next}
              /\ \E s \in Slots, ask \in Requests : call' = [call EXCEPT ![next] = Call("writing", s, ask)]
    BY DEF Register
  <1>2. /\ Active' = Active /\ Submits' = Submits
        /\ UNCHANGED <<kind, stdin, stdout, stderr, life, req, len, turn, rows, job>>
    BY <1>1, SameEngine
  <1>3. \A d \in Ids : d # next => call'[d] = call[d]
    BY <1>1, CallFacts DEF FlowInv, GatewayTypes
  <1> SUFFICES ASSUME NEW c \in Busy', ~call'[c].cancelSent PROVE Chain(c)'
    BY DEF ChainInv
  <1>4. c \in Ids /\ call'[c].pc \in {"writing", "waiting"}
    BY DEF Busy, Ids
  <1>5. CASE c # next
    <2>1. call'[c] = call[c] /\ (c \in pending' => c \in pending)
      BY <1>1, <1>3, <1>4, <1>5
    <2>2. Chain(c)
      BY <1>4, <2>1 DEF ChainInv, Busy
    <2>3. QED
      BY <1>1, <1>2, <1>4, <2>1, <2>2, ChainStays
  <1>6. CASE c = next
    <2>1. call'[c].heard = <<>> /\ call'[c].inbox = <<>>
      <3>1. call \in [Ids -> Generates]
        BY DEF FlowInv, GatewayTypes
      <3>2. \A pc, s, ask : Call(pc, s, ask).heard = <<>> /\ Call(pc, s, ask).inbox = <<>>
        BY DEF Call
      <3>3. \E pc, s, ask : call' = [call EXCEPT ![c] = Call(pc, s, ask)]
        BY <1>1, <1>6 DEF Returned
      <3>4. QED
        BY <1>4, <3>1, <3>2, <3>3
    <2>2. ~Sent(c) /\ c \in Nat
      BY <1>4, <1>6, IdsAreNat DEF Sent
    <2>3. disp'.pc = "put" => disp'.event.id # c
      BY <1>1, <2>2 DEF FlowInv, Speaks
    <2>4. Len(call'[c].heard) = 0 /\ Len(call'[c].inbox) = 0
      BY <2>1
    <2>5. Passed(c)' = 0
      BY <2>3, <2>4 DEF Passed
    <2>6. Tells(stdout', c, 0, 0)
      <3>1. stdout' \in Seq(Events) /\ \A i \in 1..Len(stdout') : stdout'[i].id # c
        BY <1>2, <2>2 DEF FlowInv, EngineTypes, Speaks
      <3>2. QED
        BY <2>2, <3>1, TellsNothing
    <2>7. Reached(c, 0)'
      <3>1. \A s \in Active' : req'[s].id # c
        BY <1>2, <2>2 DEF FlowInv, Speaks
      <3>2. job'.phase = "generate" => job'.id # c
        BY <1>2, <2>2 DEF FlowInv, Speaks
      <3>3. QED
        BY <3>1, <3>2 DEF Reached
    <2>8. (c \in pending => \E e \in Nat : Tells(stdout, c, Passed(c), e) /\ Reached(c, e))'
      BY <2>5, <2>6, <2>7
    <2>9. (call[c].heard = [k \in 1..Len(call[c].heard) |-> k])'
      BY <2>1, <2>4
    <2>10. Queued(c)'
      BY <2>4 DEF Queued
    <2>11. QED
      BY <2>3, <2>8, <2>9, <2>10 DEF Chain
  <1>7. QED
    BY <1>5, <1>6

LEMMA WriteChain == ASSUME NEW c \in Ids, FlowInv, ChainInv, Write(c) PROVE ChainInv'
  <1>1. /\ call[c].pc = "writing"
        /\ UNCHANGED <<kind, stdout, stderr, life, req, len, turn, rows, job, closing, dispErr, disp, next>>
    BY DEF Write
  <1>2. call \in [Ids -> Generates] /\ stdin \in Seq(Frames)
    BY DEF FlowInv, GatewayTypes, EngineTypes
  <1>3. Active' = Active
    BY <1>1 DEF Active, Mux!Active
  <1> SUFFICES ASSUME NEW d \in Busy', ~call'[d].cancelSent PROVE Chain(d)'
    BY DEF ChainInv
  <1>4. d \in Ids /\ call'[d].pc \in {"writing", "waiting"}
    BY DEF Busy, Ids
  <1>5. CASE life # "up"
    <2>1. /\ call' = [call EXCEPT ![c] = Returned("failed")] /\ stdin' = stdin
          /\ pending' = pending \ {c}
      BY <1>5 DEF Write
    <2>2. call'[c].pc = "failed"
      BY <1>2, <2>1, ReturnedIs DEF PCs
    <2>3. d # c
      BY <1>4, <2>2
    <2>4. call'[d] = call[d] /\ Submits' = Submits
      BY <1>2, <1>4, <2>1, <2>3 DEF Submits
    <2>5. Chain(d)
      BY <1>4, <2>4 DEF ChainInv, Busy
    <2>6. QED
      BY <1>1, <1>3, <1>4, <2>1, <2>4, <2>5, ChainStays
  <1>6. CASE life = "up"
    <2> DEFINE fr == Submit(c, call[c].slot, call[c].ask[1], call[c].ask[2])
    <2>1. /\ stdin' = Append(stdin, fr) /\ pending' = pending
          /\ call' = [call EXCEPT ![c].pc = "waiting", ![c].ask = <<0, 0>>]
      BY <1>6 DEF Write
    <2>2. fr.id = c
      BY DEF Submit
    <2>3. /\ call'[d].heard = call[d].heard /\ call'[d].inbox = call[d].inbox
          /\ call'[d].cancelSent = call[d].cancelSent
          /\ call'[d].pc = IF d = c THEN "waiting" ELSE call[d].pc
      <3> DEFINE new == [call[c] EXCEPT !.pc = "waiting", !.ask = <<0, 0>>]
      <3>1. /\ new.pc = "waiting" /\ new.heard = call[c].heard /\ new.inbox = call[c].inbox
            /\ new.cancelSent = call[c].cancelSent
        BY CallFacts DEF Generates
      <3>2. call' = [call EXCEPT ![c] = new]
        BY <1>2, <2>1
      <3> HIDE DEF new
      <3>3. QED
        BY <1>2, <1>4, <3>1, <3>2
    <2>4. Chain(d)
      BY <1>1, <1>4, <2>3 DEF ChainInv, Busy
    <2>5. ASSUME NEW i \in Submits', stdin'[i].id = d
          PROVE  call[d].pc = "writing" \/ \E j \in Submits : stdin[j].id = d
      <3>1. CASE i = Len(stdin) + 1
        <4>1. stdin'[i] = fr
          BY <1>2, <2>1, <3>1
        <4>2. QED
          BY <1>1, <2>2, <2>5, <4>1
      <3>2. CASE i # Len(stdin) + 1
        <4>1. i \in 1..Len(stdin) /\ stdin'[i] = stdin[i]
          BY <1>2, <2>1, <3>2 DEF Submits
        <4>2. i \in Submits
          BY <2>5, <4>1 DEF Submits
        <4>3. QED
          BY <2>5, <4>1, <4>2
      <3>3. QED
        BY <3>1, <3>2
    <2>6. call'[d].pc = "writing" => call[d].pc = "writing"
      BY <2>3
    <2>7. QED
      BY <1>1, <1>3, <1>4, <2>1, <2>3, <2>4, <2>5, <2>6, ChainStays
  <1>7. QED
    BY <1>5, <1>6

\* The token at the head of a queue is passed on.
LEMMA HearsChain ==
  ASSUME FlowInv, NEW c \in Ids, Chain(c), call[c].inbox # <<>>, Head(call[c].inbox).kind = "DATA",
         call'[c].pc = call[c].pc, call'[c].inbox = Tail(call[c].inbox),
         call'[c].heard = Append(call[c].heard, Head(call[c].inbox).n),
         UNCHANGED <<stdout, req, job, disp, pending>>, Active' = Active,
         \A i \in Submits' : stdin'[i].id = c => \E j \in Submits : stdin[j].id = c
  PROVE  Chain(c)'
  <1> DEFINE q == call[c].inbox
             h == call[c].heard
             r == Tail(q)
  <1>1. /\ q \in Seq(Events) /\ h \in Seq(Nat) /\ Len(h) \in Nat /\ q # <<>>
        /\ call'[c].inbox = r
    BY CallFacts
  <1>2. /\ Head(q) = q[1] /\ 1 \in 1..Len(q) /\ Len(q) \in Nat /\ Len(r) \in Nat
        /\ Len(r) = Len(q) - 1
        /\ \A i \in 1..Len(r) : i + 1 \in 1..Len(q) /\ r[i] = q[i + 1]
    BY <1>1, Behind
  <1>3. \A i \in 1..Len(q) : (\A j \in 1..i - 1 : q[j].kind \notin Answers) => Fits(q[i], Len(h) + i - 1)
    BY DEF Chain, Queued
  <1>4. h = [k \in 1..Len(h) |-> k]
    BY DEF Chain
  <1>5. q[1].kind = "DATA" /\ q[1].n = Len(h) + 1
    <2>1. \A j \in 1..1 - 1 : FALSE
      OBVIOUS
    <2>2. Fits(q[1], Len(h) + 1 - 1)
      BY <1>2, <1>3, <2>1
    <2>3. QED
      BY <1>1, <1>2, <2>2 DEF Fits
  <1> DEFINE g == Append(h, Len(h) + 1)
  <1>6. call'[c].heard = g
    BY <1>2, <1>5
  <1> HIDE DEF h, q, r
  <1>7. Len(g) = Len(h) + 1 /\ g = [k \in 1..Len(g) |-> k]
    <2>1. g \in Seq(Nat) /\ Len(g) = Len(h) + 1 /\ g[Len(h) + 1] = Len(h) + 1
          /\ \A k \in 1..Len(h) : g[k] = h[k]
      BY <1>1
    <2>2. \A k \in 1..Len(h) : h[k] = k
      BY <1>4
    <2>3. \A k \in 1..Len(g) : g[k] = k
      BY <1>1, <2>1, <2>2
    <2> HIDE DEF g
    <2>4. QED
      BY <2>1, <2>3
  <1> HIDE DEF g
  <1>8. ASSUME NEW i \in 1..Len(r), \A j \in 1..i - 1 : r[j].kind \notin Answers
        PROVE  Fits(r[i], Len(g) + i - 1)
    <2>1. i + 1 \in 1..Len(q) /\ r[i] = q[i + 1]
      BY <1>2
    <2>2. ASSUME NEW j \in 1..(i + 1) - 1 PROVE q[j].kind \notin Answers
      <3>1. CASE j = 1
        BY <1>5, <3>1 DEF Answers
      <3>2. CASE j # 1
        <4>1. j - 1 \in 1..i - 1 /\ j - 1 \in 1..Len(r) /\ (j - 1) + 1 = j
          BY <1>2, <3>2
        <4>2. r[j - 1] = q[j]
          BY <1>2, <4>1
        <4>3. QED
          BY <1>8, <4>1, <4>2
      <3>3. QED
        BY <3>1, <3>2
    <2>3. Fits(q[i + 1], Len(h) + (i + 1) - 1)
      BY <1>3, <2>1, <2>2
    <2>4. Len(h) + (i + 1) - 1 = Len(g) + i - 1
      BY <1>1, <1>7
    <2>5. QED
      BY <2>1, <2>3, <2>4
  <1>9. Queued(c)'
    BY <1>1, <1>6, <1>8 DEF Queued
  <1>10. Len(g) + Len(r) = Len(h) + Len(q)
    BY <1>1, <1>2, <1>7
  <1>11. Passed(c)' = Passed(c)
    <2>1. call'[c].heard = g /\ call'[c].inbox = r /\ call[c].heard = h /\ call[c].inbox = q
      BY <1>1, <1>6 DEF h, q
    <2>2. QED
      BY <1>10, <2>1 DEF Passed
  <1>12. (disp.pc = "put" /\ disp.event.id = c /\ NoneIn(call[c].inbox) =>
           Fits(disp.event, Len(call[c].heard) + Len(call[c].inbox)))'
    <2>1. ASSUME disp.pc = "put", disp.event.id = c, NoneIn(r)
          PROVE  Fits(disp.event, Len(g) + Len(r))
      <3>1. ASSUME NEW j \in 1..Len(q) PROVE q[j].kind \notin Answers
        <4>1. CASE j = 1
          BY <1>5, <4>1 DEF Answers
        <4>2. CASE j # 1
          <5>1. j - 1 \in 1..Len(r) /\ (j - 1) + 1 = j
            BY <1>2, <4>2
          <5>2. r[j - 1] = q[j] /\ r[j - 1].kind \notin Answers
            BY <1>2, <2>1, <5>1 DEF NoneIn
          <5>3. QED
            BY <5>2
        <4>3. QED
          BY <4>1, <4>2
      <3>2. NoneIn(q)
        BY <3>1 DEF NoneIn
      <3>3. Fits(disp.event, Len(h) + Len(q))
        BY <2>1, <3>2 DEF Chain, h, q
      <3>4. QED
        BY <1>10, <3>3
    <2>2. QED
      BY <1>1, <1>6, <2>1 DEF NoneIn, Fits
  <1>13. ASSUME NEW e, Reached(c, e) PROVE Reached(c, e)'
    BY <1>13 DEF Reached
  <1>14. (c \in pending => \E e \in Nat : Tells(stdout, c, Passed(c), e) /\ Reached(c, e))'
    <2>1. ASSUME c \in pending'
          PROVE  \E e \in Nat : Tells(stdout, c, Passed(c)', e) /\ Reached(c, e)'
      BY <1>11, <1>13, <2>1 DEF Chain
    <2>2. QED
      BY <2>1
  <1>15. (call[c].heard = [k \in 1..Len(call[c].heard) |-> k])'
    BY <1>6, <1>7
  <1>16. QED
    BY <1>9, <1>12, <1>14, <1>15 DEF Chain

LEMMA TakeChain == ASSUME NEW c \in Ids, FlowInv, ChainInv, Take(c) PROVE ChainInv'
  <1>1. /\ call[c].pc = "waiting" /\ call[c].inbox # <<>>
        /\ UNCHANGED <<kind, stdout, stderr, life, req, len, turn, rows, job,
                       closing, dispErr, disp, pending, next>>
        /\ stdin' = stdin \/ (life = "up" /\ stdin' = Append(stdin, Cancel(c)))
        /\ \/ /\ Head(call[c].inbox).kind = "DATA"
              /\ \E r \in Generates :
                  /\ call' = [call EXCEPT ![c] = r]
                  /\ \/ /\ r.pc = "waiting" /\ r.slot = call[c].slot /\ r.inbox = Tail(call[c].inbox)
                        /\ r.cancelSent \/ ( /\ ~call[c].cancelSent
                                             /\ r.heard = Append(call[c].heard, Head(call[c].inbox).n))
                     \/ r = Returned("failed") /\ life # "up"
           \/ call' = [call EXCEPT ![c] = Returned(AnswerOf(c))]
    <2>1. CASE TakeData(c)
      BY <2>1, TakeDataIs
    <2>2. CASE TakeAnswer(c)
      BY <2>2 DEF TakeAnswer, NextEvent, engineVars, pipes
    <2>3. QED
      BY <2>1, <2>2 DEF Take
  <1>2. call \in [Ids -> Generates] /\ \A d \in Ids : d # c => call'[d] = call[d]
    BY <1>1 DEF FlowInv, GatewayTypes
  <1>3. Active' = Active
    BY <1>1 DEF Active, Mux!Active
  <1>4. \A i \in Submits' : i \in Submits /\ stdin'[i] = stdin[i]
    <2>1. stdin \in Seq(Frames) /\ Cancel(c).op # "SUBMIT"
      BY DEF FlowInv, EngineTypes, Cancel
    <2>2. CASE stdin' = stdin
      BY <2>2 DEF Submits
    <2>3. CASE stdin' = Append(stdin, Cancel(c))
      <3>1. Cancel(c) \in Frames
        BY DEF Cancel, Frames
      <3>2. \A i \in 1..Len(stdin') : IF i \in 1..Len(stdin) THEN stdin'[i] = stdin[i] ELSE stdin'[i] = Cancel(c)
        BY <2>1, <2>3, <3>1, Appended
      <3>3. QED
        BY <2>1, <3>2 DEF Submits
    <2>4. QED
      BY <1>1, <2>2, <2>3
  <1> SUFFICES ASSUME NEW d \in Busy', ~call'[d].cancelSent PROVE Chain(d)'
    BY DEF ChainInv
  <1>5. d \in Ids /\ call'[d].pc \in {"writing", "waiting"}
    BY DEF Busy, Ids
  <1>6. CASE d # c
    <2>1. call'[d] = call[d]
      BY <1>2, <1>5, <1>6
    <2>2. Chain(d)
      BY <1>5, <2>1 DEF ChainInv, Busy
    <2>3. QED
      BY <1>1, <1>3, <1>4, <1>5, <2>1, <2>2, ChainStays
  <1>7. CASE d = c
    <2>1. AnswerOf(c) \in PCs \ {"writing", "waiting"}
      BY DEF AnswerOf, PCs
    <2>2. Returned(AnswerOf(c)) \in Generates /\ Returned(AnswerOf(c)).pc \notin {"writing", "waiting"}
      BY <2>1, ReturnedIs
    <2>3. call' # [call EXCEPT ![c] = Returned(AnswerOf(c))]
      BY <1>2, <1>5, <1>7, <2>2
    <2>4. Returned("failed").pc \notin {"writing", "waiting"}
      BY ReturnedIs DEF PCs
    <2>5. PICK r \in Generates :
            /\ call' = [call EXCEPT ![c] = r]
            /\ \/ /\ r.pc = "waiting" /\ r.slot = call[c].slot /\ r.inbox = Tail(call[c].inbox)
                  /\ r.cancelSent \/ ( /\ ~call[c].cancelSent
                                       /\ r.heard = Append(call[c].heard, Head(call[c].inbox).n))
               \/ r = Returned("failed") /\ life # "up"
      BY <1>1, <2>3
    <2>6. call'[c] = r
      BY <1>2, <2>5
    <2>7. /\ r.pc = "waiting" /\ r.inbox = Tail(call[c].inbox)
          /\ ~call[c].cancelSent /\ r.heard = Append(call[c].heard, Head(call[c].inbox).n)
      BY <1>5, <1>7, <2>4, <2>5, <2>6
    <2>8. Chain(c) /\ Head(call[c].inbox).kind = "DATA"
      BY <1>1, <2>3, <2>7 DEF ChainInv, Busy
    <2>9. QED
      BY <1>1, <1>3, <1>4, <1>7, <2>6, <2>7, <2>8, HearsChain
  <1>8. QED
    BY <1>6, <1>7

LEMMA DispatchChain == ASSUME FlowInv, ChainInv, Dispatch PROVE ChainInv'
  <1> DEFINE a == Head(stdout)
  <1>1. /\ disp.pc = "read" /\ stdout # <<>> /\ stdout' = Tail(stdout)
        /\ disp' = (IF a.id \in pending THEN [pc |-> "put", event |-> a] ELSE disp)
        /\ pending' = (IF a.kind \in Answers THEN pending \ {a.id} ELSE pending)
        /\ UNCHANGED <<kind, stdin, stderr, life, req, len, turn, rows, job,
                       closing, dispErr, next, call>>
    BY DEF Dispatch
  <1>2. stdout \in Seq(Events) /\ a \in Events
    BY <1>1, Behind DEF FlowInv, EngineTypes
  <1>3. Active' = Active /\ Submits' = Submits /\ Busy' = Busy
    BY <1>1 DEF Active, Mux!Active, Submits, Busy
  <1> SUFFICES ASSUME NEW c \in Ids, Chain(c) PROVE Chain(c)'
    BY <1>1, <1>3 DEF ChainInv, Busy
  <1>4. \A e : Reached(c, e) => Reached(c, e)'
    BY <1>1, <1>3 DEF Reached
  <1> DEFINE m == Len(call[c].heard)
             n == Len(call[c].inbox)
  <1>5. m \in Nat /\ n \in Nat /\ c \in Nat /\ m + n \in Nat
    <2>1. m \in Nat /\ n \in Nat /\ c \in Nat
      BY CallFacts
    <2> HIDE DEF m, n
    <2>2. QED
      BY <2>1
  <1>6. Passed(c) = m + n
    <2>1. Passed(c) = m + n + 0
      BY <1>1 DEF Passed
    <2> HIDE DEF m, n
    <2>2. QED
      BY <1>5, <2>1
  <1>7. CASE a.id = c /\ c \in pending
    <2>1. PICK e \in Nat : Tells(stdout, c, m + n, e) /\ Reached(c, e)
      BY <1>6, <1>7 DEF Chain
    <2> HIDE DEF m, n
    <2>2. Fits(a, m + n) /\ Tells(Tail(stdout), c, After(a, m + n), e)
      BY <1>1, <1>2, <1>5, <1>7, <2>1, TellsOn
    <2>3. (disp.pc = "put" /\ disp.event.id = c /\ NoneIn(call[c].inbox) =>
           Fits(disp.event, Len(call[c].heard) + Len(call[c].inbox)))'
      BY <1>1, <1>7, <2>2 DEF m, n
    <2>4. ASSUME c \in pending' PROVE Passed(c)' = m + n + 1 /\ After(a, m + n) = m + n + 1
      <3>1. a.kind = "DATA"
        BY <1>1, <1>2, <1>7, <2>4 DEF Events, Answers
      <3>2. Passed(c)' = m + n + 1
        BY <1>1, <1>7 DEF Passed, m, n
      <3>3. QED
        BY <2>2, <3>1, <3>2 DEF Fits, After
    <2>5. (c \in pending => \E i \in Nat : Tells(stdout, c, Passed(c), i) /\ Reached(c, i))'
      BY <1>1, <1>4, <2>1, <2>2, <2>4
    <2>6. QED
      BY <1>1, <2>3, <2>5 DEF Chain, Queued
  <1>8. CASE ~(a.id = c /\ c \in pending)
    <2>1. ~(disp'.pc = "put" /\ disp'.event.id = c)
      BY <1>1, <1>8
    <2>2. Passed(c)' = m + n
      <3>1. Passed(c)' = m + n + 0
        BY <1>1, <2>1 DEF Passed
      <3> HIDE DEF m, n
      <3>2. QED
        BY <1>5, <3>1
    <2>3. ASSUME c \in pending'
          PROVE  \E e \in Nat : Tells(stdout', c, m + n, e) /\ Reached(c, e)'
      <3>1. c \in pending /\ a.id # c
        BY <1>1, <1>8, <2>3
      <3>2. PICK e \in Nat : Tells(stdout, c, m + n, e) /\ Reached(c, e)
        BY <1>6, <3>1 DEF Chain
      <3> HIDE DEF m, n
      <3>3. Tells(Tail(stdout), c, m + n, e)
        BY <1>1, <1>2, <1>5, <3>1, <3>2, TellsOn
      <3>4. QED
        BY <1>1, <1>4, <3>2, <3>3
    <2>4. (c \in pending => \E e \in Nat : Tells(stdout, c, Passed(c), e) /\ Reached(c, e))'
      BY <2>2, <2>3
    <2>5. QED
      BY <1>1, <2>1, <2>4 DEF Chain, Queued
  <1>9. QED
    BY <1>7, <1>8

\* An event comes behind those in a queue.
LEMMA QueuedMore ==
  ASSUME NEW q \in Seq(Events), NEW a \in Events, NEW h \in Nat,
         \A i \in 1..Len(q) : (\A j \in 1..i - 1 : q[j].kind \notin Answers) => Fits(q[i], h + i - 1),
         NoneIn(q) => Fits(a, h + Len(q))
  PROVE  \A i \in 1..Len(Append(q, a)) :
           (\A j \in 1..i - 1 : Append(q, a)[j].kind \notin Answers) =>
             Fits(Append(q, a)[i], h + i - 1)
  <1> DEFINE r == Append(q, a)
             n == Len(q)
  <1>1. /\ n \in Nat /\ Len(r) = n + 1 /\ r[n + 1] = a
        /\ \A i \in 1..n : r[i] = q[i]
        /\ \A i \in 1..Len(r) : i \in 1..n \/ i = n + 1
    BY Appended
  <1> HIDE DEF r, n
  <1> SUFFICES ASSUME NEW i \in 1..Len(r), \A j \in 1..i - 1 : r[j].kind \notin Answers
               PROVE  Fits(r[i], h + i - 1)
    BY DEF r
  <1>2. CASE i \in 1..n
    <2>1. r[i] = q[i] /\ \A j \in 1..i - 1 : r[j] = q[j]
      BY <1>1, <1>2
    <2>2. QED
      BY <1>2, <2>1 DEF n
  <1>3. CASE i = n + 1
    <2>1. \A j \in 1..n : j \in 1..i - 1 /\ r[j] = q[j]
      BY <1>1, <1>3
    <2>2. NoneIn(q)
      BY <2>1 DEF NoneIn, n
    <2>3. h + i - 1 = h + n /\ r[i] = a
      BY <1>1, <1>3
    <2>4. QED
      BY <2>2, <2>3 DEF n
  <1>4. QED
    BY <1>1, <1>2, <1>3

LEMMA PutChain == ASSUME FlowInv, ChainInv, Put PROVE ChainInv'
  <1> DEFINE p == disp.event.id
             r == [call[p] EXCEPT !.inbox = Append(@, disp.event)]
  <1>1. /\ disp.pc = "put" /\ call' = [call EXCEPT ![p].inbox = Append(@, disp.event)]
        /\ disp' = [pc |-> "read", event |-> NoEvent]
        /\ UNCHANGED <<engineVars, closing, dispErr, pending, next>>
    BY DEF Put
  <1>2. p \in Ids /\ disp.event \in Events /\ call \in [Ids -> Generates]
    BY <1>1 DEF FlowInv, LinkInv, Known, GatewayTypes
  <1>3. call' = [call EXCEPT ![p] = r]
    BY <1>1
  <1>4. /\ r \in Generates /\ r.inbox = Append(call[p].inbox, disp.event) /\ r.pc = call[p].pc
        /\ r.heard = call[p].heard /\ r.cancelSent = call[p].cancelSent
    BY <1>2, InboxGrows
  <1> HIDE DEF r
  <1>5. call'[p] = r /\ \A d \in Ids : d # p => call'[d] = call[d]
    BY <1>2, <1>3, <1>4
  <1>6. /\ Active' = Active /\ Submits' = Submits
        /\ UNCHANGED <<kind, stdin, stdout, stderr, life, req, len, turn, rows, job>>
    BY <1>1, SameEngine
  <1> SUFFICES ASSUME NEW c \in Ids, Chain(c) PROVE Chain(c)'
    BY <1>4, <1>5 DEF ChainInv, Busy
  <1>7. \A e : Reached(c, e) => Reached(c, e)'
    BY <1>4, <1>5, <1>6 DEF Reached
  <1>8. CASE c = p
    <2> DEFINE m == Len(call[c].heard)
               q == call[c].inbox
    <2>1. m \in Nat /\ q \in Seq(Events) /\ Len(q) \in Nat
      BY CallFacts
    <2>2. /\ \A i \in 1..Len(q) : (\A j \in 1..i - 1 : q[j].kind \notin Answers) => Fits(q[i], m + i - 1)
          /\ NoneIn(q) => Fits(disp.event, m + Len(q))
      BY <1>1, <1>8 DEF Chain, Queued
    <2>3. call'[c].inbox = Append(q, disp.event) /\ call'[c].heard = call[c].heard
      BY <1>4, <1>5, <1>8
    <2>4. Queued(c)'
      <3> HIDE DEF m, q
      <3>1. \A i \in 1..Len(Append(q, disp.event)) :
              (\A j \in 1..i - 1 : Append(q, disp.event)[j].kind \notin Answers) =>
                Fits(Append(q, disp.event)[i], m + i - 1)
        BY <1>2, <2>1, <2>2, QueuedMore
      <3>2. QED
        BY <2>3, <3>1 DEF Queued, m
    <2>5. Passed(c)' = Passed(c)
      <3> HIDE DEF m, q
      <3>1. Len(Append(q, disp.event)) = Len(q) + 1
        BY <1>2, <2>1, Appended
      <3>2. Passed(c) = m + Len(q) + 1
        BY <1>1, <1>8 DEF Passed, m, q
      <3>3. Passed(c)' = m + (Len(q) + 1) + 0
        BY <1>1, <2>3, <3>1 DEF Passed, m
      <3>4. QED
        BY <2>1, <3>2, <3>3
    <2>6. (c \in pending => \E e \in Nat : Tells(stdout, c, Passed(c), e) /\ Reached(c, e))'
      <3>1. ASSUME c \in pending
            PROVE  \E e \in Nat : Tells(stdout, c, Passed(c)', e) /\ Reached(c, e)'
        BY <1>7, <2>5, <3>1 DEF Chain
      <3>2. QED
        BY <1>1, <1>6, <3>1
    <2>7. QED
      BY <1>1, <2>3, <2>4, <2>6 DEF Chain
  <1>9. CASE c # p
    <2>1. call'[c] = call[c] /\ Passed(c)' = Passed(c)
      BY <1>1, <1>5, <1>9 DEF Passed
    <2>2. (c \in pending => \E e \in Nat : Tells(stdout, c, Passed(c), e) /\ Reached(c, e))'
      <3>1. ASSUME c \in pending
            PROVE  \E e \in Nat : Tells(stdout, c, Passed(c)', e) /\ Reached(c, e)'
        BY <1>7, <2>1, <3>1 DEF Chain
      <3>2. QED
        BY <1>1, <1>6, <3>1
    <2>3. QED
      BY <1>1, <2>1, <2>2 DEF Chain, Queued
  <1>10. QED
    BY <1>8, <1>9

LEMMA FailPendingChain ==
  ASSUME FlowInv, ChainInv, DispatcherFails \/ CloseFails
  PROVE  ChainInv'
  <1>1. PICK why \in Whys : FailPending(why)
    BY DEF DispatcherFails, CloseFails, Whys
  <1>2. UNCHANGED engineVars /\ (disp' = disp \/ (disp.pc # "put" /\ disp'.pc # "put"))
    BY DEF DispatcherFails, CloseFails
  <1>3. /\ Active' = Active /\ Submits' = Submits
        /\ UNCHANGED <<kind, stdin, stdout, stderr, life, req, len, turn, rows, job>>
    BY <1>2, SameEngine
  <1>4. /\ pending' = {} /\ \A d \in Ids : d \notin pending => call'[d] = call[d]
        /\ \A d \in Ids : d \in pending =>
             /\ call'[d].inbox = Append(call[d].inbox, Error(d, why)) /\ call'[d].pc = call[d].pc
             /\ call'[d].heard = call[d].heard /\ call'[d].cancelSent = call[d].cancelSent
    BY <1>1, PendingFailed
  <1> SUFFICES ASSUME NEW c \in Ids, Chain(c) PROVE Chain(c)'
    BY <1>4 DEF ChainInv, Busy
  <1>5. CASE c \notin pending
    <2>1. call'[c] = call[c]
      BY <1>4, <1>5
    <2>2. QED
      BY <1>2, <1>3, <1>4, <2>1, ChainStays
  <1>6. CASE c \in pending
    <2> DEFINE m == Len(call[c].heard)
               q == call[c].inbox
               a == Error(c, why)
    <2>1. m \in Nat /\ q \in Seq(Events) /\ c \in Nat
      BY CallFacts
    <2>2. a \in Events /\ a.kind = "ERROR"
      BY <2>1, EventsAre DEF Error
    <2>3. \A i \in 1..Len(q) : (\A j \in 1..i - 1 : q[j].kind \notin Answers) => Fits(q[i], m + i - 1)
      BY DEF Chain, Queued
    <2>4. Fits(a, m + Len(q))
      BY <2>2 DEF Fits
    <2>5. call'[c].inbox = Append(q, a) /\ call'[c].heard = call[c].heard
      BY <1>4, <1>6
    <2> HIDE DEF m, q, a
    <2>6. \A i \in 1..Len(Append(q, a)) :
            (\A j \in 1..i - 1 : Append(q, a)[j].kind \notin Answers) => Fits(Append(q, a)[i], m + i - 1)
      BY <2>1, <2>2, <2>3, <2>4, QueuedMore
    <2>7. ~NoneIn(Append(q, a))
      BY <2>1, <2>2, NoneInAppend DEF Answers
    <2>8. Queued(c)' /\ ~NoneIn(call[c].inbox)'
      BY <2>5, <2>6, <2>7 DEF Queued, m, NoneIn
    <2>9. (call[c].heard = [k \in 1..Len(call[c].heard) |-> k])'
      BY <2>5 DEF Chain
    <2>10. QED
      BY <1>4, <2>8, <2>9 DEF Chain, NoneIn
  <1>7. QED
    BY <1>5, <1>6

LEMMA StepKeepsChain == FlowInv /\ ChainInv /\ [Next]_vars => ChainInv'
  <1> SUFFICES ASSUME FlowInv, ChainInv, [Next]_vars PROVE ChainInv'
    OBVIOUS
  <1>1. CASE UNCHANGED vars \/ EndOfOutput \/ Close
    <2>1. /\ UNCHANGED engineVars /\ UNCHANGED <<call, pending>>
          /\ disp' = disp \/ (disp.pc # "put" /\ disp'.pc # "put")
      BY <1>1 DEF vars, linkVars, EndOfOutput, Close
    <2>2. /\ Active' = Active /\ Submits' = Submits
          /\ UNCHANGED <<kind, stdin, stdout, stderr, life, req, len, turn, rows, job>>
      BY <2>1, SameEngine
    <2>3. ASSUME NEW c \in Ids, Chain(c) PROVE Chain(c)'
      BY <2>1, <2>2, <2>3, ChainStays
    <2>4. QED
      BY <2>1, <2>3 DEF ChainInv, Busy
  <1>2. CASE Crash \/ Exit \/ CloseStops
    <2>1. /\ Dies \/ (life # "up" /\ UNCHANGED engineVars) \/ Exit
          /\ UNCHANGED <<disp, pending, next, call>> /\ (closing' = closing \/ closing' # "open")
      BY <1>2 DEF Crash, Exit, CloseStops, linkVars
    <2>2. LinkInv'
      BY StepKeepsLink DEF FlowInv
    <2>3. stdout' = stdout /\ Active' = {} /\ Submits' = {} /\ job'.phase = "read"
      BY <2>1, <2>2, DeathFlow
    <2>4. ASSUME NEW c \in Ids, Chain(c) PROVE Chain(c)'
      BY <2>1, <2>3, <2>4, ChainStays
    <2>5. QED
      BY <2>1, <2>4 DEF ChainInv, Busy
  <1>3. QED
    BY <1>1, <1>2, EngineChain, RegisterChain, WriteChain, TakeChain, DispatchChain, PutChain,
       FailPendingChain DEF Next, Dispatcher
-----------------------------------------------------------------------------
LEMMA SpecFlow == Spec => [](FlowInv /\ ChainInv)
  BY InitFlow, InitChain, StepKeepsFlow, StepKeepsChain, PTL DEF Spec

(* SlotsFit is an invariant whatever the constants: the engine never refuses  *)
(* a SUBMIT because its slot or its id is taken, although a generate() that    *)
(* close() has failed returns before the engine is done with it, and no        *)
(* request writes past the context of its engine (c/glm.c:4935-4964 and 5043; *)
(* c/qwanto_decode.c:2634-2674).                                              *)
THEOREM SlotsAlwaysFit == Spec => []SlotsFit
  <1>1. ASSUME FlowInv PROVE SlotsFit
    <2>1. SlotNeverBusy
      <3>1. stdout \in Seq(Events)
        BY <1>1 DEF FlowInv, EngineTypes
      <3>2. ASSUME NEW i \in 1..Len(stdout) PROVE stdout[i].why \in Whys
        <4>1. stdout[i] \in Events
          BY <3>1
        <4>2. QED
          BY <4>1 DEF Events
      <3>3. QED
        BY <3>2 DEF SlotNeverBusy, Whys
    <2>2. Mux!HistoryFits
      <3> SUFFICES ASSUME NEW s \in Active PROVE len[s] + 1 < MaxCtx
        BY DEF Mux!HistoryFits, Active
      <3>1. /\ req[s] \in ServeReqs /\ len[s] \in Nat /\ req[s].emitted < req[s].maximum
            /\ len[s] + (req[s].maximum - req[s].emitted) <= MaxCtx - 2
        BY <1>1, ActiveRequest
      <3>2. req[s].emitted \in Nat /\ req[s].maximum \in Nat /\ MaxCtx \in Nat
        BY <3>1, EngineAssumption DEF ServeReqs
      <3>3. QED
        BY <3>1, <3>2
    <2>3. Qwn!PositionFits
      BY <1>1 DEF FlowInv, Room, Qwn!PositionFits
    <2>4. QED
      BY <2>1, <2>2, <2>3 DEF SlotsFit, HistoryFits
  <1>2. QED
    BY <1>1, SpecFlow, PTL

\* Only the event at the head of its queue makes a call return as done.
LEMMA DoneByAnswer ==
  ASSUME FlowInv, [Next]_vars, NEW c \in Ids, call[c].pc = "waiting", call'[c].pc = "done"
  PROVE  TakeAnswer(c)
  <1>1. call \in [Ids -> Generates]
    BY DEF FlowInv, GatewayTypes
  <1>2. ASSUME NEW d \in Ids, NEW r \in Generates, call' = [call EXCEPT ![d] = r]
        PROVE  d = c /\ r.pc = "done"
    BY <1>1, <1>2
  <1>3. ~UNCHANGED call
    OBVIOUS
  <1>4. ~Register
    <2>1. ASSUME Register PROVE FALSE
      <3>1. c # next
        BY <2>1 DEF FlowInv, LinkInv, Known, Register
      <3>2. \E r : call' = [call EXCEPT ![next] = r]
        BY <2>1 DEF Register
      <3>3. call'[c] = call[c]
        BY <1>1, <3>1, <3>2
      <3>4. QED
        BY <3>3
    <2>2. QED
      BY <2>1
  <1>5. ASSUME NEW d \in Ids, Write(d) PROVE FALSE
    <2>1. call[d].pc = "writing"
      BY <1>5 DEF Write
    <2>2. d # c
      BY <2>1
    <2>3. \A e \in Ids : e # d => call'[e] = call[e]
      BY <1>1, <1>5 DEF Write
    <2>4. QED
      BY <2>2, <2>3
  <1>6. ASSUME NEW d \in Ids, TakeData(d) PROVE FALSE
    <2>1. PICK r \in Generates :
            call' = [call EXCEPT ![d] = r] /\ (r.pc = "waiting" \/ r = Returned("failed"))
      BY <1>6, TakeDataIs
    <2>2. QED
      BY <1>2, <2>1, ReturnedIs DEF PCs
  <1>7. ASSUME NEW d \in Ids, TakeAnswer(d) PROVE d = c
    <2>1. \A e \in Ids : e # d => call'[e] = call[e]
      BY <1>1, <1>7 DEF TakeAnswer
    <2>2. QED
      BY <2>1
  <1>8. ~Put
    <2>1. ASSUME Put PROVE FALSE
      <3> DEFINE p == disp.event.id
                 r == [call[p] EXCEPT !.inbox = Append(@, disp.event)]
      <3>1. /\ call' = [call EXCEPT ![p] = r] /\ p \in Ids /\ disp.event \in Events
        BY <2>1 DEF Put, FlowInv, LinkInv, Known, GatewayTypes
      <3>2. r \in Generates /\ r.pc = call[p].pc
        BY <1>1, <3>1, InboxGrows
      <3> HIDE DEF r
      <3>3. QED
        BY <1>2, <3>1, <3>2
    <2>2. QED
      BY <2>1
  <1>9. ~(DispatcherFails \/ CloseFails)
    <2>1. ASSUME DispatcherFails \/ CloseFails PROVE FALSE
      <3>1. PICK why \in Whys : FailPending(why)
        BY <2>1 DEF DispatcherFails, CloseFails, Whys
      <3>2. call'[c].pc = call[c].pc
        BY <3>1, PendingFailed
      <3>3. QED
        BY <3>2
    <2>2. QED
      BY <2>1
  <1>10. ~(EngineStep \/ Crash \/ Exit \/ Dispatch \/ EndOfOutput \/ Close \/ CloseStops)
    BY <1>3 DEF EngineStep, Crash, Exit, Dispatch, EndOfOutput, Close, CloseStops, linkVars
  <1>11. ~UNCHANGED vars
    BY <1>3 DEF vars, linkVars
  <1>12. QED
    BY <1>4, <1>5, <1>6, <1>7, <1>8, <1>9, <1>10, <1>11 DEF Next, Dispatcher, Take

(* DoneIsComplete holds whatever the constants: a call that returns normally  *)
(* has passed on the tokens 1 to n in order, and its DONE counts n, whichever   *)
(* engine printed them and however the pipe, the dispatcher's hand and the      *)
(* queue were interleaved (c/openai_server.py:1415-1470, c/glm.c:5001-5047).  *)
THEOREM DoneAlwaysComplete == Spec => DoneIsComplete
  <1>1. ASSUME FlowInv, ChainInv, [Next]_vars
        PROVE  [\A c \in Ids :
                  call[c].pc = "waiting" /\ ~call[c].cancelSent /\ call'[c].pc = "done" =>
                    call[c].heard = [k \in 1..Head(call[c].inbox).n |-> k]]_vars
    <2> SUFFICES ASSUME NEW c \in Ids, call[c].pc = "waiting", ~call[c].cancelSent,
                        call'[c].pc = "done"
                 PROVE  call[c].heard = [k \in 1..Head(call[c].inbox).n |-> k]
      OBVIOUS
    <2> DEFINE q == call[c].inbox
               m == Len(call[c].heard)
    <2>1. TakeAnswer(c)
      BY <1>1, DoneByAnswer
    <2>2. q # <<>> /\ call' = [call EXCEPT ![c] = Returned(AnswerOf(c))]
      BY <2>1 DEF TakeAnswer, NextEvent
    <2>3. q \in Seq(Events) /\ m \in Nat /\ Head(q) = q[1] /\ 1 \in 1..Len(q)
      BY <1>1, <2>2, CallFacts, Behind
    <2>4. AnswerOf(c) = "done"
      <3>1. call'[c] = Returned(AnswerOf(c))
        BY <1>1, <2>2 DEF FlowInv, GatewayTypes
      <3>2. AnswerOf(c) \in PCs
        BY DEF AnswerOf, PCs
      <3>3. Returned(AnswerOf(c)).pc = AnswerOf(c)
        BY <3>2, ReturnedIs
      <3>4. QED
        BY <3>1, <3>3
    <2>5. q[1].kind = "DONE"
      BY <2>3, <2>4 DEF AnswerOf
    <2>6. Chain(c)
      BY <1>1 DEF ChainInv, Busy
    <2>7. call[c].heard = [k \in 1..m |-> k]
      BY <2>6 DEF Chain
    <2>8. Fits(q[1], m + 1 - 1)
      <3>1. \A j \in 1..1 - 1 : q[j].kind \notin Answers
        OBVIOUS
      <3>2. QED
        BY <2>3, <2>6, <3>1 DEF Chain, Queued
    <2> HIDE DEF q, m
    <2>9. q[1].n = m
      BY <2>3, <2>5, <2>8 DEF Fits
    <2>10. Head(call[c].inbox).n = m
      BY <2>3, <2>9 DEF q
    <2>11. QED
      BY <2>7, <2>10
  <1>2. QED
    BY <1>1, SpecFlow, PTL DEF Spec, DoneIsComplete
=============================================================================

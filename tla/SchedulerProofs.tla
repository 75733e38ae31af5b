--------------------------- MODULE SchedulerProofs ---------------------------
(***************************************************************************)
(* Proofs about Scheduler, for every set of requests, every number of      *)
(* slots and every queue length.                                           *)
(***************************************************************************)
EXTENDS Scheduler, FiniteSetTheorems, TLAPS

\* q lists the elements of W, each once.
Lists(q, W) ==
    /\ q \in Seq(Requests)
    /\ \A i \in 1 .. Len(q) : q[i] \in W
    /\ \A w \in W : \E i \in 1 .. Len(q) : q[i] = w
    /\ \A i, j \in 1 .. Len(q) : q[i] = q[j] => i = j

-----------------------------------------------------------------------------
(* The three things the scheduler does to its deque.                       *)

LEMMA ListsAppend ==
    ASSUME NEW q, NEW W, Lists(q, W), NEW r \in Requests, r \notin W
    PROVE  Lists(Append(q, r), W \cup {r}) /\ Append(q, r) # <<>>
  <1> DEFINE qr == Append(q, r)
  <1>1. /\ q \in Seq(Requests)
        /\ qr \in Seq(Requests) /\ Len(qr) = Len(q) + 1 /\ Len(q) \in Nat
        /\ \A i \in 1 .. Len(q) : qr[i] = q[i]
        /\ qr[Len(q) + 1] = r
    BY DEF Lists
  <1> HIDE DEF qr
  <1>2. \A i \in 1 .. Len(qr) : i \in 1 .. Len(q) \/ i = Len(q) + 1
    BY <1>1
  <1>3. \A i \in 1 .. Len(qr) : qr[i] \in W \cup {r}
    BY <1>1, <1>2 DEF Lists
  <1>4. \A w \in W \cup {r} : \E i \in 1 .. Len(qr) : qr[i] = w
    <2> SUFFICES ASSUME NEW w \in W \cup {r} PROVE \E i \in 1 .. Len(qr) : qr[i] = w
      OBVIOUS
    <2>1. CASE w = r
      BY <1>1, <2>1
    <2>2. CASE w \in W
      <3>1. PICK i \in 1 .. Len(q) : q[i] = w
        BY <2>2 DEF Lists
      <3>2. i \in 1 .. Len(qr) /\ qr[i] = w
        BY <1>1, <3>1
      <3>3. QED
        BY <3>2
    <2>3. QED
      BY <2>1, <2>2
  <1>5. \A i, j \in 1 .. Len(qr) : qr[i] = qr[j] => i = j
    BY <1>1, <1>2 DEF Lists
  <1>6. qr # <<>>
    BY <1>1
  <1>7. QED
    BY <1>1, <1>3, <1>4, <1>5, <1>6 DEF Lists, qr

LEMMA ListsTail ==
    ASSUME NEW q, NEW W, Lists(q, W), q # <<>>
    PROVE  Lists(Tail(q), W \ {Head(q)})
  <1> DEFINE t == Tail(q)
  <1>1. /\ q \in Seq(Requests)
        /\ t \in Seq(Requests) /\ Len(t) = Len(q) - 1 /\ Len(q) \in Nat \ {0}
        /\ \A i \in 1 .. Len(t) : t[i] = q[i + 1]
        /\ Head(q) = q[1]
    BY DEF Lists
  <1> HIDE DEF t
  <1>2. \A i \in 1 .. Len(t) : t[i] \in W \ {Head(q)}
    BY <1>1 DEF Lists
  <1>3. \A w \in W \ {Head(q)} : \E i \in 1 .. Len(t) : t[i] = w
    <2> SUFFICES ASSUME NEW w \in W \ {Head(q)} PROVE \E i \in 1 .. Len(t) : t[i] = w
      OBVIOUS
    <2>1. PICK i \in 1 .. Len(q) : q[i] = w
      BY DEF Lists
    <2>2. i - 1 \in 1 .. Len(t) /\ t[i - 1] = w
      BY <1>1, <2>1
    <2>3. QED
      BY <2>2
  <1>4. \A i, j \in 1 .. Len(t) : t[i] = t[j] => i = j
    <2> SUFFICES ASSUME NEW i \in 1 .. Len(t), NEW j \in 1 .. Len(t), t[i] = t[j] PROVE i = j
      OBVIOUS
    <2>1. i + 1 \in 1 .. Len(q) /\ j + 1 \in 1 .. Len(q) /\ q[i + 1] = q[j + 1]
      BY <1>1
    <2>2. i + 1 = j + 1
      BY <2>1 DEF Lists
    <2>3. QED
      BY <2>2
  <1>5. QED
    BY <1>1, <1>2, <1>3, <1>4 DEF Lists, t

LEMMA ListsWithout ==
    ASSUME NEW q, NEW W, Lists(q, W), NEW i \in 1 .. Len(q)
    PROVE  Lists(Without(q, i), W \ {q[i]})
  <1> DEFINE t == Without(q, i)
  <1>1. /\ q \in Seq(Requests) /\ Len(q) - 1 \in Nat
        /\ \A j \in 1 .. Len(q) - 1 : (IF j < i THEN q[j] ELSE q[j + 1]) \in Requests
    BY DEF Lists
  <1>2. /\ t \in Seq(Requests) /\ Len(t) = Len(q) - 1
        /\ \A j \in 1 .. Len(t) : t[j] = IF j < i THEN q[j] ELSE q[j + 1]
    BY <1>1 DEF Without
  <1> HIDE DEF t
  <1>3. \A j \in 1 .. Len(t) : t[j] \in W \ {q[i]}
    BY <1>1, <1>2 DEF Lists
  <1>4. \A w \in W \ {q[i]} : \E j \in 1 .. Len(t) : t[j] = w
    <2> SUFFICES ASSUME NEW w \in W \ {q[i]} PROVE \E j \in 1 .. Len(t) : t[j] = w
      OBVIOUS
    <2>1. PICK k \in 1 .. Len(q) : q[k] = w
      BY DEF Lists
    <2>2. CASE k < i
      <3>1. k \in 1 .. Len(t) /\ t[k] = w
        BY <1>1, <1>2, <2>1, <2>2
      <3>2. QED
        BY <3>1
    <2>3. CASE k > i
      <3>1. k - 1 \in 1 .. Len(t) /\ t[k - 1] = w
        BY <1>1, <1>2, <2>1, <2>3
      <3>2. QED
        BY <3>1
    <2>4. QED
      BY <2>1, <2>2, <2>3
  <1>5. \A j, k \in 1 .. Len(t) : t[j] = t[k] => j = k
    <2> SUFFICES ASSUME NEW j \in 1 .. Len(t), NEW k \in 1 .. Len(t), t[j] = t[k] PROVE j = k
      OBVIOUS
    <2> DEFINE pos(x) == IF x < i THEN x ELSE x + 1
    <2>1. pos(j) \in 1 .. Len(q) /\ pos(k) \in 1 .. Len(q) /\ q[pos(j)] = q[pos(k)]
      BY <1>1, <1>2
    <2>2. pos(j) = pos(k)
      BY <2>1 DEF Lists
    <2>3. QED
      BY <2>2
  <1>6. QED
    BY <1>2, <1>3, <1>4, <1>5 DEF Lists, t

LEMMA ListsRange ==
    ASSUME NEW q, NEW W, Lists(q, W)
    PROVE  /\ {q[i] : i \in 1 .. Len(q)} = W
           /\ \A i, j \in 1 .. Len(q) : q[i] = q[j] => i = j
  BY DEF Lists

LEMMA QueueAsList == ASSUME queue \in Seq(Requests) PROVE QueueIsWaiters <=> Lists(queue, Waiting)
  BY DEF QueueIsWaiters, Lists

-----------------------------------------------------------------------------
(* The effect of the exits of the loop of admit(), for a thread r that sees *)
(* the deque q: q lists the waiting tickets and r.                          *)

\* The types of the parts of the state the exits leave alone.
Frame ==
    /\ closed' \in BOOLEAN
    /\ pin' \in [Requests -> Slots \cup {None}]
    /\ gone' \in SUBSET Requests
    /\ late' \in SUBSET Requests

LEMMA BumpType ==
    ASSUME stats \in [Counters -> Nat], NEW c \in Counters, Bump(c)
    PROVE  stats' \in [Counters -> Nat]
  BY DEF Bump

LEMMA SlotsFinite == IsFiniteSet(Slots) /\ Cardinality(Slots) = Capacity
  <1>1. 0 \in Int /\ Capacity - 1 \in Int
    BY CapacityAssumption
  <1>2. QED
    BY <1>1, FS_Interval, CapacityAssumption DEF Slots

LEMMA TakeSlotInv ==
    ASSUME SchedInv, Frame, NEW r \in Requests, phase[r] # "running",
           NEW p, NEW q, Lists(q, Waiting \cup {r}), TakeSlot(r, p, q)
    PROVE  SchedInv'
  <1> USE DEF SchedInv
  <1>1. PICK s \in Slots :
           /\ Head(q) = r /\ s \in freeSlots
           /\ queue' = Tail(q)
           /\ freeSlots' = freeSlots \ {s}
           /\ active' = active + 1
           /\ phase' = [phase EXCEPT ![r] = "running"]
           /\ slotOf' = [slotOf EXCEPT ![r] = s]
    BY DEF TakeSlot, MayTake
  <1>2. stats' \in [Counters -> Nat]
    BY BumpType DEF TakeSlot, TypeOK, Counters
  <1>3. q # <<>>
    BY DEF Lists
  <1>4. Waiting' = (Waiting \cup {r}) \ {r}
    BY <1>1 DEF TypeOK, Waiting
  <1>5. Lists(queue', Waiting')
    BY <1>1, <1>3, <1>4, ListsTail
  <1>6. Running' = Running \cup {r} /\ r \notin Running
    BY <1>1 DEF TypeOK, Running
  <1>7. TypeOK'
    BY <1>1, <1>2, <1>5 DEF TypeOK, Frame, Phases, Lists
  <1>8. \A x \in Running : slotOf'[x] = slotOf[x] /\ slotOf[x] # s
    BY <1>1, <1>6 DEF TypeOK, SlotLedger
  <1>9. slotOf'[r] = s
    BY <1>1 DEF TypeOK
  <1>10. SlotExclusive'
    BY <1>6, <1>8, <1>9 DEF SlotExclusive
  <1>11. SlotLedger'
    <2>1. \A x \in Running' : slotOf'[x] \in Slots
      BY <1>6, <1>8, <1>9 DEF SlotLedger
    <2>2. freeSlots' = Slots \ {slotOf'[x] : x \in Running'}
      <3>1. {slotOf'[x] : x \in Running'} = {slotOf[x] : x \in Running} \cup {s}
        BY <1>6, <1>8, <1>9
      <3>2. QED
        BY <1>1, <3>1 DEF SlotLedger
    <2>3. active' = Capacity - Cardinality(freeSlots')
      <3>1. IsFiniteSet(freeSlots)
        BY SlotsFinite, FS_Subset DEF TypeOK
      <3>2. Cardinality(freeSlots') = Cardinality(freeSlots) - 1 /\ Cardinality(freeSlots) \in Nat
        BY <1>1, <3>1, FS_RemoveElement, FS_CardinalityType
      <3>3. QED
        BY <1>1, <3>2, CapacityAssumption DEF SlotLedger
    <2>4. QED
      BY <2>1, <2>2, <2>3 DEF SlotLedger
  <1>12. QueueIsWaiters'
    BY <1>5, ListsRange DEF QueueIsWaiters
  <1>13. QED
    BY <1>7, <1>10, <1>11, <1>12

\* A step that moves no slot keeps the slot accounts.
LEMMA SlotsUntouched ==
    ASSUME SchedInv, Running' = Running, UNCHANGED <<freeSlots, active, slotOf>>
    PROVE  SlotExclusive' /\ SlotLedger'
  BY DEF SchedInv, SlotExclusive, SlotLedger

LEMMA LeaveInv ==
    ASSUME SchedInv, Frame, NEW r \in Requests, phase[r] # "running",
           NEW q, Lists(q, Waiting \cup {r}),
           NEW o \in Outcomes, Leave(r, q, o), stats' \in [Counters -> Nat]
    PROVE  SchedInv'
  <1> USE DEF SchedInv
  <1>1. PICK i \in 1 .. Len(q) : q[i] = r /\ queue' = Without(q, i)
    BY DEF Leave
  <1>2. phase' = [phase EXCEPT ![r] = o] /\ UNCHANGED <<freeSlots, active, slotOf>>
    BY DEF Leave
  <1>3. Waiting' = (Waiting \cup {r}) \ {r}
    BY <1>2 DEF TypeOK, Waiting, Outcomes
  <1>4. Lists(queue', Waiting')
    BY <1>1, <1>3, ListsWithout
  <1>5. Running' = Running
    BY <1>2 DEF TypeOK, Running, Outcomes
  <1>6. TypeOK'
    BY <1>2, <1>4 DEF TypeOK, Frame, Phases, Lists
  <1>7. QueueIsWaiters'
    BY <1>4, ListsRange DEF QueueIsWaiters
  <1>8. QED
    BY <1>2, <1>5, <1>6, <1>7, SlotsUntouched

LEMMA KeepWaitingInv ==
    ASSUME SchedInv, Frame, NEW r \in Requests, phase[r] # "running",
           NEW p, NEW q, Lists(q, Waiting \cup {r}), KeepWaiting(r, p, q)
    PROVE  SchedInv'
  <1> USE DEF SchedInv
  <1>1. /\ queue' = q
        /\ phase' = [phase EXCEPT ![r] = "waiting"]
        /\ UNCHANGED <<freeSlots, active, stats, slotOf>>
    BY DEF KeepWaiting
  <1>2. Waiting' = Waiting \cup {r} /\ Running' = Running
    BY <1>1 DEF TypeOK, Waiting, Running
  <1>3. TypeOK'
    BY <1>1 DEF TypeOK, Frame, Phases, Lists
  <1>4. QueueIsWaiters'
    <2>1. Lists(queue', Waiting')
      BY <1>1, <1>2
    <2>2. QED
      BY <2>1, ListsRange DEF QueueIsWaiters
  <1>5. QED
    BY <1>1, <1>2, <1>3, <1>4, SlotsUntouched

-----------------------------------------------------------------------------
LEMMA ArriveInv ==
    ASSUME SchedInv, NEW r \in Requests, NEW p \in Slots \cup {None}, Arrive(r, p)
    PROVE  SchedInv'
  <1> USE DEF SchedInv
  <1> DEFINE q == Append(queue, r)
  <1>1. Frame
    BY DEF Arrive, Frame, TypeOK
  <1>2. phase[r] = "new"
    BY DEF Arrive
  <1>3. Lists(q, Waiting \cup {r})
    BY <1>2, QueueAsList, ListsAppend DEF TypeOK, Waiting
  <1> HIDE DEF q
  <1>4. CASE /\ \E o \in {"shutdown", "queue_full"} : phase' = [phase EXCEPT ![r] = o]
             /\ stats' \in [Counters -> Nat]
             /\ UNCHANGED <<queue, freeSlots, active, slotOf>>
    <2>1. PICK o \in {"shutdown", "queue_full"} : phase' = [phase EXCEPT ![r] = o]
      BY <1>4
    <2>2. Waiting' = Waiting /\ Running' = Running
      BY <1>2, <2>1 DEF TypeOK, Waiting, Running
    <2>3. TypeOK'
      BY <1>1, <1>4, <2>1 DEF TypeOK, Frame, Phases, Outcomes
    <2>4. QueueIsWaiters'
      BY <1>4, <2>2 DEF QueueIsWaiters
    <2>5. QED
      BY <1>4, <2>2, <2>3, <2>4, SlotsUntouched
  <1>5. CASE TakeSlot(r, p, q)
    BY <1>1, <1>2, <1>3, <1>5, TakeSlotInv
  <1>6. CASE LeaveCancelled(r, p, q)
    <2>1. stats' \in [Counters -> Nat]
      BY <1>6, BumpType DEF LeaveCancelled, TypeOK, Counters
    <2>2. QED
      BY <1>1, <1>2, <1>3, <1>6, <2>1, LeaveInv DEF LeaveCancelled, Outcomes
  <1>7. CASE KeepWaiting(r, p, q)
    BY <1>1, <1>2, <1>3, <1>7, KeepWaitingInv
  <1>8. QED
    <2>1. CASE closed
      BY <1>4, <2>1 DEF Arrive, TypeOK, TakeSlot, LeaveCancelled, KeepWaiting
    <2>2. CASE ~closed /\ QueueFull
      <3>1. Bump("rejected") => stats' \in [Counters -> Nat]
        BY BumpType DEF TypeOK, Counters
      <3>2. QED
        BY <1>4, <2>2, <3>1 DEF Arrive
    <2>3. CASE ~closed /\ ~QueueFull
      BY <1>5, <1>6, <1>7, <2>3 DEF Arrive, q
    <2>4. QED
      BY <2>1, <2>2, <2>3

LEMMA WakeInv ==
    ASSUME SchedInv, NEW r \in Requests, Wake(r)
    PROVE  SchedInv'
  <1> USE DEF SchedInv
  <1>1. Frame
    BY DEF Wake, Frame, TypeOK
  <1>2. phase[r] = "waiting"
    BY DEF Wake
  <1>3. Waiting \cup {r} = Waiting
    BY <1>2 DEF Waiting
  <1>4. Lists(queue, Waiting \cup {r})
    BY <1>3, QueueAsList DEF TypeOK
  <1>5. CASE TakeSlot(r, pin[r], queue)
    BY <1>1, <1>2, <1>4, <1>5, TakeSlotInv
  <1>6. CASE LeaveClosed(r, queue)
    BY <1>1, <1>2, <1>4, <1>6, LeaveInv DEF LeaveClosed, Outcomes, TypeOK
  <1>7. CASE LeaveCancelled(r, pin[r], queue)
    <2>1. stats' \in [Counters -> Nat]
      BY <1>7, BumpType DEF LeaveCancelled, TypeOK, Counters
    <2>2. QED
      BY <1>1, <1>2, <1>4, <1>7, <2>1, LeaveInv DEF LeaveCancelled, Outcomes
  <1>8. CASE LeaveTimedOut(r, pin[r], queue)
    <2>1. stats' \in [Counters -> Nat]
      BY <1>8, BumpType DEF LeaveTimedOut, TypeOK, Counters
    <2>2. QED
      BY <1>1, <1>2, <1>4, <1>8, <2>1, LeaveInv DEF LeaveTimedOut, Outcomes
  <1>9. QED
    BY <1>5, <1>6, <1>7, <1>8 DEF Wake

LEMMA ReleaseInv ==
    ASSUME SchedInv, NEW r \in Requests, Release(r)
    PROVE  SchedInv'
  <1> USE DEF SchedInv
  <1> DEFINE s == slotOf[r]
  <1>1. /\ phase[r] = "running"
        /\ active' = active - 1
        /\ freeSlots' = freeSlots \cup {s}
        /\ phase' = [phase EXCEPT ![r] = "completed"]
        /\ slotOf' = [slotOf EXCEPT ![r] = None]
        /\ UNCHANGED <<closed, queue, pin, gone, late>>
    BY DEF Release
  <1>2. r \in Running /\ Running' = Running \ {r} /\ Waiting' = Waiting
    BY <1>1 DEF TypeOK, Running, Waiting
  <1>3. s \in Slots /\ s \notin freeSlots
    BY <1>2 DEF SlotLedger
  <1>4. stats' \in [Counters -> Nat]
    BY BumpType DEF Release, TypeOK, Counters
  <1>5. TypeOK'
    BY <1>1, <1>3, <1>4 DEF TypeOK, Phases, Outcomes
  <1>6. \A x \in Running' : slotOf'[x] = slotOf[x] /\ slotOf[x] # s
    BY <1>1, <1>2 DEF TypeOK, SlotExclusive
  <1>7. SlotExclusive'
    BY <1>2, <1>6 DEF SlotExclusive
  <1>8. SlotLedger'
    <2>1. \A x \in Running' : slotOf'[x] \in Slots
      BY <1>2, <1>6 DEF SlotLedger
    <2>2. freeSlots' = Slots \ {slotOf'[x] : x \in Running'}
      <3>1. {slotOf'[x] : x \in Running'} = {slotOf[x] : x \in Running} \ {s}
        BY <1>2, <1>6
      <3>2. QED
        BY <1>1, <1>3, <3>1 DEF SlotLedger
    <2>3. active' = Capacity - Cardinality(freeSlots')
      <3>1. IsFiniteSet(freeSlots)
        BY SlotsFinite, FS_Subset DEF TypeOK
      <3>2. Cardinality(freeSlots') = Cardinality(freeSlots) + 1 /\ Cardinality(freeSlots) \in Nat
        BY <1>1, <1>3, <3>1, FS_AddElement, FS_CardinalityType
      <3>3. QED
        BY <1>1, <3>2, CapacityAssumption DEF SlotLedger
    <2>4. QED
      BY <2>1, <2>2, <2>3 DEF SlotLedger
  <1>9. QueueIsWaiters'
    BY <1>1, <1>2 DEF QueueIsWaiters
  <1>10. QED
    BY <1>5, <1>7, <1>8, <1>9

\* A step that only tells the scheduler something (closed, gone, late).
LEMMA NoticeInv ==
    ASSUME SchedInv, Frame, UNCHANGED <<queue, freeSlots, active, stats, phase, slotOf>>
    PROVE  SchedInv'
  <1>1. TypeOK'
    BY DEF SchedInv, TypeOK, Frame
  <1>2. Running' = Running /\ Waiting' = Waiting
    BY DEF Running, Waiting
  <1>3. SlotExclusive' /\ SlotLedger'
    BY <1>2, SlotsUntouched
  <1>4. QueueIsWaiters'
    BY <1>2 DEF SchedInv, QueueIsWaiters
  <1>5. QED
    BY <1>1, <1>3, <1>4 DEF SchedInv

LEMMA InitInv == Init => SchedInv
  <1> SUFFICES ASSUME Init PROVE SchedInv
    OBVIOUS
  <1>1. TypeOK
    <2>0. queue \in Seq(Requests)
      BY DEF Init
    <2>1. /\ closed \in BOOLEAN /\ active \in Int
          /\ gone \in SUBSET Requests /\ late \in SUBSET Requests
          /\ freeSlots \in SUBSET Slots
      <3>1. closed \in BOOLEAN
        BY DEF Init
      <3>2. active \in Int /\ gone = {} /\ late = {} /\ freeSlots = Slots
        BY DEF Init
      <3>3. QED
        BY <3>1, <3>2
    <2>2. stats \in [Counters -> Nat]
      BY DEF Init
    <2>3. /\ phase \in [Requests -> Phases]
          /\ pin \in [Requests -> Slots \cup {None}]
          /\ slotOf \in [Requests -> Slots \cup {None}]
      BY DEF Init, Phases
    <2>4. QED
      BY <2>0, <2>1, <2>2, <2>3 DEF TypeOK
  <1>2. Running = {} /\ Waiting = {}
    BY DEF Init, Running, Waiting
  <1>3. SlotExclusive /\ QueueIsWaiters
    BY <1>2 DEF Init, SlotExclusive, QueueIsWaiters
  <1>4. SlotLedger
    BY <1>2, SlotsFinite, CapacityAssumption DEF Init, SlotLedger
  <1>5. QED
    BY <1>1, <1>3, <1>4 DEF SchedInv

LEMMA StepInv == SchedInv /\ [Next]_vars => SchedInv'
  <1> SUFFICES ASSUME SchedInv, [Next]_vars PROVE SchedInv'
    OBVIOUS
  <1>1. ASSUME NEW r \in Requests, NEW p \in Slots \cup {None}, Arrive(r, p) PROVE SchedInv'
    BY <1>1, ArriveInv
  <1>2. ASSUME NEW r \in Requests, Wake(r) PROVE SchedInv'
    BY <1>2, WakeInv
  <1>3. ASSUME NEW r \in Requests, Release(r) PROVE SchedInv'
    BY <1>3, ReleaseInv
  <1>4. CASE Close
    BY <1>4, NoticeInv DEF Close, Frame, SchedInv, TypeOK
  <1>5. ASSUME NEW r \in Requests, Disconnect(r) PROVE SchedInv'
    BY <1>5, NoticeInv DEF Disconnect, Frame, SchedInv, TypeOK
  <1>6. ASSUME NEW r \in Requests, Expire(r) PROVE SchedInv'
    BY <1>6, NoticeInv DEF Expire, Frame, SchedInv, TypeOK
  <1>7. CASE UNCHANGED vars
    BY <1>7, NoticeInv DEF vars, Frame, SchedInv, TypeOK
  <1>8. QED
    BY <1>1, <1>2, <1>3, <1>4, <1>5, <1>6, <1>7 DEF Next

\* The scheduler's invariant: whatever admit(), its finally block and close()
\* do, in any order, the types hold, slots are exclusive and accounted for and
\* the deque is the waiting tickets.
THEOREM SchedulerInvariant == Spec => []SchedInv
  BY InitInv, StepInv, PTL DEF Spec

\* Type correctness of every field of GenerationScheduler.
THEOREM TypeCorrect == Spec => []TypeOK
  <1>1. SchedInv => TypeOK
    BY DEF SchedInv
  <1>2. QED
    BY <1>1, SchedulerInvariant, PTL

\* No two running requests were given the same KV slot (lines 698-702, 706-708).
THEOREM SlotsAreExclusive == Spec => []SlotExclusive
  <1>1. SchedInv => SlotExclusive
    BY DEF SchedInv
  <1>2. QED
    BY <1>1, SchedulerInvariant, PTL

\* free_slots, active and the requests that run agree, so no slot is ever lost.
THEOREM SlotsAreAccounted == Spec => []SlotLedger
  <1>1. SchedInv => SlotLedger
    BY DEF SchedInv
  <1>2. QED
    BY <1>1, SchedulerInvariant, PTL

\* The deque is exactly the waiting tickets: no exit of admit() strands one.
THEOREM QueueIsExact == Spec => []QueueIsWaiters
  <1>1. SchedInv => QueueIsWaiters
    BY DEF SchedInv
  <1>2. QED
    BY <1>1, SchedulerInvariant, PTL

\* Slots, their ledger and the deque, all at once: what the runs check.
THEOREM SlotsAlwaysAccounted == Spec => []SlotsAccounted
  <1>1. SchedInv => SlotsAccounted
    BY DEF SchedInv, SlotsAccounted
  <1>2. QED
    BY <1>1, SchedulerInvariant, PTL

-----------------------------------------------------------------------------
(* The scheduler implements SlotAdmission: who holds which slot.           *)

Holder == [s \in Slots |-> HolderOf(s)]

\* A slot that nobody runs on has no holder, any other the one that runs there.
LEMMA HolderOfSlot ==
    ASSUME SchedInv, NEW s \in Slots
    PROVE  /\ \A r \in Running : slotOf[r] = s => Holder[s] = r
           /\ (\A r \in Running : slotOf[r] # s) => Holder[s] = Nobody
           /\ Holder[s] = Nobody => \A r \in Running : slotOf[r] # s
           /\ \A r \in Requests : Holder[s] = r => r \in Running /\ slotOf[r] = s
  <1>1. Holder[s] = HolderOf(s)
    BY DEF Holder
  <1>2. ASSUME NEW r \in Running, slotOf[r] = s
        PROVE  Holder[s] = r
    BY <1>1, <1>2 DEF HolderOf, SchedInv, SlotExclusive
  <1>3. (\A r \in Running : slotOf[r] # s) => Holder[s] = Nobody
    BY <1>1 DEF HolderOf
  <1>4. Running \subseteq Requests
    BY DEF Running
  <1>5. QED
    BY <1>2, <1>3, <1>4, NobodyAssumption

LEMMA HolderOfSlotNext ==
    ASSUME SchedInv', NEW s \in Slots
    PROVE  /\ \A r \in Running' : slotOf'[r] = s => Holder'[s] = r
           /\ (\A r \in Running' : slotOf'[r] # s) => Holder'[s] = Nobody
  <1>1. Holder'[s] = HolderOf(s)'
    BY DEF Holder
  <1>2. QED
    BY <1>1 DEF HolderOf, SchedInv, SlotExclusive

LEMMA SameHolders ==
    ASSUME Running' = Running, slotOf' = slotOf
    PROVE  Holder' = Holder
  BY DEF Holder, HolderOf

\* The slot a request takes had no holder and has it now; the others keep theirs.
LEMMA TakeGives ==
    ASSUME SchedInv, SchedInv', NEW r \in Requests, phase[r] # "running",
           NEW s \in Slots, s \in freeSlots,
           phase' = [phase EXCEPT ![r] = "running"], slotOf' = [slotOf EXCEPT ![r] = s]
    PROVE  Holder[s] = Nobody /\ Holder' = [Holder EXCEPT ![s] = r]
  <1>1. Running' = Running \cup {r} /\ r \notin Running /\ Running \subseteq Requests
    BY DEF SchedInv, TypeOK, Running
  <1>2. \A x \in Running : slotOf'[x] = slotOf[x] /\ slotOf[x] # s
    BY <1>1 DEF SchedInv, TypeOK, SlotLedger
  <1>3. slotOf'[r] = s
    BY DEF SchedInv, TypeOK
  <1>4. Holder[s] = Nobody
    BY <1>2, HolderOfSlot
  <1>5. Holder'[s] = r
    BY <1>1, <1>3, HolderOfSlotNext
  <1>6. ASSUME NEW t \in Slots, t # s PROVE Holder'[t] = Holder[t]
    <2>1. CASE \E x \in Running : slotOf[x] = t
      <3>1. PICK x \in Running : slotOf[x] = t
        BY <2>1
      <3>2. Holder[t] = x
        BY <3>1, HolderOfSlot
      <3>3. Holder'[t] = x
        BY <1>1, <1>2, <3>1, HolderOfSlotNext
      <3>4. QED
        BY <3>2, <3>3
    <2>2. CASE \A x \in Running : slotOf[x] # t
      <3>1. Holder[t] = Nobody
        BY <2>2, HolderOfSlot
      <3>2. \A x \in Running' : slotOf'[x] # t
        BY <1>1, <1>2, <1>3, <1>6, <2>2
      <3>3. Holder'[t] = Nobody
        BY <3>2, HolderOfSlotNext
      <3>4. QED
        BY <3>1, <3>3
    <2>3. QED
      BY <2>1, <2>2
  <1>7. QED
    BY <1>4, <1>5, <1>6 DEF Holder

\* The slot a request gives back loses its holder; the others keep theirs.
LEMMA ReleaseReturns ==
    ASSUME SchedInv, SchedInv', NEW r \in Requests, Release(r)
    PROVE  /\ slotOf[r] \in Slots /\ Holder[slotOf[r]] # Nobody
           /\ Holder' = [Holder EXCEPT ![slotOf[r]] = Nobody]
  <1> DEFINE s == slotOf[r]
  <1>1. r \in Running /\ Running' = Running \ {r} /\ Running \subseteq Requests
    BY DEF SchedInv, TypeOK, Running, Release
  <1>2. s \in Slots /\ Holder[s] = r
    BY <1>1, HolderOfSlot DEF SchedInv, SlotLedger
  <1>3. \A x \in Running' : slotOf'[x] = slotOf[x] /\ slotOf[x] # s
    BY <1>1 DEF Release, SchedInv, TypeOK, SlotExclusive
  <1> HIDE DEF s
  <1>4. Holder'[s] = Nobody
    BY <1>2, <1>3, HolderOfSlotNext
  <1>5. ASSUME NEW t \in Slots, t # s PROVE Holder'[t] = Holder[t]
    <2>1. CASE \E x \in Running : slotOf[x] = t
      <3>1. PICK x \in Running : slotOf[x] = t
        BY <2>1
      <3>2. Holder[t] = x /\ x # r
        BY <1>5, <3>1, HolderOfSlot DEF s
      <3>3. Holder'[t] = x
        BY <1>1, <1>3, <3>1, <3>2, HolderOfSlotNext
      <3>4. QED
        BY <3>2, <3>3
    <2>2. CASE \A x \in Running : slotOf[x] # t
      <3>1. Holder[t] = Nobody
        BY <2>2, HolderOfSlot
      <3>2. \A x \in Running' : slotOf'[x] # t
        BY <1>1, <1>3, <2>2
      <3>3. Holder'[t] = Nobody
        BY <3>2, HolderOfSlotNext
      <3>4. QED
        BY <3>1, <3>3
    <2>3. QED
      BY <2>1, <2>2
  <1>6. Holder' = [Holder EXCEPT ![s] = Nobody]
    BY <1>2, <1>4, <1>5 DEF Holder
  <1>7. QED
    BY <1>2, <1>6, NobodyAssumption DEF s

-----------------------------------------------------------------------------
(* Every step of the scheduler is a step of SlotAdmission or a stutter.     *)

Stutters == UNCHANGED <<~closed, queue, Holder>>
Promised == Promise!Next \/ Stutters

\* A ticket that a new thread appends and takes out again leaves no trace.
LEMMA WithoutLast ==
    ASSUME NEW q \in Seq(Requests), NEW r, \A i \in 1 .. Len(q) : q[i] # r,
           NEW i \in 1 .. Len(Append(q, r)), Append(q, r)[i] = r, r \in Requests
    PROVE  Without(Append(q, r), i) = q
  <1>1. Len(Append(q, r)) = Len(q) + 1 /\ Len(q) \in Nat
    OBVIOUS
  <1>2. \A j \in 1 .. Len(q) : Append(q, r)[j] = q[j]
    OBVIOUS
  <1>3. i = Len(q) + 1
    BY <1>1, <1>2
  <1>4. Without(Append(q, r), i) = [j \in 1 .. Len(q) |-> q[j]]
    BY <1>1, <1>2, <1>3 DEF Without
  <1>5. QED
    BY <1>4

LEMMA ArriveKeepsPromise ==
    ASSUME SchedInv, SchedInv', NEW r \in Requests, NEW p \in Slots \cup {None}, Arrive(r, p)
    PROVE  Promised
  <1> DEFINE q == Append(queue, r)
  <1>1. phase[r] = "new" /\ closed' = closed
    BY DEF Arrive
  <1>2. queue \in Seq(Requests) /\ \A i \in 1 .. Len(queue) : queue[i] # r
    BY <1>1 DEF SchedInv, TypeOK, QueueIsWaiters, Waiting
  <1>3. r \notin Running
    BY <1>1 DEF Running
  <1>4. \A s \in Slots : Holder[s] # r
    BY <1>3, HolderOfSlot
  <1>5. CASE /\ \E o \in {"shutdown", "queue_full"} : phase' = [phase EXCEPT ![r] = o]
             /\ UNCHANGED <<queue, slotOf>>
    <2>1. Running' = Running
      BY <1>1, <1>5 DEF SchedInv, TypeOK, Running
    <2>2. QED
      BY <1>1, <1>5, <2>1, SameHolders DEF Promised, Stutters
  <1>6. CASE TakeSlot(r, p, q)
    <2>1. PICK s \in Slots :
             /\ Head(q) = r /\ s \in freeSlots /\ ~closed
             /\ queue' = Tail(q)
             /\ phase' = [phase EXCEPT ![r] = "running"]
             /\ slotOf' = [slotOf EXCEPT ![r] = s]
      BY <1>6 DEF TakeSlot, MayTake
    <2>2. queue = <<>>
      <3>1. queue # <<>> => Head(q) = queue[1] /\ 1 \in 1 .. Len(queue)
        BY <1>2
      <3>2. QED
        BY <1>2, <2>1, <3>1
    <2>3. queue' = <<>>
      BY <2>1, <2>2
    <2>4. Holder[s] = Nobody /\ Holder' = [Holder EXCEPT ![s] = r]
      BY <1>1, <2>1, TakeGives
    <2>5. Promise!TakeNow(r)
      BY <1>1, <1>4, <2>1, <2>2, <2>3, <2>4 DEF Promise!TakeNow, Promise!Holds, Promise!Give, Holder
    <2>6. QED
      BY <2>5 DEF Promised, Promise!Next
  <1>7. CASE LeaveCancelled(r, p, q)
    <2>1. PICK i \in 1 .. Len(q) : q[i] = r /\ queue' = Without(q, i)
      BY <1>7 DEF LeaveCancelled, Leave
    <2>2. queue' = queue
      BY <1>2, <2>1, WithoutLast
    <2>3. Running' = Running /\ slotOf' = slotOf
      BY <1>1, <1>7 DEF LeaveCancelled, Leave, SchedInv, TypeOK, Running
    <2>4. QED
      BY <1>1, <2>2, <2>3, SameHolders DEF Promised, Stutters
  <1>8. CASE KeepWaiting(r, p, q)
    <2>1. Running' = Running /\ slotOf' = slotOf /\ ~closed /\ queue' = q
      BY <1>1, <1>8 DEF KeepWaiting, SchedInv, TypeOK, Running
    <2>2. Holder' = Holder
      BY <2>1, SameHolders
    <2>3. Promise!Join(r)
      BY <1>1, <1>2, <1>4, <2>1, <2>2 DEF Promise!Join, Promise!InLine, Promise!Holds, Holder
    <2>4. QED
      BY <2>3 DEF Promised, Promise!Next
  <1>9. QED
    BY <1>5, <1>6, <1>7, <1>8 DEF Arrive

LEMMA WakeKeepsPromise ==
    ASSUME SchedInv, SchedInv', NEW r \in Requests, Wake(r)
    PROVE  Promised
  <1>1. phase[r] = "waiting" /\ closed' = closed
    BY DEF Wake
  <1>2. queue \in Seq(Requests) /\ queue # <<>>
    BY <1>1 DEF SchedInv, TypeOK, QueueIsWaiters, Waiting
  <1>3. CASE TakeSlot(r, pin[r], queue)
    <2>1. PICK s \in Slots :
             /\ Head(queue) = r /\ s \in freeSlots /\ ~closed
             /\ queue' = Tail(queue)
             /\ phase' = [phase EXCEPT ![r] = "running"]
             /\ slotOf' = [slotOf EXCEPT ![r] = s]
      BY <1>3 DEF TakeSlot, MayTake
    <2>2. Holder[s] = Nobody /\ Holder' = [Holder EXCEPT ![s] = r]
      BY <1>1, <2>1, TakeGives
    <2>3. Promise!Grant(r)
      BY <1>1, <1>2, <2>1, <2>2 DEF Promise!Grant, Promise!Give, Holder
    <2>4. QED
      BY <2>3 DEF Promised, Promise!Next
  <1>4. CASE \E o \in Outcomes : Leave(r, queue, o)
    <2>1. PICK o \in Outcomes : Leave(r, queue, o)
      BY <1>4
    <2>2. Running' = Running /\ slotOf' = slotOf
      BY <1>1, <2>1 DEF Leave, SchedInv, TypeOK, Running, Outcomes
    <2>3. Holder' = Holder
      BY <2>2, SameHolders
    <2>4. Promise!Quit(r)
      BY <1>1, <2>1, <2>3 DEF Leave, Without, Promise!Quit, Holder
    <2>5. QED
      BY <2>4 DEF Promised, Promise!Next
  <1>5. QED
    BY <1>3, <1>4 DEF Wake, LeaveClosed, LeaveCancelled, LeaveTimedOut, Outcomes

LEMMA ReleaseKeepsPromise ==
    ASSUME SchedInv, SchedInv', NEW r \in Requests, Release(r)
    PROVE  Promised
  <1>1. UNCHANGED <<closed, queue>>
    BY DEF Release
  <1>2. Promise!Return(slotOf[r])
    BY <1>1, ReleaseReturns DEF Promise!Return, Holder
  <1>3. QED
    BY <1>2, ReleaseReturns DEF Promised, Promise!Next

LEMMA InitKeepsPromise == Init => Promise!Init
  <1> SUFFICES ASSUME Init PROVE Promise!Init
    OBVIOUS
  <1>1. Running = {}
    BY DEF Init, Running
  <1>2. \A s \in Slots : HolderOf(s) = Nobody
    BY <1>1 DEF HolderOf
  <1>3. QED
    BY <1>2 DEF Init, Promise!Init

\* The scheduler keeps the promise of SlotAdmission: requests stand in one line,
\* only its head (or one that finds no line) is given a slot, a slot is given
\* only while nobody holds it, and none is given after close().
THEOREM KeepsItsPromise == Spec => ImplementsPromise
  <1>1. SchedInv /\ SchedInv' /\ [Next]_vars => [Promise!Next]_<<~closed, queue, Holder>>
    <2> SUFFICES ASSUME SchedInv, SchedInv', [Next]_vars PROVE Promised
      BY DEF Promised, Stutters
    <2>1. ASSUME NEW r \in Requests, NEW p \in Slots \cup {None}, Arrive(r, p) PROVE Promised
      BY <2>1, ArriveKeepsPromise
    <2>2. ASSUME NEW r \in Requests, Wake(r) PROVE Promised
      BY <2>2, WakeKeepsPromise
    <2>3. ASSUME NEW r \in Requests, Release(r) PROVE Promised
      BY <2>3, ReleaseKeepsPromise
    <2>4. CASE Close
      <3>1. Holder' = Holder
        BY <2>4, SameHolders DEF Close, Running
      <3>2. Promise!Shut
        BY <2>4, <3>1 DEF Close, Promise!Shut, Holder
      <3>3. QED
        BY <3>2 DEF Promised, Promise!Next
    <2>5. CASE UNCHANGED <<closed, queue, phase, slotOf>>
      <3>1. Holder' = Holder
        BY <2>5, SameHolders DEF Running
      <3>2. QED
        BY <2>5, <3>1 DEF Promised, Stutters
    <2>6. QED
      BY <2>1, <2>2, <2>3, <2>4, <2>5 DEF Next, vars, Disconnect, Expire
  <1>2. QED
    BY <1>1, InitKeepsPromise, SchedulerInvariant, PTL
       DEF Spec, ImplementsPromise, Promise!Spec, Promise!absVars, Holder

\* The behaviours the runs take, tickets in one order and Pins asked for, are
\* behaviours of the scheduler, so what is proved of Spec holds of them too.
THEOREM RunsAreBehaviours == FairSpec => Spec
  <1>1. NextInTurn => Next
    BY PinsAssumption DEF NextInTurn, Next
  <1>2. QED
    BY <1>1, PTL DEF FairSpec, Spec

=============================================================================

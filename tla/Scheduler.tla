------------------------------ MODULE Scheduler ------------------------------
(***************************************************************************)
(* GenerationScheduler of c/openai_server.py: the admission of gateway     *)
(* request threads to the engine's independent KV slots.                   *)
(*                                                                         *)
(* Every call of admit() makes one ticket, so a request is admitted at     *)
(* most once here; a client that asks again is another element of          *)
(* Requests.  All of admit() but the condition wait runs under             *)
(* self.condition, so each stretch between two waits is one action.  A     *)
(* wait returns after at most 0.25 s whether or not it was notified        *)
(* (line 697), so a waiting thread may re-evaluate its loop at any time    *)
(* and notify_all() only changes how soon it does: wake-ups are not state. *)
(***************************************************************************)
EXTENDS Integers, Sequences, FiniteSets

CONSTANTS
    Requests,  \* the tickets, one per call of admit()
    Capacity,  \* number of KV slots
    MaxQueue,  \* max_queue
    Pins       \* the slots the requests of a run may ask for (a bound of FairSpec)

ASSUME CapacityAssumption == Capacity \in Nat \ {0}   \* lines 646-647
ASSUME MaxQueueAssumption == MaxQueue \in Nat         \* lines 642-643

Slots == 0 .. Capacity - 1
None  == -1                       \* `slot is None`: any slot will do

ASSUME PinsAssumption == Pins \subseteq Slots

VARIABLES
    closed,     \* self.closed
    queue,      \* self.queue, the tickets in arrival order
    freeSlots,  \* self.free_slots
    active,     \* self.active
    stats,      \* the five counters of snapshot()
    phase,      \* where the thread of each request is
    pin,        \* the `slot` argument of each request
    slotOf,     \* the slot admit() yielded to each running request
    gone,       \* requests whose client has disconnected: cancelled() is true
    late        \* requests whose queue deadline has passed

schedVars == <<closed, queue, freeSlots, active, stats>>
vars == <<closed, queue, freeSlots, active, stats, phase, pin, slotOf, gone, late>>

Outcomes == {"completed", "shutdown", "queue_full", "timeout", "cancelled"}
Phases   == {"new", "waiting", "running"} \cup Outcomes
Counters == {"admitted", "completed", "rejected", "timed_out", "cancelled"}

Waiting == {r \in Requests : phase[r] = "waiting"}
Running == {r \in Requests : phase[r] = "running"}

TypeOK ==
    /\ closed \in BOOLEAN
    /\ queue \in Seq(Requests)
    /\ freeSlots \in SUBSET Slots
    /\ active \in Int
    /\ stats \in [Counters -> Nat]
    /\ phase \in [Requests -> Phases]
    /\ pin \in [Requests -> Slots \cup {None}]
    /\ slotOf \in [Requests -> Slots \cup {None}]
    /\ gone \in SUBSET Requests
    /\ late \in SUBSET Requests

Init ==
    /\ closed = FALSE
    /\ queue = <<>>
    /\ freeSlots = Slots
    /\ active = 0
    /\ stats = [c \in Counters |-> 0]
    /\ phase = [r \in Requests |-> "new"]
    /\ pin = [r \in Requests |-> None]
    /\ slotOf = [r \in Requests |-> None]
    /\ gone = {}
    /\ late = {}

Bump(counter) == stats' = [stats EXCEPT ![counter] = @ + 1]

-----------------------------------------------------------------------------
(* The body of the while loop of admit(), for a ticket r that asks for slot *)
(* p, with q the queue it sees: q is self.queue for a thread that returns   *)
(* from wait(), and self.queue with r just appended for one that arrives.   *)

\* `available` of line 682: min(free_slots), or the pinned slot.
Takes(p, s) ==
    IF p = None THEN s \in freeSlots /\ \A t \in freeSlots : s <= t ELSE s = p

\* Mutant of MayTake: a pinned slot is taken without asking whether it is free.
MayTakeBusy(r, p, q, s) == Head(q) = r /\ Takes(p, s)

\* The condition of line 683 for slot s.
MayTake(r, p, q, s) == Head(q) = r /\ Takes(p, s) /\ s \in freeSlots

CanAdmit(r, p, q) == \E s \in Slots : MayTake(r, p, q, s)

Without(q, i) == [j \in 1 .. Len(q) - 1 |-> IF j < i THEN q[j] ELSE q[j + 1]]

\* Mutant of TakeSlot: a ticket whose slot is free does not ask to be the head
\* of the deque and passes those before it.
TakeSlotOvertaking(r, p, q) ==
    /\ ~closed
    /\ \E s \in freeSlots, i \in 1 .. Len(q) :
        /\ q[i] = r /\ Takes(p, s)
        /\ queue' = Without(q, i)
        /\ freeSlots' = freeSlots \ {s}
        /\ active' = active + 1
        /\ Bump("admitted")
        /\ phase' = [phase EXCEPT ![r] = "running"]
        /\ slotOf' = [slotOf EXCEPT ![r] = s]

\* Lines 684 and 698-702: break, leave the head of the queue and take the slot.
TakeSlot(r, p, q) ==
    /\ ~closed
    /\ \E s \in Slots :
        /\ MayTake(r, p, q, s)
        /\ queue' = Tail(q)
        /\ freeSlots' = freeSlots \ {s}
        /\ active' = active + 1
        /\ Bump("admitted")
        /\ phase' = [phase EXCEPT ![r] = "running"]
        /\ slotOf' = [slotOf EXCEPT ![r] = s]

\* A ticket that leaves the queue without a slot (deque.remove).
Leave(r, q, outcome) ==
    /\ \E i \in 1 .. Len(q) : q[i] = r /\ queue' = Without(q, i)
    /\ phase' = [phase EXCEPT ![r] = outcome]
    /\ UNCHANGED <<freeSlots, active, slotOf>>

\* Lines 677-681.
LeaveClosed(r, q) == closed /\ Leave(r, q, "shutdown") /\ UNCHANGED stats

\* Lines 685-689: asked only when the ticket cannot be admitted.
LeaveCancelled(r, p, q) ==
    /\ ~closed /\ ~CanAdmit(r, p, q) /\ r \in gone
    /\ Leave(r, q, "cancelled") /\ Bump("cancelled")

\* Mutant of LeaveTimedOut: the ticket of a timed-out request stays in the queue.
LeaveTimedOutInPlace(r, p, q) ==
    /\ ~closed /\ ~CanAdmit(r, p, q) /\ r \notin gone /\ r \in late
    /\ queue' = q
    /\ phase' = [phase EXCEPT ![r] = "timeout"]
    /\ Bump("timed_out")
    /\ UNCHANGED <<freeSlots, active, slotOf>>

\* Lines 690-696: the last thing asked.
LeaveTimedOut(r, p, q) ==
    /\ ~closed /\ ~CanAdmit(r, p, q) /\ r \notin gone /\ r \in late
    /\ Leave(r, q, "timeout") /\ Bump("timed_out")

\* Line 697.
KeepWaiting(r, p, q) ==
    /\ ~closed /\ ~CanAdmit(r, p, q) /\ r \notin gone /\ r \notin late
    /\ queue' = q
    /\ phase' = [phase EXCEPT ![r] = "waiting"]
    /\ UNCHANGED <<freeSlots, active, stats, slotOf>>

-----------------------------------------------------------------------------
\* The test of line 670.
QueueFull == (active >= Capacity \/ queue # <<>>) /\ Len(queue) >= MaxQueue

\* admit() is called with slot argument p (lines 663-697 up to the first wait).
Arrive(r, p) ==
    /\ phase[r] = "new"
    /\ pin' = [pin EXCEPT ![r] = p]
    /\ \/ /\ closed
          /\ phase' = [phase EXCEPT ![r] = "shutdown"]
          /\ UNCHANGED <<queue, freeSlots, active, stats, slotOf>>
       \/ /\ ~closed /\ QueueFull
          /\ phase' = [phase EXCEPT ![r] = "queue_full"]
          /\ Bump("rejected")
          /\ UNCHANGED <<queue, freeSlots, active, slotOf>>
       \/ /\ ~closed /\ ~QueueFull
          /\ LET q == Append(queue, r) IN
                \/ TakeSlot(r, p, q)
                \/ LeaveCancelled(r, p, q)
                \/ KeepWaiting(r, p, q)
    /\ UNCHANGED <<closed, gone, late>>

\* wait() returns, notified or after 0.25 s, and the loop body runs.
Wake(r) ==
    /\ phase[r] = "waiting"
    /\ \/ TakeSlot(r, pin[r], queue)
       \/ LeaveClosed(r, queue)
       \/ LeaveCancelled(r, pin[r], queue)
       \/ LeaveTimedOut(r, pin[r], queue)
    /\ UNCHANGED <<closed, pin, gone, late>>


ReleaseLeaky(r) ==
    /\ phase[r] = "running"
    /\ active' = active - 1
    /\ Bump("completed")
    /\ phase' = [phase EXCEPT ![r] = "completed"]
    /\ slotOf' = [slotOf EXCEPT ![r] = None]
    /\ UNCHANGED <<closed, queue, freeSlots, pin, gone, late>>

\* The finally block (lines 705-710): the generation ended, well or badly.
Release(r) ==
    /\ phase[r] = "running"
    /\ active' = active - 1
    /\ freeSlots' = freeSlots \cup {slotOf[r]}
    /\ Bump("completed")
    /\ phase' = [phase EXCEPT ![r] = "completed"]
    /\ slotOf' = [slotOf EXCEPT ![r] = None]
    /\ UNCHANGED <<closed, queue, pin, gone, late>>

\* close(): lines 721-724.
Close ==
    /\ ~closed
    /\ closed' = TRUE
    /\ UNCHANGED <<queue, freeSlots, active, stats, phase, pin, slotOf, gone, late>>

\* The environment: a client hangs up; time passes queued_at + queue_timeout.
Disconnect(r) ==
    /\ phase[r] \in {"new", "waiting"} /\ r \notin gone
    /\ gone' = gone \cup {r}
    /\ UNCHANGED <<closed, queue, freeSlots, active, stats, phase, pin, slotOf, late>>

Expire(r) ==
    /\ phase[r] = "waiting" /\ r \notin late
    /\ late' = late \cup {r}
    /\ UNCHANGED <<closed, queue, freeSlots, active, stats, phase, pin, slotOf, gone>>

Next ==
    \/ \E r \in Requests, p \in Slots \cup {None} : Arrive(r, p)
    \/ \E r \in Requests : Wake(r) \/ Release(r) \/ Disconnect(r) \/ Expire(r)
    \/ Close

Spec == Init /\ [][Next]_vars

(* Fairness.  A waiting thread polls every 0.25 s, whatever else happens.   *)
(* That a deadline passes, and that a generation ends (the engine's doing), *)
(* are hypotheses of the two liveness properties, one each.                 *)
PollFairness     == \A r \in Requests : WF_vars(Wake(r))
DeadlineFairness == \A r \in Requests : WF_vars(Expire(r))
ServiceFairness  == \A r \in Requests : WF_vars(Release(r))

(* What the runs take.  Which element of Requests stands for which call of  *)
(* admit() is a matter of naming, so a run loses nothing when the tickets   *)
(* arrive in one order; which slots are asked for is cut to Pins.           *)
Turn == CHOOSE t \in [1 .. Cardinality(Requests) -> Requests] :
            \A i, j \in DOMAIN t : t[i] = t[j] => i = j

InTurn(r) == \A i, j \in DOMAIN Turn : i < j /\ Turn[j] = r => phase[Turn[i]] # "new"

NextInTurn ==
    \/ \E r \in Requests, p \in Pins \cup {None} : InTurn(r) /\ Arrive(r, p)
    \/ \E r \in Requests : Wake(r) \/ Release(r) \/ Disconnect(r) \/ Expire(r)
    \/ Close

FairSpec == Init /\ [][NextInTurn]_vars /\ PollFairness

-----------------------------------------------------------------------------
(* Properties.                                                             *)

\* No two requests that run at once were given the same KV slot
\* (free_slots is what line 700 removes from and line 708 adds to).
SlotExclusive ==
    \A r1, r2 \in Running : slotOf[r1] = slotOf[r2] => r1 = r2

\* The three accounts of the slots agree: free_slots is what no running request
\* holds, and `active`, the number line 670 tests, is how many slots are out.
SlotLedger ==
    /\ \A r \in Running : slotOf[r] \in Slots
    /\ freeSlots = Slots \ {slotOf[r] : r \in Running}
    /\ active = Capacity - Cardinality(freeSlots)

\* The deque holds exactly the waiting tickets, each once: no exit of the
\* loop (admission, shutdown, cancellation, timeout) strands its ticket, which
\* would block every later one for ever.
QueueIsWaiters ==
    /\ {queue[i] : i \in 1 .. Len(queue)} = Waiting
    /\ \A i, j \in 1 .. Len(queue) : queue[i] = queue[j] => i = j

\* The books of the scheduler balance at every step of every thread: slots are
\* held by one request each, none is lost, and nobody is stranded in the deque.
SlotsAccounted == SlotExclusive /\ SlotLedger /\ QueueIsWaiters

\* The inductive invariant behind the above: TypeOK alone is not
\* inductive (a running request must hold a real slot for Release to keep
\* free_slots a set of slots, and a waiting one must be in the deque).
SchedInv == TypeOK /\ SlotExclusive /\ SlotLedger /\ QueueIsWaiters

NoWaiterStuck == \A r \in Requests : phase[r] = "waiting" ~> phase[r] # "waiting"

\* Every waiting request is answered: by its deadline (line 690), although no
\* generation need ever end; or, as long as generations end, although no deadline
\* need ever pass: no pin, cancellation, timeout of one before it or order of
\* releases starves it.
Answered == /\ DeadlineFairness => NoWaiterStuck
            /\ ServiceFairness => NoWaiterStuck

\* The scheduler implements the promise of SlotAdmission.
Nobody == "nobody"
ASSUME NobodyAssumption == Nobody \notin Requests

HolderOf(s) ==
    IF \E r \in Running : slotOf[r] = s
    THEN CHOOSE r \in Running : slotOf[r] = s
    ELSE Nobody

Promise == INSTANCE SlotAdmission
    WITH open <- ~closed, line <- queue, holder <- [s \in Slots |-> HolderOf(s)]

\* Every step of admit(), its finally block and close() is a step of that
\* promise or leaves what it speaks of alone: however the threads that wait
\* behind one another wake, time out or hang up, none is given a slot past an
\* earlier one, not even a slot that the head cannot use.
ImplementsPromise == Promise!Spec

=============================================================================

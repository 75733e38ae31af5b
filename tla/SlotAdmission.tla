---------------------------- MODULE SlotAdmission ----------------------------
(***************************************************************************)
(* What GenerationScheduler promises its callers, with none of its         *)
(* counters: requests stand in one line, a slot has at most one holder,    *)
(* and only the request at the head of the line (or one that finds no      *)
(* line) is given a slot.                                                  *)
(***************************************************************************)
EXTENDS Integers, Sequences

CONSTANTS Requests, Slots, Nobody

VARIABLES
    open,    \* slots are still being given out
    line,    \* the requests that wait, in arrival order
    holder   \* who holds each slot

absVars == <<open, line, holder>>

Init ==
    /\ open = TRUE
    /\ line = <<>>
    /\ holder = [s \in Slots |-> Nobody]

InLine(r) == \E i \in 1 .. Len(line) : line[i] = r
Holds(r)  == \E s \in Slots : holder[s] = r

Give(r, s) == holder[s] = Nobody /\ holder' = [holder EXCEPT ![s] = r]

\* A request with nobody before it takes a slot on the spot.
TakeNow(r) ==
    /\ open /\ line = <<>> /\ ~Holds(r)
    /\ \E s \in Slots : Give(r, s)
    /\ UNCHANGED <<open, line>>

Join(r) ==
    /\ open /\ ~InLine(r) /\ ~Holds(r)
    /\ line' = Append(line, r)
    /\ UNCHANGED <<open, holder>>

Grant(r) ==
    /\ open /\ line # <<>> /\ Head(line) = r
    /\ \E s \in Slots : Give(r, s)
    /\ line' = Tail(line)
    /\ UNCHANGED open

\* A request gives up; the others keep their order.
Quit(r) ==
    /\ \E i \in 1 .. Len(line) :
        /\ line[i] = r
        /\ line' = [j \in 1 .. Len(line) - 1 |-> IF j < i THEN line[j] ELSE line[j + 1]]
    /\ UNCHANGED <<open, holder>>

Return(s) ==
    /\ holder[s] # Nobody
    /\ holder' = [holder EXCEPT ![s] = Nobody]
    /\ UNCHANGED <<open, line>>

Shut == open' = FALSE /\ UNCHANGED <<line, holder>>

Next ==
    \/ \E r \in Requests : TakeNow(r) \/ Join(r) \/ Grant(r) \/ Quit(r)
    \/ \E s \in Slots : Return(s)
    \/ Shut

Spec == Init /\ [][Next]_absVars

=============================================================================

----------------------------- MODULE MuxServer -----------------------------
(***************************************************************************)
(* The batching engine loop run_serve_mux (c/glm.c): each turn reads at most *)
(* one frame, then advances every active slot by one token.  Events are      *)
(* printed and flushed slot by slot, so the gateway can have one before the   *)
(* next is printed.  What a slot saves on disk is KVFile's subject; len is    *)
(* the length of its history.                                                *)
(***************************************************************************)
EXTENDS EngineIO

CONSTANT Slots          \* 0 .. KV_SLOTS - 1

VARIABLES req,          \* per slot, the request being decoded
          len,          \* per slot, ctx[i].len: tokens in history and cache
          turn,         \* "poll": may read a frame; "decode": must decode first;
                        \* "rows", "interrupt": in the loop over slots that does it
          rows          \* the slots of the batch whose token is not yet picked

muxVars == <<req, len, turn, rows>>

NoRequest == [active |-> FALSE, id |-> 0, emitted |-> 0, maximum |-> 0]

MuxInit == /\ req = [s \in Slots |-> NoRequest]
           /\ len = [s \in Slots |-> 0]
           /\ turn = "poll" /\ rows = {}

Active == {s \in Slots : req[s].active}
First(s, S) == s \in S /\ \A t \in S : s <= t

\* mux_done ends every request the interrupt finds active, in slot order.
Interrupt ==
  /\ turn \in {"poll", "interrupt"}
  /\ \E s \in Active :
       /\ First(s, Active)
       /\ Emit(<<Done(req[s].id, req[s].emitted)>>)
       /\ req' = [req EXCEPT ![s].active = FALSE]
       /\ turn' = IF Active = {s} THEN "poll" ELSE "interrupt"
  /\ UNCHANGED <<stdin, stderr, len, rows>>

NextTurn == turn' = IF \E s \in Slots : req'[s].active THEN "decode" ELSE "poll"

Encoded(prompt) == Smaller(prompt, MaxCtx - 2)

\* The room mutant: the answer is not limited to what the context has left.
LimitRoomless(max, n) == max
Limit(max, n) == Smaller(max, MaxCtx - n - 1)

\* mux_submit refuses a frame before it touches the slot.
Refusal(f) ==
  IF req[f.slot].active THEN "SLOT_BUSY"
  ELSE IF \E s \in Active : req[s].id = f.id THEN "DUPLICATE_ID"
  ELSE IF Encoded(f.prompt) < 1 THEN "EMPTY_PROMPT"
  ELSE "none"

\* The prompt is prefilled and its first token picked.
Prefill(f) ==
  LET n == Encoded(f.prompt)
      max == Limit(f.max, n)
      Slot(e, on) == [active |-> on, id |-> f.id, emitted |-> e, maximum |-> max]
  IN /\ Report
     /\ len' = [len EXCEPT ![f.slot] = n]
     /\ \/ /\ Emit(<<Done(f.id, 0)>>)                  \* a stop token, or no room
           /\ req' = [req EXCEPT ![f.slot] = Slot(0, FALSE)]
        \/ /\ max > 1
           /\ Emit(<<Data(f.id, 1)>>)
           /\ req' = [req EXCEPT ![f.slot] = Slot(1, TRUE)]
        \/ /\ max = 1
           /\ Emit(<<Data(f.id, 1), Done(f.id, 1)>>)
           /\ req' = [req EXCEPT ![f.slot] = Slot(1, FALSE)]

MuxSubmit ==
  /\ turn = "poll" /\ Read("SUBMIT")
  /\ LET f == Head(stdin) IN
       \/ /\ Refusal(f) # "none"
          /\ Emit(<<Error(f.id, Refusal(f))>>)
          /\ UNCHANGED <<req, len, stderr>>
       \/ Refusal(f) = "none" /\ Prefill(f)
  /\ NextTurn /\ UNCHANGED rows

MuxCancel ==
  /\ turn = "poll" /\ Read("CANCEL")
  /\ LET id == Head(stdin).id
         mine == {s \in Active : req[s].id = id}
     IN /\ req' = [s \in Slots |-> [req[s] EXCEPT !.active = @ /\ s \notin mine]]
        /\ Emit(<<Error(id, IF mine = {} THEN "NOT_FOUND" ELSE "CANCELLED")>>)
  /\ NextTurn
  /\ UNCHANGED <<len, stderr, rows>>

\* What one slot prints for its row of the batch: the token picked, if it is
\* not a stop token, and DONE when the request ends with it.
RowDoneFirst(r, stop) ==        \* mutant: mux_done before mux_data
  IF stop THEN <<Done(r.id, r.emitted)>>
  ELSE (IF r.emitted + 1 >= r.maximum THEN <<Done(r.id, r.emitted + 1)>> ELSE <<>>)
       \o <<Data(r.id, r.emitted + 1)>>
Row(r, stop) ==
  IF stop THEN <<Done(r.id, r.emitted)>>
  ELSE <<Data(r.id, r.emitted + 1)>>
       \o (IF r.emitted + 1 >= r.maximum THEN <<Done(r.id, r.emitted + 1)>> ELSE <<>>)

\* The token of one slot: a stop token ends the request, so does its limit.
Advanced(r, stop) ==
  IF stop THEN [r EXCEPT !.active = FALSE]
  ELSE [r EXCEPT !.emitted = @ + 1, !.active = r.emitted + 1 < r.maximum]

\* One row of a batch.  A batch is every active slot; it begins when select()
\* found no frame, or the turn has read its one frame.
Batch == IF turn = "rows" THEN rows ELSE Active
MuxRow ==
  /\ turn \in {"decode", "rows"} \/ (turn = "poll" /\ stdin = <<>>)
  /\ \E s \in Batch, stop \in BOOLEAN :
       /\ First(s, Batch)
       /\ Emit(Row(req[s], stop))
       /\ req' = [req EXCEPT ![s] = Advanced(req[s], stop)]
       /\ len' = [len EXCEPT ![s] = @ + 1]
       /\ rows' = Batch \ {s}
       /\ turn' = IF Batch = {s} THEN "poll" ELSE "rows"
  /\ UNCHANGED <<stdin, stderr>>

MuxNext == Interrupt \/ MuxSubmit \/ MuxCancel \/ MuxRow

\* A request still being decoded has room for the token it waits for: its
\* history and its cache rows end before MaxCtx (sc->hist and the cache have
\* maxctx entries; the writes at c/glm.c:4964 and 5043 are not checked).
HistoryFits == \A s \in Active : len[s] + 1 < MaxCtx
=============================================================================

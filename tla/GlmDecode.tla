----------------------------- MODULE GlmDecode -----------------------------
(***************************************************************************)
(* The conversation loop of glm (run_serve of c/glm.c) and spec_decode: a  *)
(* prompt is matched against what its KV slot holds, the rest is           *)
(* prefilled, and every pass over the model then verifies tokens that the  *)
(* grammar, the MTP head or an n-gram has drafted.  The host rows of the   *)
(* KV cache have a shadow on the device that lags behind.                  *)
(*                                                                         *)
(* A KV row, like the hidden state and the logits of its position, is      *)
(* known by the tokens it was computed from: the row of position i (from   *)
(* 1) of a sound cache is SubSeq(history, 1, i).                           *)
(***************************************************************************)
EXTENDS Naturals, Sequences, FiniteSets, SequencesExt

CONSTANTS
    Slots,        \* KV slots; 0 is the one of plain lines
    Tokens, Stops,
    Support(_),   \* tokens the target may choose after a history (greedy: one)
    Bytes,        \* token -> its bytes
    Grammars,     \* sequence of compiled grammars
    gr_state_init(_), gr_refuses(_, _, _), gr_accept(_, _, _), gr_forced(_, _),  \* their walker (module Grammar)
    Ctx, NGen, Draft,  \* CTX, NGEN, g_draft
    Forces,       \* g_gr_max
    Margin,       \* the 8 of `maxctx-8-g_draft'
    Prompts,      \* what clients send, in tokens
    Asks,         \* numbers of tokens they ask for
    MaxTurns      \* bound: prompts, lines and MOREs

ASSUME GlmAssumption ==
    /\ 0 \in Slots /\ Stops \subseteq Tokens
    /\ {Ctx, NGen, Draft, Forces, Margin, MaxTurns} \subseteq Nat
    /\ Ctx > Margin + Draft /\ Forces > 0 /\ Asks \subseteq Nat \ {0}
    /\ Prompts \subseteq Seq(Tokens)

VARIABLES
    slot,     \* slot -> [hist: hist[0..len), rows: its KV rows]
    bound,    \* m->kv
    shadow,   \* the valid rows of the device's copy of those of `bound'
    hidden,   \* m->hlast
    turn,     \* the decode in progress, or the last one
    walker,   \* the grammar walker and the text it has followed
    gram, mtp, \* the grammar loaded, and whether the model has an MTP head
    turns

vars == <<slot, bound, shadow, hidden, turn, walker, gram, mtp, turns>>

Unwritten == <<>>            \* a row of the allocation, or computed from one
Positions == 1 .. Ctx + Forces
NoRows == [i \in Positions |-> Unwritten]

NoTurn == [on |-> FALSE, base |-> <<>>, all |-> <<>>, out |-> <<>>, cur |-> 0, logit |-> Unwritten, ban |-> {}]

---------------------------------------------------------------------------
(* A forward pass                                                         *)

Prefix(tokens, n) == SubSeq(tokens, 1, n)

\* The row of position i, computed from a token and from the rows before it.
RowAfter(view, i, token) ==
    LET before == IF i = 1 THEN <<>> ELSE view[i - 1]
    IN  IF \A j \in 1 .. i - 1 : view[j] = Prefix(before, j) /\ Len(view[j]) = j
        THEN Append(before, token) ELSE Unwritten

ShortenedNot(sh, n) == sh
\* A row the shadow has is written again.
Shortened(sh, n) == Prefix(sh, IF Len(sh) > n THEN n ELSE Len(sh))

\* kv_dev_sync: rows the shadow lacks are uploaded.
Synced(sh, rows, upto) == sh \o SubSeq(rows, Len(sh) + 1, upto)

\* One token of a forward, at position pos + s: of a batch, the first m have
\* their attention on the device; the upload fails after them.
ForwardOne(at, s, tokens, pos, m) ==
    LET i == pos + s
        copy == Synced(at.shadow, at.rows, i - 1)
        view == IF s <= m THEN copy ELSE at.rows
        new == [at.rows EXCEPT ![i] = RowAfter(view, i, tokens[s])]
    IN  [rows |-> new, shadow |-> IF s <= m THEN Synced(copy, new, i) ELSE at.shadow]

\* step and step_all from position `pos': the rows of the tokens.
Forward(rows, sh, tokens, pos, m) ==
    LET pass[s \in 0 .. Len(tokens)] ==
          IF s = 0 THEN [rows |-> rows, shadow |-> Shortened(sh, pos)]
                   ELSE ForwardOne(pass[s - 1], s, tokens, pos, m)
    IN  pass[Len(tokens)]

Target(row) == IF row = Unwritten THEN Tokens ELSE Support(row) \cap Tokens

---------------------------------------------------------------------------
(* Drafts from the grammar                                                *)

G == Grammars[gram]

FreshWalker(w) ==
    LET st == gr_state_init(G)
    IN  [st |-> st, armed |-> FALSE, on |-> w.on /\ st.alive, text |-> <<>>]

\* Wrong: the byte that breaks a document is not read again as the first of another.
FeedByteOnce(w, b) ==
    LET st == gr_accept(G, w.st, b)
    IN  IF ~w.on \/ ~w.st.alive THEN [w EXCEPT !.on = FALSE]
        ELSE IF ~gr_refuses(G, w.st, b)
        THEN [w EXCEPT !.st = st, !.armed = @ \/ st.alive, !.text = Append(@, b), !.on = st.alive]
        ELSE IF w.armed THEN FreshWalker(w) ELSE w

\* gr_feed, for a byte: text the grammar does not know is passed over until
\* something begins a document; a document that breaks is given up.
FeedByte(w, b) ==
    LET Read(v) == LET st == gr_accept(G, v.st, b)
                   IN  [v EXCEPT !.st = st, !.armed = @ \/ st.alive, !.text = Append(@, b)]
        restarted == FreshWalker(w)
    IN  IF ~w.on \/ ~w.st.alive THEN [w EXCEPT !.on = FALSE]
        ELSE IF ~gr_refuses(G, w.st, b) THEN [Read(w) EXCEPT !.on = Read(w).st.alive]
        ELSE IF ~w.armed THEN w
        ELSE IF restarted.on /\ ~gr_refuses(G, restarted.st, b) THEN Read(restarted)
        ELSE restarted

Feed(w, token) == IF w.on THEN FoldLeft(FeedByte, w, Bytes[token]) ELSE w
FeedAll(w, tokens) == FoldLeft(Feed, w, tokens)

SeqsUpTo(n) == UNION {[1 .. k -> Tokens \ Stops] : k \in 0 .. n}
BytesOf(tokens) == FlattenSeq([i \in DOMAIN tokens |-> Bytes[tokens[i]]])

\* grammar_draft: the forced bytes, in tokens, or as many of them as fit.
GrammarDrafts(w) ==
    LET bytes == gr_forced(G, w.st)
    IN  IF ~w.on \/ ~w.armed THEN {<<>>}
        ELSE {d \in SeqsUpTo(Forces) : /\ IsPrefix(BytesOf(d), bytes)
                                       /\ BytesOf(d) = bytes \/ Len(d) = Forces}

\* ngram_draft: what followed the last two tokens when they came last.
NGram(all) ==
    LET n == Len(all)
        seen == {i \in 2 .. n - 2 : all[i - 1] = all[n - 1] /\ all[i] = all[n]}
        i == CHOOSE x \in seen : \A y \in seen : y <= x
    IN  IF n < 4 \/ seen = {} THEN <<>> ELSE SubSeq(all, i + 1, IF i + Draft < n THEN i + Draft ELSE n)

\* The head may propose anything, and nothing while its guard pauses it.
ModelDrafts(all) == IF mtp THEN UNION {[1 .. k -> Tokens] : k \in 0 .. Draft} ELSE {NGram(all)}

Drafts(w, all) ==
    (GrammarDrafts(w) \ {<<>>}) \cup (IF <<>> \in GrammarDrafts(w) THEN ModelDrafts(all) ELSE {})

\* No more than may still be emitted, and than the context has rows for.
Room(d, kv, left) ==
    LET g == IF Len(d) > left THEN left ELSE Len(d)
    IN  IF kv + 1 + g + 1 > Ctx THEN (IF Ctx > kv + 2 THEN Ctx - kv - 2 ELSE 0) ELSE g

---------------------------------------------------------------------------
(* spec_decode                                                            *)

AcceptedByOwnRow(rows, kv, d, k) ==
    \A j \in 1 .. k : d[j] \in Target(rows[kv + j + 1]) \ Stops
\* The first k drafts are accepted, each by the row before it.
Accepted(rows, kv, d, k) ==
    \A j \in 1 .. k : d[j] \in Target(rows[kv + j]) \ Stops

\* hlast: of the last position accepted, not of the last computed.
HiddenAfter(rows, kv, k, S) == IF k < S - 1 THEN rows[kv + k + 1] ELSE rows[kv + S]

\* The loop is over, at its top or at a token that is not forwarded: the
\* history is what has been forwarded.
Over(t) == [t EXCEPT !.on = FALSE, !.logit = Unwritten, !.ban = {}]
ReturnsNoCount(t) == turn' = Over(t) /\ UNCHANGED slot
Returns(t) ==
    /\ turn' = Over(t)
    /\ slot' = [slot EXCEPT ![bound].hist = t.all]

\* The cap is reached in a verification, or the turn is interrupted.
EndTurn ==
    /\ turn.on
    /\ Returns(turn)
    /\ UNCHANGED <<bound, shadow, hidden, walker, gram, mtp, turns>>

\* A stop token is chosen.
ChooseStop ==
    /\ turn.on /\ Len(turn.out) < turn.cur
    /\ (Target(turn.logit) \ turn.ban) \cap Stops # {}
    /\ Returns(turn)
    /\ UNCHANGED <<bound, shadow, hidden, walker, gram, mtp, turns>>

\* The token chosen is the last one asked for: it is not forwarded.
ChooseLast ==
    /\ turn.on /\ Len(turn.out) + 1 = turn.cur
    /\ \E next \in (Target(turn.logit) \ turn.ban) \ Stops :
         /\ Returns([turn EXCEPT !.out = Append(@, next)])
         /\ walker' = Feed(walker, next)
    /\ UNCHANGED <<bound, shadow, hidden, gram, mtp, turns>>

\* The first k drafts come true and draft k + 1 does not, or there is none:
\* a rejected one is not chosen again.
Continues(t, rows, kv, next, d, g, k) ==
    /\ k < g => \/ d[k + 1] \notin Target(rows[kv + 1 + k])
                \/ Cardinality(Target(rows[kv + 1 + k])) > 1
    /\ slot' = [slot EXCEPT ![bound].rows = rows]
    /\ turn' = [t EXCEPT !.all = @ \o <<next>> \o Prefix(d, k), !.out = @ \o <<next>> \o Prefix(d, k),
                         !.logit = rows[kv + 1 + k],
                         !.ban = IF k < g THEN {d[k + 1]} ELSE {}]

\* Draft k + 1 is a stop token and comes true.
StopsAt(t, rows, kv, next, d, g, k) ==
    /\ k < g /\ d[k + 1] \in Stops \cap Target(rows[kv + 1 + k])
    /\ LET all == t.all \o <<next>> \o Prefix(d, k)
       IN  /\ slot' = [slot EXCEPT ![bound] = [hist |-> all, rows |-> rows]]
           /\ turn' = Over([t EXCEPT !.all = all, !.out = @ \o <<next>> \o Prefix(d, k)])

\* A pass of the loop: the next token is chosen and emitted, drafts follow
\* it, one forward gives a row for each, and they are verified in order.
Round ==
    /\ turn.on /\ Len(turn.out) + 1 < turn.cur
    /\ \E next \in (Target(turn.logit) \ turn.ban) \ Stops :
         LET kv == Len(turn.all)
             fed == Feed(walker, next)
         IN  \E d \in Drafts(fed, Append(turn.all, next)) :
               LET g == Room(d, kv, turn.cur - Len(turn.out) - 1)
                   batch == <<next>> \o Prefix(d, g)
               IN  \E m \in 0 .. Len(batch) :
                     LET f == Forward(slot[bound].rows, shadow, batch, kv, m)
                     IN  \E k \in 0 .. g :
                           /\ Accepted(f.rows, kv, d, k)
                           /\ \/ Continues(turn, f.rows, kv, next, d, g, k)
                              \/ StopsAt(turn, f.rows, kv, next, d, g, k)
                           /\ shadow' = f.shadow
                           /\ hidden' = HiddenAfter(f.rows, kv, k, g + 1)
                           /\ walker' = FeedAll(fed, Prefix(d, k))
    /\ UNCHANGED <<bound, gram, mtp, turns>>

\* grammar_draft switches itself off when few of its drafts come true.
GrammarGivesUp ==
    /\ turn.on /\ walker.on /\ walker.armed
    /\ walker' = [walker EXCEPT !.on = FALSE]
    /\ UNCHANGED <<slot, bound, shadow, hidden, turn, gram, mtp, turns>>

---------------------------------------------------------------------------
(* run_serve                                                              *)

\* kv_bind: the shadow is of one slot.
ShadowOf(s) == IF s = bound THEN shadow ELSE <<>>

Limit(len, asked) == IF len + asked + Draft + 2 >= Ctx THEN Ctx - len - Draft - 2 ELSE asked

\* The new tokens are prefilled; with none, the last one is done again for
\* its logits.  No room for an answer, no decode.
Begin(s, old, new, asked) ==
    LET hist == old \o new
        batch == IF new = <<>> THEN <<Last(old)>> ELSE new
        pos == Len(hist) - Len(batch)
        cur == Limit(Len(hist), asked)
    IN  /\ \E m \in 0 .. Len(batch) :
             LET f == Forward(slot[s].rows, ShadowOf(s), batch, pos, m)
                 last == f.rows[Len(hist)]
             IN  /\ slot' = [slot EXCEPT ![s] = [hist |-> hist, rows |-> f.rows]]
                 /\ shadow' = f.shadow
                 /\ hidden' = last
                 /\ turn' = IF Len(hist) + Draft + 2 < Ctx
                            THEN [on |-> TRUE, base |-> hist, all |-> hist, out |-> <<>>,
                                  cur |-> cur, logit |-> last, ban |-> {}]
                            ELSE [NoTurn EXCEPT !.base = hist, !.all = hist]
        /\ bound' = s
        /\ turns < MaxTurns /\ turns' = turns + 1
        /\ UNCHANGED <<gram, mtp>>

\* A prompt of no tokens is not answered; what it cut off stays cut off.
Unanswered(s, old) ==
    /\ slot' = [slot EXCEPT ![s].hist = old]
    /\ shadow' = ShadowOf(s)
    /\ bound' = s
    /\ turn' = [NoTurn EXCEPT !.base = old, !.all = old]
    /\ turns < MaxTurns /\ turns' = turns + 1
    /\ UNCHANGED <<hidden, walker, gram, mtp>>

CommonPrefix(a, b) ==
    CHOOSE n \in 0 .. Len(a) : /\ n <= Len(b) /\ Prefix(a, n) = Prefix(b, n)
                               /\ (n < Len(a) /\ n < Len(b)) => a[n + 1] # b[n + 1]

\* \x02PROMPT: what the slot shares with the prompt is kept.
Prompt(s, tokens, asked) ==
    LET prompt == Prefix(tokens, IF Len(tokens) > Ctx - Margin - Draft THEN Ctx - Margin - Draft ELSE Len(tokens))
        n == CommonPrefix(slot[s].hist, prompt)
    IN  /\ ~turn.on
        /\ \/ prompt = <<>> /\ Unanswered(s, <<>>)
           \/ /\ prompt # <<>>
              /\ Begin(s, Prefix(slot[s].hist, n), SubSeq(prompt, n + 1, Len(prompt)), asked)
              /\ walker' = FreshWalker(walker)

\* A plain line goes on with the conversation of slot 0, or begins a new one
\* when it does not fit.
Line(tokens) ==
    LET fits == Len(slot[0].hist) + Len(tokens) + Margin + Draft < Ctx
        old == IF fits THEN slot[0].hist ELSE <<>>
    IN  /\ ~turn.on
        /\ \/ tokens = <<>> /\ Unanswered(0, old)
           \/ /\ tokens # <<>>
              /\ Begin(0, old,
                       IF fits \/ Len(tokens) <= Ctx - Margin - Draft THEN tokens ELSE Prefix(tokens, Ctx - Margin - Draft),
                       NGen)
              /\ walker' = FreshWalker(walker)

\* \x02MORE: the answer goes on, and so does the document.
More ==
    /\ ~turn.on /\ slot[bound].hist # <<>>
    /\ Begin(bound, slot[bound].hist, <<>>, NGen)
    /\ UNCHANGED walker

\* \x02RESET
Reset ==
    /\ ~turn.on /\ slot[bound].hist # <<>> /\ turns < MaxTurns
    /\ slot' = [slot EXCEPT ![bound].hist = <<>>]
    /\ turn' = NoTurn
    /\ UNCHANGED <<bound, shadow, hidden, walker, gram, mtp, turns>>

---------------------------------------------------------------------------
Init ==
    /\ slot = [s \in Slots |-> [hist |-> <<>>, rows |-> NoRows]]
    /\ bound = 0
    /\ shadow = <<>>
    /\ hidden = Unwritten
    /\ turn = NoTurn
    /\ gram \in DOMAIN Grammars /\ mtp \in BOOLEAN
    /\ walker = [st |-> gr_state_init(G), armed |-> FALSE, on |-> gr_state_init(G).alive, text |-> <<>>]
    /\ turns = 0

Serve == \/ \E s \in Slots, tokens \in Prompts, asked \in Asks : Prompt(s, tokens, IF asked > NGen THEN NGen ELSE asked)
         \/ \E tokens \in Prompts : Line(tokens)
         \/ More
         \/ Reset

Next == Round \/ ChooseLast \/ ChooseStop \/ EndTurn \/ GrammarGivesUp \/ Serve

Spec == Init /\ [][Next]_vars

---------------------------------------------------------------------------
(* Properties                                                             *)

\* Drafts do not show: every token of an answer is one the target chooses
\* after the history and the tokens before it, whatever is drafted, rejected
\* or mirrored to the device (``LOSSLESS'', glm.c:4163 and 4223).
OutputFollowsTarget ==
    \A i \in DOMAIN turn.out : turn.out[i] \in Support(turn.base \o Prefix(turn.out, i - 1)) \ Stops

\* The history is what has been computed: the row of each of its positions is
\* that of its tokens, the device's copy has the host's rows, no row is
\* written beyond the context, and the MTP head drafts from the hidden state
\* of the last token, rejected drafts or not (lines 2505, 4307, 4318-4320).
HistoryOf(s) == IF turn.on /\ s = bound THEN turn.all ELSE slot[s].hist
CachesFollowHistory ==
    /\ \A s \in Slots :
         /\ \A i \in DOMAIN HistoryOf(s) : slot[s].rows[i] = Prefix(HistoryOf(s), i)
         /\ \A i \in Positions : i > Ctx => slot[s].rows[i] = Unwritten
    /\ \A i \in DOMAIN shadow : shadow[i] = slot[bound].rows[i]
    /\ turn.on => hidden = turn.all

\* What a client has been shown is what the next turn goes on from: the
\* history ends with the answer, all but its last token when that is the last
\* one asked for (lines 4281, 4320).
AnswerIsKept ==
    LET known == SubSeq(HistoryOf(bound), Len(turn.base) + 1, Len(HistoryOf(bound)))
    IN  /\ Prefix(HistoryOf(bound), Len(turn.base)) = turn.base
        /\ \/ known = turn.out
           \/ ~turn.on /\ Len(turn.out) = turn.cur /\ known = Front(turn.out)
=============================================================================

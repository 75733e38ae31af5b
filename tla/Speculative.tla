----------------------------- MODULE Speculative -----------------------------
(***************************************************************************)
(* Speculative decoding with the model's own MTP head, spec_mtp_generate of  *)
(* c/qwn_speculative.c, as qwnrun runs it: the head drafts a few tokens, the  *)
(* target accepts a prefix of them and corrects the first one it rejects, and *)
(* the head's state is wound back to what was kept.                           *)
(*                                                                         *)
(* A distribution is what it is a distribution after: probs is the history    *)
(* target_probs was computed for, and Sampled gives the tokens of positive    *)
(* probability there, one at temperature 0.  The draft's distribution is any.  *)
(* A draw of exactly 0, which accepts a token of probability 0, is left out.  *)
(***************************************************************************)
EXTENDS Naturals, Sequences

CONSTANTS Tokens, Eos,
          Models,               \* the weights considered
          Sampled(_, _),        \* what a model can sample after a history
          NoRow,                \* a row of zeros
          MaxCtx,               \* cfg.max_ctx: positions of every cache
          Gammas,               \* the values of speculative_draft_length
          Prompts, Limits       \* the requests considered

ASSUME SpecAssumption ==
  /\ Eos \in Tokens /\ MaxCtx \in Nat
  /\ Gammas \subseteq Nat \ {0} /\ Limits \subseteq Nat \ {0}
  \* qwnrun cuts a prompt to the context
  /\ \A p \in Prompts : p \in Seq(Tokens) /\ Len(p) \in 1..MaxCtx
  /\ \A m \in Models : \A n \in 1..MaxCtx : \A h \in [1..n -> Tokens] :
       Sampled(m, h) \subseteq Tokens

VARIABLES model, gamma,
          pc,           \* "idle", "prefill", "round", "draft", "verify", "emit", "done", "failed"
          prompt, max,
          history,      \* what the target has seen: its caches, ctx->history
          probs,        \* what target_probs was computed after
          mtp,          \* the head: its K/V rows, its position, its hidden state
          logits,       \* d->logits, shared: the head that wrote it last, after what
          snaps,        \* the checkpoints of position and hidden state
          drafts, burst,        \* draft_tokens, emitted
          out           \* what the callback got; generated is its length

specMem == <<history, probs, mtp, logits, snaps, drafts, burst>>
specVars == <<model, gamma, pc, prompt, max, specMem, out>>

FreshMtp == [rows |-> [i \in 1..MaxCtx |-> NoRow], pos |-> 0, hidden |-> <<>>]

SInit ==
  /\ model \in Models /\ gamma \in Gammas
  /\ pc = "idle" /\ prompt = <<>> /\ max = 0 /\ out = <<>>
  /\ history = <<>> /\ probs = <<>> /\ mtp = FreshMtp
  /\ logits = [head |-> "none", of |-> <<>>]
  /\ snaps = <<>> /\ drafts = <<>> /\ burst = <<>>
-----------------------------------------------------------------------------
\* A step of the head: it writes its row, its hidden state takes the token in.
\* After a prompt token it starts from the target's hidden state instead.
Chained(m, hidden, t) ==
  [rows |-> [m.rows EXCEPT ![m.pos + 1] = t], pos |-> m.pos + 1,
   hidden |-> Append(hidden, t)]

\* The target takes one token in and its distribution is kept, because the head
\* is about to write the shared logits.
Commit(t) == history' = Append(history, t) /\ probs' = Append(history, t)

HeadWrote(hidden) == logits' = [head |-> "mtp", of |-> hidden]

Room == Len(history) < MaxCtx
\* The tokens one round may draft.
Lookahead == IF gamma < max - Len(out) THEN gamma ELSE max - Len(out)
Snap(m) == [pos |-> m.pos, hidden |-> m.hidden]

\* Top-p truncation is refused; any other request resets the decoder.
Submit ==
  /\ pc \in {"idle", "done", "failed"}
  /\ prompt' \in Prompts /\ max' \in Limits /\ pc' \in {"prefill", "failed"}
  /\ history' = <<>> /\ probs' = <<>> /\ mtp' = FreshMtp
  /\ logits' = [head |-> "none", of |-> <<>>]
  /\ snaps' = <<>> /\ drafts' = <<>> /\ burst' = <<>> /\ out' = <<>>
  /\ UNCHANGED <<model, gamma>>

Prefill ==
  /\ pc = "prefill"
  /\ LET t == prompt[Len(history) + 1] IN
       /\ Commit(t) /\ mtp' = Chained(mtp, history, t) /\ HeadWrote(mtp'.hidden)
  /\ pc' = IF Len(history') = Len(prompt) THEN "round" ELSE "prefill"
  /\ UNCHANGED <<model, gamma, prompt, max, snaps, drafts, burst, out>>

\* while (generated < max_new_tokens), and the first checkpoint.
BeginRound ==
  /\ pc = "round"
  /\ IF Len(out) < max THEN pc' = "draft" /\ snaps' = <<Snap(mtp)>>
                       ELSE pc' = "done" /\ UNCHANGED snaps
  /\ drafts' = <<>>
  /\ UNCHANGED <<model, gamma, prompt, max, history, probs, mtp, logits, burst, out>>

\* The head proposes one token more and is checkpointed after it.
Draft ==
  /\ pc = "draft"
  /\ \/ /\ mtp.pos < MaxCtx
        /\ \E t \in Tokens :
             /\ drafts' = Append(drafts, t)
             /\ mtp' = Chained(mtp, mtp.hidden, t) /\ HeadWrote(mtp'.hidden)
        /\ snaps' = Append(snaps, Snap(mtp'))
        /\ pc' = IF Len(drafts') = Lookahead THEN "verify" ELSE "draft"
     \/ /\ mtp.pos >= MaxCtx /\ pc' = "failed"
        /\ UNCHANGED <<mtp, logits, snaps, drafts>>
  /\ UNCHANGED <<model, gamma, prompt, max, history, probs, burst, out>>

Accepted == Len(burst)
Verifying == pc = "verify" /\ Accepted < Len(drafts)
Proposed == drafts[Accepted + 1]

AcceptAny == TRUE       \* mutant: the draft is not compared with the target
Acceptable == Proposed \in Sampled(model, probs)

\* Accepted: the draft has positive probability, and always if it has all of it.
Accept ==
  /\ Verifying /\ Acceptable
  /\ Commit(Proposed) /\ logits' = [head |-> "target", of |-> history']
  /\ burst' = Append(burst, Proposed)
  /\ UNCHANGED <<model, gamma, pc, prompt, max, mtp, snaps, drafts, out>>

\* spec_mtp_restore: position and hidden state, not the rows.
RestoreLate(k) ==       \* mutant: the checkpoint after the rejected draft
  [mtp EXCEPT !.pos = snaps[k + 2].pos, !.hidden = snaps[k + 2].hidden]
Restore(k) == [mtp EXCEPT !.pos = snaps[k + 1].pos, !.hidden = snaps[k + 1].hidden]

\* Rejected: another token is drawn from the residual distribution, p less q.
Reject ==
  /\ Verifying
  /\ \E t \in Sampled(model, probs) \ {Proposed} :
       /\ Commit(t) /\ burst' = Append(burst, t)
       /\ LET back == Restore(Accepted) IN mtp' = Chained(back, back.hidden, t)
       /\ HeadWrote(mtp'.hidden)
  /\ pc' = "emit"
  /\ UNCHANGED <<model, gamma, prompt, max, snaps, drafts, out>>

\* Every draft was accepted: one token more from the target, if the limit allows.
BonusDue == Len(out) + Accepted < max
AllAccepted == pc = "verify" /\ Accepted = Len(drafts)
Bonus ==
  /\ AllAccepted /\ BonusDue
  /\ \/ /\ Room /\ pc' = "emit"
        /\ \E t \in Sampled(model, probs) :
             /\ Commit(t) /\ burst' = Append(burst, t)
             /\ mtp' = Chained(mtp, mtp.hidden, t) /\ HeadWrote(mtp'.hidden)
     \/ ~Room /\ pc' = "failed" /\ UNCHANGED <<history, probs, burst, mtp, logits>>
  /\ UNCHANGED <<model, gamma, prompt, max, snaps, drafts, out>>

NoBonus ==
  /\ AllAccepted /\ ~BonusDue /\ pc' = "emit"
  /\ UNCHANGED <<model, gamma, prompt, max, specMem, out>>

\* The round's tokens go to the callback, up to the end of the sequence (the
\* loop's test of the limit never decides: a round drafts no more than is left).
EmitThrough ==          \* mutant: the end of the sequence is a token like any other
  /\ pc = "emit"
  /\ out' = Append(out, Head(burst))
  /\ IF Tail(burst) = <<>> THEN pc' = "round" ELSE pc' = pc
  /\ burst' = Tail(burst)
  /\ UNCHANGED <<model, gamma, prompt, max, history, probs, mtp, logits, snaps, drafts>>
Emit ==
  /\ pc = "emit"
  /\ IF Head(burst) = Eos
     THEN pc' = "done" /\ UNCHANGED out
     ELSE /\ out' = Append(out, Head(burst))
          /\ IF Tail(burst) = <<>> THEN pc' = "round" ELSE pc' = pc
  /\ burst' = Tail(burst)
  /\ UNCHANGED <<model, gamma, prompt, max, history, probs, mtp, logits, snaps, drafts>>

SNext == Submit \/ Prefill \/ BeginRound \/ Draft \/ Accept \/ Reject \/ Bonus \/ NoBonus \/ Emit

SpecSpec == SInit /\ [][SNext]_specVars
-----------------------------------------------------------------------------
(* Every cache index a generation writes is below max_ctx, and no buffer of   *)
(* QWN_SPEC_MAX_GAMMA tokens gets more than a round's.                        *)
SpecTypeOK ==
  /\ pc \in {"idle", "prefill", "round", "draft", "verify", "emit", "done", "failed"}
  /\ history \in Seq(Tokens) /\ Len(history) <= MaxCtx
  /\ mtp.pos \in 0..MaxCtx /\ DOMAIN mtp.rows = 1..MaxCtx
  /\ Len(drafts) <= gamma /\ Len(burst) <= gamma + 1 /\ Len(snaps) <= gamma + 1
  /\ Len(out) <= max

(* Speculation changes nothing: every token a client gets is one the target   *)
(* model could have sampled right there (the argmax at temperature 0),        *)
(* whatever the head drafted (c/qwn_speculative.c:446-516).                   *)
OutputIsTargets ==
  \A i \in 1..Len(out) : out[i] \in Sampled(model, prompt \o SubSeq(out, 1, i - 1))

(* Every round starts with the head in step with the target: position, hidden *)
(* state and K/V rows are those of the committed history, the logits it is    *)
(* about to read are its own, and the kept distribution is the target's after *)
(* the same history (checkpoint and restore, c/qwn_speculative.c:374-389).    *)
DraftInStep ==
  pc = "draft" /\ drafts = <<>> =>
    /\ history = prompt \o out /\ probs = history
    /\ mtp.pos = Len(history) /\ mtp.hidden = history
    /\ \A i \in 1..Len(history) : mtp.rows[i] = history[i]
    /\ logits = [head |-> "mtp", of |-> history]

\* The generation a client sees.
Ended == IF pc \in {"idle", "done"} THEN "done" ELSE IF pc = "failed" THEN "failed" ELSE "no"
Plain == INSTANCE Decode WITH ended <- Ended

(* Speculative generation implements plain decoding: same tokens, same end.   *)
ImplementsDecode == Plain!DecodeSpec
=============================================================================

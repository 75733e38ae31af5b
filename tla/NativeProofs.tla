---------------------------- MODULE NativeProofs ----------------------------
(***************************************************************************)
(* Five sides of the native decoder.                                         *)
(*                                                                         *)
(* Speculation changes nothing, for any weights, vocabulary, context, draft   *)
(* length and request: the head's proposals never reach the output unless the *)
(* target could have sampled them there, and every round starts with the head *)
(* in step with the target.                                                  *)
(*                                                                         *)
(* Coming up, falling back and going down leaves nothing behind, and a device *)
(* that is required is used or nothing is, for any number of layers, slots    *)
(* for resident tensors and tokens.                                          *)
(*                                                                         *)
(* The paged KV store accounts for every page and implements caches that are   *)
(* contiguous, for any set of requests and any pool size, block size, number   *)
(* of layers and table capacity.                                             *)
(*                                                                         *)
(* In every layer that a generation's tokens all went through, attention reads *)
(* the rows of its earlier tokens, all of them, in order, through whatever     *)
(* packing the cache has; in a layer that an early exit skipped the caches     *)
(* that count still show no other generation's.  This for any context size,    *)
(* number of layers, thinking level and sequence of generations.               *)
(*                                                                         *)
(* A product with a quantised matrix is the product with the weights the       *)
(* converter chose, whatever kernel computes it and whatever the buffer of     *)
(* activations was used for before, for any matrices, widths and inputs.       *)
(***************************************************************************)
EXTENDS NativeDecoder, FiniteSetTheorems, SequenceTheorems, WellFoundedInduction, TLAPS

\* What the head must be after a history, and what tokens of it are justified.
Has(m, h) == /\ m.pos = Len(h) /\ m.hidden = h
             /\ \A i \in 1..Len(h) : m.rows[i] = h[i]
Legit(w, p, h) == \A i \in Len(p) + 1..Len(h) : h[i] \in Sampled(w, SubSeq(h, 1, i - 1))

HeadStates == [rows : [1..MaxCtx -> Tokens \union {NoRow}], pos : 0..MaxCtx,
          hidden : Seq(Tokens)]
Snaps == [pos : 0..MaxCtx, hidden : Seq(Tokens)]
-----------------------------------------------------------------------------
(* Sequences.                                                               *)

LEMMA PrefixOfAppend ==
  ASSUME NEW S, NEW s \in Seq(S), NEW e \in S, NEW k \in 0..Len(s)
  PROVE  SubSeq(Append(s, e), 1, k) = SubSeq(s, 1, k)
  <1>1. CASE k = 0
    BY <1>1, SubSeqEmpty
  <1>2. CASE k # 0
    <2>1. Append(s, e) = s \o <<e>> /\ <<e>> \in Seq(S)
      BY AppendIsConcat
    <2>2. 1 \in 1..Len(s) /\ k \in 1..Len(s)
      BY <1>2, LenProperties
    <2>3. QED
      BY <2>1, <2>2, SubSeqOfConcat1
  <1>3. QED
    BY <1>1, <1>2

LEMMA PrefixStep ==
  ASSUME NEW S, NEW s \in Seq(S), NEW k \in 0..Len(s) - 1
  PROVE  /\ SubSeq(s, 1, k) \in Seq(S) /\ Len(SubSeq(s, 1, k)) = k
         /\ s[k + 1] \in S
         /\ SubSeq(s, 1, k + 1) = Append(SubSeq(s, 1, k), s[k + 1])
  <1>1. Len(s) \in Nat /\ k + 1 \in 1..Len(s) /\ 1 \in 1..Len(s)
    BY LenProperties
  <1>2. s[k + 1] \in S /\ \A i \in 1..k : s[i] \in S
    BY <1>1, ElementOfSeq
  <1>3. SubSeq(s, 1, k) \in Seq(S) /\ Len(SubSeq(s, 1, k)) = k
    BY <1>2, SubSeqProperties
  <1>4. SubSeq(s, 1, k + 1) = SubSeq(s, 1, k + 1 - 1) \o <<s[k + 1]>>
    BY <1>1, SubSeqRecursiveSecond
  <1>5. QED
    BY <1>1, <1>2, <1>3, <1>4, AppendIsConcat

LEMMA AppendTokens ==
  \A s, t \in Seq(Tokens) : \A e \in Tokens : Append(s \o t, e) = s \o Append(t, e)
  <1>1. TAKE s, t \in Seq(Tokens)
  <1>2. TAKE e \in Tokens
  <1>3. s \o t \in Seq(Tokens)
    BY ConcatProperties
  <1>4. Append(s \o t, e) = (s \o t) \o <<e>> /\ Append(t, e) = t \o <<e>>
    BY <1>3, AppendIsConcat
  <1>5. (s \o t) \o <<e>> = s \o (t \o <<e>>)
    BY ConcatAssociative, <<e>> \in Seq(Tokens)
  <1>6. QED
    BY <1>4, <1>5

\* Moving the first token of the burst to the output changes nothing.
LEMMA MoveHead ==
  ASSUME NEW S, NEW s \in Seq(S), NEW b \in Seq(S), b # <<>>
  PROVE  /\ Head(b) \in S /\ Tail(b) \in Seq(S) /\ Len(Tail(b)) = Len(b) - 1
         /\ Append(s, Head(b)) \o Tail(b) = s \o b
  <1>1. Head(b) \in S /\ Tail(b) \in Seq(S) /\ Len(Tail(b)) = Len(b) - 1
    BY HeadTailProperties
  <1>2. Len(b) \in Nat \ {0} /\ b[1] = Head(b)
    BY EmptySeq, <1>1
  <1>3. Tail(b) = SubSeq(b, 2, Len(b))
    BY TailIsSubSeq
  <1>4. b = <<Head(b)>> \o Tail(b)
    <2>1. SubSeq(b, 1, Len(b)) = <<b[1]>> \o SubSeq(b, 1 + 1, Len(b))
      BY <1>2, SubSeqRecursiveFirst
    <2>2. SubSeq(b, 1, Len(b)) = b
      BY SubSeqFull
    <2>3. QED
      BY <1>2, <1>3, <2>1, <2>2
  <1>5. (s \o <<Head(b)>>) \o Tail(b) = s \o (<<Head(b)>> \o Tail(b))
    BY <1>1, ConcatAssociative, <<Head(b)>> \in Seq(S)
  <1>6. QED
    BY <1>1, <1>4, <1>5, AppendIsConcat
-----------------------------------------------------------------------------
(* The head, the tokens.                                                     *)

LEMMA ChainHas ==
  ASSUME NEW m \in HeadStates, NEW h \in Seq(Tokens), NEW t \in Tokens,
         Has(m, h), Len(h) < MaxCtx
  PROVE  /\ Has(Chained(m, h, t), Append(h, t)) /\ Chained(m, h, t) \in HeadStates
         /\ Chained(m, h, t).hidden = Append(h, t)
  <1>1. MaxCtx \in Nat /\ Len(h) \in Nat
    BY SpecAssumption, LenProperties
  <1>2. /\ Append(h, t) \in Seq(Tokens) /\ Len(Append(h, t)) = Len(h) + 1
        /\ \A i \in 1..Len(h) : Append(h, t)[i] = h[i]
        /\ Append(h, t)[Len(h) + 1] = t
    BY AppendProperties
  <1>3. Len(h) + 1 \in 1..MaxCtx /\ m.pos = Len(h)
    BY <1>1 DEF Has
  <1>4. QED
    BY <1>1, <1>2, <1>3 DEF Has, Chained, HeadStates

LEMMA LegitAppend ==
  ASSUME NEW w, NEW p \in Seq(Tokens), NEW h \in Seq(Tokens), NEW t \in Tokens,
         Legit(w, p, h), t \in Sampled(w, h)
  PROVE  Legit(w, p, Append(h, t))
  <1> SUFFICES ASSUME NEW i \in Len(p) + 1..Len(Append(h, t))
               PROVE  Append(h, t)[i] \in Sampled(w, SubSeq(Append(h, t), 1, i - 1))
    BY DEF Legit
  <1>1. Len(p) \in Nat /\ Len(h) \in Nat
    BY LenProperties
  <1>2. /\ Len(Append(h, t)) = Len(h) + 1 /\ Append(h, t)[Len(h) + 1] = t
        /\ \A j \in 1..Len(h) : Append(h, t)[j] = h[j]
    BY AppendProperties
  <1>3. i - 1 \in 0..Len(h)
    BY <1>1, <1>2
  <1>4. SubSeq(Append(h, t), 1, i - 1) = SubSeq(h, 1, i - 1)
    BY <1>3, PrefixOfAppend
  <1>5. CASE i = Len(h) + 1
    <2>1. SubSeq(h, 1, i - 1) = h
      BY <1>1, <1>5, SubSeqFull
    <2>2. QED
      BY <1>2, <1>4, <1>5, <2>1
  <1>6. CASE i # Len(h) + 1
    <2>1. i \in Len(p) + 1..Len(h) /\ i \in 1..Len(h)
      BY <1>1, <1>2, <1>6
    <2>2. QED
      BY <1>2, <1>4, <2>1 DEF Legit
  <1>7. QED
    BY <1>5, <1>6

\* The first token after s is justified if all of them are.
LEMMA LegitHead ==
  ASSUME NEW w, NEW p \in Seq(Tokens), NEW o \in Seq(Tokens), NEW b \in Seq(Tokens),
         b # <<>>, Legit(w, p, (p \o o) \o b)
  PROVE  Head(b) \in Sampled(w, p \o o)
  <1> DEFINE s == p \o o
             n == Len(s) + 1
  <1>1. s \in Seq(Tokens) /\ Len(s) = Len(p) + Len(o)
    BY ConcatProperties
  <1>2. Len(p) \in Nat /\ Len(o) \in Nat /\ Len(b) \in Nat \ {0} /\ Len(s) \in Nat /\ b[1] = Head(b)
    BY <1>1, LenProperties, EmptySeq, HeadTailProperties
  <1>3. /\ Len(s \o b) = Len(s) + Len(b)
        /\ \A i \in 1..Len(s) + Len(b) : (s \o b)[i] = IF i <= Len(s) THEN s[i] ELSE b[i - Len(s)]
    BY <1>1, ConcatProperties
  <1>4. (s \o b)[n] = Head(b)
    <2> HIDE DEF s
    <2>1. n \in 1..Len(s) + Len(b) /\ ~(n <= Len(s)) /\ n - Len(s) = 1
      BY <1>2
    <2>2. QED
      BY <1>2, <1>3, <2>1
  <1>5. SubSeq(s \o b, 1, n - 1) = s
    <2>1. CASE Len(s) = 0
      <3>1. s = <<>> /\ SubSeq(s \o b, 1, 0) = <<>> /\ n - 1 = 0
        BY <2>1, <1>1, EmptySeq, SubSeqEmpty
      <3>2. QED
        BY <3>1
    <2>2. CASE Len(s) # 0
      <3> HIDE DEF s
      <3>1. 1 \in 1..Len(s) /\ Len(s) \in 1..Len(s) /\ n - 1 = Len(s)
        BY <1>2, <2>2
      <3>2. SubSeq(s \o b, 1, Len(s)) = SubSeq(s, 1, Len(s))
        BY <1>1, <3>1, SubSeqOfConcat1
      <3>3. QED
        BY <1>1, <3>1, <3>2, SubSeqFull
    <2>3. QED
      BY <2>1, <2>2
  <1>6. n \in Len(p) + 1..Len(s \o b)
    <2> HIDE DEF s
    <2>1. QED
      BY <1>1, <1>2, <1>3
  <1>7. QED
    BY <1>4, <1>5, <1>6 DEF Legit
-----------------------------------------------------------------------------
(* The inductive invariant.  Base is what a client has and the prompt before  *)
(* it; the history is Base and the burst still to be emitted.                 *)

Base == prompt \o out
InStep(h) == Has(mtp, h) /\ logits = [head |-> "mtp", of |-> h]
SnapsTaken ==
  /\ Len(snaps) = Len(drafts) + 1
  /\ \A k \in 0..Len(drafts) :
       snaps[k + 1] = [pos |-> Len(Base) + k, hidden |-> Base \o SubSeq(drafts, 1, k)]

Typed ==
  /\ pc \in {"idle", "prefill", "round", "draft", "verify", "emit", "done", "failed"}
  /\ model \in Models /\ gamma \in Nat \ {0} /\ max \in Nat
  /\ prompt \in Seq(Tokens) /\ history \in Seq(Tokens) /\ Len(history) <= MaxCtx
  /\ drafts \in Seq(Tokens) /\ burst \in Seq(Tokens) /\ out \in Seq(Tokens)
  /\ mtp \in HeadStates /\ snaps \in Seq(Snaps)
Bounded == /\ Len(drafts) <= gamma /\ Len(burst) <= gamma + 1 /\ Len(snaps) <= gamma + 1
           /\ Len(out) <= max

InPrefill ==
  pc = "prefill" =>
    /\ Len(history) < Len(prompt) /\ Len(prompt) <= MaxCtx
    /\ history = SubSeq(prompt, 1, Len(history))
    /\ out = <<>> /\ burst = <<>> /\ drafts = <<>> /\ max # 0 /\ Has(mtp, history)
Committed ==
  pc \in {"round", "draft", "verify", "emit"} =>
    /\ prompt # <<>> /\ history = Base \o burst /\ probs = history
    /\ Legit(model, prompt, history)
InRound == pc = "round" => burst = <<>> /\ (Len(out) < max => InStep(history))
InDraft == pc = "draft" =>
             /\ burst = <<>> /\ Len(drafts) < Lookahead /\ InStep(Base \o drafts)
             /\ SnapsTaken
InVerify == pc = "verify" =>
              /\ Len(drafts) = Lookahead /\ Len(out) < max
              /\ Len(burst) <= Len(drafts) /\ burst = SubSeq(drafts, 1, Len(burst))
              /\ Has(mtp, Base \o drafts) /\ SnapsTaken
InEmit == pc = "emit" =>
            /\ burst # <<>> /\ Len(out) + Len(burst) <= max
            /\ Len(out) + Len(burst) < max => InStep(history)

SpecInv == /\ Typed /\ Bounded /\ InPrefill /\ Committed
           /\ InRound /\ InDraft /\ InVerify /\ InEmit /\ OutputIsTargets
-----------------------------------------------------------------------------
(* One lemma per action.                                                     *)

LEMMA Parameters ==
  /\ MaxCtx \in Nat /\ Eos \in Tokens
  /\ Gammas \subseteq Nat \ {0} /\ Limits \subseteq Nat \ {0}
  /\ \A p \in Prompts : p \in Seq(Tokens) /\ Len(p) \in 1..MaxCtx
  BY SpecAssumption

LEMMA FreshIsHead == FreshMtp \in HeadStates /\ Has(FreshMtp, <<>>)
  <1>1. MaxCtx \in Nat
    BY Parameters
  <1>2. QED
    BY <1>1 DEF FreshMtp, HeadStates, Has

LEMMA SampledToken ==
  ASSUME Typed, history # <<>>
  PROVE  Sampled(model, history) \subseteq Tokens
  <1>1. history \in [1..Len(history) -> Tokens] /\ Len(history) \in 1..MaxCtx
    BY EmptySeq, LenProperties, Parameters DEF Typed
  <1>2. QED
    BY <1>1, SpecAssumption DEF Typed

LEMMA StartInv == SInit => SpecInv
  <1> SUFFICES ASSUME SInit PROVE SpecInv
    OBVIOUS
  <1>1. <<>> \in Seq(Tokens) /\ <<>> \in Seq(Snaps) /\ Len(<<>>) = 0
    BY EmptySeq
  <1>2. Typed
    BY <1>1, Parameters, FreshIsHead DEF SInit, Typed
  <1>3. Bounded /\ OutputIsTargets
    BY Parameters DEF SInit, Bounded, OutputIsTargets
  <1>4. QED
    BY <1>2, <1>3 DEF SInit, SpecInv, InPrefill, Committed, InRound, InDraft, InVerify, InEmit

LEMMA SubmitInv == SpecInv /\ Submit => SpecInv'
  <1> SUFFICES ASSUME SpecInv, Submit PROVE SpecInv'
    OBVIOUS
  <1>1. <<>> \in Seq(Tokens) /\ <<>> \in Seq(Snaps) /\ Len(<<>>) = 0
    BY EmptySeq
  <1>2. prompt' \in Seq(Tokens) /\ Len(prompt') \in 1..MaxCtx /\ max' \in Nat \ {0}
    BY Parameters DEF Submit
  <1>3. Typed'
    BY <1>1, <1>2, Parameters, FreshIsHead DEF SpecInv, Submit, Typed
  <1>4. Bounded' /\ OutputIsTargets'
    BY <1>2, <1>1 DEF SpecInv, Typed, Submit, Bounded, OutputIsTargets
  <1>5. InPrefill'
    <2>1. SubSeq(prompt', 1, 0) = <<>>
      BY SubSeqEmpty
    <2>2. Has(mtp, history)'
      BY FreshIsHead DEF Submit, Has
    <2>3. QED
      BY <1>1, <1>2, <2>1, <2>2 DEF Submit, InPrefill
  <1>6. QED
    BY <1>3, <1>4, <1>5 DEF Submit, SpecInv, Committed, InRound, InDraft, InVerify, InEmit

LEMMA PrefillInv == SpecInv /\ Prefill => SpecInv'
  <1> SUFFICES ASSUME SpecInv, Prefill PROVE SpecInv'
    OBVIOUS
  <1> DEFINE t == prompt[Len(history) + 1]
             n == Len(history)
  <1>1. /\ history \in Seq(Tokens) /\ prompt \in Seq(Tokens) /\ mtp \in HeadStates
        /\ n < Len(prompt) /\ Len(prompt) <= MaxCtx /\ history = SubSeq(prompt, 1, n)
        /\ Has(mtp, history) /\ out = <<>> /\ burst = <<>> /\ drafts = <<>> /\ max # 0
    BY DEF SpecInv, Typed, InPrefill, Prefill
  <1>2. n \in 0..Len(prompt) - 1 /\ Len(prompt) \in Nat /\ n < MaxCtx
    BY <1>1, LenProperties, Parameters
  <1>3. t \in Tokens /\ SubSeq(prompt, 1, n + 1) = Append(SubSeq(prompt, 1, n), t)
    BY <1>1, <1>2, PrefixStep
  <1>4. /\ history' = Append(history, t) /\ probs' = history' /\ mtp' = Chained(mtp, history, t)
        /\ logits' = [head |-> "mtp", of |-> mtp'.hidden]
        /\ pc' = IF Len(history') = Len(prompt) THEN "round" ELSE "prefill"
        /\ UNCHANGED <<model, gamma, prompt, max, snaps, drafts, burst, out>>
    BY DEF Prefill, Commit, HeadWrote
  <1>5. history' \in Seq(Tokens) /\ Len(history') = n + 1
    BY <1>1, <1>3, <1>4, AppendProperties
  <1>6. /\ Has(mtp, history)' /\ mtp' \in HeadStates /\ mtp'.hidden = history'
    <2>1. /\ Has(Chained(mtp, history, t), Append(history, t))
          /\ Chained(mtp, history, t) \in HeadStates
          /\ Chained(mtp, history, t).hidden = Append(history, t)
      BY <1>1, <1>2, <1>3, ChainHas
    <2>2. QED
      BY <2>1, <1>4 DEF Has
  <1>7. Typed'
    BY <1>2, <1>4, <1>5, <1>6, Parameters DEF SpecInv, Typed
  <1>8. Bounded' /\ OutputIsTargets'
    BY <1>4 DEF SpecInv, Bounded, OutputIsTargets
  <1>9. InPrefill'
    BY <1>1, <1>2, <1>3, <1>4, <1>5, <1>6 DEF InPrefill
  <1>10. Committed'
    <2> SUFFICES ASSUME pc' = "round" PROVE Committed'
      BY <1>4 DEF Committed
    <2>1. n + 1 = Len(prompt)
      BY <1>4, <1>5
    <2>2. history' = prompt
      BY <1>1, <1>3, <1>4, <2>1, SubSeqFull
    <2>3. prompt # <<>>
      BY <1>2, <2>1, EmptySeq
    <2>4. (prompt \o out) \o burst = prompt
      BY <1>1, ConcatEmptySeq
    <2>5. Legit(model', prompt', history')
      BY <1>2, <1>4, <2>2 DEF Legit
    <2>6. QED
      BY <1>4, <2>2, <2>3, <2>4, <2>5 DEF Committed, Base
  <1>11. InRound'
    BY <1>1, <1>4, <1>6 DEF InRound, InStep
  <1>12. QED
    BY <1>4, <1>7, <1>8, <1>9, <1>10, <1>11 DEF SpecInv, InDraft, InVerify, InEmit

LEMMA BeginRoundInv == SpecInv /\ BeginRound => SpecInv'
  <1> SUFFICES ASSUME SpecInv, BeginRound PROVE SpecInv'
    OBVIOUS
  <1>1. /\ pc = "round" /\ drafts' = <<>> /\ burst = <<>>
        /\ prompt \in Seq(Tokens) /\ out \in Seq(Tokens) /\ history \in Seq(Tokens)
        /\ mtp \in HeadStates /\ gamma \in Nat \ {0} /\ max \in Nat
        /\ UNCHANGED <<model, gamma, prompt, max, history, probs, mtp, logits, burst, out>>
    BY DEF SpecInv, Typed, InRound, BeginRound
  <1>2. Base \in Seq(Tokens) /\ history = Base /\ Base' = Base
    <2>1. Base \in Seq(Tokens)
      BY <1>1, ConcatProperties DEF Base
    <2>2. Base \o <<>> = Base
      BY <2>1, ConcatEmptySeq
    <2>3. QED
      BY <1>1, <2>1, <2>2 DEF Base, SpecInv, Committed
  <1>3. /\ <<>> \in Seq(Tokens) /\ Len(<<>>) = 0 /\ Snap(mtp) \in Snaps
        /\ <<Snap(mtp)>> \in Seq(Snaps) /\ Len(<<Snap(mtp)>>) = 1
        /\ <<Snap(mtp)>>[1] = Snap(mtp) /\ Len(out) \in Nat
    BY <1>1, EmptySeq, LenProperties DEF Snap, Snaps, HeadStates
  <1>4. Typed' /\ Bounded' /\ OutputIsTargets' /\ Committed'
    <2>1. Typed'
      BY <1>1, <1>3 DEF SpecInv, Typed, BeginRound
    <2>2. Bounded'
      <3>1. Len(snaps') <= gamma + 1
        <4>1. snaps' = snaps \/ snaps' = <<Snap(mtp)>>
          BY DEF BeginRound
        <4>2. Len(snaps) <= gamma + 1
          BY DEF SpecInv, Bounded
        <4>3. Len(snaps') = Len(snaps) \/ Len(snaps') = 1
          BY <1>3, <4>1
        <4>4. 1 <= gamma + 1
          BY <1>1
        <4>5. QED
          BY <4>2, <4>3, <4>4
      <3>2. QED
        BY <1>1, <1>3, <3>1 DEF SpecInv, Bounded
    <2>3. OutputIsTargets'
      BY <1>1 DEF SpecInv, OutputIsTargets
    <2>4. Committed'
      BY <1>1, <1>2 DEF SpecInv, Committed
    <2>5. QED
      BY <2>1, <2>2, <2>3, <2>4
  <1>5. InDraft'
    <2> SUFFICES ASSUME pc' = "draft" PROVE InDraft'
      BY DEF InDraft
    <2>1. Len(out) < max /\ snaps' = <<Snap(mtp)>>
      BY DEF BeginRound
    <2>2. InStep(history)
      BY <1>1, <2>1 DEF SpecInv, InRound
    <2>3. Lookahead' = Lookahead /\ 0 < Lookahead
      BY <1>1, <1>3, <2>1 DEF Lookahead
    <2>4. Base \o <<>> = Base /\ SubSeq(<<>>, 1, 0) = <<>>
      BY <1>2, ConcatEmptySeq, SubSeqEmpty
    <2>5. Snap(mtp) = [pos |-> Len(Base) + 0, hidden |-> Base]
      <3>1. Len(Base) \in Nat /\ mtp.pos = Len(Base) /\ mtp.hidden = Base
        BY <1>2, <2>2, LenProperties DEF InStep, Has
      <3>2. QED
        BY <3>1 DEF Snap
    <2>6. SnapsTaken'
      <3>1. Len(snaps') = 1 /\ snaps'[1] = Snap(mtp) /\ Len(drafts') = 0
        BY <1>1, <1>3, <2>1
      <3>2. SubSeq(drafts', 1, 0) = <<>>
        BY <1>1, <2>4
      <3>3. snaps'[0 + 1] = [pos |-> Len(Base') + 0, hidden |-> Base' \o SubSeq(drafts', 1, 0)]
        BY <1>2, <2>4, <2>5, <3>1, <3>2
      <3>4. \A k \in 0..Len(drafts') : k = 0
        BY <3>1
      <3>5. QED
        BY <3>1, <3>3, <3>4 DEF SnapsTaken
    <2>7. InStep(Base \o drafts)'
      BY <1>1, <1>2, <2>2, <2>4 DEF InStep, Has
    <2>8. QED
      BY <1>1, <1>3, <2>3, <2>6, <2>7 DEF InDraft
  <1>6. QED
    BY <1>4, <1>5 DEF SpecInv, BeginRound, InPrefill, InRound, InVerify, InEmit

\* What the rest of a round starts from.
LEMMA Ready ==
  ASSUME SpecInv
  PROVE  /\ prompt \in Seq(Tokens) /\ out \in Seq(Tokens) /\ history \in Seq(Tokens)
         /\ drafts \in Seq(Tokens) /\ burst \in Seq(Tokens) /\ mtp \in HeadStates
         /\ snaps \in Seq(Snaps) /\ gamma \in Nat \ {0} /\ max \in Nat
         /\ Base \in Seq(Tokens) /\ Len(Base) = Len(prompt) + Len(out)
         /\ Len(prompt) \in Nat /\ Len(out) \in Nat /\ Len(history) \in Nat
         /\ Len(drafts) \in Nat /\ Len(burst) \in Nat /\ Len(Base) \in Nat
         /\ Base \o drafts \in Seq(Tokens)
         /\ Len(Base \o drafts) = Len(Base) + Len(drafts)
         /\ Len(Base \o burst) = Len(Base) + Len(burst)
  <1>1. /\ prompt \in Seq(Tokens) /\ out \in Seq(Tokens) /\ history \in Seq(Tokens)
        /\ drafts \in Seq(Tokens) /\ burst \in Seq(Tokens) /\ mtp \in HeadStates
        /\ snaps \in Seq(Snaps) /\ gamma \in Nat \ {0} /\ max \in Nat
    BY DEF SpecInv, Typed
  <1>2. Base \in Seq(Tokens) /\ Len(Base) = Len(prompt) + Len(out)
    BY <1>1, ConcatProperties DEF Base
  <1>3. /\ Base \o drafts \in Seq(Tokens) /\ Len(Base \o drafts) = Len(Base) + Len(drafts)
        /\ Len(Base \o burst) = Len(Base) + Len(burst)
    BY <1>1, <1>2, ConcatProperties
  <1>4. QED
    BY <1>1, <1>2, <1>3, LenProperties

LEMMA DraftInv == SpecInv /\ Draft => SpecInv'
  <1> SUFFICES ASSUME SpecInv, Draft PROVE SpecInv'
    OBVIOUS
  <1> DEFINE h == Base \o drafts
             n == Len(drafts)
  <1>1. pc = "draft" /\ UNCHANGED <<model, gamma, prompt, max, history, probs, burst, out>>
    BY DEF Draft
  <1>2. burst = <<>> /\ n < Lookahead /\ InStep(h) /\ SnapsTaken
    BY <1>1 DEF SpecInv, InDraft
  <1>3. /\ Base' = Base /\ Lookahead' = Lookahead /\ Len(out) < max
        /\ Lookahead <= gamma /\ Lookahead \in Nat /\ n \in Nat
    BY <1>1, <1>2, Ready DEF Base, Lookahead
  <1>4. OutputIsTargets'
    BY <1>1 DEF SpecInv, OutputIsTargets
  <1>5. ASSUME pc' \in {"draft", "verify", "failed"} PROVE Committed'
    BY <1>1, <1>3, <1>5 DEF SpecInv, Committed
  <1>6. CASE pc' = "failed" /\ UNCHANGED <<mtp, logits, snaps, drafts>>
    <2>1. Typed' /\ Bounded'
      BY <1>1, <1>6 DEF SpecInv, Typed, Bounded
    <2>2. QED
      BY <1>4, <1>5, <1>6, <2>1
         DEF SpecInv, InPrefill, InRound, InDraft, InVerify, InEmit
  <1>7. ASSUME mtp.pos < MaxCtx, NEW t \in Tokens, drafts' = Append(drafts, t),
               mtp' = Chained(mtp, mtp.hidden, t), HeadWrote(mtp'.hidden),
               snaps' = Append(snaps, Snap(mtp')),
               pc' = IF Len(drafts') = Lookahead THEN "verify" ELSE "draft"
        PROVE  SpecInv'
    <2>1. Has(mtp, h) /\ mtp.hidden = h /\ Len(h) < MaxCtx
      BY <1>2, <1>7 DEF InStep, Has
    <2>2. drafts' \in Seq(Tokens) /\ Len(drafts') = n + 1 /\ Base \o drafts' = Append(h, t)
      <3>1. drafts' \in Seq(Tokens) /\ Len(drafts') = n + 1
        BY <1>7, Ready, AppendProperties
      <3>2. Base \o Append(drafts, t) = Append(h, t)
        BY Ready, AppendTokens
      <3>3. QED
        BY <1>7, <3>1, <3>2
    <2>3. /\ Has(mtp, Base \o drafts)' /\ mtp' \in HeadStates
          /\ mtp'.hidden = Base \o drafts' /\ mtp'.pos = Len(Base) + n + 1
      <3>1. /\ Has(Chained(mtp, h, t), Append(h, t)) /\ Chained(mtp, h, t) \in HeadStates
            /\ Chained(mtp, h, t).hidden = Append(h, t)
        BY <2>1, Ready, ChainHas
      <3>2. Len(Append(h, t)) = Len(Base) + n + 1
        BY Ready, AppendProperties
      <3>3. QED
        BY <1>3, <1>7, <2>1, <2>2, <3>1, <3>2 DEF Has
    <2>4. snaps' \in Seq(Snaps) /\ Len(snaps') = n + 2
      <3>1. Snap(mtp') \in Snaps
        BY <2>3 DEF Snap, Snaps, HeadStates
      <3>2. Len(snaps) = n + 1
        BY <1>2 DEF SnapsTaken
      <3>3. snaps' \in Seq(Snaps) /\ Len(snaps') = Len(snaps) + 1
        BY <1>7, <3>1, Ready, AppendProperties
      <3>4. QED
        BY <3>2, <3>3, Ready
    <2>5. Typed'
      BY <1>1, <1>7, <2>2, <2>3, <2>4 DEF SpecInv, Typed
    <2>6. Bounded'
      <3>1. n + 1 <= gamma /\ Len(burst) <= gamma + 1 /\ Len(out) <= max
        <4>1. n + 1 <= gamma
          BY <1>2, <1>3, Ready
        <4>2. QED
          BY <4>1 DEF SpecInv, Bounded
      <3>2. n + 2 <= gamma + 1
        BY <3>1, Ready
      <3>3. QED
        BY <1>1, <2>2, <2>4, <3>1, <3>2 DEF Bounded
    <2>7. SnapsTaken'
      <3> DEFINE At(k) == snaps'[k + 1] = [pos |-> Len(Base) + k,
                                           hidden |-> Base \o SubSeq(drafts', 1, k)]
      <3>1. At(n + 1)
        <4> DEFINE k == n + 1
        <4>1. SubSeq(drafts', 1, k) = drafts'
          BY <2>2, SubSeqFull
        <4>2. snaps'[k + 1] = Snap(mtp')
          BY SMTT(30), <1>2, <1>7, Ready, AppendProperties, <2>3 DEF SnapsTaken, Snap, Snaps, HeadStates
        <4>3. Snap(mtp') = [pos |-> Len(Base) + k, hidden |-> Base \o drafts']
          <5>1. mtp'.pos = Len(Base) + k
            BY <1>3, <2>3, Ready
          <5>2. QED
            BY <2>3, <5>1 DEF Snap
        <4>4. QED
          BY <4>1, <4>2, <4>3
      <3>2. ASSUME NEW k \in 0..n PROVE At(k)
        <4>1. k \in 0..n /\ k + 1 \in 1..n + 1
          BY <1>3
        <4>2. SubSeq(drafts', 1, k) = SubSeq(drafts, 1, k)
          BY <1>7, <4>1, Ready, PrefixOfAppend
        <4>3. snaps'[k + 1] = snaps[k + 1]
          <5>1. Snap(mtp') \in Snaps /\ Len(snaps) = n + 1
            BY <1>2, <2>3 DEF SnapsTaken, Snap, Snaps, HeadStates
          <5>2. QED
            BY <1>7, <4>1, <5>1, Ready, AppendProperties
        <4>4. QED
          BY <1>2, <4>1, <4>2, <4>3 DEF SnapsTaken
      <3>3. \A k \in 0..n + 1 : At(k)
        <4> HIDE DEF At
        <4>1. \A k \in 0..n + 1 : k = n + 1 \/ k \in 0..n
          BY <1>3
        <4>2. QED
          BY <3>1, <3>2, <4>1
      <3>4. Len(drafts') = n + 1 /\ Len(snaps') = Len(drafts') + 1
        BY <1>3, <2>2, <2>4
      <3>5. QED
        BY <1>3, <3>3, <3>4 DEF SnapsTaken
    <2>8. InDraft'
      <3> SUFFICES ASSUME pc' = "draft" PROVE InDraft'
        BY DEF InDraft
      <3>1. n + 1 < Lookahead
        BY <1>2, <1>3, <1>7, <2>2, Ready DEF Lookahead
      <3>2. InStep(Base \o drafts)'
        BY <1>3, <1>7, <2>3 DEF InStep, HeadWrote, Has
      <3>3. QED
        BY <1>1, <1>2, <1>3, <2>2, <2>7, <3>1, <3>2 DEF InDraft
    <2>9. InVerify'
      <3> SUFFICES ASSUME pc' = "verify" PROVE InVerify'
        BY DEF InVerify
      <3>1. Len(drafts') = Lookahead
        BY <1>7
      <3>2. Len(burst') = 0 /\ burst' = <<>> /\ SubSeq(drafts', 1, 0) = <<>>
        BY <1>1, <1>2, EmptySeq, SubSeqEmpty
      <3>3. Len(out') < max' /\ 0 <= Len(drafts')
        BY <1>1, <1>3, <2>2, Ready
      <3>4. QED
        BY <1>3, <2>3, <2>7, <3>1, <3>2, <3>3 DEF InVerify
    <2>10. QED
      BY <1>4, <1>5, <1>7, <2>5, <2>6, <2>8, <2>9 DEF SpecInv, InPrefill, InRound, InEmit
  <1>8. QED
    BY <1>6, <1>7 DEF Draft

\* While a round is verified: the token about to be looked at is the target's next.
LEMMA InVerification ==
  ASSUME SpecInv, pc = "verify"
  PROVE  /\ history = Base \o burst /\ probs = history /\ Legit(model, prompt, history)
         /\ prompt # <<>> /\ history # <<>> /\ Len(history) = Len(Base) + Len(burst)
         /\ Len(drafts) = Lookahead /\ Lookahead <= gamma /\ Lookahead > 0
         /\ Lookahead <= max - Len(out) /\ Len(out) < max
         /\ Len(burst) <= Len(drafts) /\ burst = SubSeq(drafts, 1, Len(burst))
         /\ Has(mtp, Base \o drafts) /\ SnapsTaken
         /\ Len(Base) + Len(drafts) <= MaxCtx
  <1>1. /\ history = Base \o burst /\ probs = history /\ Legit(model, prompt, history)
        /\ prompt # <<>>
    BY DEF SpecInv, Committed
  <1>2. /\ Len(drafts) = Lookahead /\ Len(out) < max
        /\ Len(burst) <= Len(drafts) /\ burst = SubSeq(drafts, 1, Len(burst))
        /\ Has(mtp, Base \o drafts) /\ SnapsTaken
    BY DEF SpecInv, InVerify
  <1>3. Lookahead <= gamma /\ Lookahead > 0 /\ Lookahead <= max - Len(out)
    BY <1>2, Ready DEF Lookahead
  <1>4. Len(prompt) > 0 /\ Len(history) = Len(Base) + Len(burst)
    BY <1>1, Ready, EmptySeq
  <1>5. history # <<>>
    BY <1>4, Ready, EmptySeq
  <1>6. Len(Base) + Len(drafts) <= MaxCtx
    BY <1>2, Ready, Parameters DEF Has, HeadStates
  <1>7. QED
    BY <1>1, <1>2, <1>3, <1>4, <1>5, <1>6

\* A token the target could have sampled, committed.
LEMMA CommitStep ==
  ASSUME SpecInv, pc = "verify", NEW t \in Sampled(model, probs), Len(history) < MaxCtx,
         Commit(t), burst' = Append(burst, t), UNCHANGED <<model, prompt, out>>
  PROVE  /\ t \in Tokens /\ history' = Append(history, t)
         /\ history' \in Seq(Tokens) /\ Len(history') <= MaxCtx
         /\ burst' \in Seq(Tokens) /\ Len(burst') = Len(burst) + 1 /\ burst' # <<>>
         /\ Base' = Base /\ Committed' /\ OutputIsTargets'
  <1>1. probs = history /\ t \in Tokens
    BY SampledToken, InVerification DEF SpecInv
  <1>2. history' = Append(history, t) /\ probs' = history'
    BY DEF Commit
  <1>3. history' \in Seq(Tokens) /\ Len(history') = Len(history) + 1
    BY <1>1, <1>2, Ready, AppendProperties
  <1>4. Len(history') <= MaxCtx
    BY <1>3, Ready, Parameters
  <1>5. burst' \in Seq(Tokens) /\ Len(burst') = Len(burst) + 1
    BY <1>1, Ready, AppendProperties
  <1>6. burst' # <<>>
    BY <1>5, Ready, EmptySeq
  <1>7. Base' = Base /\ OutputIsTargets'
    BY DEF SpecInv, OutputIsTargets, Base
  <1>8. history' = Base \o burst'
    <2>1. Base \in Seq(Tokens) /\ burst \in Seq(Tokens) /\ t \in Tokens
      BY <1>1, Ready
    <2>2. Append(Base \o burst, t) = Base \o Append(burst, t)
      BY <2>1, AppendTokens
    <2>3. QED
      BY <1>2, <2>2, InVerification
  <1>9. Legit(model, prompt, history')
    <2>1. /\ prompt \in Seq(Tokens) /\ history \in Seq(Tokens) /\ t \in Tokens
          /\ Legit(model, prompt, history) /\ t \in Sampled(model, history)
      BY <1>1, Ready, InVerification
    <2>2. QED
      BY <1>2, <2>1, LegitAppend
  <1>10. Committed'
    <2>1. prompt # <<>>
      BY InVerification
    <2>2. Legit(model', prompt', history')
      BY <1>9
    <2>3. QED
      BY <1>2, <1>7, <1>8, <2>1, <2>2 DEF Committed, Legit
  <1>11. QED
    BY <1>1, <1>2, <1>3, <1>4, <1>5, <1>6, <1>7, <1>10

LEMMA AcceptInv == SpecInv /\ Accept => SpecInv'
  <1> SUFFICES ASSUME SpecInv, Accept PROVE SpecInv'
    OBVIOUS
  <1> DEFINE k == Len(burst)
  <1>1. /\ pc = "verify" /\ k < Len(drafts) /\ Proposed \in Sampled(model, probs)
        /\ Commit(Proposed) /\ burst' = Append(burst, Proposed)
        /\ UNCHANGED <<model, gamma, pc, prompt, max, mtp, snaps, drafts, out>>
    BY DEF Accept, Verifying, Accepted, Acceptable
  <1>2. /\ Len(history) = Len(Base) + k /\ Len(drafts) = Lookahead /\ Lookahead <= gamma
        /\ Len(Base) + Len(drafts) <= MaxCtx /\ burst = SubSeq(drafts, 1, k)
        /\ Has(mtp, Base \o drafts) /\ SnapsTaken /\ Len(out) < max
    BY <1>1, InVerification
  <1>3. Len(history) < MaxCtx /\ k \in 0..Len(drafts) - 1
    BY <1>1, <1>2, Ready, Parameters
  <1>4. /\ history' \in Seq(Tokens) /\ Len(history') <= MaxCtx
        /\ burst' \in Seq(Tokens) /\ Len(burst') = k + 1
        /\ Base' = Base /\ Committed' /\ OutputIsTargets'
    BY <1>1, <1>3, CommitStep
  <1>5. burst' = SubSeq(drafts, 1, k + 1)
    BY <1>1, <1>2, <1>3, Ready, PrefixStep DEF Proposed, Accepted
  <1>6. Typed'
    BY <1>1, <1>4 DEF SpecInv, Typed
  <1>7. Bounded'
    <2>1. k + 1 <= gamma + 1
      BY SMTT(30), <1>1, <1>2, <1>3, Ready DEF SpecInv, Bounded
    <2>2. QED
      BY <1>1, <1>4, <2>1 DEF SpecInv, Bounded
  <1>8. InVerify'
    <2>1. Lookahead' = Lookahead /\ k + 1 <= Len(drafts)
      BY <1>1, <1>3 DEF Lookahead
    <2>2. Has(mtp, Base \o drafts)' /\ SnapsTaken'
      BY <1>1, <1>2, <1>4 DEF Has, SnapsTaken
    <2>3. QED
      BY <1>1, <1>2, <1>4, <1>5, <2>1, <2>2 DEF InVerify
  <1>9. QED
    BY <1>1, <1>4, <1>6, <1>7, <1>8 DEF SpecInv, InPrefill, InRound, InDraft, InEmit

\* The rows below the checkpoint are still those of the accepted prefix.
LEMMA RestoreHas ==
  ASSUME SpecInv, pc = "verify"
  PROVE  Restore(Accepted) \in HeadStates /\ Has(Restore(Accepted), history)
  <1> DEFINE k == Len(burst)
  <1>1. /\ history = Base \o burst /\ Len(history) = Len(Base) + k
        /\ k \in 0..Len(drafts) /\ burst = SubSeq(drafts, 1, k)
        /\ Has(mtp, Base \o drafts) /\ SnapsTaken /\ Len(Base) + Len(drafts) <= MaxCtx
    BY InVerification, Ready
  <1>2. snaps[k + 1] = [pos |-> Len(history), hidden |-> history]
    BY <1>1 DEF SnapsTaken
  <1>3. Restore(Accepted) = [mtp EXCEPT !.pos = Len(history), !.hidden = history]
    BY <1>2 DEF Restore, Accepted
  <1>4. Len(history) \in 0..MaxCtx
    BY <1>1, Ready, Parameters
  <1>5. /\ Restore(Accepted) \in HeadStates /\ Restore(Accepted).pos = Len(history)
        /\ Restore(Accepted).hidden = history /\ Restore(Accepted).rows = mtp.rows
    BY <1>3, <1>4, Ready DEF HeadStates
  <1>6. ASSUME NEW i \in 1..Len(history) PROVE mtp.rows[i] = history[i]
    <2>1. i \in 1..Len(Base) + Len(drafts) /\ i \in 1..Len(Base) + Len(burst)
      BY <1>1, Ready
    <2>2. mtp.rows[i] = (Base \o drafts)[i]
      BY <1>1, <2>1, Ready DEF Has
    <2>3. /\ (Base \o drafts)[i] = IF i <= Len(Base) THEN Base[i] ELSE drafts[i - Len(Base)]
          /\ (Base \o burst)[i] = IF i <= Len(Base) THEN Base[i] ELSE burst[i - Len(Base)]
      <3>1. Base \in Seq(Tokens) /\ drafts \in Seq(Tokens) /\ burst \in Seq(Tokens)
        BY Ready
      <3>2. QED
        BY <2>1, <3>1, ConcatProperties
    <2>4. ASSUME i > Len(Base) PROVE burst[i - Len(Base)] = drafts[i - Len(Base)]
      <3> DEFINE j == i - Len(Base)
      <3>1. j \in 1..k /\ 1 + j - 1 = j
        BY <1>1, <2>1, <2>4, Ready
      <3>2. \A x \in 1..k : drafts[x] \in Tokens
        BY <1>1, Ready, ElementOfSeq
      <3>3. SubSeq(drafts, 1, k)[j] = drafts[1 + j - 1]
        BY <1>1, <3>1, <3>2, SubSeqProperties
      <3>4. QED
        BY <1>1, <3>1, <3>3
    <2>5. QED
      BY <1>1, <2>1, <2>2, <2>3, <2>4, Ready
  <1>7. QED
    BY <1>5, <1>6 DEF Has

\* The end of a round: the head takes the last committed token in.
LEMMA LastStep ==
  ASSUME SpecInv, pc = "verify", NEW t \in Sampled(model, probs), NEW m \in HeadStates,
         Has(m, history), Len(history) < MaxCtx, Len(out) + Len(burst) < max,
         Commit(t), burst' = Append(burst, t), mtp' = Chained(m, m.hidden, t),
         HeadWrote(mtp'.hidden), pc' = "emit", Len(burst) <= gamma,
         UNCHANGED <<model, gamma, prompt, max, snaps, drafts, out>>
  PROVE  SpecInv'
  <1>1. /\ t \in Tokens /\ history' = Append(history, t)
        /\ history' \in Seq(Tokens) /\ Len(history') <= MaxCtx
        /\ burst' \in Seq(Tokens) /\ Len(burst') = Len(burst) + 1 /\ burst' # <<>>
        /\ Committed' /\ OutputIsTargets'
    BY CommitStep
  <1>2. mtp' \in HeadStates /\ Has(mtp', history') /\ mtp'.hidden = history'
    <2>1. history \in Seq(Tokens) /\ m.hidden = history
      BY Ready DEF Has
    <2>2. QED
      BY <1>1, <2>1, ChainHas
  <1>3. Typed'
    BY <1>1, <1>2 DEF SpecInv, Typed
  <1>4. Bounded'
    <2>1. Len(burst) + 1 <= gamma + 1
      BY Ready
    <2>2. QED
      BY <1>1, <2>1 DEF SpecInv, Bounded
  <1>5. InEmit'
    <2>1. Len(out) + (Len(burst) + 1) <= max
      BY Ready
    <2>2. InStep(history)'
      BY <1>1, <1>2 DEF InStep, HeadWrote, Has
    <2>3. QED
      BY <1>1, <2>1, <2>2 DEF InEmit
  <1>6. QED
    BY <1>1, <1>3, <1>4, <1>5 DEF SpecInv, InPrefill, InRound, InDraft, InVerify

LEMMA RejectInv == SpecInv /\ Reject => SpecInv'
  <1> SUFFICES ASSUME SpecInv, Reject PROVE SpecInv'
    OBVIOUS
  <1>1. pc = "verify" /\ Len(burst) < Len(drafts)
    BY DEF Reject, Verifying, Accepted
  <1>2. PICK t \in Sampled(model, probs) \ {Proposed} :
          /\ Commit(t) /\ burst' = Append(burst, t)
          /\ mtp' = Chained(Restore(Accepted), Restore(Accepted).hidden, t)
          /\ HeadWrote(mtp'.hidden)
    BY DEF Reject
  <1>3. Len(history) < MaxCtx /\ Len(out) + Len(burst) < max /\ Len(burst) <= gamma
    <2>1. /\ Len(history) = Len(Base) + Len(burst) /\ Len(Base) + Len(drafts) <= MaxCtx
          /\ Len(drafts) <= max - Len(out) /\ Len(drafts) <= gamma
      BY <1>1, InVerification
    <2>2. QED
      BY <1>1, <2>1, Ready, Parameters
  <1>4. pc' = "emit" /\ UNCHANGED <<model, gamma, prompt, max, snaps, drafts, out>>
    BY DEF Reject
  <1>5. Restore(Accepted) \in HeadStates /\ Has(Restore(Accepted), history)
    BY <1>1, RestoreHas
  <1>6. QED
    BY <1>1, <1>2, <1>3, <1>4, <1>5, LastStep

LEMMA BonusInv == SpecInv /\ Bonus => SpecInv'
  <1> SUFFICES ASSUME SpecInv, Bonus PROVE SpecInv'
    OBVIOUS
  <1>1. /\ pc = "verify" /\ Len(burst) = Len(drafts) /\ Len(out) + Len(burst) < max
        /\ UNCHANGED <<model, gamma, prompt, max, snaps, drafts, out>>
    BY DEF Bonus, AllAccepted, BonusDue, Accepted
  <1>2. burst = drafts /\ Has(mtp, history) /\ Len(burst) <= gamma
    <2>1. /\ burst = SubSeq(drafts, 1, Len(drafts)) /\ history = Base \o burst
          /\ Has(mtp, Base \o drafts) /\ Len(drafts) <= gamma
      BY <1>1, InVerification
    <2>2. SubSeq(drafts, 1, Len(drafts)) = drafts
      BY Ready, SubSeqFull
    <2>3. QED
      BY <2>1, <2>2
  <1>3. ASSUME Room, pc' = "emit", NEW t \in Sampled(model, probs), Commit(t),
               burst' = Append(burst, t), mtp' = Chained(mtp, mtp.hidden, t),
               HeadWrote(mtp'.hidden)
        PROVE  SpecInv'
    BY <1>1, <1>2, <1>3, Ready, LastStep DEF Room
  <1>4. ASSUME pc' = "failed", UNCHANGED <<history, probs, burst, mtp, logits>>
        PROVE  SpecInv'
    <2>1. Typed' /\ Bounded' /\ OutputIsTargets'
      BY <1>1, <1>4 DEF SpecInv, Typed, Bounded, OutputIsTargets
    <2>2. QED
      BY <1>4, <2>1 DEF SpecInv, InPrefill, Committed, InRound, InDraft, InVerify, InEmit
  <1>5. QED
    BY <1>3, <1>4 DEF Bonus

LEMMA NoBonusInv == SpecInv /\ NoBonus => SpecInv'
  <1> SUFFICES ASSUME SpecInv, NoBonus PROVE SpecInv'
    OBVIOUS
  <1>1. /\ pc = "verify" /\ Len(burst) = Len(drafts) /\ ~(Len(out) + Len(burst) < max)
        /\ pc' = "emit" /\ UNCHANGED <<model, gamma, prompt, max, specMem, out>>
    BY DEF NoBonus, AllAccepted, BonusDue, Accepted
  <1>2. UNCHANGED <<history, probs, mtp, logits, snaps, drafts, burst>>
    BY <1>1 DEF specMem
  <1>3. Typed' /\ Bounded' /\ OutputIsTargets'
    BY <1>1, <1>2 DEF SpecInv, Typed, Bounded, OutputIsTargets
  <1>4. Committed'
    BY <1>1, <1>2 DEF SpecInv, Committed, Base, Legit
  <1>5. InEmit'
    <2>1. Len(drafts) > 0 /\ Len(drafts) <= max - Len(out)
      BY <1>1, InVerification, Ready
    <2>2. burst # <<>>
      BY <1>1, <2>1, EmptySeq
    <2>3. Len(out) + Len(burst) <= max
      BY <1>1, <2>1, Ready
    <2>4. QED
      BY <1>1, <1>2, <2>2, <2>3 DEF InEmit
  <1>6. QED
    BY <1>1, <1>3, <1>4, <1>5 DEF SpecInv, InPrefill, InRound, InDraft, InVerify

\* What the first token of a burst is.
LEMMA Emission ==
  ASSUME SpecInv, pc = "emit"
  PROVE  /\ Head(burst) \in Tokens /\ Head(burst) \in Sampled(model, prompt \o out)
         /\ Tail(burst) \in Seq(Tokens) /\ Len(Tail(burst)) = Len(burst) - 1
         /\ Append(Base, Head(burst)) \o Tail(burst) = history
         /\ Append(Base, Head(burst)) = prompt \o Append(out, Head(burst))
         /\ Len(out) < max /\ Len(out) + Len(burst) <= max /\ Len(burst) > 0
  <1>1. /\ burst # <<>> /\ Len(out) + Len(burst) <= max /\ history = Base \o burst
        /\ Legit(model, prompt, history)
    BY DEF SpecInv, InEmit, Committed
  <1>2. /\ Head(burst) \in Tokens /\ Tail(burst) \in Seq(Tokens)
        /\ Len(Tail(burst)) = Len(burst) - 1
        /\ Append(Base, Head(burst)) \o Tail(burst) = history
    BY <1>1, Ready, MoveHead
  <1>3. Head(burst) \in Sampled(model, prompt \o out)
    BY <1>1, Ready, LegitHead DEF Base
  <1>4. Append(Base, Head(burst)) = prompt \o Append(out, Head(burst))
    BY ZenonT(30), <1>2, AppendTokens, Ready DEF Base
  <1>5. Len(burst) > 0
    BY <1>1, Ready, EmptySeq
  <1>6. Len(out) < max
    BY <1>1, <1>5, Ready
  <1>7. QED
    BY <1>1, <1>2, <1>3, <1>4, <1>5, <1>6

LEMMA EmitInv == SpecInv /\ Emit => SpecInv'
  <1> SUFFICES ASSUME SpecInv, Emit PROVE SpecInv'
    OBVIOUS
  <1> DEFINE t == Head(burst)
  <1>1. /\ pc = "emit" /\ burst' = Tail(burst)
        /\ UNCHANGED <<model, gamma, prompt, max, history, probs, mtp, logits, snaps, drafts>>
    BY DEF Emit
  <1>2. /\ t \in Tokens /\ t \in Sampled(model, prompt \o out)
        /\ burst' \in Seq(Tokens) /\ Len(burst') = Len(burst) - 1
        /\ Append(Base, t) \o burst' = history /\ Append(Base, t) = prompt \o Append(out, t)
        /\ Len(out) < max /\ Len(out) + Len(burst) <= max /\ Len(burst) > 0
    BY <1>1, Emission
  <1>3. Len(burst') <= gamma + 1
    BY <1>2, Ready DEF SpecInv, Bounded
  <1>4. CASE t = Eos
    <2>1. pc' = "done" /\ out' = out
      BY <1>4 DEF Emit
    <2>2. Typed' /\ Bounded' /\ OutputIsTargets'
      BY <1>1, <1>2, <1>3, <2>1 DEF SpecInv, Typed, Bounded, OutputIsTargets
    <2>3. QED
      BY <2>1, <2>2 DEF SpecInv, InPrefill, Committed, InRound, InDraft, InVerify, InEmit
  <1>5. CASE t # Eos
    <2>1. /\ out' = Append(out, t) /\ pc' = IF burst' = <<>> THEN "round" ELSE "emit"
      BY <1>1, <1>5 DEF Emit
    <2>2. /\ out' \in Seq(Tokens) /\ Len(out') = Len(out) + 1 /\ out'[Len(out) + 1] = t
          /\ \A i \in 1..Len(out) : out'[i] = out[i]
      BY <1>2, <2>1, Ready, AppendProperties
    <2>3. Typed'
      BY <1>1, <1>2, <2>1, <2>2 DEF SpecInv, Typed
    <2>4. Bounded'
      <3>1. Len(out') <= max
        BY <1>2, <2>2, Ready
      <3>2. QED
        BY <1>1, <1>3, <3>1 DEF SpecInv, Bounded
    <2>5. Base' = Append(Base, t)
      BY <1>1, <1>2, <2>1 DEF Base
    <2>6. Committed'
      BY <1>1, <1>2, <2>5 DEF SpecInv, Committed, Legit
    <2>7. OutputIsTargets'
      <3> SUFFICES ASSUME NEW i \in 1..Len(out) + 1
                   PROVE  out'[i] \in Sampled(model, prompt \o SubSeq(out', 1, i - 1))
        BY <1>1, <2>2 DEF OutputIsTargets
      <3>1. i - 1 \in 0..Len(out)
        BY Ready
      <3>2. SubSeq(out', 1, i - 1) = SubSeq(out, 1, i - 1)
        BY <1>2, <2>1, <3>1, Ready, PrefixOfAppend
      <3>3. CASE i = Len(out) + 1
        <4>1. SubSeq(out, 1, i - 1) = out
          BY <3>3, Ready, SubSeqFull
        <4>2. QED
          BY <1>2, <2>2, <3>2, <3>3, <4>1
      <3>4. CASE i # Len(out) + 1
        <4>1. i \in 1..Len(out)
          BY <3>4, Ready
        <4>2. QED
          BY <2>2, <3>2, <4>1 DEF SpecInv, OutputIsTargets
      <3>5. QED
        BY <3>3, <3>4
    <2>8. Len(out') + Len(burst') = Len(out) + Len(burst)
      BY <1>2, <2>2, Ready
    <2>9. Len(out) + Len(burst) < max => InStep(history)'
      BY <1>1 DEF SpecInv, InEmit, InStep, Has
    <2>10. InRound'
      <3> SUFFICES ASSUME pc' = "round" PROVE InRound'
        BY DEF InRound
      <3>1. burst' = <<>> /\ Len(out') = Len(out) + Len(burst)
        BY <2>1, <2>8, <2>2, <1>2, Ready, EmptySeq
      <3>2. QED
        BY <1>1, <2>9, <3>1 DEF InRound
    <2>11. InEmit'
      BY <1>1, <1>2, <2>1, <2>8, <2>9 DEF InEmit
    <2>12. QED
      BY <2>1, <2>3, <2>4, <2>6, <2>7, <2>10, <2>11
         DEF SpecInv, InPrefill, InDraft, InVerify
  <1>6. QED
    BY <1>4, <1>5
-----------------------------------------------------------------------------
(* Every reachable state is as SpecInv says: where the head is, what the      *)
(* snapshots hold, what of the burst is still to come.                        *)
THEOREM Inductive == SpecSpec => []SpecInv
  <1>1. ASSUME SpecInv, UNCHANGED specVars PROVE SpecInv'
    <2>1. UNCHANGED <<model, gamma, pc, prompt, max, history, probs, mtp, logits,
                      snaps, drafts, burst, out>>
      BY <1>1 DEF specVars, specMem
    <2>2. Typed' /\ Bounded' /\ OutputIsTargets'
      BY <1>1, <2>1 DEF SpecInv, Typed, Bounded, OutputIsTargets
    <2>3. InPrefill' /\ Committed'
      BY <1>1, <2>1 DEF SpecInv, InPrefill, Committed, Base, Legit, Has
    <2>4. InRound' /\ InDraft' /\ InVerify' /\ InEmit'
      BY <1>1, <2>1 DEF SpecInv, InRound, InDraft, InVerify, InEmit, InStep, Has,
                        SnapsTaken, Base, Lookahead
    <2>5. QED
      BY <2>2, <2>3, <2>4 DEF SpecInv
  <1>2. SpecInv /\ [SNext]_specVars => SpecInv'
    BY <1>1, SubmitInv, PrefillInv, BeginRoundInv, DraftInv, AcceptInv, RejectInv,
       BonusInv, NoBonusInv, EmitInv DEF SNext
  <1>3. QED
    BY <1>2, StartInv, PTL DEF SpecSpec

(* No index of a generation reaches past the context or a buffer of a round.  *)
THEOREM TypeAlways == SpecSpec => []SpecTypeOK
  <1>1. SpecInv => SpecTypeOK
    BY DEF SpecInv, Typed, Bounded, SpecTypeOK, HeadStates
  <1>2. QED
    BY <1>1, Inductive, PTL

(* Every token a client gets is one the target could have sampled there.      *)
THEOREM OutputAlwaysTargets == SpecSpec => []OutputIsTargets
  <1>1. SpecInv => OutputIsTargets
    BY DEF SpecInv
  <1>2. QED
    BY <1>1, Inductive, PTL

(* Every round starts with the head, its logits and its rows in step with the *)
(* committed history.                                                        *)
THEOREM DraftAlwaysInStep == SpecSpec => []DraftInStep
  <1>1. SpecInv => DraftInStep
    <2> SUFFICES ASSUME SpecInv, pc = "draft", drafts = <<>> PROVE DraftInStep
      BY DEF DraftInStep
    <2>1. Base \in Seq(Tokens)
      BY Ready
    <2>2. Base \o <<>> = Base
      BY <2>1, ConcatEmptySeq
    <2>3. history = Base /\ probs = history /\ InStep(history)
      BY <2>2 DEF SpecInv, InDraft, Committed
    <2>4. QED
      BY <2>3 DEF DraftInStep, InStep, Has, Base
  <1>2. QED
    BY <1>1, Inductive, PTL
-----------------------------------------------------------------------------
(* Speculative generation implements plain decoding.                         *)
THEOREM Refinement == SpecSpec => ImplementsDecode
  <1>1. SInit => out = <<>> /\ Ended = "done"
    BY DEF SInit, Ended
  <1>2. ASSUME SpecInv, [SNext]_specVars
        PROVE  [Plain!DecodeNext]_<<model, prompt, max, out, Ended>>
    <2> SUFFICES ASSUME SNext \/ UNCHANGED specVars
                 PROVE  Plain!DecodeNext \/ UNCHANGED <<model, prompt, max, out, Ended>>
      BY <1>2
    <2>1. CASE Submit
      <3>1. Plain!Begin
        BY <2>1 DEF Submit, Plain!Begin, Ended
      <3>2. QED
        BY <3>1 DEF Plain!DecodeNext
    <2>2. CASE Prefill
      BY <2>2 DEF Prefill, Ended
    <2>3. CASE BeginRound
      <3>1. CASE Len(out) < max
        BY <2>3, <3>1 DEF BeginRound, Ended
      <3>2. CASE ~(Len(out) < max)
        <4>1. Len(out) = max
          BY <1>2, <3>2, Ready DEF SpecInv, Bounded
        <4>2. Plain!Stop
          BY <2>3, <3>2, <4>1 DEF BeginRound, Plain!Stop, Ended
        <4>3. QED
          BY <4>2 DEF Plain!DecodeNext
      <3>3. QED
        BY <3>1, <3>2
    <2>4. CASE Draft
      <3>1. CASE pc' = "failed"
        <4>1. Plain!Fail
          BY <2>4, <3>1 DEF Draft, Plain!Fail, Ended
        <4>2. QED
          BY <4>1 DEF Plain!DecodeNext
      <3>2. CASE pc' # "failed"
        BY <2>4, <3>2 DEF Draft, Ended
      <3>3. QED
        BY <3>1, <3>2
    <2>5. CASE Accept
      BY <2>5 DEF Accept, Ended
    <2>6. CASE Reject
      BY <2>6 DEF Reject, Verifying, Ended
    <2>7. CASE Bonus
      <3>1. CASE pc' = "failed"
        <4>1. Plain!Fail
          BY <2>7, <3>1 DEF Bonus, AllAccepted, Plain!Fail, Ended
        <4>2. QED
          BY <4>1 DEF Plain!DecodeNext
      <3>2. CASE pc' # "failed"
        BY <2>7, <3>2 DEF Bonus, AllAccepted, Ended
      <3>3. QED
        BY <3>1, <3>2
    <2>8. CASE NoBonus
      BY <2>8 DEF NoBonus, AllAccepted, Ended
    <2>9. CASE Emit
      <3>1. /\ pc = "emit" /\ Head(burst) \in Sampled(model, prompt \o out)
            /\ Len(out) < max /\ UNCHANGED <<model, prompt, max>>
        BY <1>2, <2>9, Emission DEF Emit
      <3>2. CASE Head(burst) = Eos
        <4>1. Plain!Stop
          BY <2>9, <3>1, <3>2 DEF Emit, Plain!Stop, Ended
        <4>2. QED
          BY <4>1 DEF Plain!DecodeNext
      <3>3. CASE Head(burst) # Eos
        <4>1. Plain!NextToken
          BY <2>9, <3>1, <3>3 DEF Emit, Plain!NextToken, Ended
        <4>2. QED
          BY <4>1 DEF Plain!DecodeNext
      <3>4. QED
        BY <3>2, <3>3
    <2>10. CASE UNCHANGED specVars
      BY <2>10 DEF specVars, Ended
    <2>11. QED
      BY <2>1, <2>2, <2>3, <2>4, <2>5, <2>6, <2>7, <2>8, <2>9, <2>10 DEF SNext
  <1>3. QED
    BY <1>1, <1>2, Inductive, PTL DEF SpecSpec, ImplementsDecode, Plain!DecodeSpec, Plain!decodeVars
-----------------------------------------------------------------------------
(* The device: what open acquires, close can free.                           *)

\* Nothing is there before the file is opened; a decoder can free what it has,
\* until qwn_open has refused a file.
MemoryInv == NothingLeaks /\ (stage = "file" => live = {})

\* Steps that allocate or release the same names on both sides.
LEMMA Together ==
  ASSUME NEW S, pointers = live, Allocate(S) \/ Release(S)
  PROVE  pointers' = live'
  BY DEF Allocate, Release

LEMMA CloseLeavesNothing ==
  ASSUME pointers = live, Close
  PROVE  live' = {} /\ pointers' = {}
  BY DEF Close

LEMMA StepKeeps ==
  ASSUME NEW name, NEW wanted, NEW partly, NEW next,
         MemoryInv, Step(name, wanted, partly, next),
         name \notin {"refused", "closed"}, next \notin {"file", "refused", "closed"}
  PROVE  MemoryInv'
  <1>1. stage = name /\ pointers = live
    BY DEF MemoryInv, NothingLeaks, Step, Opening
  <1>2. stage' \notin {"file", "refused", "closed"}
    BY DEF Step
  <1>3. pointers' = live'
    BY <1>1, Together DEF Step
  <1>4. QED
    BY <1>2, <1>3 DEF MemoryInv, NothingLeaks

LEMMA BuffersKeep == MemoryInv /\ (OpenBuffers \/ OpenFlat) => MemoryInv'
  <1> SUFFICES ASSUME MemoryInv, OpenBuffers \/ OpenFlat
               PROVE  MemoryInv'
    OBVIOUS
  <1>1. CASE Step("config", {}, {{}}, "layers")
    BY <1>1, StepKeeps
  <1>2. CASE Step("layers", Only({"layer_cache"}), {{}, Only({"layer_cache"})}, "scratch")
    BY <1>2, StepKeeps
  <1>3. CASE Step("scratch", Only({"scratch"}), {{}}, "arena")
    BY <1>3, StepKeeps
  <1>4. CASE Step("arena", Only({"arena"}), {{}}, IF shape.hybrid THEN "ssm" ELSE "kv")
    BY <1>4, StepKeeps
  <1>5. ASSUME NEW S, Step("ssm", S, Proper(S), "kv") PROVE MemoryInv'
    BY <1>5, StepKeeps
  <1>6. ASSUME NEW M, Step("mtp", M, Proper(M), "norms") PROVE MemoryInv'
    BY <1>6, StepKeeps
  <1>7. CASE Step("norms", {}, {{}}, IF cache = "fp16" THEN "cuda" ELSE "caches")
    BY <1>7, StepKeeps
  <1>8. CASE Step("caches", Only({"caches"}), {{}}, "rows")
    BY <1>8, StepKeeps
  <1>9. CASE Step("rows", Caches("cache", DeviceLayers),
                  {Caches("cache", n) : n \in Depth}, "cuda")
    BY <1>9, StepKeeps
  <1>10. CASE OpenFlat
    <2>1. AfterKv \in {"mtp", "norms"}
      BY DEF AfterKv
    <2>2. Step("flat", Only({"kv_allocation"}), {{}}, AfterKv)
      BY <1>10 DEF OpenFlat
    <2>3. QED
      BY <2>1, <2>2, StepKeeps
  <1>11. QED
    BY <1>1, <1>2, <1>3, <1>4, <1>5, <1>6, <1>7, <1>8, <1>9, <1>10 DEF OpenBuffers

LEMMA OpenKeeps ==
  MemoryInv /\ (OpenModel \/ OpenKv \/ FindLibrary \/ CreateContext \/ DeviceCaches
                \/ UndoCaches \/ Place) => MemoryInv'
  <1> SUFFICES ASSUME MemoryInv,
                      OpenModel \/ OpenKv \/ FindLibrary \/ CreateContext \/ DeviceCaches
                        \/ UndoCaches \/ Place
               PROVE  MemoryInv'
    OBVIOUS
  <1>1. stage # "refused" => pointers = live
    BY DEF MemoryInv, NothingLeaks
  <1>2. CASE OpenModel
    <2>1. live = {} /\ pointers = live /\ stage = "file"
      BY <1>2 DEF OpenModel, Opening, MemoryInv, NothingLeaks
    <2>2. CASE Allocate(ModelFile) /\ stage' = "config"
      BY <2>1, <2>2, Together DEF MemoryInv, NothingLeaks
    <2>3. CASE live' = {} /\ stage' = "refused"
      BY <2>3 DEF MemoryInv, NothingLeaks
    <2>4. QED
      BY <1>2, <2>1, <2>2, <2>3 DEF OpenModel, memoryVars
  <1>3. CASE OpenKv
    <2>1. stage = "kv" /\ pointers = live
      BY <1>1, <1>3 DEF OpenKv, Opening
    <2>2. stage' \in {"mtp", "norms", "flat"}
      BY <1>3 DEF OpenKv, AfterKv
    <2>3. pointers' = live'
      BY <1>3, <2>1, Together DEF OpenKv, memoryVars
    <2>4. QED
      BY <2>2, <2>3 DEF MemoryInv, NothingLeaks
  <1>4. CASE FindLibrary \/ CreateContext \/ DeviceCaches \/ UndoCaches \/ Place
    <2>1. stage \in {"cuda", "abi", "device", "undo", "placement"} /\ pointers = live
      BY <1>1, <1>4
         DEF FindLibrary, CreateContext, DeviceCaches, UndoCaches, Place, Opening
    <2>2. stage' \in {"failing", "placement", "abi", "device", "undo", "serving"}
      BY <1>4 DEF FindLibrary, CreateContext, DeviceCaches, UndoCaches, Place, NoDevice
    <2>3. pointers' = live'
      BY <1>4, <2>1, Together
         DEF FindLibrary, CreateContext, DeviceCaches, UndoCaches, Place, Unload, memoryVars
    <2>4. QED
      BY <2>2, <2>3 DEF MemoryInv, NothingLeaks
  <1>5. QED
    BY <1>2, <1>3, <1>4

\* A decoder that is given up or closed has freed everything.
LEMMA CloseKeeps == MemoryInv /\ (GoFail \/ End) => MemoryInv'
  <1> SUFFICES ASSUME MemoryInv, GoFail \/ End
               PROVE  MemoryInv'
    OBVIOUS
  <1>1. pointers = live /\ Close
    BY DEF GoFail, End, Opening, MemoryInv, NothingLeaks
  <1>2. stage' \in {"refused", "closed"}
    BY DEF GoFail, End
  <1>3. QED
    BY <1>1, <1>2, CloseLeavesNothing DEF MemoryInv, NothingLeaks

\* A token, whatever it uploads and wherever it fails or falls back.
LEMMA TokenKeeps ==
  MemoryInv /\ (Forward \/ OnDevice \/ OnCpu \/ FallBack \/ RequiredFails \/ AppendRow)
    => MemoryInv'
  <1> SUFFICES ASSUME MemoryInv,
                      Forward \/ OnDevice \/ OnCpu \/ FallBack \/ RequiredFails \/ AppendRow
               PROVE  MemoryInv'
    OBVIOUS
  <1>1. stage = "serving" /\ pointers = live
    BY DEF Forward, OnDevice, OnCpu, FallBack, RequiredFails, AppendRow, Projecting,
           MemoryInv, NothingLeaks
  <1>2. stage' \in {"serving", "crashed"}
    BY <1>1 DEF Forward, OnDevice, OnCpu, FallBack, RequiredFails, AppendRow
  <1>3. pointers' = live'
    BY <1>1, Together
       DEF Forward, OnDevice, OnCpu, FallBack, RequiredFails, AppendRow, Unload, memoryVars
  <1>4. QED
    BY <1>2, <1>3 DEF MemoryInv, NothingLeaks

LEMMA MemoryStep == MemoryInv /\ [DeviceNext]_deviceVars => MemoryInv'
  <1> SUFFICES ASSUME MemoryInv, [DeviceNext]_deviceVars
               PROVE  MemoryInv'
    OBVIOUS
  <1>1. CASE DeviceNext
    BY <1>1, BuffersKeep, OpenKeeps, CloseKeeps, TokenKeeps DEF DeviceNext
  <1>2. CASE UNCHANGED deviceVars
    BY <1>2 DEF deviceVars, memoryVars, MemoryInv, NothingLeaks
  <1>3. QED
    BY <1>1, <1>2

\* qwn_decoder_close can free exactly what the process has, at every step of
\* opening, falling back and closing, for any depth, number of slots and
\* tokens: refused or closed, the decoder leaves nothing behind.
THEOREM NothingEverLeaks == DeviceSpec => []NothingLeaks
  <1>1. DeviceInit => MemoryInv
    BY DEF DeviceInit, MemoryInv, NothingLeaks
  <1>2. MemoryInv => NothingLeaks
    BY DEF MemoryInv
  <1>3. QED
    BY <1>1, <1>2, MemoryStep, PTL DEF DeviceSpec
-----------------------------------------------------------------------------
(* The device: required means used.                                          *)

\* Where a q8 cache may be on the device.
Up == {"placement", "serving"}

\* Opening goes on from the device only with a context and, for a q8 cache, the
\* device's caches; until then there are none.
DeviceInv ==
  /\ stage \notin Up \union {"closed", "crashed"} => ~deviceKv
  /\ Required =>
       /\ "cpu" \notin ranOn
       /\ stage \in Up => available /\ (cache = "q8" <=> deviceKv)
       /\ stage = "device" => available

Reaching == OpenModel \/ OpenBuffers \/ OpenKv \/ OpenFlat

\* Nothing before the library is looked for has to do with the device.
LEMMA ReachingKeeps == DeviceInv /\ Reaching => DeviceInv'
  <1> SUFFICES ASSUME DeviceInv, Reaching
               PROVE  DeviceInv'
    OBVIOUS
  <1>1. /\ stage \notin Up \union {"closed", "crashed"} /\ stage' \notin Up \union {"device"}
        /\ UNCHANGED <<modelVars, deviceKv, forwardVars>>
    BY DEF Reaching, OpenModel, OpenBuffers, OpenKv, OpenFlat, Step, Opening, AfterKv, Up
  <1>2. QED
    BY <1>1 DEF DeviceInv, Required, modelVars, forwardVars

LEMMA LibraryKeeps ==
  DeviceInv /\ (FindLibrary \/ CreateContext \/ UndoCaches \/ Place \/ GoFail \/ End)
    => DeviceInv'
  <1> SUFFICES ASSUME DeviceInv,
                      FindLibrary \/ CreateContext \/ UndoCaches \/ Place \/ GoFail \/ End
               PROVE  DeviceInv'
    OBVIOUS
  <1>1. UNCHANGED <<backend, cache, deviceKv, ranOn>> /\ (Required' <=> Required)
    BY DEF FindLibrary, CreateContext, UndoCaches, Place, GoFail, End, Opening, modelVars,
           forwardVars, Required
  <1>2. CASE FindLibrary \/ CreateContext \/ UndoCaches
    <2>1. stage \in {"cuda", "abi", "undo"} /\ ~deviceKv
      BY <1>2 DEF FindLibrary, CreateContext, UndoCaches, Opening, DeviceInv, Up
    <2>2. /\ stage' \in {"placement", "abi", "device", "failing"}
          /\ Required => stage' # "placement"
          /\ stage' = "device" => available'
      BY <1>2 DEF FindLibrary, CreateContext, UndoCaches, NoDevice, Required
    <2>3. QED
      BY <1>1, <2>1, <2>2 DEF DeviceInv, Up
  <1>3. CASE Place
    BY <1>1, <1>3 DEF Place, Opening, DeviceInv, Up
  <1>4. CASE GoFail \/ End
    BY <1>1, <1>4 DEF GoFail, End, Opening, DeviceInv, Up
  <1>5. QED
    BY <1>2, <1>3, <1>4

LEMMA CachesKeep == DeviceInv /\ DeviceCaches => DeviceInv'
  <1> SUFFICES ASSUME DeviceInv, DeviceCaches
               PROVE  DeviceInv'
    OBVIOUS
  <1>1. stage = "device" /\ ~deviceKv /\ (Required => available)
    BY DEF DeviceCaches, DeviceInv, Up
  <1>2. UNCHANGED <<backend, cache, available, ranOn>> /\ (Required' <=> Required)
    BY DEF DeviceCaches, modelVars, forwardVars, Required
  <1>3. \/ cache = "q8" /\ deviceKv' = TRUE /\ stage' = "placement"
        \/ ~deviceKv' /\ stage' = "undo"
        \/ (cache # "q8" \/ ~Required) /\ ~deviceKv' /\ stage' = "placement"
    BY <1>1 DEF DeviceCaches
  <1>4. QED
    BY <1>1, <1>2, <1>3 DEF DeviceInv, Up

LEMMA ForwardKeeps ==
  DeviceInv /\ (Forward \/ OnDevice \/ OnCpu \/ FallBack \/ RequiredFails \/ AppendRow)
    => DeviceInv'
  <1> SUFFICES ASSUME DeviceInv,
                      Forward \/ OnDevice \/ OnCpu \/ FallBack \/ RequiredFails \/ AppendRow
               PROVE  DeviceInv'
    OBVIOUS
  <1>1. stage = "serving" /\ stage' \in {"serving", "crashed"}
    BY DEF Forward, OnDevice, OnCpu, FallBack, RequiredFails, AppendRow, Projecting
  <1>2. UNCHANGED <<backend, cache, deviceKv>> /\ (Required' <=> Required)
    BY DEF Forward, OnDevice, OnCpu, FallBack, RequiredFails, AppendRow, modelVars, Required
  <1>3. ASSUME Required
        PROVE  "cpu" \notin ranOn' /\ available' = available
    <2>1. available /\ (cache = "q8" <=> deviceKv) /\ "cpu" \notin ranOn
      BY <1>1, <1>3 DEF DeviceInv, Up
    <2>2. CASE Forward \/ OnDevice \/ RequiredFails
      BY <2>1, <2>2 DEF Forward, OnDevice, RequiredFails
    <2>3. CASE OnCpu \/ FallBack
      BY <1>3, <2>1, <2>3 DEF OnCpu, FallBack
    <2>4. CASE AppendRow
      BY <2>1, <2>4 DEF AppendRow
    <2>5. QED
      BY <2>2, <2>3, <2>4
  <1>4. QED
    BY <1>1, <1>2, <1>3 DEF DeviceInv, Up

LEMMA DeviceStep == DeviceInv /\ [DeviceNext]_deviceVars => DeviceInv'
  <1> SUFFICES ASSUME DeviceInv, [DeviceNext]_deviceVars
               PROVE  DeviceInv'
    OBVIOUS
  <1>1. CASE DeviceNext
    BY <1>1, ReachingKeeps, LibraryKeeps, CachesKeep, ForwardKeeps DEF DeviceNext, Reaching
  <1>2. CASE UNCHANGED deviceVars
    BY <1>2 DEF deviceVars, modelVars, forwardVars, DeviceInv, Required
  <1>3. QED
    BY <1>1, <1>2

\* backend = "cuda" is the device or nothing, for any depth and number of slots.
THEOREM CudaOrNothingAlways == DeviceSpec => []CudaOrNothing
  <1>1. DeviceInit => DeviceInv
    BY DEF DeviceInit, DeviceInv, Up
  <1>2. DeviceInv => CudaOrNothing
    BY DEF DeviceInv, CudaOrNothing, Up
  <1>3. QED
    BY <1>1, <1>2, DeviceStep, PTL DEF DeviceSpec
-----------------------------------------------------------------------------
(* What the pool does to its sequences of block numbers.                   *)

\* alloc_block pops exactly one block, the last of the stack.
LEMMA Pop ==
    ASSUME NEW s \in Seq(Blocks), s # <<>>, IsInjective(s)
    PROVE  /\ Front(s) \in Seq(Blocks) /\ IsInjective(Front(s))
           /\ Last(s) \in Blocks /\ Last(s) \in Range(s)
           /\ Range(Front(s)) = Range(s) \ {Last(s)}
           /\ Append(Front(s), Last(s)) = s
  <1> DEFINE n == Len(s)
             f == SubSeq(s, 1, n - 1)
  <1>1. n \in Nat \ {0} /\ DOMAIN s = 1 .. n /\ \A i \in 1 .. n : s[i] \in Blocks
    OBVIOUS
  <1>2. f \in Seq(Blocks) /\ Len(f) = n - 1 /\ \A i \in 1 .. n - 1 : f[i] = s[i]
    <2>1. \A i \in 1 .. n - 1 : s[i] \in Blocks
      BY <1>1
    <2> QED BY <1>1, <2>1, SubSeqProperties, Z3
  <1>3. DOMAIN f = 1 .. n - 1
    BY <1>2
  <1>4. Front(s) = f /\ Last(s) = s[n]
    BY DEF Front, Last
  <1> HIDE DEF f, n
  <1>5. IsInjective(f)
    BY <1>1, <1>2, <1>3 DEF IsInjective
  <1>6. s[n] \in Blocks /\ s[n] \in Range(s)
    BY <1>1 DEF Range
  <1>7. Range(f) = Range(s) \ {s[n]}
    <2>1. ASSUME NEW x \in Range(f) PROVE x \in Range(s) \ {s[n]}
      <3>1. PICK i \in 1 .. n - 1 : x = f[i]
        BY <1>3, <2>1 DEF Range
      <3>2. i \in 1 .. n /\ n \in 1 .. n /\ i # n /\ x = s[i]
        BY <1>1, <1>2, <3>1
      <3> QED BY <1>1, <3>2 DEF Range, IsInjective
    <2>2. ASSUME NEW x \in Range(s) \ {s[n]} PROVE x \in Range(f)
      <3>1. PICK i \in 1 .. n : x = s[i] /\ i # n
        BY <1>1, <2>2 DEF Range
      <3>2. i \in 1 .. n - 1
        BY <1>1, <3>1
      <3> QED BY <1>2, <1>3, <3>1, <3>2 DEF Range
    <2> QED BY <2>1, <2>2
  <1>8. Append(f, s[n]) = s
    <2>1. Append(f, s[n]) \in Seq(Blocks) /\ Len(Append(f, s[n])) = n
      BY <1>1, <1>2, <1>6
    <2>2. \A i \in 1 .. n : Append(f, s[n])[i] = s[i]
      BY <1>1, <1>2
    <2> QED BY <1>1, <2>1, <2>2, SeqEqual DEF n
  <1> QED BY <1>2, <1>4, <1>5, <1>6, <1>7, <1>8

\* A table or the stack gains exactly the block appended.
LEMMA Push ==
    ASSUME NEW s \in Seq(Blocks), IsInjective(s), NEW b \in Blocks, b \notin Range(s)
    PROVE  /\ Append(s, b) \in Seq(Blocks) /\ IsInjective(Append(s, b))
           /\ Range(Append(s, b)) = Range(s) \cup {b}
  <1> DEFINE t == Append(s, b)
             n == Len(s)
  <1>1. /\ n \in Nat /\ DOMAIN s = 1 .. n /\ t \in Seq(Blocks)
        /\ DOMAIN t = 1 .. n + 1 /\ t[n + 1] = b /\ \A i \in 1 .. n : t[i] = s[i]
    OBVIOUS
  <1> HIDE DEF t, n
  <1>2. \A i \in 1 .. n + 1 : i \in 1 .. n \/ i = n + 1
    BY <1>1
  <1>3. \A i \in 1 .. n : s[i] # b
    BY <1>1 DEF Range
  <1>4. IsInjective(t)
    BY <1>1, <1>2, <1>3 DEF IsInjective
  <1>5. Range(t) = Range(s) \cup {b}
    <2>1. n + 1 \in 1 .. n + 1 /\ \A i \in 1 .. n : i \in 1 .. n + 1
      BY <1>1
    <2> QED BY <1>1, <1>2, <2>1 DEF Range
  <1> QED BY <1>1, <1>4, <1>5 DEF t

\* Two disjoint lists without repetition stay so when they are joined.
LEMMA Join ==
    ASSUME NEW s \in Seq(Blocks), IsInjective(s), NEW t \in Seq(Blocks), IsInjective(t),
           Range(s) \cap Range(t) = {}
    PROVE  /\ s \o t \in Seq(Blocks) /\ IsInjective(s \o t)
           /\ Range(s \o t) = Range(s) \cup Range(t)
           /\ Len(s \o t) = Len(s) + Len(t)
  <1> DEFINE u == s \o t
             m == Len(s)
             n == Len(t)
  <1>1. /\ m \in Nat /\ n \in Nat /\ DOMAIN s = 1 .. m /\ DOMAIN t = 1 .. n
        /\ u \in Seq(Blocks) /\ Len(u) = m + n /\ DOMAIN u = 1 .. m + n
        /\ \A i \in 1 .. m + n : u[i] = IF i <= m THEN s[i] ELSE t[i - m]
    OBVIOUS
  <1> HIDE DEF u, m, n
  <1>2. \A i \in 1 .. m + n : i \in 1 .. m \/ (i > m /\ i - m \in 1 .. n)
    BY <1>1
  <1>3. \A i \in 1 .. m, j \in 1 .. n : s[i] # t[j]
    BY <1>1 DEF Range
  <1>4. ASSUME NEW i \in 1 .. m + n, NEW j \in 1 .. m + n, u[i] = u[j]
        PROVE  i = j
    <2>1. CASE i <= m /\ j <= m
      <3>1. i \in 1 .. m /\ j \in 1 .. m /\ s[i] = s[j]
        BY <1>1, <1>4, <2>1
      <3> QED BY <1>1, <3>1 DEF IsInjective
    <2>2. CASE i > m /\ j > m
      <3>1. i - m \in 1 .. n /\ j - m \in 1 .. n /\ t[i - m] = t[j - m]
        BY <1>1, <1>4, <2>2
      <3>2. i - m = j - m
        BY <1>1, <3>1 DEF IsInjective
      <3> QED BY <1>1, <3>2
    <2>3. CASE (i <= m /\ j > m) \/ (i > m /\ j <= m)
      BY <1>1, <1>2, <1>3, <1>4, <2>3
    <2> QED BY <1>1, <2>1, <2>2, <2>3
  <1>5. Range(u) = Range(s) \cup Range(t)
    <2>1. ASSUME NEW x \in Range(u) PROVE x \in Range(s) \cup Range(t)
      <3>1. PICK i \in 1 .. m + n : x = u[i]
        BY <1>1, <2>1 DEF Range
      <3>2. CASE i <= m
        <4>1. i \in 1 .. m /\ x = s[i]
          BY <1>1, <3>1, <3>2
        <4> QED BY <1>1, <4>1 DEF Range
      <3>3. CASE i > m
        <4>1. i - m \in 1 .. n /\ x = t[i - m]
          BY <1>1, <3>1, <3>3
        <4> QED BY <1>1, <4>1 DEF Range
      <3> QED BY <1>1, <3>1, <3>2, <3>3
    <2>2. ASSUME NEW x \in Range(s) PROVE x \in Range(u)
      <3>1. PICK i \in 1 .. m : x = s[i]
        BY <1>1, <2>2 DEF Range
      <3>2. i \in 1 .. m + n /\ u[i] = x
        BY <1>1, <3>1
      <3> QED BY <1>1, <3>2 DEF Range
    <2>3. ASSUME NEW x \in Range(t) PROVE x \in Range(u)
      <3>1. PICK i \in 1 .. n : x = t[i]
        BY <1>1, <2>3 DEF Range
      <3>2. i + m \in 1 .. m + n /\ u[i + m] = t[(i + m) - m] /\ (i + m) - m = i
        BY <1>1, <3>1
      <3> QED BY <1>1, <3>1, <3>2 DEF Range
    <2> QED BY <2>1, <2>2, <2>3
  <1> QED BY <1>1, <1>4, <1>5 DEF IsInjective, u, m, n

\* A list of distinct blocks is no longer than the pool.
LEMMA FitsPool ==
    ASSUME NEW s \in Seq(Blocks), IsInjective(s)
    PROVE  Len(s) <= TotalBlocks
  <1> DEFINE n == Len(s)
  <1>0. TotalBlocks \in Nat \ {0}
    BY PoolAssumption
  <1>1. n \in Nat /\ s \in [1 .. n -> Blocks] /\ DOMAIN s = 1 .. n
    OBVIOUS
  <1>2. IsFiniteSet(1 .. n) /\ Cardinality(1 .. n) = n
    BY <1>1, FS_Interval
  <1>3. IsFiniteSet(Blocks) /\ Cardinality(Blocks) = TotalBlocks
    <2>1. IsFiniteSet(0 .. TotalBlocks - 1)
          /\ Cardinality(0 .. TotalBlocks - 1) =
               IF 0 > TotalBlocks - 1 THEN 0 ELSE (TotalBlocks - 1) - 0 + 1
      BY <1>0, FS_Interval
    <2> QED BY <1>0, <2>1 DEF Blocks
  <1> HIDE DEF n
  <1>4. SUFFICES ASSUME TotalBlocks < n PROVE FALSE
    BY <1>0, <1>1 DEF n
  <1>5. \E x, y \in 1 .. n : x # y /\ s[x] = s[y]
    BY <1>1, <1>2, <1>3, <1>4, FS_PigeonHole
  <1> QED BY <1>1, <1>5 DEF IsInjective

\* Because of that, no push of a free is ever dropped by the full test.
LEMMA PushedWhole ==
    ASSUME NEW s \in Seq(Blocks), IsInjective(s), NEW t \in Seq(Blocks), IsInjective(t),
           Range(s) \cap Range(t) = {}
    PROVE  Pushed(s, t) = s \o t
  <1>0. TotalBlocks \in Nat
    BY PoolAssumption
  <1>1. Len(s) + Len(t) <= TotalBlocks /\ Len(s) \in Nat /\ Len(t) \in Nat
    <2>1. s \o t \in Seq(Blocks) /\ IsInjective(s \o t) /\ Len(s \o t) = Len(s) + Len(t)
      BY Join
    <2>2. Len(s \o t) <= TotalBlocks
      BY <2>1, FitsPool
    <2>3. Len(s) \in Nat /\ Len(t) \in Nat
      OBVIOUS
    <2> QED BY <2>1, <2>2, <2>3
  <1>2. (IF Len(t) < TotalBlocks - Len(s) THEN Len(t) ELSE TotalBlocks - Len(s)) = Len(t)
    BY <1>0, <1>1
  <1>3. SubSeq(t, 1, Len(t)) = t
    BY SubSeqFull
  <1> QED BY <1>2, <1>3 DEF Pushed

----------------------------------------------------------------------------
(* Counting blocks.                                                        *)

\* A block boundary is crossed at most once per token.
LEMMA DivStep ==
    ASSUME NEW a \in Nat, NEW d \in Nat \ {0}
    PROVE  /\ a \div d \in Nat
           /\ (a + 1) \div d = a \div d \/ (a + 1) \div d = a \div d + 1
  <1> DEFINE q == a \div d
             p == (a + 1) \div d
  <1>1. q \in Int /\ d * q <= a /\ a < d * (q + 1)
    OBVIOUS
  <1>2. p \in Int /\ d * p <= a + 1 /\ a + 1 < d * (p + 1)
    OBVIOUS
  <1> HIDE DEF q, p
  <1>3. q >= 0
    BY <1>1, Z3
  <1>4. p < q + 2
    BY <1>1, <1>2, Z3
  <1>5. p + 1 > q
    BY <1>1, <1>2, Z3
  <1> QED BY <1>1, <1>2, <1>3, <1>4, <1>5 DEF p, q

\* No block for no token, and one more block at most for one more token.
LEMMA BlocksForStep ==
    /\ BlocksFor(0) = 0
    /\ \A n \in Nat : /\ BlocksFor(n) \in Nat
                      /\ BlocksFor(n + 1) = BlocksFor(n) \/ BlocksFor(n + 1) = BlocksFor(n) + 1
  <1>1. BlockSize \in Nat \ {0}
    BY PoolAssumption
  <1>2. BlocksFor(0) = 0
    <2>1. BlocksFor(0) = (BlockSize - 1) \div BlockSize
      BY <1>1 DEF BlocksFor
    <2> QED BY <1>1, <2>1, Z3
  <1>3. ASSUME NEW n \in Nat
        PROVE  /\ BlocksFor(n) \in Nat
               /\ BlocksFor(n + 1) = BlocksFor(n) \/ BlocksFor(n + 1) = BlocksFor(n) + 1
    <2> DEFINE a == n + BlockSize - 1
    <2>1. a \in Nat /\ n + 1 + BlockSize - 1 = a + 1
      BY <1>1
    <2>2. BlocksFor(n) = a \div BlockSize /\ BlocksFor(n + 1) = (a + 1) \div BlockSize
      BY <2>1 DEF BlocksFor
    <2> HIDE DEF a
    <2> QED BY <1>1, <2>1, <2>2, DivStep
  <1> QED BY <1>2, <1>3

----------------------------------------------------------------------------
(* The inductive invariant.  To the three invariants it adds what makes    *)
(* TableExact inductive: a table always has room for at least one block,   *)
(* and a request without a table has nothing at all.                       *)

TableShape(t) ==
    IF t.live THEN /\ Len(t.ids) = BlocksFor(t.numTokens)
                   /\ Len(t.ids) <= t.capacity
                   /\ t.capacity >= 1
              ELSE t = NoTable

PoolInv ==
    /\ TypeOK
    /\ BlockOwnedOnce
    /\ NoBlockLost
    /\ \A r \in Requests : TableShape(table[r])

LEMMA EmptyIsInjective ==
    /\ <<>> \in Seq(Blocks) /\ IsInjective(<<>>) /\ Range(<<>>) = {}
    /\ NoTable \in [live : BOOLEAN, numTokens : Nat, ids : Seq(Blocks), capacity : Nat]
  <1>1. <<>> \in Seq(Blocks) /\ DOMAIN <<>> = {}
    OBVIOUS
  <1>2. FALSE \in BOOLEAN
    OBVIOUS
  <1> QED BY <1>1, <1>2 DEF IsInjective, Range, NoTable

LEMMA InitPool == Init => PoolInv
  <1> SUFFICES ASSUME Init PROVE PoolInv
    OBVIOUS
  <1>0. TotalBlocks \in Nat \ {0}
    BY PoolAssumption
  <1>1. /\ freeStack \in Seq(Blocks) /\ DOMAIN freeStack = 1 .. TotalBlocks
        /\ \A i \in 1 .. TotalBlocks : freeStack[i] = TotalBlocks - i
    <2>1. \A i \in 1 .. TotalBlocks : TotalBlocks - i \in Blocks
      BY <1>0 DEF Blocks
    <2> QED BY <1>0, <2>1 DEF Init
  <1>2. IsInjective(freeStack)
    BY <1>0, <1>1 DEF IsInjective
  <1>3. Range(freeStack) = Blocks
    <2>1. \A b \in Blocks : TotalBlocks - b \in 1 .. TotalBlocks
                            /\ TotalBlocks - (TotalBlocks - b) = b
      BY <1>0 DEF Blocks
    <2>2. \A b \in Blocks : b \in Range(freeStack)
      BY <1>1, <2>1 DEF Range
    <2>3. Range(freeStack) \subseteq Blocks
      <3>1. \A i \in 1 .. TotalBlocks : freeStack[i] \in Blocks
        BY <1>0, <1>1
      <3> QED BY <1>1, <3>1 DEF Range
    <2> QED BY <2>2, <2>3
  <1>4. \A r \in Requests : table[r] = NoTable /\ Held(r) = {} /\ table[r].ids = <<>>
    BY EmptyIsInjective DEF Init, Held, NoTable
  <1>5. TypeOK
    <2>1. table \in [Requests -> [live : BOOLEAN, numTokens : Nat,
                                  ids : Seq(Blocks), capacity : Nat]]
      BY EmptyIsInjective DEF Init
    <2>2. mem \in [Addresses -> Vals \cup {Zero}]
      BY DEF Init
    <2> QED BY <1>1, <2>1, <2>2 DEF TypeOK
  <1>6. BlockOwnedOnce
    BY <1>2, <1>4, EmptyIsInjective DEF BlockOwnedOnce
  <1>7. NoBlockLost
    BY <1>3, <1>4 DEF NoBlockLost
  <1>8. \A r \in Requests : TableShape(table[r])
    BY <1>4 DEF TableShape, NoTable
  <1> QED BY <1>5, <1>6, <1>7, <1>8 DEF PoolInv

LEMMA TableInitPool ==
    ASSUME PoolInv, NEW r \in Requests, NEW wanted \in {0, TotalBlocks}, TableInit(r, wanted)
    PROVE  PoolInv'
  <1> DEFINE cap == IF wanted > MinCapacity THEN wanted ELSE MinCapacity
             t == [live |-> TRUE, numTokens |-> 0, ids |-> <<>>, capacity |-> cap]
  <1>0. cap \in Nat /\ cap >= 1
    BY PoolAssumption
  <1> HIDE DEF cap
  <1>1. /\ t.live = TRUE /\ t.numTokens = 0 /\ t.ids = <<>> /\ t.capacity = cap
        /\ t \in [live : BOOLEAN, numTokens : Nat, ids : Seq(Blocks), capacity : Nat]
    <2>1. TRUE \in BOOLEAN /\ 0 \in Nat
      OBVIOUS
    <2> QED BY <1>0, <2>1, EmptyIsInjective
  <1>2. /\ table' = [table EXCEPT ![r] = t] /\ freeStack' = freeStack /\ mem' = mem
        /\ table[r] = NoTable /\ table[r].ids = <<>>
    <2>1. table[r] = NoTable
      BY DEF PoolInv, TableShape, TableInit
    <2> QED BY <2>1 DEF TableInit, cap, NoTable
  <1> HIDE DEF t
  <1>3. TypeOK'
    BY <1>1, <1>2 DEF PoolInv, TypeOK
  <1>4. \A x \in Requests : table'[x].ids = table[x].ids
    BY <1>1, <1>2 DEF PoolInv, TypeOK
  <1>5. BlockOwnedOnce' /\ NoBlockLost'
    BY <1>2, <1>4 DEF PoolInv, BlockOwnedOnce, NoBlockLost, Held
  <1>6. TableShape(t)
    BY <1>0, <1>1, BlocksForStep DEF TableShape
  <1>7. \A x \in Requests : TableShape(table'[x])
    BY <1>2, <1>6 DEF PoolInv, TypeOK
  <1> QED BY <1>3, <1>5, <1>7 DEF PoolInv

LEMMA TakeBlockPool ==
    ASSUME PoolInv, NEW r \in Requests, table[r].live, NeedsBlock(r), freeStack # <<>>,
           TakeBlock(r, MustGrow(r))
    PROVE  PoolInv'
  <1> DEFINE old == table[r]
             b == Last(freeStack)
             cap == IF MustGrow(r) THEN 2 * old.capacity ELSE old.capacity
             t == [live |-> TRUE, numTokens |-> old.numTokens + 1, ids |-> Append(old.ids, b),
                   capacity |-> cap]
  <1>1. /\ old \in [live : BOOLEAN, numTokens : Nat, ids : Seq(Blocks), capacity : Nat]
        /\ old.live /\ old.ids \in Seq(Blocks) /\ old.numTokens \in Nat /\ old.capacity \in Nat
    BY DEF PoolInv, TypeOK
  <1>2. /\ Len(old.ids) = BlocksFor(old.numTokens) /\ Len(old.ids) <= old.capacity
        /\ old.capacity >= 1
    BY <1>1 DEF PoolInv, TableShape
  <1>3. /\ freeStack \in Seq(Blocks) /\ IsInjective(freeStack) /\ IsInjective(old.ids)
        /\ Range(old.ids) \cap Range(freeStack) = {}
    BY DEF PoolInv, TypeOK, BlockOwnedOnce, Held
  <1>4. /\ Front(freeStack) \in Seq(Blocks) /\ IsInjective(Front(freeStack))
        /\ b \in Blocks /\ b \in Range(freeStack)
        /\ Range(Front(freeStack)) = Range(freeStack) \ {b}
    BY <1>3, Pop
  <1>5. /\ Append(old.ids, b) \in Seq(Blocks) /\ IsInjective(Append(old.ids, b))
        /\ Range(Append(old.ids, b)) = Range(old.ids) \cup {b}
    BY <1>1, <1>3, <1>4, Push
  <1>6. cap \in Nat /\ cap >= 1 /\ Len(old.ids) + 1 <= cap
    <2>1. Len(old.ids) \in Nat
      BY <1>1
    <2> QED BY <1>1, <1>2, <2>1 DEF MustGrow
  <1>7. /\ t.live = TRUE /\ t.numTokens = old.numTokens + 1 /\ t.capacity = cap
        /\ t.ids = Append(old.ids, b)
        /\ t \in [live : BOOLEAN, numTokens : Nat, ids : Seq(Blocks), capacity : Nat]
    <2> HIDE DEF cap, b, old
    <2> QED BY <1>1, <1>5, <1>6
  <1>8. /\ table' = [table EXCEPT ![r] = t] /\ freeStack' = Front(freeStack) /\ mem' = mem
    BY DEF TakeBlock
  <1>9. Len(t.ids) = BlocksFor(t.numTokens)
    <2>1. Len(t.ids) = Len(old.ids) + 1 /\ Len(old.ids) \in Nat
      BY <1>1, <1>4, <1>7
    <2>2. BlocksFor(old.numTokens + 1) > Len(old.ids)
      BY DEF NeedsBlock
    <2> HIDE DEF t, old
    <2> QED BY <1>1, <1>2, <1>7, <2>1, <2>2, BlocksForStep
  <1> HIDE DEF t, cap, b
  <1>10. TypeOK'
    BY <1>4, <1>7, <1>8 DEF PoolInv, TypeOK
  <1>11. /\ table'[r].ids = Append(old.ids, b)
         /\ \A x \in Requests : x # r => table'[x].ids = table[x].ids
    BY <1>7, <1>8 DEF PoolInv, TypeOK
  <1>12. BlockOwnedOnce'
    <2>1. \A x \in Requests : x # r => Range(table[x].ids) \cap Range(table[r].ids) = {}
                                       /\ Range(table[x].ids) \cap Range(freeStack) = {}
                                       /\ IsInjective(table[x].ids)
      BY DEF PoolInv, BlockOwnedOnce, Held
    <2>2. Range(table'[r].ids) = Range(old.ids) \cup {b} /\ IsInjective(table'[r].ids)
      BY <1>5, <1>11
    <2>3. Range(table'[r].ids) \cap Range(freeStack') = {}
      BY <1>3, <1>4, <1>8, <2>2
    <2>4. \A x \in Requests : x # r => /\ IsInjective(table'[x].ids)
                                       /\ Range(table'[x].ids) \cap Range(freeStack') = {}
                                       /\ Range(table'[x].ids) \cap Range(table'[r].ids) = {}
      BY <1>4, <1>8, <1>11, <2>1, <2>2
    <2>5. \A x, y \in Requests : x # y /\ x # r /\ y # r =>
                                  Range(table'[x].ids) \cap Range(table'[y].ids) = {}
      BY <1>11 DEF PoolInv, BlockOwnedOnce, Held
    <2>6. IsInjective(freeStack')
      BY <1>4, <1>8
    <2>7. \A x, y \in Requests : x # y => Range(table'[x].ids) \cap Range(table'[y].ids) = {}
      BY <2>4, <2>5
    <2> QED BY <2>2, <2>3, <2>4, <2>6, <2>7 DEF BlockOwnedOnce, Held
  <1>13. NoBlockLost'
    BY <1>4, <1>5, <1>8, <1>11 DEF PoolInv, NoBlockLost, Held
  <1>14. TableShape(t)
    <2>1. Len(t.ids) <= t.capacity /\ t.capacity >= 1
      BY <1>1, <1>4, <1>6, <1>7
    <2> QED BY <1>1, <1>7, <1>9, <2>1 DEF TableShape
  <1>15. \A x \in Requests : TableShape(table'[x])
    BY <1>8, <1>14 DEF PoolInv, TypeOK
  <1> QED BY <1>10, <1>12, <1>13, <1>15 DEF PoolInv

LEMMA AppendInPlacePool ==
    ASSUME PoolInv, NEW r \in Requests, table[r].live, ~NeedsBlock(r),
           table' = [table EXCEPT ![r].numTokens = @ + 1], UNCHANGED <<freeStack, mem>>
    PROVE  PoolInv'
  <1> DEFINE old == table[r]
             t == table'[r]
  <1>1. /\ old \in [live : BOOLEAN, numTokens : Nat, ids : Seq(Blocks), capacity : Nat]
        /\ old.live /\ Len(old.ids) = BlocksFor(old.numTokens) /\ Len(old.ids) <= old.capacity
        /\ old.capacity >= 1
    BY DEF PoolInv, TypeOK, TableShape
  <1>2. /\ t.live = old.live /\ t.numTokens = old.numTokens + 1 /\ t.capacity = old.capacity
        /\ t.ids = old.ids
        /\ \A x \in Requests : x # r => table'[x] = table[x]
        /\ table' \in [Requests -> [live : BOOLEAN, numTokens : Nat,
                                    ids : Seq(Blocks), capacity : Nat]]
    <2> DEFINE u == [old EXCEPT !.numTokens = old.numTokens + 1]
    <2>1. table' = [table EXCEPT ![r] = u]
      OBVIOUS
    <2>2. /\ u.live = old.live /\ u.numTokens = old.numTokens + 1
          /\ u.capacity = old.capacity /\ u.ids = old.ids
      <3> HIDE DEF old
      <3> QED BY <1>1
    <2>3. u \in [live : BOOLEAN, numTokens : Nat, ids : Seq(Blocks), capacity : Nat]
      <3>1. old.numTokens + 1 \in Nat
        BY <1>1
      <3> HIDE DEF old
      <3> QED BY <1>1, <3>1
    <2>4. table \in [Requests -> [live : BOOLEAN, numTokens : Nat,
                                  ids : Seq(Blocks), capacity : Nat]]
      BY DEF PoolInv, TypeOK
    <2> HIDE DEF u
    <2> QED BY <2>1, <2>2, <2>3, <2>4
  <1>3. BlocksFor(old.numTokens + 1) <= Len(old.ids)
    <2>1. BlocksFor(old.numTokens + 1) \in Nat /\ Len(old.ids) \in Nat
      BY <1>1, BlocksForStep
    <2> QED BY <2>1 DEF NeedsBlock
  <1>4. Len(t.ids) = BlocksFor(t.numTokens)
    <2> HIDE DEF t, old
    <2> QED BY <1>1, <1>2, <1>3, BlocksForStep
  <1>5. TableShape(t)
    <2> HIDE DEF t, old
    <2> QED BY <1>1, <1>2, <1>4 DEF TableShape
  <1>6. TypeOK'
    BY <1>2 DEF PoolInv, TypeOK
  <1>7. \A x \in Requests : table'[x].ids = table[x].ids
    BY <1>2
  <1>8. BlockOwnedOnce' /\ NoBlockLost'
    BY <1>7 DEF PoolInv, BlockOwnedOnce, NoBlockLost, Held
  <1>9. \A x \in Requests : TableShape(table'[x])
    BY <1>2, <1>5 DEF PoolInv
  <1> QED BY <1>6, <1>8, <1>9 DEF PoolInv

\* A failed append leaves the pool as it was: the popped block is back on top.
LEMMA AppendFailsPool ==
    ASSUME PoolInv, NEW r \in Requests, AppendFails(r)
    PROVE  UNCHANGED vars
  <1>1. CASE freeStack = <<>>
    BY <1>1 DEF AppendFails
  <1>2. CASE freeStack # <<>>
    <2>1. freeStack \in Seq(Blocks) /\ IsInjective(freeStack)
      BY DEF PoolInv, TypeOK, BlockOwnedOnce
    <2>2. Append(Front(freeStack), Last(freeStack)) = freeStack
      BY <1>2, <2>1, Pop
    <2> QED BY <1>2, <2>2 DEF AppendFails, vars
  <1> QED BY <1>1, <1>2

LEMMA WritePool ==
    ASSUME PoolInv, NEW r \in Requests, NEW lay \in LayerIds, NEW pos \in 0 .. MaxTokens - 1,
           NEW v \in Vals, Write(r, lay, pos, v)
    PROVE  PoolInv'
  <1>1. table' = table /\ freeStack' = freeStack
    BY DEF Write
  <1>2. mem' \in [Addresses -> Vals \cup {Zero}]
    BY DEF Write, PoolInv, TypeOK
  <1> QED BY <1>1, <1>2 DEF PoolInv, TypeOK, BlockOwnedOnce, NoBlockLost, Held, TableShape

LEMMA TableFreePool ==
    ASSUME PoolInv, NEW r \in Requests, TableFree(r)
    PROVE  PoolInv'
  <1> DEFINE ids == table[r].ids
  <1>1. /\ freeStack \in Seq(Blocks) /\ IsInjective(freeStack) /\ ids \in Seq(Blocks)
        /\ IsInjective(ids) /\ Range(freeStack) \cap Range(ids) = {}
    BY DEF PoolInv, TypeOK, BlockOwnedOnce, Held
  <1>2. /\ freeStack' = freeStack \o ids /\ mem' = mem
        /\ table' = [table EXCEPT ![r] = NoTable]
    BY <1>1, PushedWhole DEF TableFree
  <1>3. /\ freeStack \o ids \in Seq(Blocks) /\ IsInjective(freeStack \o ids)
        /\ Range(freeStack \o ids) = Range(freeStack) \cup Range(ids)
    BY <1>1, Join
  <1>4. /\ table'[r].ids = <<>>
        /\ \A x \in Requests : x # r => table'[x].ids = table[x].ids
    BY <1>2 DEF PoolInv, TypeOK, NoTable
  <1>5. TypeOK'
    BY <1>2, <1>3, EmptyIsInjective DEF PoolInv, TypeOK
  <1>6. BlockOwnedOnce'
    <2>1. \A x \in Requests : IsInjective(table'[x].ids)
      BY <1>4, EmptyIsInjective DEF PoolInv, BlockOwnedOnce
    <2>2. Held(r)' = {} /\ \A x \in Requests : x # r => Held(x)' = Held(x)
      BY <1>4, EmptyIsInjective DEF Held
    <2>3. Range(freeStack)' = Range(freeStack) \cup Held(r)
      BY <1>2, <1>3 DEF Held
    <2>4. \A x \in Requests : Held(x)' \cap Range(freeStack)' = {}
      BY <2>2, <2>3 DEF PoolInv, BlockOwnedOnce
    <2>5. \A x, y \in Requests : x # y => Held(x)' \cap Held(y)' = {}
      BY <2>2 DEF PoolInv, BlockOwnedOnce
    <2>6. IsInjective(freeStack')
      BY <1>2, <1>3
    <2> QED BY <2>1, <2>4, <2>5, <2>6 DEF BlockOwnedOnce
  <1>7. NoBlockLost'
    BY SMTT(30), <1>2, <1>3, <1>4, EmptyIsInjective DEF PoolInv, NoBlockLost, Held
  <1>8. TableShape(NoTable)
    BY DEF TableShape, NoTable
  <1>9. \A x \in Requests : TableShape(table'[x])
    BY <1>2, <1>8 DEF PoolInv, TypeOK
  <1> QED BY <1>5, <1>6, <1>7, <1>9 DEF PoolInv

\* PoolInv holds in every reachable state of the pool.
THEOREM PoolInvariant == Spec => []PoolInv
  <1>1. Init => PoolInv
    BY InitPool
  <1>2. PoolInv /\ [Next]_vars => PoolInv'
    <2> SUFFICES ASSUME PoolInv, [Next]_vars PROVE PoolInv'
      OBVIOUS
    <2>1. CASE UNCHANGED vars
      BY <2>1 DEF vars, PoolInv, TypeOK, BlockOwnedOnce, NoBlockLost, Held, TableShape
    <2>2. ASSUME NEW r \in Requests, NEW wanted \in {0, TotalBlocks}, TableInit(r, wanted)
          PROVE  PoolInv'
      BY <2>2, TableInitPool
    <2>3. ASSUME NEW r \in Requests, AppendToken(r) PROVE PoolInv'
      <3>1. CASE NeedsBlock(r)
        BY <2>3, <3>1, TakeBlockPool DEF AppendToken
      <3>2. CASE ~NeedsBlock(r)
        BY <2>3, <3>2, AppendInPlacePool DEF AppendToken
      <3> QED BY <3>1, <3>2
    <2>4. ASSUME NEW r \in Requests, AppendFails(r) PROVE PoolInv'
      BY <2>1, <2>4, AppendFailsPool
    <2>5. ASSUME NEW r \in Requests, NEW lay \in LayerIds, NEW pos \in 0 .. MaxTokens - 1,
                 NEW v \in Vals, Write(r, lay, pos, v)
          PROVE  PoolInv'
      BY <2>5, WritePool
    <2>6. ASSUME NEW r \in Requests, TableFree(r) PROVE PoolInv'
      BY <2>6, TableFreePool
    <2> QED BY <2>1, <2>2, <2>3, <2>4, <2>5, <2>6 DEF Next
  <1> QED BY <1>1, <1>2, PTL DEF Spec

\* The fields of the pool and of the tables keep their types.
THEOREM PoolTypeCorrect == Spec => []TypeOK
  <1>1. PoolInv => TypeOK
    BY DEF PoolInv
  <1> QED BY <1>1, PoolInvariant, PTL

\* No physical page is ever shared by two block tables, or by a table and
\* the free stack (qwn_kv_pool_alloc_block / qwn_kv_pool_free_block).
THEOREM PagesAreOwnedOnce == Spec => []BlockOwnedOnce
  <1>1. PoolInv => BlockOwnedOnce
    BY DEF PoolInv
  <1> QED BY <1>1, PoolInvariant, PTL

\* No physical page is ever lost: a failed append gives its block back, and
\* the full test of qwn_kv_pool_free_block never drops a push.
THEOREM PagesAreNeverLost == Spec => []NoBlockLost
  <1>1. PoolInv => NoBlockLost
    BY DEF PoolInv
  <1> QED BY <1>1, PoolInvariant, PTL

\* A live table has exactly the blocks its tokens need, within capacity, so
\* valid_block_table never refuses it.
THEOREM TablesAreExact == Spec => []TableExact
  <1>1. PoolInv => TableExact
    <2> SUFFICES ASSUME PoolInv, NEW r \in Requests, table[r].live
                 PROVE  Len(table[r].ids) = BlocksFor(table[r].numTokens) /\ ValidTable(table[r])
      BY DEF TableExact
    <2>1. /\ table[r].ids \in Seq(Blocks) /\ table[r].numTokens \in Nat
          /\ Len(table[r].ids) = BlocksFor(table[r].numTokens)
          /\ Len(table[r].ids) <= table[r].capacity
      BY DEF PoolInv, TypeOK, TableShape
    <2>2. \A i \in 1 .. BlocksFor(table[r].numTokens) : table[r].ids[i] \in Blocks
      BY <2>1
    <2>3. BlocksFor(table[r].numTokens) <= Len(table[r].ids)
      BY <2>1
    <2> QED BY <2>1, <2>2, <2>3 DEF ValidTable
  <1> QED BY <1>1, PoolInvariant, PTL

\* Every page is owned once, none is lost and every table is exact: what the
\* runs check.
THEOREM BlocksAlwaysAccounted == Spec => []BlocksAccounted
  <1>1. BlockOwnedOnce /\ NoBlockLost /\ TableExact => BlocksAccounted
    BY DEF BlocksAccounted
  <1> QED BY <1>1, PagesAreOwnedOnce, PagesAreNeverLost, TablesAreExact, PTL
----------------------------------------------------------------------------
(* Induction over numbers, for a set.                                      *)

Less == {p \in Nat \X Nat : p[1] < p[2]}

\* A set of naturals has a least one.
LEMMA LeastElement ==
    ASSUME NEW T, T \subseteq Nat, T # {}
    PROVE  \E x \in T : \A y \in T : x <= y
  <1>1. IsWellFoundedOn(Less, Nat)
    BY NatLessThanWellFounded DEF Less, OpToRel
  <1>2. PICK x \in T : \A y \in T : ~ (<<y, x>> \in Less)
    BY <1>1, WFMin
  <1>3. ASSUME NEW y \in Nat, NEW z \in Nat, y < z PROVE <<y, z>> \in Less
    <2>1. <<y, z>> \in Nat \X Nat /\ <<y, z>>[1] < <<y, z>>[2]
      BY <1>3
    <2> QED BY <2>1 DEF Less
  <1>4. ASSUME NEW y \in T PROVE x <= y
    <2>1. ~ (<<y, x>> \in Less)
      BY <1>2
    <2>2. ~ (y < x)
      BY <1>3, <2>1
    <2>3. x \in Nat /\ y \in Nat
      OBVIOUS
    <2> QED BY <2>2, <2>3
  <1> QED BY <1>4

\* A set that holds 1 and the successors, up to n, of what it holds.
LEMMA Climb ==
    ASSUME NEW n \in Nat, NEW S, 1 \in S,
           \A k \in 1 .. n - 1 : k \in S => k + 1 \in S
    PROVE  1 .. n \subseteq S
  <1> SUFFICES ASSUME (1 .. n) \ S # {} PROVE FALSE
    OBVIOUS
  <1>1. PICK m \in (1 .. n) \ S : \A y \in (1 .. n) \ S : m <= y
    <2>1. (1 .. n) \ S \subseteq Nat
      OBVIOUS
    <2> QED BY <2>1, LeastElement
  <1>2. m - 1 \in 1 .. n - 1 /\ (m - 1) + 1 = m
    BY <1>1
  <1>3. m - 1 \in S
    BY <1>1, <1>2
  <1> QED BY <1>1, <1>2, <1>3

\* What FlattenSeq computes, one sequence at a time.
Joins(f, s) == f = [i \in 1 .. Len(s) |-> IF i = 1 THEN s[i] ELSE f[i - 1] \o s[i]]

LEMMA FlattenSteps ==
    ASSUME NEW U, NEW s \in Seq(U), s # <<>>
    PROVE  \E f : Joins(f, s) /\ FlattenSeq(s) = f[Len(s)]
  <1> DEFINE n == Len(s)
             Upto(f, k) == f = [i \in 1 .. k |-> IF i = 1 THEN s[i] ELSE f[i - 1] \o s[i]]
             S == {k \in 1 .. n : \E f : Upto(f, k)}
  <1>1. n \in Nat \ {0}
    OBVIOUS
  <1> HIDE DEF n
  <1>2. 1 \in S
    <2> DEFINE f == [i \in 1 .. 1 |-> s[i]]
    <2>1. f = [i \in 1 .. 1 |-> IF i = 1 THEN s[i] ELSE f[i - 1] \o s[i]]
      OBVIOUS
    <2>2. 1 \in 1 .. n
      BY <1>1
    <2> HIDE DEF f
    <2>3. Upto(f, 1)
      BY <2>1
    <2> QED BY <2>2, <2>3
  <1>3. ASSUME NEW k \in 1 .. n - 1, k \in S PROVE k + 1 \in S
    <2>1. PICK g : Upto(g, k)
      BY <1>3
    <2> DEFINE f == [i \in 1 .. k + 1 |-> IF i <= k THEN g[i] ELSE g[k] \o s[k + 1]]
    <2>2. /\ k \in Nat \ {0} /\ k + 1 \in 1 .. n
          /\ \A i \in 1 .. k : g[i] = IF i = 1 THEN s[i] ELSE g[i - 1] \o s[i]
      <3>1. k \in Nat \ {0} /\ k + 1 \in 1 .. n
        BY <1>1
      <3>2. g = [i \in 1 .. k |-> IF i = 1 THEN s[i] ELSE g[i - 1] \o s[i]]
        BY <2>1
      <3>3. ASSUME NEW i \in 1 .. k PROVE g[i] = IF i = 1 THEN s[i] ELSE g[i - 1] \o s[i]
        BY <3>2, Zenon
      <3> QED BY <3>1, <3>3
    <2>3. \A i \in 1 .. k + 1 : f[i] = IF i = 1 THEN s[i] ELSE f[i - 1] \o s[i]
      <3> SUFFICES ASSUME NEW i \in 1 .. k + 1
                   PROVE  f[i] = IF i = 1 THEN s[i] ELSE f[i - 1] \o s[i]
        OBVIOUS
      <3>1. CASE i <= k
        <4>1. i \in 1 .. k /\ f[i] = g[i] /\ (i # 1 => f[i - 1] = g[i - 1])
          BY <2>2, <3>1
        <4> QED BY <2>2, <4>1
      <3>2. CASE i = k + 1
        <4>1. i # 1 /\ ~ (i <= k) /\ i - 1 = k /\ i - 1 \in 1 .. k + 1 /\ i - 1 <= k
          BY <2>2, <3>2
        <4>2. f[i] = g[k] \o s[k + 1]
          BY <4>1
        <4>3. f[i - 1] = g[k]
          BY <4>1
        <4> HIDE DEF f
        <4> QED BY <3>2, <4>1, <4>2, <4>3
      <3> QED BY <2>2, <3>1, <3>2
    <2>4. f = [i \in 1 .. k + 1 |-> f[i]]
      OBVIOUS
    <2> HIDE DEF f
    <2>5. Upto(f, k + 1)
      BY <2>3, <2>4
    <2> QED BY <2>2, <2>5
  <1>4. n \in S
    <2> HIDE DEF S
    <2>1. 1 .. n \subseteq S
      BY <1>1, <1>2, <1>3, Climb
    <2> QED BY <1>1, <2>1
  <1>5. \E f : Joins(f, s)
    BY <1>4 DEF Joins, n
  <1> DEFINE F == CHOOSE f : f = [i \in 1 .. Len(s) |-> IF i = 1 THEN s[i] ELSE f[i - 1] \o s[i]]
  <1>6. Joins(F, s)
    BY <1>5 DEF Joins
  <1>7. FlattenSeq(s) = F[Len(s)]
    BY <1>1 DEF FlattenSeq, n
  <1> QED BY <1>6, <1>7
----------------------------------------------------------------------------
(* Where the rows are.                                                     *)

\* Division by d leaves one quotient and one remainder.
LEMMA DivMod ==
    ASSUME NEW a \in Nat, NEW d \in Nat \ {0}
    PROVE  a \div d \in Nat /\ a % d \in 0 .. d - 1 /\ a = d * (a \div d) + (a % d)
  <1>1. a % d \in 0 .. d - 1
    OBVIOUS
  <1>3. a = d * (a \div d) + (a % d)
    OBVIOUS
  <1>2. a \div d \in Nat
    BY DivStep
  <1> QED BY <1>1, <1>2, <1>3

LEMMA OneQuotient ==
    ASSUME NEW d \in Nat \ {0}, NEW a \in Int, NEW b \in Int, NEW u \in 0 .. d - 1,
           NEW v \in 0 .. d - 1, d * a + u = d * b + v
    PROVE  a = b /\ u = v
  <1>1. ~ (a + 1 <= b)
    <2> SUFFICES ASSUME a + 1 <= b PROVE FALSE
      OBVIOUS
    <2>1. d * (a + 1) <= d * b
      BY Z3
    <2>2. d * (a + 1) = d * a + d
      BY Z3
    <2> DEFINE x == d * a
               y == d * b
    <2>3. x \in Int /\ y \in Int
      OBVIOUS
    <2>4. x + d <= y /\ x + u = y + v
      BY <2>1, <2>2
    <2> HIDE DEF x, y
    <2> QED BY <2>3, <2>4
  <1>2. ~ (b + 1 <= a)
    <2> SUFFICES ASSUME b + 1 <= a PROVE FALSE
      OBVIOUS
    <2>1. d * (b + 1) <= d * a
      BY Z3
    <2>2. d * (b + 1) = d * b + d
      BY Z3
    <2> DEFINE x == d * a
               y == d * b
    <2>3. x \in Int /\ y \in Int
      OBVIOUS
    <2>4. y + d <= x /\ x + u = y + v
      BY <2>1, <2>2
    <2> HIDE DEF x, y
    <2> QED BY <2>3, <2>4
  <1>3. a = b
    BY <1>1, <1>2
  <1> QED BY <1>3

\* The i-th row of block b holds token position b * BlockSize + i.
LEMMA PositionInBlock ==
    ASSUME NEW b \in Nat, NEW i \in 0 .. BlockSize - 1
    PROVE  /\ b * BlockSize + i \in Nat
           /\ (b * BlockSize + i) \div BlockSize = b
           /\ (b * BlockSize + i) % BlockSize = i
  <1>1. BlockSize \in Nat \ {0}
    BY PoolAssumption
  <1> DEFINE a == b * BlockSize + i
  <1>2. a \in Nat /\ a = BlockSize * b + i
    BY <1>1
  <1> HIDE DEF a
  <1>3. /\ a \div BlockSize \in Nat /\ a % BlockSize \in 0 .. BlockSize - 1
        /\ a = BlockSize * (a \div BlockSize) + (a % BlockSize)
    BY <1>1, <1>2, DivMod
  <1> DEFINE q == a \div BlockSize
             m == a % BlockSize
  <1>4. BlockSize * b + i = BlockSize * q + m
    BY <1>2, <1>3
  <1>6. q \in Int /\ m \in 0 .. BlockSize - 1
    BY <1>3
  <1> HIDE DEF q, m
  <1>5. b = q /\ i = m
    BY <1>1, <1>4, <1>6, OneQuotient
  <1> QED BY <1>2, <1>5 DEF a, q, m

\* The tokens of a table reach into its last block and not past it.
LEMMA LastBlock ==
    ASSUME NEW n \in Nat
    PROVE  /\ BlocksFor(n) \in Nat
           /\ n <= BlocksFor(n) * BlockSize
           /\ n > 0 => (BlocksFor(n) - 1) * BlockSize < n /\ BlocksFor(n) > 0
           /\ \A k \in 1 .. BlocksFor(n) - 1 : k * BlockSize < n
  <1>1. BlockSize \in Nat \ {0}
    BY PoolAssumption
  <1> DEFINE a == n + BlockSize - 1
             q == a \div BlockSize
  <1>2. a \in Nat
    BY <1>1
  <1>3. BlocksFor(n) = q
    BY DEF BlocksFor
  <1>4. q \in Nat /\ a % BlockSize \in 0 .. BlockSize - 1 /\ a = BlockSize * q + (a % BlockSize)
    BY <1>1, <1>2, DivMod
  <1> HIDE DEF q
  <1>5. n <= q * BlockSize /\ n + BlockSize - 1 >= q * BlockSize
    <2> DEFINE x == BlockSize * q
               m == a % BlockSize
    <2>1. x \in Int /\ x = q * BlockSize
      BY <1>1, <1>4
    <2>2. m \in 0 .. BlockSize - 1 /\ n + BlockSize - 1 = x + m
      BY <1>4
    <2> HIDE DEF x, m
    <2> QED BY <1>1, <2>1, <2>2
  <1>6. n > 0 => (q - 1) * BlockSize < n /\ q > 0
    <2>1. (q - 1) * BlockSize = q * BlockSize - BlockSize
      BY <1>1, <1>4, Z3
    <2>2. q = 0 => q * BlockSize = 0
      BY <1>1
    <2> DEFINE x == q * BlockSize
    <2>3. x \in Int
      BY <1>1, <1>4
    <2> HIDE DEF x
    <2> QED BY <1>1, <1>4, <1>5, <2>1, <2>2, <2>3 DEF x
  <1>7. ASSUME NEW k \in 1 .. q - 1 PROVE k * BlockSize < n
    <2>1. k <= q - 1 /\ k \in Nat
      BY <1>4
    <2>2. k * BlockSize <= (q - 1) * BlockSize
      BY <1>1, <1>4, <2>1, Z3
    <2>3. n > 0
      <3>1. q * BlockSize >= 2 * BlockSize
        <4>1. q >= 2
          BY <1>4
        <4> QED BY <1>1, <1>4, <4>1, Z3
      <3> DEFINE x == q * BlockSize
      <3>2. x \in Int /\ x >= 2 * BlockSize /\ n + BlockSize - 1 >= x
        BY <1>1, <1>4, <1>5, <3>1
      <3> HIDE DEF x
      <3> QED BY <1>1, <3>2
    <2> DEFINE x == k * BlockSize
               y == (q - 1) * BlockSize
    <2>4. x \in Int /\ y \in Int /\ x <= y /\ y < n
      BY <1>1, <1>4, <1>6, <2>2, <2>3
    <2> HIDE DEF x, y
    <2>5. x < n
      BY <2>4
    <2> QED BY <2>5 DEF x
  <1> QED BY <1>3, <1>4, <1>5, <1>6, <1>7

----------------------------------------------------------------------------
(* Gathering block by block reads the rows in their order.                 *)

\* The rows of the first blocks of a table, as the direct kernel reads them.
RowAt(t, lay, i) == mem[Locate(t, lay, i - 1)]
UptoBlock(t, k) == IF k = BlocksFor(t.numTokens) THEN t.numTokens ELSE k * BlockSize
FirstRows(t, lay, k) == [i \in 1 .. UptoBlock(t, k) |-> RowAt(t, lay, i)]

\* One memcpy copies the next rows, and as many of them as its block holds.
LEMMA GatheredBlockRows ==
    ASSUME NEW t, t.numTokens \in Nat, NEW lay \in LayerIds,
           NEW k \in 1 .. BlocksFor(t.numTokens), t.ids[k] \in Blocks
    PROVE  LET from == (k - 1) * BlockSize
           IN  /\ from \in Nat /\ UptoBlock(t, k) \in Nat /\ from <= UptoBlock(t, k)
               /\ (k > 1 => UptoBlock(t, k - 1) = from)
               /\ GatheredBlock(t, lay, k - 1) =
                    [i \in 1 .. UptoBlock(t, k) - from |-> RowAt(t, lay, from + i)]
  <1> DEFINE n == t.numTokens
             m == BlocksFor(n)
             from == (k - 1) * BlockSize
  <1>1. BlockSize \in Nat \ {0} /\ n \in Nat
    BY PoolAssumption
  <1>2. /\ m \in Nat /\ n <= m * BlockSize /\ (n > 0 => (m - 1) * BlockSize < n)
        /\ \A j \in 1 .. m - 1 : j * BlockSize < n
    BY <1>1, LastBlock
  <1>3. n > 0
    <2>1. n = 0 => m = 0
      BY BlocksForStep
    <2> HIDE DEF m
    <2> QED BY <1>1, <2>1 DEF m
  <1>4. k \in 1 .. m /\ k - 1 \in Nat /\ from \in Nat /\ k * BlockSize = from + BlockSize
    <2>1. k \in 1 .. m
      OBVIOUS
    <2>2. k - 1 \in Nat /\ from \in Nat
      BY <1>1, <1>2, <2>1
    <2>3. k * BlockSize = from + BlockSize
      BY <1>1, <1>2, <2>1, Z3
    <2> QED BY <2>1, <2>2, <2>3
  <1>5. UptoBlock(t, k) = IF k = m THEN n ELSE from + BlockSize
    BY <1>4 DEF UptoBlock
  <1>6. k > 1 => UptoBlock(t, k - 1) = from
    <2>1. k > 1 => k - 1 # m
      BY <1>2, <1>4
    <2> QED BY <2>1 DEF UptoBlock
  <1>7. k = m => from < n /\ n <= from + BlockSize
    BY <1>2, <1>3, <1>4
  <1> DEFINE inBlock == IF k = m THEN n - from ELSE BlockSize
  <1>8. inBlock = UptoBlock(t, k) - from /\ inBlock <= BlockSize /\ inBlock \in Nat
    <2> HIDE DEF from, m, n
    <2> QED BY <1>1, <1>4, <1>5, <1>7
  <1>9. GatheredBlock(t, lay, k - 1) =
          [i \in 1 .. inBlock |-> mem[AddressIn(t.ids[(k - 1) + 1], lay, 0) + i - 1]]
    <2>1. k - 1 = m - 1 <=> k = m
      BY <1>2, <1>4
    <2> QED BY <2>1 DEF GatheredBlock
  <1>10. ASSUME NEW i \in 1 .. inBlock
         PROVE  mem[AddressIn(t.ids[(k - 1) + 1], lay, 0) + i - 1] = RowAt(t, lay, from + i)
    <2>1. i - 1 \in 0 .. BlockSize - 1 /\ from + i - 1 = from + (i - 1)
      <3> HIDE DEF from, inBlock
      <3> QED BY <1>1, <1>4, <1>8
    <2>2. (from + (i - 1)) \div BlockSize = k - 1 /\ (from + (i - 1)) % BlockSize = i - 1
      BY <1>4, <2>1, PositionInBlock
    <2>3. Locate(t, lay, from + i - 1) = AddressIn(t.ids[(k - 1) + 1], lay, i - 1)
      BY <2>1, <2>2 DEF Locate
    <2>4. (k - 1) + 1 = k
      BY <1>4
    <2> DEFINE a == t.ids[k] * (Layers * BlockSize) + lay * BlockSize
    <2>5. a \in Int
      BY PoolAssumption DEF Blocks, LayerIds
    <2>6. a + 0 + i - 1 = a + (i - 1)
      <3> HIDE DEF a
      <3> QED BY <1>8, <2>5
    <2>7. AddressIn(t.ids[k], lay, 0) = a + 0 /\ AddressIn(t.ids[k], lay, i - 1) = a + (i - 1)
      BY DEF AddressIn
    <2>8. AddressIn(t.ids[(k - 1) + 1], lay, 0) + i - 1 = Locate(t, lay, from + i - 1)
      <3> HIDE DEF a, from
      <3> QED BY <2>3, <2>4, <2>6, <2>7
    <2>9. RowAt(t, lay, from + i) = mem[Locate(t, lay, (from + i) - 1)]
      BY DEF RowAt
    <2>10. (from + i) - 1 = from + i - 1
      BY <1>4
    <2> HIDE DEF from
    <2> QED BY <2>8, <2>9, <2>10
  <1> HIDE DEF from, inBlock
  <1>11. GatheredBlock(t, lay, k - 1) = [i \in 1 .. inBlock |-> RowAt(t, lay, from + i)]
    BY <1>9, <1>10, Zenon
  <1>12. from <= UptoBlock(t, k) /\ UptoBlock(t, k) \in Nat
    <2> HIDE DEF n, m
    <2> QED BY <1>1, <1>4, <1>5, <1>7
  <1> QED BY <1>4, <1>6, <1>8, <1>11, <1>12 DEF from
\* Two pieces of a row of values, one after the other.
LEMMA JoinRows ==
    ASSUME NEW a \in Nat, NEW b \in Nat, a <= b, NEW g,
           NEW p, p = [i \in 1 .. a |-> g[i]], NEW q, q = [i \in 1 .. b - a |-> g[a + i]]
    PROVE  p \o q = [i \in 1 .. b |-> g[i]]
  <1> DEFINE U == {g[i] : i \in 1 .. b}
  <1>1. p \in Seq(U) /\ Len(p) = a /\ \A i \in 1 .. a : p[i] = g[i]
    <2>1. \A i \in 1 .. a : g[i] \in U
      OBVIOUS
    <2> HIDE DEF U
    <2> QED BY <2>1
  <1>2. b - a \in Nat
    OBVIOUS
  <1>3. q \in Seq(U) /\ Len(q) = b - a /\ \A i \in 1 .. b - a : q[i] = g[a + i]
    <2>1. \A i \in 1 .. b - a : g[a + i] \in U
      OBVIOUS
    <2> HIDE DEF U
    <2> QED BY <1>2, <2>1
  <1> HIDE DEF U
  <1>4. p \o q \in Seq(U) /\ Len(p \o q) = b
    BY <1>1, <1>2, <1>3
  <1>5. \A i \in 1 .. b : (p \o q)[i] = IF i <= a THEN p[i] ELSE q[i - a]
    BY <1>1, <1>2, <1>3
  <1>6. ASSUME NEW i \in 1 .. b PROVE (p \o q)[i] = g[i]
    <2>1. CASE i <= a
      BY <1>1, <1>5, <2>1
    <2>2. CASE i > a
      <3>1. i - a \in 1 .. b - a /\ a + (i - a) = i /\ ~ (i <= a)
        BY <2>2
      <3> QED BY <1>3, <1>5, <3>1
    <2> QED BY <2>1, <2>2
  <1> QED BY <1>4, <1>6

LEMMA GatheredInOrder ==
    ASSUME NEW t, t.numTokens \in Nat, NEW lay \in LayerIds,
           \A i \in 1 .. BlocksFor(t.numTokens) : t.ids[i] \in Blocks
    PROVE  GatheredRows(t, lay) = DirectRows(t, lay)
  <1> DEFINE n == t.numTokens
             m == BlocksFor(n)
             s == [b \in 1 .. m |-> GatheredBlock(t, lay, b - 1)]
  <1>1. n \in Nat /\ m \in Nat /\ (n > 0 => m > 0) /\ (n = 0 => m = 0)
    BY LastBlock, BlocksForStep
  <1>2. DirectRows(t, lay) = [i \in 1 .. n |-> RowAt(t, lay, i)]
    BY DEF DirectRows, RowAt
  <1>3. GatheredRows(t, lay) = FlattenSeq(s)
    BY DEF GatheredRows
  <1> DEFINE V == {GatheredBlock(t, lay, b - 1) : b \in 1 .. m}
  <1>4. s \in Seq(V) /\ Len(s) = m
    <2>1. \A b \in 1 .. m : GatheredBlock(t, lay, b - 1) \in V
      OBVIOUS
    <2> HIDE DEF m, V
    <2> QED BY <1>1, <2>1
  <1>5. CASE n = 0
    <2>1. s = <<>>
      BY <1>1, <1>4, <1>5
    <2>2. FlattenSeq(s) = <<>>
      BY <2>1 DEF FlattenSeq
    <2>3. DirectRows(t, lay) = <<>>
      BY <1>2, <1>5
    <2> QED BY <1>3, <2>2, <2>3
  <1>6. CASE n # 0
    <2>1. m \in Nat \ {0} /\ s # <<>>
      BY <1>1, <1>4, <1>6
    <2>2. PICK f : Joins(f, s) /\ FlattenSeq(s) = f[m]
      BY <1>4, <2>1, FlattenSteps
    <2>3. ASSUME NEW k \in 1 .. m
          PROVE  f[k] = IF k = 1 THEN s[1] ELSE f[k - 1] \o s[k]
      <3>1. f = [i \in 1 .. m |-> IF i = 1 THEN s[i] ELSE f[i - 1] \o s[i]]
        BY <1>4, <2>2 DEF Joins
      <3> HIDE DEF s, m
      <3>2. f[k] = IF k = 1 THEN s[k] ELSE f[k - 1] \o s[k]
        BY <3>1, Zenon
      <3> QED BY <3>2
    <2> DEFINE S == {k \in 1 .. m : f[k] = FirstRows(t, lay, k)}
    <2>4. ASSUME NEW k \in 1 .. m
          PROVE  /\ (k - 1) * BlockSize \in Nat /\ UptoBlock(t, k) \in Nat
                 /\ (k - 1) * BlockSize <= UptoBlock(t, k)
                 /\ k > 1 => UptoBlock(t, k - 1) = (k - 1) * BlockSize
                 /\ s[k] = [i \in 1 .. UptoBlock(t, k) - (k - 1) * BlockSize |->
                              RowAt(t, lay, (k - 1) * BlockSize + i)]
      <3>1. s[k] = GatheredBlock(t, lay, k - 1)
        OBVIOUS
      <3> QED BY <3>1, GatheredBlockRows
    <2> HIDE DEF s, m
    <2>5. 1 \in S
      <3>1. 1 \in 1 .. m /\ (1 - 1) * BlockSize = 0
        BY <2>1, PoolAssumption
      <3>2. s[1] = [i \in 1 .. UptoBlock(t, 1) - 0 |-> RowAt(t, lay, 0 + i)]
        BY <2>4, <3>1
      <3>3. UptoBlock(t, 1) \in Nat
        BY <2>4, <3>1
      <3>4. s[1] = FirstRows(t, lay, 1)
        BY <3>2, <3>3 DEF FirstRows
      <3> QED BY <2>3, <3>1, <3>4
    <2>6. ASSUME NEW k \in 1 .. m - 1, k \in S PROVE k + 1 \in S
      <3>1. k \in 1 .. m /\ k + 1 \in 1 .. m /\ k + 1 # 1 /\ (k + 1) - 1 = k /\ k + 1 > 1
        BY <2>1
      <3> DEFINE from == k * BlockSize
                 upto == UptoBlock(t, k + 1)
                 R(i) == RowAt(t, lay, i)
      <3>2. /\ from \in Nat /\ upto \in Nat /\ from <= upto /\ UptoBlock(t, k) = from
            /\ s[k + 1] = [i \in 1 .. upto - from |-> R(from + i)]
        BY <2>4, <3>1
      <3>3. f[k] = [i \in 1 .. from |-> R(i)]
        BY <2>6, <3>2 DEF FirstRows
      <3>4. f[k + 1] = f[k] \o s[k + 1]
        BY <2>3, <3>1
      <3> HIDE DEF from, upto, R
      <3>5. f[k] \o s[k + 1] = [i \in 1 .. upto |-> R(i)]
        <4> DEFINE g == [i \in 1 .. upto |-> R(i)]
        <4>1. f[k] = [i \in 1 .. from |-> g[i]]
          <5>1. \A i \in 1 .. from : g[i] = R(i)
            BY <3>2
          <5> HIDE DEF g
          <5> QED BY <3>3, <5>1
        <4>2. s[k + 1] = [i \in 1 .. upto - from |-> g[from + i]]
          <5>1. \A i \in 1 .. upto - from : g[from + i] = R(from + i)
            BY <3>2
          <5> HIDE DEF g
          <5> QED BY <3>2, <5>1
        <4> QED BY <3>2, <4>1, <4>2, JoinRows
      <3>6. f[k + 1] = FirstRows(t, lay, k + 1)
        BY <3>4, <3>5 DEF FirstRows, upto, R
      <3> QED BY <3>1, <3>6
    <2>7. m \in S
      <3> HIDE DEF S
      <3>1. 1 .. m \subseteq S
        BY <2>1, <2>5, <2>6, Climb
      <3> QED BY <2>1, <3>1
    <2>8. f[m] = [i \in 1 .. n |-> RowAt(t, lay, i)]
      BY <2>7 DEF FirstRows, UptoBlock, m
    <2> QED BY <1>2, <1>3, <2>2, <2>8
  <1> QED BY <1>5, <1>6

\* The gathering attention kernel sees the rows of the direct one, whatever the
\* block size, the number of tokens and the pages a conversation was given.
THEOREM KernelsAlwaysAgree == Spec => []KernelsAgree
  <1>1. PoolInv => KernelsAgree
    <2> SUFFICES ASSUME PoolInv, NEW r \in Requests, NEW lay \in LayerIds, ValidTable(table[r])
                 PROVE  GatheredRows(table[r], lay) = DirectRows(table[r], lay)
      BY DEF KernelsAgree
    <2>1. table[r].numTokens \in Nat
      BY DEF PoolInv, TypeOK
    <2> QED BY <2>1, GatheredInOrder DEF ValidTable
  <1> QED BY <1>1, PoolInvariant, PTL
----------------------------------------------------------------------------
(* The pool implements KVRows: private contiguous rows.                    *)

\* Two rows have one address only if they are the same row of the same page
\* in the same layer.
LEMMA AddressesDiffer ==
    ASSUME NEW b \in Blocks, NEW c \in Blocks, NEW k \in LayerIds, NEW l \in LayerIds,
           NEW o \in 0 .. BlockSize - 1, NEW p \in 0 .. BlockSize - 1,
           AddressIn(b, k, o) = AddressIn(c, l, p)
    PROVE  b = c /\ k = l /\ o = p
  <1>1. BlockSize \in Nat \ {0} /\ Layers \in Nat \ {0}
    BY PoolAssumption
  <1>2. b \in Int /\ c \in Int /\ k \in 0 .. Layers - 1 /\ l \in 0 .. Layers - 1
    BY PoolAssumption DEF Blocks, LayerIds
  <1> DEFINE x == Layers * b + k
             y == Layers * c + l
  <1>3. x \in Int /\ y \in Int
    BY <1>1, <1>2
  <1>4. AddressIn(b, k, o) = BlockSize * x + o
    BY <1>1, <1>2, Z3 DEF AddressIn
  <1>5. AddressIn(c, l, p) = BlockSize * y + p
    BY <1>1, <1>2, Z3 DEF AddressIn
  <1>6. x = y /\ o = p
    <2> HIDE DEF x, y
    <2> QED BY <1>1, <1>3, <1>4, <1>5, OneQuotient
  <1> QED BY <1>1, <1>2, <1>6, OneQuotient

\* The address of a row is one of the pool.
LEMMA AddressInPool ==
    ASSUME NEW b \in Blocks, NEW k \in LayerIds, NEW o \in 0 .. BlockSize - 1
    PROVE  AddressIn(b, k, o) \in Addresses
  <1>1. BlockSize \in Nat \ {0} /\ Layers \in Nat \ {0} /\ TotalBlocks \in Nat \ {0}
    BY PoolAssumption
  <1>2. /\ b \in Nat /\ b <= TotalBlocks - 1 /\ k \in Nat /\ k <= Layers - 1
        /\ o \in Nat /\ o <= BlockSize - 1
    BY <1>1 DEF Blocks, LayerIds
  <1> DEFINE s == Layers * BlockSize
  <1>3. s \in Nat /\ b * s + s <= TotalBlocks * s /\ b * s \in Nat /\ TotalBlocks * s \in Nat
    <2>1. s \in Nat
      BY <1>1
    <2> HIDE DEF s
    <2>2. (b + 1) * s <= TotalBlocks * s
      BY <1>1, <1>2, <2>1, Z3
    <2>3. (b + 1) * s = b * s + s
      BY <1>2, <2>1, Z3
    <2> QED BY <1>1, <1>2, <2>1, <2>2, <2>3
  <1>4. k * BlockSize \in Nat /\ k * BlockSize + BlockSize <= s
    <2>1. (k + 1) * BlockSize <= Layers * BlockSize
      BY <1>1, <1>2, Z3
    <2>2. (k + 1) * BlockSize = k * BlockSize + BlockSize
      BY <1>1, <1>2, Z3
    <2> QED BY <1>1, <1>2, <2>1, <2>2
  <1>5. TotalBlocks * Layers * BlockSize = TotalBlocks * s
    BY <1>1, Z3
  <1> DEFINE u == b * s
             v == k * BlockSize
             w == TotalBlocks * s
  <1>6. AddressIn(b, k, o) = u + v + o
    BY DEF AddressIn
  <1> HIDE DEF s, u, v, w
  <1>7. u \in Nat /\ v \in Nat /\ w \in Nat /\ s \in Nat /\ u + s <= w /\ v + BlockSize <= s
    BY <1>3, <1>4 DEF u, v, w
  <1>8. u + v + o \in 0 .. w - 1
    BY <1>1, <1>2, <1>7
  <1> QED BY <1>5, <1>6, <1>8 DEF Addresses, w

\* A token position of a table lies in one of its pages.
LEMMA PositionFits ==
    ASSUME NEW n \in Nat, NEW pos \in 0 .. n - 1
    PROVE  /\ pos \in Nat /\ pos \div BlockSize + 1 \in 1 .. BlocksFor(n)
           /\ pos % BlockSize \in 0 .. BlockSize - 1
           /\ pos = BlockSize * (pos \div BlockSize) + (pos % BlockSize)
  <1>1. BlockSize \in Nat \ {0} /\ pos \in Nat /\ pos < n /\ n > 0
    BY PoolAssumption
  <1>2. /\ pos \div BlockSize \in Nat /\ pos % BlockSize \in 0 .. BlockSize - 1
        /\ pos = BlockSize * (pos \div BlockSize) + (pos % BlockSize)
    BY <1>1, DivMod
  <1> DEFINE q == pos \div BlockSize
             m == pos % BlockSize
             k == BlocksFor(n)
  <1>3. k \in Nat /\ n <= k * BlockSize
    BY LastBlock
  <1>4. q + 1 <= k
    <2> SUFFICES ASSUME k <= q PROVE FALSE
      <3> HIDE DEF q, k
      <3> QED BY <1>2, <1>3 DEF q
    <2>1. q \in Nat /\ m \in Nat /\ pos = BlockSize * q + m
      BY <1>1, <1>2
    <2> HIDE DEF q, m, k
    <2>2. BlockSize * k <= BlockSize * q
      BY <1>1, <1>3, <2>1, Z3
    <2>3. k * BlockSize = BlockSize * k
      BY <1>1, <1>3, Z3
    <2> DEFINE x == BlockSize * k
               y == BlockSize * q
    <2>4. x \in Int /\ y \in Int /\ n <= x /\ x <= y /\ pos = y + m
      BY <1>1, <1>3, <2>1, <2>2, <2>3
    <2> HIDE DEF x, y
    <2> QED BY <1>1, <2>1, <2>4
  <1> QED BY <1>1, <1>2, <1>3, <1>4

\* Where the rows of a live table are.
LEMMA RowsOfTable ==
    ASSUME NEW t, t.live, t.numTokens \in Nat, t.ids \in Seq(Blocks), TableShape(t),
           NEW pos \in 0 .. t.numTokens - 1, NEW lay \in LayerIds
    PROVE  /\ t.ids[pos \div BlockSize + 1] \in Blocks
           /\ pos \div BlockSize + 1 \in 1 .. Len(t.ids)
           /\ Locate(t, lay, pos) \in Addresses
  <1>1. /\ pos \div BlockSize + 1 \in 1 .. Len(t.ids)
        /\ pos % BlockSize \in 0 .. BlockSize - 1
    BY PositionFits DEF TableShape
  <1>2. t.ids[pos \div BlockSize + 1] \in Blocks
    BY <1>1
  <1>3. Locate(t, lay, pos) \in Addresses
    BY <1>1, <1>2, AddressInPool DEF Locate
  <1> QED BY <1>1, <1>2, <1>3

\* What the invariant says of a live table.
LEMMA TableOf ==
    ASSUME PoolInv, NEW r \in Requests
    PROVE  table[r].numTokens \in Nat /\ table[r].ids \in Seq(Blocks) /\ TableShape(table[r])
  BY DEF PoolInv, TypeOK

\* No two rows of live tables share an address.
LEMMA RowsAreApart ==
    ASSUME PoolInv, NEW r \in Requests, NEW s \in Requests, table[r].live, table[s].live,
           NEW i \in 0 .. table[r].numTokens - 1, NEW j \in 0 .. table[s].numTokens - 1,
           NEW k \in LayerIds, NEW l \in LayerIds,
           Locate(table[r], k, i) = Locate(table[s], l, j)
    PROVE  r = s /\ k = l /\ i = j
  <1> DEFINE a == i \div BlockSize
             b == j \div BlockSize
             c == table[r].ids[a + 1]
             d == table[s].ids[b + 1]
             u == i % BlockSize
             v == j % BlockSize
  <1>1. /\ a + 1 \in 1 .. Len(table[r].ids) /\ c \in Blocks /\ table[r].ids \in Seq(Blocks)
        /\ b + 1 \in 1 .. Len(table[s].ids) /\ d \in Blocks /\ table[s].ids \in Seq(Blocks)
    BY TableOf, RowsOfTable
  <1>2. /\ u \in 0 .. BlockSize - 1 /\ i = BlockSize * a + u
        /\ v \in 0 .. BlockSize - 1 /\ j = BlockSize * b + v
    BY TableOf, PositionFits
  <1>3. AddressIn(c, k, u) = AddressIn(d, l, v)
    BY DEF Locate
  <1> HIDE DEF a, b, u, v
  <1>4. c = d /\ k = l /\ u = v
    <2>1. c \in Blocks /\ d \in Blocks /\ u \in 0 .. BlockSize - 1 /\ v \in 0 .. BlockSize - 1
      BY <1>1, <1>2
    <2> HIDE DEF c, d
    <2> QED BY <2>1, <1>3, AddressesDiffer
  <1>5. c \in Held(r) /\ d \in Held(s)
    BY <1>1 DEF Held, Range
  <1>6. r = s
    BY <1>4, <1>5 DEF PoolInv, BlockOwnedOnce
  <1>7. a + 1 = b + 1
    <2>1. IsInjective(table[r].ids)
      BY DEF PoolInv, BlockOwnedOnce
    <2> QED BY <1>1, <1>4, <1>6, <2>1 DEF IsInjective
  <1>8. a \in Int /\ b \in Int
    BY PoolAssumption DEF a, b
  <1>9. a = b
    BY <1>7, <1>8
  <1> QED BY <1>2, <1>4, <1>6, <1>9
\* The rows of a request in a layer, and what they are made of.
RowsIn(r, lay) == IF table[r].live THEN DirectRows(table[r], lay) ELSE <<>>
Content == Vals \cup {Zero}

LEMMA RowsAreRowsIn == Rows = [r \in Requests |-> [lay \in LayerIds |-> RowsIn(r, lay)]]
  BY DEF Rows, RowsIn

LEMMA RowsTyped ==
    ASSUME PoolInv, NEW r \in Requests, NEW lay \in LayerIds
    PROVE  /\ RowsIn(r, lay) \in Seq(Content)
           /\ table[r].live => /\ Len(RowsIn(r, lay)) = table[r].numTokens
                               /\ \A i \in 1 .. table[r].numTokens :
                                    RowsIn(r, lay)[i] = mem[Locate(table[r], lay, i - 1)]
  <1>1. CASE ~ table[r].live
    BY <1>1 DEF RowsIn
  <1>2. CASE table[r].live
    <2> DEFINE n == table[r].numTokens
               t == table[r]
    <2>1. n \in Nat /\ t.ids \in Seq(Blocks) /\ TableShape(t)
      BY TableOf
    <2>2. \A i \in 1 .. n : mem[Locate(t, lay, i - 1)] \in Content
      <3> SUFFICES ASSUME NEW i \in 1 .. n PROVE mem[Locate(t, lay, i - 1)] \in Content
        OBVIOUS
      <3>1. i - 1 \in 0 .. n - 1
        BY <2>1
      <3>2. Locate(t, lay, i - 1) \in Addresses
        BY <1>2, <2>1, <3>1, RowsOfTable
      <3> QED BY <3>2 DEF PoolInv, TypeOK, Content
    <2>3. RowsIn(r, lay) = [i \in 1 .. n |-> mem[Locate(t, lay, i - 1)]]
      BY <1>2 DEF RowsIn, DirectRows
    <2> HIDE DEF n, t
    <2>4. /\ RowsIn(r, lay) \in Seq(Content) /\ Len(RowsIn(r, lay)) = n
          /\ \A i \in 1 .. n : RowsIn(r, lay)[i] = mem[Locate(t, lay, i - 1)]
      BY <2>1, <2>2, <2>3
    <2> QED BY <2>4 DEF n, t
  <1> QED BY <1>1, <1>2

\* A request whose table and rows nobody touches keeps its rows.
LEMMA RowsStay ==
    ASSUME NEW r \in Requests, NEW lay \in LayerIds, mem' = mem, table'[r] = table[r]
    PROVE  RowsIn(r, lay)' = RowsIn(r, lay)
  BY DEF RowsIn, DirectRows, Locate

\* A new table is empty, as no table is.
LEMMA InitKeepsRows ==
    ASSUME PoolInv, NEW r \in Requests, NEW wanted, TableInit(r, wanted)
    PROVE  Rows' = Rows
  <1>1. /\ mem' = mem /\ ~ table[r].live
        /\ \A x \in Requests : x # r => table'[x] = table[x]
        /\ table'[r].live /\ table'[r].numTokens = 0
    BY DEF TableInit, PoolInv, TypeOK
  <1>2. \A x \in Requests, lay \in LayerIds : RowsIn(x, lay)' = RowsIn(x, lay)
    <2> SUFFICES ASSUME NEW x \in Requests, NEW lay \in LayerIds
                 PROVE  RowsIn(x, lay)' = RowsIn(x, lay)
      OBVIOUS
    <2>1. CASE x # r
      BY <1>1, <2>1, RowsStay
    <2>2. CASE x = r
      <3>1. RowsIn(r, lay)' = [i \in 1 .. 0 |-> mem'[Locate(table'[r], lay, i - 1)]]
        BY <1>1 DEF RowsIn, DirectRows, Locate
      <3>2. RowsIn(r, lay)' = <<>>
        BY <3>1
      <3> QED BY <1>1, <2>2, <3>2 DEF RowsIn
    <2> QED BY <2>1, <2>2
  <1> QED BY <1>2 DEF Rows, RowsIn

\* A token adds one row to every layer of its own request, to no other.
LEMMA TokenAddsRow ==
    ASSUME PoolInv, PoolInv', NEW r \in Requests, table[r].live, table'[r].live, mem' = mem,
           table'[r].numTokens = table[r].numTokens + 1,
           \A i \in 1 .. Len(table[r].ids) : table'[r].ids[i] = table[r].ids[i],
           \A x \in Requests : x # r => table'[x] = table[x]
    PROVE  Contiguous!AddRow(r)
  <1> DEFINE old == table[r]
             t == table'[r]
             n == table[r].numTokens
             fresh == [lay \in LayerIds |-> mem[Locate(t, lay, n)]]
  <1>1. n \in Nat /\ old.ids \in Seq(Blocks) /\ TableShape(old)
    BY TableOf
  <1>2. t.numTokens = n + 1 /\ t.ids \in Seq(Blocks) /\ TableShape(t) /\ t.numTokens \in Nat
    <2>1. t.ids \in Seq(Blocks) /\ TableShape(t)
      BY DEF PoolInv, TypeOK
    <2> QED BY <1>1, <2>1
  <1>3. fresh \in [LayerIds -> Content]
    <2> SUFFICES ASSUME NEW lay \in LayerIds PROVE mem[Locate(t, lay, n)] \in Content
      OBVIOUS
    <2>1. n \in 0 .. t.numTokens - 1
      BY <1>1, <1>2
    <2>2. Locate(t, lay, n) \in Addresses
      BY <1>2, <2>1, RowsOfTable
    <2> QED BY <2>2 DEF PoolInv, TypeOK, Content
  <1>4. ASSUME NEW lay \in LayerIds
        PROVE  RowsIn(r, lay)' = Append(RowsIn(r, lay), fresh[lay])
    <2>1. \A i \in 1 .. n : Locate(t, lay, i - 1) = Locate(old, lay, i - 1)
      <3> SUFFICES ASSUME NEW i \in 1 .. n PROVE Locate(t, lay, i - 1) = Locate(old, lay, i - 1)
        OBVIOUS
      <3>1. i - 1 \in 0 .. n - 1
        BY <1>1
      <3>2. (i - 1) \div BlockSize + 1 \in 1 .. Len(old.ids)
        BY <1>1, <3>1, RowsOfTable
      <3> QED BY <3>2 DEF Locate
    <2>2. RowsIn(r, lay)' = [i \in 1 .. n + 1 |-> mem[Locate(t, lay, i - 1)]]
      BY <1>2 DEF RowsIn, DirectRows, Locate
    <2> DEFINE p == RowsIn(r, lay)
               q == [i \in 1 .. n + 1 |-> mem[Locate(t, lay, i - 1)]]
    <2>3. p \in Seq(Content) /\ Len(p) = n /\ \A i \in 1 .. n : p[i] = mem[Locate(old, lay, i - 1)]
      BY RowsTyped
    <2>4. fresh[lay] \in Content /\ fresh[lay] = mem[Locate(t, lay, n)]
      BY <1>3
    <2> HIDE DEF p, fresh, t, old, n
    <2>5. /\ Append(p, fresh[lay]) \in Seq(Content) /\ Len(Append(p, fresh[lay])) = n + 1
          /\ \A i \in 1 .. n : Append(p, fresh[lay])[i] = p[i]
          /\ Append(p, fresh[lay])[n + 1] = fresh[lay]
      BY <1>1, <2>3, <2>4
    <2>6. \A i \in 1 .. n + 1 : Append(p, fresh[lay])[i] = mem[Locate(t, lay, i - 1)]
      <3> SUFFICES ASSUME NEW i \in 1 .. n + 1
                   PROVE  Append(p, fresh[lay])[i] = mem[Locate(t, lay, i - 1)]
        OBVIOUS
      <3>1. CASE i \in 1 .. n
        BY <2>1, <2>3, <2>5, <3>1
      <3>2. CASE i = n + 1
        <4>1. i - 1 = n
          BY <1>1, <3>2
        <4> QED BY <2>4, <2>5, <3>2, <4>1
      <3>3. i \in 1 .. n \/ i = n + 1
        BY <1>1
      <3> QED BY <3>1, <3>2, <3>3
    <2>7. Append(p, fresh[lay]) = q
      BY <1>1, <2>5, <2>6
    <2> QED BY <2>2, <2>7 DEF p
  <1>5. \A x \in Requests, lay \in LayerIds : x # r => RowsIn(x, lay)' = RowsIn(x, lay)
    BY RowsStay
  <1> HIDE DEF fresh
  <1>6. Rows' = [Rows EXCEPT ![r] = [lay \in LayerIds |-> Append(Rows[r][lay], fresh[lay])]]
    <2>1. Rows' = [x \in Requests |-> [lay \in LayerIds |-> RowsIn(x, lay)']]
      BY DEF Rows, RowsIn
    <2>2. Rows = [x \in Requests |-> [lay \in LayerIds |-> RowsIn(x, lay)]]
      BY RowsAreRowsIn
    <2>3. \A lay \in LayerIds : Rows[r][lay] = RowsIn(r, lay)
      BY <2>2
    <2>4. [lay \in LayerIds |-> RowsIn(r, lay)'] =
            [lay \in LayerIds |-> Append(Rows[r][lay], fresh[lay])]
      BY <1>4, <2>3
    <2>5. \A x \in Requests : x # r => [lay \in LayerIds |-> RowsIn(x, lay)'] = Rows[x]
      BY <1>5, <2>2
    <2> QED BY <2>1, <2>2, <2>4, <2>5
  <1>7. Contiguous!LayerIds = LayerIds /\ Contiguous!Content = Content
    BY DEF Contiguous!LayerIds, LayerIds, Contiguous!Content, Content
  <1> QED BY <1>3, <1>6, <1>7 DEF Contiguous!AddRow
\* A write changes the one row it is meant for, of one request in one layer.
LEMMA WriteChangesRow ==
    ASSUME PoolInv, NEW r \in Requests, NEW lay \in LayerIds, NEW pos \in 0 .. MaxTokens - 1,
           NEW v \in Vals, Write(r, lay, pos, v)
    PROVE  Contiguous!WriteRow(r)
  <1> DEFINE n == table[r].numTokens
             a == Locate(table[r], lay, pos)
  <1>1. /\ table[r].live /\ pos \in 0 .. n - 1 /\ table' = table
        /\ mem' = [mem EXCEPT ![a] = v]
    BY DEF Write
  <1>2. n \in Nat /\ pos \in Nat /\ pos + 1 \in 1 .. n
    <2>1. n \in Nat
      BY TableOf
    <2> HIDE DEF n
    <2> QED BY <1>1, <2>1
  <1>3. a \in Addresses
    BY <1>1, TableOf, RowsOfTable
  <1>4. mem \in [Addresses -> Content] /\ v \in Content
    BY DEF PoolInv, TypeOK, Content
  <1> HIDE DEF a, n
  <1>5. /\ mem'[a] = v
        /\ \A b \in Addresses : b # a => mem'[b] = mem[b]
    BY <1>1, <1>3, <1>4
  <1>6. ASSUME NEW x \in Requests, NEW l \in LayerIds, table[x].live,
               NEW i \in 1 .. table[x].numTokens
        PROVE  mem'[Locate(table[x], l, i - 1)] =
                 IF x = r /\ l = lay /\ i = pos + 1 THEN v ELSE RowsIn(x, l)[i]
    <2>1. i - 1 \in 0 .. table[x].numTokens - 1 /\ i \in Int
      BY TableOf
    <2>2. Locate(table[x], l, i - 1) \in Addresses
      BY <1>6, <2>1, TableOf, RowsOfTable
    <2>3. CASE x = r /\ l = lay /\ i = pos + 1
      <3>1. i - 1 = pos
        BY <1>2, <2>3
      <3> QED BY <1>5, <2>3, <3>1 DEF a
    <2>4. CASE ~ (x = r /\ l = lay /\ i = pos + 1)
      <3>1. ~ (x = r /\ l = lay /\ i - 1 = pos)
        BY <1>2, <2>1, <2>4
      <3>2. Locate(table[x], l, i - 1) # a
        BY <1>1, <1>6, <2>1, <3>1, RowsAreApart DEF a, n
      <3> QED BY <1>5, <1>6, <2>2, <2>4, <3>2, RowsTyped
    <2> QED BY <2>3, <2>4
  <1> DEFINE seq == [RowsIn(r, lay) EXCEPT ![pos + 1] = v]
  <1>7. RowsIn(r, lay)' = seq
    <2> DEFINE p == RowsIn(r, lay)
    <2>1. p \in Seq(Content) /\ Len(p) = n
      BY <1>1, RowsTyped DEF n
    <2>2. RowsIn(r, lay)' = [i \in 1 .. n |-> mem'[Locate(table[r], lay, i - 1)]]
      BY <1>1 DEF RowsIn, DirectRows, Locate, n
    <2>3. \A i \in 1 .. n : mem'[Locate(table[r], lay, i - 1)] = IF i = pos + 1 THEN v ELSE p[i]
      BY <1>1, <1>6 DEF n
    <2> HIDE DEF p
    <2>4. [p EXCEPT ![pos + 1] = v] = [i \in 1 .. n |-> IF i = pos + 1 THEN v ELSE p[i]]
      <3>1. DOMAIN p = 1 .. n /\ p = [i \in 1 .. n |-> p[i]]
        BY <1>2, <2>1
      <3> QED BY <3>1, Zenon
    <2> QED BY <2>2, <2>3, <2>4 DEF p
  <1>8. ASSUME NEW x \in Requests, NEW l \in LayerIds, ~ (x = r /\ l = lay)
        PROVE  RowsIn(x, l)' = RowsIn(x, l)
    <2>1. CASE ~ table[x].live
      BY <1>1, <2>1 DEF RowsIn
    <2>2. CASE table[x].live
      <3> DEFINE m == table[x].numTokens
                 p == RowsIn(x, l)
      <3>1. RowsIn(x, l)' = [i \in 1 .. m |-> mem'[Locate(table[x], l, i - 1)]]
        BY <1>1, <2>2 DEF RowsIn, DirectRows, Locate
      <3>2. p \in Seq(Content) /\ Len(p) = m
        BY <2>2, RowsTyped
      <3>3. \A i \in 1 .. m : mem'[Locate(table[x], l, i - 1)] = p[i]
        BY <1>6, <1>8, <2>2
      <3>4. m \in Nat
        BY TableOf
      <3> HIDE DEF m, p
      <3>5. p = [i \in 1 .. m |-> p[i]]
        BY <3>2, <3>4
      <3> QED BY <3>1, <3>3, <3>5 DEF p
    <2> QED BY <2>1, <2>2
  <1>9. Rows' = [Rows EXCEPT ![r][lay][pos + 1] = v]
    <2>1. Rows' = [x \in Requests |-> [l \in LayerIds |-> RowsIn(x, l)']]
      BY DEF Rows, RowsIn
    <2>2. Rows = [x \in Requests |-> [l \in LayerIds |-> RowsIn(x, l)]]
      BY RowsAreRowsIn
    <2>3. Rows[r][lay] = RowsIn(r, lay) /\ Rows[r] = [l \in LayerIds |-> RowsIn(r, l)]
      BY <2>2
    <2> HIDE DEF seq
    <2>4. [l \in LayerIds |-> RowsIn(r, l)'] = [Rows[r] EXCEPT ![lay] = seq]
      BY <1>7, <1>8, <2>3
    <2>5. \A x \in Requests : x # r => [l \in LayerIds |-> RowsIn(x, l)'] = Rows[x]
      BY <1>8, <2>2
    <2> DEFINE w == [Rows[r] EXCEPT ![lay] = seq]
    <2>6. Rows' = [Rows EXCEPT ![r] = w]
      <3>1. \A x \in Requests : [l \in LayerIds |-> RowsIn(x, l)'] = IF x = r THEN w ELSE Rows[x]
        BY <2>4, <2>5
      <3>2. DOMAIN Rows = Requests
        BY <2>2
      <3> HIDE DEF w
      <3>3. [Rows EXCEPT ![r] = w] = [x \in Requests |-> IF x = r THEN w ELSE Rows[x]]
        BY <3>2, Zenon
      <3> QED BY <2>1, <3>1, <3>3, Zenon
    <2>7. seq = [Rows[r][lay] EXCEPT ![pos + 1] = v]
      BY <2>3 DEF seq
    <2> QED BY <2>6, <2>7
  <1>10. pos + 1 \in DOMAIN Rows[r][lay]
    <2>1. Rows[r][lay] = RowsIn(r, lay)
      BY RowsAreRowsIn
    <2>2. RowsIn(r, lay) \in Seq(Content) /\ Len(RowsIn(r, lay)) = n
      BY <1>1, RowsTyped DEF n
    <2> QED BY <1>2, <2>1, <2>2
  <1>11. Contiguous!LayerIds = LayerIds
    BY DEF Contiguous!LayerIds, LayerIds
  <1> QED BY <1>9, <1>10, <1>11 DEF Contiguous!WriteRow

\* A free empties the rows of its request, and nobody else's.
LEMMA FreeClearsRows ==
    ASSUME PoolInv, NEW r \in Requests, TableFree(r)
    PROVE  Contiguous!Clear(r)
  <1>1. /\ mem' = mem /\ ~ table'[r].live
        /\ \A x \in Requests : x # r => table'[x] = table[x]
    BY DEF TableFree, PoolInv, TypeOK, NoTable
  <1>2. \A lay \in LayerIds : RowsIn(r, lay)' = <<>>
    BY <1>1 DEF RowsIn
  <1>3. \A x \in Requests, lay \in LayerIds : x # r => RowsIn(x, lay)' = RowsIn(x, lay)
    BY <1>1, RowsStay
  <1>4. Rows' = [x \in Requests |-> [lay \in LayerIds |-> RowsIn(x, lay)']]
    BY DEF Rows, RowsIn
  <1>5. Rows = [x \in Requests |-> [lay \in LayerIds |-> RowsIn(x, lay)]]
    BY RowsAreRowsIn
  <1>6. Rows' = [Rows EXCEPT ![r] = [lay \in LayerIds |-> <<>>]]
    BY <1>2, <1>3, <1>4, <1>5
  <1>7. Contiguous!LayerIds = LayerIds
    BY DEF Contiguous!LayerIds, LayerIds
  <1> QED BY <1>6, <1>7 DEF Contiguous!Clear

LEMMA AppendKeepsRows ==
    ASSUME PoolInv, PoolInv', NEW r \in Requests, AppendToken(r)
    PROVE  Contiguous!AddRow(r)
  <1>1. table \in [Requests -> [live : BOOLEAN, numTokens : Nat, ids : Seq(Blocks), capacity : Nat]]
    BY DEF PoolInv, TypeOK
  <1>2. table[r].live /\ mem' = mem
    BY DEF AppendToken, TakeBlock
  <1>3. \A x \in Requests : x # r => table'[x] = table[x]
    BY <1>1 DEF AppendToken, TakeBlock
  <1>4. CASE NeedsBlock(r)
    <2>1. TakeBlock(r, MustGrow(r)) /\ freeStack # <<>>
      BY <1>4 DEF AppendToken
    <2>2. /\ table'[r].live /\ table'[r].numTokens = table[r].numTokens + 1
          /\ table'[r].ids = Append(table[r].ids, Last(freeStack))
      BY <1>1, <2>1 DEF TakeBlock
    <2>3. table[r].ids \in Seq(Blocks) /\ Last(freeStack) \in Blocks
      BY <2>1, TableOf, Pop DEF PoolInv, TypeOK, BlockOwnedOnce
    <2>4. \A i \in 1 .. Len(table[r].ids) : table'[r].ids[i] = table[r].ids[i]
      BY <2>2, <2>3
    <2> QED BY <1>2, <1>3, <2>2, <2>4, TokenAddsRow
  <1>5. CASE ~ NeedsBlock(r)
    <2> DEFINE u == [table[r] EXCEPT !.numTokens = table[r].numTokens + 1]
    <2>1. table' = [table EXCEPT ![r] = u]
      BY <1>5 DEF AppendToken
    <2>2. u.live = table[r].live /\ u.numTokens = table[r].numTokens + 1 /\ u.ids = table[r].ids
      BY <1>1
    <2>3. table'[r] = u
      BY <1>1, <2>1
    <2> QED BY <1>2, <1>3, <2>2, <2>3, TokenAddsRow
  <1> QED BY <1>4, <1>5

\* Paging is invisible: block tables, shared pages, failed appends and freed
\* tables amount to one private contiguous array of rows per request and layer.
THEOREM PagingIsInvisible == Spec => ImplementsRows
  <1>1. Init => Contiguous!Init
    <2> SUFFICES ASSUME Init PROVE Contiguous!Init
      OBVIOUS
    <2>1. \A r \in Requests : ~ table[r].live
      BY DEF Init, NoTable
    <2> QED BY <2>1 DEF Contiguous!Init, Contiguous!LayerIds, Rows, LayerIds
  <1>2. PoolInv /\ PoolInv' /\ [Next]_vars => [Contiguous!Next]_Rows
    <2> SUFFICES ASSUME PoolInv, PoolInv', [Next]_vars PROVE Contiguous!Next \/ Rows' = Rows
      OBVIOUS
    <2>1. CASE UNCHANGED vars
      <3>1. \A x \in Requests, lay \in LayerIds : RowsIn(x, lay)' = RowsIn(x, lay)
        BY <2>1, RowsStay DEF vars
      <3> QED BY <3>1 DEF Rows, RowsIn
    <2>2. ASSUME NEW r \in Requests, NEW wanted \in {0, TotalBlocks}, TableInit(r, wanted)
          PROVE  Rows' = Rows
      BY <2>2, InitKeepsRows
    <2>3. ASSUME NEW r \in Requests, AppendToken(r) PROVE Contiguous!Next
      BY <2>3, AppendKeepsRows DEF Contiguous!Next
    <2>4. ASSUME NEW r \in Requests, AppendFails(r) PROVE Contiguous!Next \/ Rows' = Rows
      BY <2>1, <2>4, AppendFailsPool
    <2>5. ASSUME NEW r \in Requests, NEW lay \in LayerIds, NEW pos \in 0 .. MaxTokens - 1,
                 NEW v \in Vals, Write(r, lay, pos, v)
          PROVE  Contiguous!Next
      BY <2>5, WriteChangesRow DEF Contiguous!Next
    <2>6. ASSUME NEW r \in Requests, TableFree(r) PROVE Contiguous!Next
      BY <2>6, FreeClearsRows DEF Contiguous!Next
    <2> QED BY <2>1, <2>2, <2>3, <2>4, <2>5, <2>6 DEF Next
  <1> QED BY <1>1, <1>2, PoolInvariant, PTL DEF Spec, ImplementsRows, Contiguous!Spec

----------------------------------------------------------------------------
(* The packed caches: sizes, and the largest and the least of some values.  *)

\* Division rounded up.
LEMMA RoundedUp ==
    ASSUME NEW a \in Nat \ {0}, NEW d \in Nat \ {0}
    PROVE  /\ (a + d - 1) \div d \in Nat \ {0}
           /\ a <= ((a + d - 1) \div d) * d /\ ((a + d - 1) \div d) * d < a + d
  <1> DEFINE q == (a + d - 1) \div d
  <1>1. q \in Int /\ d * q <= a + d - 1 /\ a + d - 1 < d * (q + 1)
    OBVIOUS
  <1> HIDE DEF q
  <1>2. q >= 1
    <2> SUFFICES ASSUME q <= 0 PROVE FALSE
      BY <1>1
    <2>1. d * (q + 1) <= d
      BY <1>1, Z3
    <2> QED BY <1>1, <2>1
  <1>3. d * (q + 1) = q * d + d /\ d * q = q * d
    BY <1>1, Z3
  <1> DEFINE x == q * d
  <1>4. x \in Int /\ d * q = x /\ d * (q + 1) = x + d
    BY <1>1, <1>3
  <1> HIDE DEF x
  <1>5. a <= x /\ x < a + d
    BY <1>1, <1>4
  <1> QED BY <1>1, <1>2, <1>5 DEF q, x

\* The place of cell c of item t, w cells to an item.
LEMMA CellBefore ==
    ASSUME NEW t \in Nat, NEW u \in Nat, t < u, NEW w \in Nat, NEW c \in 0 .. w - 1
    PROVE  t * w + c \in Nat /\ t * w + c < u * w
  <1>1. (t + 1) * w <= u * w
    BY Z3
  <1>2. (t + 1) * w = t * w + w
    BY Z3
  <1> DEFINE x == t * w
             y == u * w
  <1>3. x \in Nat /\ y \in Nat /\ x + w <= y
    BY <1>1, <1>2
  <1> HIDE DEF x, y
  <1>4. x + c \in Nat /\ x + c < y
    BY <1>3
  <1> QED BY <1>4 DEF x, y

LEMMA LargestIs ==
    ASSUME NEW n \in Nat \ {0}, NEW f \in [1 .. n -> Int]
    PROVE  /\ Max({f[k] : k \in 1 .. n}) \in {f[k] : k \in 1 .. n}
           /\ \A k \in 1 .. n : f[k] <= Max({f[i] : i \in 1 .. n})
  <1> DEFINE S == {m \in 1 .. n : \E k \in 1 .. m : \A j \in 1 .. m : f[j] <= f[k]}
             all == {f[k] : k \in 1 .. n}
  <1>1. 1 \in S
    <2>1. 1 \in 1 .. n /\ 1 \in 1 .. 1 /\ \A j \in 1 .. 1 : j = 1
      OBVIOUS
    <2>2. f[1] <= f[1]
      BY <2>1
    <2> QED BY <2>1, <2>2
  <1>2. ASSUME NEW m \in 1 .. n - 1, m \in S PROVE m + 1 \in S
    <2>1. PICK k \in 1 .. m : \A j \in 1 .. m : f[j] <= f[k]
      BY <1>2
    <2>2. m + 1 \in 1 .. n /\ k \in 1 .. m + 1 /\ m + 1 \in 1 .. m + 1 /\ k \in 1 .. n
      OBVIOUS
    <2>3. \A j \in 1 .. m + 1 : j \in 1 .. m \/ j = m + 1
      OBVIOUS
    <2>4. f[m + 1] \in Int /\ f[k] \in Int /\ \A j \in 1 .. m : f[j] \in Int
      BY <2>2
    <2>5. CASE f[m + 1] <= f[k]
      BY <2>1, <2>2, <2>3, <2>5
    <2>6. CASE f[k] <= f[m + 1]
      <3>1. \A j \in 1 .. m : f[j] <= f[m + 1]
        BY <2>1, <2>4, <2>6
      <3>2. \A j \in 1 .. m + 1 : f[j] <= f[m + 1]
        BY <2>3, <2>4, <3>1
      <3> QED BY <2>2, <3>2
    <2> QED BY <2>4, <2>5, <2>6
  <1>3. n \in S
    <2>1. \A k \in 1 .. n - 1 : k \in S => k + 1 \in S
      BY <1>2
    <2>2. n \in Nat /\ n \in 1 .. n
      OBVIOUS
    <2>3. 1 .. n \subseteq S
      <3> HIDE DEF S
      <3> QED BY <1>1, <2>1, <2>2, Climb
    <2> QED BY <2>2, <2>3
  <1>4. PICK k \in 1 .. n : \A j \in 1 .. n : f[j] <= f[k]
    BY <1>3
  <1>5. f[k] \in all /\ \A y \in all : f[k] >= y
    BY <1>4
  <1> HIDE DEF all
  <1>6. Max(all) \in all /\ \A y \in all : Max(all) >= y
    BY <1>5, Zenon DEF Max
  <1>7. all \subseteq Int
    BY DEF all
  <1>8. ASSUME NEW i \in 1 .. n PROVE f[i] <= Max(all)
    <2>1. f[i] \in all
      BY DEF all
    <2> QED BY <1>6, <1>7, <2>1
  <1> QED BY <1>6, <1>8 DEF all

LEMMA LeastIs ==
    ASSUME NEW n \in Nat \ {0}, NEW f \in [1 .. n -> Int]
    PROVE  /\ Min({f[k] : k \in 1 .. n}) \in {f[k] : k \in 1 .. n}
           /\ \A k \in 1 .. n : Min({f[i] : i \in 1 .. n}) <= f[k]
  <1> DEFINE g == [k \in 1 .. n |-> -f[k]]
             all == {f[k] : k \in 1 .. n}
             other == {g[k] : k \in 1 .. n}
  <1>1. g \in [1 .. n -> Int]
    OBVIOUS
  <1>2. /\ Max(other) \in other
        /\ \A k \in 1 .. n : g[k] <= Max(other)
    <2> HIDE DEF g
    <2> QED BY <1>1, LargestIs
  <1>3. PICK k \in 1 .. n : \A j \in 1 .. n : g[j] <= g[k]
    <2>1. PICK k \in 1 .. n : Max(other) = g[k]
      BY <1>2
    <2> QED BY <1>2, <2>1
  <1>4. \A j \in 1 .. n : f[k] <= f[j]
    BY <1>3
  <1>5. f[k] \in all /\ \A y \in all : f[k] <= y
    BY <1>4
  <1> HIDE DEF all
  <1>6. Min(all) \in all /\ \A y \in all : Min(all) <= y
    BY <1>5, Zenon DEF Min
  <1>7. ASSUME NEW i \in 1 .. n PROVE Min(all) <= f[i]
    <2>1. f[i] \in all
      BY DEF all
    <2> QED BY <1>6, <2>1
  <1> QED BY <1>6, <1>7 DEF all

\* Rounding to the nearest leaves at most half a step.
LEMMA HalfAStep ==
    ASSUME NEW a \in Int, NEW s \in Nat \ {0}
    PROVE  LET q == (2 * a + s) \div (2 * s)
           IN  q \in Int /\ 2 * (q * s - a) <= s /\ -2 * (q * s - a) <= s
  <1> DEFINE q == (2 * a + s) \div (2 * s)
             x == q * s
  <1>1. q \in Int /\ (2 * s) * q <= 2 * a + s /\ 2 * a + s < (2 * s) * (q + 1)
    OBVIOUS
  <1> HIDE DEF q
  <1>2. (2 * s) * q = 2 * x /\ (2 * s) * (q + 1) = 2 * x + 2 * s /\ x \in Int
    BY <1>1, Z3
  <1> HIDE DEF x
  <1>3. 2 * (x - a) <= s /\ -2 * (x - a) <= s
    BY <1>1, <1>2
  <1> QED BY <1>1, <1>3 DEF q, x

----------------------------------------------------------------------------
(* The q8 cache.                                                            *)

LEMMA FormatSizes ==
    /\ RowWidth \in Nat \ {0} /\ Heads \in Nat \ {0} /\ HeadDim \in Nat \ {0}
    /\ Q8Group \in Nat \ {0} /\ Q8Blocks \in Nat \ {0} /\ RowWidth <= Q8Blocks * Q8Group
    /\ MaxContext \in Nat \ {0}
  <1>1. Heads \in Nat \ {0} /\ HeadDim \in Nat \ {0} /\ Q8Group \in Nat \ {0} /\ MaxContext \in Nat \ {0}
    BY FormatAssumption, DecoderAssumption
  <1>2. RowWidth \in Nat \ {0}
    BY <1>1, Z3 DEF RowWidth
  <1>3. Q8Blocks \in Nat \ {0} /\ RowWidth <= Q8Blocks * Q8Group
    BY <1>1, <1>2, RoundedUp DEF Q8Blocks
  <1> QED BY <1>1, <1>2, <1>3

\* Cell c of head h.
LEMMA ChannelIs ==
    ASSUME NEW h \in 0 .. Heads - 1, NEW i \in 0 .. HeadDim - 1
    PROVE  h * HeadDim + i \in 0 .. RowWidth - 1
  <1>1. h \in Nat /\ h < Heads /\ Heads \in Nat /\ HeadDim \in Nat
    BY FormatSizes
  <1>2. h * HeadDim + i \in Nat /\ h * HeadDim + i < Heads * HeadDim
    BY <1>1, CellBefore
  <1> QED BY <1>2, FormatSizes DEF RowWidth

\* The block of a channel.
LEMMA Q8BlockOf ==
    ASSUME NEW c \in 0 .. RowWidth - 1
    PROVE  /\ c \div Q8Group \in 0 .. Q8Blocks - 1
           /\ c \in 0 .. Q8Blocks * Q8Group - 1
           /\ (c \div Q8Group) * Q8Group + 1 <= RowWidth
  <1> DEFINE q == c \div Q8Group
             x == Q8Group * q
             y == Q8Blocks * Q8Group
  <1>1. Q8Group \in Nat \ {0} /\ Q8Blocks \in Nat \ {0} /\ RowWidth \in Nat \ {0} /\ RowWidth <= y
    BY FormatSizes
  <1>2. q \in Int /\ Q8Group * q <= c /\ c < Q8Group * (q + 1) /\ c \in Nat
    BY <1>1
  <1> HIDE DEF q
  <1>3. x \in Int /\ y \in Int /\ Q8Group * (q + 1) = x + Q8Group /\ q * Q8Group = x
    BY <1>1, <1>2, Z3
  <1>4. q >= 0
    <2> SUFFICES ASSUME q + 1 <= 0 PROVE FALSE
      BY <1>2
    <2> DEFINE n == -(q + 1)
    <2>1. n \in Nat /\ q + 1 = -n
      BY <1>2
    <2> HIDE DEF n
    <2>2. Q8Group * n \in Nat /\ Q8Group * (-n) = -(Q8Group * n)
      BY <1>1, <2>1, Z3
    <2>3. c < -(Q8Group * n)
      BY <1>2, <2>1, <2>2
    <2> QED BY <1>2, <2>2, <2>3
  <1>5. q < Q8Blocks
    <2> SUFFICES ASSUME Q8Blocks <= q PROVE FALSE
      BY <1>1, <1>2
    <2>1. y <= x
      BY <1>1, <1>2, Z3
    <2> HIDE DEF x, y
    <2> QED BY <1>1, <1>2, <1>3, <2>1
  <1> HIDE DEF x, y
  <1> QED BY <1>1, <1>2, <1>3, <1>4, <1>5 DEF q, x, y

\* The scale of a block of values is positive.
LEMMA Q8ScaleIs ==
    ASSUME NEW v \in Seq(Int), v # <<>>
    PROVE  Q8Scale(v) \in Nat \ {0}
  <1> DEFINE n == Len(v)
             f == [k \in 1 .. n |-> IF v[k] < 0 THEN -v[k] ELSE v[k]]
  <1>1. n \in Nat \ {0} /\ DOMAIN v = 1 .. n /\ \A k \in 1 .. n : v[k] \in Int
    OBVIOUS
  <1> HIDE DEF n
  <1>2. f \in [1 .. n -> Int] /\ \A k \in 1 .. n : f[k] \in Nat
    BY <1>1
  <1>3. {IF v[k] < 0 THEN -v[k] ELSE v[k] : k \in DOMAIN v} = {f[k] : k \in 1 .. n}
    BY <1>1
  <1> HIDE DEF f
  <1> DEFINE top == Max({f[k] : k \in 1 .. n})
  <1>4. top \in Nat
    BY <1>1, <1>2, LargestIs
  <1>5. Q8Scale(v) = IF top = 0 THEN 127 ELSE top
    BY <1>3 DEF Q8Scale
  <1> HIDE DEF top
  <1> QED BY <1>4, <1>5

\* What is kept of a row: scales and codes, each within half a step.
LEMMA Q8VectorIs ==
    ASSUME NEW r \in Vals
    PROVE  LET new == Q8Vector(Channels(r)) IN
           /\ DOMAIN new.scales = 0 .. Q8Blocks - 1 /\ DOMAIN new.codes = 0 .. Q8Blocks * Q8Group - 1
           /\ \A c \in 0 .. RowWidth - 1 :
                LET s == new.scales[c \div Q8Group]
                    off == new.codes[c] * s - Channels(r)[c + 1] * 127
                IN 2 * off <= s /\ -2 * off <= s
  <1> DEFINE v == Channels(r)
             new == Q8Vector(v)
  <1>1. v \in Seq(Int) /\ Len(v) = RowWidth
    BY RowAssumption
  <1> HIDE DEF v
  <1>2. /\ new.scales = [b \in 0 .. Q8Blocks - 1 |-> Q8Scale(Q8Values(v, b))]
        /\ new.codes = [c \in 0 .. Q8Blocks * Q8Group - 1 |->
                          IF c < Len(v) THEN Q8Round(v[c + 1], Q8Scale(Q8Values(v, c \div Q8Group))) ELSE 0]
    BY DEF Q8Vector
  <1> HIDE DEF new
  <1>3. ASSUME NEW c \in 0 .. RowWidth - 1
        PROVE  LET s == new.scales[c \div Q8Group]
                   off == new.codes[c] * s - v[c + 1] * 127
               IN 2 * off <= s /\ -2 * off <= s
    <2> DEFINE b == c \div Q8Group
               part == Q8Values(v, b)
               s == Q8Scale(part)
               from == b * Q8Group + 1
               to == Min({Len(v), (b + 1) * Q8Group})
    <2>0. c \in Int /\ c < RowWidth /\ c + 1 \in 1 .. RowWidth /\ v[c + 1] \in Int
      BY <1>1, FormatSizes
    <2>1. b \in 0 .. Q8Blocks - 1 /\ c \in 0 .. Q8Blocks * Q8Group - 1 /\ from <= RowWidth
      BY Q8BlockOf
    <2>2. new.scales[b] = s /\ new.codes[c] = Q8Round(v[c + 1], s)
      BY <1>1, <1>2, <2>0, <2>1
    <2>3. part \in Seq(Int) /\ part # <<>>
      <3>1. b \in Nat /\ from \in Nat /\ from >= 1
        BY <2>1, FormatSizes, Z3
      <3>2. to \in {Len(v), (b + 1) * Q8Group} /\ from <= to /\ to \in Nat /\ to <= Len(v)
        <4> DEFINE w == (b + 1) * Q8Group
        <4>1. w \in Nat /\ from <= w
          <5>1. (b + 1) * Q8Group = b * Q8Group + Q8Group /\ b * Q8Group \in Nat
            BY <3>1, FormatSizes, Z3
          <5> QED BY <5>1, FormatSizes
        <4> HIDE DEF w
        <4>2. Len(v) \in Nat /\ from <= Len(v)
          BY <1>1, <2>1
        <4> HIDE DEF from
        <4>3. \E x \in {Len(v), w} : \A y \in {Len(v), w} : x <= y
          BY <4>1, <4>2
        <4>4. Min({Len(v), w}) \in {Len(v), w} /\ \A y \in {Len(v), w} : Min({Len(v), w}) <= y
          BY <4>3, Zenon DEF Min
        <4> QED BY <4>1, <4>2, <4>4 DEF w
      <3> HIDE DEF from, to, b
      <3>3. \A k \in from .. to : v[k] \in Int
        BY <1>1, <3>1, <3>2
      <3>4. SubSeq(v, from, to) \in Seq(Int) /\ Len(SubSeq(v, from, to)) = to - from + 1
        BY <3>1, <3>2, <3>3, SubSeqProperties, <1>1
      <3>5. part = SubSeq(v, from, to)
        BY DEF Q8Values, from, to
      <3>6. from \in Int /\ to \in Int /\ from <= to
        BY <3>1, <3>2
      <3>7. Len(part) = to - from + 1 /\ part \in Seq(Int)
        BY <3>4, <3>5
      <3> HIDE DEF part
      <3>8. Len(part) >= 1
        BY <3>6, <3>7
      <3> QED BY <3>7, <3>8, EmptySeq
    <2> HIDE DEF part
    <2>4. s \in Nat \ {0}
      BY <2>3, Q8ScaleIs
    <2> HIDE DEF s, b
    <2> DEFINE a == v[c + 1] * 127
               q == (2 * a + s) \div (2 * s)
    <2>5. a \in Int /\ Q8Round(v[c + 1], s) = q
      <3>1. 2 * v[c + 1] * 127 = 2 * a
        BY <2>0
      <3> QED BY <2>0, <3>1 DEF Q8Round
    <2> HIDE DEF a
    <2>6. q \in Int /\ 2 * (q * s - a) <= s /\ -2 * (q * s - a) <= s
      BY <2>4, <2>5, HalfAStep
    <2> HIDE DEF q
    <2> QED BY <2>2, <2>5, <2>6 DEF a, b
  <1> QED BY <1>2, <1>3 DEF new, v

\* An array of N rows of w cells, and a row of k cells for place n.
RowFits(old, new, w, k, N, n) ==
    /\ w \in Nat \ {0} /\ k \in Nat /\ w <= k /\ DOMAIN new = 0 .. k - 1
    /\ N \in Nat /\ DOMAIN old = 0 .. N * w - 1 /\ n \in 0 .. N - 1

LaidDown(laid, old, new, w, n) ==
    /\ DOMAIN laid = DOMAIN old
    /\ \A c \in 0 .. w - 1 : laid[n * w + c] = new[c]
    /\ \A t \in 0 .. n - 1, c \in 0 .. w - 1 : laid[t * w + c] = old[t * w + c]

\* Laying one row over an array of rows puts it down at its place, and leaves
\* the earlier rows alone.
LEMMA OverlaidIs ==
    ASSUME NEW old, NEW new, NEW w, NEW k, NEW N, NEW n, RowFits(old, new, w, k, N, n)
    PROVE  LaidDown(Overlaid(old, new, n * w), old, new, w, n)
  <1>0. /\ w \in Nat \ {0} /\ k \in Nat /\ w <= k /\ DOMAIN new = 0 .. k - 1
        /\ N \in Nat /\ DOMAIN old = 0 .. N * w - 1 /\ n \in 0 .. N - 1
    BY DEF RowFits
  <1> DEFINE from == n * w
             end == N * w
  <1>1. from \in Nat /\ end \in Nat /\ n \in Nat /\ N \in Nat /\ n < N
    BY <1>0, Z3
  <1>2. ASSUME NEW c \in 0 .. w - 1 PROVE from + c \in 0 .. end - 1 /\ c \in 0 .. k - 1
    <2>1. from + c < end
      BY <1>0, <1>1, CellBefore
    <2> HIDE DEF from, end
    <2> QED BY <1>0, <1>1, <2>1
  <1>3. ASSUME NEW t \in 0 .. n - 1, NEW c \in 0 .. w - 1
        PROVE  t * w + c \in 0 .. end - 1 /\ (t * w + c) - from \notin 0 .. k - 1
    <2> DEFINE a == t * w + c
    <2>1. t \in Nat /\ t < n /\ t < N
      BY <1>0, <1>1
    <2>2. a \in Nat /\ a < from
      BY <1>0, <1>1, <2>1, CellBefore
    <2>3. a < end
      BY <1>0, <1>1, <2>1, CellBefore
    <2> HIDE DEF a, from, end
    <2>4. a \in 0 .. end - 1 /\ a - from \notin 0 .. k - 1
      BY <1>0, <1>1, <2>2, <2>3
    <2> QED BY <2>4 DEF a
  <1> DEFINE laid == Overlaid(old, new, from)
  <1>4. /\ DOMAIN laid = DOMAIN old
        /\ \A a \in 0 .. end - 1 : laid[a] = IF a - from \in 0 .. k - 1 THEN new[a - from] ELSE old[a]
    BY <1>0 DEF Overlaid
  <1> HIDE DEF laid
  <1>5. ASSUME NEW c \in 0 .. w - 1 PROVE laid[from + c] = new[c]
    <2>1. from + c \in 0 .. end - 1 /\ c \in 0 .. k - 1
      BY <1>2
    <2> HIDE DEF from, end
    <2>2. (from + c) - from = c
      BY <1>0, <1>1
    <2> QED BY <1>4, <2>1, <2>2
  <1>6. ASSUME NEW t \in 0 .. n - 1, NEW c \in 0 .. w - 1 PROVE laid[t * w + c] = old[t * w + c]
    <2> DEFINE a == t * w + c
    <2>1. a \in 0 .. end - 1 /\ a - from \notin 0 .. k - 1
      BY <1>3
    <2> HIDE DEF a, from, end
    <2>2. laid[a] = old[a]
      BY <1>4, <2>1
    <2> QED BY <2>2 DEF a
  <1> QED BY <1>4, <1>5, <1>6 DEF laid, LaidDown

\* Slot t of a q8 cache holds the codes and the scales of row r.
Q8Kept(kept, t, r) ==
    LET new == Q8Vector(Channels(r)) IN
    /\ \A c \in 0 .. RowWidth - 1 : kept.codes[t * RowWidth + c] = new.codes[c]
    /\ \A b \in 0 .. Q8Blocks - 1 : kept.scales[t * Q8Blocks + b] = new.scales[b]

\* A cache for n tokens.
Q8Sized(kept, n) ==
    /\ DOMAIN kept.codes = 0 .. n * RowWidth - 1
    /\ DOMAIN kept.scales = 0 .. n * Q8Blocks - 1

\* Both appends put the row down at the count and leave the earlier rows.
LEMMA Q8AppendIs ==
    ASSUME NEW kept, NEW N \in Nat, Q8Sized(kept, N), kept.count \in 0 .. N - 1, NEW r \in Vals
    PROVE  \A new \in {Q8Append(kept, r), Q8DeviceAppend(kept, r)} :
               /\ new.count = kept.count + 1 /\ Q8Sized(new, N)
               /\ Q8Kept(new, kept.count, r)
               /\ \A t \in 0 .. kept.count - 1, s \in Vals : Q8Kept(kept, t, s) => Q8Kept(new, t, s)
  <1> DEFINE n == kept.count
             row == Q8Vector(Channels(r))
             cut == [c \in 0 .. RowWidth - 1 |-> row.codes[c]]
             k == Q8Blocks * Q8Group
  <1>1. /\ RowWidth \in Nat \ {0} /\ Q8Blocks \in Nat \ {0} /\ Q8Group \in Nat \ {0}
        /\ RowWidth <= k /\ k \in Nat
    BY FormatSizes, Z3
  <1>2. DOMAIN row.scales = 0 .. Q8Blocks - 1 /\ DOMAIN row.codes = 0 .. k - 1
    BY Q8VectorIs
  <1>3. n \in 0 .. N - 1
    OBVIOUS
  <1>4. DOMAIN cut = 0 .. RowWidth - 1 /\ \A c \in 0 .. RowWidth - 1 : cut[c] = row.codes[c]
    OBVIOUS
  <1> HIDE DEF row, cut, k
  <1>5. ASSUME NEW new, new.count = n + 1, new.scales = Overlaid(kept.scales, row.scales, n * Q8Blocks),
               \/ new.codes = Overlaid(kept.codes, row.codes, n * RowWidth)
               \/ new.codes = Overlaid(kept.codes, cut, n * RowWidth)
        PROVE  /\ new.count = n + 1 /\ Q8Sized(new, N)
               /\ Q8Kept(new, n, r)
               /\ \A t \in 0 .. n - 1, s \in Vals : Q8Kept(kept, t, s) => Q8Kept(new, t, s)
    <2> HIDE DEF n
    <2>1. LaidDown(new.scales, kept.scales, row.scales, Q8Blocks, n)
      <3>1. RowFits(kept.scales, row.scales, Q8Blocks, Q8Blocks, N, n)
        BY <1>1, <1>2, <1>3 DEF RowFits, Q8Sized
      <3> QED BY <1>5, <3>1, OverlaidIs
    <2>2. LaidDown(new.codes, kept.codes, row.codes, RowWidth, n)
      <3>1. RowFits(kept.codes, row.codes, RowWidth, k, N, n)
        BY <1>1, <1>2, <1>3 DEF RowFits, Q8Sized
      <3>2. RowFits(kept.codes, cut, RowWidth, RowWidth, N, n)
        BY <1>1, <1>4, <1>3 DEF RowFits, Q8Sized
      <3>3. LaidDown(Overlaid(kept.codes, row.codes, n * RowWidth), kept.codes, row.codes, RowWidth, n)
        BY <3>1, OverlaidIs
      <3>4. LaidDown(Overlaid(kept.codes, cut, n * RowWidth), kept.codes, cut, RowWidth, n)
        BY <3>2, OverlaidIs
      <3> QED BY <1>4, <1>5, <3>3, <3>4 DEF LaidDown
    <2>3. Q8Kept(new, n, r)
      BY <2>1, <2>2 DEF Q8Kept, row, LaidDown
    <2>4. ASSUME NEW t \in 0 .. n - 1, NEW s \in Vals, Q8Kept(kept, t, s) PROVE Q8Kept(new, t, s)
      BY <2>1, <2>2, <2>4 DEF Q8Kept, LaidDown
    <2> QED BY <1>5, <2>1, <2>2, <2>3, <2>4 DEF Q8Sized, LaidDown
  <1>6. LET new == Q8Append(kept, r) IN
        /\ new.count = n + 1 /\ new.scales = Overlaid(kept.scales, row.scales, n * Q8Blocks)
        /\ new.codes = Overlaid(kept.codes, row.codes, n * RowWidth)
    BY DEF Q8Append, row
  <1>7. LET new == Q8DeviceAppend(kept, r) IN
        /\ new.count = n + 1 /\ new.scales = Overlaid(kept.scales, row.scales, n * Q8Blocks)
        /\ new.codes = Overlaid(kept.codes, cut, n * RowWidth)
    BY DEF Q8DeviceAppend, row, cut
  <1> QED BY <1>5, <1>6, <1>7

\* What is found at a slot depends on what the slot holds alone.
LEMMA Q8FoundSame ==
    ASSUME NEW one, NEW t, NEW other, NEW u, NEW r \in Vals, NEW s \in Vals,
           Q8Kept(one, t, r), Q8Kept(other, u, r), Q8FoundAt(one, t, s)
    PROVE  Q8FoundAt(other, u, s)
  <1> SUFFICES ASSUME NEW h \in 0 .. Heads - 1, NEW i \in 0 .. HeadDim - 1
               PROVE  LET c == h * HeadDim + i
                          scale == other.scales[u * Q8Blocks + c \div Q8Group]
                          off == other.codes[u * RowWidth + c] * scale - Channels(s)[c + 1] * 127
                      IN 2 * off <= scale /\ -2 * off <= scale
    BY DEF Q8FoundAt
  <1> DEFINE c == h * HeadDim + i
  <1>1. c \in 0 .. RowWidth - 1
    BY ChannelIs
  <1>2. LET scale == one.scales[t * Q8Blocks + c \div Q8Group]
            off == one.codes[t * RowWidth + c] * scale - Channels(s)[c + 1] * 127
        IN 2 * off <= scale /\ -2 * off <= scale
    BY DEF Q8FoundAt
  <1> HIDE DEF c
  <1>3. c \div Q8Group \in 0 .. Q8Blocks - 1
    BY <1>1, Q8BlockOf
  <1>4. /\ one.scales[t * Q8Blocks + c \div Q8Group] = other.scales[u * Q8Blocks + c \div Q8Group]
        /\ one.codes[t * RowWidth + c] = other.codes[u * RowWidth + c]
    BY <1>1, <1>3 DEF Q8Kept
  <1> QED BY <1>2, <1>4 DEF c

\* A slot that holds a row is found to be this row, and no other.
LEMMA Q8Found ==
    ASSUME NEW kept, NEW t, NEW r \in Vals, Q8Kept(kept, t, r)
    PROVE  {s \in Vals : Q8FoundAt(kept, t, s)} = {r}
  <1>1. Q8FoundAt(kept, t, r)
    <2> SUFFICES ASSUME NEW h \in 0 .. Heads - 1, NEW i \in 0 .. HeadDim - 1
                 PROVE  LET c == h * HeadDim + i
                            scale == kept.scales[t * Q8Blocks + c \div Q8Group]
                            off == kept.codes[t * RowWidth + c] * scale - Channels(r)[c + 1] * 127
                        IN 2 * off <= scale /\ -2 * off <= scale
      BY DEF Q8FoundAt
    <2> DEFINE c == h * HeadDim + i
               new == Q8Vector(Channels(r))
    <2>1. c \in 0 .. RowWidth - 1
      BY ChannelIs
    <2> HIDE DEF c
    <2>2. c \div Q8Group \in 0 .. Q8Blocks - 1
      BY <2>1, Q8BlockOf
    <2>3. /\ kept.scales[t * Q8Blocks + c \div Q8Group] = new.scales[c \div Q8Group]
          /\ kept.codes[t * RowWidth + c] = new.codes[c]
      BY <2>1, <2>2 DEF Q8Kept
    <2>4. LET s == new.scales[c \div Q8Group]
              off == new.codes[c] * s - Channels(r)[c + 1] * 127
          IN 2 * off <= s /\ -2 * off <= s
      BY <2>1, Q8VectorIs
    <2> QED BY <2>3, <2>4 DEF c
  <1>2. ASSUME NEW s \in Vals, Q8FoundAt(kept, t, s) PROVE s = r
    <2> DEFINE fresh == Q8Cache(1)
               new == Q8Append(fresh, r)
    <2>1. 1 \in Nat /\ fresh.count = 0 /\ Q8Sized(fresh, 1)
      BY DEF Q8Cache, Q8Sized
    <2>2. fresh.count \in 0 .. 1 - 1
      BY <2>1
    <2> HIDE DEF fresh
    <2>3. Q8Kept(new, 0, r)
      <3>1. Q8Kept(new, fresh.count, r)
        BY <2>1, <2>2, Q8AppendIs
      <3> QED BY <2>1, <3>1
    <2> HIDE DEF new
    <2>4. Q8FoundAt(new, 0, s)
      BY <1>2, <2>3, Q8FoundSame
    <2> QED BY <2>4, RowsDiffer DEF new, fresh
  <1> QED BY <1>1, <1>2

LEMMA RecognisedIs ==
    ASSUME NEW r
    PROVE  Recognised({r}) = r
  BY DEF Recognised

----------------------------------------------------------------------------
(* The q4 cache.                                                            *)

LEMMA StepsAre ==
    ASSUME NEW k \in Nat, NEW n \in Nat, NEW kern \in Kernels, k >= 1
    PROVE  Divisor(kern, k, n) = Steps(k) /\ Steps(k) \in {7, 15}
  <1>1. k % 2 \in {0, 1} /\ Steps(k) \in {7, 15}
    BY DEF Steps
  <1>2. Avx2Steps(k, n) = Steps(k)
    <2> DEFINE j == (k - 1) % 8
    <2>1. j \in 0 .. 7 /\ (k % 2 = 1 <=> j % 2 = 0)
      OBVIOUS
    <2> HIDE DEF j
    <2>2. LaneSteps[8 - j] = IF j % 2 = 0 THEN 15 ELSE 7
      <3>1. j \in {0, 1, 2, 3, 4, 5, 6, 7}
        BY <2>1
      <3>2. /\ LaneSteps[8] = 15 /\ LaneSteps[7] = 7 /\ LaneSteps[6] = 15 /\ LaneSteps[5] = 7
            /\ LaneSteps[4] = 15 /\ LaneSteps[3] = 7 /\ LaneSteps[2] = 15 /\ LaneSteps[1] = 7
        BY DEF LaneSteps
      <3> HIDE DEF LaneSteps
      <3> QED BY <3>1, <3>2
    <2> QED BY <2>1, <2>2 DEF Avx2Steps, Steps, j
  <1>3. Avx512Steps(k, n) = Steps(k)
    <2>1. k % 2 = 1 <=> ((k - 1) % 16) % 2 # 1
      OBVIOUS
    <2> QED BY <2>1 DEF Avx512Steps, Steps
  <1> QED BY <1>1, <1>2, <1>3 DEF Divisor, Kernels

\* Codes of alternately 4 and 3 bits.
Codes16 == {codes \in [1 .. 16 -> 0 .. 15] : \A k \in 1 .. 16 : k % 2 = 0 => codes[k] <= 7}

LEMMA PairIs ==
    ASSUME NEW codes \in Codes16, NEW i \in 0 .. 7
    PROVE  /\ Pair(codes, i) \in 0 .. 127
           /\ Pair(codes, i) % 16 = codes[2 * i + 1] /\ Pair(codes, i) \div 16 = codes[2 * i + 2]
  <1>1. 2 * i + 1 \in 1 .. 16 /\ 2 * i + 2 \in 1 .. 16 /\ (2 * i + 2) % 2 = 0
    OBVIOUS
  <1>2. codes[2 * i + 1] \in 0 .. 15 /\ codes[2 * i + 2] \in 0 .. 7
    BY <1>1 DEF Codes16
  <1> QED BY <1>2 DEF Pair

\* A number is what its quotient and remainder say.
LEMMA DivisionIs ==
    ASSUME NEW E \in Nat \ {0}, NEW b \in Int, NEW x \in Int, E * b <= x, x < E * (b + 1)
    PROVE  x \div E = b
  <1> DEFINE q == x \div E
  <1>1. q \in Int /\ E * q <= x /\ x < E * (q + 1)
    OBVIOUS
  <1> HIDE DEF q
  <1>2. ASSUME q < b PROVE FALSE
    <2>1. E * (q + 1) <= E * b
      <3>1. q + 1 <= b
        BY <1>1, <1>2
      <3> QED BY <1>1, <3>1, Z3
    <2>2. E * (q + 1) \in Int /\ E * b \in Int
      BY <1>1, Z3
    <2> QED BY <1>1, <2>1, <2>2
  <1>3. ASSUME b < q PROVE FALSE
    <2>1. E * (b + 1) <= E * q
      <3>1. b + 1 <= q
        BY <1>1, <1>3
      <3> QED BY <1>1, <3>1, Z3
    <2>2. E * (b + 1) \in Int /\ E * q \in Int
      BY <1>1, Z3
    <2> QED BY <1>1, <2>1, <2>2
  <1> QED BY <1>1, <1>2, <1>3 DEF q

\* The bits of the next pair that are in the upper part of a byte, and those
\* of a pair that are in the lower part of one.
Halves(E, F, u) == E \in Nat \ {0} /\ F \in Nat \ {0} /\ E * F = 256 /\ u \in 0 .. E - 1

LEMMA UpperPart ==
    ASSUME NEW E, NEW F, NEW u, Halves(E, F, u), NEW v \in Nat
    PROVE  ((u + v * E) % 256) \div E = v % F
  <1>0. E \in Nat \ {0} /\ F \in Nat \ {0} /\ E * F = 256 /\ u \in 0 .. E - 1
    BY DEF Halves
  <1> DEFINE a == v \div F
             b == v % F
             x == b * E
  <1>1. a \in Int /\ b \in 0 .. F - 1 /\ v = F * a + b
    BY <1>0
  <1>2. a >= 0
    <2> SUFFICES ASSUME a <= -1 PROVE FALSE
      BY <1>0, <1>1
    <2>1. v < F * (a + 1)
      BY <1>0
    <2> HIDE DEF a
    <2>2. F * (a + 1) <= 0
      <3> DEFINE m == -(a + 1)
      <3>1. m \in Nat /\ a + 1 = -m
        BY <1>0, <1>1
      <3> HIDE DEF m
      <3>2. F * m \in Nat /\ F * (-m) = -(F * m)
        BY <1>0, <3>1, Z3
      <3> QED BY <3>1, <3>2
    <2> QED BY <1>0, <1>1, <2>1, <2>2, Z3
  <1> HIDE DEF a, b
  <1>3. v * E = 256 * a + x /\ x \in Nat /\ E * b = x /\ E * (b + 1) = x + E
    <2>1. v * E = (F * a + b) * E
      BY <1>0, <1>1
    <2>2. (F * a + b) * E = (E * F) * a + b * E
      BY <1>0, <1>1, <1>2, Z3
    <2>3. b * E \in Nat /\ E * b = b * E /\ E * (b + 1) = b * E + E
      BY <1>0, <1>1, Z3
    <2> QED BY <1>0, <2>1, <2>2, <2>3
  <1>4. x + E <= 256
    <2>1. E * (b + 1) <= E * F
      BY <1>0, <1>1, Z3
    <2> QED BY <1>0, <1>3, <2>1
  <1> HIDE DEF x
  <1>5. (u + v * E) % 256 = u + x
    <2> DEFINE y == u + v * E
    <2>1. y = 256 * a + (u + x) /\ u + x \in 0 .. 255
      BY <1>0, <1>1, <1>2, <1>3, <1>4
    <2> HIDE DEF y
    <2>2. y % 256 = u + x
      BY <1>0, <1>1, <2>1
    <2> QED BY <2>2 DEF y
  <1>6. (u + x) \div E = b
    <2>1. u + x \in Int /\ E * b <= u + x /\ u + x < E * (b + 1) /\ b \in Int
      BY <1>0, <1>1, <1>3
    <2> QED BY <1>0, <2>1, DivisionIs
  <1> QED BY <1>5, <1>6 DEF b

\* Its low half is what it was, too.
Split(F, G) == F \in Nat \ {0} /\ G \in Nat \ {0} /\ F * G = 128
Rejoined(F, G, w, v) == ((w % F) + ((w \div F + v * G) % 256) * F) % 128

LEMMA LowerPart ==
    ASSUME NEW F, NEW G, Split(F, G), NEW w \in 0 .. 127, NEW v \in Nat
    PROVE  Rejoined(F, G, w, v) = w
  <1>0. F \in Nat \ {0} /\ G \in Nat \ {0} /\ F * G = 128
    BY DEF Split
  <1> DEFINE a == w \div F
             b == w % F
             x == a * F
             y == v * G
             B == (a + y) % 256
             c == (a + y) \div 256
             z == c * F
  <1>1. a \in Int /\ b \in Int /\ w = F * a + b
    BY <1>0
  <1> HIDE DEF a, b
  <1>2. x \in Int /\ x + b = w /\ y \in Int /\ y * F = 128 * v
    <2>1. F * a = a * F /\ a * F \in Int /\ v * G \in Int
      BY <1>0, <1>1, Z3
    <2>2. (v * G) * F = v * (F * G)
      BY <1>0, <1>1, Z3
    <2> QED BY <1>0, <1>1, <2>1, <2>2
  <1>3. B \in Int /\ c \in Int /\ B = a + y - 256 * c
    <2> HIDE DEF y
    <2> QED BY <1>1, <1>2
  <1> HIDE DEF B, c
  <1>4. B * F = x + 128 * v - 256 * z /\ z \in Int
    <2>1. (a + y - 256 * c) * F = a * F + y * F - 256 * (c * F) /\ c * F \in Int
      <3> HIDE DEF y
      <3> QED BY <1>0, <1>1, <1>2, <1>3, Z3
    <2> QED BY <1>2, <1>3, <2>1
  <1> HIDE DEF x, y, z
  <1>5. b + B * F = w + 128 * (v - 2 * z)
    BY <1>1, <1>2, <1>4
  <1>6. (b + B * F) % 128 = w
    BY <1>1, <1>4, <1>5
  <1> QED BY <1>6 DEF a, b, B, y, Rejoined

\* The pairs of seven bytes are the pairs that were packed into them.
Joined(P, B) == \A j \in 0 .. 6 : B[j] = (P[j] \div 2^j + P[j + 1] * 2^(7 - j)) % 256
PairOf(B, i) == ((IF i = 0 THEN 0 ELSE B[i - 1] \div 2^(8 - i))
                 + (IF i = 7 THEN 0 ELSE B[i] * 2^i)) % 128

LEMMA PairsSurvive ==
    ASSUME NEW P \in [0 .. 7 -> 0 .. 127], NEW B, Joined(P, B), NEW i \in 0 .. 7
    PROVE  PairOf(B, i) = P[i]
  <1>1. /\ 2^0 = 1 /\ 2^1 = 2 /\ 2^2 = 4 /\ 2^3 = 8 /\ 2^4 = 16 /\ 2^5 = 32 /\ 2^6 = 64 /\ 2^7 = 128
    OBVIOUS
  <1>2. /\ B[0] = (P[0] \div 1 + P[1] * 128) % 256
        /\ B[1] = (P[1] \div 2 + P[2] * 64) % 256
        /\ B[2] = (P[2] \div 4 + P[3] * 32) % 256
        /\ B[3] = (P[3] \div 8 + P[4] * 16) % 256
        /\ B[4] = (P[4] \div 16 + P[5] * 8) % 256
        /\ B[5] = (P[5] \div 32 + P[6] * 4) % 256
        /\ B[6] = (P[6] \div 64 + P[7] * 2) % 256
    BY <1>1 DEF Joined
  <1>3. \A j \in 0 .. 7 : P[j] \in 0 .. 127
    OBVIOUS
  <1> DEFINE back(j) == PairOf(B, j)
  <1>4. /\ back(0) = (0 + B[0] * 1) % 128
        /\ back(1) = (B[0] \div 128 + B[1] * 2) % 128
        /\ back(2) = (B[1] \div 64 + B[2] * 4) % 128
        /\ back(3) = (B[2] \div 32 + B[3] * 8) % 128
        /\ back(4) = (B[3] \div 16 + B[4] * 16) % 128
        /\ back(5) = (B[4] \div 8 + B[5] * 32) % 128
        /\ back(6) = (B[5] \div 4 + B[6] * 64) % 128
        /\ back(7) = (B[6] \div 2 + 0) % 128
    BY <1>1 DEF PairOf
  <1> HIDE DEF back
  <1>5. /\ B[0] \div 128 = P[1] % 2 /\ B[1] \div 64 = P[2] % 4 /\ B[2] \div 32 = P[3] % 8
        /\ B[3] \div 16 = P[4] % 16 /\ B[4] \div 8 = P[5] % 32 /\ B[5] \div 4 = P[6] % 64
        /\ B[6] \div 2 = P[7] % 128
    <2>1. /\ P[0] \div 1 \in 0 .. 127 /\ P[1] \div 2 \in 0 .. 63 /\ P[2] \div 4 \in 0 .. 31
          /\ P[3] \div 8 \in 0 .. 15 /\ P[4] \div 16 \in 0 .. 7 /\ P[5] \div 32 \in 0 .. 3
          /\ P[6] \div 64 \in 0 .. 1
      BY <1>3
    <2>2. \A j \in 0 .. 7 : P[j] \in Nat
      BY <1>3
    <2>3. B[0] \div 128 = P[1] % 2
      <3>1. Halves(128, 2, P[0] \div 1) /\ P[1] \in Nat
        BY <2>1, <2>2 DEF Halves
      <3>2. ((P[0] \div 1 + P[1] * 128) % 256) \div 128 = P[1] % 2
        BY <3>1, UpperPart
      <3> QED BY <1>2, <3>2
    <2>4. B[1] \div 64 = P[2] % 4
      <3>1. Halves(64, 4, P[1] \div 2) /\ P[2] \in Nat
        BY <2>1, <2>2 DEF Halves
      <3>2. ((P[1] \div 2 + P[2] * 64) % 256) \div 64 = P[2] % 4
        BY <3>1, UpperPart
      <3> QED BY <1>2, <3>2
    <2>5. B[2] \div 32 = P[3] % 8
      <3>1. Halves(32, 8, P[2] \div 4) /\ P[3] \in Nat
        BY <2>1, <2>2 DEF Halves
      <3>2. ((P[2] \div 4 + P[3] * 32) % 256) \div 32 = P[3] % 8
        BY <3>1, UpperPart
      <3> QED BY <1>2, <3>2
    <2>6. B[3] \div 16 = P[4] % 16
      <3>1. Halves(16, 16, P[3] \div 8) /\ P[4] \in Nat
        BY <2>1, <2>2 DEF Halves
      <3>2. ((P[3] \div 8 + P[4] * 16) % 256) \div 16 = P[4] % 16
        BY <3>1, UpperPart
      <3> QED BY <1>2, <3>2
    <2>7. B[4] \div 8 = P[5] % 32
      <3>1. Halves(8, 32, P[4] \div 16) /\ P[5] \in Nat
        BY <2>1, <2>2 DEF Halves
      <3>2. ((P[4] \div 16 + P[5] * 8) % 256) \div 8 = P[5] % 32
        BY <3>1, UpperPart
      <3> QED BY <1>2, <3>2
    <2>8. B[5] \div 4 = P[6] % 64
      <3>1. Halves(4, 64, P[5] \div 32) /\ P[6] \in Nat
        BY <2>1, <2>2 DEF Halves
      <3>2. ((P[5] \div 32 + P[6] * 4) % 256) \div 4 = P[6] % 64
        BY <3>1, UpperPart
      <3> QED BY <1>2, <3>2
    <2>9. B[6] \div 2 = P[7] % 128
      <3>1. Halves(2, 128, P[6] \div 64) /\ P[7] \in Nat
        BY <2>1, <2>2 DEF Halves
      <3>2. ((P[6] \div 64 + P[7] * 2) % 256) \div 2 = P[7] % 128
        BY <3>1, UpperPart
      <3> QED BY <1>2, <3>2
    <2> QED BY <2>3, <2>4, <2>5, <2>6, <2>7, <2>8, <2>9
  <1>6. back(0) = P[0] /\ back(7) = P[7]
    <2>1. P[0] \in 0 .. 127 /\ P[1] \in Nat /\ P[7] \in 0 .. 127
      BY <1>3
    <2>2. \A x \in 0 .. 127, y \in Nat :
              /\ (x \div 1 + y * 128) % 256 \in Int
              /\ ((x \div 1 + y * 128) % 256) % 128 = x
      BY Z3
    <2>3. B[0] \in Int /\ B[0] % 128 = P[0]
      <3>1. B[0] = (P[0] \div 1 + P[1] * 128) % 256
        BY <1>2
      <3>2. /\ (P[0] \div 1 + P[1] * 128) % 256 \in Int
            /\ ((P[0] \div 1 + P[1] * 128) % 256) % 128 = P[0]
        BY <2>1, <2>2, Zenon
      <3> QED BY <3>1, <3>2, Zenon
    <2>4. back(0) = (0 + B[0] * 1) % 128 /\ back(7) = ((P[7] % 128) + 0) % 128
      BY <1>4, <1>5, Zenon
    <2>5. back(0) = P[0]
      <3> HIDE DEF back
      <3>1. 0 + B[0] * 1 = B[0]
        BY <2>3
      <3> QED BY <2>3, <2>4, <3>1, Zenon
    <2>6. back(7) = P[7]
      <3>1. \A x \in 0 .. 127 : ((x % 128) + 0) % 128 = x
        OBVIOUS
      <3> QED BY <2>1, <2>4, <3>1, Zenon
    <2> QED BY <2>5, <2>6
  <1>7. back(1) = P[1]
    <2>1. P[1] \in 0 .. 127 /\ P[2] \in Nat
      BY <1>3
    <2>2. Split(2, 64)
      BY DEF Split
    <2>3. Rejoined(2, 64, P[1], P[2]) = P[1]
      BY <2>1, <2>2, LowerPart
    <2>4. /\ B[1] = (P[1] \div 2 + P[2] * 64) % 256 /\ B[0] \div 128 = P[1] % 2
          /\ back(1) = (B[0] \div 128 + B[1] * 2) % 128
      BY <1>2, <1>4, <1>5
    <2> HIDE DEF back
    <2> QED BY <2>3, <2>4, Zenon DEF Rejoined
  <1>8. back(2) = P[2]
    <2>1. P[2] \in 0 .. 127 /\ P[3] \in Nat
      BY <1>3
    <2>2. Split(4, 32)
      BY DEF Split
    <2>3. Rejoined(4, 32, P[2], P[3]) = P[2]
      BY <2>1, <2>2, LowerPart
    <2>4. /\ B[2] = (P[2] \div 4 + P[3] * 32) % 256 /\ B[1] \div 64 = P[2] % 4
          /\ back(2) = (B[1] \div 64 + B[2] * 4) % 128
      BY <1>2, <1>4, <1>5
    <2> HIDE DEF back
    <2> QED BY <2>3, <2>4, Zenon DEF Rejoined
  <1>9. back(3) = P[3]
    <2>1. P[3] \in 0 .. 127 /\ P[4] \in Nat
      BY <1>3
    <2>2. Split(8, 16)
      BY DEF Split
    <2>3. Rejoined(8, 16, P[3], P[4]) = P[3]
      BY <2>1, <2>2, LowerPart
    <2>4. /\ B[3] = (P[3] \div 8 + P[4] * 16) % 256 /\ B[2] \div 32 = P[3] % 8
          /\ back(3) = (B[2] \div 32 + B[3] * 8) % 128
      BY <1>2, <1>4, <1>5
    <2> HIDE DEF back
    <2> QED BY <2>3, <2>4, Zenon DEF Rejoined
  <1>10. back(4) = P[4]
    <2>1. P[4] \in 0 .. 127 /\ P[5] \in Nat
      BY <1>3
    <2>2. Split(16, 8)
      BY DEF Split
    <2>3. Rejoined(16, 8, P[4], P[5]) = P[4]
      BY <2>1, <2>2, LowerPart
    <2>4. /\ B[4] = (P[4] \div 16 + P[5] * 8) % 256 /\ B[3] \div 16 = P[4] % 16
          /\ back(4) = (B[3] \div 16 + B[4] * 16) % 128
      BY <1>2, <1>4, <1>5
    <2> HIDE DEF back
    <2> QED BY <2>3, <2>4, Zenon DEF Rejoined
  <1>11. back(5) = P[5]
    <2>1. P[5] \in 0 .. 127 /\ P[6] \in Nat
      BY <1>3
    <2>2. Split(32, 4)
      BY DEF Split
    <2>3. Rejoined(32, 4, P[5], P[6]) = P[5]
      BY <2>1, <2>2, LowerPart
    <2>4. /\ B[5] = (P[5] \div 32 + P[6] * 4) % 256 /\ B[4] \div 8 = P[5] % 32
          /\ back(5) = (B[4] \div 8 + B[5] * 32) % 128
      BY <1>2, <1>4, <1>5
    <2> HIDE DEF back
    <2> QED BY <2>3, <2>4, Zenon DEF Rejoined
  <1>12. back(6) = P[6]
    <2>1. P[6] \in 0 .. 127 /\ P[7] \in Nat
      BY <1>3
    <2>2. Split(64, 2)
      BY DEF Split
    <2>3. Rejoined(64, 2, P[6], P[7]) = P[6]
      BY <2>1, <2>2, LowerPart
    <2>4. /\ B[6] = (P[6] \div 64 + P[7] * 2) % 256 /\ B[5] \div 4 = P[6] % 64
          /\ back(6) = (B[5] \div 4 + B[6] * 64) % 128
      BY <1>2, <1>4, <1>5
    <2> HIDE DEF back
    <2> QED BY <2>3, <2>4, Zenon DEF Rejoined
  <1>13. i \in {0, 1, 2, 3, 4, 5, 6, 7}
    OBVIOUS
  <1>14. back(i) = P[i]
    BY <1>6, <1>7, <1>8, <1>9, <1>10, <1>11, <1>12, <1>13
  <1> QED BY <1>14 DEF back

LEMMA CodesSurvive ==
    ASSUME NEW codes \in Codes16, NEW k \in 1 .. 16
    PROVE  Unpack(Pack(codes))[k] = codes[k]
  <1> DEFINE P == [i \in 0 .. 7 |-> Pair(codes, i)]
             B == Pack(codes)
             i == (k - 1) \div 2
  <1>1. P \in [0 .. 7 -> 0 .. 127]
    BY PairIs
  <1>2. Joined(P, B)
    <2>1. \A j \in 0 .. 6 : P[j] = Pair(codes, j) /\ P[j + 1] = Pair(codes, j + 1)
      OBVIOUS
    <2> HIDE DEF P
    <2> QED BY <2>1 DEF Pack, Joined
  <1>3. i \in 0 .. 7 /\ (k % 2 = 1 => k = 2 * i + 1) /\ (k % 2 # 1 => k = 2 * i + 2)
    OBVIOUS
  <1>4. P[i] % 16 = codes[2 * i + 1] /\ P[i] \div 16 = codes[2 * i + 2]
    <2> HIDE DEF i
    <2> QED BY <1>3, PairIs
  <1>5. Unpack(B)[k] = IF k % 2 = 1 THEN PairOf(B, i) % 16 ELSE PairOf(B, i) \div 16
    <2> HIDE DEF B
    <2> QED BY DEF Unpack, PairOf
  <1> HIDE DEF P, B, i
  <1>6. PairOf(B, i) = P[i]
    BY <1>1, <1>2, <1>3, PairsSurvive
  <1> QED BY <1>3, <1>4, <1>5, <1>6 DEF B

\* The code of value x between zero and top: at most the steps of its place,
\* and within half a step of it.
LEMMA CodeIs ==
    ASSUME NEW x \in Int, NEW zero \in Int, NEW top \in Int, zero <= x, x <= top, zero # top,
           NEW steps \in {7, 15}
    PROVE  LET scale == top - zero
               q == (2 * (x - zero) * steps + scale) \div (2 * scale)
               off == q * scale - (x - zero) * steps
           IN q \in 0 .. steps /\ 2 * off <= scale /\ -2 * off <= scale
  <1> DEFINE s == top - zero
             y == x - zero
             a == y * steps
             q == (2 * a + s) \div (2 * s)
             z == q * s
  <1>1. s \in Nat \ {0} /\ y \in Nat /\ y <= s
    OBVIOUS
  <1> HIDE DEF s, y
  <1>2. a \in Nat /\ a <= steps * s
    <2>1. CASE steps = 7
      BY <1>1, <2>1
    <2>2. CASE steps = 15
      BY <1>1, <2>2
    <2> QED BY <2>1, <2>2
  <1>3. 2 * y * steps = 2 * a
    <2>1. CASE steps = 7
      BY <1>1, <2>1
    <2>2. CASE steps = 15
      BY <1>1, <2>2
    <2> QED BY <2>1, <2>2
  <1> HIDE DEF a
  <1>4. q \in Int /\ 2 * (z - a) <= s /\ -2 * (z - a) <= s
    BY <1>1, <1>2, HalfAStep
  <1> HIDE DEF q
  <1>5. z \in Int /\ (q + 1) * s = z + s
    BY <1>1, <1>4, Z3
  <1>6. q >= 0
    <2> SUFFICES ASSUME q + 1 <= 0 PROVE FALSE
      BY <1>4
    <2>1. (q + 1) * s <= 0
      <3> DEFINE m == -(q + 1)
      <3>1. m \in Nat /\ q + 1 = -m
        BY <1>4
      <3> HIDE DEF m
      <3>2. m * s \in Nat /\ (-m) * s = -(m * s)
        BY <1>1, <3>1, Z3
      <3> QED BY <3>1, <3>2
    <2> HIDE DEF z
    <2> QED BY <1>1, <1>2, <1>4, <1>5, <2>1
  <1>7. q <= steps
    <2> SUFFICES ASSUME steps + 1 <= q PROVE FALSE
      BY <1>4
    <2>1. (steps + 1) * s <= z
      BY <1>1, <1>4, Z3
    <2>2. (steps + 1) * s = steps * s + s /\ steps * s \in Int
      BY <1>1, Z3
    <2> DEFINE w == steps * s
    <2>3. w \in Int /\ a <= w /\ w + s <= z
      BY <1>2, <2>1, <2>2
    <2> HIDE DEF w, z
    <2> QED BY <1>1, <1>2, <1>4, <1>5, <2>3
  <1>8. q \in 0 .. steps
    BY <1>4, <1>6, <1>7
  <1> QED BY <1>3, <1>4, <1>8 DEF a, s, y, q

\* What every kernel makes of a block is within half a step of its values.
LEMMA QuantizedReads ==
    ASSUME NEW v \in Seq(Int), v # <<>>, Len(v) <= Group, NEW kern \in Kernels
    PROVE  ReadsAs(kern, Quantized(v), v)
  <1> DEFINE n == Len(v)
             zero == Min({v[k] : k \in DOMAIN v})
             top == Max({v[k] : k \in DOMAIN v})
             scale == top - zero
             code(k) == IF k > n \/ scale = 0 THEN 0
                        ELSE (2 * (v[k] - zero) * Steps(k) + scale) \div (2 * scale)
             chunk(c) == [k \in 1 .. 16 |-> code(16 * (c - 1) + k)]
             packed == [c \in 1 .. SubChunks |-> Pack(chunk(c))]
             block == Quantized(v)
  <1>1. n \in Nat \ {0} /\ v \in [1 .. n -> Int] /\ DOMAIN v = 1 .. n
    OBVIOUS
  <1>2. block.scale = scale /\ block.zero = zero /\ block.packed = packed
    BY DEF Quantized
  <1> HIDE DEF block
  <1>3. /\ zero \in {v[k] : k \in 1 .. n} /\ top \in {v[k] : k \in 1 .. n}
        /\ \A k \in 1 .. n : v[k] \in Int /\ zero <= v[k] /\ v[k] <= top
    <2> HIDE DEF n
    <2> QED BY <1>1, LargestIs, LeastIs
  <1> HIDE DEF n
  <1>4. zero \in Int /\ top \in Int /\ zero <= top /\ scale \in Int /\ (scale = 0 <=> zero = top)
    <2> HIDE DEF zero, top
    <2>1. zero \in Int /\ top \in Int /\ zero <= top
      BY <1>1, <1>3
    <2> QED BY <2>1
  <1> HIDE DEF zero, top
  <1>5. ASSUME NEW k \in Nat, k >= 1
        PROVE  /\ code(k) \in 0 .. Steps(k)
               /\ k <= n => LET off == code(k) * scale - (v[k] - zero) * Steps(k)
                            IN 2 * off <= scale /\ -2 * off <= scale
    <2>1. Steps(k) \in {7, 15}
      BY <1>5 DEF Steps
    <2> HIDE DEF Steps
    <2>2. CASE k > n \/ scale = 0
      <3>1. code(k) = 0
        BY <2>2
      <3>2. ASSUME k <= n PROVE scale = 0 /\ v[k] = zero
        <4>1. k \in 1 .. n /\ scale = 0
          BY <1>1, <1>5, <2>2, <3>2
        <4> QED BY <1>3, <1>4, <4>1
      <3> HIDE DEF code, scale
      <3>3. ASSUME k <= n
            PROVE LET off == code(k) * scale - (v[k] - zero) * Steps(k)
                  IN 2 * off <= scale /\ -2 * off <= scale
        <4>1. code(k) = 0 /\ scale = 0 /\ v[k] - zero = 0
          BY <1>4, <3>1, <3>2, <3>3
        <4> QED BY <2>1, <4>1
      <3> QED BY <2>1, <3>1, <3>3
    <2>3. CASE ~(k > n \/ scale = 0)
      <3>1. k \in 1 .. n /\ zero # top
        BY <1>1, <1>4, <1>5, <2>3
      <3>2. v[k] \in Int /\ zero <= v[k] /\ v[k] <= top
        BY <1>3, <3>1
      <3>3. code(k) = (2 * (v[k] - zero) * Steps(k) + scale) \div (2 * scale)
        BY <2>3
      <3> DEFINE q == (2 * (v[k] - zero) * Steps(k) + scale) \div (2 * scale)
      <3>4. /\ q \in 0 .. Steps(k)
            /\ LET off == q * scale - (v[k] - zero) * Steps(k) IN 2 * off <= scale /\ -2 * off <= scale
        BY <1>4, <2>1, <3>1, <3>2, CodeIs
      <3> HIDE DEF code, q
      <3> QED BY <3>3, <3>4, Zenon DEF q
    <2> QED BY <2>2, <2>3
  <1> HIDE DEF code
  <1>6. ASSUME NEW c \in 1 .. SubChunks PROVE chunk(c) \in Codes16
    <2>1. c \in Nat /\ c >= 1 /\ SubChunks \in Nat
      BY FormatAssumption
    <2>2. ASSUME NEW k \in 1 .. 16
          PROVE  code(16 * (c - 1) + k) \in 0 .. 15 /\ (k % 2 = 0 => code(16 * (c - 1) + k) \in 0 .. 7)
      <3> DEFINE i == 16 * (c - 1) + k
      <3>1. i \in Nat /\ i >= 1 /\ i % 2 = k % 2
        BY <2>1
      <3> HIDE DEF i
      <3>2. code(i) \in 0 .. Steps(i)
        BY <1>5, <3>1
      <3>3. Steps(i) = IF k % 2 = 1 THEN 15 ELSE 7
        BY <3>1 DEF Steps
      <3> DEFINE x == code(i)
      <3>4. x \in 0 .. 15 /\ (k % 2 = 0 => x \in 0 .. 7)
        <4>1. CASE k % 2 = 1
          <5>1. Steps(i) = 15
            BY <3>3, <4>1
          <5> QED BY <3>2, <4>1, <5>1
        <4>2. CASE k % 2 # 1
          <5>1. Steps(i) = 7
            BY <3>3, <4>2
          <5>2. x \in 0 .. 7
            BY <3>2, <5>1
          <5> HIDE DEF x
          <5> QED BY <5>2
        <4> QED BY <4>1, <4>2
      <3> QED BY <3>4 DEF i
    <2>3. \A k \in 1 .. 16 : chunk(c)[k] = code(16 * (c - 1) + k)
      OBVIOUS
    <2>4. chunk(c) \in [1 .. 16 -> 0 .. 15]
      BY <2>2
    <2> HIDE DEF chunk
    <2>5. ASSUME NEW k \in 1 .. 16, k % 2 = 0 PROVE chunk(c)[k] <= 7
      <3> DEFINE x == code(16 * (c - 1) + k)
      <3>1. chunk(c)[k] = x /\ x \in 0 .. 7
        BY <2>2, <2>3, <2>5, Zenon
      <3> HIDE DEF x
      <3> QED BY <3>1
    <2> QED BY <2>4, <2>5 DEF Codes16
  <1>7. ASSUME NEW k \in 1 .. n
        PROVE  Unpack(packed[((k - 1) \div 16) + 1])[((k - 1) % 16) + 1] = code(k)
    <2> DEFINE c == ((k - 1) \div 16) + 1
               j == ((k - 1) % 16) + 1
    <2>1. SubChunks \in Nat /\ n <= 16 * SubChunks
      BY FormatAssumption DEF n, Group
    <2>2. c \in 1 .. SubChunks /\ j \in 1 .. 16 /\ 16 * (c - 1) + j = k
      BY <1>1, <2>1
    <2> HIDE DEF c, j
    <2>3. packed[c] = Pack(chunk(c)) /\ chunk(c)[j] = code(k)
      BY <2>2
    <2>4. Unpack(Pack(chunk(c)))[j] = chunk(c)[j]
      <3> HIDE DEF chunk
      <3> QED BY <1>6, <2>2, CodesSurvive
    <2> QED BY <2>3, <2>4 DEF c, j
  <1> SUFFICES ASSUME NEW k \in DOMAIN v
               PROVE  LET codes == Unpack(block.packed[((k - 1) \div 16) + 1])[((k - 1) % 16) + 1]
                          off == codes * block.scale - (v[k] - block.zero) * Divisor(kern, k, Len(v))
                      IN 2 * off <= block.scale /\ -2 * off <= block.scale
    BY DEF ReadsAs, block
  <1>8. k \in 1 .. n /\ k \in Nat /\ k >= 1 /\ k <= n /\ Len(v) \in Nat
    BY <1>1
  <1>9. Divisor(kern, k, Len(v)) = Steps(k)
    BY <1>8, StepsAre
  <1> HIDE DEF packed
  <1>10. LET off == code(k) * scale - (v[k] - zero) * Steps(k)
         IN 2 * off <= scale /\ -2 * off <= scale
    BY <1>5, <1>8
  <1> QED BY <1>2, <1>7, <1>8, <1>9, <1>10

\* Element k of a part of a sequence.
LEMMA PartIs ==
    ASSUME NEW v \in Seq(Int), NEW a \in Nat, NEW b \in Nat, b <= Len(v)
    PROVE  LET part == SubSeq(v, a + 1, b) IN
           /\ part \in Seq(Int) /\ (a < b => part # <<>> /\ Len(part) = b - a)
           /\ a < b => \A k \in 1 .. b - a : part[k] = v[a + k]
  <1> DEFINE part == SubSeq(v, a + 1, b)
  <1>1. \A k \in (a + 1) .. b : v[k] \in Int
    OBVIOUS
  <1>2. part \in Seq(Int) /\ Len(part) = IF a + 1 <= b THEN b - (a + 1) + 1 ELSE 0
    BY <1>1, SubSeqProperties
  <1>3. \A k \in 1 .. b - (a + 1) + 1 : part[k] = v[(a + 1) + k - 1]
    BY <1>1, SubSeqProperties
  <1> HIDE DEF part
  <1>4. ASSUME a < b PROVE part # <<>> /\ Len(part) = b - a
    <2>1. Len(part) = b - a /\ b - a >= 1
      BY <1>2, <1>4
    <2> QED BY <1>2, <2>1, EmptySeq
  <1>5. ASSUME a < b, NEW k \in 1 .. b - a PROVE part[k] = v[a + k]
    <2>1. k \in 1 .. b - (a + 1) + 1 /\ (a + 1) + k - 1 = a + k
      BY <1>5
    <2> QED BY <1>3, <2>1
  <1> QED BY <1>2, <1>4, <1>5 DEF part

\* Block b of some values: the first it leaves out, and the last it has.
LEMMA BlockIs ==
    ASSUME NEW n \in Nat \ {0}, NEW b \in Nat, b < BlockCount(n)
    PROVE  LET to == Min({n, (b + 1) * Group}) IN
           /\ Group \in Nat \ {0} /\ b * Group \in Nat /\ b * Group < n
           /\ (b + 1) * Group = b * Group + Group
           /\ to \in Nat /\ to <= n /\ b * Group < to /\ to <= b * Group + Group
           /\ b * Group + Group <= n => to = b * Group + Group
  <1>1. Group \in Nat \ {0}
    BY FormatAssumption DEF Group
  <1> DEFINE x == b * Group
             w == (b + 1) * Group
             q == BlockCount(n)
             y == q * Group
  <1>2. x \in Nat /\ w = x + Group
    BY <1>1, Z3
  <1>3. q \in Nat /\ y < n + Group
    BY <1>1, RoundedUp DEF BlockCount
  <1> HIDE DEF q
  <1>4. w <= y /\ y \in Nat
    <2>1. b + 1 <= q
      BY <1>3 DEF q
    <2> QED BY <1>1, <1>3, <2>1, Z3
  <1> HIDE DEF x, w, y
  <1>5. x < n /\ w \in Nat
    BY <1>1, <1>2, <1>3, <1>4
  <1>6. \E m \in {n, w} : \A o \in {n, w} : m <= o
    BY <1>5
  <1>7. Min({n, w}) \in {n, w} /\ \A o \in {n, w} : Min({n, w}) <= o
    BY <1>6, Zenon DEF Min
  <1>8. LET to == Min({n, w}) IN
        /\ to \in Nat /\ to <= n /\ x < to /\ to <= w /\ (w <= n => to = w)
    BY <1>1, <1>2, <1>5, <1>7
  <1> QED BY <1>1, <1>2, <1>5, <1>8 DEF x, w

LEMMA BlocksAre ==
    ASSUME HeadsFillBlocks
    PROVE  /\ BlocksPerHead \in Nat \ {0} /\ BlocksPerRow = Heads * BlocksPerHead
           /\ Heads = 1 \/ HeadDim = BlocksPerHead * Group
  <1>1. Group \in Nat \ {0} /\ Heads \in Nat \ {0} /\ HeadDim \in Nat \ {0}
    BY FormatAssumption DEF Group
  <1>2. BlocksPerHead \in Nat \ {0}
    BY <1>1, RoundedUp DEF BlocksPerHead, BlockCount
  <1>3. CASE Heads = 1
    <2>1. RowWidth = HeadDim
      BY <1>1, <1>3 DEF RowWidth
    <2> QED BY <1>2, <1>3, <2>1 DEF BlocksPerRow, BlocksPerHead
  <1>4. CASE HeadDim % Group = 0
    <2>1. ASSUME NEW m \in Nat PROVE (m * Group + Group - 1) \div Group = m
      <3> DEFINE x == m * Group
      <3>1. x \in Nat /\ Group * m = x /\ Group * (m + 1) = x + Group
        BY <1>1, Z3
      <3> HIDE DEF x
      <3>2. x + Group - 1 \in Int /\ Group * m <= x + Group - 1 /\ x + Group - 1 < Group * (m + 1)
        BY <1>1, <3>1
      <3>3. (x + Group - 1) \div Group = m
        BY <1>1, <3>2, DivisionIs
      <3> QED BY <3>3 DEF x
    <2> DEFINE m == HeadDim \div Group
    <2>2. m \in Int /\ HeadDim = Group * m
      BY <1>1, <1>4
    <2> HIDE DEF m
    <2>3. m \in Nat
      <3> SUFFICES ASSUME m <= -1 PROVE FALSE
        BY <2>2
      <3> DEFINE o == -m
      <3>1. o \in Nat /\ m = -o
        BY <2>2
      <3> HIDE DEF o
      <3>2. Group * o \in Nat /\ Group * (-o) = -(Group * o)
        BY <1>1, <3>1, Z3
      <3> QED BY <1>1, <2>2, <3>1, <3>2
    <2>4. HeadDim = m * Group
      BY <1>1, <2>2, <2>3, Z3
    <2>5. BlocksPerHead = m
      BY <2>1, <2>3, <2>4 DEF BlocksPerHead, BlockCount
    <2>6. Heads * m \in Nat /\ RowWidth = (Heads * m) * Group
      <3>1. Heads * m \in Nat /\ Heads * (m * Group) = (Heads * m) * Group
        BY <1>1, <2>3, Z3
      <3> QED BY <2>4, <3>1 DEF RowWidth
    <2>7. BlocksPerRow = Heads * m
      BY <2>1, <2>6 DEF BlocksPerRow, BlockCount
    <2> QED BY <1>2, <2>4, <2>5, <2>7
  <1> QED BY <1>3, <1>4 DEF HeadsFillBlocks

\* Block b of head h is block h * BlocksPerHead + b of the row.
LEMMA HeadBlockIs ==
    ASSUME HeadsFillBlocks, NEW r \in Vals, NEW h \in 0 .. Heads - 1, NEW b \in 0 .. BlocksPerHead - 1
    PROVE  LET part == BlockValues(Channels(r), h * BlocksPerHead + b) IN
           /\ h * BlocksPerHead + b \in 0 .. BlocksPerRow - 1
           /\ part = BlockValues(HeadValues(r, h), b)
           /\ part \in Seq(Int) /\ part # <<>> /\ Len(part) <= Group
  <1> DEFINE v == Channels(r)
             hb == h * BlocksPerHead + b
             first == h * HeadDim
             head == HeadValues(r, h)
             part == BlockValues(v, hb)
             own == BlockValues(head, b)
             to == Min({RowWidth, (hb + 1) * Group})
             ownTo == Min({HeadDim, (b + 1) * Group})
  <1>1. /\ Group \in Nat \ {0} /\ Heads \in Nat \ {0} /\ HeadDim \in Nat \ {0}
        /\ RowWidth \in Nat \ {0} /\ h \in Nat /\ h < Heads
    BY FormatSizes, FormatAssumption DEF Group
  <1>2. v \in Seq(Int) /\ Len(v) = RowWidth
    BY RowAssumption
  <1>3. b \in Nat /\ b < BlocksPerHead /\ BlocksPerHead \in Nat \ {0}
    BY BlocksAre
  <1>4. hb \in Nat /\ hb < BlocksPerRow
    <2>1. hb < Heads * BlocksPerHead /\ hb \in Nat
      BY <1>1, <1>3, CellBefore
    <2> QED BY <2>1, BlocksAre
  <1>5. first \in Nat /\ first + HeadDim <= RowWidth /\ (h + 1) * HeadDim = first + HeadDim
    <2>1. (h + 1) * HeadDim <= Heads * HeadDim
      BY <1>1, Z3
    <2>2. (h + 1) * HeadDim = first + HeadDim /\ first \in Nat
      BY <1>1, Z3
    <2> QED BY <2>1, <2>2 DEF RowWidth
  <1> HIDE DEF v, hb, first
  <1>6. /\ head \in Seq(Int) /\ Len(head) = HeadDim
        /\ \A k \in 1 .. HeadDim : head[k] = v[first + k]
    <2> DEFINE last == first + HeadDim
    <2>1. head = SubSeq(v, first + 1, last)
      BY <1>5 DEF HeadValues, first, v
    <2>2. last \in Nat /\ last <= Len(v) /\ first < last /\ last - first = HeadDim
      BY <1>1, <1>2, <1>5
    <2> HIDE DEF last
    <2>3. /\ SubSeq(v, first + 1, last) \in Seq(Int) /\ Len(SubSeq(v, first + 1, last)) = HeadDim
          /\ \A k \in 1 .. last - first : SubSeq(v, first + 1, last)[k] = v[first + k]
      BY <1>2, <1>5, <2>2, PartIs
    <2> QED BY <2>1, <2>2, <2>3
  <1> HIDE DEF head
  <1>7. /\ hb * Group \in Nat /\ (hb + 1) * Group = hb * Group + Group
        /\ to \in Nat /\ to <= RowWidth /\ hb * Group < to /\ to <= hb * Group + Group
        /\ hb * Group + Group <= RowWidth => to = hb * Group + Group
    BY <1>1, <1>4, BlockIs DEF BlocksPerRow
  <1>8. /\ b * Group \in Nat /\ (b + 1) * Group = b * Group + Group
        /\ ownTo \in Nat /\ ownTo <= HeadDim /\ b * Group < ownTo /\ ownTo <= b * Group + Group
        /\ b * Group + Group <= HeadDim => ownTo = b * Group + Group
    BY <1>1, <1>3, BlockIs DEF BlocksPerHead
  <1> HIDE DEF to, ownTo
  <1>9. /\ part \in Seq(Int) /\ part # <<>> /\ Len(part) = to - hb * Group
        /\ \A k \in 1 .. to - hb * Group : part[k] = v[hb * Group + k]
    <2>1. part = SubSeq(v, hb * Group + 1, to)
      BY <1>2 DEF BlockValues, to
    <2> DEFINE a == hb * Group
    <2>2. a \in Nat /\ a < to /\ to \in Nat /\ to <= Len(v)
      BY <1>2, <1>7
    <2> HIDE DEF a, part
    <2>3. part = SubSeq(v, a + 1, to)
      BY <2>1 DEF a
    <2>4. /\ part \in Seq(Int) /\ part # <<>> /\ Len(part) = to - a
          /\ \A k \in 1 .. to - a : part[k] = v[a + k]
      BY <1>2, <2>2, <2>3, PartIs
    <2> QED BY <2>4 DEF a
  <1>10. /\ own \in Seq(Int) /\ own # <<>> /\ Len(own) = ownTo - b * Group
         /\ \A k \in 1 .. ownTo - b * Group : own[k] = head[b * Group + k]
    <2>1. own = SubSeq(head, b * Group + 1, ownTo)
      BY <1>6 DEF BlockValues, ownTo
    <2> DEFINE a == b * Group
    <2>2. a \in Nat /\ a < ownTo /\ ownTo \in Nat /\ ownTo <= Len(head)
      BY <1>6, <1>8
    <2> HIDE DEF a, own
    <2>3. own = SubSeq(head, a + 1, ownTo)
      BY <2>1 DEF a
    <2>4. /\ own \in Seq(Int) /\ own # <<>> /\ Len(own) = ownTo - a
          /\ \A k \in 1 .. ownTo - a : own[k] = head[a + k]
      BY <1>6, <2>2, <2>3, PartIs
    <2> QED BY <2>4 DEF a
  <1> HIDE DEF part, own
  <1> DEFINE x == hb * Group
             y == b * Group
  <1>11. x = first + y /\ to - x = ownTo - y
    <2>1. CASE Heads = 1
      <3>1. h = 0 /\ first = 0 /\ hb = b /\ RowWidth = HeadDim
        <4>1. h = 0
          BY <2>1
        <4> QED BY <1>1, <1>3, <2>1, <4>1 DEF first, hb, RowWidth
      <3> QED BY <1>7, <1>8, <3>1 DEF to, ownTo
    <2>2. CASE HeadDim = BlocksPerHead * Group
      <3>1. x = h * (BlocksPerHead * Group) + b * Group
        BY <1>1, <1>3, Z3 DEF hb
      <3>2. x = first + y
        BY <2>2, <3>1 DEF first
      <3>3. y + Group <= HeadDim
        <4>1. (b + 1) * Group <= BlocksPerHead * Group
          <5>1. b + 1 <= BlocksPerHead
            BY <1>3
          <5> QED BY <1>1, <1>3, <5>1, Z3
        <4> QED BY <1>8, <2>2, <4>1
      <3> HIDE DEF x, y
      <3>4. y \in Nat /\ x \in Nat /\ x + Group <= RowWidth
        <4>1. y \in Nat /\ x \in Nat
          BY <1>7, <1>8 DEF x, y
        <4> QED BY <1>1, <1>5, <3>2, <3>3, <4>1
      <3>5. ownTo = y + Group /\ to = x + Group
        BY <1>7, <1>8, <3>3, <3>4 DEF x, y
      <3> QED BY <1>1, <3>2, <3>4, <3>5
    <2> QED BY <2>1, <2>2, BlocksAre
  <1>12. Len(part) = Len(own) /\ Len(part) <= Group
    <2> HIDE DEF x, y
    <2>1. Len(part) = to - x /\ Len(own) = ownTo - y /\ to <= x + Group /\ x \in Nat /\ to \in Nat
      BY <1>7, <1>9, <1>10 DEF x, y
    <2> QED BY <1>1, <1>11, <2>1
  <1>13. ASSUME NEW k \in 1 .. Len(part) PROVE part[k] = own[k]
    <2> HIDE DEF x, y
    <2>1. part[k] = v[x + k] /\ own[k] = head[y + k]
      <3>1. k \in 1 .. to - x /\ k \in 1 .. ownTo - y
        BY <1>9, <1>11 DEF x
      <3> QED BY <1>9, <1>10, <3>1 DEF x, y
    <2>2. y \in Nat /\ ownTo \in Nat /\ ownTo <= HeadDim /\ k \in 1 .. ownTo - y
      BY <1>8, <1>9, <1>11 DEF x, y
    <2>3. y + k \in 1 .. HeadDim
      BY <1>1, <2>2
    <2>4. head[y + k] = v[first + (y + k)]
      BY <1>6, <2>3
    <2>5. first + (y + k) = x + k
      BY <1>5, <1>11, <2>2
    <2> QED BY <2>1, <2>4, <2>5
  <1>14. part = own
    BY <1>9, <1>10, <1>12, <1>13
  <1>15. hb \in 0 .. BlocksPerRow - 1
    <2>1. BlocksPerRow \in Int
      BY <1>1, <1>3, BlocksAre, Z3
    <2> QED BY <1>4, <2>1
  <1> QED BY <1>9, <1>12, <1>14, <1>15 DEF part, own, v, hb, head

\* Slot t of a q4 cache holds the blocks of row r.
Q4Kept(packed, t, r) ==
    \A b \in 0 .. BlocksPerRow - 1 :
        /\ t * BlocksPerRow + b \in DOMAIN packed
        /\ packed[t * BlocksPerRow + b] = QuantizeToken(r)[b]

LEMMA Q4FoundSame ==
    ASSUME HeadsFillBlocks, NEW one, NEW t \in Nat, NEW other, NEW u \in Nat, NEW r \in Vals, NEW s \in Vals,
           Q4Kept(one, t, r), Q4Kept(other, u, r), FoundAt(one, t, s)
    PROVE  FoundAt(other, u, s)
  <1> SUFFICES ASSUME NEW h \in 0 .. Heads - 1, NEW b \in 0 .. BlocksPerHead - 1
               PROVE  LET place == u * BlocksPerRow + h * BlocksPerHead + b IN
                      /\ place \in DOMAIN other
                      /\ \A kernel0 \in Kernels :
                             ReadsAs(kernel0, other[place], BlockValues(HeadValues(s, h), b))
    BY DEF FoundAt
  <1> DEFINE hb == h * BlocksPerHead + b
  <1>1. hb \in 0 .. BlocksPerRow - 1
    BY HeadBlockIs
  <1>2. /\ u * BlocksPerRow + h * BlocksPerHead + b = u * BlocksPerRow + hb
        /\ t * BlocksPerRow + h * BlocksPerHead + b = t * BlocksPerRow + hb
    <2>1. Heads \in Nat /\ BlocksPerHead \in Nat /\ BlocksPerRow = Heads * BlocksPerHead /\ h \in Nat /\ b \in Nat
      BY BlocksAre, FormatSizes
    <2>2. BlocksPerRow \in Nat
      BY <2>1, Z3
    <2>3. u * BlocksPerRow \in Nat /\ t * BlocksPerRow \in Nat /\ h * BlocksPerHead \in Nat
      BY <2>1, <2>2, Z3
    <2> DEFINE x == u * BlocksPerRow
               y == t * BlocksPerRow
               z == h * BlocksPerHead
    <2> HIDE DEF x, y, z
    <2>4. x + z + b = x + (z + b) /\ y + z + b = y + (z + b)
      BY <2>1, <2>3 DEF x, y, z
    <2> QED BY <2>4 DEF x, y, z
  <1>3. \A kernel0 \in Kernels :
            ReadsAs(kernel0, one[t * BlocksPerRow + hb], BlockValues(HeadValues(s, h), b))
    BY <1>2 DEF FoundAt
  <1>4. /\ u * BlocksPerRow + hb \in DOMAIN other
        /\ other[u * BlocksPerRow + hb] = one[t * BlocksPerRow + hb]
    <2> HIDE DEF hb
    <2> QED BY <1>1 DEF Q4Kept
  <1> HIDE DEF hb
  <1> QED BY <1>2, <1>3, <1>4

LEMMA Q4Found ==
    ASSUME HeadsFillBlocks, NEW packed, NEW t \in Nat, NEW r \in Vals, Q4Kept(packed, t, r)
    PROVE  {s \in Vals : FoundAt(packed, t, s)} = {r}
  <1> DEFINE fresh == QuantizeToken(r)
  <1>1. BlocksPerRow \in Nat
    BY FormatSizes, BlocksAre, Z3
  <1>2. Q4Kept(fresh, 0, r)
    <2>1. DOMAIN fresh = 0 .. BlocksPerRow - 1 /\ 0 * BlocksPerRow = 0
      BY <1>1 DEF QuantizeToken
    <2>2. \A b \in 0 .. BlocksPerRow - 1 : 0 + b = b
      BY <1>1
    <2> HIDE DEF fresh
    <2> QED BY <2>1, <2>2 DEF Q4Kept, fresh
  <1>3. FoundAt(fresh, 0, r)
    <2> SUFFICES ASSUME NEW h \in 0 .. Heads - 1, NEW b \in 0 .. BlocksPerHead - 1
                 PROVE  LET place == 0 * BlocksPerRow + h * BlocksPerHead + b IN
                        /\ place \in DOMAIN fresh
                        /\ \A kernel0 \in Kernels :
                               ReadsAs(kernel0, fresh[place], BlockValues(HeadValues(r, h), b))
      BY DEF FoundAt
    <2> DEFINE hb == h * BlocksPerHead + b
               part == BlockValues(Channels(r), hb)
    <2>1. /\ hb \in 0 .. BlocksPerRow - 1 /\ part = BlockValues(HeadValues(r, h), b)
          /\ part \in Seq(Int) /\ part # <<>> /\ Len(part) <= Group
      BY HeadBlockIs
    <2>2. 0 * BlocksPerRow + h * BlocksPerHead + b = hb
      <3>1. h \in Nat /\ b \in Nat /\ BlocksPerHead \in Nat
        BY BlocksAre, FormatSizes
      <3>2. h * BlocksPerHead \in Nat
        BY <3>1, Z3
      <3> DEFINE z == h * BlocksPerHead
      <3> HIDE DEF z
      <3>3. 0 * BlocksPerRow = 0 /\ 0 + z + b = z + b
        BY <1>1, <3>1, <3>2 DEF z
      <3> QED BY <3>3 DEF z
    <2> HIDE DEF part
    <2>3. fresh[hb] = Quantized(part) /\ hb \in DOMAIN fresh
      <3> HIDE DEF hb
      <3> QED BY <2>1 DEF QuantizeToken, part
    <2> HIDE DEF hb, fresh
    <2>4. \A kernel0 \in Kernels : ReadsAs(kernel0, fresh[hb], part)
      BY <2>1, <2>3, QuantizedReads
    <2> QED BY <2>1, <2>2, <2>3, <2>4
  <1> HIDE DEF fresh
  <1>4. FoundAt(packed, t, r)
    <2>1. 0 \in Nat
      OBVIOUS
    <2> QED BY <1>2, <1>3, <2>1, Q4FoundSame
  <1>5. ASSUME NEW s \in Vals, FoundAt(packed, t, s) PROVE s = r
    <2>1. 0 \in Nat
      OBVIOUS
    <2>2. FoundAt(fresh, 0, s)
      BY <1>2, <1>5, <2>1, Q4FoundSame
    <2> QED BY <2>2, RowsDiffer DEF fresh
  <1> QED BY <1>4, <1>5

\* A token's blocks are put down at its position, earlier tokens' stay.
LEMMA Q4Overlaid ==
    ASSUME HeadsFillBlocks, NEW packed, NEW N \in Nat, DOMAIN packed = 0 .. N * BlocksPerRow - 1,
           NEW n \in 0 .. N - 1, NEW r \in Vals
    PROVE  LET new == Overlaid(packed, QuantizeToken(r), n * BlocksPerRow) IN
           /\ DOMAIN new = DOMAIN packed /\ Q4Kept(new, n, r)
           /\ \A t \in 0 .. n - 1, s \in Vals : Q4Kept(packed, t, s) => Q4Kept(new, t, s)
  <1> DEFINE row == QuantizeToken(r)
             new == Overlaid(packed, row, n * BlocksPerRow)
  <1>1. BlocksPerRow \in Nat \ {0}
    <2>1. Heads \in Nat \ {0} /\ BlocksPerHead \in Nat \ {0} /\ BlocksPerRow = Heads * BlocksPerHead
      BY FormatSizes, BlocksAre
    <2> QED BY <2>1, Z3
  <1>2. DOMAIN row = 0 .. BlocksPerRow - 1
    BY DEF QuantizeToken
  <1> HIDE DEF row
  <1>3. RowFits(packed, row, BlocksPerRow, BlocksPerRow, N, n)
    BY <1>1, <1>2 DEF RowFits
  <1>4. LaidDown(new, packed, row, BlocksPerRow, n)
    BY <1>3, OverlaidIs
  <1> HIDE DEF new
  <1>5. ASSUME NEW b \in 0 .. BlocksPerRow - 1 PROVE n * BlocksPerRow + b \in DOMAIN packed
    <2>1. n \in Nat /\ n < N /\ BlocksPerRow \in Nat
      BY <1>1
    <2>2. n * BlocksPerRow + b \in Nat /\ n * BlocksPerRow + b < N * BlocksPerRow
      BY <2>1, CellBefore
    <2>3. N * BlocksPerRow \in Nat
      BY <1>1, Z3
    <2> DEFINE x == N * BlocksPerRow
               y == n * BlocksPerRow + b
    <2> HIDE DEF x, y
    <2>4. y \in 0 .. x - 1
      BY <2>2, <2>3 DEF x, y
    <2> QED BY <2>4 DEF x, y
  <1>6. Q4Kept(new, n, r)
    BY <1>4, <1>5 DEF Q4Kept, LaidDown, row
  <1>7. ASSUME NEW t \in 0 .. n - 1, NEW s \in Vals, Q4Kept(packed, t, s) PROVE Q4Kept(new, t, s)
    BY <1>4, <1>7 DEF Q4Kept, LaidDown
  <1> QED BY <1>4, <1>6, <1>7 DEF new, row, LaidDown

----------------------------------------------------------------------------
(* The paper cache.                                                         *)

\* The loop of tq_paper_get_bits: its value after each bit.
Loop(bits, from, f) ==
    f = [n \in 0 .. MseBits |-> IF n = 0 THEN 0 ELSE f[n - 1] + bits[from + n - 1] * 2^(n - 1)]

LEMMA LoopExists ==
    ASSUME NEW bits, NEW from \in Nat
    PROVE  \E f : Loop(bits, from, f)
  <1> DEFINE b(n) == bits[from + n - 1]
             W(f, n) == IF n = 0 THEN 0 ELSE f[n - 1] + b(n) * 2^(n - 1)
             v1 == 0 + b(1) * 2^(1 - 1)
             v2 == v1 + b(2) * 2^(2 - 1)
             v3 == v2 + b(3) * 2^(3 - 1)
             v4 == v3 + b(4) * 2^(4 - 1)
             g == [n \in 0 .. MseBits |->
                      IF n = 0 THEN 0 ELSE IF n = 1 THEN v1 ELSE IF n = 2 THEN v2 ELSE IF n = 3 THEN v3 ELSE v4]
  <1>1. MseBits \in 1 .. 4
    BY FormatAssumption
  <1>2. ASSUME NEW n \in 0 .. MseBits PROVE g[n] = W(g, n)
    <2>1. n \in {0, 1, 2, 3, 4}
      BY <1>1
    <2>2. n # 0 => n - 1 \in 0 .. MseBits
      BY <1>1
    <2> HIDE DEF v1, v2, v3, v4, b
    <2>3. CASE n = 0
      BY <2>3
    <2>4. CASE n = 1
      <3>1. g[1] = v1 /\ g[0] = 0
        BY <1>1
      <3> QED BY <2>4, <3>1 DEF v1
    <2>5. CASE n = 2
      <3>1. g[2] = v2 /\ g[1] = v1
        BY <1>1, <2>5
      <3> QED BY <2>5, <3>1 DEF v2
    <2>6. CASE n = 3
      <3>1. g[3] = v3 /\ g[2] = v2
        BY <1>1, <2>6
      <3> QED BY <2>6, <3>1 DEF v3
    <2>7. CASE n = 4
      <3>1. g[4] = v4 /\ g[3] = v3
        BY <1>1, <2>7
      <3> QED BY <2>7, <3>1 DEF v4
    <2> QED BY <2>1, <2>3, <2>4, <2>5, <2>6, <2>7
  <1>3. g = [n \in 0 .. MseBits |-> W(g, n)]
    <2> HIDE DEF W, v1, v2, v3, v4
    <2> QED BY <1>2
  <1> HIDE DEF g
  <1> QED BY <1>3 DEF Loop

LEMMA GetBitsIsLoop ==
    ASSUME NEW bits, NEW from \in Nat
    PROVE  \E f : Loop(bits, from, f) /\ GetBits(bits, from) = f[MseBits]
  <1> DEFINE value == CHOOSE f : f = [n \in 0 .. MseBits |->
                                        IF n = 0 THEN 0 ELSE f[n - 1] + bits[from + n - 1] * 2^(n - 1)]
             chosen == CHOOSE f : Loop(bits, from, f)
  <1>1. GetBits(bits, from) = value[MseBits]
    BY Zenon DEF GetBits
  <1>2. value = chosen
    BY DEF Loop
  <1> HIDE DEF value
  <1>3. Loop(bits, from, chosen)
    BY LoopExists
  <1> QED BY <1>1, <1>2, <1>3

\* The bits of a code make the code.
LEMMA GetBitsIs ==
    ASSUME NEW bits, NEW from \in Nat, NEW x \in 0 .. 2^MseBits - 1,
           \A b \in 0 .. MseBits - 1 : bits[from + b] = Bit(x, b)
    PROVE  GetBits(bits, from) = x
  <1>1. MseBits \in {1, 2, 3, 4}
    BY FormatAssumption
  <1>2. PICK f : Loop(bits, from, f) /\ GetBits(bits, from) = f[MseBits]
    BY GetBitsIsLoop
  <1>3. 2^0 = 1 /\ 2^1 = 2 /\ 2^2 = 4 /\ 2^3 = 8 /\ 2^4 = 16
    OBVIOUS
  <1>4. /\ Bit(x, 0) = x % 2 /\ Bit(x, 1) = (x \div 2) % 2
        /\ Bit(x, 2) = (x \div 4) % 2 /\ Bit(x, 3) = (x \div 8) % 2
    <2>1. x \in Int /\ x \div 1 = x
      <3>1. x \in Int
        BY <1>1, <1>3
      <3> QED BY <3>1
    <2> QED BY <1>3, <2>1 DEF Bit
  <1>5. ASSUME NEW n \in 0 .. MseBits
        PROVE  f[n] = IF n = 0 THEN 0 ELSE f[n - 1] + bits[from + n - 1] * 2^(n - 1)
    BY <1>2, Zenon DEF Loop
  <1>6. f[0] = 0
    BY <1>1, <1>5
  <1>7. ASSUME NEW n \in 1 .. MseBits PROVE f[n] = f[n - 1] + Bit(x, n - 1) * 2^(n - 1)
    <2>1. MseBits \in Nat /\ n \in 0 .. MseBits /\ n # 0 /\ n - 1 \in 0 .. MseBits - 1
      BY <1>1
    <2>2. from + n - 1 = from + (n - 1)
      BY <2>1
    <2>3. bits[from + n - 1] = Bit(x, n - 1)
      BY <2>1, <2>2
    <2> QED BY <1>5, <2>1, <2>3
  <1>8. f[1] = x % 2
    <2>1. 1 \in 1 .. MseBits /\ 1 - 1 = 0 /\ x \in Int
      BY <1>1, <1>3
    <2>2. f[1] = f[0] + Bit(x, 0) * 1
      BY <1>3, <1>7, <2>1
    <2> QED BY <1>4, <1>6, <2>1, <2>2
  <1>9. CASE MseBits = 1
    <2>1. x \in 0 .. 1
      BY <1>3, <1>9
    <2> QED BY <1>2, <1>8, <1>9, <2>1
  <1>10. CASE MseBits # 1
    <2>1. f[2] = (x % 2) + ((x \div 2) % 2) * 2
      <3>1. 2 \in 1 .. MseBits /\ 2 - 1 = 1 /\ x \in Int
        BY <1>1, <1>3, <1>10
      <3>2. f[2] = f[1] + Bit(x, 1) * 2
        BY <1>3, <1>7, <3>1
      <3> QED BY <1>4, <1>8, <3>1, <3>2
    <2>2. CASE MseBits = 2
      <3>1. x \in 0 .. 3
        BY <1>3, <2>2
      <3> QED BY <1>2, <2>1, <2>2, <3>1
    <2>3. CASE MseBits \in {3, 4}
      <3>1. f[3] = (x % 2) + ((x \div 2) % 2) * 2 + ((x \div 4) % 2) * 4
        <4>1. 3 \in 1 .. MseBits /\ 3 - 1 = 2 /\ x \in Int
          BY <1>1, <1>3, <2>3
        <4>2. f[3] = f[2] + Bit(x, 2) * 4
          BY <1>3, <1>7, <4>1
        <4> QED BY <1>4, <2>1, <4>1, <4>2
      <3>2. CASE MseBits = 3
        <4>1. x \in 0 .. 7
          BY <1>3, <3>2
        <4> QED BY <1>2, <3>1, <3>2, <4>1
      <3>3. CASE MseBits = 4
        <4>1. x \in 0 .. 15
          BY <1>3, <3>3
        <4>2. f[4] = f[3] + Bit(x, 3) * 8
          <5>1. 4 \in 1 .. MseBits /\ 4 - 1 = 3
            BY <3>3
          <5> QED BY <1>3, <1>7, <5>1
        <4>3. f[4] = (x % 2) + ((x \div 2) % 2) * 2 + ((x \div 4) % 2) * 4 + ((x \div 8) % 2) * 8
          BY <1>4, <3>1, <4>1, <4>2
        <4> QED BY <1>2, <3>3, <4>1, <4>3
      <3> QED BY <2>3, <3>2, <3>3
    <2> QED BY <1>1, <1>10, <2>2, <2>3
  <1> QED BY <1>9, <1>10

\* Where the bits of code i are.
LEMMA CodePlace ==
    ASSUME NEW i \in 1 .. HeadDim, NEW b \in 0 .. MseBits - 1
    PROVE  LET a == (i - 1) * MseBits + b IN
           /\ a \in Nat /\ a < HeadDim * MseBits
           /\ a \div MseBits = i - 1 /\ a % MseBits = b
  <1>1. MseBits \in {1, 2, 3, 4} /\ HeadDim \in Nat /\ i \in Nat /\ i >= 1 /\ i <= HeadDim
    BY FormatAssumption
  <1>2. CASE MseBits = 1
    BY <1>1, <1>2
  <1>3. CASE MseBits = 2
    BY <1>1, <1>3
  <1>4. CASE MseBits = 3
    BY <1>1, <1>4
  <1>5. CASE MseBits = 4
    BY <1>1, <1>5
  <1> QED BY <1>1, <1>2, <1>3, <1>4, <1>5

\* A row that is kept is read back.
LEMMA PaperReads ==
    ASSUME NEW r \in Vals
    PROVE  PaperReadsAs(PaperToken(r), r)
  <1> SUFFICES ASSUME NEW h \in 0 .. Heads - 1
               PROVE  LET v == Vector(r, h)
                          p == PaperToken(r)[h] IN
                      /\ p.norm = v.norm
                      /\ p.norm # 0 =>
                          /\ \A i \in 1 .. HeadDim : GetBits(p.bits, (i - 1) * MseBits) = v.codes[i]
                          /\ p.gamma = v.gamma
                          /\ p.gamma # 0 => \A i \in 1 .. HeadDim : p.bits[SignBase + i - 1] = v.signs[i]
    BY DEF PaperReadsAs
  <1> DEFINE v == Vector(r, h)
             p == PaperQuantized(v)
             size == HeadDim * MseBits
  <1>1. PaperToken(r)[h] = p
    BY DEF PaperToken
  <1>2. v \in [norm : Int, codes : [1 .. HeadDim -> 0 .. 2^MseBits - 1],
               gamma : Int, signs : [1 .. HeadDim -> {0, 1}]]
    BY RowAssumption
  <1> HIDE DEF v
  <1>3. /\ p.norm = v.norm /\ p.gamma = IF v.norm = 0 THEN 0 ELSE v.gamma
        /\ p.bits = [a \in 0 .. SignBase + Bytes(HeadDim) - 1 |->
                        IF v.norm # 0 /\ a < size THEN Bit(v.codes[a \div MseBits + 1], a % MseBits)
                        ELSE IF v.norm # 0 /\ v.gamma # 0 /\ a >= SignBase /\ a - SignBase < HeadDim
                             THEN v.signs[a - SignBase + 1] ELSE 0]
    BY DEF PaperQuantized
  <1> HIDE DEF p
  <1>4. /\ MseBits \in 1 .. 4 /\ HeadDim \in Nat \ {0} /\ size \in Nat
        /\ SignBase \in Nat /\ size <= SignBase /\ Bytes(HeadDim) \in Nat /\ HeadDim <= Bytes(HeadDim)
    <2>1. MseBits \in 1 .. 4 /\ HeadDim \in Nat \ {0}
      BY FormatAssumption
    <2>2. size \in Nat
      BY <2>1, Z3
    <2> HIDE DEF size
    <2>3. ASSUME NEW n \in Nat PROVE Bytes(n) \in Nat /\ n <= Bytes(n)
      BY DEF Bytes
    <2> QED BY <2>1, <2>2, <2>3 DEF SignBase, size
  <1>5. ASSUME p.norm # 0, NEW i \in 1 .. HeadDim
        PROVE  GetBits(p.bits, (i - 1) * MseBits) = v.codes[i]
    <2> DEFINE from == (i - 1) * MseBits
    <2>1. v.codes[i] \in 0 .. 2^MseBits - 1
      BY <1>2
    <2>2. ASSUME NEW b \in 0 .. MseBits - 1 PROVE p.bits[from + b] = Bit(v.codes[i], b)
      <3> DEFINE a == from + b
      <3>1. a \in Nat /\ a < size /\ a \div MseBits = i - 1 /\ a % MseBits = b
        BY CodePlace
      <3> HIDE DEF a, from, size
      <3>2. a \in 0 .. SignBase + Bytes(HeadDim) - 1
        BY <1>4, <3>1
      <3>3. p.bits[a] = Bit(v.codes[a \div MseBits + 1], a % MseBits)
        BY <1>3, <1>5, <3>1, <3>2
      <3>4. a \div MseBits + 1 = i
        BY <3>1
      <3> QED BY <3>1, <3>3, <3>4 DEF a
    <2>3. from \in Nat
      <3>1. i - 1 \in Nat /\ MseBits \in Nat
        BY <1>4
      <3> QED BY <3>1, Z3
    <2> HIDE DEF from
    <2>4. GetBits(p.bits, from) = v.codes[i]
      BY <2>1, <2>2, <2>3, GetBitsIs
    <2> QED BY <2>4 DEF from
  <1>6. ASSUME p.norm # 0, p.gamma # 0, NEW i \in 1 .. HeadDim
        PROVE  p.bits[SignBase + i - 1] = v.signs[i]
    <2> DEFINE a == SignBase + i - 1
    <2> HIDE DEF size
    <2>1. /\ a \in 0 .. SignBase + Bytes(HeadDim) - 1 /\ ~(a < size)
          /\ a >= SignBase /\ a - SignBase < HeadDim /\ a - SignBase + 1 = i
      BY <1>4
    <2> HIDE DEF a
    <2>2. v.norm # 0 /\ v.gamma # 0
      BY <1>3, <1>6
    <2>3. p.bits[a] = v.signs[a - SignBase + 1]
      BY <1>3, <2>1, <2>2
    <2> QED BY <2>1, <2>3 DEF a
  <1>7. p.norm # 0 => p.gamma = v.gamma
    BY <1>3
  <1> QED BY <1>1, <1>3, <1>5, <1>6, <1>7 DEF v

LEMMA PaperFound ==
    ASSUME NEW r \in Vals
    PROVE  {s \in Vals : PaperReadsAs(PaperToken(r), s)} = {r}
  <1>1. \A s \in Vals : PaperReadsAs(PaperToken(r), s) => s = r
    BY RowsDiffer
  <1> QED BY <1>1, PaperReads

----------------------------------------------------------------------------
(* The caches under generation.                                             *)

\* Layers whose attention keeps rows, those a token of this level reaches,
\* and how many tokens each of them has taken up.
Attends(l) == ~IsSsm(l) /\ "qkv" \in tensors[l]
InReach(l) == \A k \in 0 .. l - 1 : ~MustExit(k)
Taken(l) == IF layer # Idle /\ l < layer THEN position + 1 ELSE position

\* The first n tokens of this generation, as the mode keeps them.
Keeps(l, n) ==
    /\ mode = "fp16" => \A i \in 0 .. n - 1 : mem[Locate(Paged, l, i)] = <<run, i>>
    /\ mode = "flat" => \A i \in 0 .. n - 1 : store[l][i] = <<run, i>>
    /\ mode \in {"q8", "q8cuda"} =>
           store[l].count = n /\ \A i \in 0 .. n - 1 : Q8Kept(store[l], i, <<run, i>>)
    /\ mode = "q4" /\ HeadsFillBlocks => \A i \in 0 .. n - 1 : Q4Kept(store[l], i, <<run, i>>)
    /\ mode = "paper" => store[l] = [i \in 1 .. n |-> PaperToken(<<run, i - 1>>)]

\* The window and the state of a recurrent layer after the first n tokens.
ConvOf(r, n) ==
    [j \in 1 .. ConvKernel - 1 |->
        IF n - (ConvKernel - 1) + j >= 1 THEN <<r, n - (ConvKernel - 1) + j - 1>> ELSE Zero]
StateOf(r, n) == [i \in 1 .. n |-> WindowOf(r, i)]
Recurs(l, n) == ssm[l] = [conv |-> ConvOf(run, n), state |-> StateOf(run, n)]

Follows(l, n) == (Attends(l) => Keeps(l, n)) /\ (IsSsm(l) => Recurs(l, n))

\* The rows of this generation, and the tokens the paper cache packs them into.
OwnRows == {Zero} \cup {<<run, p>> : p \in 0 .. MaxContext - 1}
OwnTokens == {PaperToken(<<run, p>>) : p \in 0 .. MaxContext - 1}

\* Whatever was skipped, a cache that appends and a recurrent layer have taken
\* up nothing of another generation,
Owns(l) ==
    /\ Attends(l) /\ mode = "paper" => store[l] \in Seq(OwnTokens)
    /\ IsSsm(l) => /\ ssm[l].conv \in Seq(OwnRows) /\ Len(ssm[l].conv) = ConvKernel - 1
                   /\ ssm[l].state \in Seq([1 .. ConvKernel -> OwnRows])

\* and a byte cache that was skipped does not reach the position.
Short(l, n) == Attends(l) /\ mode \in {"q8", "q8cuda"} => store[l].count \in 0 .. n - 1

\* The caches have the size they were opened with.
Stores ==
    /\ DOMAIN store = LayerIds /\ DOMAIN ssm = LayerIds
    /\ mode \in {"q8", "q8cuda"} => \A l \in LayerIds :
           /\ store[l] = [count |-> store[l].count, codes |-> store[l].codes, scales |-> store[l].scales]
           /\ Q8Sized(store[l], MaxContext)
    /\ mode = "q4" => \A l \in LayerIds : DOMAIN store[l] = 0 .. MaxContext * BlocksPerRow - 1
    /\ mode = "flat" => \A l \in LayerIds : DOMAIN store[l] = 0 .. MaxContext - 1

Counters ==
    /\ level \in Levels /\ mode \in Modes /\ failed \in BOOLEAN
    /\ layer \in {Idle} \cup LayerIds /\ (layer # Idle => ~failed)
    /\ position \in 0 .. MaxContext /\ run \in 0 .. MaxRuns
    /\ depth \in 1 .. Layers

\* While a generation is served every layer that all its tokens went through
\* has kept them, and the layers before the next one the token in progress, too.
\* But for the medium level these are all the layers a token reaches.
Generating ==
    ~failed =>
        /\ run >= 1
        /\ mode = "fp16" => /\ Paged.live
                            /\ Paged.numTokens = IF layer = Idle THEN position ELSE position + 1
        /\ layer # Idle => position < MaxContext /\ InReach(layer)
        /\ level # "medium" => \A l \in LayerIds : InReach(l) => l < depth
        /\ \A l \in LayerIds :
               /\ Owns(l)
               /\ l < depth => Follows(l, Taken(l))
               /\ l >= depth => Short(l, Taken(l))

SeenIsPrefix ==
    seen # Nothing =>
        /\ (level = "medium" => seen.whole) /\ (mode = "q4" => HeadsFillBlocks) =>
               seen.rows = Prefix
        /\ mode \in {"q8", "q8cuda", "paper"} \/ seen.recurrent => ConversationsIndependent

KVInv == PoolInv /\ Counters /\ Stores /\ Generating /\ SeenIsPrefix

LEMMA KVSizes ==
    /\ Decoder \in Requests /\ Requests = {Decoder}
    /\ MaxContext \in Nat \ {0} /\ MaxRuns \in Nat /\ Layers \in Nat \ {0}
    /\ ConvKernel \in 2 .. 4 /\ MaxTokens > MaxContext /\ MaxTokens \in Nat
    /\ Vals = (1 .. MaxRuns) \X (0 .. MaxContext - 1)
    /\ \A l \in LayerIds : l \in Nat /\ l # Idle
  <1>1. Layers \in Nat \ {0} /\ MaxTokens \in Nat
    BY PoolAssumption
  <1>2. \A l \in LayerIds : l \in Nat /\ l # Idle
    BY <1>1 DEF LayerIds, Idle
  <1> QED BY <1>1, <1>2, DecoderAssumption

\* An empty table is one the pool knows.
LEMMA EmptyTable ==
    /\ TableShape(Table0) /\ Table0.ids = <<>> /\ Table0.live /\ Table0.numTokens = 0
    /\ Table0 \in [live : BOOLEAN, numTokens : Nat, ids : Seq(Blocks), capacity : Nat]
  <1> DEFINE cap == IF TotalBlocks > MinCapacity THEN TotalBlocks ELSE MinCapacity
  <1>1. cap \in Nat /\ cap >= 1
    BY PoolAssumption
  <1> HIDE DEF cap
  <1>2. /\ Table0.live = TRUE /\ Table0.numTokens = 0 /\ Table0.ids = <<>> /\ Table0.capacity = cap
        /\ Table0 \in [live : BOOLEAN, numTokens : Nat, ids : Seq(Blocks), capacity : Nat]
    <2>1. TRUE \in BOOLEAN /\ 0 \in Nat
      OBVIOUS
    <2>2. Table0 = [live |-> TRUE, numTokens |-> 0, ids |-> <<>>, capacity |-> cap]
      BY DEF Table0, cap
    <2> QED BY <1>1, <2>1, <2>2, EmptyIsInjective
  <1>3. Len(<<>>) = 0
    OBVIOUS
  <1> QED BY <1>1, <1>2, <1>3, BlocksForStep DEF TableShape

LEMMA DInitPool == DInit => PoolInv
  <1> SUFFICES ASSUME DInit PROVE PoolInv
    OBVIOUS
  <1>0. TotalBlocks \in Nat \ {0}
    BY PoolAssumption
  <1>1. /\ freeStack \in Seq(Blocks) /\ DOMAIN freeStack = 1 .. TotalBlocks
        /\ \A i \in 1 .. TotalBlocks : freeStack[i] = TotalBlocks - i
    <2>1. \A i \in 1 .. TotalBlocks : TotalBlocks - i \in Blocks
      BY <1>0 DEF Blocks
    <2> QED BY <1>0, <2>1 DEF DInit
  <1>2. IsInjective(freeStack)
    BY <1>0, <1>1 DEF IsInjective
  <1>3. Range(freeStack) = Blocks
    <2>1. \A b \in Blocks : TotalBlocks - b \in 1 .. TotalBlocks
                            /\ TotalBlocks - (TotalBlocks - b) = b
      BY <1>0 DEF Blocks
    <2>2. \A b \in Blocks : b \in Range(freeStack)
      BY <1>1, <2>1 DEF Range
    <2>3. Range(freeStack) \subseteq Blocks
      <3>1. \A i \in 1 .. TotalBlocks : freeStack[i] \in Blocks
        BY <1>0, <1>1
      <3> QED BY <1>1, <3>1 DEF Range
    <2> QED BY <2>2, <2>3
  <1>4. table = [r \in Requests |-> Table0]
    BY DEF DInit
  <1> HIDE DEF Table0
  <1>5. \A r \in Requests : table[r] = Table0 /\ Held(r) = {} /\ table[r].ids = <<>>
    BY <1>4, EmptyTable, EmptyIsInjective DEF Held
  <1>6. TypeOK
    <2>1. table \in [Requests -> [live : BOOLEAN, numTokens : Nat,
                                  ids : Seq(Blocks), capacity : Nat]]
      BY <1>4, EmptyTable
    <2>2. mem \in [Addresses -> Vals \cup {Zero}]
      BY DEF DInit
    <2> QED BY <1>1, <2>1, <2>2 DEF TypeOK
  <1>7. BlockOwnedOnce
    BY <1>2, <1>5, EmptyIsInjective DEF BlockOwnedOnce
  <1>8. NoBlockLost
    BY <1>3, <1>5 DEF NoBlockLost
  <1>9. \A r \in Requests : TableShape(table[r])
    BY <1>5, EmptyTable
  <1> QED BY <1>6, <1>7, <1>8, <1>9 DEF PoolInv

\* qwn_decoder_reset gives every page of the table back.
LEMMA ResetPool ==
    ASSUME PoolInv, Reset(Paged.ids), mem' = mem
    PROVE  PoolInv'
  <1> DEFINE ids == Paged.ids
  <1>0. Decoder \in Requests /\ Requests = {Decoder}
    BY KVSizes
  <1>1. /\ freeStack \in Seq(Blocks) /\ IsInjective(freeStack) /\ ids \in Seq(Blocks)
        /\ IsInjective(ids) /\ Range(freeStack) \cap Range(ids) = {}
    BY <1>0 DEF PoolInv, TypeOK, BlockOwnedOnce, Held, Paged
  <1>2. /\ freeStack' = freeStack \o ids
        /\ table' = [table EXCEPT ![Decoder] = Table0]
    <2>1. Pushed(freeStack, ids) = freeStack \o ids
      BY <1>1, PushedWhole
    <2> QED BY <2>1 DEF Reset
  <1> HIDE DEF Table0
  <1>3. /\ freeStack \o ids \in Seq(Blocks) /\ IsInjective(freeStack \o ids)
        /\ Range(freeStack \o ids) = Range(freeStack) \cup Range(ids)
    BY <1>1, Join
  <1>4. table'[Decoder] = Table0 /\ table'[Decoder].ids = <<>>
    BY <1>0, <1>2, EmptyTable DEF PoolInv, TypeOK
  <1>5. TypeOK'
    BY <1>2, <1>3, EmptyTable DEF PoolInv, TypeOK
  <1>6. Held(Decoder)' = {} /\ Held(Decoder) = Range(ids)
    BY <1>4, EmptyIsInjective DEF Held, Paged
  <1>7. BlockOwnedOnce'
    <2>1. IsInjective(table'[Decoder].ids) /\ IsInjective(freeStack')
      BY <1>2, <1>3, <1>4, EmptyIsInjective
    <2> QED BY <1>0, <1>6, <2>1 DEF BlockOwnedOnce
  <1>8. NoBlockLost'
    <2>1. Range(freeStack') = Range(freeStack) \cup Range(ids)
      BY <1>2, <1>3
    <2>2. Range(freeStack) \cup Held(Decoder) = Blocks
      BY <1>0 DEF PoolInv, NoBlockLost
    <2> QED BY <1>0, <1>6, <2>1, <2>2 DEF NoBlockLost
  <1>9. \A r \in Requests : TableShape(table'[r])
    BY <1>0, <1>4, EmptyTable
  <1> QED BY <1>5, <1>7, <1>8, <1>9 DEF PoolInv

\* A pool for max_ctx tokens is never empty when a token below it needs a page.
LEMMA BlocksForGrows ==
    ASSUME NEW m \in Nat, NEW n \in Nat, m <= n
    PROVE  BlocksFor(m) <= BlocksFor(n)
  <1> DEFINE a == m + BlockSize - 1
             b == n + BlockSize - 1
             p == a \div BlockSize
             q == b \div BlockSize
  <1>1. BlockSize \in Nat \ {0} /\ a \in Int /\ b \in Int /\ a <= b
    BY PoolAssumption
  <1>2. BlocksFor(m) = p /\ BlocksFor(n) = q
    BY DEF BlocksFor
  <1> HIDE DEF a, b
  <1>3. p \in Int /\ q \in Int /\ BlockSize * p <= a /\ b < BlockSize * (q + 1)
    BY <1>1
  <1> HIDE DEF p, q
  <1>4. p < q + 1
    <2> SUFFICES ASSUME q + 1 <= p PROVE FALSE
      BY <1>3
    <2>1. BlockSize * (q + 1) <= BlockSize * p /\ BlockSize * (q + 1) \in Int /\ BlockSize * p \in Int
      BY <1>1, <1>3, Z3
    <2> QED BY <1>1, <1>3, <2>1
  <1> QED BY <1>2, <1>3, <1>4

LEMMA PoolIsEnough ==
    ASSUME PoolInv, Paged.numTokens < MaxContext, NeedsBlock(Decoder), Paged.live
    PROVE  freeStack # <<>>
  <1> SUFFICES ASSUME freeStack = <<>> PROVE FALSE
    OBVIOUS
  <1> DEFINE ids == Paged.ids
             n == Paged.numTokens
             k == Len(ids)
  <1>0. Decoder \in Requests /\ Requests = {Decoder} /\ MaxContext \in Nat
    BY KVSizes
  <1>1. ids \in Seq(Blocks) /\ n \in Nat /\ k = BlocksFor(n) /\ k \in Nat
    BY <1>0, TableOf DEF TableShape, Paged
  <1>2. Range(ids) = Blocks
    BY <1>0, EmptyIsInjective DEF PoolInv, NoBlockLost, Held, Paged
  <1>3. BlocksFor(n + 1) > k
    BY DEF NeedsBlock, Paged
  <1>4. TotalBlocks = BlocksFor(MaxContext) /\ TotalBlocks \in Nat
    BY DecoderAssumption, PoolAssumption
  <1>5. BlocksFor(n + 1) <= TotalBlocks /\ BlocksFor(n + 1) \in Int
    <2> HIDE DEF n
    <2>1. n + 1 \in Nat /\ n + 1 <= MaxContext
      BY <1>0, <1>1 DEF n
    <2> QED BY <1>0, <1>4, <2>1, BlocksForGrows, BlocksForStep
  <1>6. k < TotalBlocks
    <2> HIDE DEF k, n
    <2> QED BY <1>1, <1>3, <1>4, <1>5
  <1>7. IsFiniteSet(1 .. k) /\ Cardinality(1 .. k) = k
    BY <1>1, FS_Interval
  <1>8. IsFiniteSet(Blocks) /\ Cardinality(Blocks) = TotalBlocks
    <2>0. TotalBlocks \in Nat \ {0}
      BY PoolAssumption
    <2>1. IsFiniteSet(0 .. TotalBlocks - 1)
          /\ Cardinality(0 .. TotalBlocks - 1) =
               IF 0 > TotalBlocks - 1 THEN 0 ELSE (TotalBlocks - 1) - 0 + 1
      BY <2>0, FS_Interval
    <2> QED BY <2>0, <2>1 DEF Blocks
  <1>9. ids \in Surjection(1 .. k, Blocks)
    <2>1. ids \in [1 .. k -> Blocks] /\ DOMAIN ids = 1 .. k
      BY <1>1
    <2>2. \A b \in Blocks : \E i \in 1 .. k : ids[i] = b
      BY <1>2, <2>1 DEF Range
    <2> QED BY <2>1, <2>2 DEF Surjection
  <1>10. Cardinality(Blocks) <= Cardinality(1 .. k)
    BY <1>7, <1>9, FS_Surjection
  <1> HIDE DEF k
  <1> QED BY <1>1, <1>4, <1>6, <1>7, <1>8, <1>10

\* Before a layer of a token, and where all tokens went through it: what the
\* invariant says there.
At(l, n) ==
    /\ KVInv /\ layer = l /\ l \in LayerIds /\ position = n /\ run \in 1 .. MaxRuns /\ n \in 0 .. MaxContext - 1
    /\ Row = <<run, n>> /\ Row \in Vals /\ InReach(l) /\ Taken(l) = n /\ Owns(l)
    /\ l >= depth => Short(l, n) /\ level = "medium"
    /\ mode = "fp16" => Paged.live /\ Paged.numTokens = n + 1

Midway(l, n) == At(l, n) /\ Follows(l, n)

LEMMA AtIs ==
    ASSUME KVInv, NEW l, layer = l, l # Idle, NEW n, position = n
    PROVE  At(l, n) /\ (l < depth => Midway(l, n))
  <1>1. l \in LayerIds /\ l \in Nat /\ ~failed /\ n \in 0 .. MaxContext /\ run \in 0 .. MaxRuns
        /\ depth \in Nat
    BY KVSizes DEF KVInv, Counters
  <1>2. Taken(l) = n
    BY <1>1 DEF Taken
  <1>3. /\ run >= 1 /\ position < MaxContext /\ InReach(l) /\ Owns(l)
        /\ l < depth => Follows(l, n)
        /\ l >= depth => Short(l, n)
        /\ level # "medium" => l < depth
        /\ mode = "fp16" => Paged.live /\ Paged.numTokens = n + 1
    BY <1>1, <1>2, KVSizes DEF KVInv, Generating
  <1>4. run \in 1 .. MaxRuns /\ n \in 0 .. MaxContext - 1
    BY <1>1, <1>3, KVSizes
  <1>5. Row = <<run, n>> /\ Row \in Vals
    BY <1>4, KVSizes DEF Row
  <1> QED BY <1>1, <1>2, <1>3, <1>4, <1>5 DEF At, Midway

\* Any earlier token of this generation is a row.
LEMMA EarlierRow ==
    ASSUME NEW l, NEW n, At(l, n), NEW i \in 0 .. n
    PROVE  <<run, i>> \in Vals
  <1>1. run \in 1 .. MaxRuns /\ i \in 0 .. MaxContext - 1
    BY KVSizes DEF At
  <1> QED BY <1>1, KVSizes

\* What a step of attention at layer l must come to.
ReadEarlier(l, n) ==
    /\ seen'.run = run /\ seen'.position = n /\ seen'.recurrent = FALSE
    /\ seen'.rows = [i \in 1 .. n + 1 |-> <<run, i - 1>>]

LEMMA SeenOne ==
    ASSUME NEW l, NEW n, ReadEarlier(l, n)
    PROVE  SeenIsPrefix'
  <1>1. seen'.rows = Prefix'
    BY DEF ReadEarlier, Prefix
  <1>2. ConversationsIndependent'
    <2>1. ASSUME NEW i \in DOMAIN seen'.rows PROVE seen'.rows[i][1] = seen'.run
      BY <2>1 DEF ReadEarlier
    <2> QED BY <2>1 DEF ReadEarlier, ConversationsIndependent
  <1> QED BY <1>1, <1>2 DEF SeenIsPrefix

LEMMA AttendedRows ==
    ASSUME NEW rows, seen' = Attended(rows)
    PROVE  seen'.run = run /\ seen'.position = position /\ seen'.recurrent = FALSE /\ seen'.rows = rows
  BY DEF Attended

\* A write of one layer leaves what the others keep.
LEMMA OthersKeep ==
    ASSUME NEW l, NEW c, store' = [store EXCEPT ![l] = c], vars' = vars, mode' = mode, run' = run,
           DOMAIN store = LayerIds, NEW o \in LayerIds, o # l, NEW k, Keeps(o, k)
    PROVE  Keeps(o, k)'
  <1>1. store'[o] = store[o] /\ mem' = mem /\ table' = table
    BY DEF vars
  <1> QED BY <1>1 DEF Keeps, Paged, Locate, Q8Kept, Q4Kept

LEMMA FlatKeeps ==
    ASSUME NEW l, NEW n, Midway(l, n), Attends(l), FlatAttention, mode' = mode, run' = run
    PROVE  ReadEarlier(l, n) /\ Keeps(l, n + 1)'
  <1> DEFINE c == [store[l] EXCEPT ![n] = Row]
  <1>1. /\ mode = "flat" /\ store' = [store EXCEPT ![l] = c] /\ l \in LayerIds /\ DOMAIN store = LayerIds
        /\ DOMAIN store[l] = 0 .. MaxContext - 1 /\ n \in 0 .. MaxContext - 1 /\ Row = <<run, n>>
        /\ position = n /\ MaxContext \in Nat
    BY KVSizes DEF FlatAttention, Midway, At, KVInv, Stores
  <1>2. \A i \in 0 .. n - 1 : store[l][i] = <<run, i>>
    BY <1>1 DEF Midway, Follows, Keeps
  <1>3. DOMAIN c = 0 .. MaxContext - 1 /\ c[n] = <<run, n>> /\ \A i \in 0 .. n - 1 : c[i] = store[l][i]
    BY <1>1
  <1> HIDE DEF c
  <1>4. store'[l] = c
    BY <1>1
  <1>5. \A i \in 0 .. n : c[i] = <<run, i>>
    <2>1. \A i \in 0 .. n : i \in 0 .. n - 1 \/ i = n
      BY <1>1
    <2> QED BY <1>2, <1>3, <2>1
  <1>6. Keeps(l, n + 1)'
    <2>1. \A i \in 0 .. (n + 1) - 1 : i \in 0 .. n
      BY <1>1
    <2> QED BY <1>1, <1>4, <1>5, <2>1 DEF Keeps
  <1>7. seen' = Attended([i \in 1 .. n + 1 |-> <<run, i - 1>>])
    <2>1. \A i \in 1 .. n + 1 : i - 1 \in 0 .. n
      BY <1>1
    <2>2. \A i \in 1 .. n + 1 : store'[l][i - 1] = <<run, i - 1>>
      BY <1>4, <1>5, <2>1
    <2>3. seen' = Attended([i \in 1 .. n + 1 |-> store'[l][i - 1]])
      BY <1>1 DEF FlatAttention, Midway, At
    <2> QED BY <2>2, <2>3
  <1>8. ReadEarlier(l, n)
    <2> DEFINE rows == [i \in 1 .. n + 1 |-> <<run, i - 1>>]
    <2>1. seen' = Attended(rows)
      BY <1>7
    <2> HIDE DEF rows
    <2>2. seen'.run = run /\ seen'.position = position /\ seen'.recurrent = FALSE /\ seen'.rows = rows
      BY <2>1, AttendedRows
    <2> QED BY <1>1, <2>2 DEF ReadEarlier, rows
  <1> QED BY <1>1, <1>3, <1>6, <1>8

\* Either append of the byte cache, and what is then found in it.
LEMMA Q8Keeps ==
    ASSUME NEW l, NEW n, Midway(l, n), Attends(l), Q8Attention \/ DeviceAttention, mode' = mode, run' = run
    PROVE  ReadEarlier(l, n) /\ Keeps(l, n + 1)'
  <1>1. /\ mode \in {"q8", "q8cuda"} /\ l \in LayerIds /\ DOMAIN store = LayerIds
        /\ Q8Sized(store[l], MaxContext) /\ n \in 0 .. MaxContext - 1 /\ Row = <<run, n>> /\ Row \in Vals
        /\ position = n /\ MaxContext \in Nat /\ layer = l
    BY KVSizes DEF Q8Attention, DeviceAttention, Midway, At, KVInv, Stores
  <1>2. store[l].count = n /\ \A i \in 0 .. n - 1 : Q8Kept(store[l], i, <<run, i>>)
    BY <1>1 DEF Midway, Follows, Keeps
  <1>3. PICK new \in {Q8Append(store[l], Row), Q8DeviceAppend(store[l], Row)} :
            store' = [store EXCEPT ![l] = new]
    BY <1>1 DEF Q8Attention, DeviceAttention
  <1>4. store'[l] = new
    BY <1>1, <1>3
  <1>5. /\ new.count = n + 1 /\ Q8Sized(new, MaxContext)
        /\ Q8Kept(new, n, Row)
        /\ \A t \in 0 .. n - 1, s \in Vals : Q8Kept(store[l], t, s) => Q8Kept(new, t, s)
    BY <1>1, <1>2, <1>3, Q8AppendIs
  <1>7. \A i \in 0 .. n : Q8Kept(new, i, <<run, i>>)
    <2>1. ASSUME NEW i \in 0 .. n - 1 PROVE Q8Kept(new, i, <<run, i>>)
      <3>1. <<run, i>> \in Vals
        <4>1. i \in 0 .. n
          BY <1>1
        <4> QED BY <4>1, EarlierRow DEF Midway
      <3> QED BY <1>2, <1>5, <3>1
    <2>2. \A i \in 0 .. n : i \in 0 .. n - 1 \/ i = n
      BY <1>1
    <2> QED BY <1>1, <1>5, <2>1, <2>2
  <1>8. Keeps(l, n + 1)'
    <2>1. \A i \in 0 .. (n + 1) - 1 : i \in 0 .. n
      BY <1>1
    <2> QED BY <1>1, <1>4, <1>5, <1>7, <2>1 DEF Keeps
  <1>9. ASSUME NEW i \in 1 .. n + 1
        PROVE  Recognised({r \in Vals : Q8FoundAt(store'[l], i - 1, r)}) = <<run, i - 1>>
    <2>1. i - 1 \in 0 .. n
      BY <1>1
    <2>2. <<run, i - 1>> \in Vals
      BY <2>1, EarlierRow DEF Midway
    <2>3. {r \in Vals : Q8FoundAt(new, i - 1, r)} = {<<run, i - 1>>}
      BY <1>7, <2>1, <2>2, Q8Found
    <2> QED BY <1>4, <2>3, RecognisedIs
  <1>10. seen' = Attended([i \in 1 .. n + 1 |-> <<run, i - 1>>])
    <2>1. seen' = Attended([i \in 1 .. n + 1 |->
                      Recognised({r \in Vals : Q8FoundAt(store'[l], i - 1, r)})])
      <3>1. CASE Q8Attention
        <4>1. (IF n < store'[l].count THEN n + 1 ELSE 0) = n + 1
          BY <1>1, <1>4, <1>5
        <4>2. seen' = Attended([i \in 1 .. IF n < store'[l].count THEN n + 1 ELSE 0 |->
                          Recognised({r \in Vals : Q8FoundAt(store'[l], i - 1, r)})])
          BY <1>1, <3>1 DEF Q8Attention
        <4> QED BY <4>1, <4>2
      <3>2. CASE DeviceAttention
        BY <1>1, <3>2 DEF DeviceAttention
      <3> QED BY <3>1, <3>2
    <2> QED BY <1>9, <2>1
  <1>11. ReadEarlier(l, n)
    <2> DEFINE rows == [i \in 1 .. n + 1 |-> <<run, i - 1>>]
    <2>1. seen' = Attended(rows)
      BY <1>10
    <2> HIDE DEF rows
    <2>2. seen'.run = run /\ seen'.position = position /\ seen'.recurrent = FALSE /\ seen'.rows = rows
      BY <2>1, AttendedRows
    <2> QED BY <1>1, <1>3, <2>2 DEF ReadEarlier, rows
  <1> QED BY <1>8, <1>11

LEMMA Q4Keeps ==
    ASSUME HeadsFillBlocks, NEW l, NEW n, Midway(l, n), Attends(l), Q4Attention, mode' = mode, run' = run
    PROVE  ReadEarlier(l, n) /\ Keeps(l, n + 1)'
  <1> DEFINE new == Overlaid(store[l], QuantizeToken(Row), n * BlocksPerRow)
  <1>1. /\ mode = "q4" /\ l \in LayerIds /\ DOMAIN store = LayerIds
        /\ DOMAIN store[l] = 0 .. MaxContext * BlocksPerRow - 1
        /\ n \in 0 .. MaxContext - 1 /\ Row = <<run, n>> /\ Row \in Vals
        /\ position = n /\ MaxContext \in Nat /\ layer = l
    BY KVSizes DEF Q4Attention, Midway, At, KVInv, Stores
  <1>2. \A i \in 0 .. n - 1 : Q4Kept(store[l], i, <<run, i>>)
    BY <1>1 DEF Midway, Follows, Keeps
  <1>3. store' = [store EXCEPT ![l] = new]
    BY <1>1 DEF Q4Attention
  <1>4. /\ DOMAIN new = DOMAIN store[l] /\ Q4Kept(new, n, Row)
        /\ \A t \in 0 .. n - 1, s \in Vals : Q4Kept(store[l], t, s) => Q4Kept(new, t, s)
    BY <1>1, Q4Overlaid
  <1> HIDE DEF new
  <1>5. store'[l] = new
    BY <1>1, <1>3
  <1>7. \A i \in 0 .. n : Q4Kept(new, i, <<run, i>>)
    <2>1. ASSUME NEW i \in 0 .. n - 1 PROVE Q4Kept(new, i, <<run, i>>)
      <3>1. <<run, i>> \in Vals
        <4>1. i \in 0 .. n
          BY <1>1
        <4> QED BY <4>1, EarlierRow DEF Midway
      <3> QED BY <1>2, <1>4, <3>1
    <2>2. \A i \in 0 .. n : i \in 0 .. n - 1 \/ i = n
      BY <1>1
    <2> QED BY <1>1, <1>4, <2>1, <2>2
  <1>8. Keeps(l, n + 1)'
    <2>1. \A i \in 0 .. (n + 1) - 1 : i \in 0 .. n
      BY <1>1
    <2> QED BY <1>1, <1>5, <1>7, <2>1 DEF Keeps
  <1>9. ASSUME NEW i \in 1 .. n + 1
        PROVE  Recognised({r \in Vals : FoundAt(store'[l], i - 1, r)}) = <<run, i - 1>>
    <2>1. i - 1 \in 0 .. n /\ i - 1 \in Nat
      BY <1>1
    <2>2. <<run, i - 1>> \in Vals
      BY <2>1, EarlierRow DEF Midway
    <2>3. {r \in Vals : FoundAt(new, i - 1, r)} = {<<run, i - 1>>}
      BY <1>7, <2>1, <2>2, Q4Found
    <2> QED BY <1>5, <2>3, RecognisedIs
  <1>10. seen' = Attended([i \in 1 .. n + 1 |-> <<run, i - 1>>])
    <2>1. seen' = Attended([i \in 1 .. n + 1 |->
                      Recognised({r \in Vals : FoundAt(store'[l], i - 1, r)})])
      BY <1>1 DEF Q4Attention
    <2> QED BY <1>9, <2>1
  <1>11. ReadEarlier(l, n)
    <2> DEFINE rows == [i \in 1 .. n + 1 |-> <<run, i - 1>>]
    <2>1. seen' = Attended(rows)
      BY <1>10
    <2> HIDE DEF rows
    <2>2. seen'.run = run /\ seen'.position = position /\ seen'.recurrent = FALSE /\ seen'.rows = rows
      BY <2>1, AttendedRows
    <2> QED BY <1>1, <1>3, <2>2 DEF ReadEarlier, rows
  <1> QED BY <1>8, <1>11

LEMMA PaperKeeps ==
    ASSUME NEW l, NEW n, Midway(l, n), Attends(l), PaperAttention, mode' = mode, run' = run
    PROVE  ReadEarlier(l, n) /\ Keeps(l, n + 1)'
  <1> DEFINE new == Append(store[l], PaperToken(Row))
             token(i) == PaperToken(<<run, i - 1>>)
  <1>1. /\ mode = "paper" /\ l \in LayerIds /\ DOMAIN store = LayerIds
        /\ n \in 0 .. MaxContext - 1 /\ Row = <<run, n>> /\ Row \in Vals
        /\ position = n /\ MaxContext \in Nat /\ layer = l
    BY KVSizes DEF PaperAttention, Midway, At, KVInv, Stores
  <1>2. store[l] = [i \in 1 .. n |-> token(i)]
    BY <1>1 DEF Midway, Follows, Keeps
  <1>3. store' = [store EXCEPT ![l] = new]
    BY <1>1 DEF PaperAttention
  <1>4. new = [i \in 1 .. n + 1 |-> token(i)] /\ Len(new) = n + 1
    <2>1. n \in Nat /\ PaperToken(Row) = token(n + 1)
      BY <1>1
    <2> HIDE DEF token
    <2> QED BY <1>2, <2>1
  <1> HIDE DEF new
  <1>5. store'[l] = new
    BY <1>1, <1>3
  <1>6. Keeps(l, n + 1)'
    BY <1>1, <1>4, <1>5 DEF Keeps
  <1>7. ASSUME NEW i \in 1 .. n + 1
        PROVE  Recognised({r \in Vals : i <= Len(store'[l]) /\ PaperReadsAs(store'[l][i], r)}) = <<run, i - 1>>
    <2>1. i - 1 \in 0 .. n /\ i <= Len(new) /\ new[i] = token(i)
      BY <1>1, <1>4
    <2>2. <<run, i - 1>> \in Vals
      BY <2>1, EarlierRow DEF Midway
    <2>3. {r \in Vals : PaperReadsAs(token(i), r)} = {<<run, i - 1>>}
      BY <2>2, PaperFound
    <2>4. {r \in Vals : i <= Len(new) /\ PaperReadsAs(new[i], r)} = {<<run, i - 1>>}
      BY <2>1, <2>3
    <2> QED BY <1>5, <2>4, RecognisedIs
  <1>8. seen' = Attended([i \in 1 .. n + 1 |-> <<run, i - 1>>])
    <2>1. seen' = Attended([i \in 1 .. n + 1 |->
              Recognised({r \in Vals : i <= Len(store'[l]) /\ PaperReadsAs(store'[l][i], r)})])
      BY <1>1 DEF PaperAttention
    <2> QED BY <1>7, <2>1
  <1>9. ReadEarlier(l, n)
    <2> DEFINE rows == [i \in 1 .. n + 1 |-> <<run, i - 1>>]
    <2>1. seen' = Attended(rows)
      BY <1>8
    <2> HIDE DEF rows
    <2>2. seen'.run = run /\ seen'.position = position /\ seen'.recurrent = FALSE /\ seen'.rows = rows
      BY <2>1, AttendedRows
    <2> QED BY <1>1, <1>3, <2>2 DEF ReadEarlier, rows
  <1> QED BY <1>6, <1>9

\* The pool: the row is written at its place, and no other row is touched.
LEMMA PagedPlaces ==
    ASSUME NEW l, NEW n, At(l, n), PagedAttention, mode' = mode, run' = run
    PROVE  /\ PoolInv' /\ store' = store /\ table' = table
           /\ mem'[Locate(Paged, l, n)] = Row
           /\ \A o \in LayerIds, i \in 0 .. n :
                  ~(o = l /\ i = n) => mem'[Locate(Paged, o, i)] = mem[Locate(Paged, o, i)]
           /\ \A o \in LayerIds, k \in 0 .. n + 1 : o # l /\ Keeps(o, k) => Keeps(o, k)'
  <1> DEFINE a == Locate(Paged, l, n)
  <1>1. /\ mode = "fp16" /\ l \in LayerIds /\ n \in 0 .. MaxContext - 1 /\ Row = <<run, n>> /\ Row \in Vals
        /\ position = n /\ layer = l /\ PoolInv /\ Decoder \in Requests /\ MaxContext \in Nat
        /\ n \in 0 .. MaxTokens - 1 /\ Write(Decoder, l, n, Row) /\ store' = store
        /\ Paged.live /\ Paged.numTokens = n + 1
    <2>1. n \in 0 .. MaxTokens - 1
      BY KVSizes DEF At
    <2> QED BY <2>1, KVSizes DEF PagedAttention, At, KVInv
  <1>2. PoolInv'
    BY <1>1, WritePool
  <1>3. table' = table /\ freeStack' = freeStack /\ mem' = [mem EXCEPT ![a] = Row]
    BY <1>1 DEF Write, Paged
  <1>4. n \in 0 .. Paged.numTokens - 1
    BY <1>1
  <1>5. mem \in [Addresses -> Vals \cup {Zero}] /\ a \in Addresses
    <2>1. Paged.numTokens \in Nat /\ Paged.ids \in Seq(Blocks) /\ TableShape(Paged)
      BY <1>1, TableOf DEF Paged
    <2>2. a \in Addresses
      BY <1>1, <1>4, <2>1, RowsOfTable
    <2> QED BY <1>1, <2>2 DEF PoolInv, TypeOK
  <1> HIDE DEF a
  <1>6. mem'[a] = Row /\ \A b \in Addresses : b # a => mem'[b] = mem[b]
    BY <1>3, <1>5
  <1>7. ASSUME NEW o \in LayerIds, NEW i \in 0 .. n, ~(o = l /\ i = n)
        PROVE  mem'[Locate(Paged, o, i)] = mem[Locate(Paged, o, i)]
    <2>1. i \in 0 .. Paged.numTokens - 1
      BY <1>1
    <2>2. Locate(Paged, o, i) # a
      BY <1>1, <1>4, <1>7, <2>1, RowsAreApart DEF Paged, a
    <2>3. Locate(Paged, o, i) \in Addresses
      <3>1. Paged.numTokens \in Nat /\ Paged.ids \in Seq(Blocks) /\ TableShape(Paged)
        BY <1>1, TableOf DEF Paged
      <3> QED BY <1>1, <2>1, <3>1, RowsOfTable
    <2> QED BY <1>6, <2>2, <2>3
  <1>8. Paged' = Paged /\ \A o, i : Locate(Paged, o, i)' = Locate(Paged, o, i)
    BY <1>3 DEF Paged, Locate
  <1>9. ASSUME NEW o \in LayerIds, NEW k \in 0 .. n + 1, o # l, Keeps(o, k)
        PROVE  Keeps(o, k)'
    <2>1. \A i \in 0 .. k - 1 : i \in 0 .. n
      BY <1>1
    <2>2. \A i \in 0 .. k - 1 : mem[Locate(Paged, o, i)] = <<run, i>>
      BY <1>1, <1>9 DEF Keeps
    <2>3. \A i \in 0 .. k - 1 : (mem[Locate(Paged, o, i)])' = <<run', i>>
      BY <1>7, <1>8, <1>9, <2>1, <2>2
    <2> QED BY <1>1, <2>3 DEF Keeps
  <1> QED BY <1>1, <1>2, <1>3, <1>6, <1>7, <1>9 DEF a

LEMMA PagedKeeps ==
    ASSUME NEW l, NEW n, Midway(l, n), Attends(l), PagedAttention, mode' = mode, run' = run
    PROVE  ReadEarlier(l, n) /\ Keeps(l, n + 1)'
  <1>1. /\ mode = "fp16" /\ l \in LayerIds /\ n \in 0 .. MaxContext - 1 /\ Row = <<run, n>>
        /\ position = n /\ layer = l /\ MaxContext \in Nat /\ Paged.numTokens = n + 1
    BY KVSizes DEF PagedAttention, Midway, At
  <1>2. /\ table' = table /\ mem'[Locate(Paged, l, n)] = Row
        /\ \A i \in 0 .. n : i # n => mem'[Locate(Paged, l, i)] = mem[Locate(Paged, l, i)]
    BY <1>1, PagedPlaces DEF Midway
  <1>3. \A i \in 0 .. n - 1 : mem[Locate(Paged, l, i)] = <<run, i>>
    BY <1>1 DEF Midway, Follows, Keeps
  <1>4. \A i \in 0 .. n : mem'[Locate(Paged, l, i)] = <<run, i>>
    <2>1. ASSUME NEW i \in 0 .. n PROVE mem'[Locate(Paged, l, i)] = <<run, i>>
      <3>1. CASE i = n
        BY <1>1, <1>2, <3>1
      <3>2. CASE i # n
        <4>1. i \in 0 .. n - 1
          BY <1>1, <3>2
        <4> QED BY <1>2, <1>3, <3>2, <4>1
      <3> QED BY <3>1, <3>2
    <2> QED BY <2>1
  <1>5. Keeps(l, n + 1)'
    <2>1. \A i \in 0 .. (n + 1) - 1 : i \in 0 .. n
      BY <1>1
    <2>2. \A o, i : Locate(Paged, o, i)' = Locate(Paged, o, i)
      BY <1>2 DEF Paged, Locate
    <2>3. \A i \in 0 .. (n + 1) - 1 : (mem[Locate(Paged, l, i)])' = <<run', i>>
      BY <1>4, <2>1, <2>2
    <2> QED BY <1>1, <2>3 DEF Keeps
  <1>6. ReadEarlier(l, n)
    <2> DEFINE rows == [i \in 1 .. n + 1 |-> <<run, i - 1>>]
    <2>1. seen' = Attended([i \in 1 .. n + 1 |-> mem'[Locate(Paged, l, i - 1)]])
      BY <1>1 DEF PagedAttention
    <2>2. \A i \in 1 .. n + 1 : i - 1 \in 0 .. n
      BY <1>1
    <2>3. seen' = Attended(rows)
      BY <1>4, <2>1, <2>2
    <2> HIDE DEF rows
    <2>4. seen'.run = run /\ seen'.position = position /\ seen'.recurrent = FALSE /\ seen'.rows = rows
      BY <2>3, AttendedRows
    <2> QED BY <1>1, <2>4 DEF ReadEarlier, rows
  <1> QED BY <1>5, <1>6

\* The recurrence takes up the window of this token.
LEMMA DeltaNetKeeps ==
    ASSUME NEW l, NEW n, Midway(l, n), IsSsm(l), DeltaNet, run' = run
    PROVE  seen'.rows = Prefix' /\ Recurs(l, n + 1)'
  <1> DEFINE w == WindowOf(run, n + 1)
             conv == ConvOf(run, n)
             state == StateOf(run, n)
             next == [conv |-> Tail(Window), state |-> Append(ssm[l].state, Window)]
  <1>1. /\ l \in LayerIds /\ DOMAIN ssm = LayerIds /\ n \in Nat /\ Row = <<run, n>> /\ position = n /\ layer = l
        /\ ConvKernel \in 2 .. 4 /\ n \in 0 .. MaxContext - 1
    BY KVSizes DEF Midway, At, KVInv, Stores
  <1>2. ssm[l].conv = conv /\ ssm[l].state = state
    BY <1>1 DEF Midway, Follows, Recurs
  <1>3. Window = w
    <2>1. Window = Append(conv, Row)
      BY <1>1, <1>2 DEF Window
    <2>2. /\ Append(conv, Row) = [j \in 1 .. ConvKernel |-> IF j = ConvKernel THEN Row ELSE conv[j]]
      <3>1. conv = [j \in 1 .. ConvKernel - 1 |-> conv[j]] /\ ConvKernel - 1 \in Nat
        BY <1>1 DEF ConvOf
      <3> HIDE DEF conv
      <3>2. Append([j \in 1 .. ConvKernel - 1 |-> conv[j]], Row)
              = [j \in 1 .. ConvKernel |-> IF j = ConvKernel THEN Row ELSE conv[j]]
        BY <1>1, <3>1
      <3> QED BY <3>1, <3>2
    <2>3. ASSUME NEW j \in 1 .. ConvKernel
          PROVE  (IF j = ConvKernel THEN Row ELSE conv[j])
                    = IF (n + 1) - ConvKernel + j >= 1 THEN <<run, (n + 1) - ConvKernel + j - 1>> ELSE Zero
      <3>1. CASE j = ConvKernel
        BY <1>1, <3>1
      <3>2. CASE j # ConvKernel
        <4>1. j \in 1 .. ConvKernel - 1
          BY <1>1, <3>2
        <4>2. conv[j] = IF n - (ConvKernel - 1) + j >= 1
                        THEN <<run, n - (ConvKernel - 1) + j - 1>> ELSE Zero
          BY <4>1 DEF ConvOf
        <4>3. n - (ConvKernel - 1) + j = (n + 1) - ConvKernel + j
          BY <1>1, <4>1
        <4>4. n - (ConvKernel - 1) + j - 1 = (n + 1) - ConvKernel + j - 1
          BY <1>1, <4>1
        <4> HIDE DEF conv
        <4> QED BY <3>2, <4>2, <4>3, <4>4
      <3> QED BY <3>1, <3>2
    <2> HIDE DEF conv
    <2>4. w = [j \in 1 .. ConvKernel |->
                 IF (n + 1) - ConvKernel + j >= 1 THEN <<run, (n + 1) - ConvKernel + j - 1>> ELSE Zero]
      BY DEF WindowOf
    <2> QED BY <2>1, <2>2, <2>3, <2>4
  <1>4. Tail(Window) = ConvOf(run, n + 1)
    <2>1. w = [j \in 1 .. ConvKernel |-> w[j]]
      BY DEF WindowOf
    <2>2. ASSUME NEW j \in 1 .. ConvKernel - 1
          PROVE  w[j + 1] = IF (n + 1) - (ConvKernel - 1) + j >= 1
                            THEN <<run, (n + 1) - (ConvKernel - 1) + j - 1>> ELSE Zero
      <3>1. j + 1 \in 1 .. ConvKernel
        BY <1>1
      <3>2. w[j + 1] = IF (n + 1) - ConvKernel + (j + 1) >= 1
                       THEN <<run, (n + 1) - ConvKernel + (j + 1) - 1>> ELSE Zero
        BY <3>1 DEF WindowOf
      <3>3. (n + 1) - ConvKernel + (j + 1) = (n + 1) - (ConvKernel - 1) + j
        BY <1>1
      <3>4. (n + 1) - ConvKernel + (j + 1) - 1 = (n + 1) - (ConvKernel - 1) + j - 1
        BY <1>1
      <3> HIDE DEF w
      <3> QED BY <3>2, <3>3, <3>4
    <2>3. Tail(w) = [j \in 1 .. ConvKernel - 1 |-> w[j + 1]]
      <3> HIDE DEF w
      <3>1. Tail([j \in 1 .. ConvKernel |-> w[j]]) = [j \in 1 .. ConvKernel - 1 |-> w[j + 1]]
        BY <1>1
      <3> QED BY <2>1, <3>1
    <2> HIDE DEF w
    <2> QED BY <1>3, <2>2, <2>3 DEF ConvOf
  <1>5. Append(state, w) = StateOf(run, n + 1)
    <2> DEFINE f == [i \in 1 .. n + 1 |-> WindowOf(run, i)]
    <2>1. state = [i \in 1 .. n |-> f[i]] /\ w = f[n + 1]
      BY <1>1 DEF StateOf
    <2>2. DOMAIN f = 1 .. n + 1 /\ StateOf(run, n + 1) = f /\ f = [i \in 1 .. n + 1 |-> f[i]]
      BY DEF StateOf
    <2> HIDE DEF f, w, state
    <2>3. Append([i \in 1 .. n |-> f[i]], f[n + 1]) = [i \in 1 .. n + 1 |-> f[i]]
      BY <1>1
    <2> QED BY <2>1, <2>2, <2>3
  <1>6. ssm' = [ssm EXCEPT ![l] = next]
    BY <1>1 DEF DeltaNet
  <1>7. next = [conv |-> ConvOf(run, n + 1), state |-> StateOf(run, n + 1)]
    BY <1>2, <1>3, <1>4, <1>5
  <1> HIDE DEF next
  <1>8. ssm'[l] = [conv |-> ConvOf(run, n + 1), state |-> StateOf(run, n + 1)]
    BY <1>1, <1>6, <1>7
  <1>9. Recurs(l, n + 1)'
    BY <1>8 DEF Recurs, ConvOf, StateOf, WindowOf
  <1>10. seen'.rows = Prefix'
    <2> DEFINE rows == StateOf(run, n + 1)
    <2>1. seen' = [Attended(rows) EXCEPT !.recurrent = TRUE]
      BY <1>1, <1>8 DEF DeltaNet
    <2>2. rows = [i \in 1 .. n + 1 |-> WindowOf(run, i)]
      BY DEF StateOf
    <2> HIDE DEF rows
    <2>3. seen'.run = run /\ seen'.position = n /\ seen'.recurrent = TRUE /\ seen'.rows = rows
      BY <1>1, <2>1 DEF Attended
    <2>4. \A r, i : WindowOf(r, i)' = WindowOf(r, i)
      BY DEF WindowOf
    <2>5. seen'.rows = [i \in 1 .. seen'.position + 1 |->
                          IF seen'.recurrent THEN WindowOf(seen'.run, i) ELSE <<seen'.run, i - 1>>]
      BY <2>2, <2>3
    <2> QED BY <2>5 DEF Prefix, WindowOf
  <1> QED BY <1>9, <1>10

\* What a step leaves alone is kept.
Steady == mode' = mode /\ tensors' = tensors /\ run' = run /\ level' = level

LEMMA SeenStays == Steady /\ seen' = seen /\ SeenIsPrefix => SeenIsPrefix'
  BY DEF SeenIsPrefix, Prefix, WindowOf, ConversationsIndependent, Steady

LEMMA PoolStays == PoolInv /\ vars' = vars => PoolInv'
  BY DEF PoolInv, TypeOK, BlockOwnedOnce, NoBlockLost, Held, vars

LEMMA KeepsStay ==
    ASSUME store' = store, vars' = vars, mode' = mode, run' = run, NEW o, NEW k, Keeps(o, k)
    PROVE  Keeps(o, k)'
  BY DEF Keeps, Paged, Locate, Q8Kept, Q4Kept, vars

LEMMA RecursStay ==
    ASSUME run' = run, NEW o, NEW k, ssm'[o] = ssm[o], Recurs(o, k)
    PROVE  Recurs(o, k)'
  BY DEF Recurs, ConvOf, StateOf, WindowOf

LEMMA KindsStay ==
    ASSUME tensors' = tensors, NEW o
    PROVE  (Attends(o)' <=> Attends(o)) /\ (IsSsm(o)' <=> IsSsm(o)) /\ ~(Attends(o) /\ IsSsm(o))
  BY DEF Attends, IsSsm, Ssm

\* What one layer that goes through must come to.
Mixed(l, n) ==
    /\ PoolInv' /\ Stores' /\ SeenIsPrefix' /\ table' = table
    /\ l < depth => Follows(l, n + 1)'
    /\ l >= depth => Short(l, n + 1)'
    /\ Owns(l)'
    /\ \A o \in LayerIds : o # l =>
           /\ Owns(o) => Owns(o)'
           /\ \A k \in 0 .. n + 1 : Follows(o, k) => Follows(o, k)'
           /\ \A k \in 0 .. n + 1 : Short(o, k) => Short(o, k)'

LEMMA OwnsStay ==
    ASSUME Steady, NEW o, store'[o] = store[o], ssm'[o] = ssm[o], Owns(o)
    PROVE  Owns(o)'
  BY KindsStay DEF Owns, OwnRows, OwnTokens, Steady

LEMMA ShortStays ==
    ASSUME Steady, NEW o, store'[o] = store[o], NEW k, Short(o, k)
    PROVE  Short(o, k)'
  BY KindsStay DEF Short, Steady

\* What is kept of as many tokens is short of one more.
LEMMA KeptIsShort ==
    ASSUME NEW o, NEW n \in Nat, Follows(o, n)
    PROVE  Short(o, n + 1)
  BY DEF Follows, Keeps, Short

\* The window and the state after a token, whatever the layer missed.
LEMMA DeltaNetOwns ==
    ASSUME NEW l, NEW n, At(l, n), IsSsm(l), DeltaNet, Steady
    PROVE  Owns(l)' /\ SeenIsPrefix' /\ DOMAIN ssm' = DOMAIN ssm
           /\ \A o \in LayerIds : o # l => ssm'[o] = ssm[o]
  <1> DEFINE R == OwnRows
             W == [1 .. ConvKernel -> R]
             conv == ssm[l].conv
             state == ssm[l].state
             next == [conv |-> Tail(Window), state |-> Append(state, Window)]
  <1>1. /\ l \in LayerIds /\ DOMAIN ssm = LayerIds /\ Row = <<run, n>> /\ layer = l /\ ConvKernel \in 2 .. 4
        /\ n \in 0 .. MaxContext - 1 /\ MaxContext \in Nat /\ position = n
    BY KVSizes DEF At, KVInv, Stores
  <1>2. conv \in Seq(R) /\ Len(conv) = ConvKernel - 1 /\ state \in Seq(W)
    BY <1>1 DEF At, Owns
  <1>3. Row \in R
    BY <1>1 DEF OwnRows
  <1>4. Window = Append(conv, Row)
    BY <1>1 DEF Window
  <1>5. ssm' = [ssm EXCEPT ![l] = next]
    BY <1>1 DEF DeltaNet
  <1> HIDE DEF R, conv, state
  <1>6. Window \in Seq(R) /\ Len(Window) = ConvKernel /\ Tail(Window) \in Seq(R)
        /\ Len(Tail(Window)) = ConvKernel - 1
    BY <1>1, <1>2, <1>3, <1>4
  <1>7. Window \in W
    BY <1>1, <1>6
  <1>8. Append(state, Window) \in Seq(W)
    <2> HIDE DEF W
    <2> QED BY <1>2, <1>7
  <1>9. ssm'[l] = next /\ DOMAIN ssm' = DOMAIN ssm /\ \A o \in LayerIds : o # l => ssm'[o] = ssm[o]
    BY <1>1, <1>5
  <1>10. ssm'[l].conv = Tail(Window) /\ ssm'[l].state = Append(state, Window)
    BY <1>9
  <1>11. R' = R
    BY DEF R, OwnRows, Steady
  <1> HIDE DEF next
  <1>12. Owns(l)'
    <2>1. IsSsm(l)' /\ ~Attends(l)'
      BY KindsStay DEF Steady
    <2>2. OwnRows' = R
      BY <1>11 DEF R
    <2> HIDE DEF R
    <2> QED BY <1>6, <1>8, <1>10, <2>1, <2>2 DEF Owns
  <1>13. SeenIsPrefix'
    <2> DEFINE rows == Append(state, Window)
    <2>1. seen' = [Attended(rows) EXCEPT !.recurrent = TRUE]
      BY <1>1, <1>10 DEF DeltaNet
    <2>2. rows \in Seq(W)
      BY <1>8
    <2> HIDE DEF rows
    <2>3. /\ seen'.run = run /\ seen'.recurrent = TRUE /\ seen'.rows = rows /\ seen'.whole = (l < depth)
      BY <1>1, <2>1 DEF Attended
    <2>4. ConversationsIndependent'
      <3>1. ASSUME NEW i \in DOMAIN rows, NEW j \in 1 .. ConvKernel
            PROVE  rows[i][j] = Zero \/ rows[i][j][1] = run
        <4>1. rows[i] \in W
          <5> HIDE DEF W
          <5> QED BY <2>2, <3>1
        <4>2. rows[i][j] \in OwnRows
          BY <4>1, <3>1 DEF R
        <4> QED BY <4>2 DEF OwnRows
      <3> QED BY <2>3, <3>1 DEF ConversationsIndependent
    <2>5. l < depth => seen'.rows = Prefix'
      <3> SUFFICES ASSUME l < depth PROVE seen'.rows = Prefix'
        OBVIOUS
      <3>1. Midway(l, n)
        BY <1>1, AtIs, KVSizes DEF At
      <3> QED BY <3>1, DeltaNetKeeps DEF Steady
    <2>6. l >= depth => level' = "medium"
      BY DEF At, Steady
    <2>7. l < depth \/ l >= depth
      BY <1>1, KVSizes DEF At, KVInv, Counters
    <2>8. l >= depth => ~seen'.whole
      BY <1>1, <2>3, KVSizes DEF At, KVInv, Counters
    <2> QED BY <2>4, <2>5, <2>6, <2>7, <2>8 DEF SeenIsPrefix
  <1> QED BY <1>9, <1>12, <1>13

LEMMA DeltaNetMixes ==
    ASSUME NEW l, NEW n, At(l, n), IsSsm(l), DeltaNet, Steady
    PROVE  Mixed(l, n)
  <1>1. /\ PoolInv /\ Stores /\ l \in LayerIds /\ vars' = vars /\ store' = store /\ layer = l /\ position = n
        /\ mode' = mode /\ run' = run /\ tensors' = tensors /\ KVInv /\ l # Idle
    BY KVSizes DEF At, KVInv, DeltaNet, Steady
  <1>2. /\ Owns(l)' /\ SeenIsPrefix' /\ DOMAIN ssm' = DOMAIN ssm
        /\ \A o \in LayerIds : o # l => ssm'[o] = ssm[o]
    BY DeltaNetOwns
  <1>3. Stores'
    BY <1>1, <1>2 DEF Stores, Q8Sized
  <1>4. l < depth => Follows(l, n + 1)'
    <2> SUFFICES ASSUME l < depth PROVE Follows(l, n + 1)'
      OBVIOUS
    <2>1. Midway(l, n)
      BY <1>1, AtIs
    <2>2. Recurs(l, n + 1)'
      BY <1>1, <2>1, DeltaNetKeeps
    <2> QED BY <1>1, <2>2, KindsStay DEF Follows
  <1>5. Short(l, n + 1)'
    BY <1>1, KindsStay DEF Short
  <1>6. ASSUME NEW o \in LayerIds, NEW k \in 0 .. n + 1, o # l, Follows(o, k)
        PROVE  Follows(o, k)'
    <2>1. Attends(o) => Keeps(o, k)'
      BY <1>1, <1>6, KeepsStay DEF Follows
    <2>2. IsSsm(o) => Recurs(o, k)'
      BY <1>1, <1>2, <1>6, RecursStay DEF Follows
    <2> QED BY <1>1, <2>1, <2>2, KindsStay DEF Follows
  <1>7. ASSUME NEW o \in LayerIds, o # l
        PROVE  /\ Owns(o) => Owns(o)'
               /\ \A k \in 0 .. n + 1 : Short(o, k) => Short(o, k)'
    <2>1. store'[o] = store[o] /\ ssm'[o] = ssm[o]
      BY <1>1, <1>2, <1>7
    <2> QED BY <2>1, OwnsStay, ShortStays
  <1>8. table' = table
    BY <1>1 DEF vars
  <1> QED BY <1>1, <1>2, <1>3, <1>4, <1>5, <1>6, <1>7, <1>8, PoolStays DEF Mixed

\* One layer's cache in its place, of the size it was opened with.
LEMMA StoresKeep ==
    ASSUME Stores, NEW l \in LayerIds, NEW c, store' = [store EXCEPT ![l] = c], mode' = mode, ssm' = ssm,
           mode \in {"q8", "q8cuda"} =>
               Q8Sized(c, MaxContext) /\ c = [count |-> c.count, codes |-> c.codes, scales |-> c.scales],
           mode = "q4" => DOMAIN c = 0 .. MaxContext * BlocksPerRow - 1,
           mode = "flat" => DOMAIN c = 0 .. MaxContext - 1
    PROVE  Stores'
  <1>1. /\ DOMAIN store = LayerIds /\ DOMAIN store' = LayerIds /\ store'[l] = c
        /\ \A o \in LayerIds : o # l => store'[o] = store[o]
    BY DEF Stores
  <1>2. ASSUME mode \in {"q8", "q8cuda"}, NEW o \in LayerIds
        PROVE  /\ store'[o] = [count |-> store'[o].count, codes |-> store'[o].codes, scales |-> store'[o].scales]
               /\ Q8Sized(store'[o], MaxContext)
    <2>1. CASE o = l
      BY <1>1, <1>2, <2>1
    <2>2. CASE o # l
      BY <1>1, <1>2, <2>2 DEF Stores
    <2> QED BY <2>1, <2>2
  <1>3. ASSUME mode = "q4", NEW o \in LayerIds
        PROVE  DOMAIN (store'[o]) = 0 .. MaxContext * BlocksPerRow - 1
    BY <1>1, <1>3 DEF Stores
  <1>4. ASSUME mode = "flat", NEW o \in LayerIds
        PROVE  DOMAIN (store'[o]) = 0 .. MaxContext - 1
    BY <1>1, <1>4 DEF Stores
  <1> QED BY <1>1, <1>2, <1>3, <1>4 DEF Stores, Q8Sized

\* Attention puts its row in the cache of its layer, and leaves the others.
LEMMA AttentionPlaces ==
    ASSUME NEW l, NEW n, At(l, n), Attention, ssm' = ssm, Steady
    PROVE  /\ PoolInv' /\ Stores' /\ table' = table
           /\ \A o \in LayerIds : o # l => store'[o] = store[o]
           /\ \A o \in LayerIds, k \in 0 .. n + 1 : o # l /\ Keeps(o, k) => Keeps(o, k)'
  <1>1. /\ PoolInv /\ Stores /\ l \in LayerIds /\ layer = l /\ position = n /\ DOMAIN store = LayerIds
        /\ mode' = mode /\ run' = run /\ tensors' = tensors
    BY DEF At, KVInv, Steady, Stores
  <1>2. CASE PagedAttention
    <2>1. mode = "fp16"
      BY <1>2 DEF PagedAttention
    <2>2. /\ PoolInv' /\ store' = store /\ table' = table
          /\ \A o \in LayerIds, k \in 0 .. n + 1 : o # l /\ Keeps(o, k) => Keeps(o, k)'
      BY <1>1, <1>2, PagedPlaces
    <2>3. Stores'
      BY <1>1, <2>2 DEF Stores, Q8Sized
    <2> QED BY <2>2, <2>3
  <1>3. ASSUME vars' = vars, NEW c, store' = [store EXCEPT ![l] = c]
        PROVE  /\ PoolInv' /\ table' = table /\ \A o \in LayerIds : o # l => store'[o] = store[o]
               /\ \A o \in LayerIds, k \in 0 .. n + 1 : o # l /\ Keeps(o, k) => Keeps(o, k)'
    <2>1. ASSUME NEW o \in LayerIds, NEW k \in 0 .. n + 1, o # l, Keeps(o, k) PROVE Keeps(o, k)'
      BY <1>1, <1>3, <2>1, OthersKeep
    <2>2. table' = table
      BY <1>3 DEF vars
    <2>3. \A o \in LayerIds : o # l => store'[o] = store[o]
      BY <1>1, <1>3
    <2> QED BY <1>1, <1>3, <2>1, <2>2, <2>3, PoolStays
  <1>4. CASE FlatAttention
    <2> DEFINE c == [store[l] EXCEPT ![position] = Row]
    <2>1. mode = "flat" /\ vars' = vars /\ store' = [store EXCEPT ![l] = c]
      BY <1>1, <1>4 DEF FlatAttention
    <2>2. DOMAIN c = 0 .. MaxContext - 1
      BY <1>1, <2>1 DEF Stores
    <2> HIDE DEF c
    <2>3. Stores'
      BY <1>1, <2>1, <2>2, StoresKeep
    <2> QED BY <1>3, <2>1, <2>3
  <1>5. CASE Q8Attention \/ DeviceAttention
    <2>1. mode \in {"q8", "q8cuda"} /\ vars' = vars
      BY <1>5 DEF Q8Attention, DeviceAttention
    <2>2. PICK c \in {Q8Append(store[l], Row), Q8DeviceAppend(store[l], Row)} :
              store' = [store EXCEPT ![l] = c]
      BY <1>1, <1>5 DEF Q8Attention, DeviceAttention
    <2>3. c = [count |-> c.count, codes |-> c.codes, scales |-> c.scales]
      BY <2>2 DEF Q8Append, Q8DeviceAppend
    <2>4. Q8Sized(c, MaxContext)
      BY <1>1, <2>1, <2>2 DEF Stores, Q8Sized, Q8Append, Q8DeviceAppend, Overlaid
    <2>5. Stores'
      BY <1>1, <2>1, <2>2, <2>3, <2>4, StoresKeep
    <2> QED BY <1>3, <2>1, <2>2, <2>5
  <1>6. CASE Q4Attention
    <2> DEFINE c == Overlaid(store[l], QuantizeToken(Row), position * BlocksPerRow)
    <2>1. mode = "q4" /\ vars' = vars /\ store' = [store EXCEPT ![l] = c]
      BY <1>1, <1>6 DEF Q4Attention
    <2>2. DOMAIN c = 0 .. MaxContext * BlocksPerRow - 1
      BY <1>1, <2>1 DEF Stores, Overlaid
    <2> HIDE DEF c
    <2>3. Stores'
      BY <1>1, <2>1, <2>2, StoresKeep
    <2> QED BY <1>3, <2>1, <2>3
  <1>7. CASE PaperAttention
    <2> DEFINE c == Append(store[l], PaperToken(Row))
    <2>1. mode = "paper" /\ vars' = vars /\ store' = [store EXCEPT ![l] = c]
      BY <1>1, <1>7 DEF PaperAttention
    <2> HIDE DEF c
    <2>2. Stores'
      BY <1>1, <2>1, StoresKeep
    <2> QED BY <1>3, <2>1, <2>2
  <1> QED BY <1>2, <1>4, <1>5, <1>6, <1>7 DEF Attention

LEMMA AttentionReads ==
    ASSUME Attention
    PROVE  \E rows : seen' = Attended(rows)
  <1>1. CASE PagedAttention
    BY <1>1 DEF PagedAttention
  <1>2. CASE FlatAttention
    BY <1>2 DEF FlatAttention
  <1>3. CASE Q8Attention
    BY <1>3 DEF Q8Attention
  <1>4. CASE DeviceAttention
    BY <1>4 DEF DeviceAttention
  <1>5. CASE Q4Attention
    BY <1>5 DEF Q4Attention
  <1>6. CASE PaperAttention
    BY <1>6 DEF PaperAttention
  <1> QED BY <1>1, <1>2, <1>3, <1>4, <1>5, <1>6 DEF Attention

\* Where all tokens went through, it reads them and keeps its own.
LEMMA AttentionKeeps ==
    ASSUME NEW l, NEW n, Midway(l, n), Attends(l), Attention, Steady
    PROVE  /\ Keeps(l, n + 1)'
           /\ (mode = "q4" => HeadsFillBlocks) => ReadEarlier(l, n)
  <1>1. mode' = mode /\ run' = run
    BY DEF Steady
  <1>2. CASE PagedAttention
    BY <1>1, <1>2, PagedKeeps
  <1>3. CASE FlatAttention
    BY <1>1, <1>3, FlatKeeps
  <1>4. CASE Q8Attention \/ DeviceAttention
    BY <1>1, <1>4, Q8Keeps
  <1>5. CASE Q4Attention
    <2>1. mode = "q4"
      BY <1>5 DEF Q4Attention
    <2>2. CASE HeadsFillBlocks
      BY <1>1, <1>5, <2>2, Q4Keeps
    <2>3. CASE ~HeadsFillBlocks
      BY <1>1, <2>1, <2>3 DEF Keeps
    <2> QED BY <2>1, <2>2, <2>3
  <1>6. CASE PaperAttention
    BY <1>1, <1>6, PaperKeeps
  <1> QED BY <1>2, <1>3, <1>4, <1>5, <1>6 DEF Attention

\* The paper cache reads nothing of another generation, whatever was skipped.
LEMMA PaperOwns ==
    ASSUME NEW l, NEW n, At(l, n), Attends(l), PaperAttention, Steady
    PROVE  store'[l] \in Seq(OwnTokens) /\ ConversationsIndependent'
  <1> DEFINE T == OwnTokens
             old == store[l]
             new == Append(old, PaperToken(Row))
  <1>1. /\ mode = "paper" /\ l \in LayerIds /\ DOMAIN store = LayerIds
        /\ n \in 0 .. MaxContext - 1 /\ Row = <<run, n>> /\ Row \in Vals /\ run \in 1 .. MaxRuns
        /\ position = n /\ MaxContext \in Nat /\ layer = l /\ old \in Seq(T)
    BY KVSizes DEF PaperAttention, At, KVInv, Stores, Owns
  <1>2. PaperToken(Row) \in T
    BY <1>1 DEF OwnTokens
  <1>3. store'[l] = new
    BY <1>1 DEF PaperAttention
  <1> HIDE DEF T, old
  <1>4. new \in Seq(T)
    BY <1>1, <1>2
  <1> HIDE DEF new
  <1> DEFINE found(i) == {r \in Vals : i <= Len(new) /\ PaperReadsAs(new[i], r)}
             rows == [i \in 1 .. n + 1 |-> Recognised(found(i))]
  <1>5. seen' = Attended(rows)
    <2>1. seen' = Attended([i \in 1 .. n + 1 |->
              Recognised({r \in Vals : i <= Len(store'[l]) /\ PaperReadsAs(store'[l][i], r)})])
      BY <1>1 DEF PaperAttention
    <2> QED BY <1>3, <2>1
  <1>6. ASSUME NEW i \in 1 .. n + 1
        PROVE  rows[i] = Zero \/ rows[i][1] = run
    <2>1. CASE ~(i <= Len(new))
      <3>1. found(i) = {}
        BY <2>1
      <3> HIDE DEF found
      <3> QED BY <3>1 DEF Recognised
    <2>2. CASE i <= Len(new)
      <3>1. new[i] \in T
        <4>1. i \in 1 .. Len(new)
          BY <1>1, <1>4, <2>2
        <4> QED BY <1>4, <4>1
      <3>2. PICK p \in 0 .. MaxContext - 1 : new[i] = PaperToken(<<run, p>>)
        BY <3>1 DEF T, OwnTokens
      <3>3. <<run, p>> \in Vals
        BY <1>1, KVSizes
      <3>4. {r \in Vals : PaperReadsAs(PaperToken(<<run, p>>), r)} = {<<run, p>>}
        BY <3>3, PaperFound
      <3>5. found(i) = {<<run, p>>}
        BY <2>2, <3>2, <3>4
      <3> HIDE DEF found
      <3>6. Recognised(found(i)) = <<run, p>>
        BY <3>5, RecognisedIs
      <3> QED BY <3>6
    <2> QED BY <2>1, <2>2
  <1>7. DOMAIN rows = 1 .. n + 1
    OBVIOUS
  <1> HIDE DEF rows
  <1>8. seen'.run = run /\ seen'.recurrent = FALSE /\ seen'.rows = rows
    BY <1>5 DEF Attended
  <1> QED BY <1>3, <1>4, <1>6, <1>7, <1>8 DEF T, ConversationsIndependent

\* What attention leaves and reads in a layer, whatever was skipped.
LEMMA AttentionOwns ==
    ASSUME NEW l, NEW n, At(l, n), Attends(l), Attention, ssm' = ssm, Steady
    PROVE  Owns(l)' /\ SeenIsPrefix' /\ (l >= depth => Short(l, n + 1)')
  <1>1. /\ l \in LayerIds /\ layer = l /\ position = n /\ KVInv /\ l # Idle /\ l \in Nat /\ depth \in Nat
        /\ n \in Nat /\ mode' = mode /\ run' = run /\ tensors' = tensors /\ level' = level
        /\ DOMAIN store = LayerIds /\ MaxContext \in Nat /\ n \in 0 .. MaxContext - 1
    BY KVSizes DEF At, KVInv, Counters, Steady, Stores
  <1>2. Attends(l)' /\ ~IsSsm(l)'
    BY <1>1, KindsStay
  <1>3. Owns(l)'
    <2>1. CASE mode = "paper"
      <3>1. PaperAttention
        BY <2>1 DEF Attention, PagedAttention, FlatAttention, Q8Attention, DeviceAttention, Q4Attention
      <3>2. OwnTokens' = OwnTokens
        BY <1>1 DEF OwnTokens
      <3> QED BY <1>2, <3>1, <3>2, PaperOwns DEF Owns
    <2>2. CASE mode # "paper"
      BY <1>1, <1>2, <2>2 DEF Owns
    <2> QED BY <2>1, <2>2
  <1>4. CASE l < depth
    <2>1. Midway(l, n)
      BY <1>1, <1>4, AtIs
    <2>2. (mode = "q4" => HeadsFillBlocks) => ReadEarlier(l, n)
      BY <2>1, AttentionKeeps
    <2>3. CASE mode = "q4" => HeadsFillBlocks
      BY <1>1, <1>3, <1>4, <2>2, <2>3, SeenOne
    <2>4. CASE mode = "q4" /\ ~HeadsFillBlocks
      <3>1. seen'.recurrent = FALSE
        <4>1. Q4Attention
          BY <2>4 DEF Attention, PagedAttention, FlatAttention, Q8Attention, DeviceAttention, PaperAttention
        <4> QED BY <4>1 DEF Q4Attention, Attended
      <3> QED BY <1>1, <1>3, <1>4, <2>4, <3>1 DEF SeenIsPrefix
    <2> QED BY <2>3, <2>4
  <1>5. CASE l >= depth
    <2>0. level' = "medium" /\ Short(l, n)
      BY <1>1, <1>5 DEF At
    <2>1. ~seen'.whole /\ seen'.recurrent = FALSE
      <3>1. ~(l < depth)
        BY <1>1, <1>5
      <3>2. PICK rows : seen' = Attended(rows)
        BY AttentionReads
      <3>3. ~seen'.whole
        BY <1>1, <3>1, <3>2 DEF Attended
      <3>4. seen'.recurrent = FALSE
        BY <3>2 DEF Attended
      <3> QED BY <3>3, <3>4
    <2>2. CASE Q8Attention
      <3>1. store[l].count \in 0 .. n - 1 /\ mode = "q8"
        BY <2>0, <2>2 DEF Short, Q8Attention
      <3>2. store'[l].count = store[l].count + 1
        BY <1>1, <2>2 DEF Q8Attention, Q8Append
      <3>3. Short(l, n + 1)'
        BY <1>1, <3>1, <3>2 DEF Short
      <3>4. ~(n < store'[l].count)
        BY <1>1, <3>1, <3>2
      <3>5. DOMAIN seen'.rows = 1 .. 0
        BY <1>1, <2>2, <3>4 DEF Q8Attention, Attended
      <3>6. ConversationsIndependent'
        BY <2>1, <3>5 DEF ConversationsIndependent
      <3> QED BY <1>3, <2>0, <2>1, <3>3, <3>6 DEF SeenIsPrefix
    <2>3. CASE DeviceAttention
      <3>1. store[l].count \in 0 .. n - 1 /\ store[l].count = n
        BY <1>1, <2>0, <2>3 DEF Short, DeviceAttention
      <3> QED BY <1>1, <3>1
    <2>4. CASE PaperAttention
      <3>1. ConversationsIndependent' /\ mode = "paper"
        BY <2>4, PaperOwns DEF PaperAttention
      <3> QED BY <1>1, <1>3, <2>0, <2>1, <3>1 DEF SeenIsPrefix, Short
    <2>5. CASE mode \in {"fp16", "flat", "q4"}
      BY <1>1, <1>3, <2>0, <2>1, <2>5 DEF SeenIsPrefix, Short
    <2> QED BY <2>2, <2>3, <2>4, <2>5 DEF Attention, PagedAttention, FlatAttention, Q4Attention
  <1> QED BY <1>1, <1>4, <1>5

LEMMA AttentionMixes ==
    ASSUME NEW l, NEW n, At(l, n), Attends(l), Attention, ssm' = ssm, Steady
    PROVE  Mixed(l, n)
  <1>1. /\ l \in LayerIds /\ layer = l /\ position = n /\ KVInv /\ l # Idle
        /\ mode' = mode /\ run' = run /\ tensors' = tensors
    BY KVSizes DEF At, Steady
  <1>2. /\ PoolInv' /\ Stores' /\ table' = table
        /\ \A o \in LayerIds : o # l => store'[o] = store[o]
        /\ \A o \in LayerIds, k \in 0 .. n + 1 : o # l /\ Keeps(o, k) => Keeps(o, k)'
    BY AttentionPlaces
  <1>3. Owns(l)' /\ SeenIsPrefix' /\ (l >= depth => Short(l, n + 1)')
    BY AttentionOwns
  <1>4. l < depth => Follows(l, n + 1)'
    <2> SUFFICES ASSUME l < depth PROVE Follows(l, n + 1)'
      OBVIOUS
    <2>1. Midway(l, n)
      BY <1>1, AtIs
    <2>2. Keeps(l, n + 1)'
      BY <2>1, AttentionKeeps
    <2> QED BY <1>1, <2>2, KindsStay DEF Follows
  <1>5. ASSUME NEW o \in LayerIds, NEW k \in 0 .. n + 1, o # l, Follows(o, k)
        PROVE  Follows(o, k)'
    <2>1. Attends(o) => Keeps(o, k)'
      BY <1>2, <1>5 DEF Follows
    <2>2. IsSsm(o) => Recurs(o, k)'
      BY <1>1, <1>5, RecursStay DEF Follows
    <2> QED BY <1>1, <2>1, <2>2, KindsStay DEF Follows
  <1>6. ASSUME NEW o \in LayerIds, o # l
        PROVE  /\ Owns(o) => Owns(o)'
               /\ \A k \in 0 .. n + 1 : Short(o, k) => Short(o, k)'
    <2>1. store'[o] = store[o] /\ ssm'[o] = ssm[o]
      BY <1>2, <1>6
    <2> QED BY <2>1, OwnsStay, ShortStays
  <1> QED BY <1>2, <1>3, <1>4, <1>5, <1>6 DEF Mixed

\* A layer that goes through takes its token up, and leaves the other layers.
LEMMA MixerMixes ==
    ASSUME KVInv, NEW l, layer = l, l # Idle, NEW n, position = n, Mixer, Steady
    PROVE  Mixed(l, n)
  <1>1. At(l, n) /\ (l < depth => Midway(l, n))
    BY AtIs
  <1>2. CASE IsSsm(l) /\ DeltaNet
    BY <1>1, <1>2, DeltaNetMixes
  <1>3. CASE ~IsSsm(l) /\ "qkv" \in tensors[l] /\ Attention /\ ssm' = ssm
    <2>1. Attends(l)
      BY <1>3 DEF Attends
    <2> QED BY <1>1, <1>3, <2>1, AttentionMixes
  <1>4. CASE ~IsSsm(l) /\ "qkv" \notin tensors[l] /\ UNCHANGED <<vars, store, ssm, seen>>
    <2>1. /\ PoolInv /\ Stores /\ SeenIsPrefix /\ vars' = vars /\ store' = store /\ ssm' = ssm /\ seen' = seen
          /\ mode' = mode /\ run' = run /\ tensors' = tensors /\ level' = level /\ ~IsSsm(l) /\ ~Attends(l)
      BY <1>4 DEF KVInv, Steady, Attends
    <2>2. PoolInv' /\ table' = table
      BY <2>1, PoolStays DEF vars
    <2>3. Stores' /\ SeenIsPrefix'
      BY <2>1, SeenStays DEF Stores, Q8Sized
    <2>4. Follows(l, n + 1)'
      BY <2>1, KindsStay DEF Follows
    <2>5. ASSUME NEW o \in LayerIds, NEW k \in 0 .. n + 1, Follows(o, k) PROVE Follows(o, k)'
      BY <2>1, <2>5, KindsStay, KeepsStay, RecursStay DEF Follows
    <2>6. Short(l, n + 1)'
      BY <2>1, KindsStay DEF Short
    <2>7. Owns(l)'
      BY <2>1, <1>1, OwnsStay DEF At
    <2>8. ASSUME NEW o \in LayerIds
          PROVE  (Owns(o) => Owns(o)') /\ \A k : Short(o, k) => Short(o, k)'
      BY <2>1, OwnsStay, ShortStays
    <2> QED BY <2>2, <2>3, <2>4, <2>5, <2>6, <2>7, <2>8 DEF Mixed
  <1>5. \/ IsSsm(l) /\ DeltaNet
        \/ ~IsSsm(l) /\ "qkv" \in tensors[l] /\ Attention /\ ssm' = ssm
        \/ ~IsSsm(l) /\ "qkv" \notin tensors[l] /\ UNCHANGED <<vars, store, ssm, seen>>
    BY DEF Mixer
  <1> QED BY <1>2, <1>3, <1>4, <1>5

\* A layer that fails half way leaves whole caches, if no whole token.
LEMMA CutShortKeeps ==
    ASSUME KVInv, layer # Idle, MixerCutShort, Steady
    PROVE  PoolInv' /\ Stores' /\ SeenIsPrefix'
  <1>1. CASE Mixer
    BY <1>1, MixerMixes DEF Mixed
  <1>2. CASE UNCHANGED <<vars, store, seen>> /\ DOMAIN ssm' = DOMAIN ssm
    <2>1. /\ PoolInv /\ Stores /\ SeenIsPrefix /\ vars' = vars /\ store' = store /\ seen' = seen /\ mode' = mode
      BY <1>2 DEF KVInv, Steady
    <2> QED BY <1>2, <2>1, PoolStays, SeenStays DEF Stores, Q8Sized
  <1>3. \/ Mixer \/ (UNCHANGED <<vars, store, seen>> /\ DOMAIN ssm' = DOMAIN ssm)
    BY DEF MixerCutShort
  <1> QED BY <1>1, <1>2, <1>3

LEMMA ReachStays ==
    ASSUME level' = level, tensors' = tensors, NEW o
    PROVE  InReach(o)' <=> InReach(o)
  BY DEF InReach, MustExit, LowExit, IsMoe

LEMMA FollowsStay ==
    ASSUME Steady, store' = store, vars' = vars, ssm' = ssm, NEW o, NEW k, Follows(o, k)
    PROVE  Follows(o, k)'
  BY KindsStay, KeepsStay, RecursStay DEF Follows, Steady

\* The four parts but the one on generating, where the caches are left alone.
LEMMA RestStays ==
    ASSUME KVInv, Steady, store' = store, vars' = vars, ssm' = ssm, seen' = seen
    PROVE  PoolInv' /\ Stores' /\ SeenIsPrefix'
  <1>1. PoolInv /\ Stores /\ SeenIsPrefix
    BY DEF KVInv
  <1> QED BY <1>1, PoolStays, SeenStays DEF Steady, Stores, Q8Sized

LEMMA RefusedKeeps == KVInv /\ ForwardRefused => KVInv'
  <1> SUFFICES ASSUME KVInv, ForwardRefused PROVE KVInv'
    OBVIOUS
  <1>1. PoolInv' /\ Stores' /\ SeenIsPrefix'
    BY RestStays DEF ForwardRefused, Steady
  <1>2. Counters' /\ Generating'
    BY DEF KVInv, Counters, Generating, ForwardRefused
  <1> QED BY <1>1, <1>2 DEF KVInv

LEMMA FailsKeeps == KVInv /\ LayerFails => KVInv'
  <1> SUFFICES ASSUME KVInv, LayerFails PROVE KVInv'
    OBVIOUS
  <1>1. PoolInv' /\ Stores' /\ SeenIsPrefix'
    BY CutShortKeeps DEF LayerFails, Steady
  <1>2. Counters' /\ Generating'
    BY DEF KVInv, Counters, Generating, LayerFails
  <1> QED BY <1>1, <1>2 DEF KVInv

\* Nothing of the first n = 0 tokens.
LEMMA NothingYet ==
    ASSUME NEW r
    PROVE  ConvOf(r, 0) = [i \in 1 .. ConvKernel - 1 |-> Zero] /\ StateOf(r, 0) = <<>>
  <1>1. ASSUME NEW j \in 1 .. ConvKernel - 1 PROVE ~(0 - (ConvKernel - 1) + j >= 1)
    BY KVSizes
  <1>2. [i \in 1 .. 0 |-> WindowOf(r, i)] = <<>>
    <2> DEFINE f == [i \in 1 .. 0 |-> WindowOf(r, i)]
    <2>1. DOMAIN f = 1 .. 0 /\ f \in [1 .. 0 -> {}]
      OBVIOUS
    <2> HIDE DEF f
    <2>2. f = <<>>
      BY <2>1
    <2> QED BY <2>2 DEF f
  <1> QED BY <1>1, <1>2 DEF ConvOf, StateOf

LEMMA SubmitKeeps == KVInv /\ ServeSubmit => KVInv'
  <1> SUFFICES ASSUME KVInv, ServeSubmit PROVE KVInv'
    OBVIOUS
  <1>0. /\ Reset(Paged.ids) /\ mem' = mem /\ mode' = mode /\ level' = level /\ tensors' = tensors
        /\ layer = Idle /\ layer' = Idle /\ run' = run + 1 /\ failed' = FALSE /\ seen' = seen /\ depth' = Layers
        /\ run < MaxRuns /\ position' = 0 /\ table' = [table EXCEPT ![Decoder] = Table0]
        /\ store' = [o \in LayerIds |-> Uncounted(store[o])] /\ ssm' = [o \in LayerIds |-> EmptySsm]
    BY DEF ServeSubmit, Reset
  <1>1. PoolInv' /\ SeenIsPrefix'
    <2>1. SeenIsPrefix'
      BY <1>0 DEF KVInv, SeenIsPrefix, Prefix, WindowOf, ConversationsIndependent
    <2> QED BY <1>0, <2>1, ResetPool DEF KVInv
  <1>2. Stores'
    <2>1. DOMAIN store = LayerIds /\ DOMAIN store' = LayerIds /\ DOMAIN ssm' = LayerIds
      BY <1>0 DEF KVInv, Stores
    <2>2. ASSUME mode \in {"q8", "q8cuda"}, NEW o \in LayerIds
          PROVE  /\ store'[o] = [count |-> store'[o].count, codes |-> store'[o].codes, scales |-> store'[o].scales]
                 /\ Q8Sized(store'[o], MaxContext)
      <3>1. /\ store[o] = [count |-> store[o].count, codes |-> store[o].codes, scales |-> store[o].scales]
            /\ Q8Sized(store[o], MaxContext)
        BY <2>2 DEF KVInv, Stores
      <3>2. store'[o] = [store[o] EXCEPT !.count = 0]
        BY <1>0, <2>2 DEF Uncounted
      <3>3. store'[o] = [count |-> 0, codes |-> store[o].codes, scales |-> store[o].scales]
        BY <3>1, <3>2
      <3> QED BY <3>1, <3>3 DEF Q8Sized
    <2>3. ASSUME mode \notin {"q8", "q8cuda", "paper"}, NEW o \in LayerIds
          PROVE  store'[o] = store[o]
      BY <1>0, <2>3 DEF Uncounted
    <2>4. (mode = "q4" \/ mode = "flat") => mode \notin {"q8", "q8cuda", "paper"}
      OBVIOUS
    <2> QED BY <1>0, <2>1, <2>2, <2>3, <2>4 DEF KVInv, Stores, Q8Sized
  <1>3. Counters'
    <2>1. MaxContext \in Nat /\ MaxRuns \in Nat
      BY KVSizes
    <2>2. level \in Levels /\ mode \in Modes /\ run \in 0 .. MaxRuns
      BY DEF KVInv, Counters
    <2>3. run' \in 0 .. MaxRuns /\ position' \in 0 .. MaxContext
      BY <1>0, <2>1, <2>2
    <2>4. depth' \in 1 .. Layers
      BY <1>0, KVSizes
    <2> QED BY <1>0, <2>2, <2>3, <2>4 DEF Counters
  <1>4. ASSUME NEW o \in LayerIds PROVE Follows(o, 0)'
    <2>1. store'[o] = Uncounted(store[o]) /\ ssm'[o] = EmptySsm
      BY <1>0
    <2>2. \A r : [conv |-> ConvOf(r, 0), state |-> StateOf(r, 0)] = EmptySsm
      BY NothingYet DEF EmptySsm
    <2>3. Recurs(o, 0)'
      <3>1. ssm'[o] = [conv |-> ConvOf(run', 0), state |-> StateOf(run', 0)]
        BY <2>1, <2>2
      <3> QED BY <3>1 DEF Recurs, ConvOf, StateOf, WindowOf
    <2>4. Keeps(o, 0)'
      <3>1. mode \in {"q8", "q8cuda"} => store'[o].count = 0
        <4>1. ASSUME mode \in {"q8", "q8cuda"} PROVE store'[o].count = 0
          <5>1. store[o] = [count |-> store[o].count, codes |-> store[o].codes, scales |-> store[o].scales]
            BY <4>1 DEF KVInv, Stores
          <5> QED BY <2>1, <4>1, <5>1 DEF Uncounted
        <4> QED BY <4>1
      <3>2. mode = "paper" => store'[o] = <<>>
        BY <2>1 DEF Uncounted
      <3>3. \A i : i \notin 0 .. 0 - 1
        OBVIOUS
      <3>4. [i \in 1 .. 0 |-> PaperToken(<<run', i - 1>>)] = <<>>
        <4> DEFINE f == [i \in 1 .. 0 |-> PaperToken(<<run', i - 1>>)]
        <4>1. DOMAIN f = 1 .. 0 /\ f \in [1 .. 0 -> {}]
          OBVIOUS
        <4> HIDE DEF f
        <4>2. f = <<>>
          BY <4>1
        <4> QED BY <4>2 DEF f
      <3> QED BY <1>0, <3>1, <3>2, <3>3, <3>4 DEF Keeps
    <2> QED BY <2>3, <2>4 DEF Follows
  <1>5. ASSUME NEW o \in LayerIds PROVE Owns(o)'
    <2> DEFINE R == OwnRows'
               W == [1 .. ConvKernel -> R]
               conv == [i \in 1 .. ConvKernel - 1 |-> Zero]
    <2>1. Attends(o)' /\ mode' = "paper" => store'[o] \in Seq(OwnTokens')
      <3> DEFINE T == OwnTokens'
      <3> HIDE DEF T
      <3>1. mode = "paper" => store'[o] = <<>>
        BY <1>0 DEF Uncounted
      <3>2. <<>> \in Seq(T)
        OBVIOUS
      <3>3. mode' = "paper" => store'[o] \in Seq(T)
        BY <1>0, <3>1, <3>2
      <3> QED BY <3>3 DEF T
    <2>2. ssm'[o] = [conv |-> conv, state |-> <<>>]
      BY <1>0 DEF EmptySsm
    <2>3. Zero \in R
      BY DEF OwnRows
    <2>4. ConvKernel - 1 \in Nat
      BY KVSizes
    <2> HIDE DEF R
    <2>5. conv \in Seq(R) /\ Len(conv) = ConvKernel - 1
      BY <2>3, <2>4
    <2> HIDE DEF conv, W
    <2>6. ssm'[o].conv = conv /\ ssm'[o].state = <<>> /\ <<>> \in Seq(W)
      BY <2>2
    <2> QED BY <2>1, <2>5, <2>6 DEF Owns, R, W
  <1>6. Generating'
    <2>1. Paged' = Table0
      BY <1>0, KVSizes DEF Paged, KVInv, PoolInv, TypeOK
    <2>2. Paged'.live /\ Paged'.numTokens = 0
      BY <2>1, EmptyTable
    <2>3. \A o : Taken(o)' = 0
      BY <1>0 DEF Taken
    <2>4. run' >= 1
      BY <1>0, KVSizes DEF KVInv, Counters
    <2>5. ASSUME NEW o \in LayerIds PROVE Follows(o, Taken(o))' /\ Owns(o)' /\ o < depth' /\ ~(o >= depth')
      <3>1. o < Layers /\ o \in Nat /\ Layers \in Nat
        BY KVSizes DEF LayerIds
      <3> QED BY <1>0, <1>4, <1>5, <2>3, <3>1
    <2> QED BY <1>0, <2>2, <2>4, <2>5 DEF Generating
  <1> QED BY <1>1, <1>2, <1>3, <1>6 DEF KVInv

\* forward: the block table takes the token, and where earlier rows are stays.
LEMMA AppendKeeps ==
    ASSUME PoolInv, Paged.live, AppendToken(Decoder)
    PROVE  /\ PoolInv' /\ mem' = mem /\ Paged'.live /\ Paged'.numTokens = Paged.numTokens + 1
           /\ \A o \in LayerIds, i \in 0 .. Paged.numTokens - 1 :
                  Locate(Paged, o, i)' = Locate(Paged, o, i)
  <1> DEFINE old == table[Decoder]
             t == table'[Decoder]
  <1>0. Decoder \in Requests /\ old.numTokens \in Nat /\ old.ids \in Seq(Blocks) /\ TableShape(old) /\ old.live
    BY KVSizes, TableOf DEF Paged
  <1>1. /\ PoolInv' /\ mem' = mem /\ t.live /\ t.numTokens = old.numTokens + 1
        /\ t.ids = old.ids \/ (\E b : t.ids = Append(old.ids, b))
    <2>1. CASE NeedsBlock(Decoder) /\ freeStack # <<>> /\ TakeBlock(Decoder, MustGrow(Decoder))
      <3>1. PoolInv'
        BY <1>0, <2>1, TakeBlockPool
      <3> DEFINE c == IF MustGrow(Decoder) THEN 2 * old.capacity ELSE old.capacity
      <3>2. t = [live |-> TRUE, numTokens |-> old.numTokens + 1,
                 ids |-> Append(old.ids, Last(freeStack)), capacity |-> c]
        <4>1. DOMAIN table = Requests
          BY DEF PoolInv, TypeOK
        <4> HIDE DEF c
        <4>2. table' = [table EXCEPT ![Decoder] =
                   [live |-> TRUE, numTokens |-> old.numTokens + 1,
                    ids |-> Append(old.ids, Last(freeStack)), capacity |-> c]]
          BY <2>1 DEF TakeBlock, c
        <4> QED BY <1>0, <4>1, <4>2
      <3> HIDE DEF c
      <3>3. mem' = mem
        BY <2>1 DEF TakeBlock
      <3>4. t.live /\ t.numTokens = old.numTokens + 1 /\ t.ids = Append(old.ids, Last(freeStack))
        BY <3>2
      <3> QED BY <3>1, <3>3, <3>4
    <2>2. CASE /\ ~NeedsBlock(Decoder) /\ UNCHANGED <<freeStack, mem>>
               /\ table' = [table EXCEPT ![Decoder].numTokens = @ + 1]
      <3>1. PoolInv'
        BY <1>0, <2>2, AppendInPlacePool
      <3>2. t = [old EXCEPT !.numTokens = @ + 1]
        BY <1>0, <2>2 DEF PoolInv, TypeOK
      <3>3. old \in [live : BOOLEAN, numTokens : Nat, ids : Seq(Blocks), capacity : Nat]
        BY <1>0 DEF PoolInv, TypeOK
      <3> QED BY <1>0, <2>2, <3>1, <3>2, <3>3
    <2> QED BY <2>1, <2>2 DEF AppendToken
  <1>2. ASSUME NEW o \in LayerIds, NEW i \in 0 .. old.numTokens - 1
        PROVE  Locate(t, o, i) = Locate(old, o, i)
    <2>1. i \div BlockSize + 1 \in 1 .. Len(old.ids)
      BY <1>0, RowsOfTable
    <2> DEFINE j == i \div BlockSize + 1
    <2> HIDE DEF j, old, t
    <2>2. t.ids[j] = old.ids[j]
      BY <1>0, <1>1, <2>1 DEF j
    <2> QED BY <2>2 DEF Locate, j
  <1> QED BY <1>1, <1>2 DEF Paged, Locate

LEMMA BeginKeeps == KVInv /\ ForwardBegin => KVInv'
  <1> SUFFICES ASSUME KVInv, ForwardBegin PROVE KVInv'
    OBVIOUS
  <1>0. /\ layer = Idle /\ ~failed /\ position < MaxContext /\ layer' = 0 /\ failed' = failed
        /\ mode' = mode /\ level' = level /\ tensors' = tensors /\ run' = run /\ position' = position
        /\ store' = store /\ ssm' = ssm /\ seen' = seen /\ depth' = depth
    BY DEF ForwardBegin
  <1>1. PoolInv /\ Counters /\ Stores /\ SeenIsPrefix /\ MaxContext \in Nat /\ position \in 0 .. MaxContext
    BY KVSizes DEF KVInv, Counters
  <1>2. /\ run >= 1 /\ (mode = "fp16" => Paged.live /\ Paged.numTokens = position)
        /\ level # "medium" => \A o \in LayerIds : InReach(o) => o < depth
        /\ \A o \in LayerIds :
               /\ Owns(o)
               /\ o < depth => Follows(o, position)
               /\ o >= depth => Short(o, position)
    <2>1. \A o : Taken(o) = position
      BY <1>0 DEF Taken
    <2> QED BY <1>0, <2>1 DEF KVInv, Generating
  <1>3. Stores' /\ SeenIsPrefix'
    BY <1>0, <1>1, SeenStays DEF Stores, Q8Sized, Steady
  <1>4. /\ PoolInv' /\ mem' = mem
        /\ mode = "fp16" => /\ Paged'.live /\ Paged'.numTokens = position + 1
                            /\ \A o \in LayerIds, i \in 0 .. position - 1 :
                                   Locate(Paged, o, i)' = Locate(Paged, o, i)
    <2>1. CASE mode = "fp16"
      BY <1>1, <1>2, <2>1, AppendKeeps DEF ForwardBegin
    <2>2. CASE mode # "fp16"
      <3>1. vars' = vars
        BY <2>2 DEF ForwardBegin
      <3> QED BY <1>1, <2>2, <3>1, PoolStays DEF vars
    <2> QED BY <2>1, <2>2
  <1>5. Counters'
    <2>1. 0 \in LayerIds
      BY KVSizes DEF LayerIds
    <2> QED BY <1>0, <1>1, <2>1 DEF Counters
  <1>6. ASSUME NEW o \in LayerIds, o < depth, NEW n, n = position PROVE Follows(o, n)'
    <2>1. Attends(o) => Keeps(o, n)'
      <3> SUFFICES ASSUME Attends(o) PROVE Keeps(o, n)'
        OBVIOUS
      <3>1. Keeps(o, n)
        BY <1>2, <1>6 DEF Follows
      <3>2. mode = "fp16" => \A i \in 0 .. n - 1 : (mem[Locate(Paged, o, i)])' = <<run', i>>
        <4> SUFFICES ASSUME mode = "fp16", NEW i \in 0 .. n - 1
                     PROVE  (mem[Locate(Paged, o, i)])' = <<run', i>>
          OBVIOUS
        <4>1. mem[Locate(Paged, o, i)] = <<run, i>>
          BY <3>1 DEF Keeps
        <4>2. Locate(Paged, o, i)' = Locate(Paged, o, i)
          BY <1>4, <1>6
        <4> QED BY <1>0, <1>4, <4>1, <4>2
      <3> QED BY <1>0, <3>1, <3>2 DEF Keeps, Q8Kept, Q4Kept
    <2>2. IsSsm(o) => Recurs(o, n)'
      BY <1>0, <1>2, <1>6, RecursStay DEF Follows
    <2> QED BY <1>0, <2>1, <2>2, KindsStay DEF Follows
  <1>7. Generating'
    <2>1. \A o \in LayerIds : Taken(o)' = position
      <3>1. \A o \in LayerIds : ~(o < 0)
        BY DEF LayerIds
      <3> QED BY <1>0, <3>1 DEF Taken
    <2>2. \A o : InReach(o)' <=> InReach(o)
      BY <1>0, ReachStays
    <2>3. InReach(0)'
      BY DEF InReach
    <2>4. ASSUME NEW o \in LayerIds
          PROVE  /\ Owns(o)'
                 /\ o < depth' => Follows(o, Taken(o))'
                 /\ o >= depth' => Short(o, Taken(o))'
      <3>1. PICK n : n = position
        OBVIOUS
      <3>2. Owns(o)'
        BY <1>0, <1>2, OwnsStay DEF Steady
      <3>3. o < depth' => Follows(o, n)'
        BY <1>0, <1>6, <3>1
      <3>4. o >= depth' => Short(o, n)'
        BY <1>0, <1>2, <3>1, ShortStays DEF Steady
      <3>5. Taken(o)' = n
        BY <2>1, <3>1
      <3> QED BY <3>2, <3>3, <3>4, <3>5
    <2>5. layer' # Idle
      BY <1>0 DEF Idle
    <2>6. level' # "medium" => \A o \in LayerIds : InReach(o)' => o < depth'
      BY <1>0, <1>2, <2>2
    <2> QED BY <1>0, <1>1, <1>2, <1>4, <2>3, <2>4, <2>5, <2>6 DEF Generating
  <1> QED BY <1>3, <1>4, <1>5, <1>7 DEF KVInv

\* What a layer that goes through comes to in all of them.
LEMMA LayerFollows ==
    ASSUME KVInv, NEW l, layer = l, l # Idle, NEW n, position = n, Mixer, Steady
    PROVE  /\ PoolInv' /\ Stores' /\ SeenIsPrefix' /\ table' = table
           /\ l \in LayerIds /\ l \in Nat /\ n \in Nat /\ n < MaxContext /\ depth \in 1 .. Layers
           /\ ~failed /\ run >= 1 /\ InReach(l)
           /\ mode = "fp16" => Paged.live /\ Paged.numTokens = n + 1
           /\ level # "medium" => \A o \in LayerIds : InReach(o) => o < depth
           /\ \A o \in LayerIds : \A k : k = (IF o <= l THEN n + 1 ELSE n) =>
                 /\ Owns(o)'
                 /\ o < depth => Follows(o, k)'
                 /\ o >= depth => Short(o, k)'
  <1>1. Mixed(l, n)
    BY MixerMixes
  <1>2. /\ mode = "fp16" => Paged.live /\ Paged.numTokens = n + 1
        /\ l \in LayerIds /\ l \in Nat /\ n \in Nat /\ MaxContext \in Nat /\ n \in 0 .. MaxContext - 1
    BY AtIs, KVSizes DEF At
  <1>3. ~failed /\ run >= 1 /\ InReach(l) /\ n < MaxContext /\ depth \in 1 .. Layers
    <2>1. ~failed /\ depth \in 1 .. Layers
      BY DEF KVInv, Counters
    <2> QED BY <2>1 DEF KVInv, Generating
  <1>4. /\ level # "medium" => \A o \in LayerIds : InReach(o) => o < depth
        /\ \A o \in LayerIds :
               /\ Owns(o)
               /\ o < depth => Follows(o, Taken(o))
               /\ o >= depth => Short(o, Taken(o))
    BY <1>3 DEF KVInv, Generating
  <1>5. ASSUME NEW o \in LayerIds, NEW k, k = IF o <= l THEN n + 1 ELSE n
        PROVE  Owns(o)' /\ (o < depth => Follows(o, k)') /\ (o >= depth => Short(o, k)')
    <2>1. CASE o = l
      <3>1. k = n + 1
        BY <1>2, <1>5, <2>1
      <3> QED BY <1>1, <2>1, <3>1 DEF Mixed
    <2>2. CASE o # l
      <3>1. k \in 0 .. n + 1 /\ Taken(o) = k
        BY <1>2, <1>5, <2>2, KVSizes DEF Taken, LayerIds
      <3>2. Owns(o)'
        BY <1>1, <1>4, <2>2 DEF Mixed
      <3>3. o < depth => Follows(o, k)'
        BY <1>1, <1>4, <2>2, <3>1 DEF Mixed
      <3>4. o >= depth => Short(o, k)'
        BY <1>1, <1>4, <2>2, <3>1 DEF Mixed
      <3> QED BY <3>2, <3>3, <3>4
    <2> QED BY <2>1, <2>2
  <1> QED BY <1>1, <1>2, <1>3, <1>4, <1>5 DEF Mixed

LEMMA LayerKeeps == KVInv /\ LayerDone => KVInv'
  <1> SUFFICES ASSUME KVInv, LayerDone PROVE KVInv'
    OBVIOUS
  <1>1. PICK l, n : layer = l /\ position = n
    OBVIOUS
  <1>2. /\ l # Idle /\ Mixer /\ Steady /\ ~MustExit(l) /\ layer' = l + 1 /\ position' = n /\ failed' = failed
        /\ run' = run /\ mode' = mode /\ level' = level /\ tensors' = tensors /\ depth' = depth
    BY <1>1 DEF LayerDone, Steady
  <1>3. /\ PoolInv' /\ Stores' /\ SeenIsPrefix' /\ table' = table
        /\ l \in LayerIds /\ l \in Nat /\ n \in Nat /\ n < MaxContext /\ depth \in 1 .. Layers
        /\ ~failed /\ run >= 1 /\ InReach(l)
        /\ mode = "fp16" => Paged.live /\ Paged.numTokens = n + 1
        /\ level # "medium" => \A o \in LayerIds : InReach(o) => o < depth
        /\ \A o \in LayerIds : \A k : k = (IF o <= l THEN n + 1 ELSE n) =>
              /\ Owns(o)'
              /\ o < depth => Follows(o, k)'
              /\ o >= depth => Short(o, k)'
    BY <1>1, <1>2, LayerFollows
  <1>4. l + 1 \in LayerIds /\ l + 1 # Idle /\ InReach(l + 1)'
    <2>1. Layers \in Nat /\ l \in 0 .. Layers - 1 /\ l + 1 # Layers
      BY <1>2, <1>3, KVSizes DEF MustExit, LayerIds
    <2>2. InReach(l + 1)
      <3>1. \A k \in 0 .. (l + 1) - 1 : k \in 0 .. l - 1 \/ k = l
        BY <2>1
      <3> QED BY <1>2, <1>3, <3>1 DEF InReach
    <2> QED BY <1>2, <2>1, <2>2, ReachStays DEF LayerIds, Idle
  <1>5. Counters'
    BY <1>1, <1>2, <1>3, <1>4 DEF KVInv, Counters
  <1>6. Generating'
    <2>1. ASSUME NEW o \in LayerIds
          PROVE  /\ Owns(o)'
                 /\ o < depth' => Follows(o, Taken(o))'
                 /\ o >= depth' => Short(o, Taken(o))'
      <3>1. PICK k : k = IF o <= l THEN n + 1 ELSE n
        OBVIOUS
      <3>2. Owns(o)' /\ (o < depth' => Follows(o, k)') /\ (o >= depth' => Short(o, k)')
        BY <1>2, <1>3, <3>1
      <3>3. Taken(o)' = k
        BY <1>2, <1>3, <1>4, <3>1, KVSizes DEF Taken, LayerIds
      <3> QED BY <3>2, <3>3
    <2>2. Paged' = Paged
      BY <1>3 DEF Paged
    <2>3. level' # "medium" => \A o \in LayerIds : InReach(o)' => o < depth'
      BY <1>2, <1>3, ReachStays
    <2> QED BY <1>2, <1>3, <1>4, <2>1, <2>2, <2>3 DEF Generating
  <1> QED BY <1>3, <1>5, <1>6 DEF KVInv

LEMMA DoneKeeps == KVInv /\ ForwardDone => KVInv'
  <1> SUFFICES ASSUME KVInv, ForwardDone PROVE KVInv'
    OBVIOUS
  <1>1. PICK l, n : layer = l /\ position = n
    OBVIOUS
  <1>2. /\ l # Idle /\ Mixer /\ Steady /\ MayExit(l) /\ layer' = Idle /\ position' = n + 1 /\ failed' = failed
        /\ run' = run /\ mode' = mode /\ level' = level /\ tensors' = tensors
        /\ depth' = IF l + 1 < depth THEN l + 1 ELSE depth
    BY <1>1 DEF ForwardDone, Steady, Shallower
  <1>3. /\ PoolInv' /\ Stores' /\ SeenIsPrefix' /\ table' = table
        /\ l \in LayerIds /\ l \in Nat /\ n \in Nat /\ n < MaxContext /\ depth \in 1 .. Layers
        /\ ~failed /\ run >= 1 /\ InReach(l)
        /\ mode = "fp16" => Paged.live /\ Paged.numTokens = n + 1
        /\ level # "medium" => \A o \in LayerIds : InReach(o) => o < depth
        /\ \A o \in LayerIds : \A k : k = (IF o <= l THEN n + 1 ELSE n) =>
              /\ Owns(o)'
              /\ o < depth => Follows(o, k)'
              /\ o >= depth => Short(o, k)'
    BY <1>1, <1>2, LayerFollows
  <1>4. level # "medium" => MustExit(l)
    BY <1>2 DEF MayExit
  <1>5. n + 1 \in 0 .. MaxContext /\ depth' \in 1 .. Layers /\ depth' <= depth /\ depth' <= l + 1
    BY <1>2, <1>3, KVSizes
  <1>6. Counters'
    BY <1>2, <1>5 DEF KVInv, Counters
  <1>7. Generating'
    <2>1. level' # "medium" => \A o \in LayerIds : InReach(o)' => o < depth'
      <3> SUFFICES ASSUME level # "medium", NEW o \in LayerIds, InReach(o)' PROVE o < depth'
        BY <1>2
      <3>1. InReach(o) /\ o < depth /\ o \in Nat
        BY <1>2, <1>3, ReachStays, KVSizes
      <3>2. l \notin 0 .. o - 1
        BY <1>4, <3>1 DEF InReach
      <3> QED BY <1>2, <1>3, <3>1, <3>2
    <2>2. ASSUME NEW o \in LayerIds
          PROVE  /\ Owns(o)'
                 /\ o < depth' => Follows(o, n + 1)'
                 /\ o >= depth' => Short(o, n + 1)'
      <3>1. o \in Nat
        BY KVSizes
      <3>2. PICK k : k = IF o <= l THEN n + 1 ELSE n
        OBVIOUS
      <3>3. Owns(o)' /\ (o < depth => Follows(o, k)') /\ (o >= depth => Short(o, k)')
        BY <1>3, <3>2
      <3>4. o < depth' => Follows(o, n + 1)'
        <4> SUFFICES ASSUME o < depth' PROVE Follows(o, n + 1)'
          OBVIOUS
        <4>1. k = n + 1 /\ o < depth
          BY <1>3, <1>5, <3>1, <3>2
        <4> QED BY <3>3, <4>1
      <3>5. o >= depth' => Short(o, n + 1)'
        <4> SUFFICES ASSUME o >= depth' PROVE Short(o, n + 1)'
          OBVIOUS
        <4>1. CASE o >= depth
          <5>1. k \in Nat /\ k <= n + 1 /\ Short(o, k)'
            BY <1>3, <3>2, <3>3, <4>1
          <5> QED BY <1>3, <5>1 DEF Short
        <4>2. CASE o < depth
          <5>1. k = n
            BY <1>2, <1>3, <3>1, <3>2, <4>2
          <5>2. Follows(o, n)'
            BY <3>3, <4>2, <5>1
          <5> QED BY <1>3, <5>2 DEF Follows, Keeps, Short
        <4> QED BY <1>3, <3>1, <4>1, <4>2
      <3> QED BY <3>3, <3>4, <3>5
    <2>3. \A o : Taken(o)' = n + 1
      BY <1>2 DEF Taken
    <2>4. ASSUME NEW o \in LayerIds
          PROVE  /\ Owns(o)'
                 /\ o < depth' => Follows(o, Taken(o))'
                 /\ o >= depth' => Short(o, Taken(o))'
      <3>1. PICK k : k = n + 1
        OBVIOUS
      <3>2. Taken(o)' = k
        BY <2>3, <3>1
      <3> QED BY <2>2, <3>1, <3>2
    <2>5. Paged' = Paged
      BY <1>3 DEF Paged
    <2> QED BY <1>2, <1>3, <2>1, <2>4, <2>5 DEF Generating
  <1> QED BY <1>3, <1>6, <1>7 DEF KVInv

LEMMA StillKeeps == KVInv /\ UNCHANGED allVars => KVInv'
  <1> SUFFICES ASSUME KVInv, UNCHANGED allVars PROVE KVInv'
    OBVIOUS
  <1>0. /\ Steady /\ vars' = vars /\ store' = store /\ ssm' = ssm /\ seen' = seen /\ table' = table
        /\ layer' = layer /\ position' = position /\ failed' = failed /\ run' = run
        /\ mode' = mode /\ level' = level /\ tensors' = tensors /\ depth' = depth
    BY DEF allVars, decoderVars, Steady, vars
  <1>1. PoolInv' /\ Stores' /\ SeenIsPrefix'
    BY <1>0, RestStays
  <1>2. Counters'
    BY <1>0 DEF KVInv, Counters
  <1>3. Generating'
    <2>1. ASSUME NEW o \in LayerIds, ~failed
          PROVE  /\ Owns(o)'
                 /\ o < depth' => Follows(o, Taken(o))'
                 /\ o >= depth' => Short(o, Taken(o))'
      <3>1. PICK k : k = Taken(o)
        OBVIOUS
      <3>2. Owns(o) /\ (o < depth => Follows(o, k)) /\ (o >= depth => Short(o, k))
        BY <2>1, <3>1 DEF KVInv, Generating
      <3>3. Owns(o)' /\ (o < depth' => Follows(o, k)') /\ (o >= depth' => Short(o, k)')
        BY <1>0, <3>2, FollowsStay, OwnsStay, ShortStays
      <3>4. Taken(o)' = k
        BY <1>0, <3>1 DEF Taken
      <3> QED BY <3>3, <3>4
    <2>2. Paged' = Paged /\ (InReach(layer) => InReach(layer)') /\ \A o : InReach(o)' <=> InReach(o)
      BY <1>0 DEF Paged, InReach, MustExit, LowExit, IsMoe
    <2> QED BY <1>0, <2>1, <2>2 DEF KVInv, Generating
  <1> QED BY <1>1, <1>2, <1>3 DEF KVInv

LEMMA DInitKeeps == DInit => KVInv
  <1> SUFFICES ASSUME DInit PROVE KVInv
    OBVIOUS
  <1>1. PoolInv
    BY DInitPool
  <1>2. Counters /\ Generating
    BY KVSizes DEF DInit, Counters, Generating
  <1>3. SeenIsPrefix
    BY DEF DInit, SeenIsPrefix
  <1>4. Stores
    <2>1. /\ \A l \in LayerIds : store[l] = EmptyStore
          /\ DOMAIN store = LayerIds /\ DOMAIN ssm = LayerIds
      BY DEF DInit
    <2>2. mode \in {"q8", "q8cuda"} =>
             /\ EmptyStore = [count |-> EmptyStore.count, codes |-> EmptyStore.codes, scales |-> EmptyStore.scales]
             /\ Q8Sized(EmptyStore, MaxContext)
      BY DEF EmptyStore, Q8Cache, Q8Sized
    <2>3. mode = "q4" => DOMAIN EmptyStore = 0 .. MaxContext * BlocksPerRow - 1
      BY DEF EmptyStore
    <2>4. mode = "flat" => DOMAIN EmptyStore = 0 .. MaxContext - 1
      BY DEF EmptyStore
    <2> HIDE DEF EmptyStore
    <2> QED BY <2>1, <2>2, <2>3, <2>4 DEF Stores
  <1> QED BY <1>1, <1>2, <1>3, <1>4 DEF KVInv

\* A generation that reads rows finds, at each token, just those its own
\* earlier tokens left, and the pool has room for the next.
LEMMA KVReads == KVInv => AttentionReadsPrefix
  <1> SUFFICES ASSUME KVInv PROVE AttentionReadsPrefix
    OBVIOUS
  <1>1. PoolSuffices
    <2> SUFFICES ASSUME mode = "fp16", layer = Idle, ~failed, position < MaxContext, NeedsBlock(Decoder)
                 PROVE  freeStack # <<>>
      BY DEF PoolSuffices
    <2>1. PoolInv /\ Paged.live /\ Paged.numTokens = position
      BY DEF KVInv, Generating
    <2> QED BY <2>1, PoolIsEnough
  <1> QED BY <1>1 DEF KVInv, SeenIsPrefix, AttentionReadsPrefix

\* At every thinking level, for every model and every cache: in a layer that all
\* tokens of its generation went through (below "medium" and above it: in any
\* layer), attention reads the rows of the generation's earlier tokens, all of
\* them, in order, whichever packing the cache has, and a recurrent state has
\* taken up just these tokens; in a layer that the medium level's early exit
\* (qwanto_decode.c:2408) skipped for some token, a cache that counts its rows
\* and a recurrent state still show no other generation's; and the pool always
\* has room for the next token.  Of the 4-bit cache it speaks where a head
\* fills its blocks, which is where its reader finds the head's values.
THEOREM AttentionAlwaysReadsPrefix == DSpec => []AttentionReadsPrefix
  <1>1. DInit => KVInv
    BY DInitKeeps
  <1>2. KVInv /\ [DNext]_allVars => KVInv'
    BY SubmitKeeps, RefusedKeeps, BeginKeeps, LayerKeeps, DoneKeeps, FailsKeeps, StillKeeps DEF DNext
  <1>3. KVInv => AttentionReadsPrefix
    BY KVReads
  <1> QED BY <1>1, <1>2, <1>3, PTL DEF DSpec

----------------------------------------------------------------------------
(* Sums.                                                                    *)

\* A set that holds 0 and the successor of what it holds is all of Nat.
LEMMA Ascend ==
    ASSUME NEW S, 0 \in S, \A k \in Nat : k \in S => k + 1 \in S
    PROVE  \A n \in Nat : n \in S
  <1> SUFFICES ASSUME Nat \ S # {} PROVE FALSE
    OBVIOUS
  <1>1. PICK m \in Nat \ S : \A y \in Nat \ S : m <= y
    <2>1. Nat \ S \subseteq Nat
      OBVIOUS
    <2> QED BY <2>1, LeastElement
  <1>2. m - 1 \in Nat /\ (m - 1) + 1 = m
    BY <1>1
  <1>3. m - 1 \in S
    BY <1>1, <1>2
  <1> QED BY <1>1, <1>2, <1>3

\* What the loop of a sum of n terms computes, a term at a time.
Adds(term, n, f) == f = [k \in 0 .. n |-> IF k = 0 THEN 0 ELSE f[k - 1] + term[k - 1]]

LEMMA AddsSteps ==
    ASSUME NEW term, NEW n \in Nat, NEW f, Adds(term, n, f)
    PROVE  DOMAIN f = 0 .. n /\ f[0] = 0 /\ \A k \in 0 .. n - 1 : f[k + 1] = f[k] + term[k]
  <1> DEFINE g == [k \in 0 .. n |-> IF k = 0 THEN 0 ELSE f[k - 1] + term[k - 1]]
  <1>1. f = g
    BY DEF Adds
  <1>2. DOMAIN g = 0 .. n /\ g[0] = 0
    OBVIOUS
  <1>3. ASSUME NEW k \in 0 .. n - 1 PROVE g[k + 1] = f[k] + term[k]
    <2>1. k + 1 \in 0 .. n /\ k + 1 # 0 /\ (k + 1) - 1 = k
      OBVIOUS
    <2>2. g[k + 1] = f[(k + 1) - 1] + term[(k + 1) - 1]
      BY <2>1
    <2> QED BY <2>1, <2>2
  <1> HIDE DEF g
  <1> QED BY <1>1, <1>2, <1>3

LEMMA AddsExists ==
    ASSUME NEW term
    PROVE  \A n \in Nat : \E f : Adds(term, n, f)
  <1> DEFINE S == {n \in Nat : \E f : Adds(term, n, f)}
  <1>1. 0 \in S
    <2> DEFINE f == [k \in 0 .. 0 |-> 0]
    <2>1. f = [k \in 0 .. 0 |-> IF k = 0 THEN 0 ELSE f[k - 1] + term[k - 1]]
      OBVIOUS
    <2> HIDE DEF f
    <2>2. Adds(term, 0, f)
      BY <2>1 DEF Adds
    <2> QED BY <2>2
  <1>2. ASSUME NEW n \in Nat, n \in S PROVE n + 1 \in S
    <2>1. PICK f : Adds(term, n, f)
      BY <1>2
    <2>2. f[0] = 0 /\ \A k \in 0 .. n - 1 : f[k + 1] = f[k] + term[k]
      BY <2>1, AddsSteps
    <2> DEFINE g == [k \in 0 .. n + 1 |-> IF k = n + 1 THEN f[n] + term[n] ELSE f[k]]
    <2>3. ASSUME NEW k \in 0 .. n + 1
          PROVE  g[k] = IF k = 0 THEN 0 ELSE g[k - 1] + term[k - 1]
      <3>1. CASE k = n + 1
        <4>1. k - 1 = n /\ n \in 0 .. n + 1 /\ n # n + 1 /\ k # 0
          BY <3>1
        <4>2. g[k - 1] = f[n] /\ g[k] = f[n] + term[n]
          BY <3>1, <4>1
        <4> HIDE DEF g
        <4> QED BY <4>1, <4>2
      <3>2. CASE k = 0
        BY <2>2, <3>2
      <3>3. CASE k # 0 /\ k # n + 1
        <4>1. k - 1 \in 0 .. n - 1 /\ (k - 1) + 1 = k /\ k - 1 \in 0 .. n + 1 /\ k - 1 # n + 1
          BY <3>3
        <4>2. g[k - 1] = f[k - 1] /\ g[k] = f[k]
          BY <3>3, <4>1
        <4>3. f[k] = f[k - 1] + term[k - 1]
          BY <2>2, <4>1
        <4> HIDE DEF g
        <4> QED BY <3>3, <4>2, <4>3
      <3> QED BY <3>1, <3>2, <3>3
    <2>4. g = [k \in 0 .. n + 1 |-> g[k]]
      OBVIOUS
    <2> HIDE DEF g
    <2>5. g = [k \in 0 .. n + 1 |-> IF k = 0 THEN 0 ELSE g[k - 1] + term[k - 1]]
      BY <2>3, <2>4
    <2>6. Adds(term, n + 1, g)
      BY <2>5 DEF Adds
    <2> QED BY <1>2, <2>6
  <1> HIDE DEF S
  <1>3. \A n \in Nat : n \in S
    BY <1>1, <1>2, Ascend
  <1> QED BY <1>3 DEF S

\* Two loops over the same first n terms agree.
Alike(a, b, n) == n \in Nat /\ \A k \in 0 .. n - 1 : a[k] = b[k]

LEMMA AddsAlike ==
    ASSUME NEW a, NEW b, NEW n, NEW m \in Nat, NEW f, NEW g, Adds(a, n, f), Adds(b, m, g), n <= m,
           Alike(a, b, n)
    PROVE  f[n] = g[n]
  <1>0. n \in Nat /\ \A k \in 0 .. n - 1 : a[k] = b[k]
    BY DEF Alike
  <1> DEFINE S == {k \in Nat : k <= n => f[k] = g[k]}
  <1>1. f[0] = 0 /\ \A k \in 0 .. n - 1 : f[k + 1] = f[k] + a[k]
    BY <1>0, AddsSteps
  <1>2. g[0] = 0 /\ \A k \in 0 .. m - 1 : g[k + 1] = g[k] + b[k]
    BY AddsSteps
  <1>3. 0 \in S
    BY <1>1, <1>2
  <1>4. ASSUME NEW k \in Nat, k \in S PROVE k + 1 \in S
    <2> SUFFICES ASSUME k + 1 <= n PROVE f[k + 1] = g[k + 1]
      OBVIOUS
    <2>1. k \in 0 .. n - 1 /\ k \in 0 .. m - 1 /\ k <= n
      BY <1>0
    <2>2. f[k] = g[k]
      BY <1>4, <2>1
    <2> QED BY <1>0, <1>1, <1>2, <2>1, <2>2
  <1> HIDE DEF S
  <1>5. \A k \in Nat : k \in S
    BY <1>3, <1>4, Ascend
  <1> QED BY <1>0, <1>5 DEF S

LEMMA TotalIs ==
    ASSUME NEW term, NEW n \in Nat
    PROVE  \E f : Adds(term, n, f) /\ Total(term, n) = f[n]
  <1> DEFINE sum == CHOOSE f : f = [k \in 0 .. n |-> IF k = 0 THEN 0 ELSE f[k - 1] + term[k - 1]]
             chosen == CHOOSE f : Adds(term, n, f)
  <1>1. Total(term, n) = sum[n]
    BY Zenon DEF Total
  <1>2. sum = chosen
    BY DEF Adds
  <1> HIDE DEF sum
  <1>3. Adds(term, n, chosen)
    BY AddsExists
  <1> QED BY <1>1, <1>2, <1>3

LEMMA TotalSame ==
    ASSUME NEW a, NEW b, NEW n, Alike(a, b, n)
    PROVE  Total(a, n) = Total(b, n)
  <1>0. n \in Nat /\ n <= n
    BY DEF Alike
  <1>1. PICK f : Adds(a, n, f) /\ Total(a, n) = f[n]
    BY <1>0, TotalIs
  <1>2. PICK g : Adds(b, n, g) /\ Total(b, n) = g[n]
    BY <1>0, TotalIs
  <1> QED BY <1>0, <1>1, <1>2, AddsAlike

LEMMA TotalSteps ==
    ASSUME NEW term
    PROVE  Total(term, 0) = 0 /\ \A n \in Nat : Total(term, n + 1) = Total(term, n) + term[n]
  <1>1. Total(term, 0) = 0
    BY TotalIs, AddsSteps
  <1>2. ASSUME NEW n \in Nat PROVE Total(term, n + 1) = Total(term, n) + term[n]
    <2>1. PICK f : Adds(term, n, f) /\ Total(term, n) = f[n]
      BY TotalIs
    <2>2. PICK m \in Nat : m = n + 1
      OBVIOUS
    <2>3. PICK g : Adds(term, m, g) /\ Total(term, m) = g[m]
      BY TotalIs
    <2>4. g[m] = g[n] + term[n]
      <3>1. n \in 0 .. m - 1 /\ m = n + 1
        BY <2>2
      <3> QED BY <2>3, <3>1, AddsSteps
    <2>5. f[n] = g[n]
      <3>1. n <= m /\ Alike(term, term, n)
        BY <2>2 DEF Alike
      <3> QED BY <2>1, <2>3, <3>1, AddsAlike
    <2> QED BY <2>1, <2>2, <2>3, <2>4, <2>5
  <1> QED BY <1>1, <1>2

Ints(a, n) == n \in Nat /\ \A k \in 0 .. n - 1 : a[k] \in Int

LEMMA TotalInt ==
    ASSUME NEW a, NEW n, Ints(a, n)
    PROVE  \A k \in 0 .. n : Total(a, k) \in Int
  <1> DEFINE S == {k \in Nat : k <= n => Total(a, k) \in Int}
  <1>1. n \in Nat /\ Total(a, 0) \in Int
    BY TotalSteps DEF Ints
  <1>2. ASSUME NEW k \in Nat, k \in S PROVE k + 1 \in S
    <2> SUFFICES ASSUME k + 1 <= n PROVE Total(a, k + 1) \in Int
      OBVIOUS
    <2>1. k \in 0 .. n - 1 /\ k <= n
      BY <1>1
    <2>2. Total(a, k) \in Int /\ a[k] \in Int
      BY <1>2, <2>1 DEF Ints
    <2>3. Total(a, k + 1) = Total(a, k) + a[k]
      BY TotalSteps
    <2> QED BY <2>2, <2>3
  <1> HIDE DEF S
  <1>3. \A k \in Nat : k \in S
    <2>1. 0 \in S
      BY <1>1 DEF S
    <2> QED BY <1>2, <2>1, Ascend
  <1> QED BY <1>1, <1>3 DEF S

\* A sum of combinations is the combination of the sums.
Combines(t, p, a, q, b, n) ==
    /\ Ints(a, n) /\ Ints(b, n) /\ p \in Int /\ q \in Int
    /\ \A k \in 0 .. n - 1 : t[k] = p * a[k] + q * b[k]

LEMMA TotalCombines ==
    ASSUME NEW t, NEW p, NEW a, NEW q, NEW b, NEW n, Combines(t, p, a, q, b, n)
    PROVE  Total(t, n) = p * Total(a, n) + q * Total(b, n)
  <1> DEFINE S == {k \in Nat : k <= n => Total(t, k) = p * Total(a, k) + q * Total(b, k)}
  <1>1. n \in Nat /\ p \in Int /\ q \in Int
    BY DEF Combines, Ints
  <1>2. 0 \in S
    <2>1. p * 0 + q * 0 = 0
      BY <1>1
    <2> QED BY <2>1, TotalSteps
  <1>3. ASSUME NEW k \in Nat, k \in S PROVE k + 1 \in S
    <2> SUFFICES ASSUME k + 1 <= n
                 PROVE  Total(t, k + 1) = p * Total(a, k + 1) + q * Total(b, k + 1)
      OBVIOUS
    <2>1. k \in 0 .. n - 1 /\ k <= n /\ k \in 0 .. n
      BY <1>1
    <2>2. Total(t, k) = p * Total(a, k) + q * Total(b, k)
      BY <1>3, <2>1
    <2>3. /\ Total(t, k + 1) = Total(t, k) + t[k]
          /\ Total(a, k + 1) = Total(a, k) + a[k]
          /\ Total(b, k + 1) = Total(b, k) + b[k]
      BY TotalSteps
    <2>4. /\ Total(a, k) \in Int /\ Total(b, k) \in Int /\ a[k] \in Int /\ b[k] \in Int
          /\ t[k] = p * a[k] + q * b[k]
      BY <2>1, TotalInt DEF Combines, Ints
    <2> DEFINE x == Total(a, k)
               y == Total(b, k)
               u == a[k]
               v == b[k]
    <2> HIDE DEF x, y, u, v
    <2>5. x \in Int /\ y \in Int /\ u \in Int /\ v \in Int
      BY <2>4 DEF x, y, u, v
    <2>6. (p * x + q * y) + (p * u + q * v) = p * (x + u) + q * (y + v)
      BY <1>1, <2>5, Z3
    <2> QED BY <2>2, <2>3, <2>4, <2>6, Zenon DEF x, y, u, v
  <1> HIDE DEF S
  <1>4. \A k \in Nat : k \in S
    BY <1>2, <1>3, Ascend
  <1>5. n \in S
    BY <1>1, <1>4
  <1> QED BY <1>1, <1>5 DEF S

\* A sum over pairs, and one that goes on.
LEMMA TotalPairs ==
    ASSUME NEW t, NEW d, NEW h \in Nat, Ints(t, 2 * h), \A j \in 0 .. h - 1 : d[j] = t[2 * j] + t[2 * j + 1]
    PROVE  Total(d, h) = Total(t, 2 * h)
  <1> DEFINE S == {k \in Nat : k <= h => Total(d, k) = Total(t, 2 * k)}
  <1>1. 0 \in S
    BY TotalSteps
  <1>2. ASSUME NEW k \in Nat, k \in S PROVE k + 1 \in S
    <2> SUFFICES ASSUME k + 1 <= h PROVE Total(d, k + 1) = Total(t, 2 * (k + 1))
      OBVIOUS
    <2>1. k \in 0 .. h - 1 /\ k <= h
      OBVIOUS
    <2>2. PICK m \in Nat : m = 2 * k
      BY <2>1
    <2>3. 2 * (k + 1) = (m + 1) + 1 /\ 2 * k + 1 = m + 1 /\ m + 1 \in Nat
      BY <2>2
    <2>4. Total(t, (m + 1) + 1) = Total(t, m) + t[m] + t[m + 1]
      BY <2>3, TotalSteps
    <2>5. Total(d, k + 1) = Total(d, k) + d[k] /\ d[k] = t[m] + t[m + 1] /\ Total(d, k) = Total(t, m)
      BY <1>2, <2>1, <2>2, TotalSteps
    <2>6. Total(t, m) \in Int /\ t[m] \in Int /\ t[m + 1] \in Int
      <3>1. m \in 0 .. 2 * h - 1 /\ m + 1 \in 0 .. 2 * h - 1 /\ m \in 0 .. 2 * h
        BY <2>1, <2>2
      <3> QED BY <3>1, TotalInt DEF Ints
    <2> QED BY <2>3, <2>4, <2>5, <2>6
  <1> HIDE DEF S
  <1>3. \A k \in Nat : k \in S
    BY <1>1, <1>2, Ascend
  <1> QED BY <1>3 DEF S

LEMMA TotalSplit ==
    ASSUME NEW t, NEW n \in Nat, NEW m \in Nat, Ints(t, n + m)
    PROVE  Total(t, n + m) = Total(t, n) + Total(Span(t, n, m), m)
  <1> DEFINE s == Span(t, n, m)
             S == {k \in Nat : k <= m => Total(t, n + k) = Total(t, n) + Total(s, k)}
  <1>0. \A k \in 0 .. m - 1 : s[k] = t[n + k] /\ t[n + k] \in Int
    <2>1. \A k \in 0 .. m - 1 : n + k \in 0 .. (n + m) - 1
      OBVIOUS
    <2> QED BY <2>1 DEF Span, Ints
  <1>1. Ints(s, m)
    BY <1>0 DEF Ints
  <1> HIDE DEF s
  <1>2. \A k \in 0 .. n + m : Total(t, k) \in Int
    BY TotalInt
  <1>3. \A k \in 0 .. m : Total(s, k) \in Int
    BY <1>1, TotalInt
  <1>4. 0 \in S
    <2>1. n + 0 = n /\ n \in 0 .. n + m /\ Total(s, 0) = 0
      BY TotalSteps
    <2> QED BY <1>2, <2>1
  <1>5. ASSUME NEW k \in Nat, k \in S PROVE k + 1 \in S
    <2> SUFFICES ASSUME k + 1 <= m PROVE Total(t, n + (k + 1)) = Total(t, n) + Total(s, k + 1)
      OBVIOUS
    <2>1. k \in 0 .. m - 1 /\ k <= m /\ k \in 0 .. m /\ n \in 0 .. n + m /\ n + k \in Nat
          /\ n + (k + 1) = (n + k) + 1
      OBVIOUS
    <2>2. Total(t, n + k) = Total(t, n) + Total(s, k)
      BY <1>5, <2>1
    <2>3. Total(t, (n + k) + 1) = Total(t, n + k) + t[n + k] /\ Total(s, k + 1) = Total(s, k) + s[k]
      BY <2>1, TotalSteps
    <2> QED BY <1>0, <1>2, <1>3, <2>1, <2>2, <2>3
  <1> HIDE DEF S
  <1>6. \A k \in Nat : k \in S
    BY <1>4, <1>5, Ascend
  <1> QED BY <1>6 DEF S, s

\* The sum of the sums of a row's parts of L values, the last of them cut
\* short, is the sum of the row.
InParts(d, t, L, width, B) ==
    /\ L \in Nat \ {0} /\ B \in Nat /\ width <= B * L /\ Ints(t, width)
    /\ \A b \in 0 .. B - 1 :
          b * L < width /\ d[b] = Total(Span(t, b * L, L), IF width - b * L < L THEN width - b * L ELSE L)

LEMMA TotalParts ==
    ASSUME NEW d, NEW t, NEW L, NEW width, NEW B, InParts(d, t, L, width, B)
    PROVE  Total(d, B) = Total(t, width)
  <1> DEFINE upTo(k) == IF k * L < width THEN k * L ELSE width
             S == {k \in Nat : k <= B => Total(d, k) = Total(t, upTo(k))}
  <1>0. L \in Nat \ {0} /\ B \in Nat /\ width \in Nat /\ width <= B * L /\ Ints(t, width)
    BY DEF InParts, Ints
  <1>1. 0 \in S
    <2>1. upTo(0) = 0
      <3>1. 0 * L = 0
        BY <1>0
      <3> QED BY <1>0, <3>1
    <2> QED BY <2>1, TotalSteps
  <1>2. ASSUME NEW k \in Nat, k \in S PROVE k + 1 \in S
    <2> SUFFICES ASSUME k + 1 <= B PROVE Total(d, k + 1) = Total(t, upTo(k + 1))
      OBVIOUS
    <2>1. k \in 0 .. B - 1 /\ k <= B
      BY <1>0
    <2>2. PICK from : from = k * L
      OBVIOUS
    <2>3. PICK cap : cap = IF width - from < L THEN width - from ELSE L
      OBVIOUS
    <2>4. from \in Nat /\ (k + 1) * L = from + L
      BY <1>0, <2>2, Z3
    <2>5. from < width /\ d[k] = Total(Span(t, from, L), cap)
      BY <2>1, <2>2, <2>3 DEF InParts
    <2>6. cap \in Nat /\ cap <= L /\ from + cap <= width /\ upTo(k) = from /\ upTo(k + 1) = from + cap
      <3>1. cap \in Nat /\ cap <= L /\ from + cap <= width
        BY <1>0, <2>3, <2>4, <2>5
      <3>2. upTo(k) = from
        BY <2>2, <2>5
      <3>3. upTo(k + 1) = IF from + L < width THEN from + L ELSE width
        BY <2>4
      <3> HIDE DEF upTo
      <3> QED BY <1>0, <2>3, <2>4, <2>5, <3>1, <3>2, <3>3
    <2> HIDE DEF upTo
    <2>7. Ints(t, from + cap)
      BY <1>0, <2>4, <2>6 DEF Ints
    <2>8. Total(t, from + cap) = Total(t, from) + Total(Span(t, from, cap), cap)
      BY <2>4, <2>6, <2>7, TotalSplit
    <2>9. Total(Span(t, from, L), cap) = Total(Span(t, from, cap), cap)
      <3>1. Alike(Span(t, from, L), Span(t, from, cap), cap)
        BY <1>0, <2>4, <2>6 DEF Alike, Span
      <3> QED BY <3>1, TotalSame
    <2>10. Total(d, k) = Total(t, from)
      BY <1>2, <2>1, <2>6
    <2>11. Total(d, k + 1) = Total(d, k) + d[k]
      BY TotalSteps
    <2> QED BY <2>5, <2>6, <2>8, <2>9, <2>10, <2>11
  <1> HIDE DEF S, upTo
  <1>3. \A k \in Nat : k \in S
    BY <1>1, <1>2, Ascend
  <1>4. upTo(B) = width
    BY <1>0 DEF upTo
  <1> QED BY <1>0, <1>3, <1>4 DEF S

----------------------------------------------------------------------------
(* Blocks of weights.                                                       *)

LEMMA FormatIs ==
    ASSUME NEW q \in Quants
    PROVE  /\ Format[q].lanes \in {1, 2, 4, 8} /\ Format[q].perByte \in {1, 2, 4}
           /\ Format[q].one \in {1, 8, 128} /\ (Format[q].one = 8 => Format[q].lanes \in {4, 8})
           /\ Format[q].steps \in {2, 7, 127} /\ Format[q].low \in Int /\ Format[q].high \in Int
           /\ Format[q].low <= Format[q].high
           /\ q = "q8_0" <=> Format[q].perByte = 1
           /\ q = "q8_0" => Format[q].low = -127 /\ Format[q].high = 127
           /\ Format[q].perByte = 2 => Format[q].high - Format[q].low = 15
           /\ Format[q].perByte = 4 => Format[q].high - Format[q].low = 3
  <1>1. q \in {"q4_0", "q8_0", "vsq", "vsq_ultra", "hyper_vsq", "hyper_vsq2"}
    BY DEF Quants, Format
  <1>2. CASE q = "q4_0"
    BY <1>2 DEF Format
  <1>3. CASE q = "q8_0"
    BY <1>3 DEF Format
  <1>4. CASE q = "vsq"
    BY <1>4 DEF Format
  <1>5. CASE q = "vsq_ultra"
    BY <1>5 DEF Format
  <1>6. CASE q = "hyper_vsq"
    BY <1>6 DEF Format
  <1>7. CASE q = "hyper_vsq2"
    BY <1>7 DEF Format
  <1> QED BY <1>1, <1>2, <1>3, <1>4, <1>5, <1>6, <1>7

LEMMA BlockSizes ==
    ASSUME NEW q \in Quants
    PROVE  /\ Lane \in Nat \ {0} /\ Lane % 4 = 0 /\ Elems(q) \in Nat \ {0} /\ Elems(q) % 4 = 0
           /\ Elems(q) = Lane * Format[q].lanes /\ Units(q) \in Nat \ {0}
           /\ (CodeBits(q) = 8 /\ Format[q].perByte = 1) \/ (CodeBits(q) = 4 /\ Format[q].perByte = 2)
              \/ (CodeBits(q) = 2 /\ Format[q].perByte = 4)
  <1>1. Lane \in Nat \ {0} /\ Lane % 4 = 0
    BY WeightsAssumption
  <1>2. Format[q].lanes \in {1, 2, 4, 8} /\ Format[q].perByte \in {1, 2, 4}
        /\ Format[q].one \in {1, 8, 128} /\ Format[q].steps \in {2, 7, 127}
    BY FormatIs
  <1>3. Elems(q) \in Nat \ {0} /\ Elems(q) % 4 = 0 /\ Elems(q) = Lane * Format[q].lanes
    BY <1>1, <1>2 DEF Elems
  <1>4. Units(q) \in Nat \ {0}
    BY <1>2 DEF Units
  <1>5. /\ (CodeBits(q) = 8 /\ Format[q].perByte = 1) \/ (CodeBits(q) = 4 /\ Format[q].perByte = 2)
           \/ (CodeBits(q) = 2 /\ Format[q].perByte = 4)
    BY <1>2 DEF CodeBits
  <1> QED BY <1>1, <1>3, <1>4, <1>5

LEMMA TotalFew ==
    ASSUME NEW t, \A i \in 0 .. 3 : t[i] \in Int
    PROVE  /\ Total(t, 1) = t[0] /\ Total(t, 2) = t[0] + t[1]
           /\ Total(t, 4) = t[0] + t[1] + t[2] + t[3]
  <1>1. Total(t, 0) = 0 /\ \A n \in Nat : Total(t, n + 1) = Total(t, n) + t[n]
    BY TotalSteps
  <1>2. /\ Total(t, 0 + 1) = Total(t, 0) + t[0] /\ Total(t, 1 + 1) = Total(t, 1) + t[1]
        /\ Total(t, 2 + 1) = Total(t, 2) + t[2] /\ Total(t, 3 + 1) = Total(t, 3) + t[3]
    BY <1>1
  <1>3. 0 + 1 = 1 /\ 1 + 1 = 2 /\ 2 + 1 = 3 /\ 3 + 1 = 4
    OBVIOUS
  <1>4. t[0] \in Int /\ t[1] \in Int /\ t[2] \in Int /\ t[3] \in Int
    OBVIOUS
  <1> QED BY <1>1, <1>2, <1>3, <1>4

\* Two or four codes in a byte.
LEMMA Nibbles ==
    ASSUME NEW a \in 0 .. 15, NEW b \in 0 .. 15, NEW v, v = a + 16 * b
    PROVE  (v \div 1) % 16 = a /\ (v \div 16) % 16 = b /\ v \div 16 = b /\ v % 16 = a
  OBVIOUS

LEMMA Crumbs ==
    ASSUME NEW a \in 0 .. 3, NEW b \in 0 .. 3, NEW c \in 0 .. 3, NEW d \in 0 .. 3,
           NEW v, v = a + 4 * b + 16 * c + 64 * d
    PROVE  (v \div 1) % 4 = a /\ (v \div 4) % 4 = b /\ (v \div 16) % 4 = c /\ (v \div 64) % 4 = d
  OBVIOUS

LEMMA Powers == 2^0 = 1 /\ 2^2 = 4 /\ 2^4 = 16 /\ 2^6 = 64 /\ 2^8 = 256
  OBVIOUS

\* The three widths of a code.
Width8(q) == q = "q8_0" /\ CodeBits(q) = 8 /\ Format[q].perByte = 1 /\ 2^CodeBits(q) = 256
Width4(q) == q # "q8_0" /\ CodeBits(q) = 4 /\ Format[q].perByte = 2 /\ 2^CodeBits(q) = 16
Width2(q) == q # "q8_0" /\ CodeBits(q) = 2 /\ Format[q].perByte = 4 /\ 2^CodeBits(q) = 4

LEMMA Widths ==
    ASSUME NEW q \in Quants
    PROVE  Width8(q) \/ Width4(q) \/ Width2(q)
  <1>1. q = "q8_0" <=> Format[q].perByte = 1
    BY FormatIs
  <1>2. CASE CodeBits(q) = 8 /\ Format[q].perByte = 1
    <2>1. 2^CodeBits(q) = 2^8
      BY <1>2, Zenon
    <2>2. q = "q8_0"
      BY <1>1, <1>2
    <2> QED BY <1>2, <2>1, <2>2, Powers, Zenon DEF Width8
  <1>3. CASE CodeBits(q) = 4 /\ Format[q].perByte = 2
    <2>1. q # "q8_0"
      BY <1>1, <1>3
    <2>2. 2^CodeBits(q) = 2^4
      BY <1>3, Zenon
    <2> QED BY <1>3, <2>1, <2>2, Powers, Zenon DEF Width4
  <1>4. CASE CodeBits(q) = 2 /\ Format[q].perByte = 4
    <2>1. q # "q8_0"
      BY <1>1, <1>4
    <2>2. 2^CodeBits(q) = 2^2
      BY <1>4, Zenon
    <2> QED BY <1>4, <2>1, <2>2, Powers, Zenon DEF Width2
  <1> QED BY <1>2, <1>3, <1>4, BlockSizes, Zenon

\* The codes of a format fit in their bits of a byte.
LEMMA CodeFits ==
    ASSUME NEW q \in Quants, NEW code \in Format[q].low .. Format[q].high
    PROVE  /\ code \in Int
           /\ Width8(q) => Unsigned(q, code) = code % 256 /\ code \in -127 .. 127
           /\ Width4(q) => Unsigned(q, code) = code - Format[q].low /\ Unsigned(q, code) \in 0 .. 15
           /\ Width2(q) => Unsigned(q, code) = code - Format[q].low /\ Unsigned(q, code) \in 0 .. 3
  <1>1. Format[q].low \in Int /\ Format[q].high \in Int
    BY FormatIs
  <1>2. code \in Int
    BY <1>1
  <1>3. ASSUME Width8(q) PROVE Unsigned(q, code) = code % 256 /\ code \in -127 .. 127
    <2>1. Unsigned(q, code) = code % 256
      BY <1>3, Zenon DEF Unsigned, Width8
    <2> QED BY <1>3, <2>1, FormatIs DEF Width8
  <1>4. PICK c : c = code - Format[q].low
    OBVIOUS
  <1>5. ASSUME Width4(q) PROVE Unsigned(q, code) = c /\ c \in 0 .. 15
    <2>1. Unsigned(q, code) = c % 16
      BY <1>4, <1>5, Zenon DEF Unsigned, Width4
    <2>2. c \in 0 .. 15
      BY <1>1, <1>2, <1>4, <1>5, FormatIs DEF Width4
    <2>3. c % 16 = c
      BY <2>2
    <2> QED BY <2>1, <2>2, <2>3
  <1>6. ASSUME Width2(q) PROVE Unsigned(q, code) = c /\ c \in 0 .. 3
    <2>1. Unsigned(q, code) = c % 4
      BY <1>4, <1>6, Zenon DEF Unsigned, Width2
    <2>2. c \in 0 .. 3
      BY <1>1, <1>2, <1>4, <1>6, FormatIs DEF Width2
    <2>3. c % 4 = c
      BY <2>2
    <2> QED BY <2>1, <2>2, <2>3
  <1> QED BY <1>2, <1>3, <1>4, <1>5, <1>6

\* Whatever the format, the reader finds in its byte the code that was packed.
Codes(q, codes) == \A i \in 0 .. Elems(q) - 1 : codes[i] \in Format[q].low .. Format[q].high

LEMMA CodeOfPacked ==
    ASSUME NEW q \in Quants, NEW codes, Codes(q, codes), NEW block, block.codes = Packed(q, codes),
           NEW i \in 0 .. Elems(q) - 1
    PROVE  CodeAt(q, block, i) = codes[i]
  <1> DEFINE n == Format[q].perByte
             u(c) == Unsigned(q, codes[c])
             term(j) == [c \in 0 .. n - 1 |-> Unsigned(q, codes[n * j + c]) * 2^(CodeBits(q) * c)]
             size == 2^CodeBits(q)
             got == (block.codes[i \div n] \div 2^(CodeBits(q) * (i % n))) % size
  <1>0. Elems(q) \in Nat \ {0} /\ Elems(q) % 4 = 0 /\ i \in Nat /\ i < Elems(q)
    BY BlockSizes
  <1>1. \A j \in 0 .. (Elems(q) \div n) - 1 : block.codes[j] = Total(term(j), n)
    BY Zenon DEF Packed
  <1>2. codes[i] \in Format[q].low .. Format[q].high /\ Format[q].low \in Int
    BY FormatIs DEF Codes
  <1>3. CodeAt(q, block, i) = IF q = "q8_0" THEN IF got > 127 THEN got - 256 ELSE got ELSE got + Format[q].low
    BY Zenon DEF CodeAt
  <1>4. CASE Width8(q)
    <2>1. n = 1 /\ CodeBits(q) = 8 /\ size = 256 /\ q = "q8_0"
      BY <1>4 DEF Width8
    <2>2. i \div n = i /\ i % n = 0 /\ i \in 0 .. (Elems(q) \div n) - 1
      BY <1>0, <2>1
    <2>3. got = (Total(term(i), 1) \div 1) % 256
      <3>1. CodeBits(q) * 0 = 0
        BY <2>1
      <3>2. 2^(CodeBits(q) * (i % n)) = 1
        BY <2>2, <3>1, Powers, Zenon
      <3>3. block.codes[i \div n] = Total(term(i), 1)
        <4> HIDE DEF term, n
        <4>1. block.codes[i] = Total(term(i), n)
          BY <1>1, <2>2, Zenon
        <4> QED BY <4>1, <2>1, <2>2, Zenon
      <3> HIDE DEF term, n, size
      <3>4. got = (block.codes[i \div n] \div 2^(CodeBits(q) * (i % n))) % size
        BY Zenon
      <3> HIDE DEF got
      <3> QED BY <3>4, <3>3, <3>2, <2>1, Zenon
    <2>4. Total(term(i), 1) = u(i) * 1
      <3>1. term(i)[0] = Unsigned(q, codes[1 * i + 0]) * 2^(CodeBits(q) * 0)
        <4>1. 0 \in 0 .. n - 1
          BY <2>1
        <4>2. term(i)[0] = Unsigned(q, codes[n * i + 0]) * 2^(CodeBits(q) * 0)
          BY <4>1, Zenon
        <4> QED BY <2>1, <4>2, Zenon
      <3>2. 1 * i + 0 = i /\ CodeBits(q) * 0 = 0
        BY <1>0, <2>1
      <3>3. term(i)[0] = u(i) * 1
        BY <3>1, <3>2, Powers, Zenon
      <3>4. u(i) \in Int
        BY <1>2, <1>4, CodeFits
      <3> HIDE DEF term, u
      <3>5. Total(term(i), 0 + 1) = Total(term(i), 0) + term(i)[0] /\ Total(term(i), 0) = 0
        BY TotalSteps
      <3> QED BY <3>3, <3>4, <3>5
    <2> HIDE DEF term, got, n
    <2>5. u(i) = codes[i] % 256 /\ codes[i] \in -127 .. 127
      BY <1>2, <1>4, CodeFits
    <2>6. got = codes[i] % 256
      <3> HIDE DEF u
      <3> QED BY <2>3, <2>4, <2>5
    <2> QED BY <1>3, <2>1, <2>5, <2>6
  <1>5. CASE Width4(q)
    <2>1. n = 2 /\ CodeBits(q) = 4 /\ size = 16 /\ q # "q8_0"
      BY <1>5 DEF Width4
    <2>2. PICK j : j = i \div n
      OBVIOUS
    <2>3. /\ j \in 0 .. (Elems(q) \div n) - 1 /\ j \in Nat
          /\ (i = 2 * j + 0 /\ i % n = 0) \/ (i = 2 * j + 1 /\ i % n = 1)
          /\ 2 * j + 0 \in 0 .. Elems(q) - 1 /\ 2 * j + 1 \in 0 .. Elems(q) - 1
      BY <1>0, <2>1, <2>2
    <2>4. /\ codes[2 * j + 0] \in Format[q].low .. Format[q].high
          /\ codes[2 * j + 1] \in Format[q].low .. Format[q].high
      BY <2>3 DEF Codes
    <2> DEFINE a == u(2 * j + 0)
               b == u(2 * j + 1)
    <2>5. a \in 0 .. 15 /\ b \in 0 .. 15
      BY <1>5, <2>4, CodeFits
    <2>6. term(j)[0] = a * 1 /\ term(j)[1] = b * 16
      <3>1. 0 \in 0 .. n - 1 /\ 1 \in 0 .. n - 1 /\ CodeBits(q) * 0 = 0 /\ CodeBits(q) * 1 = 4
        BY <2>1
      <3>2. /\ term(j)[0] = Unsigned(q, codes[n * j + 0]) * 2^(CodeBits(q) * 0)
            /\ term(j)[1] = Unsigned(q, codes[n * j + 1]) * 2^(CodeBits(q) * 1)
        BY <3>1, Zenon
      <3> QED BY <2>1, <3>1, <3>2, Powers, Zenon
    <2>7. Total(term(j), 2) = a + 16 * b
      <3> HIDE DEF term, a, b
      <3>1. term(j)[0] = a /\ term(j)[1] = 16 * b
        BY <2>5, <2>6
      <3>2. Total(term(j), 0 + 1) = Total(term(j), 0) + term(j)[0] /\ Total(term(j), 0) = 0
            /\ Total(term(j), 1 + 1) = Total(term(j), 1) + term(j)[1]
        BY TotalSteps
      <3> QED BY <2>5, <3>1, <3>2
    <2>8. PICK v : v = Total(term(j), 2)
      OBVIOUS
    <2>9. block.codes[i \div n] = v
      BY <1>1, <2>1, <2>2, <2>3, <2>8, Zenon
    <2>10. (v \div 1) % 16 = a /\ (v \div 16) % 16 = b
      <3> HIDE DEF term, a, b
      <3> QED BY <2>5, <2>7, <2>8, Nibbles
    <2>11. CASE i = 2 * j + 0 /\ i % n = 0
      <3>1. CodeBits(q) * (i % n) = 0
        BY <2>1, <2>11
      <3>2. got = (v \div 1) % 16
        BY <2>1, <2>9, <3>1, Powers, Zenon
      <3>3. a = codes[i] - Format[q].low
        BY <1>5, <2>4, <2>11, CodeFits, Zenon
      <3> HIDE DEF a, got
      <3> QED BY <1>2, <1>3, <2>1, <2>10, <3>2, <3>3
    <2>12. CASE i = 2 * j + 1 /\ i % n = 1
      <3>1. CodeBits(q) * (i % n) = 4
        BY <2>1, <2>12
      <3>2. got = (v \div 16) % 16
        BY <2>1, <2>9, <3>1, Powers, Zenon
      <3>3. b = codes[i] - Format[q].low
        BY <1>5, <2>4, <2>12, CodeFits, Zenon
      <3> HIDE DEF b, got
      <3> QED BY <1>2, <1>3, <2>1, <2>10, <3>2, <3>3
    <2> QED BY <2>3, <2>11, <2>12
  <1>6. CASE Width2(q)
    <2>1. n = 4 /\ CodeBits(q) = 2 /\ size = 4 /\ q # "q8_0"
      BY <1>6 DEF Width2
    <2>2. PICK j : j = i \div n
      OBVIOUS
    <2>3. /\ j \in 0 .. (Elems(q) \div n) - 1 /\ j \in Nat
          /\ (i = 4 * j + 0 /\ i % n = 0) \/ (i = 4 * j + 1 /\ i % n = 1)
             \/ (i = 4 * j + 2 /\ i % n = 2) \/ (i = 4 * j + 3 /\ i % n = 3)
          /\ \A k \in 0 .. 3 : 4 * j + k \in 0 .. Elems(q) - 1
      BY <1>0, <2>1, <2>2
    <2>4. \A k \in 0 .. 3 : codes[4 * j + k] \in Format[q].low .. Format[q].high
      BY <2>3 DEF Codes
    <2> DEFINE a == u(4 * j + 0)
               b == u(4 * j + 1)
               c == u(4 * j + 2)
               d == u(4 * j + 3)
    <2>5. a \in 0 .. 3 /\ b \in 0 .. 3 /\ c \in 0 .. 3 /\ d \in 0 .. 3
      BY <1>6, <2>4, CodeFits
    <2>6. term(j)[0] = a * 1 /\ term(j)[1] = b * 4 /\ term(j)[2] = c * 16 /\ term(j)[3] = d * 64
      <3>1. /\ 0 \in 0 .. n - 1 /\ 1 \in 0 .. n - 1 /\ 2 \in 0 .. n - 1 /\ 3 \in 0 .. n - 1
            /\ CodeBits(q) * 0 = 0 /\ CodeBits(q) * 1 = 2 /\ CodeBits(q) * 2 = 4 /\ CodeBits(q) * 3 = 6
        BY <2>1
      <3>2. /\ term(j)[0] = Unsigned(q, codes[n * j + 0]) * 2^(CodeBits(q) * 0)
            /\ term(j)[1] = Unsigned(q, codes[n * j + 1]) * 2^(CodeBits(q) * 1)
            /\ term(j)[2] = Unsigned(q, codes[n * j + 2]) * 2^(CodeBits(q) * 2)
            /\ term(j)[3] = Unsigned(q, codes[n * j + 3]) * 2^(CodeBits(q) * 3)
        BY <3>1, Zenon
      <3> QED BY <2>1, <3>1, <3>2, Powers, Zenon
    <2>7. Total(term(j), 4) = a + 4 * b + 16 * c + 64 * d
      <3> HIDE DEF term, a, b, c, d
      <3>1. term(j)[0] = a /\ term(j)[1] = 4 * b /\ term(j)[2] = 16 * c /\ term(j)[3] = 64 * d
        BY <2>5, <2>6
      <3>2. Total(term(j), 0) = 0 /\ Total(term(j), 0 + 1) = Total(term(j), 0) + term(j)[0]
            /\ Total(term(j), 1 + 1) = Total(term(j), 1) + term(j)[1]
            /\ Total(term(j), 2 + 1) = Total(term(j), 2) + term(j)[2]
            /\ Total(term(j), 3 + 1) = Total(term(j), 3) + term(j)[3]
        BY TotalSteps
      <3> QED BY <2>5, <3>1, <3>2
    <2>8. PICK v : v = Total(term(j), 4)
      OBVIOUS
    <2>9. block.codes[i \div n] = v
      BY <1>1, <2>1, <2>2, <2>3, <2>8, Zenon
    <2>10. (v \div 1) % 4 = a /\ (v \div 4) % 4 = b /\ (v \div 16) % 4 = c /\ (v \div 64) % 4 = d
      <3> HIDE DEF term, a, b, c, d
      <3>1. v = a + 4 * b + 16 * c + 64 * d
        BY <2>7, <2>8
      <3> QED BY <2>5, <3>1, Crumbs, Z3
    <2>11. CASE i = 4 * j + 0 /\ i % n = 0
      <3>1. CodeBits(q) * (i % n) = 0 /\ 0 \in 0 .. 3
        BY <2>1, <2>11
      <3>2. got = (v \div 1) % 4
        BY <2>1, <2>9, <3>1, Powers, Zenon
      <3>3. a = codes[i] - Format[q].low
        <4>1. codes[4 * j + 0] \in Format[q].low .. Format[q].high
          BY <2>4, <3>1
        <4> QED BY <1>6, <2>11, <4>1, CodeFits, Zenon
      <3> HIDE DEF a, got
      <3> QED BY <1>2, <1>3, <2>1, <2>10, <3>2, <3>3
    <2>12. CASE i = 4 * j + 1 /\ i % n = 1
      <3>1. CodeBits(q) * (i % n) = 2 /\ 1 \in 0 .. 3
        BY <2>1, <2>12
      <3>2. got = (v \div 4) % 4
        BY <2>1, <2>9, <3>1, Powers, Zenon
      <3>3. b = codes[i] - Format[q].low
        <4>1. codes[4 * j + 1] \in Format[q].low .. Format[q].high
          BY <2>4, <3>1
        <4> QED BY <1>6, <2>12, <4>1, CodeFits, Zenon
      <3> HIDE DEF b, got
      <3> QED BY <1>2, <1>3, <2>1, <2>10, <3>2, <3>3
    <2>13. CASE i = 4 * j + 2 /\ i % n = 2
      <3>1. CodeBits(q) * (i % n) = 4 /\ 2 \in 0 .. 3
        BY <2>1, <2>13
      <3>2. got = (v \div 16) % 4
        BY <2>1, <2>9, <3>1, Powers, Zenon
      <3>3. c = codes[i] - Format[q].low
        <4>1. codes[4 * j + 2] \in Format[q].low .. Format[q].high
          BY <2>4, <3>1
        <4> QED BY <1>6, <2>13, <4>1, CodeFits, Zenon
      <3> HIDE DEF c, got
      <3> QED BY <1>2, <1>3, <2>1, <2>10, <3>2, <3>3
    <2>14. CASE i = 4 * j + 3 /\ i % n = 3
      <3>1. CodeBits(q) * (i % n) = 6 /\ 3 \in 0 .. 3
        BY <2>1, <2>14
      <3>2. got = (v \div 64) % 4
        BY <2>1, <2>9, <3>1, Powers, Zenon
      <3>3. d = codes[i] - Format[q].low
        <4>1. codes[4 * j + 3] \in Format[q].low .. Format[q].high
          BY <2>4, <3>1
        <4> QED BY <1>6, <2>14, <4>1, CodeFits, Zenon
      <3> HIDE DEF d, got
      <3> QED BY <1>2, <1>3, <2>1, <2>10, <3>2, <3>3
    <2> QED BY <2>3, <2>11, <2>12, <2>13, <2>14
  <1> QED BY <1>4, <1>5, <1>6, Widths

----------------------------------------------------------------------------
(* What the converter writes of a block.                                    *)

\* A multiplier of 1 to 8 in its nibble, or of up to 128 in its byte.
Multipliers(q, times) == \A l \in 0 .. Format[q].lanes - 1 : times[l] \in 1 .. Format[q].one

LEMMA TimesOfPacked ==
    ASSUME NEW q \in Quants, NEW times, Multipliers(q, times),
           NEW block, block.times = PackedTimes(q, times), NEW l \in 0 .. Format[q].lanes - 1
    PROVE  TimesAt(q, block, l) = times[l]
  <1>1. CASE Format[q].one # 8
    BY <1>1 DEF TimesAt, PackedTimes
  <1>2. CASE Format[q].one = 8
    <2>1. Format[q].lanes \in {4, 8}
      BY <1>2, FormatIs
    <2>2. PICK j : j = l \div 2
      OBVIOUS
    <2>3. /\ j \in 0 .. (Format[q].lanes \div 2) - 1
          /\ (l = 2 * j /\ l % 2 = 0) \/ (l = 2 * j + 1 /\ l % 2 = 1)
          /\ 2 * j \in 0 .. Format[q].lanes - 1 /\ 2 * j + 1 \in 0 .. Format[q].lanes - 1
      BY <2>1, <2>2
    <2> DEFINE a == times[2 * j]
               b == times[2 * j + 1]
    <2>4. a \in 0 .. 15 /\ b \in 0 .. 15
      BY <1>2, <2>3 DEF Multipliers
    <2>5. PICK v : v = a + 16 * b
      OBVIOUS
    <2>6. block.times[j] = v
      BY <1>2, <2>3, <2>5, Zenon DEF PackedTimes
    <2>7. TimesAt(q, block, l) = IF l % 2 = 1 THEN v \div 16 ELSE v % 16
      BY <1>2, <2>2, <2>6, Zenon DEF TimesAt
    <2>8. v \div 16 = b /\ v % 16 = a
      <3> HIDE DEF a, b
      <3> QED BY <2>4, <2>5, Nibbles
    <2>9. CASE l = 2 * j + 1 /\ l % 2 = 1
      BY <2>7, <2>8, <2>9, Zenon
    <2>10. CASE l = 2 * j /\ l % 2 = 0
      <3>1. l % 2 # 1
        BY <2>10
      <3> QED BY <2>7, <2>8, <2>10, <3>1, Zenon
    <2> QED BY <2>3, <2>9, <2>10
  <1> QED BY <1>1, <1>2

\* A set of finitely many integers, and its extremes.
Few(A) == \E n \in Nat \ {0} : \E f \in [1 .. n -> Int] : A = {f[k] : k \in 1 .. n}

LEMMA Extremes ==
    ASSUME NEW A, Few(A)
    PROVE  Max(A) \in A /\ Min(A) \in A /\ Max(A) \in Int /\ Min(A) \in Int
           /\ \A x \in A : x \in Int /\ x <= Max(A) /\ Min(A) <= x
  <1>0. PICK n \in Nat \ {0} : \E f \in [1 .. n -> Int] : A = {f[k] : k \in 1 .. n}
    BY DEF Few
  <1>1. PICK f \in [1 .. n -> Int] : A = {f[k] : k \in 1 .. n}
    BY <1>0
  <1>2. Max(A) \in A /\ \A k \in 1 .. n : f[k] <= Max(A)
    BY <1>1, LargestIs
  <1>3. Min(A) \in A /\ \A k \in 1 .. n : Min(A) <= f[k]
    BY <1>1, LeastIs
  <1>4. \A x \in A : x \in Int /\ \E k \in 1 .. n : x = f[k]
    BY <1>1
  <1> QED BY <1>2, <1>3, <1>4

IntsOn(g, lo, hi) == lo \in Int /\ hi \in Int /\ lo <= hi /\ \A i \in lo .. hi : g[i] \in Int

LEMMA FewBetween ==
    ASSUME NEW lo, NEW hi, NEW g, IntsOn(g, lo, hi)
    PROVE  Few({g[i] : i \in lo .. hi})
  <1>0. lo \in Int /\ hi \in Int /\ lo <= hi /\ \A i \in lo .. hi : g[i] \in Int
    BY DEF IntsOn
  <1> DEFINE n == hi - lo + 1
             f == [k \in 1 .. n |-> g[lo + k - 1]]
  <1>1. n \in Nat \ {0}
    BY <1>0
  <1>2. \A k \in 1 .. n : lo + k - 1 \in lo .. hi
    BY <1>0
  <1>3. f \in [1 .. n -> Int]
    BY <1>0, <1>2
  <1>4. \A i \in lo .. hi : i - lo + 1 \in 1 .. n /\ lo + (i - lo + 1) - 1 = i
    BY <1>0
  <1>5. \A i \in lo .. hi : \E k \in 1 .. n : g[i] = f[k]
    <2> SUFFICES ASSUME NEW i \in lo .. hi PROVE \E k \in 1 .. n : g[i] = f[k]
      OBVIOUS
    <2>1. i - lo + 1 \in 1 .. n /\ f[i - lo + 1] = g[lo + (i - lo + 1) - 1]
      BY <1>4
    <2>2. f[i - lo + 1] = g[i]
      BY <1>4, <2>1
    <2> QED BY <2>1, <2>2
  <1>6. \A k \in 1 .. n : f[k] = g[lo + k - 1]
    OBVIOUS
  <1> HIDE DEF n, f
  <1>7. {g[i] : i \in lo .. hi} = {f[k] : k \in 1 .. n}
    BY <1>2, <1>5, <1>6
  <1> QED BY <1>1, <1>3, <1>7 DEF Few

LEMMA RoundedInt ==
    ASSUME NEW a \in Int, NEW d \in Nat \ {0}
    PROVE  Rounded(a, d) \in Int
  <1>1. (2 * a + d) \div (2 * d) \in Int
    OBVIOUS
  <1> QED BY <1>1 DEF Rounded

LEMMA ClipIn ==
    ASSUME NEW v \in Int, NEW low \in Int, NEW high \in Int, low <= high
    PROVE  Clip(v, low, high) \in low .. high /\ (v \in low .. high => Clip(v, low, high) = v)
  BY DEF Clip

LEMMA MagnitudeNat ==
    ASSUME NEW v \in Int
    PROVE  Magnitude(v) \in Nat /\ (Magnitude(v) = 0 => v = 0) /\ v <= Magnitude(v) /\ -v <= Magnitude(v)
  BY DEF Magnitude

\* A block of values.
Values(q, v) == DOMAIN v = 0 .. Elems(q) - 1 /\ \A i \in 0 .. Elems(q) - 1 : v[i] \in Int

LEMMA BlockValuesInt ==
    ASSUME NEW q \in Quants, NEW row \in Seq(Int), NEW b \in Nat
    PROVE  Values(q, Block(q, row, b))
  <1>1. Elems(q) \in Nat \ {0}
    BY BlockSizes
  <1>2. PICK from : from = b * Elems(q)
    OBVIOUS
  <1>3. from \in Nat
    BY <1>1, <1>2, Z3
  <1>4. \A i \in 0 .. Elems(q) - 1 :
            Block(q, row, b)[i] = IF from + i + 1 <= Len(row) THEN row[from + i + 1] ELSE 0
    BY <1>2, Zenon DEF Block
  <1>5. \A i \in 0 .. Elems(q) - 1 : Block(q, row, b)[i] \in Int
    BY <1>1, <1>3, <1>4
  <1>6. DOMAIN Block(q, row, b) = 0 .. Elems(q) - 1
    BY Zenon DEF Block
  <1> QED BY <1>5, <1>6 DEF Values

LEMMA QuantizedIs ==
    ASSUME NEW q \in Quants, NEW v, Values(q, v)
    PROVE  /\ Quantize(q, v).base \in Int /\ Quantize(q, v).middle \in Int
           /\ Multipliers(q, Quantize(q, v).times) /\ Codes(q, Quantize(q, v).codes)
  <1> DEFINE f == Format[q]
             all == {v[i] : i \in DOMAIN v}
             middle == IF f.centred THEN Min(all) + Max(all) ELSE 0
             off == [i \in DOMAIN v |-> 2 * v[i] - middle]
             top(l) == Max({Magnitude(off[i]) : i \in l * Lane .. l * Lane + Lane - 1})
             largest == Max({top(l) : l \in 0 .. f.lanes - 1})
             base == IF largest = 0 THEN 2 * f.steps ELSE largest
             times == [l \in 0 .. f.lanes - 1 |-> Clip(Rounded(top(l) * f.one, base), 1, f.one)]
             codes == [i \in DOMAIN v |-> Clip(Rounded(off[i] * Units(q), base * times[i \div Lane]), f.low, f.high)]
  <1>0. Quantize(q, v) = [base |-> base, middle |-> middle, times |-> times, codes |-> codes]
    BY Zenon DEF Quantize
  <1>1. /\ Lane \in Nat \ {0} /\ Elems(q) \in Nat \ {0} /\ Elems(q) = Lane * f.lanes /\ Units(q) \in Nat \ {0}
        /\ f.lanes \in Nat \ {0} /\ f.one \in Nat \ {0} /\ f.steps \in Nat \ {0}
        /\ f.low \in Int /\ f.high \in Int /\ f.low <= f.high
    <2>1. /\ Lane \in Nat \ {0} /\ Elems(q) \in Nat \ {0} /\ Elems(q) = Lane * f.lanes /\ Units(q) \in Nat \ {0}
      BY BlockSizes
    <2> QED BY <2>1, FormatIs
  <1> HIDE DEF f
  <1>2. DOMAIN v = 0 .. Elems(q) - 1 /\ \A i \in 0 .. Elems(q) - 1 : v[i] \in Int
    BY DEF Values
  <1>3. middle \in Int
    <2>1. Few({v[i] : i \in 0 .. Elems(q) - 1})
      <3>1. IntsOn(v, 0, Elems(q) - 1)
        BY <1>1, <1>2 DEF IntsOn
      <3> QED BY <3>1, FewBetween
    <2>2. Min(all) \in Int /\ Max(all) \in Int
      BY <1>2, <2>1, Extremes
    <2> HIDE DEF all
    <2> QED BY <2>2
  <1> HIDE DEF middle
  <1>4. \A i \in 0 .. Elems(q) - 1 : off[i] \in Int
    BY <1>2, <1>3
  <1>5. ASSUME NEW l \in 0 .. f.lanes - 1 PROVE top(l) \in Nat
    <2> DEFINE g == [i \in 0 .. Elems(q) - 1 |-> Magnitude(off[i])]
               lo == l * Lane
               hi == l * Lane + Lane - 1
    <2>1. lo \in Nat /\ hi \in Nat /\ lo <= hi /\ hi < Elems(q)
      <3>1. l \in Nat /\ l + 1 <= f.lanes
        BY <1>1
      <3>2. lo \in Nat /\ (l + 1) * Lane = lo + Lane
            /\ (l + 1) * Lane <= f.lanes * Lane /\ f.lanes * Lane = Lane * f.lanes
        BY <1>1, <3>1, Z3
      <3> HIDE DEF lo
      <3>3. hi = lo + Lane - 1
        BY DEF lo
      <3> QED BY <1>1, <3>2, <3>3
    <2> HIDE DEF lo, hi
    <2>2. \A i \in lo .. hi : i \in 0 .. Elems(q) - 1
      BY <1>1, <2>1
    <2>3. \A i \in 0 .. Elems(q) - 1 : g[i] = Magnitude(off[i]) /\ Magnitude(off[i]) \in Nat
      <3> HIDE DEF off
      <3> QED BY <1>4, MagnitudeNat
    <2> HIDE DEF g, off
    <2>4. Few({g[i] : i \in lo .. hi})
      <3>1. IntsOn(g, lo, hi)
        BY <2>1, <2>2, <2>3 DEF IntsOn
      <3> QED BY <3>1, FewBetween
    <2>5. {g[i] : i \in lo .. hi} = {Magnitude(off[i]) : i \in lo .. hi}
      BY <2>2, <2>3
    <2>6. \A x \in {Magnitude(off[i]) : i \in lo .. hi} : x \in Nat
      BY <2>2, <2>3
    <2>7. top(l) = Max({Magnitude(off[i]) : i \in lo .. hi})
      BY DEF lo, hi
    <2> HIDE DEF top
    <2> QED BY <2>4, <2>5, <2>6, <2>7, Extremes
  <1> HIDE DEF off, top
  <1>6. largest \in Nat
    <2> DEFINE g == [l \in 0 .. f.lanes - 1 |-> top(l)]
    <2>1. \A l \in 0 .. f.lanes - 1 : g[l] = top(l) /\ top(l) \in Nat
      BY <1>5
    <2> HIDE DEF g
    <2>2. Few({g[l] : l \in 0 .. f.lanes - 1})
      <3>1. IntsOn(g, 0, f.lanes - 1)
        BY <1>1, <2>1 DEF IntsOn
      <3> QED BY <3>1, FewBetween
    <2>3. {g[l] : l \in 0 .. f.lanes - 1} = {top(l) : l \in 0 .. f.lanes - 1}
      BY <2>1
    <2>4. \A x \in {top(l) : l \in 0 .. f.lanes - 1} : x \in Nat
      BY <2>1
    <2> QED BY <2>2, <2>3, <2>4, Extremes
  <1> HIDE DEF largest
  <1>7. base \in Nat \ {0}
    BY <1>1, <1>6
  <1> HIDE DEF base
  <1>8. \A l \in 0 .. f.lanes - 1 : times[l] \in 1 .. f.one
    <2> SUFFICES ASSUME NEW l \in 0 .. f.lanes - 1 PROVE times[l] \in 1 .. f.one
      OBVIOUS
    <2>1. top(l) * f.one \in Int
      BY <1>1, <1>5, Z3
    <2>2. Rounded(top(l) * f.one, base) \in Int
      BY <1>7, <2>1, RoundedInt
    <2>3. Clip(Rounded(top(l) * f.one, base), 1, f.one) \in 1 .. f.one
      <3>1. PICK r \in Int : r = Rounded(top(l) * f.one, base)
        BY <2>2
      <3>2. 1 \in Int /\ f.one \in Int /\ 1 <= f.one
        BY <1>1
      <3>3. Clip(r, 1, f.one) \in 1 .. f.one
        BY <3>2, ClipIn
      <3> QED BY <3>1, <3>3
    <2> QED BY <2>3
  <1> HIDE DEF times
  <1>9. \A i \in 0 .. Elems(q) - 1 : codes[i] \in f.low .. f.high
    <2> SUFFICES ASSUME NEW i \in 0 .. Elems(q) - 1 PROVE codes[i] \in f.low .. f.high
      OBVIOUS
    <2>1. i \div Lane \in 0 .. f.lanes - 1
      BY <1>1, Z3
    <2>2. times[i \div Lane] \in Nat \ {0}
      BY <1>1, <1>8, <2>1
    <2>3. base * times[i \div Lane] \in Nat \ {0}
      BY <1>7, <2>2, Z3
    <2>4. off[i] * Units(q) \in Int
      BY <1>1, <1>4, Z3
    <2>5. Rounded(off[i] * Units(q), base * times[i \div Lane]) \in Int
      BY <2>3, <2>4, RoundedInt
    <2>6. Clip(Rounded(off[i] * Units(q), base * times[i \div Lane]), f.low, f.high) \in f.low .. f.high
      BY <1>1, <2>5, ClipIn
    <2> QED BY <1>2, <2>6
  <1> HIDE DEF codes
  <1> QED BY <1>0, <1>3, <1>7, <1>8, <1>9 DEF Multipliers, Codes, f

----------------------------------------------------------------------------
(* A stored row reads as the weights that were chosen.                      *)

Chose(q, row, b) == Quantize(q, Block(q, row, b))

\* A block of the file, and the block the converter chose.
Reads(q, block, row, b) ==
    /\ block.base = Chose(q, row, b).base /\ block.middle = Chose(q, row, b).middle
    /\ \A i \in 0 .. Elems(q) - 1 : CodeAt(q, block, i) = Chose(q, row, b).codes[i]
    /\ \A l \in 0 .. Format[q].lanes - 1 : TimesAt(q, block, l) = Chose(q, row, b).times[l]

\* What a kernel may rely on of a block.
Sized(q, block) ==
    /\ block.base \in Int /\ block.middle \in Int
    /\ \A i \in 0 .. Elems(q) - 1 : CodeAt(q, block, i) \in Format[q].low .. Format[q].high
    /\ \A l \in 0 .. Format[q].lanes - 1 : TimesAt(q, block, l) \in 1 .. Format[q].one

LEMMA StoredReads ==
    ASSUME NEW q \in Quants, NEW row \in Seq(Int), NEW b \in 0 .. BlocksOf(q, Len(row)) - 1
    PROVE  Reads(q, QuantizeRow(q, row)[b], row, b) /\ Sized(q, QuantizeRow(q, row)[b])
  <1> DEFINE c == Chose(q, row, b)
             block == QuantizeRow(q, row)[b]
  <1>1. block = [base |-> c.base, middle |-> c.middle, times |-> PackedTimes(q, c.times),
                 codes |-> Packed(q, c.codes)]
    BY Zenon DEF QuantizeRow, Chose
  <1>2. b \in Nat
    OBVIOUS
  <1>3. /\ c.base \in Int /\ c.middle \in Int /\ Multipliers(q, c.times) /\ Codes(q, c.codes)
    BY <1>2, BlockValuesInt, QuantizedIs, Zenon DEF Chose
  <1> HIDE DEF c, block
  <1>4. /\ block.base = c.base /\ block.middle = c.middle
        /\ block.times = PackedTimes(q, c.times) /\ block.codes = Packed(q, c.codes)
    BY <1>1
  <1>5. \A i \in 0 .. Elems(q) - 1 : CodeAt(q, block, i) = c.codes[i]
    BY <1>3, <1>4, CodeOfPacked
  <1>6. \A l \in 0 .. Format[q].lanes - 1 : TimesAt(q, block, l) = c.times[l]
    BY <1>3, <1>4, TimesOfPacked
  <1>7. Reads(q, block, row, b)
    BY <1>4, <1>5, <1>6, Zenon DEF Reads, c
  <1>8. Sized(q, block)
    BY <1>3, <1>4, <1>5, <1>6, Zenon DEF Sized, Multipliers, Codes
  <1> QED BY <1>7, <1>8, Zenon DEF block

LEMMA InBlocks ==
    ASSUME NEW q \in Quants, NEW width \in Nat \ {0}
    PROVE  /\ BlocksOf(q, width) \in Nat \ {0} /\ width <= BlocksOf(q, width) * Elems(q)
           /\ \A b \in 0 .. BlocksOf(q, width) - 1 : b * Elems(q) \in Nat /\ b * Elems(q) < width
           /\ \A k \in 0 .. width - 1 :
                  k \div Elems(q) \in 0 .. BlocksOf(q, width) - 1 /\ k % Elems(q) \in 0 .. Elems(q) - 1
  <1> DEFINE n == BlocksOf(q, width)
  <1>1. PICK e \in Nat \ {0} : e = Elems(q)
    BY BlockSizes
  <1>2. n = (width + e - 1) \div e
    BY <1>1 DEF BlocksOf
  <1>3. n \in Nat \ {0} /\ width <= n * e /\ n * e < width + e
    BY <1>2, RoundedUp
  <1> HIDE DEF n
  <1>4. ASSUME NEW b \in 0 .. n - 1 PROVE b * e \in Nat /\ b * e < width
    <2>1. b \in Nat /\ b + 1 <= n
      BY <1>3
    <2>2. b * e \in Nat /\ (b + 1) * e = b * e + e /\ (b + 1) * e <= n * e
      BY <1>3, <2>1, Z3
    <2> DEFINE x == b * e
               y == n * e
               z == (b + 1) * e
    <2> HIDE DEF x, y, z
    <2>3. x \in Nat /\ z = x + e /\ z <= y /\ y < width + e
      BY <1>3, <2>2 DEF x, y, z
    <2>4. y \in Int
      BY <1>3 DEF y
    <2>5. x < width
      BY <2>3, <2>4
    <2> QED BY <2>3, <2>5 DEF x
  <1>5. ASSUME NEW k \in 0 .. width - 1 PROVE k \div e \in 0 .. n - 1 /\ k % e \in 0 .. e - 1
    <2>1. k % e \in 0 .. e - 1 /\ k \div e \in Nat
      OBVIOUS
    <2>2. (k \div e) * e <= k
      BY Z3
    <2>3. ~(k \div e >= n)
      <3> SUFFICES ASSUME k \div e >= n PROVE FALSE
        OBVIOUS
      <3>1. (k \div e) * e >= n * e
        BY <1>3, <2>1, Z3
      <3> QED BY <1>3, <2>2, <3>1
    <2> QED BY <1>3, <2>1, <2>3
  <1> QED BY <1>1, <1>3, <1>4, <1>5 DEF n

LEMMA Remainders ==
    ASSUME NEW d \in Nat \ {0}, NEW n \in Nat \ {0}, NEW k \in Nat
    PROVE  (k % (d * n)) % d = k % d
  <1>1. PICK m \in Nat \ {0} : m = d * n
    BY Z3
  <1>2. PICK a \in Nat, r \in Nat : r = k % m /\ k = m * a + r
    <2>1. k \div m \in Nat /\ k % m \in 0 .. m - 1 /\ k = m * (k \div m) + (k % m)
      BY DivMod
    <2> QED BY <2>1
  <1>3. PICK b \in Nat, t \in 0 .. d - 1 : t = r % d /\ r = d * b + t
    <2>1. r \div d \in Nat /\ r % d \in 0 .. d - 1 /\ r = d * (r \div d) + (r % d)
      BY DivMod
    <2> QED BY <2>1
  <1>4. PICK c \in Nat, u \in 0 .. d - 1 : u = k % d /\ k = d * c + u
    <2>1. k \div d \in Nat /\ k % d \in 0 .. d - 1 /\ k = d * (k \div d) + (k % d)
      BY DivMod
    <2> QED BY <2>1
  <1>5. PICK e \in Int : e = n * a + b
    BY Z3
  <1>6. d * c + u = d * e + t
    <2>1. (d * n) * a + d * b = d * (n * a + b)
      BY Z3
    <2>2. m * a \in Int /\ d * b \in Int /\ d * c \in Int
      BY Z3
    <2>3. k = m * a + d * b + t
      BY <1>2, <1>3, <2>2
    <2> QED BY <1>1, <1>4, <1>5, <2>1, <2>3
  <1>7. c = e /\ u = t
    <2>1. c \in Int /\ e \in Int /\ u \in 0 .. d - 1 /\ t \in 0 .. d - 1
      OBVIOUS
    <2> QED BY <1>6, <2>1, OneQuotient
  <1> QED BY <1>1, <1>2, <1>3, <1>4, <1>7

LEMMA InLanes ==
    ASSUME NEW q \in Quants, NEW i \in 0 .. Elems(q) - 1
    PROVE  /\ i \div Lane \in 0 .. Format[q].lanes - 1 /\ i % Lane \in 0 .. Lane - 1
           /\ (i \div Lane) * Lane + (i % Lane) = i
  <1>1. /\ Lane \in Nat \ {0} /\ Elems(q) \in Nat \ {0} /\ Elems(q) = Lane * Format[q].lanes
        /\ Format[q].lanes \in Nat \ {0}
    BY BlockSizes, FormatIs
  <1>2. i \div Lane \in Nat /\ i % Lane \in 0 .. Lane - 1 /\ (i \div Lane) * Lane + (i % Lane) = i
    BY <1>1, Z3
  <1>3. i \div Lane < Format[q].lanes
    BY <1>1, Z3
  <1> QED BY <1>1, <1>2, <1>3

\* A weight of a block.
WeightAt(q, block, i) ==
    CodeAt(q, block, i) * block.base * TimesAt(q, block, i \div Lane) + block.middle * Units(q)

LEMMA WeightIs ==
    ASSUME NEW q \in Quants, NEW row \in Seq(Int), NEW k \in 0 .. Len(row) - 1,
           NEW block, block = QuantizeRow(q, row)[k \div Elems(q)]
    PROVE  WeightAt(q, block, k % Elems(q)) = Chosen(q, row, k) /\ Chosen(q, row, k) \in Int
  <1> DEFINE e == Elems(q)
             c == Chose(q, row, k \div e)
             i == k % e
  <1>1. Len(row) \in Nat \ {0}
    OBVIOUS
  <1>2. k \div e \in 0 .. BlocksOf(q, Len(row)) - 1 /\ i \in 0 .. e - 1
    BY <1>1, InBlocks
  <1>3. Reads(q, block, row, k \div e) /\ Sized(q, block)
    BY <1>2, StoredReads
  <1>4. i \div Lane \in 0 .. Format[q].lanes - 1
    BY <1>2, InLanes
  <1>5. Chosen(q, row, k) = c.codes[i] * c.base * c.times[i \div Lane] + c.middle * Units(q)
    BY Zenon DEF Chosen, Chose
  <1>6. /\ block.base = c.base /\ block.middle = c.middle
        /\ CodeAt(q, block, i) = c.codes[i] /\ TimesAt(q, block, i \div Lane) = c.times[i \div Lane]
    BY <1>2, <1>3, <1>4, Zenon DEF Reads
  <1>7. WeightAt(q, block, i) = Chosen(q, row, k)
    BY <1>5, <1>6, Zenon DEF WeightAt
  <1>8. /\ c.base \in Int /\ c.middle \in Int /\ c.codes[i] \in Format[q].low .. Format[q].high
        /\ c.times[i \div Lane] \in 1 .. Format[q].one
    BY <1>2, <1>3, <1>4, <1>6, Zenon DEF Sized
  <1>9. Units(q) \in Int /\ Format[q].low \in Int /\ Format[q].high \in Int /\ Format[q].one \in Int
    <2>1. Format[q].one \in {1, 8, 128} /\ Format[q].low \in Int /\ Format[q].high \in Int
      BY FormatIs
    <2> QED BY <2>1, BlockSizes
  <1> DEFINE x == c.codes[i]
             y == c.base
             z == c.times[i \div Lane]
             m == c.middle
             u == Units(q)
  <1> HIDE DEF x, y, z, m, u
  <1>10. x \in Int /\ y \in Int /\ z \in Int /\ m \in Int /\ u \in Int
    BY <1>8, <1>9 DEF x, y, z, m, u
  <1>11. x * y * z + m * u \in Int
    BY <1>10, Z3
  <1>12. Chosen(q, row, k) \in Int
    BY <1>5, <1>11, Zenon DEF x, y, z, m, u
  <1> QED BY <1>7, <1>12

LEMMA PackedReads ==
    ASSUME NEW q \in Quants, NEW row \in Seq(Int), NEW k \in 0 .. Len(row) - 1
    PROVE  PackedValue(q, QuantizeRow(q, row), k) = Chosen(q, row, k)
  <1>1. PackedValue(q, QuantizeRow(q, row), k) = WeightAt(q, QuantizeRow(q, row)[k \div Elems(q)], k % Elems(q))
    BY Zenon DEF PackedValue, WeightAt
  <1> QED BY <1>1, WeightIs

LEMMA RowReads ==
    ASSUME NEW q \in Quants, NEW row \in Seq(Int)
    PROVE  RowValues(q, QuantizeRow(q, row), Len(row)) = [k \in 0 .. Len(row) - 1 |-> Chosen(q, row, k)]
  <1> DEFINE blocks == QuantizeRow(q, row)
             value(b, l, i) == CodeAt(q, blocks[b], l * Lane + i) * blocks[b].base * TimesAt(q, blocks[b], l)
                               + blocks[b].middle * Units(q)
             got(k) == value(k \div Elems(q), (k % Elems(q)) \div Lane, k % Lane)
  <1>1. RowValues(q, blocks, Len(row)) = [k \in 0 .. Len(row) - 1 |-> got(k)]
    BY Zenon DEF RowValues
  <1>2. ASSUME NEW k \in 0 .. Len(row) - 1 PROVE got(k) = Chosen(q, row, k)
    <2> DEFINE b == k \div Elems(q)
               i == k % Elems(q)
    <2>1. i \in 0 .. Elems(q) - 1
      <3>1. Len(row) \in Nat \ {0}
        OBVIOUS
      <3> QED BY <3>1, InBlocks
    <2>2. (i \div Lane) * Lane + (i % Lane) = i
      BY <2>1, InLanes
    <2>3. i % Lane = k % Lane
      <3>1. PICK e \in Nat \ {0} : e = Elems(q)
        BY BlockSizes
      <3>2. PICK n \in Nat \ {0} : n = Format[q].lanes
        <4>1. Format[q].lanes \in {1, 2, 4, 8}
          BY FormatIs
        <4> QED BY <4>1
      <3>3. Lane \in Nat \ {0} /\ k \in Nat /\ e = Lane * n
        BY <3>1, <3>2, BlockSizes
      <3>4. (k % (Lane * n)) % Lane = k % Lane
        BY <3>3, Remainders
      <3> QED BY <3>1, <3>3, <3>4
    <2>4. got(k) = CodeAt(q, blocks[b], (i \div Lane) * Lane + (i % Lane)) * blocks[b].base
                   * TimesAt(q, blocks[b], i \div Lane) + blocks[b].middle * Units(q)
      BY <2>3, Zenon
    <2>5. got(k) = WeightAt(q, blocks[b], i)
      BY <2>2, <2>4, Zenon DEF WeightAt
    <2> HIDE DEF got
    <2> QED BY <2>5, WeightIs
  <1> HIDE DEF got
  <1> QED BY <1>1, <1>2

----------------------------------------------------------------------------
(* The kernels.                                                             *)

\* Terms whose pairs fit in 16 bits are added up without loss.
Small(t) == \A i \in 0 .. Lane - 1 : t[i] \in Int /\ -16384 <= t[i] /\ t[i] <= 16383

LEMMA PairsIs ==
    ASSUME NEW t, Small(t)
    PROVE  Pairs(t) = Total(t, Lane)
  <1> DEFINE half == Lane \div 2
             d == [j \in 0 .. half - 1 |-> Saturated(t[2 * j] + t[2 * j + 1])]
  <1>1. half \in Nat /\ 2 * half = Lane /\ Lane \in Nat
    BY BlockSizes, WeightsAssumption
  <1>2. Pairs(t) = Total(d, half)
    BY Zenon DEF Pairs
  <1>3. \A j \in 0 .. half - 1 : d[j] = Saturated(t[2 * j] + t[2 * j + 1])
    OBVIOUS
  <1> HIDE DEF half, d
  <1>4. \A i \in 0 .. 2 * half - 1 : t[i] \in Int /\ -16384 <= t[i] /\ t[i] <= 16383
    <2>1. \A i \in 0 .. Lane - 1 : t[i] \in Int /\ -16384 <= t[i] /\ t[i] <= 16383
      BY <1>1 DEF Small
    <2> QED BY <1>1, <2>1
  <1>5. ASSUME NEW j \in 0 .. half - 1 PROVE d[j] = t[2 * j] + t[2 * j + 1]
    <2>1. 2 * j \in 0 .. 2 * half - 1 /\ 2 * j + 1 \in 0 .. 2 * half - 1
      BY <1>1
    <2>2. PICK x : x = t[2 * j]
      OBVIOUS
    <2>3. PICK y : y = t[2 * j + 1]
      OBVIOUS
    <2>4. x \in Int /\ y \in Int /\ -32768 <= x + y /\ x + y <= 32767
      BY <1>4, <2>1, <2>2, <2>3
    <2>5. Saturated(x + y) = x + y
      BY <2>4 DEF Saturated, Clip
    <2>6. d[j] = Saturated(x + y)
      BY <1>3, <2>2, <2>3
    <2> QED BY <2>2, <2>3, <2>5, <2>6
  <1>6. Ints(t, 2 * half)
    BY <1>1, <1>4 DEF Ints
  <1>7. Total(d, half) = Total(t, 2 * half)
    BY <1>1, <1>5, <1>6, TotalPairs
  <1> QED BY <1>1, <1>2, <1>7

LEMMA TotalZero ==
    ASSUME NEW t, NEW n \in Nat, \A k \in 0 .. n - 1 : t[k] = 0
    PROVE  Total(t, n) = 0
  <1>1. Ints(t, n)
    BY DEF Ints
  <1>2. Combines(t, 0, t, 0, t, n)
    BY <1>1 DEF Combines
  <1>3. Total(t, n) = 0 * Total(t, n) + 0 * Total(t, n)
    BY <1>2, TotalCombines
  <1>4. Total(t, n) \in Int
    <2>1. n \in 0 .. n
      OBVIOUS
    <2> QED BY <1>1, <2>1, TotalInt
  <1> QED BY <1>3, <1>4

\* The sum of the codes' products without their offset.
LEMMA TotalOffset ==
    ASSUME NEW unsigned, NEW signed, NEW a, NEW o \in Int, NEW n, Ints(signed, n), Ints(a, n),
           \A i \in 0 .. n - 1 : unsigned[i] = signed[i] + o * a[i]
    PROVE  Total(unsigned, n) - o * Total(a, n) = Total(signed, n)
  <1>1. Combines(unsigned, 1, signed, o, a, n)
    <2>1. \A i \in 0 .. n - 1 : signed[i] \in Int /\ unsigned[i] = 1 * signed[i] + o * a[i]
      BY DEF Ints
    <2> QED BY <2>1 DEF Combines
  <1>2. Total(unsigned, n) = 1 * Total(signed, n) + o * Total(a, n)
    BY <1>1, TotalCombines
  <1>3. Total(signed, n) \in Int /\ Total(a, n) \in Int
    <2>1. n \in 0 .. n
      BY DEF Ints
    <2> QED BY <2>1, TotalInt
  <1>4. o * Total(a, n) \in Int
    BY <1>3, Z3
  <1> QED BY <1>2, <1>3, <1>4

\* Activations of a lane.
Byte(v) == v \in Int /\ -127 <= v /\ v <= 127
Bytewise(a) == \A i \in 0 .. Lane - 1 : Byte(a[i])

H == "hyper_vsq2"

LEMMA HyperIs ==
    /\ H \in Quants /\ Format[H].lanes = 8 /\ Format[H].low = -1 /\ Format[H].high = 2
    /\ Format[H].one = 8 /\ Elems(H) = Lane * 8 /\ Lane \in Nat \ {0} /\ Units(H) \in Int
  <1>1. H \in Quants /\ Format[H].lanes = 8 /\ Format[H].low = -1 /\ Format[H].high = 2 /\ Format[H].one = 8
    BY DEF H, Quants, Format
  <1> QED BY <1>1, BlockSizes

LEMMA LanePlace ==
    ASSUME NEW l \in Nat, NEW i \in 0 .. Lane - 1
    PROVE  (l * Lane + i) \div Lane = l
  <1>1. Lane \in Nat \ {0}
    BY BlockSizes, WeightsAssumption
  <1> DEFINE x == l * Lane + i
  <1>2. x \in Int /\ Lane * l <= x /\ x < Lane * (l + 1)
    BY <1>1, Z3
  <1> HIDE DEF x
  <1> QED BY <1>1, <1>2, DivisionIs DEF x

\* A lane's products with its weights.
LaneOf(block, l, a, cap, t) ==
    /\ Sized(H, block) /\ l \in 0 .. 7 /\ Bytewise(a) /\ cap \in 1 .. Lane
    /\ \A i \in 0 .. cap - 1 : t[i] = a[i] * WeightAt(H, block, l * Lane + i)

LEMMA LaneDotIs ==
    ASSUME NEW kern, NEW block, NEW l, NEW a, NEW cap, NEW t, LaneOf(block, l, a, cap, t)
    PROVE  LaneDot(kern, block, l, a, cap, Total(a, cap)) = Total(t, cap)
  <1> DEFINE code(i) == CodeAt(H, block, l * Lane + i)
             unsigned == [i \in 0 .. cap - 1 |-> (code(i) + 1) * a[i]]
             signed == [i \in 0 .. cap - 1 |-> code(i) * a[i]]
             dot == IF cap < Lane \/ kern \in {"scalar", "cuda"} THEN Total(signed, cap)
                    ELSE IF kern = "avx2" THEN Pairs(unsigned) - Pairs(a)
                    ELSE Total(unsigned, cap) - Total(a, cap)
             times == TimesAt(H, block, l)
  <1>0. /\ Sized(H, block) /\ l \in 0 .. 7 /\ Bytewise(a) /\ cap \in 1 .. Lane
        /\ \A i \in 0 .. cap - 1 : t[i] = a[i] * WeightAt(H, block, l * Lane + i)
    BY DEF LaneOf
  <1>1. LaneDot(kern, block, l, a, cap, Total(a, cap))
        = dot * block.base * times + Total(a, cap) * block.middle * Units(H)
    BY Zenon DEF LaneDot, H
  <1>2. /\ Lane \in Nat \ {0} /\ Elems(H) = Lane * 8 /\ Format[H].low = -1 /\ Format[H].high = 2
        /\ Units(H) \in Int /\ cap \in Nat /\ cap <= Lane
    BY <1>0, HyperIs
  <1>3. \A i \in 0 .. cap - 1 :
           l * Lane + i \in 0 .. Elems(H) - 1 /\ (l * Lane + i) \div Lane = l /\ i \in 0 .. Lane - 1
    <2> SUFFICES ASSUME NEW i \in 0 .. cap - 1
                 PROVE  l * Lane + i \in 0 .. Elems(H) - 1 /\ (l * Lane + i) \div Lane = l /\ i \in 0 .. Lane - 1
      OBVIOUS
    <2>1. i \in 0 .. Lane - 1 /\ l \in Nat
      BY <1>0, <1>2
    <2>2. l * Lane + i \in 0 .. Lane * 8 - 1
      BY <1>0, <1>2, <2>1
    <2> QED BY <1>2, <2>1, <2>2, LanePlace
  <1>4. \A i \in 0 .. cap - 1 : code(i) \in -1 .. 2 /\ Byte(a[i])
    BY <1>0, <1>2, <1>3 DEF Sized, Bytewise
  <1>5. block.base \in Int /\ block.middle \in Int /\ times \in Int
    <2>1. block.base \in Int /\ block.middle \in Int /\ times \in 1 .. 8
      BY <1>0, HyperIs DEF Sized
    <2> QED BY <2>1
  <1>6. \A i \in 0 .. cap - 1 : signed[i] = code(i) * a[i] /\ unsigned[i] = (code(i) + 1) * a[i]
    OBVIOUS
  <1> HIDE DEF unsigned, signed, code
  <1>7. \A i \in 0 .. cap - 1 : /\ unsigned[i] = signed[i] + 1 * a[i] /\ unsigned[i] \in Int
                                /\ -381 <= unsigned[i] /\ unsigned[i] <= 381
                                  /\ signed[i] \in Int /\ a[i] \in Int
    <2> SUFFICES ASSUME NEW i \in 0 .. cap - 1
                 PROVE  /\ unsigned[i] = signed[i] + 1 * a[i] /\ unsigned[i] \in Int
                        /\ -381 <= unsigned[i] /\ unsigned[i] <= 381
                        /\ signed[i] \in Int /\ a[i] \in Int
      OBVIOUS
    <2>1. PICK c \in -1 .. 2 : c = code(i)
      BY <1>4
    <2>2. PICK x \in Int : x = a[i] /\ -127 <= x /\ x <= 127
      BY <1>4 DEF Byte
    <2>3. /\ (c + 1) * x = c * x + 1 * x /\ (c + 1) * x \in Int
          /\ -381 <= (c + 1) * x /\ (c + 1) * x <= 381 /\ c * x \in Int
      BY <2>2
    <2> QED BY <1>6, <2>1, <2>2, <2>3
  <1>8. Ints(a, cap) /\ Ints(signed, cap)
    BY <1>2, <1>7 DEF Ints
  <1>9. Total(unsigned, cap) - 1 * Total(a, cap) = Total(signed, cap)
    BY <1>7, <1>8, TotalOffset
  <1>10. Total(a, cap) \in Int /\ Total(signed, cap) \in Int
    <2>1. cap \in 0 .. cap
      BY <1>2
    <2> QED BY <1>8, <2>1, TotalInt
  <1>11. Total(unsigned, cap) - Total(a, cap) = Total(signed, cap)
    BY <1>9, <1>10
  <1>12. dot = Total(signed, cap)
    <2>1. CASE cap < Lane \/ kern \in {"scalar", "cuda"}
      BY <2>1
    <2>2. CASE ~ (cap < Lane \/ kern \in {"scalar", "cuda"}) /\ kern = "avx2"
      <3>1. cap = Lane
        BY <1>2, <2>2
      <3>2. Small(unsigned) /\ Small(a)
        <4>1. \A i \in 0 .. Lane - 1 : unsigned[i] \in Int /\ -381 <= unsigned[i] /\ unsigned[i] <= 381
                                       /\ a[i] \in Int /\ -127 <= a[i] /\ a[i] <= 127
          BY <1>4, <1>7, <3>1 DEF Byte
        <4> QED BY <1>2, <4>1 DEF Small
      <3>3. Pairs(unsigned) = Total(unsigned, cap) /\ Pairs(a) = Total(a, cap)
        BY <3>1, <3>2, PairsIs
      <3> QED BY <1>11, <2>2, <3>3
    <2>3. CASE ~ (cap < Lane \/ kern \in {"scalar", "cuda"}) /\ kern # "avx2"
      BY <1>11, <2>3
    <2> QED BY <2>1, <2>2, <2>3
  <1> HIDE DEF dot, times
  <1> DEFINE p == block.base * times
             m == block.middle * Units(H)
  <1>13. p \in Int /\ m \in Int
    BY <1>2, <1>5
  <1>14. \A i \in 0 .. cap - 1 : t[i] = p * signed[i] + m * a[i]
    <2> SUFFICES ASSUME NEW i \in 0 .. cap - 1 PROVE t[i] = p * signed[i] + m * a[i]
      OBVIOUS
    <2>1. WeightAt(H, block, l * Lane + i) = code(i) * block.base * times + block.middle * Units(H)
      BY <1>3, Zenon DEF WeightAt, code, times
    <2> DEFINE c == code(i)
               x == a[i]
               y == block.base
               z == block.middle
               u == Units(H)
    <2> HIDE DEF c, x, y, z, u
    <2>2. c \in Int /\ x \in Int /\ y \in Int /\ z \in Int /\ u \in Int /\ times \in Int
      BY <1>2, <1>4, <1>5 DEF c, x, y, z, u, Byte
    <2>3. x * (c * y * times + z * u) = (y * times) * (c * x) + (z * u) * x
      BY <2>2, Z3
    <2>4. t[i] = x * (c * y * times + z * u)
      BY <1>0, <2>1, Zenon DEF c, x, y, z, u
    <2>5. signed[i] = c * x
      BY <1>6, Zenon DEF c, x
    <2> QED BY <2>3, <2>4, <2>5, Zenon DEF p, m, x, y, z, u
  <1>15. Combines(t, p, signed, m, a, cap)
    <2> HIDE DEF p, m
    <2> QED BY <1>8, <1>13, <1>14, Zenon DEF Combines
  <1>16. Total(t, cap) = p * Total(signed, cap) + m * Total(a, cap)
    <2> HIDE DEF p, m
    <2> QED BY <1>15, TotalCombines
  <1> DEFINE s == Total(signed, cap)
             g == Total(a, cap)
             y == block.base
             z == block.middle
             u == Units(H)
  <1> HIDE DEF s, g, y, z, u
  <1>17. s \in Int /\ g \in Int /\ y \in Int /\ z \in Int /\ u \in Int /\ times \in Int
    BY <1>2, <1>5, <1>10 DEF s, g, y, z, u
  <1>18. s * y * times + g * z * u = (y * times) * s + (z * u) * g
    BY <1>17, Z3
  <1> QED BY <1>1, <1>12, <1>16, <1>18, Zenon DEF p, m, s, g, y, z, u

\* The activations of a row in the scratch buffer, and the sums kept of them.
Loaded(s, width) ==
    /\ width \in 1 .. PaddedK
    /\ \A k \in 0 .. PaddedK - 1 : Byte(s.q8[k]) /\ (k >= width => s.q8[k] = 0)
    /\ s.summed => \A b \in 0 .. SumBlocks - 1 : s.sums[b] = Total(Span(s.q8, b * Lane, Lane), Lane)

\* The products of a row's weights with the activations.
Products(q, row, x) == [k \in 0 .. Len(row) - 1 |-> x[k] * Chosen(q, row, k)]

LEMMA MinTwo ==
    ASSUME NEW x \in Int, NEW y \in Int
    PROVE  Min({x, y}) = IF y < x THEN y ELSE x
  <1> DEFINE m == IF y < x THEN y ELSE x
  <1>1. m \in {x, y} /\ \A z \in {x, y} : m <= z
    OBVIOUS
  <1>2. \A z \in {x, y} : (\A w \in {x, y} : z <= w) => z = m
    OBVIOUS
  <1> HIDE DEF m
  <1>3. Min({x, y}) \in {x, y} /\ \A w \in {x, y} : Min({x, y}) <= w
    BY <1>1, Zenon DEF Min
  <1> QED BY <1>2, <1>3 DEF m

\* The whole lanes of the buffer.
LEMMA PaddedLanes ==
    /\ PaddedK \in Nat /\ Lane \in Nat \ {0} /\ SumBlocks \in Nat /\ PaddedK = Lane * SumBlocks
    /\ \A c \in Nat : c * Lane < PaddedK => c \in 0 .. SumBlocks - 1 /\ c * Lane + Lane <= PaddedK
  <1>1. PaddedK \in Nat /\ PaddedK % Elems(H) = 0 /\ Elems(H) = Lane * 8 /\ Lane \in Nat \ {0}
    BY ProjectionsAssumption, HyperIs DEF H
  <1>2. PaddedK % Lane = 0
    <2>1. 8 \in Nat \ {0}
      OBVIOUS
    <2>2. (PaddedK % (Lane * 8)) % Lane = PaddedK % Lane
      BY <1>1, <2>1, Remainders
    <2>3. 0 % Lane = 0
      BY <1>1
    <2> QED BY <1>1, <2>2, <2>3
  <1>3. SumBlocks \in Nat /\ PaddedK = Lane * SumBlocks
    <2>1. PaddedK \div Lane \in Nat /\ PaddedK = Lane * (PaddedK \div Lane) + (PaddedK % Lane)
      BY <1>1, DivMod
    <2> DEFINE n == PaddedK \div Lane
    <2> HIDE DEF n
    <2>2. n \in Nat /\ PaddedK = Lane * n + 0
      BY <1>2, <2>1 DEF n
    <2>3. Lane * n \in Int
      BY <1>1, <2>2
    <2> QED BY <2>2, <2>3 DEF n, SumBlocks
  <1>4. ASSUME NEW c \in Nat, c * Lane < PaddedK
        PROVE  c \in 0 .. SumBlocks - 1 /\ c * Lane + Lane <= PaddedK
    <2>1. c < SumBlocks
      <3>1. SUFFICES ASSUME SumBlocks <= c PROVE FALSE
        BY <1>3
      <3>2. SumBlocks * Lane <= c * Lane /\ SumBlocks * Lane = Lane * SumBlocks
        BY <1>1, <1>3, <3>1, Z3
      <3>3. c * Lane \in Int
        BY <1>1
      <3> QED BY <1>1, <1>3, <1>4, <3>2, <3>3
    <2>2. /\ (c + 1) * Lane <= SumBlocks * Lane /\ SumBlocks * Lane = Lane * SumBlocks
          /\ (c + 1) * Lane = c * Lane + Lane
      <3>1. c + 1 <= SumBlocks
        BY <1>3, <2>1
      <3> QED BY <1>1, <1>3, <3>1, Z3
    <2> QED BY <1>1, <1>3, <2>1, <2>2
  <1> QED BY <1>1, <1>3, <1>4

\* The lanes of a block that reach into the row.
LEMMA LanesReach ==
    ASSUME NEW width \in Nat \ {0}, NEW b \in 0 .. BlocksOf(H, width) - 1,
           NEW part, part = IF width - b * Elems(H) < Elems(H) THEN width - b * Elems(H) ELSE Elems(H)
    PROVE  /\ LanesOf(width, b) \in 1 .. 8 /\ part \in Nat \ {0} /\ part <= LanesOf(width, b) * Lane
           /\ \A l \in 0 .. LanesOf(width, b) - 1 : l * Lane \in Nat /\ l * Lane <= 7 * Lane /\ l * Lane < part
  <1> DEFINE from == b * Elems(H)
             a == width - from
             r == (a + Lane - 1) \div Lane
             n == LanesOf(width, b)
  <1>1. Lane \in Nat \ {0} /\ Elems(H) = Lane * 8 /\ H \in Quants
    BY HyperIs
  <1>2. from \in Nat /\ from < width
    BY <1>1, InBlocks
  <1>3. n = Min({8, r})
    BY Zenon DEF LanesOf, H
  <1>4. part = IF a < Elems(H) THEN a ELSE Elems(H)
    OBVIOUS
  <1> HIDE DEF from
  <1>5. a \in Nat \ {0}
    BY <1>2
  <1> HIDE DEF a
  <1>6. r \in Nat \ {0} /\ a <= r * Lane /\ r * Lane < a + Lane
    BY <1>1, <1>5, RoundedUp
  <1> HIDE DEF r
  <1>7. n = IF r < 8 THEN r ELSE 8
    BY <1>3, <1>6, MinTwo
  <1> HIDE DEF n
  <1>8. n \in 1 .. 8 /\ n <= r
    BY <1>6, <1>7
  <1>9. part \in Nat \ {0} /\ part <= n * Lane
    BY <1>1, <1>4, <1>5, <1>6, <1>7
  <1>10. ASSUME NEW l \in 0 .. n - 1 PROVE l * Lane \in Nat /\ l * Lane <= 7 * Lane /\ l * Lane < part
    <2>1. l \in 0 .. 7 /\ l + 1 <= r
      BY <1>6, <1>8
    <2>2. l * Lane \in Nat /\ l * Lane <= 7 * Lane
      BY <1>1, <2>1, Z3
    <2>3. (l + 1) * Lane <= r * Lane /\ (l + 1) * Lane = l * Lane + Lane
      BY <1>1, <1>6, <2>1, Z3
    <2> DEFINE x == l * Lane
               y == r * Lane
    <2>4. x \in Nat /\ x <= 7 * Lane /\ y \in Nat /\ x + Lane <= y /\ y < a + Lane
      BY <1>1, <1>6, <2>2, <2>3
    <2> HIDE DEF x, y
    <2>5. x < a /\ x < Elems(H)
      BY <1>1, <1>5, <2>4
    <2> QED BY <1>4, <2>4, <2>5 DEF x
  <1> QED BY <1>8, <1>9, <1>10 DEF n

\* Lane l of block b of a row begins at `from' and has cap values.
LaneAt(width, b, l, from, cap) ==
    /\ b \in 0 .. BlocksOf(H, width) - 1 /\ l \in 0 .. 7
    /\ from \in Nat /\ from = b * Elems(H) + l * Lane /\ from < width
    /\ cap = IF width - from < Lane THEN width - from ELSE Lane

\* What a lane adds to the product of a row.
LaneAdds(kern, row, s, b, l, from, cap) ==
    LaneDot(kern, QuantizeRow(H, row)[b], l, Span(s.q8, from, Lane), cap,
            IF s.summed /\ kern # "cuda" THEN s.sums[b * 8 + l] ELSE Total(Span(s.q8, from, Lane), cap))
    = Total(Span(Products(H, row, s.q8), from, Lane), cap)

LEMMA LanePart ==
    ASSUME NEW kern, NEW row \in Seq(Int), NEW s, Loaded(s, Len(row)),
           NEW b, NEW l, NEW from, NEW cap, LaneAt(Len(row), b, l, from, cap)
    PROVE  LaneAdds(kern, row, s, b, l, from, cap)
  <1> SUFFICES ASSUME NEW a, a = Span(s.q8, from, Lane)
               PROVE  LaneDot(kern, QuantizeRow(H, row)[b], l, a, cap,
                              IF s.summed /\ kern # "cuda" THEN s.sums[b * 8 + l] ELSE Total(a, cap))
                      = Total(Span(Products(H, row, s.q8), from, Lane), cap)
    BY DEF LaneAdds
  <1> DEFINE width == Len(row)
             block == QuantizeRow(H, row)[b]
             t == Span(Products(H, row, s.q8), from, Lane)
             c == b * 8 + l
  <1>1. Lane \in Nat \ {0} /\ Elems(H) = Lane * 8 /\ H \in Quants /\ width \in Nat \ {0} /\ width <= PaddedK
        /\ PaddedK \in Nat
    BY HyperIs, PaddedLanes DEF Loaded
  <1>0. /\ b \in 0 .. BlocksOf(H, width) - 1 /\ l \in 0 .. 7 /\ from \in Nat /\ from < width
        /\ cap = IF width - from < Lane THEN width - from ELSE Lane
    BY DEF LaneAt
  <1>2. from = c * Lane /\ c \in Nat /\ b \in Nat
    <2>1. b \in Nat /\ from = b * Elems(H) + l * Lane
      BY DEF LaneAt
    <2>2. b * (Lane * 8) + l * Lane = (b * 8 + l) * Lane
      BY <1>0, <1>1, <2>1, Z3
    <2> QED BY <1>0, <1>1, <2>1, <2>2
  <1> HIDE DEF c
  <1>3. c \in 0 .. SumBlocks - 1 /\ from + Lane <= PaddedK
    <2>1. c * Lane < PaddedK
      BY <1>0, <1>1, <1>2
    <2> QED BY <1>2, <2>1, PaddedLanes
  <1>4. cap \in 1 .. Lane /\ from + cap <= width
    BY <1>0, <1>1
  <1>5. \A i \in 0 .. Lane - 1 : a[i] = s.q8[from + i] /\ from + i \in 0 .. PaddedK - 1
    BY <1>0, <1>1, <1>3 DEF Span
  <1>6. Bytewise(a)
    BY <1>5 DEF Bytewise, Loaded
  <1>7. Sized(H, block)
    BY <1>0, <1>1, StoredReads
  <1>8. \A i \in 0 .. cap - 1 : t[i] = a[i] * WeightAt(H, block, l * Lane + i)
    <2> SUFFICES ASSUME NEW i \in 0 .. cap - 1 PROVE t[i] = a[i] * WeightAt(H, block, l * Lane + i)
      OBVIOUS
    <2> DEFINE k == from + i
    <2>1. i \in 0 .. Lane - 1 /\ k \in 0 .. width - 1
      BY <1>0, <1>1, <1>4
    <2>2. t[i] = s.q8[k] * Chosen(H, row, k)
      BY <2>1, Zenon DEF Span, Products
    <2>3. k \div Elems(H) = b /\ k % Elems(H) = l * Lane + i
      <3> DEFINE u == l * Lane + i
      <3>1. PICK e \in Nat \ {0} : e = Elems(H) /\ e = Lane * 8
        BY <1>1
      <3>2. u \in 0 .. e - 1
        BY <1>0, <1>1, <2>1, <3>1
      <3>3. k = e * b + u /\ b \in Int
        <4>1. from = b * e + l * Lane
          BY <3>1 DEF LaneAt
        <4>2. b * e = e * b
          BY <1>2, <3>1, Z3
        <4>3. b * e \in Int /\ l * Lane \in Int
          BY <1>0, <1>1, <1>2, <3>1
        <4> QED BY <1>2, <2>1, <4>1, <4>2, <4>3
      <3> HIDE DEF k, u
      <3>4. k \in Nat
        BY <2>1
      <3>5. k \div e \in Nat /\ k % e \in 0 .. e - 1 /\ k = e * (k \div e) + (k % e)
        BY <3>4, DivMod
      <3>6. PICK x : x = k \div e
        OBVIOUS
      <3>7. PICK y : y = k % e
        OBVIOUS
      <3>8. x \in Int /\ y \in 0 .. e - 1 /\ e * b + u = e * x + y
        BY <3>3, <3>5, <3>6, <3>7
      <3>9. b = x /\ u = y
        BY <3>2, <3>3, <3>8, OneQuotient
      <3> QED BY <3>1, <3>6, <3>7, <3>9 DEF u
    <2> HIDE DEF k
    <2>4. WeightAt(H, block, l * Lane + i) = Chosen(H, row, k)
      BY <1>1, <2>1, <2>3, WeightIs
    <2>5. a[i] = s.q8[k]
      BY <1>5, <2>1 DEF k
    <2> QED BY <2>2, <2>4, <2>5, Zenon
  <1> HIDE DEF block, t
  <1>9. LaneDot(kern, block, l, a, cap, Total(a, cap)) = Total(t, cap)
    <2>1. LaneOf(block, l, a, cap, t)
      BY <1>0, <1>4, <1>6, <1>7, <1>8 DEF LaneOf
    <2> QED BY <2>1, LaneDotIs
  <1>10. s.summed => s.sums[c] = Total(a, cap)
    <2> SUFFICES ASSUME s.summed PROVE s.sums[c] = Total(a, cap)
      OBVIOUS
    <2>1. s.sums[c] = Total(a, Lane)
      BY <1>2, <1>3 DEF Loaded
    <2>2. PICK m \in Nat : m = Lane - cap
      BY <1>1, <1>4
    <2>3. Ints(a, cap + m) /\ cap + m = Lane /\ cap \in Nat
      <3>1. cap + m = Lane /\ cap \in Nat
        BY <1>1, <1>4, <2>2
      <3>2. Ints(a, Lane)
        BY <1>1, <1>6 DEF Ints, Bytewise, Byte
      <3> QED BY <3>1, <3>2
    <2>4. Total(a, cap + m) = Total(a, cap) + Total(Span(a, cap, m), m)
      BY <2>3, TotalSplit
    <2>5. Total(Span(a, cap, m), m) = 0
      <3>1. \A i \in 0 .. m - 1 : Span(a, cap, m)[i] = 0
        <4> SUFFICES ASSUME NEW i \in 0 .. m - 1 PROVE Span(a, cap, m)[i] = 0
          OBVIOUS
        <4>1. Span(a, cap, m)[i] = a[cap + i]
          BY DEF Span
        <4>2. cap + i \in 0 .. Lane - 1
          BY <1>1, <1>4, <2>2
        <4>3. from + (cap + i) >= width
          BY <1>0, <1>1, <1>4, <2>2
        <4>4. a[cap + i] = s.q8[from + (cap + i)] /\ from + (cap + i) \in 0 .. PaddedK - 1
          BY <1>5, <4>2
        <4> QED BY <4>1, <4>3, <4>4 DEF Loaded
      <3> QED BY <3>1, TotalZero
    <2>6. Total(a, cap) \in Int
      <3>1. cap \in 0 .. cap + m
        BY <2>3
      <3> QED BY <2>3, <3>1, TotalInt
    <2> QED BY <2>1, <2>3, <2>4, <2>5, <2>6
  <1>11. (IF s.summed /\ kern # "cuda" THEN s.sums[b * 8 + l] ELSE Total(a, cap)) = Total(a, cap)
    BY <1>10 DEF c
  <1> QED BY <1>9, <1>11, Zenon DEF block, t

LEMMA ProductsInt ==
    ASSUME NEW q \in Quants, NEW row \in Seq(Int), NEW x, \A k \in 0 .. Len(row) - 1 : x[k] \in Int
    PROVE  Ints(Products(q, row, x), Len(row))
  <1>1. ASSUME NEW k \in 0 .. Len(row) - 1 PROVE Products(q, row, x)[k] \in Int
    <2>1. Products(q, row, x)[k] = x[k] * Chosen(q, row, k)
      BY Zenon DEF Products
    <2>2. Chosen(q, row, k) \in Int
      BY WeightIs
    <2> QED BY <2>1, <2>2
  <1>2. Len(row) \in Nat
    OBVIOUS
  <1> QED BY <1>1, <1>2 DEF Ints

LEMMA LoadedProducts ==
    ASSUME NEW q \in Quants, NEW row \in Seq(Int), NEW s, Loaded(s, Len(row))
    PROVE  Ints(Products(q, row, s.q8), Len(row))
  <1>1. \A k \in 0 .. Len(row) - 1 : k \in 0 .. PaddedK - 1
    BY PaddedLanes DEF Loaded
  <1>2. \A k \in 0 .. Len(row) - 1 : s.q8[k] \in Int
    BY <1>1 DEF Loaded, Byte
  <1> QED BY <1>2, ProductsInt

\* What a block adds: the sum of its lanes.
LEMMA BlockPart ==
    ASSUME NEW kern, NEW row \in Seq(Int), NEW s, Loaded(s, Len(row)),
           NEW b \in 0 .. BlocksOf(H, Len(row)) - 1, NEW d,
           \A l \in 0 .. LanesOf(Len(row), b) - 1 : \E from, cap :
              /\ LaneAt(Len(row), b, l, from, cap)
              /\ d[l] = Total(Span(Products(H, row, s.q8), from, Lane), cap)
    PROVE  Total(d, LanesOf(Len(row), b))
           = Total(Span(Products(H, row, s.q8), b * Elems(H), Elems(H)),
                   IF Len(row) - b * Elems(H) < Elems(H) THEN Len(row) - b * Elems(H) ELSE Elems(H))
  <1> DEFINE width == Len(row)
             n == LanesOf(width, b)
             start == b * Elems(H)
             part == IF width - start < Elems(H) THEN width - start ELSE Elems(H)
             p == Products(H, row, s.q8)
             t == Span(p, start, Elems(H))
  <1>1. Lane \in Nat \ {0} /\ Elems(H) = Lane * 8 /\ H \in Quants /\ width \in Nat \ {0}
    BY HyperIs DEF Loaded
  <1>2. start \in Nat /\ start < width
    BY <1>1, InBlocks
  <1>3. /\ n \in 1 .. 8 /\ part \in Nat \ {0} /\ part <= n * Lane
        /\ \A l \in 0 .. n - 1 : l * Lane \in Nat /\ l * Lane <= 7 * Lane /\ l * Lane < part
    BY <1>1, LanesReach
  <1>4. Ints(p, width)
    BY <1>1, LoadedProducts
  <1>5. \A l \in 0 .. n - 1 : \E from, cap : LaneAt(width, b, l, from, cap) /\ d[l] = Total(Span(p, from, Lane), cap)
    OBVIOUS
  <1>6. \A from, cap, l : LaneAt(width, b, l, from, cap) =>
            from = start + l * Lane /\ cap = IF width - from < Lane THEN width - from ELSE Lane
    BY DEF LaneAt
  <1> HIDE DEF width, n, start, p
  <1>7. part <= width - start /\ part <= Elems(H) /\ (part = width - start \/ part = Elems(H))
    BY <1>1, <1>2
  <1> HIDE DEF part
  <1>8. \A i \in 0 .. part - 1 : t[i] = p[start + i] /\ start + i \in 0 .. width - 1
    BY <1>1, <1>2, <1>3, <1>7 DEF Span
  <1> HIDE DEF t
  <1>9. Ints(t, part)
    BY <1>3, <1>4, <1>8 DEF Ints
  <1>10. ASSUME NEW l \in 0 .. n - 1
         PROVE  /\ l * Lane < part
                /\ d[l] = Total(Span(t, l * Lane, Lane), IF part - l * Lane < Lane THEN part - l * Lane ELSE Lane)
    <2>1. PICK from : \E cap : LaneAt(width, b, l, from, cap) /\ d[l] = Total(Span(p, from, Lane), cap)
      BY <1>5
    <2>2. PICK cap : LaneAt(width, b, l, from, cap) /\ d[l] = Total(Span(p, from, Lane), cap)
      BY <2>1
    <2>3. PICK x \in Nat : x = l * Lane
      BY <1>3
    <2>4. x <= 7 * Lane /\ x < part
      BY <1>3, <2>3
    <2>5. from = start + x /\ cap = IF width - from < Lane THEN width - from ELSE Lane
      BY <1>6, <2>2, <2>3
    <2>6. cap = IF part - x < Lane THEN part - x ELSE Lane
      BY <1>1, <1>2, <1>3, <1>7, <2>4, <2>5
    <2>7. cap \in Nat /\ cap <= Lane /\ x + cap <= part
      BY <1>1, <1>3, <2>4, <2>6
    <2>8. \A i \in 0 .. cap - 1 : Span(t, x, Lane)[i] = t[x + i] /\ Span(p, from, Lane)[i] = p[from + i]
      BY <1>1, <2>7 DEF Span
    <2>9. \A i \in 0 .. cap - 1 : x + i \in 0 .. part - 1 /\ start + (x + i) = from + i
      BY <1>2, <1>3, <2>5, <2>7
    <2>10. Alike(Span(p, from, Lane), Span(t, x, Lane), cap)
      BY <1>8, <2>7, <2>8, <2>9 DEF Alike
    <2>11. Total(Span(p, from, Lane), cap) = Total(Span(t, x, Lane), cap)
      BY <2>10, TotalSame
    <2> QED BY <2>2, <2>3, <2>4, <2>6, <2>11
  <1>11. InParts(d, t, Lane, part, n)
    <2>1. n \in Nat
      BY <1>3
    <2> QED BY <1>1, <1>3, <1>9, <1>10, <2>1 DEF InParts
  <1>12. Total(d, n) = Total(t, part)
    BY <1>11, TotalParts
  <1> QED BY <1>12, Zenon DEF n, width, start, p, t, part

\* Any row from what its blocks add.
LEMMA RowOfBlocks ==
    ASSUME NEW q \in Quants, NEW width \in Nat \ {0}, NEW p, Ints(p, width), NEW d,
           \A b \in 0 .. BlocksOf(q, width) - 1 :
              d[b] = Total(Span(p, b * Elems(q), Elems(q)),
                           IF width - b * Elems(q) < Elems(q) THEN width - b * Elems(q) ELSE Elems(q))
    PROVE  Total(d, BlocksOf(q, width)) = Total(p, width)
  <1>1. Elems(q) \in Nat \ {0}
    BY BlockSizes
  <1>2. /\ BlocksOf(q, width) \in Nat \ {0} /\ width <= BlocksOf(q, width) * Elems(q)
        /\ \A b \in 0 .. BlocksOf(q, width) - 1 : b * Elems(q) \in Nat /\ b * Elems(q) < width
    BY InBlocks
  <1>3. InParts(d, p, Elems(q), width, BlocksOf(q, width))
    BY <1>1, <1>2, Zenon DEF InParts
  <1> QED BY <1>3, TotalParts

LEMMA HyperRow ==
    ASSUME NEW kern, NEW row \in Seq(Int), NEW s, Loaded(s, Len(row))
    PROVE  HyperDot(kern, QuantizeRow(H, row), Len(row), s) = Total(Products(H, row, s.q8), Len(row))
  <1> DEFINE width == Len(row)
             blocks == QuantizeRow(H, row)
             p == Products(H, row, s.q8)
             dot(b, l) == LET from == b * Elems(H) + l * Lane
                              cap == Min({Lane, width - from})
                              a == Span(s.q8, from, Lane)
                          IN  LaneDot(kern, blocks[b], l, a, cap,
                                      IF s.summed /\ kern # "cuda" THEN s.sums[b * 8 + l] ELSE Total(a, cap))
             lanes(b) == [l \in 0 .. LanesOf(width, b) - 1 |-> dot(b, l)]
             block == [b \in DOMAIN blocks |->
                          LET n == LanesOf(width, b) IN Total([l \in 0 .. n - 1 |-> dot(b, l)], n)]
  <1>1. HyperDot(kern, blocks, width, s) = Total(block, BlocksOf(H, width))
    BY Zenon DEF HyperDot, H
  <1>2. Lane \in Nat \ {0} /\ Elems(H) = Lane * 8 /\ H \in Quants /\ width \in Nat \ {0}
    BY HyperIs DEF Loaded
  <1>3. DOMAIN blocks = 0 .. BlocksOf(H, width) - 1
    BY Zenon DEF QuantizeRow
  <1>4. ASSUME NEW b \in 0 .. BlocksOf(H, width) - 1, NEW l \in 0 .. LanesOf(width, b) - 1
        PROVE  \E from, cap : LaneAt(width, b, l, from, cap) /\ dot(b, l) = Total(Span(p, from, Lane), cap)
    <2> DEFINE from == b * Elems(H) + l * Lane
               cap == Min({Lane, width - from})
               part == IF width - b * Elems(H) < Elems(H) THEN width - b * Elems(H) ELSE Elems(H)
    <2>1. b * Elems(H) \in Nat /\ b * Elems(H) < width
      BY <1>2, InBlocks
    <2>2. LanesOf(width, b) \in 1 .. 8 /\ l * Lane \in Nat /\ l * Lane < part
      BY <1>2, LanesReach
    <2>3. from \in Nat /\ from < width /\ l \in 0 .. 7
      <3>1. PICK u \in Nat : u = b * Elems(H)
        BY <2>1
      <3>2. PICK x \in Nat : x = l * Lane
        BY <2>2
      <3>3. u < width /\ x < width - u /\ from = u + x
        <4>1. part = IF width - u < Elems(H) THEN width - u ELSE Elems(H)
          BY <3>1
        <4> HIDE DEF part
        <4>2. x < part
          BY <2>2, <3>2
        <4>3. from = u + x
          BY <3>1, <3>2
        <4> HIDE DEF from
        <4> QED BY <1>2, <2>1, <3>1, <4>1, <4>2, <4>3
      <3>4. from \in Nat /\ from < width
        <4> HIDE DEF from
        <4> QED BY <1>2, <3>1, <3>2, <3>3
      <3>5. l \in 0 .. 7
        BY <2>2
      <3> QED BY <3>4, <3>5, Zenon
    <2>4. cap = IF width - from < Lane THEN width - from ELSE Lane
      <3> HIDE DEF from
      <3>1. PICK y \in Int : y = width - from
        BY <1>2, <2>3
      <3> QED BY <1>2, <3>1, MinTwo
    <2>5. LaneAt(width, b, l, from, cap)
      <3> HIDE DEF cap
      <3> QED BY <2>3, <2>4, Zenon DEF LaneAt
    <2>6. dot(b, l) = Total(Span(p, from, Lane), cap)
      <3> HIDE DEF cap, from
      <3>1. LaneAdds(kern, row, s, b, l, from, cap)
        BY <2>5, LanePart
      <3> QED BY <3>1, Zenon DEF from, cap, LaneAdds
    <2> HIDE DEF from, cap, dot
    <2> QED BY <2>5, <2>6
  <1>5. ASSUME NEW b \in 0 .. BlocksOf(H, width) - 1
        PROVE  block[b] = Total(Span(p, b * Elems(H), Elems(H)),
                                IF width - b * Elems(H) < Elems(H) THEN width - b * Elems(H) ELSE Elems(H))
    <2>1. block[b] = Total(lanes(b), LanesOf(width, b))
      BY <1>3, Zenon
    <2>2. \A l \in 0 .. LanesOf(width, b) - 1 : lanes(b)[l] = dot(b, l)
      BY Zenon
    <2>3. \A l \in 0 .. LanesOf(width, b) - 1 : \E from, cap :
             LaneAt(width, b, l, from, cap) /\ lanes(b)[l] = Total(Span(p, from, Lane), cap)
      <3> HIDE DEF dot, lanes
      <3> QED BY <1>4, <2>2
    <2> HIDE DEF lanes
    <2>4. Total(lanes(b), LanesOf(width, b))
          = Total(Span(p, b * Elems(H), Elems(H)),
                  IF width - b * Elems(H) < Elems(H) THEN width - b * Elems(H) ELSE Elems(H))
      BY <2>3, BlockPart
    <2> QED BY <2>1, <2>4, Zenon
  <1>6. Ints(p, width)
    BY <1>2, LoadedProducts
  <1> HIDE DEF block, p
  <1>7. Total(block, BlocksOf(H, width)) = Total(p, width)
    BY <1>2, <1>5, <1>6, RowOfBlocks
  <1> QED BY <1>1, <1>7, Zenon DEF p

\* Q4_0 has no middle, and its one multiplier is one.
Q4 == "q4_0"

LEMMA Q4Is ==
    /\ Q4 \in Quants /\ Format[Q4].lanes = 1 /\ Format[Q4].low = -8 /\ Format[Q4].high = 7
    /\ Format[Q4].one = 1 /\ ~Format[Q4].centred /\ Elems(Q4) = Lane /\ Lane \in Nat \ {0}
    /\ Units(Q4) \in Int
  <1>1. /\ Q4 \in Quants /\ Format[Q4].lanes = 1 /\ Format[Q4].low = -8 /\ Format[Q4].high = 7
        /\ Format[Q4].one = 1 /\ ~Format[Q4].centred
    BY DEF Q4, Quants, Format
  <1>2. Elems(Q4) = Lane * 1 /\ Lane \in Nat \ {0} /\ Units(Q4) \in Int
    BY <1>1, BlockSizes
  <1> QED BY <1>1, <1>2

LEMMA NoMiddle ==
    ASSUME NEW q \in Quants, ~Format[q].centred, NEW v
    PROVE  Quantize(q, v).middle = 0
  <1> DEFINE f == Format[q]
             all == {v[i] : i \in DOMAIN v}
             middle == IF f.centred THEN Min(all) + Max(all) ELSE 0
             off == [i \in DOMAIN v |-> 2 * v[i] - middle]
             top(l) == Max({Magnitude(off[i]) : i \in l * Lane .. l * Lane + Lane - 1})
             largest == Max({top(l) : l \in 0 .. f.lanes - 1})
             base == IF largest = 0 THEN 2 * f.steps ELSE largest
             times == [l \in 0 .. f.lanes - 1 |-> Clip(Rounded(top(l) * f.one, base), 1, f.one)]
             codes == [i \in DOMAIN v |-> Clip(Rounded(off[i] * Units(q), base * times[i \div Lane]), f.low, f.high)]
  <1>1. Quantize(q, v) = [base |-> base, middle |-> middle, times |-> times, codes |-> codes]
    BY Zenon DEF Quantize
  <1>2. middle = 0
    OBVIOUS
  <1> HIDE DEF base, middle, times, codes
  <1> QED BY <1>1, <1>2

\* A block's products with its weights.
Q4Of(block, a, valid, t) ==
    /\ Sized(Q4, block) /\ block.middle = 0 /\ Bytewise(a) /\ valid \in 1 .. Lane
    /\ \A i \in 0 .. valid - 1 : t[i] = a[i] * WeightAt(Q4, block, i)

LEMMA Q4DotIs ==
    ASSUME NEW block, NEW a, NEW valid, NEW t, NEW vectors, Q4Of(block, a, valid, t)
    PROVE  Q4Dot(block, a, valid, vectors) = Total(t, valid)
  <1> DEFINE code(i) == CodeAt(Q4, block, i)
             unsigned == [i \in 0 .. valid - 1 |-> (code(i) + 8) * a[i]]
             signed == [i \in 0 .. valid - 1 |-> code(i) * a[i]]
             dot == IF vectors /\ valid = Lane
                    THEN Pairs(unsigned) - 8 * Pairs(a) ELSE Total(signed, valid)
  <1>0. /\ Sized(Q4, block) /\ block.middle = 0 /\ Bytewise(a) /\ valid \in 1 .. Lane
        /\ \A i \in 0 .. valid - 1 : t[i] = a[i] * WeightAt(Q4, block, i)
    BY DEF Q4Of
  <1>1. Q4Dot(block, a, valid, vectors) = block.base * dot
    BY Zenon DEF Q4Dot, Q4
  <1>2. /\ Lane \in Nat \ {0} /\ Elems(Q4) = Lane /\ valid \in Nat /\ valid <= Lane
        /\ Units(Q4) \in Int /\ block.base \in Int
    BY <1>0, Q4Is DEF Sized
  <1>3. \A i \in 0 .. valid - 1 : i \in 0 .. Lane - 1 /\ code(i) \in -8 .. 7 /\ Byte(a[i])
    BY <1>0, <1>2, Q4Is DEF Sized, Bytewise
  <1>4. \A i \in 0 .. valid - 1 : signed[i] = code(i) * a[i] /\ unsigned[i] = (code(i) + 8) * a[i]
    OBVIOUS
  <1> HIDE DEF unsigned, signed, code
  <1>5. \A i \in 0 .. valid - 1 : /\ unsigned[i] = signed[i] + 8 * a[i]
                                  /\ unsigned[i] \in Int /\ -1905 <= unsigned[i] /\ unsigned[i] <= 1905
                                  /\ signed[i] \in Int /\ a[i] \in Int
    <2> SUFFICES ASSUME NEW i \in 0 .. valid - 1
                 PROVE  /\ unsigned[i] = signed[i] + 8 * a[i]
                        /\ unsigned[i] \in Int /\ -1905 <= unsigned[i] /\ unsigned[i] <= 1905
                        /\ signed[i] \in Int /\ a[i] \in Int
      OBVIOUS
    <2>1. PICK c \in -8 .. 7 : c = code(i)
      BY <1>3
    <2>2. PICK x \in Int : x = a[i] /\ -127 <= x /\ x <= 127
      BY <1>3 DEF Byte
    <2>3. /\ (c + 8) * x = c * x + 8 * x /\ c * x \in Int
          /\ (c + 8) * x \in Int /\ -1905 <= (c + 8) * x /\ (c + 8) * x <= 1905
      BY <2>2
    <2> QED BY <1>4, <2>1, <2>2, <2>3
  <1>6. Ints(a, valid) /\ Ints(signed, valid)
    BY <1>2, <1>5 DEF Ints
  <1>7. Total(unsigned, valid) - 8 * Total(a, valid) = Total(signed, valid)
    BY <1>5, <1>6, TotalOffset
  <1>8. dot = Total(signed, valid)
    <2>1. CASE ~(vectors /\ valid = Lane)
      BY <2>1
    <2>2. CASE vectors /\ valid = Lane
      <3>1. \A i \in 0 .. Lane - 1 : /\ unsigned[i] \in Int /\ -1905 <= unsigned[i] /\ unsigned[i] <= 1905
                                     /\ a[i] \in Int /\ -127 <= a[i] /\ a[i] <= 127
        BY <1>3, <1>5, <2>2 DEF Byte
      <3>2. Small(unsigned) /\ Small(a)
        BY <1>2, <3>1 DEF Small
      <3>3. Pairs(unsigned) = Total(unsigned, valid) /\ Pairs(a) = Total(a, valid)
        BY <2>2, <3>2, PairsIs
      <3> QED BY <1>7, <2>2, <3>3
    <2> QED BY <2>1, <2>2
  <1> HIDE DEF dot
  <1>9. \A i \in 0 .. valid - 1 : t[i] = block.base * signed[i] + 0 * signed[i]
    <2> SUFFICES ASSUME NEW i \in 0 .. valid - 1 PROVE t[i] = block.base * signed[i] + 0 * signed[i]
      OBVIOUS
    <2>1. i \in 0 .. Lane - 1 /\ i \div Lane = 0
      BY <1>2, <1>3
    <2>2. TimesAt(Q4, block, 0) = 1
      BY <1>0, Q4Is DEF Sized
    <2>3. WeightAt(Q4, block, i) = code(i) * block.base * 1 + 0 * Units(Q4)
      BY <1>0, <2>1, <2>2, Zenon DEF WeightAt, code
    <2>4. PICK c \in Int : c = code(i)
      BY <1>3
    <2>5. PICK x \in Int : x = a[i]
      BY <1>3 DEF Byte
    <2>6. PICK y \in Int : y = block.base
      BY <1>2
    <2>7. PICK u \in Int : u = Units(Q4)
      BY <1>2
    <2>8. x * (c * y * 1 + 0 * u) = y * (c * x) + 0 * (c * x)
      BY Z3
    <2>9. t[i] = x * (c * y * 1 + 0 * u)
      BY <1>0, <2>3, <2>4, <2>5, <2>6, <2>7, Zenon
    <2>10. signed[i] = c * x
      BY <1>4, <2>4, <2>5, Zenon
    <2> QED BY <2>6, <2>8, <2>9, <2>10, Zenon
  <1>10. Combines(t, block.base, signed, 0, signed, valid)
    BY <1>2, <1>6, <1>9 DEF Combines
  <1>11. Total(t, valid) = block.base * Total(signed, valid) + 0 * Total(signed, valid)
    BY <1>10, TotalCombines
  <1>12. Total(signed, valid) \in Int
    <2>1. valid \in 0 .. valid
      BY <1>2
    <2> QED BY <1>6, <2>1, TotalInt
  <1>13. PICK g \in Int : g = Total(signed, valid)
    BY <1>12
  <1>14. PICK y \in Int : y = block.base
    BY <1>2
  <1>15. y * g = y * g + 0 * g
    BY Z3
  <1> QED BY <1>1, <1>8, <1>11, <1>13, <1>14, <1>15, Zenon

LEMMA Q4RowIs ==
    ASSUME NEW row \in Seq(Int), NEW s, Loaded(s, Len(row)), NEW vectors
    PROVE  Q4Row(QuantizeRow(Q4, row), Len(row), s, vectors) = Total(Products(Q4, row, s.q8), Len(row))
  <1> DEFINE width == Len(row)
             blocks == QuantizeRow(Q4, row)
             p == Products(Q4, row, s.q8)
             dot == [b \in DOMAIN blocks |->
                        Q4Dot(blocks[b], Span(s.q8, b * Lane, Lane), Min({Lane, width - b * Lane}), vectors)]
  <1>1. Q4Row(blocks, width, s, vectors) = Total(dot, BlocksOf(Q4, width))
    BY Zenon DEF Q4Row, Q4
  <1>2. Lane \in Nat \ {0} /\ Elems(Q4) = Lane /\ Q4 \in Quants /\ width \in Nat \ {0} /\ width <= PaddedK
    BY Q4Is, PaddedLanes DEF Loaded
  <1>3. DOMAIN blocks = 0 .. BlocksOf(Q4, width) - 1
    BY Zenon DEF QuantizeRow
  <1>4. ASSUME NEW b \in 0 .. BlocksOf(Q4, width) - 1
        PROVE  dot[b] = Total(Span(p, b * Elems(Q4), Elems(Q4)),
                              IF width - b * Elems(Q4) < Elems(Q4) THEN width - b * Elems(Q4) ELSE Elems(Q4))
    <2>1. PICK from \in Nat : from = b * Lane /\ from < width
      BY <1>2, InBlocks
    <2>2. PICK valid : valid = IF width - from < Lane THEN width - from ELSE Lane
      OBVIOUS
    <2>3. Min({Lane, width - from}) = valid
      <3>1. PICK y \in Int : y = width - from
        BY <1>2
      <3> QED BY <1>2, <2>2, <3>1, MinTwo
    <2> DEFINE block == blocks[b]
               a == Span(s.q8, from, Lane)
               t == Span(p, from, Lane)
    <2>4. dot[b] = Q4Dot(block, a, valid, vectors)
      BY <1>3, <2>1, <2>3, Zenon
    <2>5. valid \in 1 .. Lane /\ from + valid <= width /\ b \in Nat
      <3>1. from < width
        BY <2>1
      <3> QED BY <1>2, <2>2, <3>1
    <2>6. from + Lane <= PaddedK
      <3>1. b * Lane < PaddedK
        BY <1>2, <2>1, PaddedLanes
      <3>2. b * Lane + Lane <= PaddedK
        BY <2>5, <3>1, PaddedLanes
      <3> QED BY <2>1, <3>2
    <2>7. \A i \in 0 .. Lane - 1 : a[i] = s.q8[from + i] /\ from + i \in 0 .. PaddedK - 1
      BY <1>2, <2>6, PaddedLanes DEF Span
    <2>8. Bytewise(a)
      BY <2>7 DEF Bytewise, Loaded
    <2>9. Reads(Q4, block, row, b) /\ Sized(Q4, block)
      BY <1>2, StoredReads
    <2>10. block.middle = 0
      BY <2>9, NoMiddle, Q4Is DEF Reads, Chose
    <2>11. \A i \in 0 .. valid - 1 : t[i] = a[i] * WeightAt(Q4, block, i)
      <3> SUFFICES ASSUME NEW i \in 0 .. valid - 1 PROVE t[i] = a[i] * WeightAt(Q4, block, i)
        OBVIOUS
      <3> DEFINE k == from + i
      <3>1. i \in 0 .. Lane - 1 /\ k \in 0 .. width - 1
        BY <1>2, <2>5
      <3>2. t[i] = s.q8[k] * Chosen(Q4, row, k)
        BY <3>1, Zenon DEF Span, Products
      <3>3. k \div Lane = b /\ k % Lane = i
        <4>1. k = Lane * b + i /\ b \in Int
          <5>1. b * Lane = Lane * b
            BY <1>2, <2>5, Z3
          <5> QED BY <2>1, <2>5, <5>1
        <4>2. k \in Nat
          BY <3>1
        <4> HIDE DEF k
        <4>3. k \div Lane \in Nat /\ k % Lane \in 0 .. Lane - 1 /\ k = Lane * (k \div Lane) + (k % Lane)
          BY <1>2, <4>2, DivMod
        <4>4. PICK x : x = k \div Lane
          OBVIOUS
        <4>5. PICK y : y = k % Lane
          OBVIOUS
        <4>6. x \in Int /\ y \in 0 .. Lane - 1 /\ Lane * b + i = Lane * x + y
          BY <4>1, <4>3, <4>4, <4>5
        <4>7. b = x /\ i = y
          <5>1. Lane \in Nat \ {0} /\ b \in Int /\ x \in Int /\ i \in 0 .. Lane - 1 /\ y \in 0 .. Lane - 1
            BY <1>2, <3>1, <4>1, <4>6
          <5>2. Lane * b + i = Lane * x + y
            BY <4>6
          <5> QED BY <5>1, <5>2, OneQuotient
        <4> QED BY <4>4, <4>5, <4>7
      <3> HIDE DEF k
      <3>4. WeightAt(Q4, block, i) = Chosen(Q4, row, k)
        <4>1. k \div Elems(Q4) = b /\ k % Elems(Q4) = i
          BY <1>2, <3>3
        <4> QED BY <1>2, <3>1, <4>1, WeightIs
      <3>5. a[i] = s.q8[k]
        BY <2>7, <3>1 DEF k
      <3> QED BY <3>2, <3>4, <3>5, Zenon
    <2> HIDE DEF block, a, t, p
    <2>12. Q4Of(block, a, valid, t)
      BY <2>5, <2>8, <2>9, <2>10, <2>11, Zenon DEF Q4Of
    <2>13. Q4Dot(block, a, valid, vectors) = Total(t, valid)
      BY <2>12, Q4DotIs
    <2> HIDE DEF dot
    <2> QED BY <1>2, <2>1, <2>2, <2>4, <2>13, Zenon DEF t
  <1>5. Ints(p, width)
    BY <1>2, LoadedProducts
  <1> HIDE DEF dot, p
  <1>6. Total(dot, BlocksOf(Q4, width)) = Total(p, width)
    BY <1>2, <1>4, <1>5, RowOfBlocks
  <1> QED BY <1>1, <1>6, Zenon DEF p

\* The activations as they are put into the buffer.
LEMMA QuantizedInputIs ==
    ASSUME NEW x \in Seq(Int), x # <<>>, Len(x) <= PaddedK
    PROVE  \A k \in 0 .. PaddedK - 1 :
              Byte(QuantizedInput(x)[k]) /\ (k >= Len(x) => QuantizedInput(x)[k] = 0)
  <1> DEFINE top == Max({Magnitude(x[k]) : k \in DOMAIN x})
             scale == IF top = 0 THEN 127 ELSE top
  <1>1. QuantizedInput(x)
        = [k \in 0 .. PaddedK - 1 |-> IF k < Len(x) THEN Clip(Rounded(x[k + 1] * 127, scale), -127, 127) ELSE 0]
    BY Zenon DEF QuantizedInput
  <1>2. Len(x) \in Nat \ {0} /\ DOMAIN x = 1 .. Len(x) /\ \A k \in 1 .. Len(x) : x[k] \in Int
    OBVIOUS
  <1>3. top \in Nat
    <2> DEFINE g == [k \in 1 .. Len(x) |-> Magnitude(x[k])]
    <2>1. \A k \in 1 .. Len(x) : g[k] = Magnitude(x[k]) /\ Magnitude(x[k]) \in Nat
      BY <1>2, MagnitudeNat
    <2> HIDE DEF g
    <2>2. IntsOn(g, 1, Len(x))
      BY <1>2, <2>1 DEF IntsOn
    <2>3. Few({g[k] : k \in 1 .. Len(x)})
      BY <2>2, FewBetween
    <2>4. {g[k] : k \in 1 .. Len(x)} = {Magnitude(x[k]) : k \in DOMAIN x}
      BY <1>2, <2>1
    <2>5. \A m \in {Magnitude(x[k]) : k \in DOMAIN x} : m \in Nat
      BY <1>2, <2>1
    <2> QED BY <2>3, <2>4, <2>5, Extremes
  <1> HIDE DEF top
  <1>4. scale \in Nat \ {0}
    BY <1>3
  <1> HIDE DEF scale
  <1>5. ASSUME NEW k \in 0 .. PaddedK - 1
        PROVE  Byte(QuantizedInput(x)[k]) /\ (k >= Len(x) => QuantizedInput(x)[k] = 0)
    <2>1. QuantizedInput(x)[k] = IF k < Len(x) THEN Clip(Rounded(x[k + 1] * 127, scale), -127, 127) ELSE 0
      BY <1>1, Zenon
    <2>2. CASE k < Len(x)
      <3>1. k + 1 \in 1 .. Len(x)
        BY <1>2, <2>2
      <3>2. x[k + 1] * 127 \in Int
        BY <1>2, <3>1
      <3>3. PICK r \in Int : r = Rounded(x[k + 1] * 127, scale)
        BY <1>4, <3>2, RoundedInt
      <3>4. -127 \in Int /\ 127 \in Int /\ -127 <= 127
        OBVIOUS
      <3>5. PICK v : v = Clip(r, -127, 127)
        OBVIOUS
      <3>6. v \in Int /\ -127 <= v /\ v <= 127
        BY <3>5 DEF Clip
      <3>7. QuantizedInput(x)[k] = v
        BY <2>1, <2>2, <3>3, <3>5, Zenon
      <3>8. ~(k >= Len(x))
        BY <1>2, <2>2
      <3> QED BY <3>6, <3>7, <3>8 DEF Byte
    <2>3. CASE ~(k < Len(x))
      <3>1. QuantizedInput(x)[k] = 0
        BY <2>1, <2>3
      <3> QED BY <3>1 DEF Byte
    <2> QED BY <2>2, <2>3
  <1> QED BY <1>5

\* The scratch buffer keeps its shape, and is loaded before each use.
ScratchShape == scratch = [q8 |-> scratch.q8, sums |-> scratch.sums, summed |-> scratch.summed]

LEMMA PreparedShape ==
    ASSUME ScratchShape, NEW x, NEW s, s = Prepared(x)
    PROVE  /\ s = [q8 |-> s.q8, sums |-> s.sums, summed |-> s.summed]
           /\ s.q8 = QuantizedInput(x)
           /\ s.summed => s.sums = [b \in 0 .. SumBlocks - 1 |->
                                       Total(Span(QuantizedInput(x), b * Lane, Lane), Lane)]
  <1> DEFINE q8 == QuantizedInput(x)
             sums == [b \in 0 .. SumBlocks - 1 |-> Total(Span(q8, b * Lane, Lane), Lane)]
  <1>1. s = [scratch EXCEPT !.q8 = q8, !.sums = IF scratch.summed THEN sums ELSE @]
    BY Zenon DEF Prepared
  <1> HIDE DEF q8, sums
  <1>2. s = [q8 |-> q8, sums |-> IF scratch.summed THEN sums ELSE scratch.sums, summed |-> scratch.summed]
    BY <1>1 DEF ScratchShape
  <1>3. s.q8 = q8 /\ s.summed = scratch.summed /\ (s.summed => s.sums = sums)
    BY <1>2
  <1>4. s = [q8 |-> s.q8, sums |-> s.sums, summed |-> s.summed]
    BY <1>2
  <1> QED BY <1>3, <1>4, Zenon DEF q8, sums

LEMMA PreparedIs ==
    ASSUME ScratchShape, NEW x \in Seq(Int), x # <<>>, Len(x) <= PaddedK, NEW s, s = Prepared(x)
    PROVE  Loaded(s, Len(x))
  <1> DEFINE q8 == QuantizedInput(x)
             sums == [b \in 0 .. SumBlocks - 1 |-> Total(Span(q8, b * Lane, Lane), Lane)]
  <1>1. \A k \in 0 .. PaddedK - 1 : Byte(q8[k]) /\ (k >= Len(x) => q8[k] = 0)
    BY QuantizedInputIs
  <1>2. \A b \in 0 .. SumBlocks - 1 : sums[b] = Total(Span(q8, b * Lane, Lane), Lane)
    BY Zenon
  <1>3. s.q8 = q8 /\ (s.summed => s.sums = sums)
    BY PreparedShape, Zenon
  <1> HIDE DEF q8, sums
  <1>4. Len(x) \in 1 .. PaddedK
    BY PaddedLanes
  <1> QED BY <1>1, <1>2, <1>3, <1>4, Zenon DEF Loaded

\* A projection's answer, and the next one's.
Answers(m, x, y) ==
    \A r \in DOMAIN m.rows :
        y[r] = IF x = <<>> THEN ChosenRows[m][r]
               ELSE Total([k \in 0 .. Width(m) - 1 |-> x[k] * ChosenRows[m][r][k]], Width(m))

LEMMA AnsweredTrue ==
    ASSUME NEW m, NEW x, NEW y, Answers(m, x, y), Called(m, x, y)
    PROVE  ProductsAreTrue'
  <1>1. answer'.matrix = m /\ answer'.x = x /\ answer'.y = y
    BY DEF Called
  <1>2. ChosenRows' = ChosenRows
    BY DEF ChosenRows
  <1> QED BY <1>1, <1>2, Zenon DEF ProductsAreTrue, Answers, Width

\* The rows of a matrix, as the file holds them.
LEMMA RowsAre ==
    ASSUME NEW m \in Matrices, NEW r \in DOMAIN m.rows
    PROVE  /\ m.quant \in Quants /\ m.rows[r] \in Seq(Int) /\ m.rows[r] # <<>>
           /\ Len(m.rows[r]) = Width(m) /\ Width(m) \in Nat \ {0}
           /\ Stored[m][r] = QuantizeRow(m.quant, m.rows[r])
           /\ ChosenRows[m][r] = [k \in 0 .. Width(m) - 1 |-> Chosen(m.quant, m.rows[r], k)]
           /\ \A x \in Inputs(Width(m)) : x \in Seq(Int) /\ x # <<>> /\ Len(x) = Width(m)
  <1>1. /\ m.quant \in Quants /\ m.rows[r] \in Seq(Int) /\ m.rows[r] # <<>> /\ Len(m.rows[r]) = Width(m)
        /\ \A x \in Inputs(Len(m.rows[r])) : x \in Seq(Int) /\ Len(x) = Len(m.rows[r])
    BY ProjectionsAssumption DEF Width
  <1>2. Width(m) \in Nat \ {0}
    BY <1>1
  <1>3. Stored[m][r] = QuantizeRow(m.quant, m.rows[r])
    BY Zenon DEF Stored
  <1>4. ChosenRows[m][r] = [k \in 0 .. Len(m.rows[r]) - 1 |-> Chosen(m.quant, m.rows[r], k)]
    BY Zenon DEF ChosenRows
  <1>5. \A x \in Inputs(Width(m)) : x \in Seq(Int) /\ Len(x) = Width(m)
    BY <1>1
  <1>6. \A x \in Inputs(Width(m)) : x # <<>>
    <2> SUFFICES ASSUME NEW x \in Inputs(Width(m)), x = <<>> PROVE FALSE
      OBVIOUS
    <2>1. Len(<<>>) = 0
      OBVIOUS
    <2>2. Len(x) = Width(m)
      BY <1>5
    <2> QED BY <1>2, <2>1, <2>2
  <1> QED BY <1>1, <1>2, <1>3, <1>4, <1>5, <1>6

\* The product of the row chosen, from what a kernel computes.
LEMMA ProductIs ==
    ASSUME NEW m \in Matrices, NEW r \in DOMAIN m.rows, NEW x, NEW n, DOMAIN x = 0 .. n - 1,
           n \in Nat \ {0}, NEW v, v = Total(Products(m.quant, m.rows[r], x), Width(m))
    PROVE  v = IF x = <<>> THEN ChosenRows[m][r]
               ELSE Total([k \in 0 .. Width(m) - 1 |-> x[k] * ChosenRows[m][r][k]], Width(m))
  <1> DEFINE width == Width(m)
             p == Products(m.quant, m.rows[r], x)
             t == [k \in 0 .. width - 1 |-> x[k] * ChosenRows[m][r][k]]
  <1>1. x # <<>>
    <2>1. 0 \in DOMAIN x /\ ~(0 \in DOMAIN <<>>)
      OBVIOUS
    <2> QED BY <2>1
  <1>2. /\ width \in Nat \ {0} /\ Len(m.rows[r]) = width
        /\ ChosenRows[m][r] = [k \in 0 .. width - 1 |-> Chosen(m.quant, m.rows[r], k)]
    BY RowsAre
  <1>3. \A k \in 0 .. width - 1 : p[k] = t[k]
    <2> SUFFICES ASSUME NEW k \in 0 .. width - 1 PROVE p[k] = t[k]
      OBVIOUS
    <2>1. p[k] = x[k] * Chosen(m.quant, m.rows[r], k)
      BY <1>2, Zenon DEF Products
    <2>2. ChosenRows[m][r][k] = Chosen(m.quant, m.rows[r], k)
      BY <1>2, Zenon
    <2>3. t[k] = x[k] * ChosenRows[m][r][k]
      BY Zenon
    <2> QED BY <2>1, <2>2, <2>3, Zenon
  <1>4. Total(p, width) = Total(t, width)
    <2> HIDE DEF p, t
    <2>1. Alike(p, t, width)
      BY <1>2, <1>3 DEF Alike
    <2> QED BY <2>1, TotalSame
  <1> QED BY <1>1, <1>4, Zenon

\* The buffer as a step of a kernel that takes it finds it.
LEMMA ScratchLoaded ==
    ASSUME ScratchShape, NEW m \in Matrices, NEW x \in Inputs(Width(m)), Width(m) <= PaddedK,
           scratch' = Prepared(x)
    PROVE  /\ ScratchShape'
           /\ \A r \in DOMAIN m.rows : Loaded(scratch', Len(m.rows[r]))
           /\ DOMAIN scratch'.q8 = 0 .. PaddedK - 1
  <1>1. ScratchShape'
    <2>1. scratch' = [q8 |-> scratch'.q8, sums |-> scratch'.sums, summed |-> scratch'.summed]
      BY PreparedShape
    <2> QED BY <2>1 DEF ScratchShape
  <1>2. \A r \in DOMAIN m.rows : Loaded(scratch', Len(m.rows[r]))
    <2> SUFFICES ASSUME NEW r \in DOMAIN m.rows PROVE Loaded(scratch', Len(m.rows[r]))
      OBVIOUS
    <2>1. x \in Seq(Int) /\ x # <<>> /\ Len(x) = Width(m) /\ Len(m.rows[r]) = Width(m)
      BY RowsAre
    <2>2. Loaded(scratch', Len(x))
      BY <2>1, PreparedIs
    <2> QED BY <2>1, <2>2
  <1>3. DOMAIN scratch'.q8 = 0 .. PaddedK - 1
    <2>1. scratch'.q8 = QuantizedInput(x)
      BY PreparedShape
    <2>2. DOMAIN QuantizedInput(x) = 0 .. PaddedK - 1
      BY Zenon DEF QuantizedInput
    <2> QED BY <2>1, <2>2
  <1> QED BY <1>1, <1>2, <1>3

\* What a kernel that takes the buffer comes to, if each of its rows is right.
LEMMA FromScratch ==
    ASSUME ScratchShape, NEW m \in Matrices, NEW x \in Inputs(Width(m)), Width(m) <= PaddedK,
           scratch' = Prepared(x), NEW y, Called(m, scratch'.q8, y),
           \A r \in DOMAIN m.rows : Loaded(scratch', Len(m.rows[r])) =>
              y[r] = Total(Products(m.quant, m.rows[r], scratch'.q8), Len(m.rows[r]))
    PROVE  ScratchShape' /\ ProductsAreTrue'
  <1>1. /\ ScratchShape' /\ DOMAIN scratch'.q8 = 0 .. PaddedK - 1
        /\ \A r \in DOMAIN m.rows : Loaded(scratch', Len(m.rows[r]))
    BY ScratchLoaded
  <1>2. PICK z : z = scratch'.q8
    OBVIOUS
  <1>3. Answers(m, z, y)
    <2> SUFFICES ASSUME NEW r \in DOMAIN m.rows
                 PROVE  y[r] = IF z = <<>> THEN ChosenRows[m][r]
                               ELSE Total([k \in 0 .. Width(m) - 1 |-> z[k] * ChosenRows[m][r][k]], Width(m))
      BY DEF Answers
    <2>1. Len(m.rows[r]) = Width(m)
      BY RowsAre
    <2>2. y[r] = Total(Products(m.quant, m.rows[r], z), Width(m))
      BY <1>1, <1>2, <2>1, Zenon
    <2>3. PaddedK \in Nat \ {0}
      <3>1. Width(m) \in Nat \ {0}
        BY RowsAre
      <3>2. PaddedK \in Nat
        BY PaddedLanes
      <3> QED BY <3>1, <3>2
    <2>4. DOMAIN z = 0 .. PaddedK - 1
      BY <1>1, <1>2, Zenon
    <2> QED BY <2>2, <2>3, <2>4, ProductIs
  <1> QED BY <1>1, <1>2, <1>3, AnsweredTrue

LEMMA HyperRowsTrue ==
    ASSUME ScratchShape, NEW m \in Matrices, NEW x \in Inputs(Width(m)), m.quant = H,
           Width(m) <= PaddedK, scratch' = Prepared(x), NEW kern,
           Called(m, scratch'.q8, [r \in DOMAIN m.rows |-> HyperDot(kern, Stored[m][r], Width(m), scratch')])
    PROVE  ScratchShape' /\ ProductsAreTrue'
  <1> DEFINE y == [r \in DOMAIN m.rows |-> HyperDot(kern, Stored[m][r], Width(m), scratch')]
  <1>1. ASSUME NEW r \in DOMAIN m.rows, Loaded(scratch', Len(m.rows[r]))
        PROVE  y[r] = Total(Products(m.quant, m.rows[r], scratch'.q8), Len(m.rows[r]))
    <2>1. /\ m.rows[r] \in Seq(Int) /\ Len(m.rows[r]) = Width(m)
          /\ Stored[m][r] = QuantizeRow(m.quant, m.rows[r])
      BY RowsAre
    <2>2. y[r] = HyperDot(kern, QuantizeRow(H, m.rows[r]), Len(m.rows[r]), scratch')
      BY <2>1, Zenon
    <2> HIDE DEF y
    <2>3. HyperDot(kern, QuantizeRow(H, m.rows[r]), Len(m.rows[r]), scratch')
          = Total(Products(H, m.rows[r], scratch'.q8), Len(m.rows[r]))
      BY <1>1, <2>1, HyperRow
    <2> QED BY <2>2, <2>3, Zenon
  <1>2. Called(m, scratch'.q8, y)
    BY Zenon
  <1> HIDE DEF y
  <1> QED BY <1>1, <1>2, FromScratch

LEMMA Q4RowsTrue ==
    ASSUME ScratchShape, NEW m \in Matrices, NEW x \in Inputs(Width(m)), m.quant = Q4,
           Width(m) <= PaddedK, scratch' = Prepared(x), NEW vectors,
           Called(m, scratch'.q8, [r \in DOMAIN m.rows |-> Q4Row(Stored[m][r], Width(m), scratch', vectors)])
    PROVE  ScratchShape' /\ ProductsAreTrue'
  <1> DEFINE y == [r \in DOMAIN m.rows |-> Q4Row(Stored[m][r], Width(m), scratch', vectors)]
  <1>1. ASSUME NEW r \in DOMAIN m.rows, Loaded(scratch', Len(m.rows[r]))
        PROVE  y[r] = Total(Products(m.quant, m.rows[r], scratch'.q8), Len(m.rows[r]))
    <2>1. /\ m.rows[r] \in Seq(Int) /\ Len(m.rows[r]) = Width(m)
          /\ Stored[m][r] = QuantizeRow(m.quant, m.rows[r])
      BY RowsAre
    <2>2. y[r] = Q4Row(QuantizeRow(Q4, m.rows[r]), Len(m.rows[r]), scratch', vectors)
      BY <2>1, Zenon
    <2> HIDE DEF y
    <2>3. Q4Row(QuantizeRow(Q4, m.rows[r]), Len(m.rows[r]), scratch', vectors)
          = Total(Products(Q4, m.rows[r], scratch'.q8), Len(m.rows[r]))
      BY <1>1, <2>1, Q4RowIs
    <2> QED BY <2>2, <2>3, Zenon
  <1>2. Called(m, scratch'.q8, y)
    BY Zenon
  <1> HIDE DEF y
  <1> QED BY <1>1, <1>2, FromScratch

LEMMA PackedTrue ==
    ASSUME NEW m \in Matrices, NEW x \in Inputs(Width(m)), PackedMatmul(m, x)
    PROVE  ProductsAreTrue'
  <1> DEFINE z == [k \in 0 .. Len(x) - 1 |-> x[k + 1]]
             y == [r \in DOMAIN m.rows |-> PlainRow(m.quant, Stored[m][r], x)]
  <1>1. Called(m, z, y)
    BY Zenon DEF PackedMatmul
  <1>2. Answers(m, z, y)
    <2> SUFFICES ASSUME NEW r \in DOMAIN m.rows
                 PROVE  y[r] = IF z = <<>> THEN ChosenRows[m][r]
                               ELSE Total([k \in 0 .. Width(m) - 1 |-> z[k] * ChosenRows[m][r][k]], Width(m))
      BY DEF Answers
    <2>1. /\ m.quant \in Quants /\ m.rows[r] \in Seq(Int) /\ Len(m.rows[r]) = Width(m) /\ Width(m) \in Nat \ {0}
          /\ Stored[m][r] = QuantizeRow(m.quant, m.rows[r]) /\ Len(x) = Width(m)
      BY RowsAre
    <2> DEFINE t == [k \in 0 .. Len(x) - 1 |-> x[k + 1] * PackedValue(m.quant, QuantizeRow(m.quant, m.rows[r]), k)]
               p == Products(m.quant, m.rows[r], z)
    <2>2. y[r] = Total(t, Len(x))
      BY <2>1, Zenon DEF PlainRow
    <2>3. \A k \in 0 .. Width(m) - 1 : t[k] = p[k]
      <3> SUFFICES ASSUME NEW k \in 0 .. Width(m) - 1 PROVE t[k] = p[k]
        OBVIOUS
      <3>1. PackedValue(m.quant, QuantizeRow(m.quant, m.rows[r]), k) = Chosen(m.quant, m.rows[r], k)
        BY <2>1, PackedReads
      <3>2. z[k] = x[k + 1] /\ t[k] = x[k + 1] * PackedValue(m.quant, QuantizeRow(m.quant, m.rows[r]), k)
        BY <2>1, Zenon
      <3>3. p[k] = z[k] * Chosen(m.quant, m.rows[r], k)
        BY <2>1, Zenon DEF Products
      <3> QED BY <3>1, <3>2, <3>3, Zenon
    <2>4. DOMAIN z = 0 .. Width(m) - 1
      BY <2>1, Zenon
    <2> HIDE DEF t, z, y
    <2>5. Alike(t, p, Width(m))
      BY <2>1, <2>3 DEF Alike
    <2>6. Total(t, Width(m)) = Total(p, Width(m))
      <3> HIDE DEF p
      <3> QED BY <2>5, TotalSame
    <2>7. y[r] = Total(p, Width(m))
      BY <2>1, <2>2, <2>6, Zenon
    <2> QED BY <2>1, <2>4, <2>7, ProductIs
  <1> HIDE DEF z, y
  <1> QED BY <1>1, <1>2, AnsweredTrue

LEMMA RowReadTrue ==
    ASSUME NEW m \in Matrices, RowRead(m)
    PROVE  ProductsAreTrue'
  <1> DEFINE y == [r \in DOMAIN m.rows |-> RowValues(m.quant, Stored[m][r], Width(m))]
  <1>1. Called(m, <<>>, y)
    BY Zenon DEF RowRead
  <1>2. ASSUME NEW r \in DOMAIN m.rows PROVE y[r] = ChosenRows[m][r]
    <2>1. /\ m.quant \in Quants /\ m.rows[r] \in Seq(Int) /\ Len(m.rows[r]) = Width(m)
          /\ Stored[m][r] = QuantizeRow(m.quant, m.rows[r])
          /\ ChosenRows[m][r] = [k \in 0 .. Width(m) - 1 |-> Chosen(m.quant, m.rows[r], k)]
      BY RowsAre
    <2>2. y[r] = RowValues(m.quant, QuantizeRow(m.quant, m.rows[r]), Len(m.rows[r]))
      BY <2>1, Zenon
    <2>3. RowValues(m.quant, QuantizeRow(m.quant, m.rows[r]), Len(m.rows[r]))
          = [k \in 0 .. Len(m.rows[r]) - 1 |-> Chosen(m.quant, m.rows[r], k)]
      BY <2>1, RowReads
    <2> QED BY <2>1, <2>2, <2>3, Zenon
  <1> HIDE DEF y
  <1>3. Answers(m, <<>>, y)
    BY <1>2, Zenon DEF Answers
  <1> QED BY <1>1, <1>3, AnsweredTrue

----------------------------------------------------------------------------
\* Every projection, by whatever kernel, of whatever matrix the converter wrote
\* in whichever of its formats, is the product of the rows it chose with the
\* activations, at every width and whatever the scratch buffer held before; and a
\* row read by itself is the one chosen (c/qwanto_kernels.c:661-1218,
\* c/tools/qwn_convert.py:161-485).
THEOREM ProductsAlwaysTrue == ProjectionsSpec => []ProductsAreTrue
  <1> DEFINE Inv == ScratchShape /\ ProductsAreTrue
  <1>1. ProjectionsInit => Inv
    <2> SUFFICES ASSUME ProjectionsInit PROVE Inv
      OBVIOUS
    <2>1. ProductsAreTrue
      BY Zenon DEF ProjectionsInit, ProductsAreTrue
    <2>2. ScratchShape
      <3>1. PICK summed \in BOOLEAN :
               scratch = [q8 |-> [k \in 0 .. PaddedK - 1 |-> 0],
                          sums |-> [b \in 0 .. SumBlocks - 1 |-> 0], summed |-> summed]
        BY Zenon DEF ProjectionsInit
      <3> QED BY <3>1 DEF ScratchShape
    <2> QED BY <2>1, <2>2
  <1>2. Inv /\ [ProjectionsNext]_projectionVars => Inv'
    <2> SUFFICES ASSUME Inv, [ProjectionsNext]_projectionVars PROVE Inv'
      OBVIOUS
    <2>1. CASE UNCHANGED projectionVars
      <3>1. scratch' = scratch /\ answer' = answer
        BY <2>1 DEF projectionVars
      <3>2. ChosenRows' = ChosenRows
        BY DEF ChosenRows
      <3> QED BY <3>1, <3>2, Zenon DEF ScratchShape, ProductsAreTrue, Width
    <2>2. ASSUME NEW m \in Matrices, NEW x \in Inputs(Width(m)), HyperMatmul(m, x) PROVE Inv'
      <3> DEFINE kern == IF kernel = "rows" /\ Width(m) % Elems("hyper_vsq2") # 0 THEN "delayed" ELSE kernel
      <3>1. /\ m.quant = H /\ Width(m) <= PaddedK /\ scratch' = Prepared(x)
            /\ Called(m, scratch'.q8, [r \in DOMAIN m.rows |-> HyperDot(kern, Stored[m][r], Width(m), scratch')])
        BY <2>2, Zenon DEF HyperMatmul, H
      <3> HIDE DEF kern
      <3> QED BY <3>1, HyperRowsTrue
    <2>3. ASSUME NEW m \in Matrices, NEW x \in Inputs(Width(m)), DeviceMatmul(m, x) PROVE Inv'
      <3>1. /\ m.quant = H /\ Width(m) <= PaddedK /\ scratch' = Prepared(x)
            /\ Called(m, scratch'.q8, [r \in DOMAIN m.rows |-> HyperDot("cuda", Stored[m][r], Width(m), scratch')])
        BY <2>3, Zenon DEF DeviceMatmul, H
      <3> QED BY <3>1, HyperRowsTrue
    <2>4. ASSUME NEW m \in Matrices, NEW x \in Inputs(Width(m)), Q4Matmul(m, x) PROVE Inv'
      <3>1. m.quant = Q4 /\ Width(m) <= PaddedK /\ scratch' = Prepared(x)
        BY <2>4, Zenon DEF Q4Matmul, Q4
      <3>2. PICK vectors \in BOOLEAN :
               Called(m, scratch'.q8,
                      [r \in DOMAIN m.rows |-> Q4Row(Stored[m][r], Width(m), scratch', vectors)])
        BY <2>4, Zenon DEF Q4Matmul
      <3> QED BY <3>1, <3>2, Q4RowsTrue
    <2>5. ASSUME NEW m \in Matrices, NEW x \in Inputs(Width(m)), PackedMatmul(m, x) PROVE Inv'
      <3>1. scratch' = scratch
        BY <2>5 DEF PackedMatmul
      <3>2. ProductsAreTrue'
        BY <2>5, PackedTrue
      <3> QED BY <3>1, <3>2 DEF ScratchShape
    <2>6. ASSUME NEW m \in Matrices, RowRead(m) PROVE Inv'
      <3>1. scratch' = scratch
        BY <2>6 DEF RowRead
      <3>2. ProductsAreTrue'
        BY <2>6, RowReadTrue
      <3> QED BY <3>1, <3>2 DEF ScratchShape
    <2> HIDE DEF Inv
    <2> QED BY <2>1, <2>2, <2>3, <2>4, <2>5, <2>6 DEF ProjectionsNext
  <1> QED BY <1>1, <1>2, PTL DEF ProjectionsSpec

=============================================================================

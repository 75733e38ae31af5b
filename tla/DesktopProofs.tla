---------------------------- MODULE DesktopProofs ----------------------------
(***************************************************************************)
(* The desktop application, for any number of prompts, processes, sidecars,   *)
(* sessions, folders and tools: no mutation without an approval of its own,   *)
(* no process left behind, a status that is true, and stores that hold what   *)
(* was stored wherever a command is cut short.                               *)
(***************************************************************************)
EXTENDS Desktop, SequenceTheorems, TLAPS

(***************************************************************************)
(* Approvals.                                                               *)
(***************************************************************************)
Owners == Sessions \cup {"desktop-internet"}
Tokens == [session : Owners, tool : {a.tool : a \in Actions},
           hash : {ArgsHash(a) : a \in Actions}, root : Roots \cup {"none"},
           mode : {"plan", "agent"}]
Deeds == [token : Nat, call : Actions, did : Tokens, late : BOOLEAN]

PolicyTypes ==
  /\ mode \in {"plan", "agent"} /\ root \in Roots \cup {"none"}
  /\ issued \in Seq(Tokens) /\ acts \in Seq(Deeds)
  /\ asked \in Seq(Actions) /\ Len(asked) = Len(issued)
  /\ expired \in Nat
  /\ live \subseteq Nat /\ offered \subseteq 1 .. Len(issued)

\* A token keeps the tool and the hash of the action it was issued for.
Speaks(token, a) == token.tool = a.tool /\ token.hash = ArgsHash(a)
TokensSpeak == \A t \in 1 .. Len(issued) : Speaks(issued[t], asked[t])

\* A deed was allowed by a token like it, which is in the registry no more ...
Allowed(i) ==
  /\ Speaks(acts[i].did, acts[i].call)
  /\ ~acts[i].late /\ acts[i].did.mode = "agent"
  /\ acts[i].token \in 1 .. Len(issued)
  /\ issued[acts[i].token] = acts[i].did
  /\ acts[i].token \notin live

\* ... and allowed no other.
AllowedOnce ==
  \A i, j \in 1 .. Len(acts) : acts[i].token = acts[j].token => i = j
PolicyInv ==
  PolicyTypes /\ TokensSpeak /\ (\A i \in 1 .. Len(acts) : Allowed(i)) /\ AllowedOnce

LEMMA PolicyInit == ApInit => PolicyInv
  BY DEF ApInit, PolicyInv, PolicyTypes, TokensSpeak, AllowedOnce, Tokens, Deeds

\* A call issues a token, and the tokens before it stay what they are.
LEMMA Issues ==
  ASSUME PolicyTypes, NEW s \in Owners, NEW a \in Actions, IssueToken(s, a)
  PROVE  /\ Token(s, a) \in Tokens
         /\ issued' \in Seq(Tokens) /\ Len(issued') = Len(issued) + 1
         /\ Len(issued) \in Nat
         /\ \A t \in 1 .. Len(issued) : issued'[t] = issued[t]
  <1>1. Token(s, a) \in Tokens
    BY DEF PolicyTypes, Token, Tokens
  <1>2. QED
    BY <1>1, AppendProperties DEF PolicyTypes, IssueToken

\* The new token speaks of the action it is for, as those before it do of theirs.
LEMMA IssuesSpeak ==
  ASSUME PolicyTypes, TokensSpeak, NEW s \in Owners, NEW a \in Actions, IssueToken(s, a)
  PROVE  asked' \in Seq(Actions) /\ Len(asked') = Len(issued') /\ TokensSpeak'
  <1>1. /\ asked' \in Seq(Actions) /\ Len(asked') = Len(asked) + 1
        /\ asked'[Len(asked) + 1] = a
        /\ \A t \in 1 .. Len(asked) : asked'[t] = asked[t]
    BY AppendProperties DEF PolicyTypes, IssueToken
  <1>2. /\ Len(issued') = Len(issued) + 1 /\ Len(issued) \in Nat
        /\ \A t \in 1 .. Len(issued) : issued'[t] = issued[t]
    BY Issues
  <1>3. issued'[Len(issued) + 1] = Token(s, a)
    <2>1. Token(s, a) \in Tokens /\ issued \in Seq(Tokens)
      BY Issues DEF PolicyTypes
    <2>2. QED
      BY <2>1, AppendProperties DEF IssueToken
  <1>4. Len(asked) = Len(issued)
    BY DEF PolicyTypes
  <1>5. Speaks(Token(s, a), a)
    BY DEF Speaks, Token
  <1>6. TokensSpeak'
    <2> SUFFICES ASSUME NEW t \in 1 .. Len(issued) + 1 PROVE Speaks(issued'[t], asked'[t])
      BY <1>2 DEF TokensSpeak, Speaks
    <2>1. CASE t = Len(issued) + 1
      BY <1>1, <1>3, <1>4, <1>5, <2>1
    <2>2. CASE t # Len(issued) + 1
      <3>1. t \in 1 .. Len(issued)
        BY <1>2, <2>2
      <3>2. Speaks(issued[t], asked[t])
        BY <3>1 DEF TokensSpeak
      <3>3. QED
        BY <1>1, <1>2, <1>4, <3>1, <3>2
    <2>3. QED
      BY <2>1, <2>2
  <1>7. QED
    BY <1>1, <1>2, <1>4, <1>6

LEMMA OneMore ==
  ASSUME NEW n \in Nat, NEW S, S \subseteq 1 .. n
  PROVE  S \cup {n + 1} \subseteq 1 .. n + 1
  OBVIOUS

LEMMA RegistryTypes ==
  ASSUME PolicyTypes
  PROVE  /\ Registered \subseteq Nat
         /\ \A t \in 1 .. Len(issued) : t \in Registered => t \in live /\ t > expired
  <1>1. Len(issued) \in Nat /\ live \subseteq Nat /\ expired \in Nat
    BY LenProperties DEF PolicyTypes
  <1>2. Kept \subseteq Nat /\ Registered = Kept \cup {Len(issued) + 1}
    BY <1>1 DEF Registered, Kept
  <1>3. \A t \in 1 .. Len(issued) : t # Len(issued) + 1
    BY <1>1
  <1>4. \A t \in Kept : t \in live /\ t > expired
    BY DEF Kept
  <1>5. Len(issued) + 1 \in Nat
    BY <1>1
  <1>6. Registered \subseteq Nat
    BY <1>2, <1>5
  <1>7. QED
    BY <1>2, <1>3, <1>4, <1>6

LEMMA NeedsApprovalKeeps ==
  ASSUME PolicyInv, NEW s \in Owners, NEW a \in Actions, NeedsApproval(s, a)
  PROVE  PolicyInv'
  <1>1. IssueToken(s, a) /\ PolicyTypes
    BY DEF NeedsApproval, PolicyInv
  <1>2. /\ offered' = offered \cup {Len(issued')} /\ live' = Registered
        /\ UNCHANGED <<mode, root, expired, acts>>
    BY DEF NeedsApproval
  <1>3. PolicyTypes'
    <2>1. issued' \in Seq(Tokens) /\ live' \subseteq Nat
      BY <1>1, <1>2, Issues, RegistryTypes
    <2>2. offered' \subseteq 1 .. Len(issued')
      <3>1. Len(issued') = Len(issued) + 1 /\ Len(issued) \in Nat
        BY <1>1, Issues
      <3>2. offered \subseteq 1 .. Len(issued)
        BY <1>1 DEF PolicyTypes
      <3>3. QED
        BY <1>2, <3>1, <3>2, OneMore
    <2>3. asked' \in Seq(Actions) /\ Len(asked') = Len(issued')
      BY <1>1, IssuesSpeak DEF PolicyInv
    <2>4. QED
      BY <1>1, <1>2, <2>1, <2>2, <2>3 DEF PolicyTypes
  <1>4. \A i \in 1 .. Len(acts) : Allowed(i)'
    BY <1>1, <1>2, Issues DEF PolicyInv, Allowed, Registered, Kept
  <1>5. TokensSpeak'
    BY <1>1, IssuesSpeak DEF PolicyInv
  <1>6. QED
    BY <1>2, <1>3, <1>4, <1>5 DEF PolicyInv, AllowedOnce

LEMMA RefusedKeeps ==
  ASSUME PolicyInv, NEW s \in Owners, NEW a \in Actions, NEW t \in offered, Refused(s, a, t)
  PROVE  PolicyInv'
  <1>1. IssueToken(s, a) /\ PolicyTypes
    BY DEF Refused, PolicyInv
  <1>2. PolicyTypes' /\ TokensSpeak'
    <2>1. asked' \in Seq(Actions) /\ Len(asked') = Len(issued') /\ TokensSpeak'
      BY <1>1, IssuesSpeak DEF PolicyInv
    <2>2. /\ issued' \in Seq(Tokens) /\ live' \subseteq Nat
          /\ Len(issued') = Len(issued) + 1 /\ Len(issued) \in Nat
      BY <1>1, Issues, RegistryTypes DEF Refused, ConsumeToken
    <2>3. /\ offered' \subseteq 1 .. Len(issued')
          /\ UNCHANGED <<mode, root, expired, offered, acts>>
      BY <1>1, <2>2 DEF PolicyTypes, Refused
    <2>4. QED
      BY <1>1, <2>1, <2>2, <2>3 DEF PolicyTypes
  <1>3. \A i \in 1 .. Len(acts) : Allowed(i)'
    BY <1>1, Issues DEF PolicyInv, Refused, ConsumeToken, Allowed, Registered, Kept
  <1>4. QED
    BY <1>2, <1>3 DEF PolicyInv, AllowedOnce, Refused

\* A token that fits a call was issued for the very same one.
LEMMA FittingToken ==
  ASSUME PolicyTypes, NEW s \in Owners, NEW a \in Actions, NEW t \in offered, Fits(t, s, a)
  PROVE  /\ t \in 1 .. Len(issued) /\ t \in live /\ t > expired
         /\ issued[t] = Token(s, a) /\ mode = "agent"
  <1>1. t \in 1 .. Len(issued) /\ issued[t] \in Tokens
    BY ElementOfSeq DEF PolicyTypes
  <1>2. t \in live /\ t > expired /\ mode = "agent"
    BY <1>1 DEF Fits, Registered, Kept, PolicyTypes
  <1>3. issued[t] = Token(s, a)
    BY <1>1 DEF Fits, Token, Tokens
  <1>4. QED
    BY <1>1, <1>2, <1>3

LEMMA TriedKeeps ==
  ASSUME PolicyInv, NEW s \in Owners, NEW a \in Actions, NEW t \in offered,
         NEW done \in BOOLEAN, Tried(s, a, t, done)
  PROVE  PolicyInv'
  <1>1. IssueToken(s, a) /\ PolicyTypes /\ Fits(t, s, a)
    BY DEF Tried, PolicyInv
  <1>2. /\ t \in 1 .. Len(issued) /\ t \in live /\ t > expired
        /\ issued[t] = Token(s, a) /\ mode = "agent"
    BY <1>1, FittingToken
  <1>3. live' = Registered \ {t} /\ UNCHANGED <<mode, root, expired, offered>>
    BY DEF Tried, ConsumeToken
  <1>6. /\ mode' \in {"plan", "agent"} /\ root' \in Roots \cup {"none"}
        /\ issued' \in Seq(Tokens) /\ acts \in Seq(Deeds) /\ expired' \in Nat
        /\ live' \subseteq Nat /\ offered' \subseteq 1 .. Len(issued')
        /\ asked' \in Seq(Actions) /\ Len(asked') = Len(issued') /\ TokensSpeak'
    <2>1. issued' \in Seq(Tokens) /\ live' \subseteq Nat
      BY <1>1, <1>3, Issues, RegistryTypes
    <2>2. offered' \subseteq 1 .. Len(issued')
      BY <1>1, <1>3, Issues DEF PolicyTypes
    <2>3. asked' \in Seq(Actions) /\ Len(asked') = Len(issued') /\ TokensSpeak'
      BY <1>1, IssuesSpeak DEF PolicyInv
    <2>4. QED
      BY <1>1, <1>3, <2>1, <2>2, <2>3 DEF PolicyTypes
  <1>4. CASE acts' = acts
    <2>1. PolicyTypes'
      BY <1>4, <1>6 DEF PolicyTypes
    <2>2. \A i \in 1 .. Len(acts) : Allowed(i)'
      BY <1>1, <1>3, <1>4, Issues DEF PolicyInv, Allowed, Registered, Kept
    <2>3. QED
      BY <1>6, <2>1, <2>2, <1>4 DEF PolicyInv, AllowedOnce
  <1>5. CASE acts' # acts
    <2> DEFINE deed == [token |-> t, call |-> a, did |-> Token(s, a), late |-> t <= expired]
    <2>1. acts' = Append(acts, deed)
      BY <1>5 DEF Tried
    <2>2. Token(s, a) \in Tokens /\ t \in Nat /\ (t <= expired) = FALSE
      BY <1>1, <1>2, Issues DEF PolicyTypes
    <2>3. deed \in Deeds
      BY <2>2 DEF Deeds
    <2>4. /\ acts' \in Seq(Deeds) /\ Len(acts') = Len(acts) + 1 /\ Len(acts) \in Nat
          /\ \A i \in 1 .. Len(acts) : acts'[i] = acts[i]
          /\ acts'[Len(acts) + 1] = deed
      BY <1>1, <2>1, <2>3, AppendProperties DEF PolicyTypes
    <2>5. PolicyTypes'
      BY <1>6, <2>4 DEF PolicyTypes
    <2>6. \A i \in 1 .. Len(acts) : Allowed(i)' /\ acts'[i].token # t
      BY SMTT(30), <1>1, <1>2, <1>3, <2>4, Issues DEF PolicyInv, Allowed, Registered, Kept
    <2>7. /\ t \notin live' /\ t \in 1 .. Len(issued') /\ issued'[t] = Token(s, a)
          /\ Token(s, a).mode = "agent"
      BY <1>1, <1>2, <1>3, Issues DEF Token
    <2>8. \A i \in 1 .. Len(acts') : Allowed(i)'
      <3> SUFFICES ASSUME NEW i \in 1 .. Len(acts) + 1 PROVE Allowed(i)'
        BY <2>4
      <3>1. CASE i = Len(acts) + 1
        <4>1. acts'[i] = deed
          BY <2>4, <3>1
        <4>2. /\ deed.token = t /\ deed.did = Token(s, a) /\ deed.late = FALSE
              /\ deed.call = a /\ Speaks(Token(s, a), a)
          BY <2>2 DEF Speaks, Token
        <4>3. QED
          BY <2>7, <4>1, <4>2 DEF Allowed
      <3>2. CASE i # Len(acts) + 1
        BY <2>4, <2>6, <3>2
      <3>3. QED
        BY <3>1, <3>2
    <2>9. AllowedOnce'
      BY <2>4, <2>6 DEF PolicyInv, AllowedOnce
    <2>10. QED
      BY <1>6, <2>4, <2>5, <2>8, <2>9 DEF PolicyInv
  <1>7. QED
    BY <1>4, <1>5

LEMMA ToolCallKeeps ==
  ASSUME PolicyInv, NEW a \in Actions, ToolCall(a)
  PROVE  PolicyInv'
  BY NeedsApprovalKeeps, RefusedKeeps, TriedKeeps DEF ToolCall, Owners

LEMMA PolicyStep == PolicyInv /\ [Next]_allVars => PolicyInv'
  <1> SUFFICES ASSUME PolicyInv, [Next]_allVars PROVE PolicyInv'
    OBVIOUS
  <1>1. CASE UNCHANGED apVars
    BY <1>1 DEF apVars, PolicyInv, PolicyTypes, TokensSpeak, Allowed, AllowedOnce
  <1>2. CASE PolicyCommand
    <2>1. CASE \E m \in {"plan", "agent"} : SetExecutionMode(m)
      BY <2>1 DEF SetExecutionMode, PolicyInv, PolicyTypes, TokensSpeak, Allowed, AllowedOnce
    <2>2. CASE \E r \in Roots : SetWorkspaceRoot(r)
      BY <2>2 DEF SetWorkspaceRoot, PolicyInv, PolicyTypes, TokensSpeak, Allowed, AllowedOnce
    <2>3. CASE \E a \in Actions : ToolCall(a)
      BY <2>3, ToolCallKeeps
    <2>4. QED
      BY <1>2, <2>1, <2>2, <2>3 DEF PolicyCommand
  <1>3. CASE TimePasses
    BY <1>3 DEF TimePasses, PolicyInv, PolicyTypes, TokensSpeak, Allowed, AllowedOnce
  <1>4. CASE WebSearch
    <2>1. "desktop-internet" \in Owners
      BY DEF Owners
    <2>2. QED
      BY <1>4, <2>1, NeedsApprovalKeeps, RefusedKeeps, TriedKeeps DEF WebSearch
  <1>5. Next => UNCHANGED apVars \/ PolicyCommand \/ TimePasses \/ WebSearch
    BY DEF Next, RuntimeCommand, RuntimeGoesOn, ReaderRuns, EngineRuns, EngineFails, RtRest,
           SetupThread, GatewayGoesOn, GatewayCommand, GatewayFails, GwRest, ClockTicks,
           StoreCommand, Leaves, Leave
  <1>6. QED
    BY <1>1, <1>2, <1>3, <1>4, <1>5 DEF allVars

\* Two actions with one tool and one args_hash agree in what the hash covers.
LEMMA HashCovers ==
  ASSUME NEW a, NEW b, a.tool = b.tool, ArgsHash(a) = ArgsHash(b)
  PROVE  Covered(a) = Covered(b)
  <1>1. CASE a.tool = "write_file"
    BY <1>1 DEF ArgsHash, Covered
  <1>2. CASE a.tool = "edit_file"
    BY <1>2 DEF ArgsHash, Covered
  <1>3. CASE a.tool = "web_search"
    BY <1>3 DEF ArgsHash, Covered
  <1>4. CASE a.tool \notin {"write_file", "edit_file", "web_search"}
    BY <1>4 DEF Covered
  <1>5. QED
    BY <1>1, <1>2, <1>3, <1>4

(* Every mutation was approved (permission_policy.rs, tool_executor.rs): a    *)
(* token of the same session, tool, args_hash and folder, given in agent mode, *)
(* young enough, and used for nothing else.  The file written or edited and    *)
(* the query searched for are the approved ones, because the hash covers them; *)
(* the other arguments may differ (ExactArguments fails).                     *)
THEOREM MutationsAlwaysApproved == Spec => []MutationsAreApproved
  <1>1. Init => PolicyInv
    BY PolicyInit DEF Init
  <1>2. PolicyInv => MutationsAreApproved
    <2> SUFFICES ASSUME PolicyInv PROVE MutationsAreApproved
      OBVIOUS
    <2>1. DOMAIN acts = 1 .. Len(acts)
      BY DEF PolicyInv, PolicyTypes
    <2>2. ASSUME NEW i \in 1 .. Len(acts)
          PROVE  /\ asked[acts[i].token].tool = acts[i].call.tool
                 /\ Covered(asked[acts[i].token]) = Covered(acts[i].call)
      <3> DEFINE was == asked[acts[i].token]  is == acts[i].call
      <3>1. Speaks(issued[acts[i].token], was) /\ Speaks(issued[acts[i].token], is)
        BY DEF PolicyInv, Allowed, TokensSpeak
      <3> HIDE DEF was, is
      <3>2. was.tool = is.tool /\ ArgsHash(was) = ArgsHash(is)
        BY <3>1 DEF Speaks
      <3>3. Covered(was) = Covered(is)
        BY <3>2, HashCovers
      <3>4. QED
        BY <3>2, <3>3 DEF was, is
    <2>3. QED
      BY <2>1, <2>2 DEF PolicyInv, Allowed, AllowedOnce, MutationsAreApproved
  <1>3. QED
    BY <1>1, <1>2, PolicyStep, PTL DEF Spec
-----------------------------------------------------------------------------
(***************************************************************************)
(* The processes of the models.                                             *)
(***************************************************************************)
Ids == Prompts \cup {"none"}
Ops == {"SUBMIT", "BODY", "CANCEL", "READY", "DATA", "DONE", "ERROR"}
Frames == [op : Ops, id : Ids]
Jobs == [at : {"boot", "idle", "body", "generate"}, id : Ids, n : Nat]
Procs == [alive : BOOLEAN, reading : BOOLEAN, in : Seq(Frames), out : Seq(Frames),
          job : Jobs]

RuntimeTypes ==
  /\ proc \in Seq(Procs) /\ child \in 0 .. Len(proc) /\ stdin \in 0 .. Len(proc)
  /\ status \in [running : BOOLEAN, pid : Nat]
  /\ cmd \in [op : {"none", "start", "header", "body", "cancel"}, id : Ids]

\* A start has none to lose, and a running status without a process has a
\* reader left to correct it.
RuntimeInv ==
  /\ RuntimeTypes
  /\ Living \subseteq {child}
  /\ cmd.op = "start" => child = 0
  /\ child = 0 /\ status.running => \E p \in 1 .. Len(proc) : proc[p].reading

\* What a step does that neither starts a process nor ends a reader.
Revives(p) == proc'[p].alive /\ ~proc[p].alive
Tame ==
  /\ proc' \in Seq(Procs) /\ Len(proc') = Len(proc)
  /\ \A p \in 1 .. Len(proc) : ~Revives(p) /\ proc'[p].reading = proc[p].reading

LEMMA RuntimeInit == RtInit => RuntimeInv
  BY DEF RtInit, RuntimeInv, RuntimeTypes, Living, NoCmd, Ids

LEMMA Replaced ==
  ASSUME RuntimeTypes, NEW p \in 1 .. Len(proc), NEW r \in Procs,
         proc' = [proc EXCEPT ![p] = r]
  PROVE  /\ proc' \in Seq(Procs) /\ Len(proc') = Len(proc)
         /\ proc'[p] = r
         /\ \A q \in 1 .. Len(proc) : q # p => proc'[q] = proc[q]
  BY ExceptSeq DEF RuntimeTypes

LEMMA TameReplaced ==
  ASSUME RuntimeTypes, NEW p \in 1 .. Len(proc), NEW r \in Procs,
         proc' = [proc EXCEPT ![p] = r],
         r.alive => proc[p].alive, r.reading = proc[p].reading
  PROVE  Tame
  BY Replaced DEF Tame, Revives

LEMMA ProcTypes ==
  ASSUME RuntimeTypes, NEW p \in 1 .. Len(proc)
  PROVE  /\ proc[p] \in Procs
         /\ proc[p].in # <<>> => Head(proc[p].in) \in Frames /\ Tail(proc[p].in) \in Seq(Frames)
         /\ proc[p].out # <<>> => Head(proc[p].out) \in Frames /\ Tail(proc[p].out) \in Seq(Frames)
  <1>1. proc[p] \in Procs
    BY ElementOfSeq DEF RuntimeTypes
  <1>2. proc[p].in \in Seq(Frames) /\ proc[p].out \in Seq(Frames)
    BY <1>1 DEF Procs
  <1>3. QED
    BY <1>1, <1>2, HeadTailProperties

LEMMA PrintsTame ==
  ASSUME RuntimeTypes, NEW p \in 1 .. Len(proc), NEW fs \in Seq(Frames), NEW j \in Jobs,
         Prints(p, fs, j)
  PROVE  Tame
  <1> DEFINE r == [proc[p] EXCEPT !.out = @ \o fs, !.job = j]
  <1>1. proc[p] \in Procs
    BY ProcTypes
  <1>2. proc[p].out \o fs \in Seq(Frames)
    BY <1>1, ConcatProperties DEF Procs
  <1>3. r \in Procs /\ r.alive = proc[p].alive /\ r.reading = proc[p].reading
    BY <1>1, <1>2 DEF Procs
  <1>4. proc' = [proc EXCEPT ![p] = r]
    BY <1>1 DEF Prints, Procs
  <1>5. QED
    BY <1>3, <1>4, TameReplaced

LEMMA TakesInTame ==
  ASSUME RuntimeTypes, NEW p \in 1 .. Len(proc), NEW j \in Jobs,
         proc[p].in # <<>>, TakesIn(p, j)
  PROVE  Tame
  <1> DEFINE r == [proc[p] EXCEPT !.in = Tail(@), !.job = j]
  <1>1. proc[p] \in Procs /\ Tail(proc[p].in) \in Seq(Frames)
    BY ProcTypes
  <1>2. r \in Procs /\ r.alive = proc[p].alive /\ r.reading = proc[p].reading
    BY <1>1 DEF Procs
  <1>3. proc' = [proc EXCEPT ![p] = r]
    BY <1>1 DEF TakesIn, Procs
  <1>4. QED
    BY <1>2, <1>3, TameReplaced

\* The engine's own steps.
LEMMA EngineTame ==
  ASSUME RuntimeTypes, NEW p \in 1 .. Len(proc), EngineStep(p)
  PROVE  Tame
  <1>1. proc[p] \in Procs /\ proc[p].job \in Jobs
    BY ProcTypes DEF Procs
  <1>2. Idle \in Jobs
    BY DEF Idle, NoJob, Jobs, Ids
  <1>3. ASSUME NEW op \in Ops, NEW i \in Ids PROVE <<Frame(op, i)>> \in Seq(Frames)
    BY DEF Frame, Frames
  <1>4. CASE EngineReady(p)
    <2>1. <<Frame("READY", "none")>> \in Seq(Frames)
      BY <1>3 DEF Ids, Ops
    <2>2. QED
      BY <1>2, <1>4, <2>1, PrintsTame DEF EngineReady
  <1>5. CASE EngineSubmit(p)
    <2>1. proc[p].in # <<>> /\ Head(proc[p].in) \in Frames
      BY <1>5, ProcTypes DEF EngineSubmit, Next1
    <2>2. [at |-> "body", id |-> Head(proc[p].in).id, n |-> 0] \in Jobs
      BY <2>1 DEF Frames, Jobs
    <2>3. QED
      BY <1>5, <2>1, <2>2, TakesInTame DEF EngineSubmit
  <1>6. CASE EngineBody(p)
    <2>1. [proc[p].job EXCEPT !.at = "generate"] \in Jobs
      BY <1>1 DEF Jobs
    <2>2. QED
      BY <1>6, <2>1, TakesInTame DEF EngineBody, Next1
  <1>7. CASE EngineToken(p)
    <2>1. [proc[p].job EXCEPT !.n = @ + 1] \in Jobs /\ proc[p].job.id \in Ids
      BY <1>1 DEF Jobs
    <2>2. <<Frame("DATA", proc[p].job.id)>> \in Seq(Frames)
      BY <1>3, <2>1 DEF Ops
    <2>3. QED
      BY <1>7, <2>1, <2>2, PrintsTame DEF EngineToken
  <1>8. CASE EngineEnds(p)
    <2>1. PICK op \in {"DONE", "ERROR"} : Prints(p, <<Frame(op, proc[p].job.id)>>, Idle)
      BY <1>8 DEF EngineEnds
    <2>2. proc[p].job.id \in Ids /\ op \in Ops
      BY <1>1 DEF Jobs, Ops
    <2>3. <<Frame(op, proc[p].job.id)>> \in Seq(Frames)
      BY <1>3, <2>2
    <2>4. QED
      BY <1>2, <2>1, <2>3, PrintsTame
  <1>9. CASE EngineCancel(p)
    <2> DEFINE f == Frame("ERROR", Head(proc[p].in).id)
               r == [proc[p] EXCEPT !.in = Tail(@), !.out = Append(@, f)]
    <2>1. Head(proc[p].in) \in Frames /\ Tail(proc[p].in) \in Seq(Frames)
      BY <1>9, ProcTypes DEF EngineCancel, Next1
    <2>2. f \in Frames
      BY <2>1 DEF Frame, Frames, Ops
    <2>3. Append(proc[p].out, f) \in Seq(Frames)
      BY <1>1, <2>2, AppendProperties DEF Procs
    <2>4. r \in Procs /\ r.alive = proc[p].alive /\ r.reading = proc[p].reading
      BY <1>1, <2>1, <2>3 DEF Procs
    <2>5. proc' = [proc EXCEPT ![p] = r]
      BY <1>1, <1>9 DEF EngineCancel, Procs
    <2>6. QED
      BY <2>4, <2>5, TameReplaced
  <1>10. QED
    BY <1>4, <1>5, <1>6, <1>7, <1>8, <1>9 DEF EngineStep

\* The end of a process, whoever brings it about.
LEMMA DeadTame ==
  ASSUME RuntimeTypes, NEW p \in 1 .. Len(proc), proc' = [proc EXCEPT ![p] = Dead(@)]
  PROVE  Tame /\ ~proc'[p].alive
  <1> DEFINE r == Dead(proc[p])
  <1>1. proc[p] \in Procs
    BY ProcTypes
  <1>2. <<>> \in Seq(Frames) /\ NoJob \in Jobs
    BY DEF NoJob, Jobs, Ids
  <1>3. r \in Procs /\ ~r.alive /\ r.reading = proc[p].reading
    BY <1>1, <1>2 DEF Procs, Dead
  <1>4. proc' = [proc EXCEPT ![p] = r]
    OBVIOUS
  <1>5. QED
    BY <1>3, <1>4, TameReplaced, Replaced

\* A write into the pipe of the managed process, if there is one.
LEMMA WritesTame ==
  ASSUME RuntimeTypes, NEW op \in Ops, Writes(op)
  PROVE  Tame
  <1>1. CASE stdin = 0
    <2>1. DOMAIN proc = 1 .. Len(proc)
      BY LenProperties DEF RuntimeTypes
    <2>2. proc' = proc
      BY <1>1, <2>1 DEF Writes, RuntimeTypes
    <2>3. QED
      BY <2>2 DEF RuntimeTypes, Tame, Revives
  <1>2. CASE stdin # 0
    <2> DEFINE f == Frame(op, cmd.id)
               r == [proc[stdin] EXCEPT !.in = Append(@, f)]
    <2>1. stdin \in 1 .. Len(proc)
      BY <1>2, LenProperties DEF RuntimeTypes
    <2>2. proc[stdin] \in Procs
      BY <2>1, ProcTypes
    <2>3. f \in Frames
      BY DEF RuntimeTypes, Frame, Frames
    <2>4. Append(proc[stdin].in, f) \in Seq(Frames)
      BY <2>2, <2>3, AppendProperties DEF Procs
    <2>5. r \in Procs /\ r.alive = proc[stdin].alive /\ r.reading = proc[stdin].reading
      BY <2>2, <2>4 DEF Procs
    <2>6. proc' = [proc EXCEPT ![stdin] = r]
      BY DEF Writes
    <2>7. QED
      BY <2>1, <2>5, <2>6, TameReplaced
  <1>3. QED
    BY <1>1, <1>2

\* What a tame step leaves true, if it does not lose the managed process.
LEMMA TameKeeps ==
  ASSUME RuntimeInv, Tame, UNCHANGED <<child, stdin>>,
         status' \in [running : BOOLEAN, pid : Nat],
         cmd' \in [op : {"none", "start", "header", "body", "cancel"}, id : Ids],
         cmd'.op = "start" => child = 0,
         child = 0 /\ status'.running => \E p \in 1 .. Len(proc) : proc[p].reading
  PROVE  RuntimeInv'
  <1>1. RuntimeTypes'
    BY DEF RuntimeInv, RuntimeTypes, Tame
  <1>2. DOMAIN proc = 1 .. Len(proc) /\ DOMAIN proc' = 1 .. Len(proc)
    BY LenProperties DEF RuntimeInv, RuntimeTypes, Tame
  <1>3. Living' \subseteq {child'}
    BY <1>2 DEF RuntimeInv, Living, Tame, Revives
  <1>4. QED
    BY <1>1, <1>2, <1>3 DEF RuntimeInv, Tame

\* stop_model leaves no process and no status.
LEMMA StopKills ==
  ASSUME RuntimeInv, StopModel
  PROVE  /\ Tame /\ Living' = {} /\ child' = 0 /\ stdin' = 0
         /\ status' \in [running : BOOLEAN, pid : Nat] /\ ~status'.running
  <1>1. DOMAIN proc = 1 .. Len(proc) /\ Len(proc) \in Nat
    BY LenProperties DEF RuntimeInv, RuntimeTypes
  <1>2. Tame
    <2>1. CASE child = 0
      BY <2>1 DEF StopModel, RuntimeInv, RuntimeTypes, Tame, Revives
    <2>2. CASE child # 0
      <3>1. child \in 1 .. Len(proc)
        BY <1>1, <2>2 DEF RuntimeInv, RuntimeTypes
      <3>2. QED
        BY <2>2, <3>1, DeadTame DEF StopModel, RuntimeInv
    <2>3. QED
      BY <2>1, <2>2
  <1>3. DOMAIN proc' = 1 .. Len(proc)
    BY <1>2, LenProperties DEF Tame
  <1>4. Living' = {}
    <2> SUFFICES ASSUME NEW p \in 1 .. Len(proc), proc'[p].alive PROVE FALSE
      BY <1>3 DEF Living
    <2>1. proc[p].alive
      BY <1>2 DEF Tame, Revives
    <2>2. p = child
      BY <1>1, <2>1 DEF RuntimeInv, Living
    <2>3. proc' = [proc EXCEPT ![p] = Dead(@)]
      BY <1>1, <2>2 DEF StopModel
    <2>4. ~proc'[p].alive
      BY <2>3, DeadTame DEF RuntimeInv
    <2>5. QED
      BY <2>4
  <1>5. QED
    BY <1>2, <1>4 DEF StopModel

LEMMA StopKeeps ==
  ASSUME RuntimeInv, StopModel,
         cmd' \in [op : {"none", "start", "header", "body", "cancel"}, id : Ids]
  PROVE  RuntimeInv'
  <1>1. RuntimeTypes'
    BY StopKills, LenProperties DEF RuntimeInv, RuntimeTypes, Tame
  <1>2. QED
    BY <1>1, StopKills DEF RuntimeInv

LEMMA StartKeeps ==
  ASSUME RuntimeInv, StartSpawns
  PROVE  RuntimeInv'
  <1>1. Fresh \in Procs
    BY DEF Fresh, Procs, NoJob, Jobs, Ids
  <1>2. /\ proc' \in Seq(Procs) /\ Len(proc') = Len(proc) + 1 /\ Len(proc) \in Nat
        /\ \A p \in 1 .. Len(proc) : proc'[p] = proc[p]
        /\ proc'[Len(proc) + 1] = Fresh
    BY <1>1, AppendProperties, LenProperties DEF StartSpawns, RuntimeInv, RuntimeTypes
  <1>3. DOMAIN proc = 1 .. Len(proc) /\ DOMAIN proc' = 1 .. Len(proc) + 1
    BY <1>2, LenProperties DEF RuntimeInv, RuntimeTypes
  <1>4. child' = Len(proc) + 1 /\ stdin' = Len(proc) + 1 /\ cmd' = NoCmd
        /\ status' = [running |-> TRUE, pid |-> Len(proc) + 1] /\ child = 0
    BY <1>2 DEF StartSpawns, RuntimeInv
  <1>5. RuntimeTypes'
    BY <1>2, <1>4 DEF RuntimeTypes, NoCmd, Ids
  <1>6. Living = {}
    BY <1>3, <1>4 DEF RuntimeInv, Living
  <1>7. Living' \subseteq {Len(proc) + 1}
    BY <1>2, <1>3, <1>6 DEF Living
  <1>8. QED
    BY <1>2, <1>4, <1>5, <1>7 DEF RuntimeInv, NoCmd

\* Every command of the interface, from its first step to its last.
LEMMA CommandKeeps ==
  ASSUME RuntimeInv, CommandBegins \/ CommandGoesOn
  PROVE  RuntimeInv'
  <1> DEFINE Types == /\ cmd' \in [op : {"none", "start", "header", "body", "cancel"}, id : Ids]
                      /\ cmd'.op = "start" => child = 0
  <1>0. NoCmd \in [op : {"none", "start", "header", "body", "cancel"}, id : Ids]
    BY DEF NoCmd, Ids
  <1>1. CASE Stop
    BY <1>0, <1>1, StopKeeps DEF Stop, RuntimeInv, RuntimeTypes
  <1>2. CASE StartBegins
    <2>1. cmd' = [op |-> "start", id |-> "none"]
      BY <1>2 DEF StartBegins, NoCmd
    <2>2. cmd' \in [op : {"none", "start", "header", "body", "cancel"}, id : Ids]
      BY <2>1 DEF Ids
    <2>3. QED
      BY <1>2, <2>2, StopKeeps DEF StartBegins
  <1>3. CASE Poll
    <2>1. /\ status' \in [running : BOOLEAN, pid : Nat]
          /\ child = 0 => status' = status
      BY <1>3 DEF Poll, RuntimeInv, RuntimeTypes
    <2>2. Tame
      BY <1>3 DEF Poll, RuntimeInv, RuntimeTypes, Tame, Revives
    <2>3. QED
      BY <1>3, <2>1, <2>2, TameKeeps DEF Poll, RuntimeInv, RuntimeTypes
  <1>4. ASSUME NEW r \in Prompts, SendBegins(r) \/ CancelBegins(r) PROVE RuntimeInv'
    <2>1. UNCHANGED <<proc, child, stdin, status>> /\ Types
      BY <1>4 DEF SendBegins, CancelBegins, Ids
    <2>2. Tame
      BY <2>1 DEF RuntimeInv, RuntimeTypes, Tame, Revives
    <2>3. QED
      BY <2>1, <2>2, TameKeeps DEF RuntimeInv, RuntimeTypes
  <1>5. CASE StartRefused \/ WriteFails
    <2>1. UNCHANGED <<proc, child, stdin, status>> /\ Types
      BY <1>0, <1>5 DEF StartRefused, WriteFails, NoCmd
    <2>2. Tame
      BY <2>1 DEF RuntimeInv, RuntimeTypes, Tame, Revives
    <2>3. QED
      BY <2>1, <2>2, TameKeeps DEF RuntimeInv, RuntimeTypes
  <1>6. CASE StartSpawns
    BY <1>6, StartKeeps
  <1>7. CASE SendHeader \/ SendBody \/ CancelWrites
    <2>1. UNCHANGED <<child, stdin, status>> /\ Types
      BY <1>0, <1>7 DEF SendHeader, SendBody, CancelWrites, NoCmd, RuntimeInv, RuntimeTypes
    <2>2. \E op \in Ops : Writes(op)
      BY <1>7 DEF SendHeader, SendBody, CancelWrites, Ops
    <2>3. Tame
      BY <2>2, WritesTame DEF RuntimeInv
    <2>4. QED
      BY <2>1, <2>3, TameKeeps DEF RuntimeInv, RuntimeTypes
  <1>8. QED
    BY <1>1, <1>2, <1>3, <1>4, <1>5, <1>6, <1>7 DEF CommandBegins, CommandGoesOn

\* The engine's steps and its death.
LEMMA EngineKeeps ==
  ASSUME RuntimeInv, NEW p \in DOMAIN proc, EngineStep(p) \/ EngineDies(p)
  PROVE  RuntimeInv'
  <1>1. p \in 1 .. Len(proc)
    BY LenProperties DEF RuntimeInv, RuntimeTypes
  <1>2. Tame
    BY <1>1, EngineTame, DeadTame DEF EngineDies, RuntimeInv
  <1>3. UNCHANGED <<child, stdin, status, cmd>>
    BY DEF EngineStep, EngineDies
  <1>4. QED
    BY <1>2, <1>3, TameKeeps DEF RuntimeInv, RuntimeTypes

\* The reader of a process, the managed one or one that was replaced.
LEMMA ReaderKeeps ==
  ASSUME RuntimeInv, NEW p \in DOMAIN proc, ReaderStep(p)
  PROVE  RuntimeInv'
  <1>1. p \in 1 .. Len(proc) /\ DOMAIN proc = 1 .. Len(proc)
    BY LenProperties DEF RuntimeInv, RuntimeTypes
  <1>2. proc[p] \in Procs
    BY <1>1, ProcTypes DEF RuntimeInv
  <1>3. CASE ReadFrame(p)
    <2> DEFINE r == [proc[p] EXCEPT !.out = Tail(@)]
    <2>1. Tail(proc[p].out) \in Seq(Frames)
      BY <1>1, <1>3, ProcTypes DEF ReadFrame, RuntimeInv
    <2>2. r \in Procs /\ r.alive = proc[p].alive /\ r.reading = proc[p].reading
      BY <1>2, <2>1 DEF Procs
    <2>3. proc' = [proc EXCEPT ![p] = r]
      BY <1>3 DEF ReadFrame
    <2>4. Tame
      BY <1>1, <2>2, <2>3, TameReplaced DEF RuntimeInv
    <2>5. status' \in [running : BOOLEAN, pid : Nat]
      BY <1>3 DEF ReadFrame, RuntimeInv, RuntimeTypes
    <2>6. UNCHANGED <<child, stdin, cmd>> /\ proc[p].reading
      BY <1>3 DEF ReadFrame
    <2>7. QED
      BY <1>1, <2>4, <2>5, <2>6, TameKeeps DEF RuntimeInv, RuntimeTypes
  <1>4. CASE ReadEof(p)
    <2> DEFINE r == [proc[p] EXCEPT !.reading = FALSE]
    <2>1. r \in Procs /\ r.alive = proc[p].alive
      BY <1>2 DEF Procs
    <2>2. proc' = [proc EXCEPT ![p] = r]
      BY <1>4 DEF ReadEof
    <2>3. /\ proc' \in Seq(Procs) /\ Len(proc') = Len(proc)
          /\ \A q \in 1 .. Len(proc) : proc'[q].alive = proc[q].alive
      BY <1>1, <2>1, <2>2, Replaced DEF RuntimeInv
    <2>4. UNCHANGED <<child, stdin, cmd>> /\ status' = [running |-> FALSE, pid |-> 0]
      BY <1>4 DEF ReadEof
    <2>5. RuntimeTypes'
      BY <2>3, <2>4 DEF RuntimeInv, RuntimeTypes
    <2>6. DOMAIN proc' = 1 .. Len(proc)
      BY <2>3, LenProperties
    <2>7. Living' = Living
      BY <1>1, <2>3, <2>6 DEF Living
    <2>8. QED
      BY <2>4, <2>5, <2>7 DEF RuntimeInv
  <1>5. QED
    BY <1>3, <1>4 DEF ReaderStep
-----------------------------------------------------------------------------
(***************************************************************************)
(* The gateway's sidecars.                                                  *)
(***************************************************************************)
SidecarTypes ==
  /\ sidecar \in Seq(BOOLEAN)
  /\ gw \in [child : 0 .. Len(sidecar), state : {"stopped", "starting", "ready", "failed"},
             url : 0 .. Len(sidecar)]
  /\ starting \in [by : {"nobody", "setup", "restart"}, at : {"none", "spawn", "wait"}]

\* A start has killed what was there before it spawns.
SidecarInv ==
  /\ SidecarTypes
  /\ starting = NoStart \/ (starting.at \in {"spawn", "wait"} /\ gw.child = 0)
  /\ Sidecars \subseteq {gw.child} \cup InHand
  /\ starting.at = "spawn" => Sidecars = {}

LEMMA SidecarInit == GwInit => SidecarInv
  BY DEF GwInit, SidecarInv, SidecarTypes, Sidecars, InHand, NoStart

LEMMA SidecarDomain ==
  ASSUME SidecarTypes
  PROVE  DOMAIN sidecar = 1 .. Len(sidecar) /\ Len(sidecar) \in Nat
  BY LenProperties DEF SidecarTypes

LEMMA Kills ==
  ASSUME SidecarTypes, NEW s \in 0 .. Len(sidecar), sidecar' = Kill(s)
  PROVE  /\ sidecar' \in Seq(BOOLEAN) /\ Len(sidecar') = Len(sidecar)
         /\ Sidecars' = Sidecars \ {s}
  <1>1. CASE s = 0
    <2>1. sidecar' = sidecar
      BY <1>1 DEF Kill
    <2>2. 0 \notin Sidecars
      BY SidecarDomain DEF Sidecars
    <2>3. QED
      BY <1>1, <2>1, <2>2 DEF SidecarTypes, Sidecars
  <1>2. CASE s # 0
    <2>1. s \in 1 .. Len(sidecar) /\ sidecar' = [sidecar EXCEPT ![s] = FALSE]
      BY <1>2, SidecarDomain DEF Kill
    <2>2. /\ sidecar' \in Seq(BOOLEAN) /\ Len(sidecar') = Len(sidecar)
          /\ DOMAIN sidecar' = DOMAIN sidecar
      BY <2>1, ExceptSeq DEF SidecarTypes
    <2>3. \A q \in DOMAIN sidecar : sidecar'[q] = IF q = s THEN FALSE ELSE sidecar[q]
      BY <2>1
    <2>4. QED
      BY <2>2, <2>3 DEF Sidecars
  <1>3. QED
    BY <1>1, <1>2

\* stop_gateway when no start is on its way leaves no sidecar.
LEMMA StopGatewayKills ==
  ASSUME SidecarInv, starting = NoStart, sidecar' = Kill(gw.child)
  PROVE  /\ sidecar' \in Seq(BOOLEAN) /\ Len(sidecar') = Len(sidecar)
         /\ Len(sidecar) \in Nat /\ Sidecars' = {}
  <1>1. gw.child \in 0 .. Len(sidecar)
    BY DEF SidecarInv, SidecarTypes
  <1>2. Sidecars \subseteq {gw.child}
    BY DEF SidecarInv, InHand, NoStart
  <1>3. QED
    BY <1>1, <1>2, Kills, SidecarDomain DEF SidecarInv

LEMMA StopGatewayKeeps ==
  ASSUME SidecarInv, StopGateway, UNCHANGED starting
  PROVE  SidecarInv' /\ Sidecars' = {} /\ starting' = NoStart
  BY StopGatewayKills DEF StopGateway, SidecarInv, SidecarTypes, NoStart

LEMMA StartsKeeps ==
  ASSUME SidecarInv, NEW who \in {"setup", "restart"}, GatewayStarts(who)
  PROVE  SidecarInv'
  BY StopGatewayKills DEF GatewayStarts, SidecarInv, SidecarTypes

LEMMA StartGoesOnKeeps ==
  ASSUME SidecarInv, StartGoesOn
  PROVE  SidecarInv'
  <1> USE SidecarDomain DEF SidecarInv, SidecarTypes
  <1>1. CASE SpawnFails
    BY <1>1 DEF SpawnFails, NoStart, Sidecars, InHand
  <1>2. CASE Spawns
    <2>1. /\ sidecar' \in Seq(BOOLEAN) /\ Len(sidecar') = Len(sidecar) + 1
          /\ DOMAIN sidecar' = 1 .. Len(sidecar) + 1
          /\ \A q \in 1 .. Len(sidecar) : sidecar'[q] = sidecar[q]
      BY <1>2, AppendProperties, LenProperties DEF Spawns
    <2>2. starting.at = "spawn" /\ starting' = [starting EXCEPT !.at = "wait"] /\ gw' = gw
      BY <1>2 DEF Spawns
    <2>3. Sidecars = {}
      BY <2>2
    <2>4. Sidecars' \subseteq {Len(sidecar')}
      BY <2>1, <2>3 DEF Sidecars
    <2>5. InHand' = {Len(sidecar')}
      BY <2>2 DEF InHand
    <2>6. SidecarTypes'
      BY <2>1, <2>2
    <2>7. gw'.child = 0 /\ starting'.at = "wait"
      BY <2>2 DEF NoStart
    <2>8. QED
      BY <2>4, <2>5, <2>6, <2>7
  <1>3. CASE BecomesReady
    <2>1. starting.at = "wait" /\ Sidecars \subseteq {gw.child, Len(sidecar)}
      BY <1>3 DEF BecomesReady, InHand
    <2>2. Sidecars \subseteq {Len(sidecar)}
      BY <2>1 DEF NoStart, Sidecars
    <2>3. QED
      BY <1>3, <2>2 DEF BecomesReady, NoStart, Sidecars, InHand
  <1>4. CASE ReadinessFails
    BY <1>4, Kills DEF ReadinessFails, NoStart, InHand
  <1>5. QED
    BY <1>1, <1>2, <1>3, <1>4 DEF StartGoesOn

LEMMA GatewayStatusKeeps ==
  ASSUME SidecarInv, GatewayStatus
  PROVE  SidecarInv' /\ UNCHANGED <<sidecar, starting>>
  <1>1. UNCHANGED <<sidecar, starting>> /\ starting = NoStart /\ gw' = Asked
    BY DEF GatewayStatus
  <1>2. Sidecars \subseteq {gw.child}
    BY <1>1 DEF SidecarInv, InHand, NoStart
  <1>3. SidecarTypes'
    <2>1. 0 \in 0 .. Len(sidecar)
      BY SidecarDomain DEF SidecarInv
    <2>2. Asked \in [child : 0 .. Len(sidecar),
                    state : {"stopped", "starting", "ready", "failed"}, url : 0 .. Len(sidecar)]
      BY <2>1 DEF SidecarInv, SidecarTypes, Asked
    <2>3. QED
      BY <1>1, <2>2 DEF SidecarInv, SidecarTypes
  <1>4. Sidecars \subseteq {gw'.child}
    <2>1. CASE Exited
      BY <1>1, <1>2, <2>1 DEF Exited, Sidecars
    <2>2. CASE ~Exited
      BY <1>1, <1>2, <2>2 DEF Asked
    <2>3. QED
      BY <2>1, <2>2
  <1>5. QED
    BY <1>1, <1>3, <1>4 DEF SidecarInv, Sidecars, NoStart

LEMMA SidecarDiesKeeps ==
  ASSUME SidecarInv, NEW s \in DOMAIN sidecar, SidecarDies(s)
  PROVE  SidecarInv'
  <1>1. s \in 0 .. Len(sidecar) /\ sidecar' = Kill(s)
    BY SidecarDomain DEF SidecarInv, SidecarDies, Kill
  <1>2. QED
    BY <1>1, Kills DEF SidecarDies, SidecarInv, SidecarTypes, InHand
-----------------------------------------------------------------------------
(***************************************************************************)
(* The application and its end.                                             *)
(***************************************************************************)

\* Once the last stop of the gateway is done, only a late setup thread starts one.
LeavingInv ==
  /\ leaving \in 0 .. 4 /\ late \in BOOLEAN
  /\ leaving >= 3 /\ ~late => Sidecars = {} /\ starting = NoStart
  /\ Gone => Living = {}
ProcessInv == RuntimeInv /\ SidecarInv /\ LeavingInv

LEMMA ProcessInit == Init => ProcessInv
  <1> SUFFICES ASSUME Init PROVE ProcessInv
    OBVIOUS
  <1>1. RuntimeInv /\ SidecarInv
    BY RuntimeInit, SidecarInit DEF Init
  <1>2. leaving = 0 /\ late \in BOOLEAN
    BY DEF Init
  <1>3. LeavingInv
    BY <1>2 DEF LeavingInv, Gone
  <1>4. QED
    BY <1>1, <1>3 DEF ProcessInv

\* A step in the models' processes.
LEMMA RuntimeStep ==
  ASSUME ProcessInv,
         \/ RuntimeCommand \/ RuntimeGoesOn
         \/ \E p \in 1 .. MaxProcs : ReaderRuns(p) \/ EngineRuns(p) \/ EngineFails(p)
  PROVE  ProcessInv'
  <1>1. ~Gone /\ UNCHANGED <<gwVars, desktop>>
    BY DEF RuntimeCommand, RuntimeGoesOn, ReaderRuns, EngineRuns, EngineFails, On, RtRest
  <1>2. RuntimeInv'
    BY CommandKeeps, EngineKeeps, ReaderKeeps
       DEF ProcessInv, RuntimeCommand, RuntimeGoesOn, ReaderRuns, EngineRuns, EngineFails
  <1>3. SidecarInv'
    BY <1>1 DEF ProcessInv, SidecarInv, SidecarTypes, Sidecars, InHand, gwVars
  <1>4. LeavingInv'
    BY <1>1 DEF ProcessInv, LeavingInv, Sidecars, gwVars, desktop, Gone
  <1>5. QED
    BY <1>2, <1>3, <1>4 DEF ProcessInv

\* A step of the gateway's manager or of a sidecar.
LEMMA GatewayStep ==
  ASSUME ProcessInv,
         \/ SetupThread \/ GatewayGoesOn \/ GatewayCommand
         \/ \E s \in 1 .. MaxSidecars : GatewayFails(s)
  PROVE  ProcessInv'
  <1>1. ~Gone /\ UNCHANGED <<rtVars, leaving>>
    BY DEF SetupThread, GatewayGoesOn, GatewayCommand, GatewayFails, On, GwRest
  <1>2. RuntimeInv'
    BY <1>1 DEF ProcessInv, RuntimeInv, RuntimeTypes, Living, rtVars
  <1>3. CASE SetupThread
    <2>1. SidecarInv'
      BY <1>3, StartsKeeps DEF SetupThread, SetupStarts, ProcessInv
    <2>2. late' \in BOOLEAN /\ (leaving >= 3 => late')
      <3> DEFINE last == leaving >= 3
      <3>1. late' = last
        BY <1>3 DEF SetupThread
      <3>2. last \in BOOLEAN
        OBVIOUS
      <3> HIDE DEF last
      <3>3. QED
        BY <3>1, <3>2 DEF last
    <2>3. QED
      BY <1>1, <1>2, <2>1, <2>2 DEF ProcessInv, LeavingInv, Gone
  <1>4. CASE GatewayGoesOn
    <2>1. SidecarInv' /\ late' = late
      BY <1>4, StartGoesOnKeeps DEF GatewayGoesOn, ProcessInv
    <2>2. starting # NoStart
      <3>1. starting.at = "spawn" \/ starting.at = "wait"
        BY <1>4 DEF GatewayGoesOn, StartGoesOn, SpawnFails, Spawns, BecomesReady, ReadinessFails
      <3>2. QED
        BY <3>1 DEF NoStart
    <2>3. QED
      BY <1>1, <1>2, <2>1, <2>2 DEF ProcessInv, LeavingInv, Gone
  <1>5. CASE GatewayCommand
    <2>1. SidecarInv' /\ late' = late /\ leaving \in {0, 2}
      BY <1>5, StartsKeeps, GatewayStatusKeeps
         DEF GatewayCommand, RestartGateway, ProcessInv, MainFree
    <2>2. QED
      BY <1>1, <1>2, <2>1 DEF ProcessInv, LeavingInv, Gone
  <1>6. ASSUME NEW s \in 1 .. MaxSidecars, GatewayFails(s) PROVE ProcessInv'
    <2>1. s \in DOMAIN sidecar /\ SidecarDies(s) /\ UNCHANGED <<late, starting>>
      BY <1>6 DEF GatewayFails, SidecarDies
    <2>2. SidecarInv'
      BY <2>1, SidecarDiesKeeps DEF ProcessInv
    <2>3. s \in Sidecars
      BY <2>1 DEF SidecarDies, Sidecars
    <2>4. QED
      BY <1>1, <1>2, <2>1, <2>2, <2>3 DEF ProcessInv, LeavingInv, Gone
  <1>7. QED
    BY <1>3, <1>4, <1>5, <1>6

\* A command that starts nothing: the policy, the clock, a search, a store.
LEMMA OtherStep ==
  ASSUME ProcessInv, PolicyCommand \/ ClockTicks \/ WebSearch \/ StoreCommand
  PROVE  ProcessInv'
  <1>1. UNCHANGED <<rtVars, desktop>>
    BY DEF PolicyCommand, ClockTicks, WebSearch, StoreCommand, ApRest
  <1>2. RuntimeInv'
    BY <1>1 DEF ProcessInv, RuntimeInv, RuntimeTypes, Living, rtVars
  <1>3. UNCHANGED gwVars \/ GatewayStatus
    BY DEF PolicyCommand, ClockTicks, WebSearch, StoreCommand, ApRest
  <1>4. SidecarInv' /\ UNCHANGED <<sidecar, starting>>
    <2>1. CASE UNCHANGED gwVars
      BY <2>1 DEF ProcessInv, SidecarInv, SidecarTypes, Sidecars, InHand, gwVars
    <2>2. CASE GatewayStatus
      BY <2>2, GatewayStatusKeeps DEF ProcessInv
    <2>3. QED
      BY <1>3, <2>1, <2>2
  <1>5. LeavingInv'
    BY <1>1, <1>4 DEF ProcessInv, LeavingInv, Sidecars, Living, Gone, desktop, rtVars
  <1>6. QED
    BY <1>2, <1>4, <1>5 DEF ProcessInv

\* A step of the end: the gateway is stopped, or the model is.
LEMMA LeaveStep ==
  ASSUME ProcessInv, Leaves
  PROVE  ProcessInv'
  <1>1. ~Gone /\ cmd = NoCmd /\ leaving' = leaving + 1 /\ UNCHANGED late
    BY DEF Leaves, Leave
  <1>2. CASE leaving \in {0, 2}
    <2>1. StopGateway /\ UNCHANGED <<rtVars, starting>>
      BY <1>2 DEF Leaves, Leave
    <2>2. SidecarInv' /\ Sidecars' = {} /\ starting' = NoStart
      BY <2>1, StopGatewayKeeps DEF ProcessInv
    <2>3. RuntimeInv'
      BY <2>1 DEF ProcessInv, RuntimeInv, RuntimeTypes, Living, rtVars
    <2>4. QED
      BY <1>1, <1>2, <2>2, <2>3 DEF ProcessInv, LeavingInv, Gone
  <1>3. CASE leaving \in {1, 3}
    <2>1. StopModel /\ UNCHANGED <<cmd, gwVars>>
      BY <1>3 DEF Leaves, Leave
    <2>2. RuntimeInv' /\ Living' = {}
      BY <2>1, StopKeeps, StopKills DEF ProcessInv, RuntimeInv, RuntimeTypes
    <2>3. SidecarInv' /\ UNCHANGED starting /\ Sidecars' = Sidecars
      BY <2>1 DEF ProcessInv, SidecarInv, SidecarTypes, Sidecars, InHand, gwVars
    <2>4. QED
      BY <1>1, <1>3, <2>2, <2>3 DEF ProcessInv, LeavingInv, Gone
  <1>4. QED
    BY <1>1, <1>2, <1>3 DEF ProcessInv, LeavingInv, Gone

LEMMA ProcessStep == ProcessInv /\ [Next]_allVars => ProcessInv'
  <1> SUFFICES ASSUME ProcessInv, [Next]_allVars PROVE ProcessInv'
    OBVIOUS
  <1>1. CASE UNCHANGED allVars
    BY <1>1 DEF allVars, rtVars, gwVars, desktop, ProcessInv, RuntimeInv, RuntimeTypes, Living,
                SidecarInv, SidecarTypes, Sidecars, InHand, LeavingInv, Gone
  <1>2. CASE Next
    BY <1>2, RuntimeStep, GatewayStep, OtherStep, LeaveStep DEF Next
  <1>3. QED
    BY <1>1, <1>2

LEMMA ProcessesAccounted == Spec => []ProcessInv
  BY ProcessInit, ProcessStep, PTL DEF Spec

(* No process is lost (runtime_manager.rs, gateway_manager.rs, lib.rs): a      *)
(* living one is the one managed, and when the application is gone there is    *)
(* none, except a sidecar started by a late setup thread.                      *)
THEOREM NothingIsEverLost == Spec => []NothingIsLost
  <1>1. ProcessInv => NothingIsLost
    BY DEF ProcessInv, RuntimeInv, SidecarInv, LeavingInv, Gone, NothingIsLost
  <1>2. QED
    BY <1>1, ProcessesAccounted, PTL

(* A poll settles the status (runtime_manager.rs, get_status), whatever the    *)
(* readers of replaced processes made of it before.                          *)
THEOREM StatusAlwaysSettles == Spec => StatusSettles
  <1>1. ASSUME ProcessInv, cmd = NoCmd, Poll, NoStragglers
        PROVE  status'.running <=> (child # 0 /\ proc[child].alive)
    <2>1. DOMAIN proc = 1 .. Len(proc) /\ status \in [running : BOOLEAN, pid : Nat]
      BY <1>1, LenProperties DEF ProcessInv, RuntimeInv, RuntimeTypes
    <2>2. CASE child = 0
      <3>1. ~status.running
        BY <1>1, <2>1, <2>2 DEF ProcessInv, RuntimeInv, NoStragglers
      <3>2. QED
        BY <1>1, <2>2, <3>1 DEF Poll
    <2>3. CASE child # 0
      BY <1>1, <2>1, <2>3 DEF Poll
    <2>4. QED
      BY <2>2, <2>3
  <1>2. ProcessInv => [(cmd = NoCmd /\ focus = "model" /\ MainFree /\ Poll /\ NoStragglers)
                        => (status'.running <=> (child # 0 /\ proc[child].alive))]_allVars
    BY <1>1
  <1>3. QED
    BY <1>2, ProcessesAccounted, PTL DEF StatusSettles
(***************************************************************************)
(* The stores.  What is left of a command is one of few lists of operations,  *)
(* and each promises that the files are then what it began to make them.       *)
(***************************************************************************)
Value == [version : Nat, enabled : BOOLEAN, quarantined : BOOLEAN]
Operation == [op : {"put", "rename", "record", "newline", "finish", "settle"},
              file : Files \cup Logs, value : Value \cup {<<>>} \cup Files \cup Logs]
Then(o, rest) == <<o>> \o rest

LEMMA FileNames ==
  /\ Files = {"session", "memory", "registry", "session.tmp", "memory.tmp", "registry.tmp",
              "manifest", "package"}
  /\ Stored = {"session", "memory", "registry"} /\ Logs = {"log", "log.1"}
  /\ Temporary("session") = "session.tmp" /\ Temporary("memory") = "memory.tmp"
  /\ Temporary("registry") = "registry.tmp"
  <1>1. /\ Temporary("session") = "session.tmp" /\ Temporary("memory") = "memory.tmp"
        /\ Temporary("registry") = "registry.tmp"
    BY DEF Temporary
  <1>2. QED
    BY <1>1 DEF Files, Stored, Logs

LEMMA Versions ==
  /\ \A n \in Nat : Whole(n) \in Value /\ ~Whole(n).enabled /\ ~Whole(n).quarantined
                    /\ Whole(n).version = n
  /\ NoFile \in Value /\ Torn \in Value
  BY StoresAssumption DEF Whole, NoFile, Torn, Value

LEMMA Operations ==
  ASSUME NEW o \in {"put", "rename", "record", "newline", "finish", "settle"},
         NEW f \in Files \cup Logs, NEW v \in Value \cup {<<>>} \cup Files \cup Logs
  PROVE  /\ Op(o, f, v) \in Operation
         /\ Op(o, f, v).op = o /\ Op(o, f, v).file = f /\ Op(o, f, v).value = v
  BY DEF Op, Operation

LEMMA FirstAndRest ==
  ASSUME NEW o \in Operation, NEW rest \in Seq(Operation)
  PROVE  /\ Then(o, rest) \in Seq(Operation) /\ Then(o, rest) # <<>>
         /\ Head(Then(o, rest)) = o /\ Tail(Then(o, rest)) = rest
  <1>1. <<o>> \in Seq(Operation) /\ Len(<<o>>) = 1 /\ <<o>>[1] = o
    OBVIOUS
  <1>2. /\ Then(o, rest) \in Seq(Operation) /\ Len(Then(o, rest)) = 1 + Len(rest)
        /\ \A i \in 1 .. 1 + Len(rest) : Then(o, rest)[i] = IF i <= 1 THEN o ELSE rest[i - 1]
    BY <1>1, ConcatProperties DEF Then
  <1>3. Len(rest) \in Nat
    OBVIOUS
  <1> DEFINE s == Then(o, rest)
  <1>4. s # <<>> /\ Head(s) = o
    BY <1>2, <1>3
  <1>5. /\ Tail(s) \in Seq(Operation) /\ Len(Tail(s)) = Len(rest)
        /\ \A i \in 1 .. Len(rest) : Tail(s)[i] = s[i + 1]
    BY <1>2, <1>3, <1>4, HeadTailProperties
  <1> HIDE DEF s
  <1>6. \A i \in 1 .. Len(rest) : Tail(s)[i] = rest[i]
    BY <1>2, <1>3, <1>5 DEF s
  <1>7. Tail(s) = rest
    BY <1>5, <1>6, SeqEqual
  <1>8. QED
    BY <1>2, <1>4, <1>7 DEF s

\* Lists joined to one another.
LEMMA OperationsJoin ==
  \A x, y, z \in Seq(Operation) :
    x \o y \in Seq(Operation) /\ (x \o y) \o z = x \o (y \o z)
  BY SMTT(30), ConcatAssociative, ConcatProperties

LEMMA NumbersJoin ==
  \A x, y, z \in Seq(Nat) :
    x \o y \in Seq(Nat) /\ (x \o y) \o z = x \o (y \o z)
  BY SMTT(30), ConcatAssociative, ConcatProperties

LEMMA Pairs ==
  ASSUME NEW a \in Operation, NEW b \in Operation
  PROVE  /\ <<a, b>> = <<a>> \o <<b>> /\ <<a, b>> = Then(a, Then(b, <<>>))
         /\ \A rest \in Seq(Operation) : <<a, b>> \o rest = Then(a, Then(b, rest))
  <1>1. <<a>> \in Seq(Operation) /\ <<b>> \in Seq(Operation) /\ <<>> \in Seq(Operation)
    OBVIOUS
  <1>2. <<a, b>> = <<a>> \o <<b>>
    <2>1. Append(<<a>>, b) = <<a>> \o <<b>>
      BY <1>1, AppendIsConcat
    <2>2. Append(<<a>>, b) = <<a, b>>
      <3> DEFINE s == Append(<<a>>, b)
                 u == <<a, b>>
      <3>1. s \in Seq(Operation) /\ Len(s) = 2 /\ s[1] = a /\ s[2] = b
        OBVIOUS
      <3>2. u \in Seq(Operation) /\ Len(u) = 2 /\ u[1] = a /\ u[2] = b
        OBVIOUS
      <3> HIDE DEF s, u
      <3>3. \A i \in 1 .. Len(s) : s[i] = u[i]
        BY <3>1, <3>2
      <3>4. s = u
        BY <3>1, <3>2, <3>3, SeqEqual
      <3>5. QED
        BY <3>4 DEF s, u
    <2>3. QED
      BY <2>1, <2>2
  <1>3. <<b>> \o <<>> = <<b>> /\ <<a, b>> \in Seq(Operation)
    BY <1>1, ConcatEmptySeq
  <1>4. \A rest \in Seq(Operation) : <<a, b>> \o rest = <<a>> \o (<<b>> \o rest)
    BY <1>1, <1>2, ConcatAssociative
  <1>5. QED
    BY <1>2, <1>3, <1>4 DEF Then

\* The operations of a replacement, from the last back to the first.
Ending(f, v, after) == Then(Finish(f, v), after)
Moving(f, v, after) == Then(Rename(Temporary(f), f), Ending(f, v, after))
Clearing(f, v, after) == Then(Remove(f), Moving(f, v, after))
Filling(f, v, rest) == Then(Op("put", Temporary(f), v), rest)
Replacing(f, v, rest) == Then(Create(Temporary(f)), Filling(f, v, rest))
Afters == {<<>>, <<Settle>>}

LEMMA Lists ==
  ASSUME NEW f \in Stored, NEW v \in Value, NEW after \in Afters
  PROVE  /\ after \in Seq(Operation)
         /\ Finish(f, v) \in Operation /\ Rename(Temporary(f), f) \in Operation
         /\ Remove(f) \in Operation /\ Create(Temporary(f)) \in Operation
         /\ Op("put", Temporary(f), v) \in Operation
         /\ Ending(f, v, after) \in Seq(Operation) /\ Moving(f, v, after) \in Seq(Operation)
         /\ Clearing(f, v, after) \in Seq(Operation)
         /\ \A rest \in Seq(Operation) : /\ Filling(f, v, rest) \in Seq(Operation)
                                         /\ Replacing(f, v, rest) \in Seq(Operation)
  <1>1. /\ f \in Files /\ Temporary(f) \in Files /\ NoFile \in Value /\ Torn \in Value
        /\ "package" \in Files
    BY FileNames, Versions
  <1>2. Settle \in Operation
    BY <1>1, Operations DEF Settle
  <1>3. after \in Seq(Operation)
    <2>1. <<>> \in Seq(Operation) /\ <<Settle>> \in Seq(Operation)
      BY <1>2
    <2>2. QED
      BY <2>1 DEF Afters
  <1>4. /\ Finish(f, v) \in Operation /\ Rename(Temporary(f), f) \in Operation
        /\ Remove(f) \in Operation /\ Create(Temporary(f)) \in Operation
        /\ Op("put", Temporary(f), v) \in Operation
    BY <1>1, Operations DEF Finish, Rename, Remove, Create
  <1>5. Ending(f, v, after) \in Seq(Operation)
    BY <1>3, <1>4, FirstAndRest DEF Ending
  <1>6. Moving(f, v, after) \in Seq(Operation)
    BY <1>4, <1>5, FirstAndRest DEF Moving
  <1>7. Clearing(f, v, after) \in Seq(Operation)
    BY <1>4, <1>6, FirstAndRest DEF Clearing
  <1>8. ASSUME NEW rest \in Seq(Operation)
        PROVE  Filling(f, v, rest) \in Seq(Operation) /\ Replacing(f, v, rest) \in Seq(Operation)
    <2>1. Filling(f, v, rest) \in Seq(Operation)
      BY <1>4, FirstAndRest DEF Filling
    <2>2. QED
      BY <1>4, <2>1, FirstAndRest DEF Replacing
  <1>9. QED
    BY <1>3, <1>4, <1>5, <1>6, <1>7, <1>8

\* Replace, as the code has it, is one of those lists.
LEMMA ReplaceIs ==
  ASSUME NEW f \in Stored, NEW v \in Value, NEW after \in Afters
  PROVE  /\ Replace(f, v) \in Seq(Operation)
         /\ Replace(f, v) \o <<Finish(f, v)>> \o after
           = Replacing(f, v, IF windows /\ f # "registry" /\ disk[f] # NoFile
                             THEN Clearing(f, v, after) ELSE Moving(f, v, after))
  <1> DEFINE a == Create(Temporary(f))
             b == Op("put", Temporary(f), v)
             c == Remove(f)
             d == Rename(Temporary(f), f)
             e == Finish(f, v)
             x == IF windows /\ f # "registry" /\ disk[f] # NoFile THEN <<c>> ELSE <<>>
             y == <<d>>
             z == <<e>>
  <1>1. /\ a \in Operation /\ b \in Operation /\ c \in Operation /\ d \in Operation
        /\ e \in Operation /\ after \in Seq(Operation)
    BY Lists
  <1>2. Replace(f, v) = (<<a, b>> \o x) \o y
    BY DEF Replace, Put
  <1>3. Ending(f, v, after) = z \o after /\ Moving(f, v, after) = y \o (z \o after)
        /\ Clearing(f, v, after) = <<c>> \o (y \o (z \o after))
    BY DEF Ending, Moving, Clearing, Then
  <1>4. \A rest : Replacing(f, v, rest) = <<a>> \o (<<b>> \o rest)
    BY DEF Replacing, Filling, Then
  <1> HIDE DEF a, b, c, d, e
  <1>5. x \in Seq(Operation) /\ y \in Seq(Operation) /\ z \in Seq(Operation)
        /\ <<a>> \in Seq(Operation) /\ <<b>> \in Seq(Operation) /\ <<a, b>> \in Seq(Operation)
        /\ <<a, b>> = <<a>> \o <<b>>
    <2>1. /\ <<a>> \in Seq(Operation) /\ <<b>> \in Seq(Operation) /\ <<a, b>> \in Seq(Operation)
          /\ y \in Seq(Operation) /\ z \in Seq(Operation) /\ <<c>> \in Seq(Operation)
          /\ <<>> \in Seq(Operation)
      BY <1>1
    <2>2. <<a, b>> = <<a>> \o <<b>>
      BY <1>1, Pairs DEF Then
    <2>3. QED
      BY <2>1, <2>2
  <1> HIDE DEF x, y, z
  <1>6. z \o after \in Seq(Operation) /\ y \o (z \o after) \in Seq(Operation)
    BY <1>1, <1>5, ConcatProperties
  <1>7. x \o (y \o (z \o after)) = IF windows /\ f # "registry" /\ disk[f] # NoFile
                                   THEN Clearing(f, v, after) ELSE Moving(f, v, after)
    BY <1>3, <1>6, ConcatEmptySeq DEF x
  <1>8. ((<<a, b>> \o x) \o y) \o z \in Seq(Operation) /\ <<a, b>> \o x \in Seq(Operation)
        /\ (<<a, b>> \o x) \o y \in Seq(Operation)
    BY <1>5, ConcatProperties
  <1>9. (((<<a, b>> \o x) \o y) \o z) \o after = ((<<a, b>> \o x) \o y) \o (z \o after)
    <2> DEFINE p == (<<a, b>> \o x) \o y
    <2>1. p \in Seq(Operation) /\ z \in Seq(Operation) /\ after \in Seq(Operation)
      BY <1>1, <1>5, <1>8
    <2> HIDE DEF p
    <2>2. (p \o z) \o after = p \o (z \o after)
      BY ZenonT(30), <2>1, OperationsJoin
    <2>3. QED
      BY <2>2 DEF p
  <1>10. ((<<a, b>> \o x) \o y) \o (z \o after) = (<<a, b>> \o x) \o (y \o (z \o after))
    <2> DEFINE w == <<a, b>> \o x
               q == z \o after
    <2>1. w \in Seq(Operation) /\ y \in Seq(Operation) /\ q \in Seq(Operation)
      BY <1>5, <1>6, <1>8
    <2> HIDE DEF w, q
    <2>2. (w \o y) \o q = w \o (y \o q)
      BY ZenonT(30), <2>1, OperationsJoin
    <2>3. QED
      BY <2>2 DEF w, q
  <1>11. (<<a, b>> \o x) \o (y \o (z \o after)) = <<a, b>> \o (x \o (y \o (z \o after)))
    BY ZenonT(30), <1>5, <1>6, OperationsJoin
  <1>12. x \o (y \o (z \o after)) \in Seq(Operation)
    BY <1>5, <1>6, ConcatProperties
  <1>13. \A s \in Seq(Operation) : <<a, b>> \o s = <<a>> \o (<<b>> \o s)
    BY <1>5, ConcatAssociative
  <1>14. QED
    <2>1. Replace(f, v) \o z \o after = <<a>> \o (<<b>> \o (x \o (y \o (z \o after))))
      BY <1>2, <1>9, <1>10, <1>11, <1>12, <1>13
    <2>2. QED
      BY <1>2, <1>4, <1>7, <1>8, <2>1 DEF z, e

\* With operations before it.
LEMMA BeforeReplace ==
  ASSUME NEW f \in Stored, NEW v \in Value, NEW after \in Afters, NEW before \in Seq(Operation)
  PROVE  before \o Replace(f, v) \o <<Finish(f, v)>> \o after
           = before \o (Replace(f, v) \o <<Finish(f, v)>> \o after)
  <1> DEFINE x == Replace(f, v)
             z == <<Finish(f, v)>>
             y == x \o z
  <1>1. x \in Seq(Operation) /\ Finish(f, v) \in Operation /\ after \in Seq(Operation)
    BY ReplaceIs, Lists
  <1>2. z \in Seq(Operation)
    BY <1>1
  <1> HIDE DEF x, z
  <1>3. (before \o x) \o z = before \o y /\ y \in Seq(Operation)
    BY ZenonT(30), <1>1, <1>2, OperationsJoin
  <1> HIDE DEF y
  <1>4. (before \o y) \o after = before \o (y \o after)
    BY ZenonT(30), <1>1, <1>3, OperationsJoin
  <1>5. ((before \o x) \o z) \o after = before \o (y \o after)
    BY <1>3, <1>4
  <1>6. QED
    BY <1>5 DEF x, y, z

\* Where a replacement of f by v is.
Rests(f, v, after) ==
  {Moving(f, v, after)} \cup {Clearing(f, v, after) : x \in {y \in may[f] : y = NoFile /\ f # "registry"}}
ReplaceStage(f, v, after) ==
  \/ todo = Ending(f, v, after) /\ disk[f] = v
  \/ todo \in Rests(f, v, after) /\ disk[Temporary(f)] = v
  \/ \E rest \in Rests(f, v, after) : todo \in {Filling(f, v, rest), Replacing(f, v, rest)}

\* The commands: a text is replaced or removed; so is the entry of the registry,
\* the package alone, or after the package's files; an error is recorded.
TextPlan ==
  \E f \in {"session", "memory"}, v \in Value :
    /\ v \in may[f]
    /\ ReplaceStage(f, v, <<>>) \/ (todo = Then(Remove(f), Ending(f, v, <<>>)) /\ v = NoFile)

Lawful(v) == ~(v.enabled /\ v.quarantined)
EntryPlan ==
  \E v \in Value : /\ v \in may["registry"] /\ Lawful(v) /\ (~cut => v.version = Entry.version)
                   /\ ReplaceStage("registry", v, <<>>)

PackageIs(v) == disk["manifest"] = disk["package"] /\ disk["package"].version = v.version
WriteEntry(v) == Replacing("registry", v, Moving("registry", v, <<Settle>>))
WritePackage(v) == Then(Create("package"), Then(Op("put", "package", v), WriteEntry(v)))
PackageFiles(v) ==
  \/ /\ todo \in {Then(Op("put", "package", v), WriteEntry(v)), WritePackage(v)}
     /\ disk["manifest"] = v
  \/ todo \in {Then(Op("put", "manifest", v), WritePackage(v)),
               Then(Create("manifest"), Then(Op("put", "manifest", v), WritePackage(v)))}
  \/ /\ v = NoFile
     /\ \/ todo = Then(Remove("package"), WriteEntry(v)) /\ disk["manifest"] = v
        \/ todo = Then(Remove("manifest"), Then(Remove("package"), WriteEntry(v)))
PackagePlan ==
  /\ cut
  /\ \E v \in Value :
       /\ v \in may["registry"] /\ Lawful(v)
       /\ \/ todo = Then(Settle, <<>>) /\ PackageIs(v) /\ Entry = v
          \/ ReplaceStage("registry", v, <<Settle>>) /\ PackageIs(v)
          \/ PackageFiles(v)

Recording == Then(Op("record", "log", NoFile), Then(Op("newline", "log", NoFile), <<>>))
LogPlan ==
  \/ todo \in {Recording, Then(Op("newline", "log", NoFile), <<>>)}
  \/ /\ Len(disk["log"]) > LogLimit
     /\ \/ todo = Then(Rename("log", "log.1"), Recording) /\ disk["log.1"] = <<>>
        \/ todo = Then(Op("put", "log.1", <<>>), Then(Rename("log", "log.1"), Recording))

StoreTypes ==
  /\ disk \in [Files \cup Logs -> Value \cup Seq(Nat)]
  /\ (\A f \in Files : disk[f] \in Value) /\ (\A l \in Logs : disk[l] \in Seq(Nat))
  /\ may \in [Stored -> SUBSET Value] /\ cut \in BOOLEAN /\ windows \in BOOLEAN
  /\ next \in Nat /\ written \in Seq(Nat)

StoreInv ==
  /\ StoreTypes /\ StoresHold
  /\ todo = <<>> \/ TextPlan \/ EntryPlan \/ PackagePlan \/ LogPlan

-----------------------------------------------------------------------------
(* The next operation is carried out.                                        *)

LEMMA NextOperation ==
  ASSUME NEW o \in Operation, NEW rest \in Seq(Operation), todo = Then(o, rest), FileStep
  PROVE  todo' = rest /\ UNCHANGED <<windows, next>> /\ Performs(o)
  BY FirstAndRest DEF FileStep

LEMMA Puts ==
  ASSUME StoreTypes, NEW f \in Files \cup Logs, NEW v \in Value \cup {<<>>}, Performs(Op("put", f, v))
  PROVE  /\ UNCHANGED <<written, may, cut>> /\ disk' = [disk EXCEPT ![f] = v]
         /\ disk'[f] = v /\ \A g \in Files \cup Logs : g # f => disk'[g] = disk[g]
  <1>1. /\ Op("put", f, v).op = "put" /\ Op("put", f, v).file = f /\ Op("put", f, v).value = v
    BY Operations
  <1>2. UNCHANGED <<written, may, cut>> /\ disk' = [disk EXCEPT ![f] = v]
    BY <1>1 DEF Performs, StoreTypes
  <1>3. QED
    BY <1>2 DEF StoreTypes

LEMMA Renames ==
  ASSUME StoreTypes, NEW f \in Files \cup Logs, NEW g \in Files \cup Logs, f # g,
         Performs(Rename(f, g))
  PROVE  /\ UNCHANGED <<written, may, cut>>
         /\ disk'[g] = disk[f] /\ disk'[f] = IF f \in Logs THEN <<>> ELSE NoFile
         /\ \A h \in Files \cup Logs : h \notin {f, g} => disk'[h] = disk[h]
         /\ DOMAIN disk' = DOMAIN disk /\ disk' = [h \in DOMAIN disk |-> disk'[h]]
  <1>1. /\ Rename(f, g).op = "rename" /\ Rename(f, g).file = f /\ Rename(f, g).value = g
    BY Operations DEF Rename
  <1> DEFINE e == IF f \in Logs THEN <<>> ELSE NoFile
  <1>2. UNCHANGED <<written, may, cut>> /\ disk' = [disk EXCEPT ![g] = disk[f], ![f] = e]
    BY <1>1 DEF Performs, StoreTypes
  <1> HIDE DEF e
  <1>3. /\ disk'[g] = disk[f] /\ disk'[f] = e
        /\ \A h \in Files \cup Logs : h \notin {f, g} => disk'[h] = disk[h]
        /\ DOMAIN disk' = DOMAIN disk /\ disk' = [h \in DOMAIN disk |-> disk'[h]]
    BY <1>2 DEF StoreTypes
  <1>4. QED
    BY <1>2, <1>3 DEF e

LEMMA Finishes ==
  ASSUME StoreTypes, NEW f \in Stored, NEW v \in Value, Performs(Finish(f, v))
  PROVE  UNCHANGED <<written, disk, cut>> /\ may' = [may EXCEPT ![f] = {v}]
  <1>1. /\ Finish(f, v).op = "finish" /\ Finish(f, v).file = f /\ Finish(f, v).value = v
    BY Operations, FileNames DEF Finish
  <1>2. QED
    BY <1>1 DEF Performs, StoreTypes

LEMMA Settles ==
  ASSUME StoreTypes, Performs(Settle)
  PROVE  UNCHANGED <<written, disk, may>> /\ cut' = FALSE
  <1>1. Settle.op = "settle"
    BY Operations, FileNames, Versions DEF Settle
  <1>2. QED
    BY <1>1 DEF Performs

LEMMA Adds ==
  ASSUME StoreTypes, NEW o \in {"record", "newline"}, Performs(Op(o, "log", NoFile))
  PROVE  /\ UNCHANGED <<may, cut>>
         /\ disk' = [disk EXCEPT !["log"] = Append(disk["log"], IF o = "record" THEN Len(written) + 1 ELSE 0)]
         /\ written' = IF o = "record" THEN Append(written, Len(written) + 1) ELSE written
  <1>1. Op(o, "log", NoFile).op = o /\ Op(o, "log", NoFile).file = "log"
    BY Operations, FileNames, Versions
  <1>2. CASE o = "record"
    BY <1>1, <1>2 DEF Performs, StoreTypes
  <1>3. CASE o = "newline"
    BY <1>1, <1>3 DEF Performs, StoreTypes
  <1>4. QED
    BY <1>2, <1>3

\* The files keep their types.
LEMMA TypesKept ==
  ASSUME StoreTypes, DOMAIN disk' = DOMAIN disk, disk' = [h \in DOMAIN disk |-> disk'[h]],
         \A f \in Files : disk'[f] \in Value, \A l \in Logs : disk'[l] \in Seq(Nat),
         may' \in [Stored -> SUBSET Value], cut' \in BOOLEAN, UNCHANGED windows, next' \in Nat,
         written' \in Seq(Nat)
  PROVE  StoreTypes'
  BY DEF StoreTypes

LEMMA TemporaryIs ==
  ASSUME NEW f \in Stored
  PROVE  /\ f \in Files /\ Temporary(f) \in Files /\ Temporary(f) \notin Stored
         /\ Temporary(f) \notin {"manifest", "package"} /\ f \notin {"manifest", "package"}
         /\ f \notin Logs /\ Temporary(f) \notin Logs
  BY FileNames

\* A file gets a value; the types are kept.
LEMMA FileChanges ==
  ASSUME StoreTypes, NEW f \in Files, NEW v \in Value, UNCHANGED <<windows, next, may, cut, written>>,
         disk' = [disk EXCEPT ![f] = v]
  PROVE  StoreTypes'
  <1>1. f \notin Logs
    BY FileNames
  <1>2. (\A g \in Files : disk'[g] \in Value) /\ (\A l \in Logs : disk'[l] \in Seq(Nat))
    BY <1>1 DEF StoreTypes
  <1>3. DOMAIN disk' = DOMAIN disk /\ disk' = [h \in DOMAIN disk |-> disk'[h]]
    BY DEF StoreTypes
  <1>4. /\ may' \in [Stored -> SUBSET Value] /\ cut' \in BOOLEAN /\ next' \in Nat
        /\ written' \in Seq(Nat)
    BY DEF StoreTypes
  <1>5. QED
    BY <1>2, <1>3, <1>4, TypesKept

\* One operation of a replacement, wherever it is.
LEMMA ReplaceStep ==
  ASSUME StoreTypes, FileStep, NEW f \in Stored, NEW v \in Value, NEW after \in Afters,
         ReplaceStage(f, v, after), v \in may[f], disk[f] \in may[f]
  PROVE  /\ StoreTypes' /\ UNCHANGED <<cut, written>>
         /\ \A g \in Files \cup Logs : g \notin {f, Temporary(f)} => disk'[g] = disk[g]
         /\ \A g \in Stored : g # f => may'[g] = may[g]
         /\ v \in may'[f] /\ disk'[f] \in may'[f]
         /\ \/ ReplaceStage(f, v, after)'
            \/ todo' = after /\ disk'[f] = v
         /\ \/ disk'[f] \in {disk[f], v}
            \/ f # "registry" /\ disk'[f] = NoFile
  <1> DEFINE tmp == Temporary(f)
  <1>1. /\ f \in Files /\ tmp \in Files /\ tmp # f /\ f \notin Logs /\ tmp \notin Logs
        /\ NoFile \in Value /\ Torn \in Value
    BY TemporaryIs, Versions
  <1>2. /\ after \in Seq(Operation) /\ Ending(f, v, after) \in Seq(Operation)
        /\ Moving(f, v, after) \in Seq(Operation) /\ Clearing(f, v, after) \in Seq(Operation)
        /\ Finish(f, v) \in Operation /\ Rename(tmp, f) \in Operation /\ Remove(f) \in Operation
        /\ Create(tmp) \in Operation /\ Op("put", tmp, v) \in Operation
        /\ \A rest \in Seq(Operation) : Filling(f, v, rest) \in Seq(Operation)
    BY Lists
  <1>3. may \in [Stored -> SUBSET Value] /\ disk \in [Files \cup Logs -> Value \cup Seq(Nat)]
    BY DEF StoreTypes
  <1> HIDE DEF tmp
  <1>4. CASE todo = Ending(f, v, after) /\ disk[f] = v
    <2>1. todo' = after /\ UNCHANGED <<windows, next>> /\ Performs(Finish(f, v))
      BY <1>2, <1>4, NextOperation DEF Ending
    <2>2. UNCHANGED <<written, disk, cut>> /\ may' = [may EXCEPT ![f] = {v}]
      BY <2>1, Finishes
    <2>3. /\ may' \in [Stored -> SUBSET Value] /\ may'[f] = {v}
          /\ \A g \in Stored : g # f => may'[g] = may[g]
      BY <1>3, <2>2
    <2>4. StoreTypes'
      BY <2>1, <2>2, <2>3 DEF StoreTypes
    <2>5. QED
      BY <1>4, <2>1, <2>2, <2>3, <2>4
  <1>5. CASE todo = Moving(f, v, after) /\ disk[tmp] = v
    <2>1. /\ todo' = Ending(f, v, after) /\ UNCHANGED <<windows, next>>
          /\ Performs(Rename(tmp, f))
      BY <1>2, <1>5, NextOperation DEF Moving, tmp
    <2>2. /\ UNCHANGED <<written, may, cut>> /\ disk'[f] = v /\ disk'[tmp] = NoFile
          /\ \A h \in Files \cup Logs : h \notin {f, tmp} => disk'[h] = disk[h]
          /\ DOMAIN disk' = DOMAIN disk /\ disk' = [h \in DOMAIN disk |-> disk'[h]]
      BY <1>1, <1>5, <2>1, Renames
    <2>3. (\A g \in Files : disk'[g] \in Value) /\ (\A l \in Logs : disk'[l] \in Seq(Nat))
      BY <1>1, <2>2 DEF StoreTypes
    <2>4. StoreTypes'
      BY <2>1, <2>2, <2>3, TypesKept DEF StoreTypes
    <2>5. ReplaceStage(f, v, after)'
      BY <2>1, <2>2 DEF ReplaceStage
    <2>6. QED
      BY <2>2, <2>4, <2>5 DEF tmp
  <1>6. CASE todo = Clearing(f, v, after) /\ disk[tmp] = v /\ NoFile \in may[f] /\ f # "registry"
    <2>1. /\ todo' = Moving(f, v, after) /\ UNCHANGED <<windows, next>>
          /\ Performs(Op("put", f, NoFile))
      BY <1>2, <1>6, NextOperation DEF Clearing, Remove
    <2>2. /\ UNCHANGED <<written, may, cut>> /\ disk' = [disk EXCEPT ![f] = NoFile]
          /\ disk'[f] = NoFile /\ \A g \in Files \cup Logs : g # f => disk'[g] = disk[g]
      BY <1>1, <2>1, Puts
    <2>3. StoreTypes'
      BY <1>1, <2>1, <2>2, FileChanges
    <2>4. disk'[tmp] = v
      BY <1>1, <1>6, <2>2
    <2>5. ReplaceStage(f, v, after)'
      BY <2>1, <2>4 DEF ReplaceStage, Rests, tmp
    <2>6. QED
      BY <1>6, <2>2, <2>3, <2>5
  <1>7. ASSUME NEW rest \in Rests(f, v, after), todo = Filling(f, v, rest)
        PROVE  /\ UNCHANGED <<windows, next, written, may, cut>> /\ todo' = rest
               /\ disk' = [disk EXCEPT ![tmp] = v] /\ disk'[tmp] = v
               /\ \A g \in Files \cup Logs : g # tmp => disk'[g] = disk[g]
    <2>1. rest \in Seq(Operation)
      BY <1>2, <1>7 DEF Rests
    <2>2. todo' = rest /\ UNCHANGED <<windows, next>> /\ Performs(Op("put", tmp, v))
      BY <1>2, <1>7, <2>1, NextOperation DEF Filling, tmp
    <2>3. QED
      BY <1>1, <2>2, Puts
  <1>8. ASSUME NEW rest \in Rests(f, v, after), todo = Replacing(f, v, rest)
        PROVE  /\ UNCHANGED <<windows, next, written, may, cut>> /\ todo' = Filling(f, v, rest)
               /\ disk' = [disk EXCEPT ![tmp] = Torn]
               /\ \A g \in Files \cup Logs : g # tmp => disk'[g] = disk[g]
    <2>1. rest \in Seq(Operation) /\ Filling(f, v, rest) \in Seq(Operation)
      BY <1>2, <1>8 DEF Rests
    <2>2. /\ todo' = Filling(f, v, rest) /\ UNCHANGED <<windows, next>>
          /\ Performs(Op("put", tmp, Torn))
      BY <1>2, <1>8, <2>1, NextOperation DEF Replacing, Create, tmp
    <2>3. QED
      BY <1>1, <2>2, Puts
  <1>9. ASSUME NEW rest \in Rests(f, v, after), todo \in {Filling(f, v, rest), Replacing(f, v, rest)}
        PROVE  /\ StoreTypes' /\ UNCHANGED <<written, may, cut>> /\ ReplaceStage(f, v, after)'
               /\ \A g \in Files \cup Logs : g # tmp => disk'[g] = disk[g]
    <2>1. StoreTypes'
      BY <1>1, <1>7, <1>8, <1>9, FileChanges
    <2>2. UNCHANGED <<written, may, cut>> /\ \A g \in Files \cup Logs : g # tmp => disk'[g] = disk[g]
      BY <1>7, <1>8, <1>9
    <2>3. Rests(f, v, after)' = Rests(f, v, after)
      BY <2>2 DEF Rests
    <2>4. CASE todo = Filling(f, v, rest)
      <3>1. todo' \in Rests(f, v, after)' /\ disk'[Temporary(f)] = v
        BY <1>7, <2>3, <2>4 DEF tmp
      <3>2. QED
        BY <2>1, <2>2, <3>1 DEF ReplaceStage
    <2>5. CASE todo = Replacing(f, v, rest)
      <3>1. rest \in Rests(f, v, after)' /\ todo' = Filling(f, v, rest)
        BY <1>8, <2>3, <2>5
      <3>2. \E r \in Rests(f, v, after)' : todo' \in {Filling(f, v, r), Replacing(f, v, r)}
        BY <3>1
      <3>3. QED
        BY <2>1, <2>2, <3>2 DEF ReplaceStage
    <2>6. QED
      BY <1>9, <2>1, <2>2, <2>4, <2>5
  <1>10. CASE \E rest \in Rests(f, v, after) : todo \in {Filling(f, v, rest), Replacing(f, v, rest)}
    <2>1. PICK rest \in Rests(f, v, after) : todo \in {Filling(f, v, rest), Replacing(f, v, rest)}
      BY <1>10
    <2>2. disk'[f] = disk[f]
      BY <1>1, <1>9, <2>1
    <2>3. QED
      BY <1>9, <2>1, <2>2 DEF tmp
  <1>11. QED
    BY <1>4, <1>5, <1>6, <1>10 DEF ReplaceStage, Rests, tmp
-----------------------------------------------------------------------------
(* What is kept: the package and the logs, when nothing touches them.         *)

PackageHolds == ~cut => /\ disk["manifest"] = disk["package"]
                        /\ disk["package"].version = Entry.version
LogsHold ==
  /\ LastRecords(disk["log.1"] \o disk["log"])
  /\ \/ Len(disk["log.1"]) + Len(disk["log"]) > LogLimit
     \/ \A n \in 1 .. Len(written) : \E i \in DOMAIN disk["log"] : disk["log"][i] = n

LEMMA HoldIs ==
  StoresHold <=> /\ \A f \in Stored : disk[f] \in may[f]
                 /\ PackageHolds /\ Lawful(Entry) /\ LogsHold
  BY DEF StoresHold, PackageHolds, Lawful, LogsHold

LEMMA LogsKept ==
  ASSUME LogsHold, \A l \in Logs : disk'[l] = disk[l], UNCHANGED written
  PROVE  LogsHold'
  <1>1. disk'["log"] = disk["log"] /\ disk'["log.1"] = disk["log.1"]
    BY FileNames
  <1>2. disk'["log.1"] \o disk'["log"] = disk["log.1"] \o disk["log"]
    BY <1>1
  <1>3. LastRecords(disk["log.1"] \o disk["log"])'
    BY <1>2 DEF LogsHold, LastRecords
  <1>4. QED
    BY <1>1, <1>3 DEF LogsHold

LEMMA PackageKept ==
  ASSUME PackageHolds, UNCHANGED cut, disk'["manifest"] = disk["manifest"],
         disk'["package"] = disk["package"], ~cut => Entry'.version = Entry.version
  PROVE  PackageHolds'
  BY DEF PackageHolds

\* A text is saved or removed.
LEMMA TextStep ==
  ASSUME StoreTypes, StoresHold, TextPlan, FileStep
  PROVE  StoreInv'
  <1>1. PICK f \in {"session", "memory"}, v \in Value :
          /\ v \in may[f]
          /\ ReplaceStage(f, v, <<>>) \/ (todo = Then(Remove(f), Ending(f, v, <<>>)) /\ v = NoFile)
    BY DEF TextPlan
  <1>2. /\ f \in Stored /\ f \in Files /\ Temporary(f) \notin Stored /\ f \notin Logs
        /\ Temporary(f) \notin Logs /\ <<>> \in Afters
        /\ {"manifest", "package", "registry"} \cap {f, Temporary(f)} = {}
        /\ {"manifest", "package", "registry"} \subseteq Files
        /\ Logs \subseteq Files \cup Logs /\ Stored \subseteq Files
    BY FileNames DEF Afters
  <1>3. ASSUME StoreTypes', UNCHANGED <<cut, written>>, v \in may'[f], disk'[f] \in may'[f],
               \A g \in Files \cup Logs : g \notin {f, Temporary(f)} => disk'[g] = disk[g],
               \A g \in Stored : g # f => may'[g] = may[g],
               todo' = <<>> \/ ReplaceStage(f, v, <<>>)'
        PROVE  StoreInv'
    <2>1. \A g \in Stored : disk'[g] \in may'[g]
      BY <1>2, <1>3, HoldIs
    <2>2. /\ disk'["manifest"] = disk["manifest"] /\ disk'["package"] = disk["package"]
          /\ disk'["registry"] = disk["registry"]
      BY <1>2, <1>3
    <2>3. PackageHolds' /\ Lawful(Entry)'
      BY <1>3, <2>2, HoldIs, PackageKept DEF Entry, Lawful
    <2>4. LogsHold'
      <3>1. \A l \in Logs : disk'[l] = disk[l]
        BY <1>2, <1>3
      <3>2. QED
        BY <1>3, <3>1, HoldIs, LogsKept
    <2>5. StoresHold'
      BY <2>1, <2>3, <2>4 DEF StoresHold, PackageHolds, Lawful, LogsHold
    <2>6. todo' = <<>> \/ TextPlan'
      BY <1>3 DEF TextPlan
    <2>7. QED
      BY <1>3, <2>5, <2>6 DEF StoreInv
  <1>4. CASE ReplaceStage(f, v, <<>>)
    <2>1. disk[f] \in may[f]
      BY <1>2, HoldIs
    <2>2. /\ StoreTypes' /\ UNCHANGED <<cut, written>>
          /\ \A g \in Files \cup Logs : g \notin {f, Temporary(f)} => disk'[g] = disk[g]
          /\ \A g \in Stored : g # f => may'[g] = may[g]
          /\ v \in may'[f] /\ disk'[f] \in may'[f]
          /\ ReplaceStage(f, v, <<>>)' \/ todo' = <<>>
      BY <1>1, <1>2, <1>4, <2>1, ReplaceStep
    <2>3. QED
      BY <1>3, <2>2
  <1>5. CASE todo = Then(Remove(f), Ending(f, v, <<>>)) /\ v = NoFile
    <2>1. Remove(f) \in Operation /\ Ending(f, v, <<>>) \in Seq(Operation)
      BY <1>2, Lists
    <2>2. /\ todo' = Ending(f, v, <<>>) /\ UNCHANGED <<windows, next>>
          /\ Performs(Op("put", f, NoFile))
      BY <1>5, <2>1, NextOperation DEF Remove
    <2>3. /\ UNCHANGED <<written, may, cut>> /\ disk' = [disk EXCEPT ![f] = NoFile]
          /\ disk'[f] = NoFile /\ \A g \in Files \cup Logs : g # f => disk'[g] = disk[g]
      BY <1>2, <2>2, Puts, Versions
    <2>4. StoreTypes'
      BY <1>2, <2>2, <2>3, FileChanges, Versions
    <2>5. todo' = Ending(f, v, <<>>) /\ disk'[f] = v
      BY <1>5, <2>2, <2>3
    <2>6. ReplaceStage(f, v, <<>>)'
      BY <2>5 DEF ReplaceStage
    <2>7. v \in may'[f] /\ disk'[f] \in may'[f]
      BY <1>1, <2>3, <2>5
    <2>8. QED
      BY <1>3, <2>3, <2>4, <2>6, <2>7
  <1>6. QED
    BY <1>1, <1>4, <1>5

\* The entry of the registry is written.
LEMMA EntryStep ==
  ASSUME StoreTypes, StoresHold, EntryPlan, FileStep
  PROVE  StoreInv'
  <1>1. PICK v \in Value :
          /\ v \in may["registry"] /\ Lawful(v) /\ (~cut => v.version = Entry.version)
          /\ ReplaceStage("registry", v, <<>>)
    BY DEF EntryPlan
  <1>2. /\ "registry" \in Stored /\ Temporary("registry") \notin Stored /\ <<>> \in Afters
        /\ {"manifest", "package"} \cap {"registry", Temporary("registry")} = {}
        /\ Logs \cap {"registry", Temporary("registry")} = {}
        /\ {"manifest", "package"} \subseteq Files /\ Stored \subseteq Files
    BY FileNames DEF Afters
  <1>3. disk["registry"] \in may["registry"]
    BY <1>2, HoldIs
  <1>4. /\ StoreTypes' /\ UNCHANGED <<cut, written>>
        /\ \A g \in Files \cup Logs : g \notin {"registry", Temporary("registry")} => disk'[g] = disk[g]
        /\ \A g \in Stored : g # "registry" => may'[g] = may[g]
        /\ v \in may'["registry"] /\ disk'["registry"] \in may'["registry"]
        /\ ReplaceStage("registry", v, <<>>)' \/ (todo' = <<>> /\ disk'["registry"] = v)
        /\ disk'["registry"] \in {disk["registry"], v}
    BY <1>1, <1>2, <1>3, ReplaceStep
  <1>5. \A g \in Stored : disk'[g] \in may'[g]
    BY <1>2, <1>4, HoldIs
  <1>6. disk'["manifest"] = disk["manifest"] /\ disk'["package"] = disk["package"]
    BY <1>2, <1>4
  <1>7. ~cut => Entry'.version = Entry.version /\ v.version = Entry'.version
    BY <1>1, <1>4 DEF Entry
  <1>8. PackageHolds' /\ Lawful(Entry)'
    <2>1. PackageHolds'
      BY <1>4, <1>6, <1>7, HoldIs, PackageKept
    <2>2. Lawful(Entry')
      BY <1>1, <1>4, HoldIs DEF Entry
    <2>3. QED
      BY <2>1, <2>2 DEF Lawful
  <1>9. LogsHold'
    <2>1. \A l \in Logs : disk'[l] = disk[l]
      BY <1>2, <1>4
    <2>2. QED
      BY <1>4, <2>1, HoldIs, LogsKept
  <1>10. StoresHold'
    BY <1>5, <1>8, <1>9 DEF StoresHold, PackageHolds, Lawful, LogsHold
  <1>11. todo' = <<>> \/ EntryPlan'
    BY <1>1, <1>4, <1>7 DEF EntryPlan, Lawful
  <1>12. QED
    BY <1>4, <1>10, <1>11 DEF StoreInv

\* A file of the package gets a value while a change of the plugin is under way.
LEMMA PackagePut ==
  ASSUME StoreTypes, StoresHold, cut, NEW v \in Value, NEW f \in {"manifest", "package"},
         NEW rest \in Seq(Operation), todo = Then(Op("put", f, v), rest), FileStep
  PROVE  /\ StoreTypes' /\ StoresHold' /\ cut' /\ UNCHANGED may /\ todo' = rest
         /\ disk'[f] = v /\ \A g \in Files : g # f => disk'[g] = disk[g]
  <1>1. f \in Files /\ f \notin Logs /\ f \notin Stored /\ Stored \subseteq Files /\ "registry" \in Stored
    BY FileNames
  <1>2. Op("put", f, v) \in Operation
    BY <1>1, Operations
  <1>3. todo' = rest /\ UNCHANGED <<windows, next>> /\ Performs(Op("put", f, v))
    BY <1>2, NextOperation
  <1>4. /\ UNCHANGED <<written, may, cut>> /\ disk' = [disk EXCEPT ![f] = v]
        /\ disk'[f] = v /\ \A g \in Files \cup Logs : g # f => disk'[g] = disk[g]
    BY <1>1, <1>3, Puts
  <1>5. StoreTypes'
    BY <1>1, <1>3, <1>4, FileChanges
  <1>6. \A g \in Stored : disk'[g] \in may'[g]
    BY <1>1, <1>4, HoldIs
  <1>7. Lawful(Entry)'
    <2>1. disk'["registry"] = disk["registry"]
      BY <1>1, <1>4
    <2>2. QED
      BY <2>1, HoldIs DEF Entry, Lawful
  <1>8. LogsHold'
    <2>1. \A l \in Logs : disk'[l] = disk[l]
      BY <1>1, <1>4
    <2>2. QED
      BY <1>4, <2>1, HoldIs, LogsKept
  <1>9. PackageHolds'
    BY <1>4 DEF PackageHolds
  <1>10. StoresHold'
    BY <1>6, <1>7, <1>8, <1>9 DEF StoresHold, PackageHolds, Lawful, LogsHold
  <1>11. QED
    BY <1>3, <1>4, <1>5, <1>10

LEMMA PackageLists ==
  ASSUME NEW v \in Value
  PROVE  /\ WriteEntry(v) \in Seq(Operation) /\ WritePackage(v) \in Seq(Operation)
         /\ \A f \in {"manifest", "package"}, rest \in Seq(Operation) :
              /\ Then(Op("put", f, v), rest) \in Seq(Operation)
              /\ Then(Create(f), rest) \in Seq(Operation)
              /\ Then(Remove(f), rest) \in Seq(Operation)
  <1>1. "registry" \in Stored /\ <<Settle>> \in Afters
    BY FileNames DEF Afters
  <1>2. WriteEntry(v) \in Seq(Operation)
    BY <1>1, Lists DEF WriteEntry
  <1>3. ASSUME NEW f \in {"manifest", "package"}
        PROVE  Op("put", f, v) \in Operation /\ Create(f) \in Operation /\ Remove(f) \in Operation
    BY Operations, FileNames, Versions DEF Create, Remove
  <1>4. \A f \in {"manifest", "package"}, rest \in Seq(Operation) :
          /\ Then(Op("put", f, v), rest) \in Seq(Operation)
          /\ Then(Create(f), rest) \in Seq(Operation)
          /\ Then(Remove(f), rest) \in Seq(Operation)
    BY <1>3, FirstAndRest
  <1>5. WritePackage(v) \in Seq(Operation)
    BY <1>2, <1>4 DEF WritePackage
  <1>6. QED
    BY <1>2, <1>4, <1>5

LEMMA PackageFilesStep ==
  ASSUME StoreTypes, StoresHold, cut, NEW v \in Value, v \in may["registry"], Lawful(v),
         PackageFiles(v), FileStep
  PROVE  StoreInv'
  <1> DEFINE entry == WriteEntry(v)
             package == WritePackage(v)
             manifest == Then(Op("put", "manifest", v), package)
             body == Then(Op("put", "package", v), entry)
             gone == Then(Op("put", "package", NoFile), entry)
  <1>1. /\ entry \in Seq(Operation) /\ package \in Seq(Operation) /\ manifest \in Seq(Operation)
        /\ body \in Seq(Operation) /\ gone \in Seq(Operation)
        /\ NoFile \in Value /\ Torn \in Value
    BY PackageLists, Versions DEF Remove
  <1>2. /\ package = Then(Op("put", "package", Torn), body) /\ Remove("package") = Op("put", "package", NoFile)
        /\ Create("manifest") = Op("put", "manifest", Torn)
        /\ Remove("manifest") = Op("put", "manifest", NoFile)
    BY DEF WritePackage, Create, Remove
  <1>3. /\ "manifest" \in Files /\ "package" \in Files
    BY FileNames
  <1>4. entry = Replacing("registry", v, Moving("registry", v, <<Settle>>))
    BY DEF WriteEntry
  <1>5. ASSUME StoreTypes', StoresHold', cut', UNCHANGED may,
               \/ PackageFiles(v)'
               \/ todo' = entry /\ disk'["manifest"] = v /\ disk'["package"] = v
        PROVE  StoreInv'
    <2>1. CASE todo' = entry /\ disk'["manifest"] = v /\ disk'["package"] = v
      <3>1. Moving("registry", v, <<Settle>>) \in Rests("registry", v, <<Settle>>)'
        BY DEF Rests
      <3>2. \E r \in Rests("registry", v, <<Settle>>)' :
              todo' \in {Filling("registry", v, r), Replacing("registry", v, r)}
        BY <1>4, <2>1, <3>1
      <3>3. ReplaceStage("registry", v, <<Settle>>)'
        BY <3>2 DEF ReplaceStage
      <3>4. PackageIs(v)'
        BY <2>1 DEF PackageIs
      <3>5. PackagePlan'
        BY <1>5, <3>3, <3>4 DEF PackagePlan, Lawful
      <3>6. QED
        BY <1>5, <3>5 DEF StoreInv
    <2>2. CASE PackageFiles(v)'
      <3>1. PackagePlan'
        BY <1>5, <2>2 DEF PackagePlan, Lawful
      <3>2. QED
        BY <1>5, <3>1 DEF StoreInv
    <2>3. QED
      BY <1>5, <2>1, <2>2
  <1>6. CASE todo = body /\ disk["manifest"] = v
    <2>1. /\ StoreTypes' /\ StoresHold' /\ cut' /\ UNCHANGED may /\ todo' = entry
          /\ disk'["package"] = v /\ \A g \in Files : g # "package" => disk'[g] = disk[g]
      BY <1>1, <1>6, PackagePut
    <2>2. disk'["manifest"] = v
      BY <1>3, <1>6, <2>1
    <2>3. QED
      BY <1>5, <2>1, <2>2
  <1>7. CASE todo = package /\ disk["manifest"] = v
    <2>1. /\ StoreTypes' /\ StoresHold' /\ cut' /\ UNCHANGED may /\ todo' = body
          /\ \A g \in Files : g # "package" => disk'[g] = disk[g]
      BY <1>1, <1>2, <1>7, PackagePut
    <2>2. disk'["manifest"] = v
      BY <1>3, <1>7, <2>1
    <2>3. PackageFiles(v)'
      BY <2>1, <2>2 DEF PackageFiles
    <2>4. QED
      BY <1>5, <2>1, <2>3
  <1>8. CASE todo = manifest
    <2>1. /\ StoreTypes' /\ StoresHold' /\ cut' /\ UNCHANGED may /\ todo' = package
          /\ disk'["manifest"] = v
      BY <1>1, <1>8, PackagePut
    <2>2. PackageFiles(v)'
      BY <2>1 DEF PackageFiles
    <2>3. QED
      BY <1>5, <2>1, <2>2
  <1>9. CASE todo = Then(Create("manifest"), manifest)
    <2>1. StoreTypes' /\ StoresHold' /\ cut' /\ UNCHANGED may /\ todo' = manifest
      BY <1>1, <1>2, <1>9, PackagePut
    <2>2. PackageFiles(v)'
      BY <2>1 DEF PackageFiles
    <2>3. QED
      BY <1>5, <2>1, <2>2
  <1>10. CASE v = NoFile /\ todo = gone /\ disk["manifest"] = v
    <2>1. /\ StoreTypes' /\ StoresHold' /\ cut' /\ UNCHANGED may /\ todo' = entry
          /\ disk'["package"] = v /\ \A g \in Files : g # "package" => disk'[g] = disk[g]
      BY <1>1, <1>10, PackagePut
    <2>2. disk'["manifest"] = v
      BY <1>3, <1>10, <2>1
    <2>3. QED
      BY <1>5, <2>1, <2>2
  <1>11. CASE v = NoFile /\ todo = Then(Remove("manifest"), gone)
    <2>1. /\ StoreTypes' /\ StoresHold' /\ cut' /\ UNCHANGED may /\ todo' = gone
          /\ disk'["manifest"] = v
      BY <1>1, <1>2, <1>11, PackagePut
    <2>2. PackageFiles(v)'
      BY <1>2, <1>11, <2>1 DEF PackageFiles
    <2>3. QED
      BY <1>5, <2>1, <2>2
  <1>12. QED
    BY <1>2, <1>6, <1>7, <1>8, <1>9, <1>10, <1>11 DEF PackageFiles

\* A plugin is installed or removed: its files, its entry, and the end of it.
LEMMA PackageStep ==
  ASSUME StoreTypes, StoresHold, PackagePlan, FileStep
  PROVE  StoreInv'
  <1>1. PICK v \in Value :
          /\ v \in may["registry"] /\ Lawful(v)
          /\ \/ todo = Then(Settle, <<>>) /\ PackageIs(v) /\ Entry = v
             \/ ReplaceStage("registry", v, <<Settle>>) /\ PackageIs(v)
             \/ PackageFiles(v)
    BY DEF PackagePlan
  <1>2. cut
    BY DEF PackagePlan
  <1>3. /\ "registry" \in Stored /\ Temporary("registry") \notin Stored /\ <<Settle>> \in Afters
        /\ {"manifest", "package"} \cap {"registry", Temporary("registry")} = {}
        /\ Logs \cap {"registry", Temporary("registry")} = {}
        /\ {"manifest", "package"} \subseteq Files /\ Stored \subseteq Files
    BY FileNames DEF Afters
  <1>4. Settle \in Operation /\ <<>> \in Seq(Operation) /\ <<Settle>> = Then(Settle, <<>>)
    <2>1. Settle \in Operation
      BY Operations, FileNames, Versions DEF Settle
    <2>2. <<Settle>> \in Seq(Operation)
      BY <2>1
    <2>3. QED
      BY <2>1, <2>2, ConcatEmptySeq DEF Then
  <1>5. CASE PackageFiles(v)
    BY <1>1, <1>2, <1>5, PackageFilesStep
  <1>6. CASE todo = Then(Settle, <<>>) /\ PackageIs(v) /\ Entry = v
    <2>1. todo' = <<>> /\ UNCHANGED <<windows, next>> /\ Performs(Settle)
      BY <1>4, <1>6, NextOperation
    <2>2. UNCHANGED <<written, disk, may>> /\ cut' = FALSE
      BY <2>1, Settles
    <2>3. StoreTypes'
      BY <2>1, <2>2 DEF StoreTypes
    <2>4. PackageHolds' /\ Lawful(Entry)'
      <3>1. Entry' = Entry /\ disk' = disk
        BY <2>2 DEF Entry
      <3>2. PackageHolds'
        BY <1>6, <3>1 DEF PackageHolds, PackageIs
      <3>3. QED
        BY <3>1, <3>2, HoldIs DEF Lawful
    <2>5. LogsHold'
      BY <2>2, HoldIs, LogsKept
    <2>6. \A f \in Stored : disk'[f] \in may'[f]
      BY <2>2, HoldIs
    <2>7. StoresHold'
      BY <2>4, <2>5, <2>6 DEF StoresHold, PackageHolds, Lawful, LogsHold
    <2>8. QED
      BY <2>1, <2>3, <2>7 DEF StoreInv
  <1>7. CASE ReplaceStage("registry", v, <<Settle>>) /\ PackageIs(v)
    <2>1. disk["registry"] \in may["registry"]
      BY <1>3, HoldIs
    <2>2. /\ StoreTypes' /\ UNCHANGED <<cut, written>>
          /\ \A g \in Files \cup Logs : g \notin {"registry", Temporary("registry")} => disk'[g] = disk[g]
          /\ \A g \in Stored : g # "registry" => may'[g] = may[g]
          /\ v \in may'["registry"] /\ disk'["registry"] \in may'["registry"]
          /\ ReplaceStage("registry", v, <<Settle>>)' \/ (todo' = <<Settle>> /\ disk'["registry"] = v)
          /\ disk'["registry"] \in {disk["registry"], v}
      BY <1>1, <1>3, <1>7, <2>1, ReplaceStep
    <2>3. \A g \in Stored : disk'[g] \in may'[g]
      BY <1>3, <2>2, HoldIs
    <2>4. disk'["manifest"] = disk["manifest"] /\ disk'["package"] = disk["package"]
      BY <1>3, <2>2
    <2>5. PackageHolds' /\ Lawful(Entry)'
      <3>1. PackageHolds'
        BY <1>2, <2>2 DEF PackageHolds
      <3>2. Lawful(Entry')
        BY <1>1, <2>2, HoldIs DEF Entry
      <3>3. QED
        BY <3>1, <3>2 DEF Lawful
    <2>6. LogsHold'
      <3>1. \A l \in Logs : disk'[l] = disk[l]
        BY <1>3, <2>2
      <3>2. QED
        BY <2>2, <3>1, HoldIs, LogsKept
    <2>7. StoresHold'
      BY <2>3, <2>5, <2>6 DEF StoresHold, PackageHolds, Lawful, LogsHold
    <2>8. PackageIs(v)'
      BY <1>7, <2>4 DEF PackageIs
    <2>9. \/ todo' = Then(Settle, <<>>)' /\ Entry' = v
          \/ ReplaceStage("registry", v, <<Settle>>)'
      BY <1>4, <2>2 DEF Entry, Then, Settle, Op, NoFile, Whole
    <2>10. cut' /\ v \in may'["registry"] /\ Lawful(v)'
      BY <1>1, <1>2, <2>2 DEF Lawful
    <2>11. PackagePlan'
      BY <2>8, <2>9, <2>10 DEF PackagePlan
    <2>12. QED
      BY <2>2, <2>7, <2>11 DEF StoreInv
  <1>8. QED
    BY <1>1, <1>5, <1>6, <1>7

-----------------------------------------------------------------------------
(* The logs.                                                                 *)

\* The records of a log are consecutive, and end with the last one written, n.
Run(log, n) ==
  /\ \A i, j \in DOMAIN log : log[i] # 0 /\ log[j] # 0 /\ i < j => log[i] < log[j]
  /\ \A i \in DOMAIN log :
       log[i] # 0 => /\ log[i] <= n
                     /\ \A m \in log[i] .. n : \E j \in DOMAIN log : log[j] # 0 /\ log[j] = m

LEMMA LastRecordsAre ==
  ASSUME NEW log
  PROVE  LastRecords(log) <=> Run(log, Len(written))
  BY DEF LastRecords, Run

\* What is left of a run when its beginning is dropped is a run.
LEMMA EndOfRun ==
  ASSUME NEW s \in Seq(Nat), NEW t \in Seq(Nat), NEW n \in Nat, Run(s \o t, n)
  PROVE  Run(t, n)
  <1> DEFINE u == s \o t
  <1>1. /\ Len(s) \in Nat /\ Len(t) \in Nat /\ DOMAIN t = 1 .. Len(t)
        /\ \A i \in 1 .. Len(t) : t[i] \in Nat
    OBVIOUS
  <1>2. u \in Seq(Nat) /\ Len(u) = Len(s) + Len(t)
        /\ \A i \in 1 .. Len(s) + Len(t) : u[i] = IF i <= Len(s) THEN s[i] ELSE t[i - Len(s)]
    BY ConcatProperties
  <1>3. Run(u, n)
    OBVIOUS
  <1> HIDE DEF u
  <1>4. DOMAIN u = 1 .. Len(s) + Len(t)
    BY <1>2, LenProperties
  <1>5. \A i \in 1 .. Len(t) : i + Len(s) \in DOMAIN u /\ u[i + Len(s)] = t[i]
    <2>1. TAKE i \in 1 .. Len(t)
    <2> DEFINE k == i + Len(s)
    <2>2. k \in 1 .. Len(s) + Len(t) /\ ~(k <= Len(s)) /\ k - Len(s) = i
      BY <1>1
    <2> HIDE DEF k
    <2>3. u[k] = t[k - Len(s)]
      BY <1>2, <2>2
    <2>4. k \in DOMAIN u /\ u[k] = t[i]
      BY <1>4, <2>2, <2>3
    <2>5. QED
      BY <2>4 DEF k
  <1>6. ASSUME NEW i \in DOMAIN t, NEW j \in DOMAIN t, t[i] # 0, t[j] # 0, i < j
        PROVE  t[i] < t[j]
    <2>1. i + Len(s) < j + Len(s) /\ i \in Nat /\ j \in Nat
      BY <1>1, <1>6
    <2>2. u[i + Len(s)] = t[i] /\ u[j + Len(s)] = t[j]
          /\ i + Len(s) \in DOMAIN u /\ j + Len(s) \in DOMAIN u
      BY <1>1, <1>5
    <2>3. QED
      BY <1>3, <1>6, <2>1, <2>2 DEF Run
  <1>7. ASSUME NEW i \in DOMAIN t, t[i] # 0
        PROVE  /\ t[i] <= n
               /\ \A m \in t[i] .. n : \E j \in DOMAIN t : t[j] # 0 /\ t[j] = m
    <2>1. i + Len(s) \in DOMAIN u /\ u[i + Len(s)] = t[i] /\ i \in Nat /\ i >= 1
      BY <1>1, <1>5
    <2>2. t[i] <= n
      BY <1>3, <1>7, <2>1 DEF Run
    <2>3. ASSUME NEW m \in t[i] .. n
          PROVE  \E j \in DOMAIN t : t[j] # 0 /\ t[j] = m
      <3>1. PICK k \in DOMAIN u : u[k] # 0 /\ u[k] = m
        BY <1>3, <1>7, <2>1 DEF Run
      <3>2. k \in 1 .. Len(s) + Len(t)
        BY <1>4
      <3>3. CASE k <= Len(s)
        <4>1. k < i + Len(s)
          BY <1>1, <2>1, <3>2, <3>3
        <4>2. u[k] < t[i]
          BY <1>3, <1>7, <2>1, <3>1, <4>1 DEF Run
        <4>3. QED
          BY <1>1, <3>1, <4>2
      <3>4. CASE ~(k <= Len(s))
        <4>1. k - Len(s) \in 1 .. Len(t) /\ t[k - Len(s)] = m
          <5>1. u[k] = t[k - Len(s)]
            BY <1>2, <3>2, <3>4
          <5>2. k - Len(s) \in 1 .. Len(t)
            BY <1>1, <3>2, <3>4
          <5>3. QED
            BY <3>1, <5>1, <5>2
        <4>2. QED
          BY <1>1, <3>1, <4>1
      <3>5. QED
        BY <3>3, <3>4
    <2>4. QED
      BY <2>2, <2>3
  <1>8. QED
    BY <1>6, <1>7 DEF Run

\* A run goes on with the next record, and a line may end.
LEMMA RunGoesOn ==
  ASSUME NEW s \in Seq(Nat), NEW n \in Nat, Run(s, n)
  PROVE  Run(Append(s, n + 1), n + 1) /\ Run(Append(s, 0), n)
  <1>1. /\ Len(s) \in Nat /\ DOMAIN s = 1 .. Len(s) /\ \A i \in DOMAIN s : s[i] \in Nat
    OBVIOUS
  <1>2. ASSUME NEW x \in Nat
        PROVE  /\ DOMAIN Append(s, x) = 1 .. Len(s) + 1 /\ Append(s, x)[Len(s) + 1] = x
               /\ \A i \in DOMAIN s : i \in DOMAIN Append(s, x) /\ Append(s, x)[i] = s[i]
               /\ \A i \in DOMAIN Append(s, x) : i \in DOMAIN s \/ i = Len(s) + 1
    <2>1. /\ Append(s, x) \in Seq(Nat) /\ Len(Append(s, x)) = Len(s) + 1
          /\ Append(s, x)[Len(s) + 1] = x
          /\ \A i \in 1 .. Len(s) : Append(s, x)[i] = s[i]
      BY <1>1, AppendProperties
    <2>2. DOMAIN Append(s, x) = 1 .. Len(s) + 1
      BY <2>1, LenProperties
    <2>3. QED
      BY <1>1, <2>1, <2>2
  <1>3. Run(Append(s, 0), n)
    <2> DEFINE u == Append(s, 0)
    <2>1. /\ DOMAIN u = 1 .. Len(s) + 1 /\ u[Len(s) + 1] = 0
          /\ \A i \in DOMAIN s : i \in DOMAIN u /\ u[i] = s[i]
          /\ \A i \in DOMAIN u : i \in DOMAIN s \/ i = Len(s) + 1
      BY <1>2
    <2> HIDE DEF u
    <2>2. \A i \in DOMAIN u : u[i] # 0 => i \in DOMAIN s /\ u[i] = s[i]
      BY <2>1
    <2>3. \A i, j \in DOMAIN u : u[i] # 0 /\ u[j] # 0 /\ i < j => u[i] < u[j]
      BY <2>2 DEF Run
    <2>4. \A i \in DOMAIN u :
            u[i] # 0 => /\ u[i] <= n
                        /\ \A m \in u[i] .. n : \E j \in DOMAIN u : u[j] # 0 /\ u[j] = m
      BY <2>1, <2>2 DEF Run
    <2>5. Run(u, n)
      BY <2>3, <2>4 DEF Run
    <2>6. QED
      BY <2>5 DEF u
  <1>4. Run(Append(s, n + 1), n + 1)
    <2> DEFINE u == Append(s, n + 1)
    <2>1. /\ DOMAIN u = 1 .. Len(s) + 1 /\ u[Len(s) + 1] = n + 1
          /\ \A i \in DOMAIN s : i \in DOMAIN u /\ u[i] = s[i]
          /\ \A i \in DOMAIN u : i \in DOMAIN s \/ i = Len(s) + 1
      BY <1>2
    <2> HIDE DEF u
    <2>2. ASSUME NEW i \in DOMAIN u, NEW j \in DOMAIN u, u[i] # 0, u[j] # 0, i < j
          PROVE  u[i] < u[j]
      <3>1. i \in DOMAIN s
        BY <1>1, <2>1, <2>2
      <3>2. u[i] = s[i] /\ s[i] \in Nat /\ s[i] <= n
        BY <1>1, <2>1, <2>2, <3>1 DEF Run
      <3>3. CASE j \in DOMAIN s
        <4>1. u[j] = s[j]
          BY <2>1, <3>3
        <4>2. QED
          BY <2>2, <3>1, <3>2, <3>3, <4>1 DEF Run
      <3>4. CASE j = Len(s) + 1
        BY <2>1, <3>2, <3>4
      <3>5. QED
        BY <2>1, <3>3, <3>4
    <2>3. ASSUME NEW i \in DOMAIN u, u[i] # 0
          PROVE  /\ u[i] <= n + 1
                 /\ \A m \in u[i] .. n + 1 : \E j \in DOMAIN u : u[j] # 0 /\ u[j] = m
      <3>1. Len(s) + 1 \in DOMAIN u
        BY <1>1, <2>1
      <3>2. CASE i = Len(s) + 1
        <4>1. u[i] = n + 1
          BY <2>1, <3>2
        <4>2. \A m \in u[i] .. n + 1 : m = n + 1
          BY <4>1
        <4>3. QED
          BY <2>1, <3>1, <4>1, <4>2
      <3>3. CASE i \in DOMAIN s
        <4>1. u[i] = s[i] /\ s[i] \in Nat /\ s[i] <= n
          BY <1>1, <2>1, <2>3, <3>3 DEF Run
        <4>2. ASSUME NEW m \in u[i] .. n + 1
              PROVE  \E j \in DOMAIN u : u[j] # 0 /\ u[j] = m
          <5>1. CASE m = n + 1
            BY <2>1, <3>1, <5>1
          <5>2. CASE m \in u[i] .. n
            <6>1. PICK j \in DOMAIN s : s[j] # 0 /\ s[j] = m
              BY <2>3, <3>3, <4>1, <5>2 DEF Run
            <6>2. QED
              BY <2>1, <6>1
          <5>3. QED
            BY <4>1, <5>1, <5>2
        <4>3. QED
          BY <4>1, <4>2
      <3>4. QED
        BY <2>1, <3>2, <3>3
    <2>4. Run(u, n + 1)
      BY <2>2, <2>3 DEF Run
    <2>5. QED
      BY <2>4 DEF u
  <1>5. QED
    BY <1>3, <1>4

\* A step on the logs leaves everything else, so only they are to be looked at.
LEMMA LogOnly ==
  ASSUME StoreTypes, StoresHold, UNCHANGED <<windows, next, may, cut>>,
         DOMAIN disk' = DOMAIN disk, disk' = [h \in DOMAIN disk |-> disk'[h]],
         \A f \in Files : disk'[f] = disk[f], \A l \in Logs : disk'[l] \in Seq(Nat),
         written' \in Seq(Nat), LogsHold'
  PROVE  StoreTypes' /\ StoresHold'
  <1>1. /\ Stored \subseteq Files /\ "registry" \in Files /\ "manifest" \in Files
        /\ "package" \in Files
    BY FileNames
  <1>2. StoreTypes'
    <2>1. \A f \in Files : disk'[f] \in Value
      BY DEF StoreTypes
    <2>2. /\ may' \in [Stored -> SUBSET Value] /\ cut' \in BOOLEAN /\ next' \in Nat
      BY DEF StoreTypes
    <2>3. QED
      BY <2>1, <2>2, TypesKept
  <1>3. disk'["manifest"] = disk["manifest"] /\ disk'["package"] = disk["package"] /\ Entry' = Entry
    BY <1>1 DEF Entry
  <1>4. PackageHolds' /\ Lawful(Entry)'
    <2>1. PackageHolds'
      BY <1>3, HoldIs, PackageKept
    <2>2. Lawful(Entry')
      BY <1>3, HoldIs
    <2>3. QED
      BY <2>1, <2>2 DEF Lawful
  <1>5. \A f \in Stored : disk'[f] \in may'[f]
    BY <1>1, HoldIs
  <1>6. QED
    BY <1>2, <1>4, <1>5 DEF StoresHold, PackageHolds, Lawful, LogsHold

LEMMA LogLists ==
  /\ Op("record", "log", NoFile) \in Operation /\ Op("newline", "log", NoFile) \in Operation
  /\ Rename("log", "log.1") \in Operation /\ Op("put", "log.1", <<>>) \in Operation
  /\ <<>> \in Seq(Operation)
  /\ Then(Op("newline", "log", NoFile), <<>>) \in Seq(Operation)
  /\ Recording \in Seq(Operation) /\ Then(Rename("log", "log.1"), Recording) \in Seq(Operation)
  <1>1. /\ Op("record", "log", NoFile) \in Operation /\ Op("newline", "log", NoFile) \in Operation
        /\ Rename("log", "log.1") \in Operation /\ Op("put", "log.1", <<>>) \in Operation
    BY Operations, FileNames, Versions DEF Rename
  <1>2. <<>> \in Seq(Operation)
    OBVIOUS
  <1>3. Then(Op("newline", "log", NoFile), <<>>) \in Seq(Operation)
    BY <1>1, <1>2, FirstAndRest
  <1>4. Recording \in Seq(Operation)
    BY <1>1, <1>3, FirstAndRest DEF Recording
  <1>5. QED
    BY <1>1, <1>2, <1>3, <1>4, FirstAndRest

\* A record or the end of a line is added to the log.
LEMMA LogAdds ==
  ASSUME StoreTypes, StoresHold, NEW o \in {"record", "newline"},
         NEW rest \in Seq(Operation), todo = Then(Op(o, "log", NoFile), rest), FileStep
  PROVE  StoreTypes' /\ StoresHold' /\ todo' = rest
  <1> DEFINE x == IF o = "record" THEN Len(written) + 1 ELSE 0
             s == disk["log.1"]
             t == disk["log"]
  <1>1. /\ todo' = rest /\ UNCHANGED <<windows, next>> /\ Performs(Op(o, "log", NoFile))
    BY LogLists, NextOperation
  <1>2. /\ UNCHANGED <<may, cut>>
        /\ disk' = [disk EXCEPT !["log"] = Append(t, x)]
        /\ written' = IF o = "record" THEN Append(written, Len(written) + 1) ELSE written
    BY <1>1, Adds
  <1>3. /\ s \in Seq(Nat) /\ t \in Seq(Nat) /\ written \in Seq(Nat) /\ Len(written) \in Nat
        /\ "log" \in Logs /\ "log.1" \in Logs /\ \A f \in Files : f # "log"
    BY FileNames DEF StoreTypes
  <1>4. /\ DOMAIN disk' = DOMAIN disk /\ disk' = [h \in DOMAIN disk |-> disk'[h]]
        /\ disk'["log"] = Append(t, x) /\ disk'["log.1"] = s
        /\ \A f \in Files : disk'[f] = disk[f]
    BY <1>2, <1>3 DEF StoreTypes
  <1>5. x \in Nat
    BY <1>3
  <1> HIDE DEF s, t, x
  <1>6. Append(t, x) \in Seq(Nat) /\ Len(Append(t, x)) = Len(t) + 1
        /\ s \o t \in Seq(Nat) /\ s \o Append(t, x) = Append(s \o t, x)
    <2>1. <<x>> \in Seq(Nat)
      BY <1>5
    <2>2. s \o t \in Seq(Nat)
      BY <1>3, ConcatProperties
    <2>3. Append(t, x) = t \o <<x>> /\ Append(s \o t, x) = (s \o t) \o <<x>>
      BY <1>3, <1>5, <2>2, AppendIsConcat
    <2>4. (s \o t) \o <<x>> = s \o (t \o <<x>>)
      <3> DEFINE last == <<x>>
      <3>1. s \in Seq(Nat) /\ t \in Seq(Nat) /\ last \in Seq(Nat)
        BY <1>3, <2>1
      <3> HIDE DEF last
      <3>2. (s \o t) \o last = s \o (t \o last)
        BY ZenonT(30), <3>1, NumbersJoin
      <3>3. QED
        BY <3>2 DEF last
    <2>5. Append(t, x) \in Seq(Nat) /\ Len(Append(t, x)) = Len(t) + 1
      BY <1>3, <1>5, AppendProperties
    <2>6. QED
      BY <2>2, <2>3, <2>4, <2>5
  <1>7. /\ written' \in Seq(Nat)
        /\ Len(written') = IF o = "record" THEN Len(written) + 1 ELSE Len(written)
    BY <1>2, <1>3, AppendProperties
  <1>8. LastRecords(s \o t)
    BY HoldIs DEF LogsHold, s, t
  <1>9. Run(s \o Append(t, x), Len(written'))
    <2>1. Run(s \o t, Len(written))
      BY <1>8, LastRecordsAre
    <2>2. /\ Run(Append(s \o t, Len(written) + 1), Len(written) + 1)
          /\ Run(Append(s \o t, 0), Len(written))
      BY <1>3, <1>6, <2>1, RunGoesOn
    <2>3. CASE o = "record"
      BY <1>6, <1>7, <2>2, <2>3 DEF x
    <2>4. CASE o = "newline"
      BY <1>6, <1>7, <2>2, <2>4 DEF x
    <2>5. QED
      BY <2>3, <2>4
  <1>10. \/ Len(s) + Len(Append(t, x)) > LogLimit
         \/ \A n \in 1 .. Len(written') : \E i \in DOMAIN Append(t, x) : Append(t, x)[i] = n
    <2>1. \/ Len(s) + Len(t) > LogLimit
          \/ \A n \in 1 .. Len(written) : \E i \in DOMAIN t : t[i] = n
      BY HoldIs DEF LogsHold, s, t
    <2>2. CASE Len(s) + Len(t) > LogLimit
      <3>1. Len(s) \in Nat /\ Len(t) \in Nat /\ LogLimit \in Nat
        BY <1>3, StoresAssumption
      <3>2. QED
        BY <1>6, <2>2, <3>1
    <2>3. CASE \A n \in 1 .. Len(written) : \E i \in DOMAIN t : t[i] = n
      <3>1. /\ \A i \in DOMAIN t : i \in DOMAIN Append(t, x) /\ Append(t, x)[i] = t[i]
            /\ Len(t) + 1 \in DOMAIN Append(t, x) /\ Append(t, x)[Len(t) + 1] = x
        BY <1>3, <1>5, <1>6, AppendProperties, LenProperties
      <3>2. ASSUME NEW n \in 1 .. Len(written')
            PROVE  \E i \in DOMAIN Append(t, x) : Append(t, x)[i] = n
        <4>1. CASE n \in 1 .. Len(written)
          BY <2>3, <3>1, <4>1
        <4>2. CASE n \notin 1 .. Len(written)
          <5>1. o = "record" /\ n = Len(written) + 1
            BY <1>3, <1>7, <3>2, <4>2
          <5>2. QED
            BY <3>1, <5>1 DEF x
        <4>3. QED
          BY <4>1, <4>2
      <3>3. QED
        BY <3>2
    <2>4. QED
      BY <2>1, <2>2, <2>3
  <1>11. LogsHold'
    <2>1. Run(disk'["log.1"] \o disk'["log"], Len(written'))
      BY <1>4, <1>9
    <2>2. LastRecords(disk["log.1"] \o disk["log"])'
      BY <2>1 DEF LastRecords, Run
    <2>3. QED
      BY <1>4, <1>10, <2>2 DEF LogsHold
  <1>12. \A l \in Logs : disk'[l] \in Seq(Nat)
    BY <1>3, <1>4, <1>6, FileNames
  <1>13. QED
    BY <1>1, <1>2, <1>4, <1>7, <1>11, <1>12, LogOnly

\* The log moved aside before is removed: the records left are the last ones.
LEMMA LogDrops ==
  ASSUME StoreTypes, StoresHold, Len(disk["log"]) > LogLimit, NEW rest \in Seq(Operation),
         todo = Then(Op("put", "log.1", <<>>), rest), FileStep
  PROVE  /\ StoreTypes' /\ StoresHold' /\ todo' = rest
         /\ disk'["log.1"] = <<>> /\ disk'["log"] = disk["log"]
  <1> DEFINE s == disk["log.1"]
             t == disk["log"]
  <1>1. /\ todo' = rest /\ UNCHANGED <<windows, next>> /\ Performs(Op("put", "log.1", <<>>))
    BY LogLists, NextOperation
  <1>2. /\ s \in Seq(Nat) /\ t \in Seq(Nat) /\ written \in Seq(Nat) /\ Len(written) \in Nat
        /\ "log" \in Logs /\ "log.1" \in Logs /\ \A f \in Files : f # "log.1"
        /\ <<>> \in Seq(Nat) /\ Len(t) \in Nat
    BY FileNames DEF StoreTypes
  <1>3. /\ UNCHANGED <<written, may, cut>> /\ disk' = [disk EXCEPT !["log.1"] = <<>>]
        /\ disk'["log.1"] = <<>> /\ \A g \in Files \cup Logs : g # "log.1" => disk'[g] = disk[g]
    BY <1>1, <1>2, Puts
  <1>4. /\ DOMAIN disk' = DOMAIN disk /\ disk' = [h \in DOMAIN disk |-> disk'[h]]
    BY <1>3 DEF StoreTypes
  <1>5. disk'["log"] = t /\ \A f \in Files : disk'[f] = disk[f]
    BY <1>2, <1>3
  <1>6. Run(s \o t, Len(written))
    BY HoldIs, LastRecordsAre DEF LogsHold
  <1>7. Run(t, Len(written))
    BY <1>2, <1>6, EndOfRun
  <1>8. <<>> \o t = t
    BY <1>2, ConcatEmptySeq
  <1>9. LogsHold'
    <2>1. Run(disk'["log.1"] \o disk'["log"], Len(written'))
      BY <1>3, <1>5, <1>7, <1>8
    <2>2. LastRecords(disk["log.1"] \o disk["log"])'
      BY <2>1 DEF LastRecords, Run
    <2>3. Len(disk'["log.1"]) + Len(disk'["log"]) > LogLimit
      <3>1. Len(disk'["log.1"]) = 0 /\ Len(disk'["log"]) = Len(t)
        BY <1>3, <1>5
      <3>2. QED
        BY <1>2, <3>1
    <2>4. QED
      BY <2>2, <2>3 DEF LogsHold
  <1>10. \A l \in Logs : disk'[l] \in Seq(Nat)
    BY <1>2, <1>3, <1>5, FileNames
  <1>11. QED
    BY <1>1, <1>2, <1>3, <1>4, <1>5, <1>9, <1>10, LogOnly

\* The log is moved aside: the two together hold what they held.
LEMMA LogMoves ==
  ASSUME StoreTypes, StoresHold, Len(disk["log"]) > LogLimit, disk["log.1"] = <<>>,
         NEW rest \in Seq(Operation), todo = Then(Rename("log", "log.1"), rest), FileStep
  PROVE  StoreTypes' /\ StoresHold' /\ todo' = rest
  <1> DEFINE t == disk["log"]
  <1>1. /\ todo' = rest /\ UNCHANGED <<windows, next>> /\ Performs(Rename("log", "log.1"))
    BY LogLists, NextOperation
  <1>2. /\ t \in Seq(Nat) /\ written \in Seq(Nat) /\ Len(written) \in Nat
        /\ "log" \in Logs /\ "log.1" \in Logs /\ \A f \in Files : f # "log.1" /\ f # "log"
        /\ <<>> \in Seq(Nat) /\ Len(t) \in Nat
    BY FileNames DEF StoreTypes
  <1>3. /\ UNCHANGED <<written, may, cut>>
        /\ disk'["log.1"] = t /\ disk'["log"] = <<>>
        /\ \A h \in Files \cup Logs : h \notin {"log", "log.1"} => disk'[h] = disk[h]
        /\ DOMAIN disk' = DOMAIN disk /\ disk' = [h \in DOMAIN disk |-> disk'[h]]
    BY <1>1, <1>2, Renames
  <1>4. \A f \in Files : disk'[f] = disk[f]
    BY <1>2, <1>3
  <1>5. <<>> \o t = t /\ t \o <<>> = t
    BY <1>2, ConcatEmptySeq
  <1>6. Run(<<>> \o t, Len(written))
    BY HoldIs, LastRecordsAre DEF LogsHold
  <1>7. LogsHold'
    <2>1. Run(disk'["log.1"] \o disk'["log"], Len(written'))
      BY <1>3, <1>5, <1>6
    <2>2. LastRecords(disk["log.1"] \o disk["log"])'
      BY <2>1 DEF LastRecords, Run
    <2>3. Len(disk'["log.1"]) + Len(disk'["log"]) > LogLimit
      BY <1>2, <1>3
    <2>4. QED
      BY <2>2, <2>3 DEF LogsHold
  <1>8. \A l \in Logs : disk'[l] \in Seq(Nat)
    BY <1>2, <1>3, FileNames
  <1>9. QED
    BY <1>1, <1>2, <1>3, <1>4, <1>7, <1>8, LogOnly

LEMMA LogStep ==
  ASSUME StoreTypes, StoresHold, LogPlan, FileStep
  PROVE  StoreInv'
  <1> DEFINE newline == Then(Op("newline", "log", NoFile), <<>>)
             move == Then(Rename("log", "log.1"), Recording)
  <1>1. Recording = Then(Op("record", "log", NoFile), newline)
    BY DEF Recording
  <1>2. newline \in Seq(Operation) /\ move \in Seq(Operation) /\ Recording \in Seq(Operation)
        /\ <<>> \in Seq(Operation)
    BY LogLists
  <1>3. CASE todo = Recording
    <2>1. StoreTypes' /\ StoresHold' /\ todo' = newline
      BY <1>1, <1>2, <1>3, LogAdds
    <2>2. LogPlan'
      BY <2>1 DEF LogPlan
    <2>3. QED
      BY <2>1, <2>2 DEF StoreInv
  <1>4. CASE todo = newline
    <2>1. StoreTypes' /\ StoresHold' /\ todo' = <<>>
      BY <1>2, <1>4, LogAdds
    <2>2. QED
      BY <2>1 DEF StoreInv
  <1>5. CASE Len(disk["log"]) > LogLimit /\ todo = move /\ disk["log.1"] = <<>>
    <2>1. StoreTypes' /\ StoresHold' /\ todo' = Recording
      BY <1>2, <1>5, LogMoves
    <2>2. LogPlan'
      BY <2>1 DEF LogPlan
    <2>3. QED
      BY <2>1, <2>2 DEF StoreInv
  <1>6. CASE Len(disk["log"]) > LogLimit /\ todo = Then(Op("put", "log.1", <<>>), move)
    <2>1. /\ StoreTypes' /\ StoresHold' /\ todo' = move
          /\ disk'["log.1"] = <<>> /\ disk'["log"] = disk["log"]
      BY <1>2, <1>6, LogDrops
    <2>2. Len(disk'["log"]) > LogLimit
      BY <1>6, <2>1
    <2>3. LogPlan'
      BY <2>1, <2>2 DEF LogPlan
    <2>4. QED
      BY <2>1, <2>3 DEF StoreInv
  <1>7. QED
    BY <1>3, <1>4, <1>5, <1>6 DEF LogPlan
-----------------------------------------------------------------------------
(* A command begins: what is on disk stays, and the list is one of those.     *)

LEMMA HoldsOn ==
  ASSUME StoreTypes, StoresHold, UNCHANGED <<windows, disk, written>>,
         may' \in [Stored -> SUBSET Value], \A f \in Stored : may[f] \subseteq may'[f],
         next' \in Nat, cut' \in BOOLEAN, cut => cut'
  PROVE  StoreTypes' /\ StoresHold'
  <1>1. StoreTypes'
    BY DEF StoreTypes
  <1>2. \A f \in Stored : disk'[f] \in may'[f]
    BY HoldIs
  <1>3. PackageHolds' /\ Lawful(Entry)'
    BY HoldIs DEF PackageHolds, Lawful, Entry, StoreTypes
  <1>4. LogsHold'
    BY HoldIs, LogsKept
  <1>5. QED
    BY <1>1, <1>2, <1>3, <1>4 DEF StoresHold, PackageHolds, Lawful, LogsHold

LEMMA BeginKeeps ==
  ASSUME StoreTypes, StoresHold, NEW f \in Stored, NEW v \in Value, NEW after \in Afters,
         NEW before \in Seq(Operation), Begins(f, v, before, after),
         next' \in Nat, cut' \in BOOLEAN, cut => cut'
  PROVE  /\ StoreTypes' /\ StoresHold' /\ v \in may'[f] /\ UNCHANGED disk
         /\ \E rest \in Rests(f, v, after)' :
              /\ todo' = before \o Replacing(f, v, rest)
              /\ f = "registry" => rest = Moving(f, v, after)
  <1> DEFINE none == IF windows /\ f # "registry" THEN {NoFile} ELSE {}
             rest == IF windows /\ f # "registry" /\ disk[f] # NoFile
                     THEN Clearing(f, v, after) ELSE Moving(f, v, after)
  <1>1. /\ UNCHANGED <<windows, disk, written>>
        /\ may' = [may EXCEPT ![f] = may[f] \cup {v} \cup none]
        /\ todo' = before \o Replace(f, v) \o <<Finish(f, v)>> \o after
    BY DEF Begins, Allowing
  <1>2. none \subseteq Value /\ may \in [Stored -> SUBSET Value]
    BY Versions DEF StoreTypes
  <1> HIDE DEF none
  <1>3. /\ may' \in [Stored -> SUBSET Value] /\ \A g \in Stored : may[g] \subseteq may'[g]
        /\ v \in may'[f] /\ none \subseteq may'[f]
    BY <1>1, <1>2
  <1>4. StoreTypes' /\ StoresHold'
    BY <1>1, <1>3, HoldsOn
  <1>5. todo' = before \o Replacing(f, v, rest)
    <2>1. todo' = before \o (Replace(f, v) \o <<Finish(f, v)>> \o after)
      BY <1>1, BeforeReplace
    <2>2. Replace(f, v) \o <<Finish(f, v)>> \o after = Replacing(f, v, rest)
      BY ReplaceIs
    <2>3. QED
      BY <2>1, <2>2
  <1>6. rest \in Rests(f, v, after)'
    <2>1. CASE windows /\ f # "registry" /\ disk[f] # NoFile
      <3>1. rest = Clearing(f, v, after) /\ NoFile \in may'[f]
        BY <1>3, <2>1 DEF none
      <3>2. QED
        BY <2>1, <3>1 DEF Rests
    <2>2. CASE ~(windows /\ f # "registry" /\ disk[f] # NoFile)
      <3>1. rest = Moving(f, v, after)
        BY <2>2
      <3>2. QED
        BY <3>1 DEF Rests
    <2>3. QED
      BY <2>1, <2>2
  <1>7. f = "registry" => rest = Moving(f, v, after)
    OBVIOUS
  <1> HIDE DEF rest
  <1>8. QED
    BY <1>1, <1>3, <1>4, <1>5, <1>6, <1>7

\* With nothing before it, it is at the first stage of a replacement.
LEMMA BeginReplaces ==
  ASSUME StoreTypes, StoresHold, NEW f \in Stored, NEW v \in Value, NEW after \in Afters,
         Begins(f, v, <<>>, after), next' \in Nat, cut' \in BOOLEAN, cut => cut'
  PROVE  /\ StoreTypes' /\ StoresHold' /\ v \in may'[f] /\ UNCHANGED disk
         /\ ReplaceStage(f, v, after)'
  <1>1. <<>> \in Seq(Operation)
    OBVIOUS
  <1>2. /\ StoreTypes' /\ StoresHold' /\ v \in may'[f] /\ UNCHANGED disk
        /\ \E rest \in Rests(f, v, after)' : todo' = <<>> \o Replacing(f, v, rest)
    BY <1>1, BeginKeeps
  <1>3. PICK rest \in Rests(f, v, after)' : todo' = <<>> \o Replacing(f, v, rest)
    BY <1>2
  <1>4. rest \in Seq(Operation)
    BY Lists DEF Rests
  <1>5. <<>> \o Replacing(f, v, rest) = Replacing(f, v, rest)
    BY <1>4, Lists, ConcatEmptySeq
  <1>6. \E r \in Rests(f, v, after)' : todo' \in {Filling(f, v, r), Replacing(f, v, r)}
    BY <1>3, <1>5
  <1>7. ReplaceStage(f, v, after)'
    BY <1>6 DEF ReplaceStage
  <1>8. QED
    BY <1>2, <1>7

LEMMA TextBegins ==
  ASSUME StoreTypes, StoresHold, TextCommand
  PROVE  StoreInv'
  <1>1. /\ "session" \in Stored /\ "memory" \in Stored /\ <<>> \in Afters
        /\ next \in Nat /\ cut \in BOOLEAN /\ NoFile \in Value
    BY FileNames, Versions DEF Afters, StoreTypes
  <1>2. ASSUME NEW f \in {"session", "memory"}, Begins(f, Whole(next), <<>>, <<>>),
               next' = next + 1, UNCHANGED cut
        PROVE  StoreInv'
    <2>1. PICK v \in Value : v = Whole(next)
      BY <1>1, Versions
    <2>2. /\ f \in Stored /\ Begins(f, v, <<>>, <<>>)
          /\ next' \in Nat /\ cut' \in BOOLEAN /\ (cut => cut')
      BY <1>1, <1>2, <2>1
    <2>3. /\ StoreTypes' /\ StoresHold' /\ v \in may'[f]
          /\ ReplaceStage(f, v, <<>>)'
      BY <1>1, <2>2, BeginReplaces
    <2>4. TextPlan'
      BY <2>3 DEF TextPlan
    <2>5. QED
      BY <2>3, <2>4 DEF StoreInv
  <1>3. CASE SaveSession
    BY <1>2, <1>3 DEF SaveSession
  <1>4. CASE SaveMemory
    BY <1>2, <1>4 DEF SaveMemory
  <1>5. CASE ClearMemory
    <2>1. /\ todo' = <<Remove("memory"), Finish("memory", NoFile)>>
          /\ Allowing("memory", NoFile) /\ UNCHANGED <<windows, disk, next, cut, written>>
      BY <1>5 DEF ClearMemory
    <2>2. /\ Remove("memory") \in Operation /\ Finish("memory", NoFile) \in Operation
      BY <1>1, Lists
    <2>3. todo' = Then(Remove("memory"), Ending("memory", NoFile, <<>>))
      BY <2>1, <2>2, Pairs DEF Ending
    <2>4. /\ may' \in [Stored -> SUBSET Value] /\ \A g \in Stored : may[g] \subseteq may'[g]
          /\ NoFile \in may'["memory"]
      BY <1>1, <2>1 DEF Allowing, StoreTypes
    <2>5. StoreTypes' /\ StoresHold'
      BY <1>1, <2>1, <2>4, HoldsOn
    <2>6. TextPlan'
      BY <1>1, <2>3, <2>4 DEF TextPlan
    <2>7. QED
      BY <2>5, <2>6 DEF StoreInv
  <1>6. QED
    BY <1>3, <1>4, <1>5 DEF TextCommand

\* A command that writes the entry alone.
LEMMA EntryBegins ==
  ASSUME StoreTypes, StoresHold, NEW v \in Value, Lawful(v), v.version = Entry.version,
         Begins("registry", v, <<>>, <<>>), UNCHANGED <<next, cut>>
  PROVE  StoreInv'
  <1>1. /\ "registry" \in Stored /\ <<>> \in Afters
        /\ next' \in Nat /\ cut' \in BOOLEAN /\ (cut => cut')
    BY FileNames DEF Afters, StoreTypes
  <1>2. /\ StoreTypes' /\ StoresHold' /\ v \in may'["registry"] /\ UNCHANGED disk
        /\ ReplaceStage("registry", v, <<>>)'
    BY <1>1, BeginReplaces
  <1>3. Entry' = Entry
    BY <1>2 DEF Entry
  <1>4. EntryPlan'
    BY <1>2, <1>3 DEF EntryPlan, Lawful
  <1>5. QED
    BY <1>2, <1>4 DEF StoreInv

LEMMA PluginBegins ==
  ASSUME StoreTypes, StoresHold, PluginCommand
  PROVE  StoreInv'
  <1>1. /\ "registry" \in Stored /\ <<Settle>> \in Afters /\ "registry" \in Files
        /\ next \in Nat /\ cut \in BOOLEAN /\ NoFile \in Value /\ Torn \in Value
    BY FileNames, Versions DEF Afters, StoreTypes
  <1>2. Entry \in Value /\ Lawful(Entry)
    BY <1>1, HoldIs DEF Entry, StoreTypes
  <1>3. CASE QuarantinePlugin
    <2>1. PICK v \in Value : v = [Entry EXCEPT !.enabled = FALSE, !.quarantined = TRUE]
      BY <1>2 DEF Value
    <2>2. Lawful(v) /\ v.version = Entry.version
      BY <1>2, <2>1 DEF Lawful, Value
    <2>3. Begins("registry", v, <<>>, <<>>) /\ UNCHANGED <<next, cut>>
      BY <1>3, <2>1 DEF QuarantinePlugin
    <2>4. QED
      BY <2>2, <2>3, EntryBegins
  <1>4. CASE \E on \in BOOLEAN : SetPluginEnabled(on)
    <2>1. PICK on \in BOOLEAN : SetPluginEnabled(on)
      BY <1>4
    <2>2. PICK v \in Value : v = [Entry EXCEPT !.enabled = on]
      BY <1>2 DEF Value
    <2>3. /\ Begins("registry", v, <<>>, <<>>) /\ UNCHANGED <<next, cut>>
          /\ ~(on /\ Entry.quarantined)
      BY <2>1, <2>2 DEF SetPluginEnabled
    <2>4. Lawful(v) /\ v.version = Entry.version
      BY <1>2, <2>2, <2>3 DEF Lawful, Value
    <2>5. QED
      BY <2>3, <2>4, EntryBegins
  <1>5. CASE InstallPlugin
    <2>1. PICK v \in Value : v = Whole(next)
      BY <1>1, Versions
    <2> DEFINE a == Create("manifest")
               b == Op("put", "manifest", v)
               c == Create("package")
               d == Op("put", "package", v)
               before == Put("manifest", v) \o Put("package", v)
    <2>2. /\ a \in Operation /\ b \in Operation /\ c \in Operation /\ d \in Operation
      BY <1>1, Operations, FileNames DEF Create
    <2>3. before = <<a, b>> \o <<c, d>>
      BY DEF Put
    <2>4. Begins("registry", v, before, <<Settle>>) /\ next' = next + 1 /\ cut' = TRUE
      BY <1>5, <2>1 DEF InstallPlugin
    <2> HIDE DEF before, a, b, c, d
    <2>5. <<a, b>> \in Seq(Operation) /\ <<c, d>> \in Seq(Operation)
      BY <2>2
    <2>6. before \in Seq(Operation)
      BY <2>3, <2>5, ConcatProperties
    <2>7. /\ StoreTypes' /\ StoresHold' /\ v \in may'["registry"]
          /\ \E rest \in Rests("registry", v, <<Settle>>)' :
               /\ todo' = before \o Replacing("registry", v, rest)
               /\ "registry" = "registry" => rest = Moving("registry", v, <<Settle>>)
      BY <1>1, <2>4, <2>6, BeginKeeps
    <2>8. todo' = before \o WriteEntry(v) /\ WriteEntry(v) \in Seq(Operation)
      BY <2>7, PackageLists DEF WriteEntry
    <2>9. before \o WriteEntry(v) = <<a, b>> \o (<<c, d>> \o WriteEntry(v))
      BY <2>3, <2>5, <2>8, ConcatAssociative
    <2>10. <<c, d>> \o WriteEntry(v) = WritePackage(v) /\ WritePackage(v) \in Seq(Operation)
      BY <2>2, <2>8, Pairs, PackageLists DEF WritePackage, c, d
    <2>11. <<a, b>> \o WritePackage(v) = Then(a, Then(b, WritePackage(v)))
      BY <2>2, <2>10, Pairs
    <2>12. todo' = Then(Create("manifest"), Then(Op("put", "manifest", v), WritePackage(v)))
      BY <2>8, <2>9, <2>10, <2>11 DEF a, b
    <2>13. PackageFiles(v)'
      BY <2>12 DEF PackageFiles
    <2>14. Lawful(v)
      BY <1>1, <2>1, Versions DEF Lawful
    <2>15. PackagePlan'
      BY <2>4, <2>7, <2>13, <2>14 DEF PackagePlan, Lawful
    <2>16. QED
      BY <2>7, <2>15 DEF StoreInv
  <1>6. CASE UninstallPlugin
    <2> DEFINE v == NoFile
               a == Remove("manifest")
               b == Remove("package")
               none == disk["manifest"] = NoFile /\ disk["package"] = NoFile
               before == IF none THEN <<>> ELSE <<a, b>>
    <2>1. Begins("registry", v, before, <<Settle>>) /\ UNCHANGED next /\ cut' = TRUE
      BY <1>6 DEF UninstallPlugin
    <2>2. a \in Operation /\ b \in Operation /\ v \in Value /\ Lawful(v)
      BY <1>1, Operations, FileNames, Versions DEF Remove, NoFile, Lawful
    <2>3. next' \in Nat /\ cut' \in BOOLEAN /\ (cut => cut')
      BY <1>1, <2>1
    <2>4. CASE none
      <3>1. Begins("registry", v, <<>>, <<Settle>>)
        BY <2>1, <2>4
      <3>2. /\ StoreTypes' /\ StoresHold' /\ v \in may'["registry"] /\ UNCHANGED disk
            /\ ReplaceStage("registry", v, <<Settle>>)'
        BY <1>1, <2>2, <2>3, <3>1, BeginReplaces
      <3>3. PackageIs(v)'
        BY <2>4, <3>2 DEF PackageIs, NoFile, Whole
      <3>4. PackagePlan'
        BY <2>1, <2>2, <3>2, <3>3 DEF PackagePlan, Lawful
      <3>5. QED
        BY <3>2, <3>4 DEF StoreInv
    <2>5. CASE ~none
      <3>1. Begins("registry", v, <<a, b>>, <<Settle>>)
        BY <2>1, <2>5
      <3> HIDE DEF a, b, v
      <3>2. <<a, b>> \in Seq(Operation)
        BY <2>2
      <3>3. /\ StoreTypes' /\ StoresHold' /\ v \in may'["registry"]
            /\ \E rest \in Rests("registry", v, <<Settle>>)' :
                 /\ todo' = <<a, b>> \o Replacing("registry", v, rest)
                 /\ "registry" = "registry" => rest = Moving("registry", v, <<Settle>>)
        BY <1>1, <2>2, <2>3, <3>1, <3>2, BeginKeeps
      <3>4. todo' = <<a, b>> \o WriteEntry(v) /\ WriteEntry(v) \in Seq(Operation)
        BY <2>2, <3>3, PackageLists DEF WriteEntry
      <3>5. todo' = Then(a, Then(b, WriteEntry(v)))
        BY <2>2, <3>4, Pairs
      <3>6. v = NoFile /\ todo' = Then(Remove("manifest"), Then(Remove("package"), WriteEntry(v)))
        BY <3>5 DEF a, b, v
      <3>7. PackageFiles(v)'
        BY <3>6 DEF PackageFiles
      <3>8. PackagePlan'
        BY <2>1, <2>2, <3>3, <3>7 DEF PackagePlan, Lawful
      <3>9. QED
        BY <3>3, <3>8 DEF StoreInv
    <2>6. QED
      BY <2>4, <2>5
  <1>7. QED
    BY <1>3, <1>4, <1>5, <1>6 DEF PluginCommand

LEMMA RecordBegins ==
  ASSUME StoreTypes, StoresHold, RecordError
  PROVE  StoreInv'
  <1> DEFINE a == Op("record", "log", NoFile)
             b == Op("newline", "log", NoFile)
             c == Op("put", "log.1", <<>>)
             d == Rename("log", "log.1")
             long == Len(disk["log"]) > LogLimit
  <1>1. /\ UNCHANGED <<windows, disk, next, may, cut, written>>
        /\ todo' = (IF long THEN Rotate ELSE <<>>) \o <<a, b>>
    BY DEF RecordError
  <1>2. /\ a \in Operation /\ b \in Operation /\ c \in Operation /\ d \in Operation
        /\ Recording \in Seq(Operation)
    BY LogLists
  <1>3. <<a, b>> = Recording
    BY <1>2, Pairs DEF Recording
  <1>4. StoreTypes' /\ StoresHold'
    <2>1. may' \in [Stored -> SUBSET Value] /\ next' \in Nat /\ cut' \in BOOLEAN
      BY <1>1 DEF StoreTypes
    <2>2. QED
      BY <1>1, <2>1, HoldsOn
  <1>5. CASE long
    <2>1. todo' = <<c, d>> \o Recording
      BY <1>1, <1>3, <1>5 DEF Rotate
    <2>2. todo' = Then(c, Then(d, Recording))
      BY <1>2, <2>1, Pairs
    <2>3. LogPlan'
      BY <1>1, <1>5, <2>2 DEF LogPlan
    <2>4. QED
      BY <1>4, <2>3 DEF StoreInv
  <1>6. CASE ~long
    <2>1. todo' = <<>> \o Recording
      BY <1>1, <1>3, <1>6
    <2>2. todo' = Recording
      BY <1>2, <2>1, ConcatEmptySeq
    <2>3. LogPlan'
      BY <2>2 DEF LogPlan
    <2>4. QED
      BY <1>4, <2>3 DEF StoreInv
  <1>7. QED
    BY <1>5, <1>6

-----------------------------------------------------------------------------
LEMMA StoreInit == DsInit => StoreInv
  <1> SUFFICES ASSUME DsInit PROVE StoreInv
    OBVIOUS
  <1>1. /\ Stored \subseteq Files /\ Files \cap Logs = {} /\ "manifest" \in Files
        /\ "package" \in Files /\ "registry" \in Files /\ NoFile \in Value
        /\ "log" \in Logs /\ "log.1" \in Logs
    BY FileNames, Versions
  <1>2. /\ windows \in BOOLEAN /\ todo = <<>> /\ next = 1 /\ cut = FALSE /\ written = <<>>
        /\ may = [f \in Stored |-> {NoFile}]
        /\ disk = [f \in Files \cup Logs |-> IF f \in Logs THEN <<>> ELSE NoFile]
    BY DEF DsInit
  <1>3. /\ \A f \in Files : disk[f] = NoFile
        /\ \A l \in Logs : disk[l] = <<>>
    BY <1>1, <1>2
  <1>4. <<>> \in Seq(Nat)
    OBVIOUS
  <1>5. StoreTypes
    BY <1>1, <1>2, <1>3, <1>4 DEF StoreTypes
  <1>6. disk["log"] = <<>> /\ disk["log.1"] = <<>> /\ <<>> \o <<>> = <<>>
    BY <1>1, <1>3, <1>4, ConcatEmptySeq
  <1>7. LogsHold
    <2>1. Run(<<>>, Len(written))
      BY DEF Run
    <2>2. LastRecords(disk["log.1"] \o disk["log"])
      BY <1>6, <2>1, LastRecordsAre
    <2>3. 1 .. Len(written) = {}
      BY <1>2
    <2>4. QED
      BY <2>2, <2>3 DEF LogsHold
  <1>8. PackageHolds /\ Lawful(Entry)
    <2>1. Entry = NoFile /\ disk["manifest"] = NoFile /\ disk["package"] = NoFile
      BY <1>1, <1>3 DEF Entry
    <2>2. QED
      BY <2>1 DEF PackageHolds, Lawful, NoFile, Whole
  <1>9. StoresHold
    BY <1>1, <1>2, <1>3, <1>7, <1>8, HoldIs
  <1>10. QED
    BY <1>2, <1>5, <1>9 DEF StoreInv

LEMMA StoreUnchanged == StoreInv /\ UNCHANGED dsVars => StoreInv'
  <1> SUFFICES ASSUME StoreInv, UNCHANGED dsVars PROVE StoreInv'
    OBVIOUS
  <1>1. UNCHANGED <<windows, disk, todo, next, may, cut, written>>
    BY DEF dsVars
  <1>2. StoreTypes /\ StoresHold
    BY DEF StoreInv
  <1>3. StoreTypes' /\ StoresHold'
    <2>1. may' \in [Stored -> SUBSET Value] /\ next' \in Nat /\ cut' \in BOOLEAN
      BY <1>1, <1>2 DEF StoreTypes
    <2>2. QED
      BY <1>1, <1>2, <2>1, HoldsOn
  <1>4. \A f, v, after : ReplaceStage(f, v, after)' <=> ReplaceStage(f, v, after)
    BY <1>1 DEF ReplaceStage, Rests
  <1>5. TextPlan => TextPlan'
    BY <1>1, <1>4 DEF TextPlan
  <1>6. EntryPlan => EntryPlan'
    BY <1>1, <1>4 DEF EntryPlan, Entry, Lawful
  <1>7. PackagePlan => PackagePlan'
    BY <1>1, <1>4 DEF PackagePlan, PackageFiles, PackageIs, Entry, Lawful
  <1>8. LogPlan => LogPlan'
    BY <1>1 DEF LogPlan
  <1>9. QED
    BY <1>1, <1>3, <1>5, <1>6, <1>7, <1>8 DEF StoreInv

LEMMA StoreStep == StoreInv /\ [Next]_allVars => StoreInv'
  <1> SUFFICES ASSUME StoreInv, [Next]_allVars PROVE StoreInv'
    OBVIOUS
  <1>1. StoreTypes /\ StoresHold
    BY DEF StoreInv
  <1>2. CASE StoreCommand
    <2>1. CASE TextCommand
      BY <1>1, <2>1, TextBegins
    <2>2. CASE PluginCommand
      BY <1>1, <2>2, PluginBegins
    <2>3. CASE RecordError
      BY <1>1, <2>3, RecordBegins
    <2>4. CASE FileStep
      <3>1. todo # <<>>
        BY <2>4 DEF FileStep
      <3>2. TextPlan \/ EntryPlan \/ PackagePlan \/ LogPlan
        BY <3>1 DEF StoreInv
      <3>3. QED
        BY <1>1, <2>4, <3>2, TextStep, EntryStep, PackageStep, LogStep
    <2>5. CASE CutShort
      <3>1. todo' = <<>> /\ UNCHANGED <<windows, disk, next, may, cut, written>>
        BY <2>5 DEF CutShort
      <3>2. may' \in [Stored -> SUBSET Value] /\ next' \in Nat /\ cut' \in BOOLEAN
        BY <1>1, <3>1 DEF StoreTypes
      <3>3. StoreTypes' /\ StoresHold'
        BY <1>1, <3>1, <3>2, HoldsOn
      <3>4. QED
        BY <3>1, <3>3 DEF StoreInv
    <2>6. QED
      BY <1>2, <2>1, <2>2, <2>3, <2>4, <2>5 DEF StoreCommand
  <1>3. ~StoreCommand => UNCHANGED dsVars
    BY DEF Next, allVars, RuntimeCommand, RuntimeGoesOn, ReaderRuns, EngineRuns, EngineFails,
           SetupThread, GatewayGoesOn, GatewayCommand, GatewayFails, PolicyCommand, ClockTicks,
           WebSearch, Leaves, Leave, RtRest, GwRest, ApRest
  <1>4. QED
    BY <1>2, <1>3, StoreUnchanged

\* What was stored is there.  Whatever operation of a command fails, and wherever
\* the host ends, the session, the memory and the registry hold a value stored or
\* being stored, the package is the one the registry names unless a change of it
\* was cut short, a quarantined plugin stays disabled, and the logs hold the last
\* records without a gap.
THEOREM StoresAlwaysHold == Spec => []StoresHold
  <1>1. Init => StoreInv
    BY StoreInit DEF Init
  <1>2. StoreInv /\ [Next]_allVars => StoreInv'
    BY StoreStep
  <1>3. StoreInv => StoresHold
    BY DEF StoreInv
  <1>4. QED
    BY <1>1, <1>2, <1>3, PTL DEF Spec
=============================================================================

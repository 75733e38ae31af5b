----------------------------- MODULE Approvals -----------------------------
(***************************************************************************)
(* The permission policy of the desktop host                                 *)
(* (desktop/src-tauri/src/permission_policy.rs), the tools it guards           *)
(* (tool_executor.rs, web_search in lib.rs) and the approval tokens a         *)
(* mutation needs: a call without one gets one, the user approves, and the    *)
(* same call comes again with it.                                            *)
(*                                                                           *)
(* A call runs under the policy's mutex.  An action is a call of a tool: its  *)
(* name, its arguments, and the folder its path or working directory lies in.  *)
(* The token of an action does not keep its arguments but their args_hash,    *)
(* which two actions may share: a write and an edit are hashed by the lengths  *)
(* of their texts, a command without its working directory.                   *)
(***************************************************************************)
EXTENDS Naturals, Sequences, FiniteSets

CONSTANTS Sessions, Roots,
          Actions,      \* tool calls, with their arguments
          MaxIssued,    \* tokens issued
          MaxActs       \* mutations carried out

VARIABLES mode,         \* "plan" or "agent"
          root,         \* workspace_root, "none" until a folder is opened
          issued,       \* every token issued, by number
          asked,        \* ghost: the action each of them was issued for
          live,         \* the numbers in the registry
          expired,      \* tokens up to this number are older than their TTL
          offered,      \* tokens handed to the user interface
          acts          \* what was carried out, with the token that allowed it

apVars == <<mode, root, issued, asked, live, expired, offered, acts>>

ApInit ==
  /\ mode = "plan" /\ root = "none" /\ issued = <<>> /\ asked = <<>>
  /\ live = {} /\ expired = 0 /\ offered = {} /\ acts = <<>>

Mutates(a) == a.tool \notin {"read_file", "list_directory"}
Inside(a) == a.within \in {"any", root}

\* args.join(","): the words of a command, each a sequence of letters.
Joined(words) ==
  LET upTo[n \in 0 .. Len(words)] ==
        IF n = 0 THEN <<>>
        ELSE upTo[n - 1] \o (IF n = 1 THEN <<>> ELSE <<",">>) \o words[n]
  IN upTo[Len(words)]

\* args_hash, a string in the clear.  A text is hashed by its length and, in a
\* write, its number of lines; a search by its query.
ArgsHashNoPath(a) == \* mutant: the path is left out
  CASE a.tool = "write_file" -> <<"write", a.content.len, a.content.lines>>
    [] a.tool = "edit_file"  -> <<"edit", a.old.len, a.new.len>>
    [] a.tool = "execute_command" -> <<"cmd", a.program \o <<":">> \o Joined(a.args)>>
    [] OTHER -> <<"web-search", a.query>>
ArgsHash(a) ==
  CASE a.tool = "write_file" -> <<"write", a.path, a.content.len, a.content.lines>>
    [] a.tool = "edit_file"  -> <<"edit", a.path, a.old.len, a.new.len>>
    [] a.tool = "execute_command" -> <<"cmd", a.program \o <<":">> \o Joined(a.args)>>
    [] OTHER -> <<"web-search", a.query>>

SetExecutionMode(m) ==
  /\ mode' = m /\ UNCHANGED <<root, issued, asked, live, expired, offered, acts>>
SetWorkspaceRoot(r) ==
  /\ root' = r /\ UNCHANGED <<mode, issued, asked, live, expired, offered, acts>>
\* Five minutes go by: tokens grow old in the order in which they were issued.
TimePasses ==
  /\ expired < Len(issued) /\ expired' = expired + 1
  /\ UNCHANGED <<mode, root, issued, asked, live, offered, acts>>

\* evaluate_action: "deny", "allow", or a mutation that needs approval.  It is
\* told no path of a command: execute_command looks at the cwd when it runs.
Evaluate(a) ==
  IF root = "none" \/ (a.tool # "execute_command" /\ ~Inside(a)) THEN "deny"
  ELSE IF ~Mutates(a) THEN "allow"
  ELSE IF mode = "plan" THEN "deny" ELSE "approve"

Token(s, a) == [session |-> s, tool |-> a.tool, hash |-> ArgsHash(a), root |-> root, mode |-> mode]

\* issue_token drops what is too old; it is called by every mutation that may
\* be approved, also by one that presents a token.
IssueToken(s, a) == issued' = Append(issued, Token(s, a)) /\ asked' = Append(asked, a)
Kept == {t \in live : t > expired}
Registered == Kept \cup {Len(issued) + 1}

\* consume_token: the token is gone whether it fits or not.
FitsAnyRoot(t, s, a) == \* mutant: the workspace is not compared
  /\ t \in Registered /\ t > expired
  /\ mode = "agent" /\ issued[t].mode = "agent"
  /\ issued[t].session = s /\ issued[t].tool = a.tool /\ issued[t].hash = ArgsHash(a)
Fits(t, s, a) ==
  /\ t \in Registered /\ t > expired
  /\ mode = "agent" /\ issued[t].mode = "agent"
  /\ issued[t].session = s /\ issued[t].tool = a.tool /\ issued[t].hash = ArgsHash(a)
  /\ issued[t].root = root
ConsumeTokenKeeps(t) == \* mutant: a token stays in the registry when it is used
  live' = Registered
ConsumeToken(t) == live' = Registered \ {t}

\* The first call of a mutation: the interface gets a token to approve.
NeedsApproval(s, a) ==
  /\ Evaluate(a) = "approve" /\ Len(issued) < MaxIssued
  /\ IssueToken(s, a) /\ live' = Registered
  /\ offered' = offered \cup {Len(issued')}
  /\ UNCHANGED <<mode, root, expired, acts>>

\* The second call: refused, tried without success (the file cannot be read, the
\* text to replace is not there, the cwd lies outside, no program starts) or done.
Refused(s, a, t) ==
  /\ Evaluate(a) = "approve" /\ Len(issued) < MaxIssued
  /\ ~Fits(t, s, a)
  /\ IssueToken(s, a) /\ ConsumeToken(t)
  /\ UNCHANGED <<mode, root, expired, offered, acts>>
Tried(s, a, t, done) ==
  /\ Evaluate(a) = "approve" /\ Len(issued) < MaxIssued /\ Len(acts) < MaxActs
  /\ Fits(t, s, a) /\ (done => Inside(a))
  /\ IssueToken(s, a) /\ ConsumeToken(t)
  /\ acts' = IF done
             THEN Append(acts, [token |-> t, call |-> a, did |-> Token(s, a), late |-> t <= expired])
             ELSE acts
  /\ UNCHANGED <<mode, root, expired, offered>>

ToolCall(a) == \E s \in Sessions :
  \/ NeedsApproval(s, a)
  \/ \E t \in offered : Refused(s, a, t) \/ \E done \in BOOLEAN : Tried(s, a, t, done)
=============================================================================

--------------------------- MODULE MCGateway -----------------------------
(***************************************************************************)
(* The gateway process: its requests and loads (Gateway) and what it makes  *)
(* of the text of one reply (StreamParser).  A parser belongs to one        *)
(* streamed request and shares nothing with the rest of the process         *)
(* (openai_server.py, lines 3426-3465), so a behaviour looks at the one     *)
(* side or the other.                                                       *)
(***************************************************************************)
EXTENDS Gateway, StreamParser

VARIABLE side    \* "requests" or "reply"

processVars == <<side, vars, parserVars>>

ProcessInit ==
    /\ Init /\ side \in {"requests", "reply"}
    /\ IF side = "reply" THEN ParserInit ELSE reply = <<>> /\ read = 0 /\ parser = Start

ProcessNext ==
    /\ UNCHANGED side
    /\ \/ side = "requests" /\ Next /\ UNCHANGED parserVars
       \/ side = "reply" /\ ParserNext /\ UNCHANGED vars

\* Only a request that was accepted is owed anything: on the side of the reply
\* none is.
ProcessSpec ==
    /\ ProcessInit /\ [][ProcessNext]_processVars
    /\ \A r \in Requests : WF_vars(Handler(r)) /\ WF_vars(Pump(r))
-----------------------------------------------------------------------------
(* Instances for TLC.                                                        *)
CONSTANT FreeLength    \* bound: markers and words of a reply of any form

\* f(s: string, n: integer); q is a character that JSON escapes.
MCTypes == <<"f">> :> (<<"s">> :> "string" @@ <<"n">> :> "integer")
MCSpecial == {"q"}
MCJson == {<<"v">>, <<"v", "v", "v", "v", "v">>}

\* Any markers and words in any order.
Pieces == {Marker(m) : m \in Markers} \cup {<<"x">>}
AnyForm == {FlattenSeq(ps) : ps \in UNION {[1 .. n -> Pieces] : n \in 1 .. FreeLength}}

\* Values: empty, escaped, longer than the look-ahead, one that begins like its
\* end marker.
Values == {<<>>, <<"q">>, <<"v", "v", "v", "q", "v">>, SubSeq(Marker("</arg_value>"), 1, 2) \o <<"v">>}
Arg(k, v) == Marker("<arg_key>") \o <<k>> \o Marker("</arg_key>")
             \o Marker("<arg_value>") \o v \o Marker("</arg_value>")
Args == {<<>>, Arg("n", <<"v">>), Arg("n", <<"v", "v", "v", "v", "v">>)} \cup {Arg("s", v) : v \in Values}
        \cup {Arg("s", v) \o Arg("n", <<"v">>) : v \in Values}
        \cup {Arg("n", <<"v">>) \o Arg("s", v) : v \in Values}
Box(args) == Marker("<tool_call>") \o <<"f">> \o args \o Marker("</tool_call>")
\* render_chat ends the prompt with <think>, or with <think></think> when the
\* model is not to think (openai_server.py, line 1225): a reply has no opening
\* marker, and reasoning ends with the closing one.
Thinking == {<<>>, Marker("</think>"), <<"t", "t", "t", "t">> \o Marker("</think>")}
Prose == {<<>>, <<"x", "x", "x", "x", Head(Marker("<think>")), "x">>}
Short == {<<>>, Arg("s", <<"q">>)}

MCInForm == {t \o x \o Box(a) \o y : t \in Thinking, x \in Prose, a \in Args, y \in Prose}
            \cup {t \o Box(a) \o x \o Box(b) : t \in Thinking, x \in Prose, a \in Short, b \in Short}
            \cup {t \o x : t \in Thinking, x \in Prose}
MCReplies == MCInForm \cup AnyForm
=============================================================================

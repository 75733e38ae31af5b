---------------------------- MODULE MCGlmDecode ----------------------------
(* Instances of GlmDecode for TLC.                                           *)
EXTENDS GlmDecode, Grammar

CONSTANTS
    Horizon,      \* bound: length of the documents a grammar is compared with
    Completion    \* bytes that complete any beginning of a document

\* 1 is `a', 2 is `b', 3 is `ab', 4 ends an answer.
MCBytes == <<<<"a">>, <<"b">>, <<"a", "b">>, <<>>>>

\* One token, or two, and an end now and then; documents come up.
MCSupport(h) ==
    LET n == Len(h) % 3
    IN  CASE Last(h) = 2 -> {3}
          [] Last(h) = 3 -> IF n = 0 THEN {1, 2} ELSE {1}
          [] Last(h) = 1 -> IF n = 0 THEN {2, 4} ELSE IF n = 1 THEN {2} ELSE {1}
          [] Last(h) = 4 -> {1}

MCPrompts == {<<>>, <<1>>, <<2, 1, 3>>}

Lit(bytes) == [kind |-> "literal", of |-> bytes, post |-> ""]
Rule(name, post) == [kind |-> "rule", of |-> name, post |-> post]
Group(alternates, post) == [kind |-> "group", of |-> alternates, post |-> post]
Class(bytes, post) == [kind |-> "class", of |-> bytes, post |-> post]

\* root ::= "a" x* "b" | "b" ("aba" [ab])+ ;  x ::= "b" ("ab")?
Nested == [root |-> <<<<Lit(<<"a">>), Rule("x", "*"), Lit(<<"b">>)>>,
                      <<Lit(<<"b">>), Group(<<<<Lit(<<"a", "b", "a">>), Class({"a", "b"}, "")>>>>, "+")>>>>,
           x |-> <<<<Lit(<<"b">>), Group(<<<<Lit(<<"a", "b">>)>>>>, "?")>>>>]
\* root ::= root "a" | "b": left recursion switches the walker off.
LeftRecursive == [root |-> <<<<Rule("root", ""), Lit(<<"a">>)>>, <<Lit(<<"b">>)>>>>]

Parsed == <<Nested, LeftRecursive>>
Names == <<<<"root", "x">>, <<"root">>>>
MCGrammars == [i \in DOMAIN Parsed |-> Compiled(Parsed[i], Names[i])]

---------------------------------------------------------------------------
\* The walker has followed what was emitted, byte by byte: its document is the
\* end of the answer's text (or of the answer that MORE goes on with), and when
\* it has none the last byte begins none (gr_feed, glm.c:4134).  Of the document
\* it knows what the grammar says: whether it can end here and what bytes go on
\* with it (gr_accept).
Documents == [i \in DOMAIN Parsed |-> Language(Parsed[i], Horizon)]
Emitted == FlattenSeq([i \in DOMAIN turn.out |-> Bytes[turn.out[i]]])
WalkerKnowsLanguage ==
    walker.on /\ walker.st.alive =>
        /\ IsSuffix(walker.text, Emitted) \/ IsSuffix(Emitted, walker.text)
        /\ walker.text = <<>> /\ Emitted # <<>> =>
               Last(Emitted) \notin Admissible(G, gr_state_init(G))
        /\ Len(walker.text) + Completion <= Horizon =>
               /\ Begins(Documents[gram], walker.text)
               /\ CanEnd(walker.st) <=> (walker.text \in Documents[gram])
               /\ Admissible(G, walker.st) = Continuations(Documents[gram], walker.text)
=============================================================================

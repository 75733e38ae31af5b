---------------------------- MODULE StreamParser ----------------------------
(***************************************************************************)
(* The two readers of a reply that may hold tool calls, in openai_server.py: *)
(* StreamParser, which is fed the reply in whatever pieces the engine      *)
(* prints and answers with deltas a client puts together, and              *)
(* parse_tool_calls, which gets the whole reply.                           *)
(*                                                                         *)
(* A text is a sequence of symbols.  A marker such as <tool_call> is two   *)
(* or three of them, so that a piece can end inside it; every other        *)
(* symbol stands for the text of a word.                                   *)
(***************************************************************************)
EXTENDS Naturals, Sequences, FiniteSets, FiniteSetsExt, SequencesExt

CONSTANTS
    Replies,        \* the replies the model may write
    InForm,         \* those of the form the prompt asks for
    ParamTypes,     \* function name -> key -> declared type
    Special,        \* symbols that JSON escapes in a string
    Json,           \* texts that are JSON values, as json.dumps writes them
    MaxPiece        \* bound: symbols of a piece

\* The symbols that occur in replies.
Alphabet == UNION {ToSet(r) : r \in Replies}

\* A quote of the text is another symbol, one of Special, than the quotes that
\* JSON puts around a string.
ASSUME ParserAssumption ==
    /\ InForm \subseteq Replies /\ Replies \subseteq Seq(Alphabet) /\ MaxPiece \in Nat \ {0}
    /\ "\"" \notin Alphabet

VARIABLES reply, read, parser

parserVars == <<reply, read, parser>>

\* The two longest markers have three symbols, the others two.
Marker(m) == CASE m = "<tool_call>"  -> <<"<tool_", "call>">>
               [] m = "</tool_call>" -> <<"</to", "ol_c", "all>">>
               [] m = "<think>"      -> <<"<th", "ink>">>
               [] m = "</think>"     -> <<"</thi", "nk>">>
               [] m = "<arg_key>"    -> <<"<arg_", "key>">>
               [] m = "</arg_key>"   -> <<"</arg_k", "ey>">>
               [] m = "<arg_value>"  -> <<"<arg_va", "lue>">>
               [] m = "</arg_value>" -> <<"</ar", "g_val", "ue>">>
Symbols(m) == Len(Marker(m))
Markers == {"<tool_call>", "</tool_call>", "<think>", "</think>",
            "<arg_key>", "</arg_key>", "<arg_value>", "</arg_value>"}
MarkerSymbols == UNION {ToSet(Marker(m)) : m \in Markers}
MaxLookahead == 3

Places(buf, m) == {i \in 1 .. Len(buf) + 1 - Symbols(m) : SubSeq(buf, i, i + Symbols(m) - 1) = Marker(m)}
Occurs(buf, m) == Places(buf, m) # {}
Find(buf, m) == CHOOSE i \in Places(buf, m) : \A j \in Places(buf, m) : i <= j
Before(buf, m) == SubSeq(buf, 1, Find(buf, m) - 1)
After(buf, m) == SubSeq(buf, Find(buf, m) + Symbols(m), Len(buf))

\* m comes first of the two.
First(buf, m, other) == Occurs(buf, m) /\ (Occurs(buf, other) => Find(buf, m) < Find(buf, other))

---------------------------------------------------------------------------
(* What a client puts together from the deltas                            *)

NoClient == [content |-> <<>>, reasoning |-> <<>>, calls |-> <<>>]
Says(c, s) == [c EXCEPT !.content = @ \o s]
Reasons(c, s) == [c EXCEPT !.reasoning = @ \o s]
Calls(c, name) == [c EXCEPT !.calls = Append(@, [name |-> name, arguments |-> <<"{">>])]

\* A delta for call `index' (from 0); one nobody announced has no name.
Argues(c, index, s) ==
    IF index < Len(c.calls)
    THEN [c EXCEPT !.calls[index + 1].arguments = @ \o s]
    ELSE [c EXCEPT !.calls = Append(@, [name |-> <<>>, arguments |-> s])]

\* json.dumps of a string, without and with its quotes.
Escaped(s) == FlattenSeq([i \in DOMAIN s |-> IF s[i] \in Special THEN <<"\\", s[i]>> ELSE <<s[i]>>])

Quoted(s) == <<"\"">> \o Escaped(s) \o <<"\"">>

\* The type the request's schema gives a parameter.
Declared(name, key, default) ==
    IF name \in DOMAIN ParamTypes /\ key \in DOMAIN ParamTypes[name] THEN ParamTypes[name][key] ELSE default

---------------------------------------------------------------------------
(* StreamParser                                                           *)

Start == [state |-> "TEXT", buf |-> <<>>, tc_index |-> 0, name |-> <<>>,
          arg_key |-> <<>>, first_arg |-> TRUE, client |-> NoClient]

\* A parameter the schema does not name is a string here.
IsString(p) == Declared(p.name, p.arg_key, "string") = "string"

\* What of the buffer cannot be the beginning of a marker.
SafeShort(p) == IF Len(p.buf) > MaxLookahead THEN Len(p.buf) + 2 - MaxLookahead ELSE 0
Safe(p) == IF Len(p.buf) > MaxLookahead THEN Len(p.buf) - MaxLookahead ELSE 0
SafeText(p) == SubSeq(p.buf, 1, Safe(p))
KeepRest(p) == [p EXCEPT !.buf = SubSeq(@, Safe(p) + 1, Len(@))]

Past(p, m, state) == [p EXCEPT !.buf = After(@, m), !.state = state]

InText(p) ==
    IF First(p.buf, "<think>", "<tool_call>")
    THEN [Past(p, "<think>", "THINKING") EXCEPT !.client = Says(@, Before(p.buf, "<think>"))]
    ELSE IF Occurs(p.buf, "<tool_call>")
    THEN [Past(p, "<tool_call>", "TOOL_NAME") EXCEPT
            !.client = Says(@, Before(p.buf, "<tool_call>")), !.name = <<>>, !.first_arg = TRUE]
    ELSE [KeepRest(p) EXCEPT !.client = Says(@, SafeText(p))]

InThinking(p) ==
    IF Occurs(p.buf, "</think>")
    THEN [Past(p, "</think>", "TEXT") EXCEPT !.client = Reasons(@, Before(p.buf, "</think>"))]
    ELSE [KeepRest(p) EXCEPT !.client = Reasons(@, SafeText(p))]

\* The call is over: its object is closed and the next one gets a number.
CallEnds(p) == [Past(p, "</tool_call>", "TEXT") EXCEPT
                  !.client = Argues(@, p.tc_index, <<"}">>), !.tc_index = @ + 1]
KeyBegins(p) == [Past(p, "<arg_key>", "TOOL_KEY") EXCEPT !.arg_key = <<>>]

InWaitKey(p) ==
    IF First(p.buf, "</tool_call>", "<arg_key>") THEN CallEnds(p)
    ELSE IF Occurs(p.buf, "<arg_key>") THEN KeyBegins(p)
    ELSE p

Named(p, m) == [p EXCEPT !.name = Before(p.buf, m), !.client = Calls(@, Before(p.buf, m))]

InToolName(p) ==
    IF First(p.buf, "</tool_call>", "<arg_key>") THEN CallEnds(Named(p, "</tool_call>"))
    ELSE IF Occurs(p.buf, "<arg_key>") THEN KeyBegins(Named(p, "<arg_key>"))
    ELSE p

InToolKey(p) ==
    IF Occurs(p.buf, "</arg_key>")
    THEN [Past(p, "</arg_key>", "TOOL_WAIT_VAL") EXCEPT !.arg_key = Before(p.buf, "</arg_key>")]
    ELSE p

ValueOpens(p) == (IF p.first_arg THEN <<>> ELSE <<",">>) \o Quoted(p.arg_key) \o <<":">>
                 \o (IF IsString(p) THEN <<"\"">> ELSE <<>>)

InWaitValAlwaysFirst(p) ==
    IF Occurs(p.buf, "<arg_value>")
    THEN [Past(p, "<arg_value>", "TOOL_VAL") EXCEPT !.client = Argues(@, p.tc_index, ValueOpens(p))]
    ELSE p

InWaitVal(p) ==
    IF Occurs(p.buf, "<arg_value>")
    THEN [Past(p, "<arg_value>", "TOOL_VAL") EXCEPT
            !.client = Argues(@, p.tc_index, ValueOpens(p)), !.first_arg = FALSE]
    ELSE p

Encoded(p, s) == IF IsString(p) THEN Escaped(s) ELSE s
ValueCloses(p) == IF IsString(p) THEN <<"\"">> ELSE <<>>

InToolVal(p) ==
    IF Occurs(p.buf, "</arg_value>")
    THEN [Past(p, "</arg_value>", "TOOL_WAIT_KEY") EXCEPT
            !.client = Argues(@, p.tc_index, Encoded(p, Before(p.buf, "</arg_value>")) \o ValueCloses(p))]
    ELSE [KeepRest(p) EXCEPT !.client = Argues(@, p.tc_index, Encoded(p, SafeText(p)))]

Turn(p) ==
    CASE p.state = "TEXT"          -> InText(p)
      [] p.state = "THINKING"      -> InThinking(p)
      [] p.state = "TOOL_NAME"     -> InToolName(p)
      [] p.state = "TOOL_WAIT_KEY" -> InWaitKey(p)
      [] p.state = "TOOL_KEY"      -> InToolKey(p)
      [] p.state = "TOOL_WAIT_VAL" -> InWaitVal(p)
      [] p.state = "TOOL_VAL"      -> InToolVal(p)

\* The loop of add_chunk goes on as long as it finds a marker, that is as
\* long as the state changes; there are fewer markers than symbols.
Loop(p) ==
  LET after[n \in 0 .. Len(p.buf) + 1] == IF n = 0 THEN p ELSE Turn(after[n - 1])
      over(n) == after[n].state = after[n - 1].state
  IN  after[CHOOSE n \in 1 .. Len(p.buf) + 1 : over(n) /\ \A m \in 1 .. n - 1 : ~over(m)]

AddChunk(p, text) == Loop([p EXCEPT !.buf = @ \o text])

FlushedUnclosed(p) ==
    CASE p.state = "TEXT"     -> Says(p.client, p.buf)
      [] p.state = "THINKING" -> Reasons(p.client, p.buf)
      [] p.state = "TOOL_VAL" -> Argues(p.client, p.tc_index, Encoded(p, p.buf) \o <<"}">>)
      [] OTHER                -> Argues(p.client, p.tc_index, <<"}">>)

\* finalize: the rest of the buffer goes out, and an object left open is closed.
Flushed(p) ==
    CASE p.state = "TEXT"     -> Says(p.client, p.buf)
      [] p.state = "THINKING" -> Reasons(p.client, p.buf)
      [] p.state = "TOOL_VAL" -> Argues(p.client, p.tc_index, Encoded(p, p.buf) \o ValueCloses(p) \o <<"}">>)
      [] OTHER                -> Argues(p.client, p.tc_index, <<"}">>)

Finalize(p) == [p EXCEPT !.client = Flushed(p), !.buf = <<>>]

---------------------------------------------------------------------------
(* parse_tool_calls                                                       *)

\* _BOX_RE: the inner text of the boxes, each closed by the next end marker.
HasBox(text) == Occurs(text, "<tool_call>") /\ Occurs(After(text, "<tool_call>"), "</tool_call>")
InBox(text) == Before(After(text, "<tool_call>"), "</tool_call>")
AfterBox(text) == After(After(text, "<tool_call>"), "</tool_call>")

Boxes(text) ==
    LET boxes[t \in Suffixes(text)] == IF HasBox(t) THEN <<InBox(t)>> \o boxes[AfterBox(t)] ELSE <<>>
    IN  boxes[text]
Unboxed(text) ==
    LET rest[t \in Suffixes(text)] == IF HasBox(t) THEN Before(t, "<tool_call>") \o rest[AfterBox(t)] ELSE t
    IN  rest[text]

\* _ARG_RE.findall: a key without markers, and at once its value.
Arguments(inner) ==
    LET args[t \in Suffixes(inner)] ==
          IF ~Occurs(t, "<arg_key>") THEN <<>>
          ELSE LET rest == After(t, "<arg_key>")
                   key == Before(rest, "</arg_key>")
                   tail == After(rest, "</arg_key>")
               IN  IF ~Occurs(rest, "</arg_key>") THEN <<>>
                   ELSE IF /\ ToSet(key) \cap MarkerSymbols = {}
                           /\ IsPrefix(Marker("<arg_value>"), tail)
                           /\ Occurs(tail, "</arg_value>")
                   THEN <<<<key, Before(After(tail, "<arg_value>"), "</arg_value>")>>>>
                        \o args[After(tail, "</arg_value>")]
                   ELSE args[rest]
    IN  args[inner]

\* _coerce_arg and json.dumps: a declared string is kept; of the others, and
\* of a parameter the schema does not name, what is JSON stays JSON.
Coerced(declared, value) == IF declared # "string" /\ value \in Json THEN value ELSE Quoted(value)
Member(name, arg) == Quoted(arg[1]) \o <<":">> \o Coerced(Declared(name, arg[1], "none"), arg[2])
Members(name, args) ==
    FlattenSeq([i \in DOMAIN args |-> (IF i > 1 THEN <<",">> ELSE <<>>) \o Member(name, args[i])])

\* _NAME_RE: the words it begins with, or all of it.
Words(s) == SubSeq(s, 1, Max({n \in 0 .. Len(s) : \A i \in 1 .. n : s[i] \notin MarkerSymbols}))
NameOf(inner) == IF Words(inner) = <<>> THEN inner ELSE Words(inner)

CallOf(inner) == [name |-> NameOf(inner),
                  arguments |-> <<"{">> \o Members(NameOf(inner), Arguments(inner)) \o <<"}">>]

\* Thinking is what ends with the first closing marker; other think markers
\* are dropped.
Without(text, m) ==
    LET rest[t \in Suffixes(text)] == IF Occurs(t, m) THEN Before(t, m) \o rest[After(t, m)] ELSE t
    IN  rest[text]
Thought(text) == IF Occurs(text, "</think>") THEN After(text, "</think>") ELSE text
ContentOf(text) == Without(Without(Thought(text), "<think>"), "</think>")

ParseToolCalls(text) == [content |-> ContentOf(Unboxed(text)),
                         calls |-> [i \in DOMAIN Boxes(text) |-> CallOf(Boxes(text)[i])]]

---------------------------------------------------------------------------
(* The stream                                                             *)

ParserInit == reply \in Replies /\ read = 0 /\ parser = Start

\* The engine prints the next piece, up to symbol n of the reply.
Chunk ==
    /\ read < Len(reply)
    /\ \E n \in read + 1 .. Min({Len(reply), read + MaxPiece}) :
         /\ parser' = AddChunk(parser, SubSeq(reply, read + 1, n))
         /\ read' = n
    /\ UNCHANGED reply

ParserNext == Chunk

ParserSpec == ParserInit /\ [][ParserNext]_parserVars

---------------------------------------------------------------------------
(* Properties                                                             *)

\* Where the engine cuts the reply makes no difference, inside a marker or
\* not: the parser is where it would be, had it got the text in one piece, and
\* so is what it has put out (lines 881-1110).
ChunkIndependent == read > 0 => parser = AddChunk(Start, SubSeq(reply, 1, read))

\* However the reply ends, every call the client was told of has arguments
\* that are one object, closed, in which every string the parser opened is
\* closed; except that a reply that ends inside the name of a call makes a call
\* without a name and with the arguments "}" (lines 1137-1140).
Quotes(s) == Cardinality({i \in DOMAIN s : s[i] = "\""})
Closed(call) == /\ call.arguments[1] = "{" /\ Last(call.arguments) = "}"
                /\ Quotes(call.arguments) % 2 = 0
CallsAreClosed ==
    read > 0 /\ parser.state # "TOOL_NAME" =>
        \A i \in DOMAIN Finalize(parser).client.calls : Closed(Finalize(parser).client.calls[i])

\* A reply in the form the prompt asks for (reasoning up to a closing marker or
\* none, boxes closed, each key once, values of the declared type) gives a client
\* that streams what it gives one that does not: the same calls, in order and with
\* the same arguments, and, when there was no reasoning, the same content
\* (lines 820-862 against 881-1149).  With reasoning they differ: render_chat has
\* put <think> at the end of the prompt (line 1225), so StreamParser, which starts
\* in TEXT, streams the reasoning and </think> as content, and then what the other
\* client gets.
Reasoning(text) ==
    IF Occurs(text, "</think>") THEN Before(text, "</think>") \o Marker("</think>") ELSE <<>>
StreamedAsWhole ==
    read > 0 /\ read = Len(reply) /\ reply \in InForm =>
        LET streamed == Finalize(parser).client
            whole == ParseToolCalls(reply)
        IN  /\ streamed.calls = whole.calls
            /\ streamed.content = Reasoning(reply) \o whole.content
            /\ streamed.reasoning = <<>>

=============================================================================

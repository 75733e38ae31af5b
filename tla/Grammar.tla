------------------------------ MODULE Grammar ------------------------------
(***************************************************************************)
(* c/grammar.h: a grammar in a subset of GBNF is compiled into rules whose *)
(* alternates are sequences of byte classes and references, and a walker   *)
(* follows a text through them with a set of stacks, one for every parse   *)
(* the text may still be the beginning of.                                 *)
(*                                                                         *)
(* A parsed grammar is a function from rule names to alternates; an        *)
(* alternate is a sequence of items [kind, of, post]: a literal, a class,  *)
(* a rule or a group, with its postfix.                                    *)
(***************************************************************************)
EXTENDS Naturals, Sequences, FiniteSets, SequencesExt

CONSTANTS MaxStacks,  \* GR_MAX_STACKS
          MaxDepth    \* GR_MAX_DEPTH

---------------------------------------------------------------------------
(* gr_parse, from the items on                                            *)

Byte(class) == [ref |-> 0, class |-> class]
Ref(rule) == [ref |-> rule, class |-> {}]

RepeatsWithoutEmpty(post, item, rule) ==
    IF post = "?" THEN <<<<item>>, <<>>>> ELSE <<<<item, rule>>, <<item>>>>
\* What an item becomes when it has a postfix: a rule of its own and a rule
\* that repeats it.
Repeats(post, item, rule) ==
    CASE post = "?" -> <<<<item>>, <<>>>>
      [] post = "*" -> <<<<item, rule>>, <<>>>>
      [] post = "+" -> <<<<item, rule>>, <<item>>>>

Postfixed(built, post) ==
    IF post = "" \/ built.symbols = <<>> THEN built
    ELSE LET item == Len(built.rules) + 1
         IN  [rules |-> built.rules \o <<<<built.symbols>>, Repeats(post, Ref(item), Ref(item + 1))>>,
              symbols |-> <<Ref(item + 1)>>]

RECURSIVE Alternates(_, _, _)

\* One item, added to the rules that are there; index: the number of a name.
Item(rules, item, index) ==
    LET here == Len(rules) + 1
        group == Alternates(Append(rules, <<>>), item.of, index)
    IN  CASE item.kind = "literal" -> [rules |-> rules, symbols |-> [i \in DOMAIN item.of |-> Byte({item.of[i]})]]
          [] item.kind = "class"   -> [rules |-> rules, symbols |-> <<Byte(item.of)>>]
          [] item.kind = "rule"    -> [rules |-> rules, symbols |-> <<Ref(index[item.of])>>]
          [] item.kind = "group"   -> [rules |-> [group.rules EXCEPT ![here] = group.alternates],
                                       symbols |-> <<Ref(here)>>]

Alternates(rules, alternates, index) ==
    FoldLeft(LAMBDA built, items :
               LET row == FoldLeft(LAMBDA b, item :
                                     LET new == Postfixed(Item(b.rules, item, index), item.post)
                                     IN  [rules |-> new.rules, symbols |-> b.symbols \o new.symbols],
                                   [rules |-> built.rules, symbols |-> <<>>], items)
               IN  [rules |-> row.rules, alternates |-> Append(built.alternates, row.symbols)],
             [rules |-> rules, alternates |-> <<>>], alternates)

\* The named rules come first, in the order of `names'.
Compiled(grammar, names) ==
    LET index == [name \in ToSet(names) |-> CHOOSE i \in DOMAIN names : names[i] = name]
        step(rules, name) == LET built == Alternates(rules, grammar[name], index)
                             IN  [built.rules EXCEPT ![index[name]] = built.alternates]
    IN  [rules |-> FoldLeft(step, [i \in DOMAIN names |-> <<>>], names), root |-> index["root"]]

---------------------------------------------------------------------------
(* The walker: a frame is a place in an alternate, a stack is in normal    *)
(* form when its top is a byte class or it is empty (the parse can end).   *)

Frame(r, a) == [r |-> r, a |-> a, s |-> 1]
TooDeep == <<[r |-> 0, a |-> 0, s |-> 0]>>
Alternate(G, frame) == G.rules[frame.r][frame.a]
Top(G, stack) == Alternate(G, Last(stack))[Last(stack).s]

\* gr__normalize: the normal forms of a stack, or TooDeep among them.
RECURSIVE Normal(_, _, _)
Normal(G, stack, depth) ==
    IF stack = <<>> THEN {stack}
    ELSE IF Last(stack).s > Len(Alternate(G, Last(stack))) THEN Normal(G, Front(stack), depth)
    ELSE IF Top(G, stack).ref = 0 THEN {stack}
    ELSE IF depth >= MaxDepth \/ Len(stack) >= MaxDepth THEN {TooDeep}
    ELSE LET rule == Top(G, stack).ref
             resumed == [stack EXCEPT ![Len(stack)].s = @ + 1]
         IN  UNION {Normal(G, Append(resumed, Frame(rule, a)), depth + 1) : a \in DOMAIN G.rules[rule]}

Off == [stacks |-> {}, alive |-> FALSE]
Limited(stacks) ==
    IF TooDeep \in stacks \/ Cardinality(stacks) > MaxStacks THEN Off
    ELSE [stacks |-> stacks, alive |-> TRUE]

\* gr_state_init
WalkerStart(G) == Limited(UNION {Normal(G, <<Frame(G.root, a)>>, 0) : a \in DOMAIN G.rules[G.root]})

\* gr_accept: the stacks that read the byte; none of them and it is refused.
Reads(G, w, b) == {stack \in w.stacks : stack # <<>> /\ b \in Top(G, stack).class}
Advanced(stack) == [stack EXCEPT ![Len(stack)].s = @ + 1]
Refuses(G, w, b) == Reads(G, w, b) = {}
After(G, w, b) == Limited(UNION {Normal(G, Advanced(stack), 0) : stack \in Reads(G, w, b)})

\* gr_admissible
Admissible(G, w) == UNION {Top(G, stack).class : stack \in w.stacks \ {<<>>}}
CanEnd(w) == <<>> \in w.stacks

\* gr_forced: on as long as there is one byte to read and no end.
RECURSIVE Forced(_, _)
Forced(G, w) ==
    IF ~w.alive \/ CanEnd(w) \/ Cardinality(Admissible(G, w)) # 1 THEN <<>>
    ELSE LET b == CHOOSE byte \in Admissible(G, w) : TRUE
         IN  <<b>> \o Forced(G, After(G, w, b))

---------------------------------------------------------------------------
(* What a grammar means: its words of at most n bytes, a rule used within  *)
(* itself at most `fuel' times.                                            *)

Concat(A, B, n) == {w \in {a \o b : a \in A, b \in B} : Len(w) <= n}

RECURSIVE Star(_, _)
Star(A, n) ==
    IF n = 0 THEN {<<>>}
    ELSE {<<>>} \cup UNION {Concat({a}, Star(A, n - Len(a)), n) : a \in {w \in A : Len(w) \in 1 .. n}}

RECURSIVE Words(_, _, _, _)
WordsOf(grammar, item, n, fuel) ==
    CASE item.kind = "literal" -> IF Len(item.of) <= n THEN {item.of} ELSE {}
      [] item.kind = "class"   -> IF n > 0 THEN {<<b>> : b \in item.of} ELSE {}
      [] item.kind = "rule"    -> IF fuel = 0 THEN {} ELSE Words(grammar, grammar[item.of], n, fuel - 1)
      [] item.kind = "group"   -> Words(grammar, item.of, n, fuel)
Repeated(A, post, n) ==
    CASE post = ""  -> A
      [] post = "?" -> A \cup {<<>>}
      [] post = "*" -> Star(A, n)
      [] post = "+" -> Concat(A, Star(A, n), n)
Words(grammar, alternates, n, fuel) ==
    UNION {FoldLeft(LAMBDA ws, item : Concat(ws, Repeated(WordsOf(grammar, item, n, fuel), item.post, n), n),
                    {<<>>}, alternates[a]) : a \in DOMAIN alternates}

Language(grammar, n) == Words(grammar, grammar["root"], n, n + 2)

\* A text is the beginning of a word, and the bytes a word goes on with.
Begins(language, text) == \E word \in language : IsPrefix(text, word)
Continuations(language, text) == {word[Len(text) + 1] : word \in {x \in language : IsStrictPrefix(text, x)}}
=============================================================================

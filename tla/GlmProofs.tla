----------------------------- MODULE GlmProofs -----------------------------
(***************************************************************************)
(* Proofs about GlmDecode, for every set of slots, target, grammar, walker,  *)
(* context, margin, draft length and request: what is drafted, rejected,     *)
(* mirrored to the device or kept from one turn to the next never shows.     *)
(***************************************************************************)
EXTENDS GlmDecode, SequenceTheorems, WellFoundedInduction, TLAPS

----------------------------------------------------------------------------
(* Numbers.                                                                *)

Less == {p \in Nat \X Nat : p[1] < p[2]}

\* A set of naturals has a least one.
LEMMA LeastElement ==
    ASSUME NEW T, T \subseteq Nat, T # {}
    PROVE  \E x \in T : \A y \in T : x <= y
  <1>1. IsWellFoundedOn(Less, Nat)
    BY NatLessThanWellFounded DEF Less, OpToRel
  <1>2. PICK x \in T : \A y \in T : ~ (<<y, x>> \in Less)
    BY <1>1, WFMin
  <1>3. ASSUME NEW y \in Nat, NEW z \in Nat, y < z PROVE <<y, z>> \in Less
    <2>1. <<y, z>> \in Nat \X Nat /\ <<y, z>>[1] < <<y, z>>[2]
      BY <1>3
    <2> QED BY <2>1 DEF Less
  <1>4. ASSUME NEW y \in T PROVE x <= y
    <2>1. ~ (<<y, x>> \in Less)
      BY <1>2
    <2>2. ~ (y < x)
      BY <1>3, <2>1
    <2>3. x \in Nat /\ y \in Nat
      OBVIOUS
    <2> QED BY <2>2, <2>3
  <1> QED BY <1>4

\* A bounded set of naturals has a greatest one.
LEMMA GreatestElement ==
    ASSUME NEW n \in Nat, NEW T, T \subseteq 0 .. n, T # {}
    PROVE  \E x \in T : \A y \in T : y <= x
  <1> DEFINE U == {k \in 0 .. n : n - k \in T}
  <1>1. U \subseteq Nat
    OBVIOUS
  <1>2. \A y \in T : n - y \in 0 .. n /\ n - (n - y) = y
    OBVIOUS
  <1>3. \A y \in T : n - y \in U
    BY <1>2
  <1>4. PICK k \in U : \A j \in U : k <= j
    BY <1>1, <1>3, LeastElement
  <1>5. \A y \in T : y <= n - k
    BY <1>2, <1>3, <1>4
  <1> QED BY <1>4, <1>5

----------------------------------------------------------------------------
(* Prefixes.                                                               *)

LEMMA PrefixIs ==
    ASSUME NEW S, NEW s \in Seq(S), NEW k \in 0 .. Len(s)
    PROVE  /\ Prefix(s, k) \in Seq(S) /\ Len(Prefix(s, k)) = k
           /\ \A i \in 1 .. k : Prefix(s, k)[i] = s[i]
  <1>1. \A i \in 1 .. k : s[i] \in S
    OBVIOUS
  <1> QED BY <1>1, SubSeqProperties, Z3 DEF Prefix

\* Two sequences with the same elements.
LEMMA Same ==
    ASSUME NEW S, NEW s \in Seq(S), NEW t \in Seq(S), Len(s) = Len(t),
           \A i \in 1 .. Len(s) : s[i] = t[i]
    PROVE  s = t
  BY SeqEqual

LEMMA PrefixWhole ==
    ASSUME NEW S, NEW s \in Seq(S)
    PROVE  Prefix(s, Len(s)) = s
  <1>1. Len(s) \in 0 .. Len(s)
    OBVIOUS
  <1> QED BY <1>1, PrefixIs, Same

LEMMA PrefixNext ==
    ASSUME NEW S, NEW s \in Seq(S), NEW k \in 0 .. Len(s) - 1
    PROVE  Append(Prefix(s, k), s[k + 1]) = Prefix(s, k + 1)
  <1> DEFINE p == Prefix(s, k)
             q == Prefix(s, k + 1)
  <1>1. k \in 0 .. Len(s) /\ k + 1 \in 0 .. Len(s) /\ s[k + 1] \in S
    OBVIOUS
  <1>2. p \in Seq(S) /\ Len(p) = k /\ \A i \in 1 .. k : p[i] = s[i]
    BY <1>1, PrefixIs
  <1>3. q \in Seq(S) /\ Len(q) = k + 1 /\ \A i \in 1 .. k + 1 : q[i] = s[i]
    BY <1>1, PrefixIs
  <1> HIDE DEF p, q
  <1>4. /\ Append(p, s[k + 1]) \in Seq(S) /\ Len(Append(p, s[k + 1])) = k + 1
        /\ \A i \in 1 .. k + 1 : Append(p, s[k + 1])[i] = IF i <= k THEN p[i] ELSE s[k + 1]
    BY <1>1, <1>2
  <1>5. \A i \in 1 .. k + 1 : Append(p, s[k + 1])[i] = q[i]
    BY <1>2, <1>3, <1>4
  <1>6. Append(p, s[k + 1]) = q
    BY <1>3, <1>4, <1>5, Same
  <1> QED BY <1>6 DEF p, q

LEMMA PrefixOfPrefix ==
    ASSUME NEW S, NEW s \in Seq(S), NEW k \in 0 .. Len(s), NEW j \in 0 .. k
    PROVE  Prefix(Prefix(s, k), j) = Prefix(s, j)
  <1> DEFINE p == Prefix(s, k)
  <1>1. p \in Seq(S) /\ Len(p) = k /\ \A i \in 1 .. k : p[i] = s[i]
    BY PrefixIs
  <1> HIDE DEF p
  <1>2. j \in 0 .. Len(s) /\ j \in 0 .. Len(p)
    BY <1>1
  <1>3. Prefix(s, j) \in Seq(S) /\ Len(Prefix(s, j)) = j /\ \A i \in 1 .. j : Prefix(s, j)[i] = s[i]
    BY <1>2, PrefixIs
  <1>4. Prefix(p, j) \in Seq(S) /\ Len(Prefix(p, j)) = j /\ \A i \in 1 .. j : Prefix(p, j)[i] = p[i]
    BY <1>1, <1>2, PrefixIs
  <1>5. \A i \in 1 .. j : Prefix(p, j)[i] = Prefix(s, j)[i]
    BY <1>1, <1>3, <1>4
  <1>6. Prefix(p, j) = Prefix(s, j)
    BY <1>3, <1>4, <1>5, Same
  <1> QED BY <1>6 DEF p

\* The prefixes of two sequences joined.
LEMMA PrefixOfJoin ==
    ASSUME NEW S, NEW s \in Seq(S), NEW t \in Seq(S)
    PROVE  /\ s \o t \in Seq(S) /\ Len(s \o t) = Len(s) + Len(t)
           /\ \A i \in 1 .. Len(s) : (s \o t)[i] = s[i]
           /\ \A i \in 1 .. Len(t) : (s \o t)[Len(s) + i] = t[i]
           /\ \A k \in 0 .. Len(s) : Prefix(s \o t, k) = Prefix(s, k)
           /\ \A k \in 0 .. Len(t) : Prefix(s \o t, Len(s) + k) = s \o Prefix(t, k)
  <1> DEFINE u == s \o t
             m == Len(s)
             n == Len(t)
  <1>1. m \in Nat /\ n \in Nat /\ u \in Seq(S) /\ Len(u) = m + n
    OBVIOUS
  <1>2. \A i \in 1 .. m : u[i] = s[i]
    OBVIOUS
  <1>3. \A i \in 1 .. n : u[m + i] = t[i]
    OBVIOUS
  <1>4. ASSUME NEW k \in 0 .. m PROVE Prefix(u, k) = Prefix(s, k)
    <2>1. k \in 0 .. Len(u)
      BY <1>1
    <2>2. Prefix(u, k) \in Seq(S) /\ Len(Prefix(u, k)) = k /\ \A i \in 1 .. k : Prefix(u, k)[i] = u[i]
      BY <1>1, <2>1, PrefixIs
    <2>3. Prefix(s, k) \in Seq(S) /\ Len(Prefix(s, k)) = k /\ \A i \in 1 .. k : Prefix(s, k)[i] = s[i]
      BY PrefixIs
    <2>4. \A i \in 1 .. k : Prefix(u, k)[i] = Prefix(s, k)[i]
      BY <1>1, <1>2, <2>2, <2>3
    <2> QED BY <2>2, <2>3, <2>4, Same
  <1>5. ASSUME NEW k \in 0 .. n PROVE Prefix(u, m + k) = s \o Prefix(t, k)
    <2> DEFINE p == Prefix(t, k)
               v == s \o p
               q == Prefix(u, m + k)
    <2>1. m + k \in 0 .. Len(u)
      BY <1>1
    <2>2. q \in Seq(S) /\ Len(q) = m + k /\ \A i \in 1 .. m + k : q[i] = u[i]
      BY <1>1, <2>1, PrefixIs
    <2>3. p \in Seq(S) /\ Len(p) = k /\ \A i \in 1 .. k : p[i] = t[i]
      BY PrefixIs
    <2> HIDE DEF p, q
    <2>4. v \in Seq(S) /\ Len(v) = m + k /\ \A i \in 1 .. m + k : v[i] = IF i <= m THEN s[i] ELSE p[i - m]
      BY <2>3
    <2> HIDE DEF u, m, n, v
    <2>5. ASSUME NEW i \in 1 .. m + k PROVE q[i] = v[i]
      <3>1. CASE i <= m
        <4>1. i \in 1 .. m
          BY <1>1, <3>1
        <4> QED BY <1>2, <2>2, <2>4, <3>1, <4>1
      <3>2. CASE i > m
        <4>1. i - m \in 1 .. n /\ i - m \in 1 .. k /\ m + (i - m) = i
          BY <1>1, <3>2
        <4>2. u[i] = t[i - m]
          BY <1>3, <4>1
        <4> QED BY <1>1, <2>2, <2>3, <2>4, <3>2, <4>1, <4>2
      <3> QED BY <1>1, <3>1, <3>2
    <2>6. q = v
      BY <2>2, <2>4, <2>5, Same
    <2> QED BY <2>6 DEF q, v, p
  <1> QED BY <1>1, <1>2, <1>3, <1>4, <1>5
----------------------------------------------------------------------------
(* A forward pass.                                                         *)

History == Seq(Tokens)
Rows == [Positions -> History]

LEMMA Sizes ==
  /\ Ctx \in Nat /\ NGen \in Nat /\ Draft \in Nat /\ Forces \in Nat \ {0} /\ Margin \in Nat
  /\ Ctx - Margin - Draft > 0 /\ 0 \in Slots /\ Prompts \subseteq History
  BY GlmAssumption DEF History

\* Two histories joined, and what their prefixes are.
JoinIs(s, t) ==
  /\ s \o t \in History /\ Len(s \o t) = Len(s) + Len(t)
  /\ \A i \in 1 .. Len(s) : (s \o t)[i] = s[i]
  /\ \A i \in 1 .. Len(t) : (s \o t)[Len(s) + i] = t[i]
  /\ \A k \in 0 .. Len(s) : Prefix(s \o t, k) = Prefix(s, k)
  /\ \A k \in 0 .. Len(t) : Prefix(s \o t, Len(s) + k) = s \o Prefix(t, k)

LEMMA Joined == ASSUME NEW s \in History, NEW t \in History PROVE JoinIs(s, t)
  BY PrefixOfJoin DEF JoinIs, History

LEMMA Associative ==
    ASSUME NEW a \in History, NEW b \in History, NEW c \in History
    PROVE  (a \o b) \o c = a \o (b \o c)
  BY ConcatAssociative DEF History

\* The rows and the copy after p tokens of a history: those before are the
\* history's, those beyond are the old ones, and the copy has the host's.
Follows(at, history, p, old) ==
  /\ at.rows \in Rows
  /\ \A i \in 1 .. p : at.rows[i] = Prefix(history, i)
  /\ \A i \in Positions : i > p => at.rows[i] = old[i]
  /\ at.shadow \in Seq(History) /\ Len(at.shadow) <= p
  /\ \A i \in 1 .. Len(at.shadow) : at.shadow[i] = at.rows[i]

\* Uploaded rows are the host's.
LEMMA SyncedIs ==
    ASSUME NEW sh \in Seq(History), NEW rows \in Rows, NEW upto \in 0 .. Ctx,
           Len(sh) <= upto, \A i \in 1 .. Len(sh) : sh[i] = rows[i]
    PROVE  /\ Synced(sh, rows, upto) \in Seq(History) /\ Len(Synced(sh, rows, upto)) = upto
           /\ \A i \in 1 .. upto : Synced(sh, rows, upto)[i] = rows[i]
  <1> DEFINE n == Len(sh)
             more == SubSeq(rows, n + 1, upto)
             all == Synced(sh, rows, upto)
  <1>1. rows \in Seq(History) /\ Len(rows) = Ctx + Forces /\ \A i \in 1 .. Ctx + Forces : rows[i] \in History
    BY Sizes DEF Rows, Positions
  <1>2. n \in Nat /\ n <= upto
    OBVIOUS
  <1>3. more \in Seq(History) /\ Len(more) = upto - n /\ \A i \in 1 .. upto - n : more[i] = rows[n + i]
    <2>1. \A i \in n + 1 .. upto : rows[i] \in History
      BY <1>1, <1>2, Sizes
    <2>2. n + 1 \in Nat /\ upto \in Nat /\ n + 1 <= upto + 1
      BY <1>2, Sizes
    <2> HIDE DEF n
    <2>3. /\ more \in Seq(History)
          /\ Len(more) = IF n + 1 <= upto THEN upto - (n + 1) + 1 ELSE 0
          /\ \A i \in 1 .. upto - (n + 1) + 1 : more[i] = rows[n + 1 + i - 1]
      BY <1>1, <2>1, <2>2, SubSeqProperties, Z3
    <2> HIDE DEF more
    <2> QED BY <1>2, <2>2, <2>3, Sizes
  <1>4. all = sh \o more
    BY DEF Synced
  <1> HIDE DEF more, all
  <1>5. all \in Seq(History) /\ Len(all) = upto
    BY <1>2, <1>3, <1>4, Sizes
  <1>6. ASSUME NEW i \in 1 .. upto PROVE all[i] = rows[i]
    <2>1. CASE i <= n
      <3>1. i \in 1 .. Len(sh) /\ all[i] = sh[i]
        BY <1>2, <1>4, <1>3, <2>1
      <3> QED BY <3>1
    <2>2. CASE i > n
      <3>1. i - n \in 1 .. upto - n /\ n + (i - n) = i
        BY <1>2, <2>2, Sizes
      <3>2. all[i] = more[i - n]
        BY <1>2, <1>3, <1>4, <2>2, Sizes
      <3> QED BY <1>3, <3>1, <3>2
    <2> QED BY <1>2, <2>1, <2>2
  <1> QED BY <1>5, <1>6 DEF all

\* A row computed from the history's rows is the history's.
LEMMA RowAfterIs ==
    ASSUME NEW history \in History, NEW i \in 1 .. Len(history), NEW view,
           \A j \in 1 .. i - 1 : view[j] = Prefix(history, j)
    PROVE  RowAfter(view, i, history[i]) = Prefix(history, i)
  <1> DEFINE before == IF i = 1 THEN <<>> ELSE view[i - 1]
  <1>1. i - 1 \in 0 .. Len(history) - 1 /\ i - 1 \in 0 .. Len(history) /\ (i - 1) + 1 = i
    OBVIOUS
  <1>2. before = Prefix(history, i - 1)
    <2>1. CASE i = 1
      <3>1. Prefix(history, 0) \in Seq(Tokens) /\ Len(Prefix(history, 0)) = 0
        BY PrefixIs DEF History
      <3>2. Prefix(history, 0) = <<>>
        BY <3>1
      <3> QED BY <2>1, <3>2
    <2>2. CASE i # 1
      <3>1. i - 1 \in 1 .. i - 1
        BY <2>2
      <3> QED BY <2>2, <3>1
    <2> QED BY <2>1, <2>2
  <1> HIDE DEF before
  <1>3. ASSUME NEW j \in 1 .. i - 1 PROVE view[j] = Prefix(before, j) /\ Len(view[j]) = j
    <2>1. j \in 0 .. i - 1 /\ j \in 0 .. Len(history)
      OBVIOUS
    <2>2. Prefix(before, j) = Prefix(history, j)
      BY <1>1, <1>2, <2>1, PrefixOfPrefix DEF History
    <2>3. Len(Prefix(history, j)) = j
      BY <2>1, PrefixIs DEF History
    <2> QED BY <2>2, <2>3
  <1>4. RowAfter(view, i, history[i]) = Append(before, history[i])
    BY <1>3 DEF RowAfter, before
  <1>5. Append(Prefix(history, i - 1), history[(i - 1) + 1]) = Prefix(history, (i - 1) + 1)
    BY <1>1, PrefixNext DEF History
  <1> QED BY <1>1, <1>2, <1>4, <1>5

\* One token more.
LEMMA ForwardOneFollows ==
    ASSUME NEW history \in History, NEW old, NEW at, NEW tokens,
           NEW pos \in Nat, NEW s \in Nat \ {0}, NEW m \in Nat,
           pos + s <= Ctx, pos + s <= Len(history), tokens[s] = history[pos + s],
           Follows(at, history, pos + s - 1, old)
    PROVE  Follows(ForwardOne(at, s, tokens, pos, m), history, pos + s, old)
  <1> DEFINE i == pos + s
             copy == Synced(at.shadow, at.rows, i - 1)
             view == IF s <= m THEN copy ELSE at.rows
             row == RowAfter(view, i, tokens[s])
             new == [at.rows EXCEPT ![i] = row]
             synced == Synced(copy, new, i)
             f == ForwardOne(at, s, tokens, pos, m)
  <1>1. i \in 1 .. Ctx /\ i \in 1 .. Len(history) /\ i - 1 \in 0 .. Ctx /\ i \in 0 .. Ctx /\ i \in Positions
    BY Sizes DEF Positions
  <1>2. /\ copy \in Seq(History) /\ Len(copy) = i - 1 /\ \A j \in 1 .. i - 1 : copy[j] = at.rows[j]
        /\ at.rows \in Rows /\ \A j \in 1 .. i - 1 : at.rows[j] = Prefix(history, j)
        /\ \A j \in Positions : j > i - 1 => at.rows[j] = old[j]
        /\ at.shadow \in Seq(History) /\ Len(at.shadow) <= i - 1
        /\ \A j \in 1 .. Len(at.shadow) : at.shadow[j] = at.rows[j]
    BY <1>1, SyncedIs DEF Follows
  <1>3. row = Prefix(history, i)
    <2>1. \A j \in 1 .. i - 1 : view[j] = Prefix(history, j)
      BY <1>2
    <2> HIDE DEF view
    <2> QED BY <1>1, <2>1, RowAfterIs
  <1>4. Prefix(history, i) \in History
    BY <1>1, PrefixIs DEF History
  <1> HIDE DEF row
  <1>5. /\ new \in Rows /\ new[i] = row
        /\ \A j \in Positions : j # i => new[j] = at.rows[j]
    BY <1>1, <1>2, <1>3, <1>4 DEF Rows
  <1>6. f = [rows |-> new, shadow |-> IF s <= m THEN synced ELSE at.shadow]
    BY DEF ForwardOne, row
  <1> HIDE DEF f, copy, new
  <1>7. /\ synced \in Seq(History) /\ Len(synced) = i
        /\ \A j \in 1 .. i : synced[j] = new[j]
    <2>0. i \in Nat /\ i <= Ctx
      BY <1>1, Sizes
    <2> HIDE DEF i
    <2>1. ASSUME NEW j \in 1 .. Len(copy) PROVE copy[j] = new[j]
      <3>1. j \in 1 .. i - 1
        BY <1>2
      <3>2. j \in Positions /\ j # i
        BY <2>0, <3>1, Sizes DEF Positions
      <3> QED BY <1>2, <1>5, <3>1, <3>2
    <2> QED BY <1>1, <1>2, <1>5, <2>1, SyncedIs
  <1> HIDE DEF synced
  <1>8. \A j \in 1 .. i : new[j] = Prefix(history, j)
    <2> SUFFICES ASSUME NEW j \in 1 .. i PROVE new[j] = Prefix(history, j)
      OBVIOUS
    <2>1. CASE j = i
      BY <1>3, <1>5, <2>1
    <2>2. CASE j # i
      <3>1. j \in 1 .. i - 1 /\ j \in Positions
        BY <1>1, <2>2, Sizes DEF Positions
      <3> QED BY <1>2, <1>5, <2>2, <3>1
    <2> QED BY <2>1, <2>2
  <1>9. \A j \in Positions : j > i => new[j] = old[j]
    BY <1>1, <1>2, <1>5 DEF Positions
  <1>10. \A j \in 1 .. Len(at.shadow) : at.shadow[j] = new[j]
    BY <1>1, <1>2, <1>5, Sizes DEF Positions
  <1>11. f.rows = new /\ f.shadow = IF s <= m THEN synced ELSE at.shadow
    BY <1>6
  <1>12. CASE s <= m
    <2>1. f.shadow = synced
      BY <1>11, <1>12
    <2>2. Follows(f, history, i, old)
      BY <1>1, <1>5, <1>7, <1>8, <1>9, <1>11, <2>1 DEF Follows
    <2> QED BY <2>2 DEF f
  <1>13. CASE ~ (s <= m)
    <2>1. f.shadow = at.shadow
      BY <1>11, <1>13
    <2>2. Follows(f, history, i, old)
      BY <1>1, <1>2, <1>5, <1>8, <1>9, <1>10, <1>11, <2>1 DEF Follows
    <2> QED BY <2>2 DEF f
  <1> QED BY <1>12, <1>13

\* Forward, as the function its definition chooses.
Passes(rows, sh, tokens, pos, m, n, pass) ==
  pass = [s \in 0 .. n |-> IF s = 0 THEN [rows |-> rows, shadow |-> Shortened(sh, pos)]
                                    ELSE ForwardOne(pass[s - 1], s, tokens, pos, m)]

LEMMA PassExists ==
    ASSUME NEW rows, NEW sh, NEW tokens, NEW pos, NEW m, NEW n \in Nat
    PROVE  \E pass : Passes(rows, sh, tokens, pos, m, n, pass)
  <1> DEFINE P(k, pass) == Passes(rows, sh, tokens, pos, m, k, pass)
             start == [rows |-> rows, shadow |-> Shortened(sh, pos)]
             T == {k \in Nat : ~ \E pass : P(k, pass)}
  <1> SUFFICES ASSUME n \in T PROVE FALSE
    OBVIOUS
  <1>1. PICK k \in T : \A j \in T : k <= j
    <2>1. T \subseteq Nat /\ T # {}
      OBVIOUS
    <2> HIDE DEF T
    <2> QED BY <2>1, LeastElement
  <1>2. CASE k = 0
    <2> DEFINE pass == [s \in 0 .. 0 |-> start]
    <2>1. P(0, pass)
      <3>1. \A s \in 0 .. 0 : s = 0
        OBVIOUS
      <3> QED BY <3>1 DEF Passes
    <2> QED BY <1>1, <1>2, <2>1
  <1>3. CASE k # 0
    <2>1. k - 1 \in Nat /\ ~ (k - 1 \in T)
      BY <1>1, <1>3
    <2>2. PICK pass : P(k - 1, pass)
      BY <2>1
    <2> DEFINE next == [s \in 0 .. k |-> IF s = k THEN ForwardOne(pass[k - 1], k, tokens, pos, m) ELSE pass[s]]
    <2>3. \A s \in 0 .. k - 1 : pass[s] = IF s = 0 THEN start ELSE ForwardOne(pass[s - 1], s, tokens, pos, m)
      BY <2>2 DEF Passes
    <2>4. ASSUME NEW s \in 0 .. k
          PROVE  next[s] = IF s = 0 THEN start ELSE ForwardOne(next[s - 1], s, tokens, pos, m)
      <3>1. k \in Nat
        BY <1>1
      <3>2. CASE s = k
        <4>1. k - 1 \in 0 .. k /\ k - 1 # k /\ next[k - 1] = pass[k - 1]
          BY <1>3, <3>1
        <4> QED BY <1>3, <3>2, <4>1
      <3>3. CASE s # k
        <4>1. s \in 0 .. k - 1 /\ next[s] = pass[s]
          BY <3>1, <3>3
        <4>2. s # 0 => s - 1 \in 0 .. k /\ s - 1 # k /\ next[s - 1] = pass[s - 1]
          BY <3>1, <3>3
        <4> QED BY <2>3, <4>1, <4>2
      <3> QED BY <3>2, <3>3
    <2>5. next = [s \in 0 .. k |-> next[s]]
      OBVIOUS
    <2> HIDE DEF next
    <2>6. P(k, next)
      BY <2>4, <2>5 DEF Passes
    <2> QED BY <1>1, <2>6
  <1> QED BY <1>2, <1>3

LEMMA ForwardIsPass ==
    ASSUME NEW rows, NEW sh, NEW tokens, NEW pos, NEW m, Len(tokens) \in Nat
    PROVE  \E pass : /\ Passes(rows, sh, tokens, pos, m, Len(tokens), pass)
                     /\ Forward(rows, sh, tokens, pos, m) = pass[Len(tokens)]
  <1> DEFINE pass == CHOOSE f : f = [s \in 0 .. Len(tokens) |->
                                       IF s = 0 THEN [rows |-> rows, shadow |-> Shortened(sh, pos)]
                                                ELSE ForwardOne(f[s - 1], s, tokens, pos, m)]
             chosen == CHOOSE f : Passes(rows, sh, tokens, pos, m, Len(tokens), f)
  <1>1. Forward(rows, sh, tokens, pos, m) = pass[Len(tokens)]
    BY Zenon DEF Forward
  <1>2. pass = chosen
    BY DEF Passes
  <1> HIDE DEF pass
  <1>3. Passes(rows, sh, tokens, pos, m, Len(tokens), chosen)
    BY PassExists
  <1> QED BY <1>1, <1>2, <1>3

\* A forward over the tokens that follow a history, from sound rows.
LEMMA ForwardFollows ==
    ASSUME NEW h \in History, NEW tokens \in History, NEW rows \in Rows,
           NEW sh \in Seq(History), NEW m \in Nat, Len(h) + Len(tokens) <= Ctx,
           \A i \in 1 .. Len(h) : rows[i] = Prefix(h, i),
           \A i \in 1 .. Len(sh) : sh[i] = rows[i]
    PROVE  Follows(Forward(rows, sh, tokens, Len(h), m), h \o tokens, Len(h) + Len(tokens), rows)
  <1> DEFINE all == h \o tokens
             pos == Len(h)
             n == Len(tokens)
             start == [rows |-> rows, shadow |-> Shortened(sh, pos)]
  <1>1. /\ pos \in Nat /\ n \in Nat /\ all \in History /\ Len(all) = pos + n
        /\ \A i \in 1 .. n : all[pos + i] = tokens[i]
        /\ \A k \in 0 .. pos : Prefix(all, k) = Prefix(h, k)
    BY PrefixOfJoin DEF History
  <1>2. PICK pass : /\ Passes(rows, sh, tokens, pos, m, n, pass)
                    /\ Forward(rows, sh, tokens, pos, m) = pass[n]
    BY <1>1, ForwardIsPass
  <1>3. Follows(start, all, pos, rows)
    <2>1. /\ start.shadow \in Seq(History) /\ Len(start.shadow) <= pos /\ Len(start.shadow) <= Len(sh)
          /\ \A i \in 1 .. Len(start.shadow) : start.shadow[i] = sh[i]
      <3>1. CASE Len(sh) > pos
        <4>1. pos \in 0 .. Len(sh) /\ start.shadow = Prefix(sh, pos)
          BY <1>1, <3>1 DEF Shortened
        <4> QED BY <3>1, <4>1, PrefixIs
      <3>2. CASE ~ (Len(sh) > pos)
        <4>1. start.shadow = Prefix(sh, Len(sh))
          BY <3>2 DEF Shortened
        <4>2. start.shadow = sh
          BY <4>1, PrefixWhole
        <4> QED BY <1>1, <3>2, <4>2
      <3> QED BY <3>1, <3>2
    <2>2. \A i \in 1 .. pos : rows[i] = Prefix(all, i)
      BY <1>1
    <2>3. \A i \in 1 .. Len(start.shadow) : start.shadow[i] = rows[i]
      BY <2>1
    <2> QED BY <2>1, <2>2, <2>3 DEF Follows
  <1>4. \A s \in 0 .. n : pass[s] = IF s = 0 THEN start ELSE ForwardOne(pass[s - 1], s, tokens, pos, m)
    BY <1>2 DEF Passes
  <1> DEFINE T == {s \in 0 .. n : ~ Follows(pass[s], all, pos + s, rows)}
  <1>5. T = {}
    <2> SUFFICES ASSUME T # {} PROVE FALSE
      OBVIOUS
    <2>1. PICK s \in T : \A r \in T : s <= r
      <3>1. T \subseteq Nat
        BY <1>1
      <3> HIDE DEF T
      <3> QED BY <3>1, LeastElement
    <2>2. CASE s = 0
      <3>1. pass[0] = start /\ pos + 0 = pos
        BY <1>1, <1>4
      <3> QED BY <1>3, <2>1, <2>2, <3>1
    <2>3. CASE s # 0
      <3>0. s \in 0 .. n
        BY <2>1
      <3>1. s \in 1 .. n /\ s - 1 \in 0 .. n /\ ~ (s - 1 \in T) /\ pos + (s - 1) = pos + s - 1
        <4> HIDE DEF T, n, pos
        <4> QED BY <1>1, <2>1, <2>3, <3>0
      <3>2. Follows(pass[s - 1], all, pos + s - 1, rows)
        BY <3>1
      <3>3. tokens[s] = all[pos + s] /\ pos + s <= Ctx /\ pos + s <= Len(all) /\ s \in Nat \ {0}
        BY <1>1, <3>1, Sizes
      <3>4. pass[s] = ForwardOne(pass[s - 1], s, tokens, pos, m)
        BY <1>4, <2>3, <3>1
      <3> HIDE DEF all, pos, n, T
      <3>5. Follows(ForwardOne(pass[s - 1], s, tokens, pos, m), all, pos + s, rows)
        BY <1>1, <3>2, <3>3, ForwardOneFollows
      <3>6. ~ Follows(pass[s], all, pos + s, rows)
        BY <2>1 DEF T
      <3> QED BY <3>4, <3>5, <3>6
    <2> QED BY <2>2, <2>3
  <1>6. n \in 0 .. n
    BY <1>1
  <1>7. Follows(pass[n], all, pos + n, rows)
    BY <1>5, <1>6
  <1> QED BY <1>2, <1>7
----------------------------------------------------------------------------
(* The inductive invariant.                                                *)

TypeCorrect ==
  /\ slot \in [Slots -> [hist : History, rows : Rows]]
  /\ bound \in Slots
  /\ shadow \in Seq(History) /\ Len(shadow) <= Ctx
  /\ turn \in [on : BOOLEAN, base : History, all : History, out : History, cur : Int,
               logit : History, ban : SUBSET Tokens]

\* The margins keep every history within the context.
InContext == \A s \in Slots : Len(HistoryOf(s)) <= Ctx

\* During a decode the history is the prompt and the answer, the logits are
\* those after it, and what may still be emitted fits with a round's drafts.
Decoding ==
  turn.on => /\ turn.base # <<>> /\ turn.all = turn.base \o turn.out /\ turn.logit = turn.all
             /\ Len(turn.out) <= turn.cur /\ Len(turn.base) + turn.cur + Draft + 2 <= Ctx

\* The history of the bound slot ends with the answer, or with all but the
\* last token of an answer that met its cap.
EndsWithAnswer ==
  \/ HistoryOf(bound) = turn.base \o turn.out
  \/ /\ ~turn.on /\ turn.out # <<>> /\ Len(turn.out) = turn.cur
     /\ HistoryOf(bound) = turn.base \o Front(turn.out)

GlmInv == TypeCorrect /\ InContext /\ CachesFollowHistory /\ Decoding /\ EndsWithAnswer /\ OutputFollowsTarget
Cached(s, history) ==
  /\ \A i \in 1 .. Len(history) : slot[s].rows[i] = Prefix(history, i)
  /\ \A i \in Positions : i > Ctx => slot[s].rows[i] = Unwritten

LEMMA HistoriesAre ==
    ASSUME TypeCorrect
    PROVE  /\ \A s \in Slots : /\ slot[s].hist \in History /\ slot[s].rows \in Rows
                               /\ HistoryOf(s) \in History
                               /\ DOMAIN HistoryOf(s) = 1 .. Len(HistoryOf(s))
                               /\ Len(HistoryOf(s)) \in Nat
           /\ turn.all \in History /\ turn.base \in History /\ turn.out \in History /\ turn.logit \in History
           /\ bound \in Slots /\ turn.on \in BOOLEAN /\ turn.cur \in Int
           /\ Len(turn.all) \in Nat /\ Len(turn.base) \in Nat /\ Len(turn.out) \in Nat
           /\ DOMAIN shadow = 1 .. Len(shadow)
  <1>1. \A s \in Slots : slot[s].hist \in History /\ slot[s].rows \in Rows
    BY DEF TypeCorrect
  <1>2. turn.all \in History /\ turn.base \in History /\ turn.out \in History /\ turn.logit \in History
        /\ bound \in Slots /\ turn.on \in BOOLEAN /\ turn.cur \in Int
    BY DEF TypeCorrect
  <1>3. \A s \in Slots : HistoryOf(s) \in History
    BY <1>1, <1>2 DEF HistoryOf
  <1>4. DOMAIN shadow = 1 .. Len(shadow)
    BY DEF TypeCorrect
  <1>5. \A x \in History : DOMAIN x = 1 .. Len(x) /\ Len(x) \in Nat
    BY DEF History
  <1> QED BY <1>1, <1>2, <1>3, <1>4, <1>5

LEMMA CachedIs ==
    ASSUME TypeCorrect
    PROVE  CachesFollowHistory <=>
             /\ \A s \in Slots : Cached(s, HistoryOf(s))
             /\ \A i \in 1 .. Len(shadow) : shadow[i] = slot[bound].rows[i]
             /\ turn.on => hidden = turn.all
  <1>1. \A s \in Slots : DOMAIN HistoryOf(s) = 1 .. Len(HistoryOf(s))
    BY HistoriesAre
  <1>2. DOMAIN shadow = 1 .. Len(shadow)
    BY HistoriesAre
  <1> QED BY <1>1, <1>2, Zenon DEF CachesFollowHistory, Cached

LEMMA CachedIsNext ==
    ASSUME TypeCorrect'
    PROVE  CachesFollowHistory' <=>
             /\ \A s \in Slots : Cached(s, HistoryOf(s))'
             /\ \A i \in 1 .. Len(shadow') : shadow'[i] = slot'[bound'].rows[i]
             /\ turn'.on => hidden' = turn'.all
  <1>1. \A x \in History : DOMAIN x = 1 .. Len(x)
    BY DEF History
  <1>2. \A s \in Slots : slot'[s].hist \in History
    BY DEF TypeCorrect
  <1>3. turn'.all \in History
    BY DEF TypeCorrect
  <1>4. \A s \in Slots : HistoryOf(s)' \in History
    BY <1>2, <1>3 DEF HistoryOf
  <1>5. \A s \in Slots : DOMAIN (HistoryOf(s)') = 1 .. Len(HistoryOf(s)')
    BY <1>1, <1>4
  <1>6. DOMAIN shadow' = 1 .. Len(shadow')
    BY DEF TypeCorrect
  <1> QED BY <1>5, <1>6, Zenon DEF CachesFollowHistory, Cached

----------------------------------------------------------------------------
(* The first states.                                                       *)

LEMMA NoTurnIs ==
    /\ NoTurn \in [on : BOOLEAN, base : History, all : History, out : History, cur : Int,
                   logit : History, ban : SUBSET Tokens]
    /\ ~NoTurn.on /\ NoTurn.base = <<>> /\ NoTurn.out = <<>> /\ NoTurn.all = <<>>
  <1>1. <<>> \in History
    BY DEF History
  <1> QED BY <1>1 DEF NoTurn, Unwritten

LEMMA InitInv == ASSUME Init PROVE GlmInv
  <1>1. <<>> \in History /\ <<>> \in Seq(History)
    BY DEF History
  <1>2. NoRows \in Rows /\ \A i \in Positions : NoRows[i] = Unwritten
    BY <1>1 DEF NoRows, Rows, Unwritten
  <1>3. /\ slot = [s \in Slots |-> [hist |-> <<>>, rows |-> NoRows]]
        /\ bound = 0 /\ shadow = <<>> /\ turn = NoTurn
    BY DEF Init
  <1>4. TypeCorrect
    BY <1>1, <1>2, <1>3, NoTurnIs, Sizes DEF TypeCorrect
  <1>5. \A s \in Slots : HistoryOf(s) = <<>> /\ slot[s].rows = NoRows
    BY <1>3, NoTurnIs DEF HistoryOf
  <1>6. InContext
    BY <1>5, Sizes DEF InContext
  <1>7. \A s \in Slots : Cached(s, HistoryOf(s))
    BY <1>2, <1>5 DEF Cached
  <1>8. CachesFollowHistory
    BY <1>3, <1>4, <1>7, CachedIs, NoTurnIs
  <1>9. EndsWithAnswer
    BY <1>3, <1>5, NoTurnIs, Sizes DEF EndsWithAnswer
  <1>10. Decoding /\ OutputFollowsTarget
    BY <1>3, NoTurnIs DEF Decoding, OutputFollowsTarget
  <1> QED BY <1>4, <1>6, <1>8, <1>9, <1>10 DEF GlmInv
----------------------------------------------------------------------------
(* A turn begins.                                                          *)

\* What the shadow has of a slot that becomes the bound one.
LEMMA ShadowAgrees ==
    ASSUME GlmInv, NEW s \in Slots
    PROVE  /\ ShadowOf(s) \in Seq(History) /\ Len(ShadowOf(s)) <= Ctx
           /\ \A i \in 1 .. Len(ShadowOf(s)) : ShadowOf(s)[i] = slot[s].rows[i]
  <1>1. \A i \in 1 .. Len(shadow) : shadow[i] = slot[bound].rows[i]
    BY CachedIs DEF GlmInv
  <1>2. shadow \in Seq(History) /\ Len(shadow) <= Ctx
    BY DEF GlmInv, TypeCorrect
  <1>3. <<>> \in Seq(History) /\ Len(<<>>) <= Ctx /\ 1 .. Len(<<>>) = {}
    BY Sizes
  <1>4. CASE s = bound
    BY <1>1, <1>2, <1>4 DEF ShadowOf
  <1>5. CASE s # bound
    BY <1>3, <1>5 DEF ShadowOf
  <1> QED BY <1>4, <1>5

\* A prefix of what a slot holds is a history its rows follow.
LEMMA CutIs ==
    ASSUME GlmInv, ~turn.on, NEW s \in Slots, NEW n \in 0 .. Len(slot[s].hist)
    PROVE  /\ Prefix(slot[s].hist, n) \in History /\ Len(Prefix(slot[s].hist, n)) = n
           /\ n <= Ctx
           /\ Cached(s, Prefix(slot[s].hist, n))
  <1> DEFINE hist == slot[s].hist
             old == Prefix(hist, n)
  <1>1. hist \in History /\ HistoryOf(s) = hist /\ Len(hist) \in Nat
    <2>1. TypeCorrect
      BY DEF GlmInv
    <2> QED BY <2>1, HistoriesAre DEF HistoryOf
  <1>2. Len(hist) <= Ctx
    BY <1>1 DEF GlmInv, InContext
  <1>3. Cached(s, hist)
    BY <1>1, CachedIs DEF GlmInv
  <1>4. old \in History /\ Len(old) = n
    BY <1>1, PrefixIs DEF History
  <1>5. ASSUME NEW i \in 1 .. n PROVE slot[s].rows[i] = Prefix(old, i)
    <2>1. i \in 0 .. n /\ i \in 1 .. Len(hist)
      BY <1>1
    <2>2. Prefix(old, i) = Prefix(hist, i)
      BY <1>1, <2>1, PrefixOfPrefix DEF History
    <2> QED BY <1>3, <2>1, <2>2 DEF Cached
  <1>6. \A i \in Positions : i > Ctx => slot[s].rows[i] = Unwritten
    BY <1>3 DEF Cached
  <1>7. Cached(s, old)
    BY <1>4, <1>5, <1>6 DEF Cached
  <1>8. n <= Ctx
    BY <1>1, <1>2, Sizes
  <1> QED BY <1>4, <1>7, <1>8

\* The rows a batch adds to: with no new token the last one is done again.
LEMMA BatchIs ==
    ASSUME NEW old \in History, NEW new \in History, Len(old) + Len(new) > 0
    PROVE  \E h \in History :
             LET hist == old \o new
                 batch == IF new = <<>> THEN <<Last(old)>> ELSE new
             IN  /\ batch \in History /\ hist = h \o batch
                 /\ Len(hist) - Len(batch) = Len(h) /\ Len(hist) = Len(old) + Len(new)
                 /\ Len(h) <= Len(old) /\ h = Prefix(old, Len(h))
  <1> DEFINE hist == old \o new
  <1>1. /\ hist \in History /\ Len(hist) = Len(old) + Len(new) /\ Len(old) \in Nat /\ Len(new) \in Nat
        /\ old = Prefix(old, Len(old))
    BY PrefixOfJoin, PrefixWhole DEF History
  <1>2. CASE new # <<>>
    BY <1>1, <1>2
  <1>3. CASE new = <<>>
    <2> DEFINE n == Len(old)
               h == Prefix(old, n - 1)
               batch == <<Last(old)>>
    <2>1. n \in Nat \ {0} /\ hist = old
      BY <1>1, <1>3 DEF History
    <2>2. Last(old) = old[n] /\ old[n] \in Tokens
      BY <2>1 DEF Last, History
    <2>3. n - 1 \in 0 .. Len(old) - 1 /\ n - 1 \in 0 .. Len(old) /\ (n - 1) + 1 = n
      BY <2>1
    <2>4. h \in History /\ Len(h) = n - 1
      BY <2>3, PrefixIs DEF History
    <2>5. Append(h, old[n]) = old
      BY <1>1, <2>3, PrefixNext DEF History
    <2>6. h \o batch = old /\ batch \in History /\ Len(batch) = 1
      <3> HIDE DEF h
      <3>1. h \in Seq(Tokens)
        BY <2>4 DEF History
      <3>2. Append(h, old[n]) = h \o <<old[n]>>
        BY <2>2, <3>1, AppendIsConcat
      <3>3. batch = <<old[n]>>
        BY <2>2
      <3>4. batch \in Seq(Tokens) /\ Len(batch) = 1
        BY <2>2, <3>3
      <3> QED BY <2>5, <3>2, <3>3, <3>4 DEF History
    <2>7. h = Prefix(old, Len(h)) /\ Len(hist) - Len(batch) = Len(h) /\ Len(h) <= Len(old)
      BY <2>1, <2>4, <2>6
    <2> HIDE DEF h, n
    <2> QED BY <1>1, <1>3, <2>1, <2>4, <2>6, <2>7
  <1> QED BY <1>2, <1>3
----------------------------------------------------------------------------
(* A step: one slot has new rows, and is the bound one.                    *)

Turns == [on : BOOLEAN, base : History, all : History, out : History, cur : Int,
          logit : History, ban : SUBSET Tokens]

\* Rows that follow a history, and a copy of some of them.
SoundRows(now, rows) ==
  /\ now \in History /\ rows \in Rows /\ Len(now) <= Ctx
  /\ \A i \in 1 .. Len(now) : rows[i] = Prefix(now, i)
  /\ \A i \in Positions : i > Ctx => rows[i] = Unwritten
SoundCopy(copy, rows) ==
  /\ copy \in Seq(History) /\ Len(copy) <= Ctx
  /\ \A i \in 1 .. Len(copy) : copy[i] = rows[i]

\* The slot s is left with a count, rows and the history `now'.
StepTo(s, hist, now, rows) ==
  /\ s = bound \/ ~turn.on
  /\ hist \in History
  /\ slot' = [slot EXCEPT ![s] = [hist |-> hist, rows |-> rows]]
  /\ bound' = s
  /\ turn' \in Turns
  /\ now = IF turn'.on THEN turn'.all ELSE hist
  /\ turn'.on => hidden' = turn'.all

LEMMA StepKeeps ==
    ASSUME GlmInv, NEW s \in Slots, NEW hist, NEW now, NEW rows,
           StepTo(s, hist, now, rows), SoundRows(now, rows), SoundCopy(shadow', rows)
    PROVE  TypeCorrect' /\ InContext' /\ CachesFollowHistory' /\ HistoryOf(bound)' = now
  <1> USE DEF StepTo, SoundRows, SoundCopy
  <1>1. TypeCorrect /\ InContext /\ \A r \in Slots : Cached(r, HistoryOf(r))
    BY CachedIs DEF GlmInv
  <1>2. /\ slot' \in [Slots -> [hist : History, rows : Rows]]
        /\ slot'[s].hist = hist /\ slot'[s].rows = rows
        /\ \A r \in Slots \ {s} : slot'[r] = slot[r]
    <2>1. [hist |-> hist, rows |-> rows] \in [hist : History, rows : Rows]
      OBVIOUS
    <2>2. slot \in [Slots -> [hist : History, rows : Rows]]
      BY <1>1 DEF TypeCorrect
    <2>3. slot' \in [Slots -> [hist : History, rows : Rows]]
      BY <2>1, <2>2
    <2>4. slot'[s] = [hist |-> hist, rows |-> rows] /\ \A r \in Slots \ {s} : slot'[r] = slot[r]
      BY <2>2
    <2> QED BY <2>3, <2>4
  <1>3. TypeCorrect'
    BY <1>2 DEF TypeCorrect, Turns
  <1>4. HistoryOf(s)' = now
    BY <1>2 DEF HistoryOf
  <1>5. ASSUME NEW r \in Slots \ {s} PROVE HistoryOf(r)' = HistoryOf(r) /\ slot'[r].rows = slot[r].rows
    <2>1. ~ (turn'.on /\ r = bound') /\ ~ (turn.on /\ r = bound)
      OBVIOUS
    <2> QED BY <1>2, <2>1 DEF HistoryOf
  <1>6. InContext'
    <2> SUFFICES ASSUME NEW r \in Slots PROVE Len(HistoryOf(r)') <= Ctx
      BY DEF InContext
    <2>1. CASE r = s
      BY <1>4, <2>1
    <2>2. CASE r # s
      <3>1. HistoryOf(r)' = HistoryOf(r)
        BY <1>5, <2>2
      <3> QED BY <1>1, <3>1 DEF InContext
    <2> QED BY <2>1, <2>2
  <1>7. ASSUME NEW r \in Slots PROVE Cached(r, HistoryOf(r))'
    <2>1. CASE r = s
      BY <1>2, <1>4, <2>1 DEF Cached
    <2>2. CASE r # s
      <3>1. HistoryOf(r)' = HistoryOf(r) /\ slot'[r].rows = slot[r].rows
        BY <1>5, <2>2
      <3> QED BY <1>1, <3>1 DEF Cached
    <2> QED BY <2>1, <2>2
  <1>8. \A i \in 1 .. Len(shadow') : shadow'[i] = slot'[bound'].rows[i]
    BY <1>2
  <1>9. CachesFollowHistory'
    BY <1>3, <1>7, <1>8, CachedIsNext
  <1>10. HistoryOf(bound)' = now
    BY <1>4 DEF HistoryOf
  <1> QED BY <1>3, <1>6, <1>9, <1>10

\* A forward's rows and copy, seen from the history they end in.
LEMMA FollowedIs ==
    ASSUME GlmInv, NEW s \in Slots, NEW history \in History, NEW at,
           Len(history) <= Ctx, Follows(at, history, Len(history), slot[s].rows)
    PROVE  SoundRows(history, at.rows) /\ SoundCopy(at.shadow, at.rows)
  <1>1. \A i \in Positions : i > Ctx => slot[s].rows[i] = Unwritten
    BY CachedIs DEF GlmInv, Cached
  <1>2. Len(history) \in Nat
    BY DEF History
  <1>3. \A i \in Positions : i > Ctx => i > Len(history)
    BY <1>2, Sizes DEF Positions
  <1>4. /\ at.rows \in Rows /\ \A i \in 1 .. Len(history) : at.rows[i] = Prefix(history, i)
        /\ \A i \in Positions : i > Len(history) => at.rows[i] = slot[s].rows[i]
        /\ at.shadow \in Seq(History) /\ Len(at.shadow) <= Len(history)
        /\ \A i \in 1 .. Len(at.shadow) : at.shadow[i] = at.rows[i]
    BY DEF Follows
  <1>5. Len(at.shadow) <= Ctx
    BY <1>2, <1>4, Sizes
  <1> QED BY <1>1, <1>3, <1>4, <1>5 DEF SoundRows, SoundCopy

LEMMA BeginKeeps ==
    ASSUME GlmInv, ~turn.on, NEW s \in Slots, NEW n \in 0 .. Len(slot[s].hist), NEW new \in History,
           NEW asked \in Nat, n + Len(new) <= Ctx, n + Len(new) > 0,
           Begin(s, Prefix(slot[s].hist, n), new, asked)
    PROVE  GlmInv'
  <1> DEFINE old == Prefix(slot[s].hist, n)
             hist == old \o new
             batch == IF new = <<>> THEN <<Last(old)>> ELSE new
             cur == Limit(Len(hist), asked)
             rows == slot[s].rows
  <1>1. old \in History /\ Len(old) = n /\ Cached(s, old)
    BY CutIs
  <1>2. /\ ShadowOf(s) \in Seq(History) /\ Len(ShadowOf(s)) <= Ctx
        /\ \A i \in 1 .. Len(ShadowOf(s)) : ShadowOf(s)[i] = rows[i]
    BY ShadowAgrees
  <1>3. rows \in Rows
    <2>1. TypeCorrect
      BY DEF GlmInv
    <2> QED BY <2>1, HistoriesAre
  <1>4. hist \in History /\ Len(hist) = n + Len(new)
    BY <1>1, PrefixOfJoin DEF History
  <1> DEFINE pos == Len(hist) - Len(batch)
  <1>5. PICK m \in 0 .. Len(batch) :
          LET f == Forward(rows, ShadowOf(s), batch, pos, m)
              last == f.rows[Len(hist)]
          IN  /\ slot' = [slot EXCEPT ![s] = [hist |-> hist, rows |-> f.rows]]
              /\ shadow' = f.shadow
              /\ hidden' = last
              /\ turn' = IF Len(hist) + Draft + 2 < Ctx
                         THEN [on |-> TRUE, base |-> hist, all |-> hist, out |-> <<>>,
                               cur |-> cur, logit |-> last, ban |-> {}]
                         ELSE [NoTurn EXCEPT !.base = hist, !.all = hist]
    BY Zenon DEF Begin
  <1>6. bound' = s
    BY DEF Begin
  <1> DEFINE f == Forward(rows, ShadowOf(s), batch, pos, m)
             last == f.rows[Len(hist)]
  <1>7. PICK h \in History : /\ batch \in History /\ hist = h \o batch /\ pos = Len(h)
                             /\ Len(h) <= Len(old) /\ h = Prefix(old, Len(h))
    <2> HIDE DEF old
    <2> QED BY <1>1, BatchIs
  <1> HIDE DEF hist, batch, cur, rows, old
  <1>8. Len(h) + Len(batch) = Len(hist) /\ Len(hist) <= Ctx /\ Len(hist) \in Nat \ {0} /\ m \in Nat
    <2>1. Len(hist) = Len(h) + Len(batch)
      BY <1>7, PrefixOfJoin DEF History
    <2>2. n \in Nat /\ Len(new) \in Nat /\ Len(h) \in Nat /\ Len(batch) \in Nat
      BY <1>1, <1>7 DEF History
    <2> QED BY <1>4, <2>1, <2>2, Sizes
  <1>9. \A i \in 1 .. Len(h) : rows[i] = Prefix(h, i)
    <2> SUFFICES ASSUME NEW i \in 1 .. Len(h) PROVE rows[i] = Prefix(h, i)
      OBVIOUS
    <2>1. Len(h) \in 0 .. Len(old) /\ i \in 0 .. Len(h) /\ i \in 1 .. Len(old)
      BY <1>1, <1>7 DEF History
    <2>2. Prefix(Prefix(old, Len(h)), i) = Prefix(old, i)
      BY <1>1, <2>1, PrefixOfPrefix DEF History
    <2>3. rows[i] = Prefix(old, i)
      BY <1>1, <2>1 DEF Cached, rows
    <2> QED BY <1>7, <2>2, <2>3
  <1>10. Follows(f, hist, Len(hist), rows)
    BY <1>2, <1>3, <1>7, <1>8, <1>9, ForwardFollows
  <1> HIDE DEF f, pos
  <1>11. last = hist
    <2>1. last = Prefix(hist, Len(hist))
      BY <1>8, <1>10 DEF Follows
    <2> QED BY <1>4, <2>1, PrefixWhole DEF History
  <1> HIDE DEF last
  <1>12. Follows(f, hist, Len(hist), slot[s].rows)
    BY <1>10 DEF rows
  <1>13. SoundRows(hist, f.rows) /\ SoundCopy(f.shadow, f.rows)
    BY <1>4, <1>8, <1>12, FollowedIs
  <1>14. slot' = [slot EXCEPT ![s] = [hist |-> hist, rows |-> f.rows]] /\ shadow' = f.shadow /\ hidden' = hist
    BY <1>5, <1>11 DEF f, last
  <1>15. SoundCopy(shadow', f.rows)
    BY <1>13, <1>14
  <1>16. <<>> \in History /\ hist \o <<>> = hist /\ hist # <<>>
    BY <1>4, <1>8 DEF History
  <1>17. CASE Len(hist) + Draft + 2 < Ctx
    <2>1. turn' = [on |-> TRUE, base |-> hist, all |-> hist, out |-> <<>>, cur |-> cur, logit |-> hist, ban |-> {}]
      BY <1>5, <1>11, <1>17 DEF f, last
    <2>2. cur \in Nat /\ Len(hist) + cur + Draft + 2 <= Ctx
      BY <1>8, <1>17, Sizes DEF cur, Limit
    <2>3. turn' \in Turns /\ hist = IF turn'.on THEN turn'.all ELSE hist
      BY <1>4, <1>16, <2>1, <2>2 DEF Turns
    <2>4. TypeCorrect' /\ InContext' /\ CachesFollowHistory' /\ HistoryOf(bound)' = hist
      <3>1. turn'.on => hidden' = turn'.all
        BY <1>14, <2>1
      <3>2. StepTo(s, hist, hist, f.rows)
        BY <1>4, <1>6, <1>14, <2>3, <3>1 DEF StepTo
      <3> QED BY <1>13, <1>15, <3>2, StepKeeps
    <2>5. Decoding'
      <3>1. /\ turn'.base = hist /\ turn'.all = hist /\ turn'.out = <<>> /\ turn'.logit = hist /\ turn'.cur = cur
        BY <2>1
      <3>2. Len(turn'.out) <= turn'.cur
        BY <2>2, <3>1
      <3> QED BY <1>16, <2>2, <3>1, <3>2 DEF Decoding
    <2>6. EndsWithAnswer'
      BY <1>16, <2>1, <2>4 DEF EndsWithAnswer
    <2>7. OutputFollowsTarget'
      BY <2>1 DEF OutputFollowsTarget
    <2> QED BY <2>4, <2>5, <2>6, <2>7 DEF GlmInv
  <1>18. CASE ~ (Len(hist) + Draft + 2 < Ctx)
    <2>1. turn' = [NoTurn EXCEPT !.base = hist, !.all = hist]
      BY <1>5, <1>18
    <2>2. turn' \in Turns /\ ~turn'.on /\ turn'.base = hist /\ turn'.out = <<>>
      BY <1>4, <2>1, NoTurnIs DEF Turns
    <2>3. TypeCorrect' /\ InContext' /\ CachesFollowHistory' /\ HistoryOf(bound)' = hist
      <3>1. hist = IF turn'.on THEN turn'.all ELSE hist
        BY <2>2
      <3>2. turn'.on => hidden' = turn'.all
        BY <2>2
      <3>3. StepTo(s, hist, hist, f.rows)
        BY <1>4, <1>6, <1>14, <2>2, <3>1, <3>2 DEF StepTo
      <3> QED BY <1>13, <1>15, <3>3, StepKeeps
    <2>4. Decoding' /\ OutputFollowsTarget'
      BY <2>2 DEF Decoding, OutputFollowsTarget
    <2>5. EndsWithAnswer'
      BY <1>16, <2>2, <2>3 DEF EndsWithAnswer
    <2> QED BY <2>3, <2>4, <2>5 DEF GlmInv
  <1> QED BY <1>17, <1>18

\* A prompt of no tokens leaves what is kept of the history.
LEMMA UnansweredKeeps ==
    ASSUME GlmInv, ~turn.on, NEW s \in Slots, NEW n \in 0 .. Len(slot[s].hist),
           Unanswered(s, Prefix(slot[s].hist, n))
    PROVE  GlmInv'
  <1> DEFINE old == Prefix(slot[s].hist, n)
             rows == slot[s].rows
  <1>1. old \in History /\ Len(old) = n /\ n <= Ctx /\ Cached(s, old)
    BY CutIs
  <1>2. SoundCopy(ShadowOf(s), rows)
    BY ShadowAgrees DEF SoundCopy
  <1>3. rows \in Rows /\ slot[s] \in [hist : History, rows : Rows] /\ slot \in [Slots -> [hist : History, rows : Rows]]
    BY DEF GlmInv, TypeCorrect
  <1>4. /\ slot' = [slot EXCEPT ![s].hist = old] /\ shadow' = ShadowOf(s) /\ bound' = s
        /\ turn' = [NoTurn EXCEPT !.base = old, !.all = old]
    BY DEF Unanswered
  <1>5. SoundRows(old, rows)
    BY <1>1, <1>3 DEF SoundRows, Cached
  <1> HIDE DEF old, rows
  <1>6. turn' \in Turns /\ ~turn'.on /\ turn'.base = old /\ turn'.out = <<>>
    BY <1>1, <1>4, NoTurnIs DEF Turns
  <1>7. slot' = [slot EXCEPT ![s] = [hist |-> old, rows |-> rows]]
    <2>1. [slot[s] EXCEPT !.hist = old] = [hist |-> old, rows |-> slot[s].rows]
      BY <1>3
    <2>2. slot' = [slot EXCEPT ![s] = [slot[s] EXCEPT !.hist = old]]
      BY <1>4
    <2> QED BY <2>1, <2>2 DEF rows
  <1>8. StepTo(s, old, old, rows)
    BY <1>1, <1>4, <1>6, <1>7 DEF StepTo
  <1>9. SoundCopy(shadow', rows)
    BY <1>2, <1>4
  <1>10. TypeCorrect' /\ InContext' /\ CachesFollowHistory' /\ HistoryOf(bound)' = old
    BY <1>5, <1>8, <1>9, StepKeeps
  <1>11. old \o <<>> = old
    BY <1>1 DEF History
  <1>12. Decoding' /\ OutputFollowsTarget' /\ EndsWithAnswer'
    BY <1>6, <1>10, <1>11 DEF Decoding, OutputFollowsTarget, EndsWithAnswer
  <1> QED BY <1>10, <1>12 DEF GlmInv

\* Cut at nothing, at a place, or nowhere.
LEMMA Cuts ==
    ASSUME GlmInv, NEW s \in Slots
    PROVE  LET hist == slot[s].hist
           IN  /\ hist \in History /\ Len(hist) \in Nat
               /\ 0 \in 0 .. Len(hist) /\ Prefix(hist, 0) = <<>>
               /\ Len(hist) \in 0 .. Len(hist) /\ Prefix(hist, Len(hist)) = hist
  <1> DEFINE hist == slot[s].hist
  <1>1. TypeCorrect
    BY DEF GlmInv
  <1>2. hist \in History /\ Len(hist) \in Nat
    BY <1>1, HistoriesAre DEF History
  <1> HIDE DEF hist
  <1>3. 0 \in 0 .. Len(hist) /\ Len(hist) \in 0 .. Len(hist)
    BY <1>2
  <1>4. Prefix(hist, Len(hist)) = hist
    BY <1>2, PrefixWhole DEF History
  <1>5. Prefix(hist, 0) \in Seq(Tokens) /\ Len(Prefix(hist, 0)) = 0
    BY <1>2, <1>3, PrefixIs DEF History
  <1>6. Prefix(hist, 0) = <<>>
    BY <1>5
  <1> QED BY <1>2, <1>3, <1>4, <1>6 DEF hist

\* What two histories share.
LEMMA CommonPrefixIs ==
    ASSUME NEW a \in History, NEW b \in History
    PROVE  CommonPrefix(a, b) \in 0 .. Len(a) /\ CommonPrefix(a, b) <= Len(b)
  <1> DEFINE T == {n \in 0 .. Len(a) : n <= Len(b) /\ Prefix(a, n) = Prefix(b, n)}
  <1>1. Len(a) \in Nat /\ Len(b) \in Nat /\ a \in Seq(Tokens) /\ b \in Seq(Tokens)
    BY DEF History
  <1>2. 0 \in T
    <2>1. 0 \in 0 .. Len(a) /\ 0 \in 0 .. Len(b) /\ 0 <= Len(b)
      BY <1>1
    <2>2. Prefix(a, 0) \in Seq(Tokens) /\ Len(Prefix(a, 0)) = 0 /\ Prefix(b, 0) \in Seq(Tokens) /\ Len(Prefix(b, 0)) = 0
      BY <1>1, <2>1, PrefixIs
    <2>3. Prefix(a, 0) = <<>> /\ Prefix(b, 0) = <<>>
      BY <2>2
    <2> QED BY <2>1, <2>3
  <1>3. T \subseteq 0 .. Len(a) /\ T # {}
    BY <1>2
  <1>4. PICK n \in T : \A k \in T : k <= n
    <2> HIDE DEF T
    <2> QED BY <1>1, <1>3, GreatestElement
  <1>5. n \in 0 .. Len(a) /\ n <= Len(b) /\ Prefix(a, n) = Prefix(b, n)
    BY <1>4
  <1>6. (n < Len(a) /\ n < Len(b)) => a[n + 1] # b[n + 1]
    <2> SUFFICES ASSUME n < Len(a), n < Len(b), a[n + 1] = b[n + 1] PROVE FALSE
      OBVIOUS
    <2>1. n \in 0 .. Len(a) - 1 /\ n \in 0 .. Len(b) - 1 /\ n + 1 \in 0 .. Len(a) /\ n + 1 <= Len(b)
      BY <1>1, <1>5
    <2>2. Append(Prefix(a, n), a[n + 1]) = Prefix(a, n + 1) /\ Append(Prefix(b, n), b[n + 1]) = Prefix(b, n + 1)
      BY <1>1, <2>1, PrefixNext
    <2>3. n + 1 \in T
      BY <1>5, <2>1, <2>2
    <2> QED BY <1>1, <1>4, <1>5, <2>3
  <1> DEFINE P(k) == /\ k <= Len(b) /\ Prefix(a, k) = Prefix(b, k)
                     /\ (k < Len(a) /\ k < Len(b)) => a[k + 1] # b[k + 1]
             chosen == CHOOSE k \in 0 .. Len(a) : P(k)
  <1>7. \E k \in 0 .. Len(a) : P(k)
    BY <1>5, <1>6
  <1>8. chosen \in 0 .. Len(a) /\ P(chosen)
    <2> HIDE DEF P
    <2> QED BY <1>7
  <1>9. CommonPrefix(a, b) = chosen
    BY DEF CommonPrefix
  <1> QED BY <1>8, <1>9

LEMMA PromptKeeps ==
    ASSUME GlmInv, NEW s \in Slots, NEW tokens \in Prompts, NEW asked \in Nat, Prompt(s, tokens, asked)
    PROVE  GlmInv'
  <1> DEFINE most == IF Len(tokens) > Ctx - Margin - Draft THEN Ctx - Margin - Draft ELSE Len(tokens)
             prompt == Prefix(tokens, most)
             hist == slot[s].hist
             n == CommonPrefix(hist, prompt)
             new == SubSeq(prompt, n + 1, Len(prompt))
  <1>1. tokens \in History /\ Len(tokens) \in Nat
    BY Sizes DEF History
  <1>2. most \in 0 .. Len(tokens) /\ most <= Ctx
    BY <1>1, Sizes
  <1>3. prompt \in History /\ Len(prompt) = most /\ Len(prompt) \in Nat
    <2> HIDE DEF most
    <2>1. prompt \in Seq(Tokens) /\ Len(prompt) = most
      BY <1>1, <1>2, PrefixIs DEF History
    <2> QED BY <2>1 DEF History
  <1>4. /\ ~turn.on
        /\ \/ prompt = <<>> /\ Unanswered(s, <<>>)
           \/ prompt # <<>> /\ Begin(s, Prefix(hist, n), new, asked)
    BY DEF Prompt
  <1>5. hist \in History /\ Len(hist) \in Nat /\ 0 \in 0 .. Len(hist) /\ Prefix(hist, 0) = <<>>
    BY Cuts
  <1> HIDE DEF prompt, hist, most
  <1>6. n \in 0 .. Len(hist) /\ n <= Len(prompt)
    BY <1>3, <1>5, CommonPrefixIs
  <1>7. CASE prompt = <<>>
    <2>1. Unanswered(s, Prefix(hist, 0)) /\ ~turn.on
      BY <1>4, <1>5, <1>7
    <2> QED BY <1>5, <2>1, UnansweredKeeps DEF hist
  <1>8. CASE prompt # <<>>
    <2>1. new \in History /\ n + Len(new) = Len(prompt)
      <3> HIDE DEF n
      <3>1. n \in Nat /\ n <= Len(prompt)
        BY <1>5, <1>6
      <3>2. \A i \in n + 1 .. Len(prompt) : prompt[i] \in Tokens
        BY <1>3, <3>1 DEF History
      <3>3. new \in Seq(Tokens) /\ Len(new) = IF n + 1 <= Len(prompt) THEN Len(prompt) - (n + 1) + 1 ELSE 0
        BY <1>3, <3>1, <3>2, SubSeqProperties, Z3
      <3> HIDE DEF new
      <3>4. n + Len(new) = Len(prompt)
        BY <1>3, <3>1, <3>3
      <3> QED BY <3>3, <3>4 DEF History
    <2>2. Len(prompt) > 0
      BY <1>3, <1>8 DEF History
    <2>3. Begin(s, Prefix(hist, n), new, asked) /\ ~turn.on
      BY <1>4, <1>8
    <2> HIDE DEF n, new
    <2> QED BY <1>2, <1>3, <1>6, <2>1, <2>2, <2>3, BeginKeeps DEF hist
  <1> QED BY <1>7, <1>8

LEMMA LineKeeps ==
    ASSUME GlmInv, NEW tokens \in Prompts, Line(tokens)
    PROVE  GlmInv'
  <1> DEFINE hist == slot[0].hist
             fits == Len(hist) + Len(tokens) + Margin + Draft < Ctx
             n == IF fits THEN Len(hist) ELSE 0
             old == IF fits THEN hist ELSE <<>>
             new == IF fits \/ Len(tokens) <= Ctx - Margin - Draft THEN tokens
                    ELSE Prefix(tokens, Ctx - Margin - Draft)
  <1>1. tokens \in History /\ Len(tokens) \in Nat
    BY Sizes DEF History
  <1>2. /\ ~turn.on
        /\ \/ tokens = <<>> /\ Unanswered(0, old)
           \/ tokens # <<>> /\ Begin(0, old, new, NGen)
    BY DEF Line
  <1>3. /\ hist \in History /\ Len(hist) \in Nat /\ 0 \in 0 .. Len(hist) /\ Prefix(hist, 0) = <<>>
        /\ Len(hist) \in 0 .. Len(hist) /\ Prefix(hist, Len(hist)) = hist
    BY Cuts, Sizes
  <1> HIDE DEF hist
  <1>4. n \in 0 .. Len(hist) /\ old = Prefix(hist, n)
    BY <1>3
  <1>5. CASE tokens = <<>>
    <2>1. Unanswered(0, Prefix(hist, n)) /\ ~turn.on
      BY <1>2, <1>4, <1>5
    <2> HIDE DEF n
    <2> QED BY <1>4, <2>1, UnansweredKeeps, Sizes DEF hist
  <1>6. CASE tokens # <<>>
    <2>1. new \in History /\ n + Len(new) <= Ctx /\ n + Len(new) > 0
      <3>1. Len(tokens) > 0
        BY <1>1, <1>6 DEF History
      <3>2. CASE fits
        BY <1>1, <1>3, <3>1, <3>2, Sizes
      <3>3. CASE ~fits /\ Len(tokens) <= Ctx - Margin - Draft
        BY <1>1, <1>3, <3>1, <3>3, Sizes
      <3>4. CASE ~fits /\ ~ (Len(tokens) <= Ctx - Margin - Draft)
        <4>1. Ctx - Margin - Draft \in 0 .. Len(tokens)
          BY <1>1, <3>4, Sizes
        <4>2. new = Prefix(tokens, Ctx - Margin - Draft) /\ n = 0
          BY <3>4
        <4>3. new \in History /\ Len(new) = Ctx - Margin - Draft
          BY <1>1, <4>1, <4>2, PrefixIs DEF History
        <4> HIDE DEF n, new
        <4> QED BY <4>2, <4>3, Sizes
      <3> QED BY <3>2, <3>3, <3>4
    <2>2. Begin(0, Prefix(hist, n), new, NGen) /\ ~turn.on
      BY <1>2, <1>4, <1>6
    <2> HIDE DEF n, new
    <2> QED BY <1>4, <2>1, <2>2, BeginKeeps, Sizes DEF hist
  <1> QED BY <1>5, <1>6

LEMMA MoreKeeps == ASSUME GlmInv, More PROVE GlmInv'
  <1> DEFINE hist == slot[bound].hist
  <1>1. ~turn.on /\ hist # <<>> /\ Begin(bound, hist, <<>>, NGen)
    BY DEF More
  <1>2. bound \in Slots /\ HistoryOf(bound) = hist
    BY <1>1 DEF GlmInv, TypeCorrect, HistoryOf
  <1>3. hist \in History /\ Len(hist) \in Nat /\ Len(hist) \in 0 .. Len(hist) /\ Prefix(hist, Len(hist)) = hist
    BY <1>2, Cuts
  <1>4. Len(hist) <= Ctx
    BY <1>2 DEF GlmInv, InContext
  <1>5. <<>> \in History /\ Len(<<>>) = 0 /\ Len(hist) > 0
    BY <1>1, <1>3 DEF History
  <1>6. Begin(bound, Prefix(hist, Len(hist)), <<>>, NGen)
    BY <1>1, <1>3
  <1>7. Len(hist) + Len(<<>>) <= Ctx /\ Len(hist) + Len(<<>>) > 0
    BY <1>3, <1>4, <1>5, Sizes
  <1> QED BY <1>1, <1>2, <1>3, <1>5, <1>6, <1>7, BeginKeeps, Sizes DEF hist

LEMMA ResetKeeps == ASSUME GlmInv, Reset PROVE GlmInv'
  <1> DEFINE rows == slot[bound].rows
  <1>1. /\ ~turn.on /\ slot' = [slot EXCEPT ![bound].hist = <<>>] /\ turn' = NoTurn
        /\ bound' = bound /\ shadow' = shadow /\ hidden' = hidden
    BY DEF Reset
  <1>2. bound \in Slots /\ slot \in [Slots -> [hist : History, rows : Rows]]
    BY DEF GlmInv, TypeCorrect
  <1>3. slot[bound] \in [hist : History, rows : Rows] /\ rows \in Rows
    BY <1>2
  <1>4. <<>> \in History /\ Len(<<>>) = 0 /\ 1 .. 0 = {} /\ <<>> \o <<>> = <<>>
    BY DEF History
  <1>5. \A i \in Positions : i > Ctx => rows[i] = Unwritten
    BY <1>2, CachedIs DEF GlmInv, Cached
  <1>6. SoundRows(<<>>, rows)
    BY <1>3, <1>4, <1>5, Sizes DEF SoundRows
  <1>7. SoundCopy(shadow', rows)
    BY <1>1, CachedIs DEF GlmInv, TypeCorrect, SoundCopy
  <1>8. slot' = [slot EXCEPT ![bound] = [hist |-> <<>>, rows |-> rows]]
    <2>1. [slot[bound] EXCEPT !.hist = <<>>] = [hist |-> <<>>, rows |-> slot[bound].rows]
      BY <1>3
    <2>2. slot' = [slot EXCEPT ![bound] = [slot[bound] EXCEPT !.hist = <<>>]]
      BY <1>1
    <2> QED BY <2>1, <2>2
  <1> HIDE DEF rows
  <1>9. turn' \in Turns /\ ~turn'.on /\ turn'.base = <<>> /\ turn'.out = <<>>
    BY <1>1, NoTurnIs DEF Turns
  <1>10. StepTo(bound, <<>>, <<>>, rows)
    BY <1>1, <1>4, <1>8, <1>9 DEF StepTo
  <1>11. TypeCorrect' /\ InContext' /\ CachesFollowHistory' /\ HistoryOf(bound)' = <<>>
    BY <1>2, <1>6, <1>7, <1>10, StepKeeps
  <1>12. Decoding' /\ OutputFollowsTarget' /\ EndsWithAnswer'
    BY <1>4, <1>9, <1>11 DEF Decoding, OutputFollowsTarget, EndsWithAnswer
  <1> QED BY <1>11, <1>12 DEF GlmInv
----------------------------------------------------------------------------
(* Drafts.                                                                 *)

LEMMA NGramIs == ASSUME NEW all \in History PROVE NGram(all) \in History
  <1> DEFINE n == Len(all)
             seen == {i \in 2 .. n - 2 : all[i - 1] = all[n - 1] /\ all[i] = all[n]}
             i == CHOOSE x \in seen : \A y \in seen : y <= x
             upto == IF i + Draft < n THEN i + Draft ELSE n
  <1>1. n \in Nat /\ all \in Seq(Tokens) /\ <<>> \in History
    BY DEF History
  <1>2. CASE n < 4 \/ seen = {}
    BY <1>1, <1>2 DEF NGram
  <1>3. CASE ~ (n < 4 \/ seen = {})
    <2>1. NGram(all) = SubSeq(all, i + 1, upto)
      BY <1>3 DEF NGram
    <2>2. seen \subseteq 0 .. n /\ seen # {}
      BY <1>1, <1>3
    <2> HIDE DEF seen, n
    <2>3. \E x \in seen : \A y \in seen : y <= x
      BY <1>1, <2>2, GreatestElement
    <2>4. i \in seen
      BY <2>3
    <2> HIDE DEF i
    <2>5. i \in Nat /\ i <= n
      BY <1>1, <2>2, <2>4
    <2>6. upto \in Nat /\ upto <= n
      BY <1>1, <2>5, Sizes
    <2> HIDE DEF upto
    <2>7. \A j \in i + 1 .. upto : all[j] \in Tokens
      BY <1>1, <2>5, <2>6 DEF n
    <2>8. SubSeq(all, i + 1, upto) \in Seq(Tokens)
      <3>1. i + 1 \in Nat /\ upto \in Nat
        BY <2>5, <2>6
      <3>2. CASE i + 1 <= upto + 1
        BY <1>1, <2>7, <3>1, <3>2, SubSeqProperties, Z3
      <3>3. CASE ~ (i + 1 <= upto + 1)
        <4>1. SubSeq(all, i + 1, upto) = <<>>
          BY <3>1, <3>3, SubSeqEmpty
        <4>2. <<>> \in Seq(Tokens)
          OBVIOUS
        <4> QED BY <4>1, <4>2
      <3> QED BY <3>2, <3>3
    <2> QED BY <2>1, <2>8 DEF History
  <1> QED BY <1>2, <1>3

LEMMA DraftIs ==
    ASSUME NEW w, NEW all \in History, NEW d \in Drafts(w, all)
    PROVE  d \in History
  <1>1. \A k \in Nat : \A T \in SUBSET Tokens : \A x \in [1 .. k -> T] : x \in Seq(Tokens)
    OBVIOUS
  <1>2. SeqsUpTo(Forces) \subseteq History
    <2> SUFFICES ASSUME NEW k \in 0 .. Forces, NEW x \in [1 .. k -> Tokens \ Stops] PROVE x \in History
      BY DEF SeqsUpTo
    <2>1. k \in Nat /\ Tokens \ Stops \in SUBSET Tokens
      BY Sizes
    <2> QED BY <1>1, <2>1 DEF History
  <1>3. GrammarDrafts(w) \subseteq History
    <2>1. <<>> \in History
      BY DEF History
    <2> QED BY <1>2, <2>1 DEF GrammarDrafts
  <1>4. ModelDrafts(all) \subseteq History
    <2>1. CASE mtp
      <3> SUFFICES ASSUME NEW k \in 0 .. Draft, NEW x \in [1 .. k -> Tokens] PROVE x \in History
        BY <2>1 DEF ModelDrafts
      <3>1. k \in Nat /\ Tokens \in SUBSET Tokens
        BY Sizes
      <3> QED BY <1>1, <3>1 DEF History
    <2>2. CASE ~mtp
      BY <2>2, NGramIs DEF ModelDrafts
    <2> QED BY <2>1, <2>2
  <1> QED BY <1>3, <1>4 DEF Drafts

\* The drafts that are verified fit in the answer and in the context.
LEMMA RoomIs ==
    ASSUME NEW d \in History, NEW kv \in Nat, NEW left \in Nat, kv + 2 < Ctx
    PROVE  /\ Room(d, kv, left) \in 0 .. Len(d) /\ Room(d, kv, left) <= left
           /\ kv + 1 + Room(d, kv, left) <= Ctx
  <1>1. Len(d) \in Nat
    BY DEF History
  <1> DEFINE g == IF Len(d) > left THEN left ELSE Len(d)
  <1>2. g \in 0 .. Len(d) /\ g <= left
    BY <1>1
  <1>3. Room(d, kv, left) = IF kv + 1 + g + 1 > Ctx THEN (IF Ctx > kv + 2 THEN Ctx - kv - 2 ELSE 0) ELSE g
    BY DEF Room
  <1> HIDE DEF g
  <1> QED BY <1>1, <1>2, <1>3, Sizes

----------------------------------------------------------------------------
(* Answers.                                                                *)

\* Every token of an answer is one the target may choose there.
Answers(base, out) == \A i \in 1 .. Len(out) : out[i] \in Support(base \o Prefix(out, i - 1)) \ Stops

LEMMA AnswersAre == ASSUME TypeCorrect PROVE OutputFollowsTarget <=> Answers(turn.base, turn.out)
  <1>1. DOMAIN turn.out = 1 .. Len(turn.out)
    BY DEF TypeCorrect, History
  <1> QED BY <1>1, Zenon DEF OutputFollowsTarget, Answers

LEMMA AnswersAreNext == ASSUME TypeCorrect' PROVE OutputFollowsTarget' <=> Answers(turn'.base, turn'.out)
  <1>1. DOMAIN (turn'.out) = 1 .. Len(turn'.out)
    BY DEF TypeCorrect, History
  <1> QED BY <1>1, Zenon DEF OutputFollowsTarget, Answers

LEMMA AnswersGrow ==
    ASSUME NEW base \in History, NEW out \in History, NEW more \in History, Answers(base, out),
           \A j \in 1 .. Len(more) : more[j] \in Support((base \o out) \o Prefix(more, j - 1)) \ Stops
    PROVE  Answers(base, out \o more)
  <1> DEFINE m == Len(out)
             n == Len(more)
             u == out \o more
  <1>1. /\ u \in Seq(Tokens) /\ Len(u) = m + n /\ m \in Nat /\ n \in Nat
        /\ \A i \in 1 .. m : u[i] = out[i]
        /\ \A i \in 1 .. n : u[m + i] = more[i]
        /\ \A k \in 0 .. m : Prefix(u, k) = Prefix(out, k)
        /\ \A k \in 0 .. n : Prefix(u, m + k) = out \o Prefix(more, k)
    BY PrefixOfJoin DEF History
  <1> HIDE DEF u, m, n
  <1> SUFFICES ASSUME NEW i \in 1 .. m + n PROVE u[i] \in Support(base \o Prefix(u, i - 1)) \ Stops
    BY <1>1 DEF Answers, u
  <1>2. CASE i <= m
    <2>1. i \in 1 .. m /\ i - 1 \in 0 .. m
      BY <1>1, <1>2
    <2> QED BY <1>1, <2>1 DEF Answers, m
  <1>3. CASE i > m
    <2> DEFINE j == i - m
    <2>1. j \in 1 .. n /\ j - 1 \in 0 .. n /\ m + j = i /\ m + (j - 1) = i - 1
      BY <1>1, <1>3
    <2> HIDE DEF j
    <2>2. u[i] = more[j] /\ Prefix(u, i - 1) = out \o Prefix(more, j - 1)
      <3>1. u[m + j] = more[j]
        BY <1>1, <2>1
      <3>2. Prefix(u, m + (j - 1)) = out \o Prefix(more, j - 1)
        BY <1>1, <2>1
      <3> QED BY <2>1, <3>1, <3>2
    <2>3. Prefix(more, j - 1) \in Seq(Tokens)
      BY <2>1, PrefixIs DEF History, n
    <2>4. base \o (out \o Prefix(more, j - 1)) = (base \o out) \o Prefix(more, j - 1)
      <3> DEFINE p == Prefix(more, j - 1)
      <3>1. p \in History
        BY <2>3 DEF History
      <3> HIDE DEF p
      <3>2. (base \o out) \o p = base \o (out \o p)
        BY <3>1, Associative
      <3> QED BY <3>2 DEF p
    <2>5. more[j] \in Support((base \o out) \o Prefix(more, j - 1)) \ Stops
      BY <2>1 DEF n
    <2> QED BY <2>2, <2>4, <2>5
  <1> QED BY <1>1, <1>2, <1>3
----------------------------------------------------------------------------
(* A decode.                                                               *)

LEMMA DecodingIs ==
    ASSUME GlmInv, turn.on
    PROVE  /\ turn \in Turns /\ turn.base \in History /\ turn.out \in History /\ turn.cur \in Int
           /\ turn.all \in History /\ turn.all # <<>> /\ turn.all = turn.base \o turn.out
           /\ Len(turn.all) = Len(turn.base) + Len(turn.out)
           /\ Len(turn.base) \in Nat /\ Len(turn.out) \in Nat /\ Len(turn.all) \in Nat \ {0}
           /\ Len(turn.all) <= Ctx
           /\ turn.logit = turn.all /\ Target(turn.logit) = Support(turn.all) \cap Tokens
           /\ Len(turn.out) <= turn.cur /\ Len(turn.base) + turn.cur + Draft + 2 <= Ctx
           /\ bound \in Slots /\ HistoryOf(bound) = turn.all /\ Cached(bound, turn.all)
           /\ slot \in [Slots -> [hist : History, rows : Rows]]
           /\ SoundRows(turn.all, slot[bound].rows) /\ SoundCopy(shadow, slot[bound].rows)
           /\ Answers(turn.base, turn.out)
  <1>1. TypeCorrect /\ CachesFollowHistory /\ InContext /\ OutputFollowsTarget
    BY DEF GlmInv
  <1>2. /\ turn \in Turns /\ bound \in Slots /\ slot \in [Slots -> [hist : History, rows : Rows]]
        /\ shadow \in Seq(History) /\ Len(shadow) <= Ctx
    BY <1>1 DEF TypeCorrect, Turns
  <1>3. /\ turn.base \in History /\ turn.out \in History /\ turn.cur \in Int /\ turn.all \in History
        /\ Len(turn.base) \in Nat /\ Len(turn.out) \in Nat /\ Len(turn.all) \in Nat
    BY <1>2 DEF Turns, History
  <1>4. /\ turn.base # <<>> /\ turn.all = turn.base \o turn.out /\ turn.logit = turn.all
        /\ Len(turn.out) <= turn.cur /\ Len(turn.base) + turn.cur + Draft + 2 <= Ctx
    BY DEF GlmInv, Decoding
  <1>5. Len(turn.all) = Len(turn.base) + Len(turn.out)
    BY <1>3, <1>4, PrefixOfJoin DEF History
  <1>6. Len(turn.all) \in Nat \ {0} /\ turn.all # <<>>
    <2>1. Len(turn.base) # 0
      BY <1>3, <1>4 DEF History
    <2>2. \A i \in Nat, j \in Nat, k \in Nat : i = j + k /\ j # 0 => i # 0
      OBVIOUS
    <2>3. Len(turn.all) # 0
      BY <1>3, <1>5, <2>1, <2>2, Zenon
    <2>4. Len(<<>>) = 0
      OBVIOUS
    <2> QED BY <1>3, <2>3, <2>4, Zenon
  <1>7. Target(turn.logit) = Support(turn.all) \cap Tokens
    BY <1>4, <1>6 DEF Target, Unwritten
  <1>8. HistoryOf(bound) = turn.all
    BY DEF HistoryOf
  <1>9. Cached(bound, turn.all) /\ Len(turn.all) <= Ctx
    BY <1>1, <1>2, <1>8, CachedIs DEF InContext
  <1>10. SoundRows(turn.all, slot[bound].rows)
    BY <1>2, <1>3, <1>9 DEF SoundRows, Cached
  <1>11. SoundCopy(shadow, slot[bound].rows)
    BY <1>1, <1>2, CachedIs DEF SoundCopy
  <1>12. Answers(turn.base, turn.out)
    BY <1>1, AnswersAre
  <1> QED BY <1>2, <1>3, <1>4, <1>5, <1>6, <1>7, <1>8, <1>9, <1>10, <1>11, <1>12

\* The loop is left with a last token, or none, that was not forwarded.
LEMMA ReturnsKeeps ==
    ASSUME GlmInv, turn.on, NEW out \in History, Answers(turn.base, out),
           out = turn.out \/ (out # <<>> /\ Len(out) = turn.cur /\ Front(out) = turn.out),
           Returns([turn EXCEPT !.out = out]), bound' = bound, shadow' = shadow
    PROVE  GlmInv'
  <1> DEFINE h == turn.all
             rows == slot[bound].rows
  <1>1. /\ turn \in Turns /\ h \in History /\ bound \in Slots /\ h = turn.base \o turn.out
        /\ slot \in [Slots -> [hist : History, rows : Rows]]
        /\ SoundRows(h, rows) /\ SoundCopy(shadow, rows)
    BY DecodingIs
  <1>2. [turn EXCEPT !.out = out].all = h
    BY <1>1 DEF Turns
  <1>3. slot' = [slot EXCEPT ![bound].hist = h] /\ turn' = Over([turn EXCEPT !.out = out])
    BY <1>2 DEF Returns
  <1>4. /\ turn' \in Turns /\ ~turn'.on /\ turn'.base = turn.base /\ turn'.out = out /\ turn'.cur = turn.cur
    <2>1. <<>> \in History
      BY DEF History
    <2> QED BY <1>1, <1>3, <2>1 DEF Turns, Over, Unwritten
  <1>5. slot' = [slot EXCEPT ![bound] = [hist |-> h, rows |-> rows]]
    <2>0. slot[bound] \in [hist : History, rows : Rows]
      BY <1>1
    <2>1. [slot[bound] EXCEPT !.hist = h] = [hist |-> h, rows |-> slot[bound].rows]
      BY <2>0
    <2>2. slot' = [slot EXCEPT ![bound] = [slot[bound] EXCEPT !.hist = h]]
      BY <1>3
    <2> QED BY <2>1, <2>2
  <1> HIDE DEF h, rows
  <1>6. StepTo(bound, h, h, rows) /\ SoundCopy(shadow', rows)
    BY <1>1, <1>4, <1>5 DEF StepTo
  <1>7. TypeCorrect' /\ InContext' /\ CachesFollowHistory' /\ HistoryOf(bound)' = h
    BY <1>1, <1>6, StepKeeps
  <1>8. Decoding'
    BY <1>4 DEF Decoding
  <1>9. EndsWithAnswer'
    BY <1>1, <1>4, <1>7 DEF EndsWithAnswer
  <1>10. OutputFollowsTarget'
    BY <1>4, <1>7, AnswersAreNext
  <1> QED BY <1>7, <1>8, <1>9, <1>10 DEF GlmInv

LEMMA EndKeeps ==
    ASSUME GlmInv, turn.on, Returns(turn), bound' = bound, shadow' = shadow
    PROVE  GlmInv'
  <1>1. turn \in Turns /\ turn.out \in History /\ Answers(turn.base, turn.out)
    BY DecodingIs
  <1>2. [turn EXCEPT !.out = turn.out] = turn
    BY <1>1 DEF Turns
  <1>3. Returns([turn EXCEPT !.out = turn.out])
    BY <1>2
  <1> QED BY <1>1, <1>3, ReturnsKeeps

LEMMA ChooseLastKeeps == ASSUME GlmInv, ChooseLast PROVE GlmInv'
  <1>1. /\ turn.on /\ Len(turn.out) + 1 = turn.cur /\ bound' = bound /\ shadow' = shadow
    BY DEF ChooseLast
  <1>2. PICK next \in (Target(turn.logit) \ turn.ban) \ Stops : Returns([turn EXCEPT !.out = Append(@, next)])
    BY DEF ChooseLast
  <1>3. /\ turn \in Turns /\ turn.base \in History /\ turn.out \in History /\ turn.cur \in Int
        /\ turn.all = turn.base \o turn.out /\ turn.all \in History /\ Len(turn.out) \in Nat
        /\ Target(turn.logit) = Support(turn.all) \cap Tokens /\ Answers(turn.base, turn.out)
    BY <1>1, DecodingIs
  <1>4. next \in Tokens /\ next \in Support(turn.all) \ Stops
    BY <1>2, <1>3
  <1> DEFINE out == turn.out \o <<next>>
  <1>5. /\ Append(turn.out, next) = out /\ out \in History /\ Len(out) = turn.cur /\ out # <<>>
    <2>1. Append(turn.out, next) = out
      BY <1>3, <1>4, AppendIsConcat DEF History
    <2>2. Append(turn.out, next) \in Seq(Tokens) /\ Len(Append(turn.out, next)) = turn.cur /\ Append(turn.out, next) # <<>>
      BY <1>1, <1>3, <1>4 DEF History
    <2> HIDE DEF out
    <2> QED BY <2>1, <2>2 DEF History
  <1>6. Front(out) = turn.out
    <2>1. turn.out \in Seq(Tokens) /\ Len(out) - 1 = Len(turn.out)
      BY <1>1, <1>3, <1>5 DEF History
    <2>2. <<next>> \in Seq(Tokens)
      BY <1>4
    <2>3. Prefix(out, Len(turn.out)) = Prefix(turn.out, Len(turn.out))
      <3>1. Len(turn.out) \in 0 .. Len(turn.out)
        BY <1>3
      <3>2. JoinIs(turn.out, <<next>>)
        BY <1>3, <2>2, Joined DEF History
      <3>3. \A k \in 0 .. Len(turn.out) : Prefix(turn.out \o <<next>>, k) = Prefix(turn.out, k)
        BY <3>2, Zenon DEF JoinIs
      <3> QED BY <3>1, <3>3
    <2>4. Prefix(turn.out, Len(turn.out)) = turn.out
      BY <2>1, PrefixWhole
    <2> HIDE DEF out
    <2> QED BY <2>1, <2>3, <2>4 DEF Front, Prefix
  <1>7. Answers(turn.base, out)
    <2>1. <<next>> \in History /\ Len(<<next>>) = 1 /\ <<next>>[1] = next
      BY <1>4 DEF History
    <2>2. turn.all \o Prefix(<<next>>, 0) = turn.all
      <3>0. 0 \in 0 .. Len(<<next>>) /\ <<next>> \in Seq(Tokens)
        BY <2>1 DEF History
      <3>1. Prefix(<<next>>, 0) \in Seq(Tokens) /\ Len(Prefix(<<next>>, 0)) = 0
        BY <3>0, PrefixIs
      <3>2. Prefix(<<next>>, 0) = <<>>
        BY <3>1
      <3>3. \A x \in Seq(Tokens) : x \o <<>> = x
        OBVIOUS
      <3> QED BY <1>3, <3>2, <3>3 DEF History
    <2>3. \A j \in 1 .. Len(<<next>>) : <<next>>[j] \in Support((turn.base \o turn.out) \o Prefix(<<next>>, j - 1)) \ Stops
      <3> SUFFICES ASSUME NEW j \in 1 .. 1
                   PROVE  <<next>>[j] \in Support((turn.base \o turn.out) \o Prefix(<<next>>, j - 1)) \ Stops
        BY <2>1
      <3>1. j = 1 /\ j - 1 = 0
        OBVIOUS
      <3>2. <<next>>[1] \in Support((turn.base \o turn.out) \o Prefix(<<next>>, 0)) \ Stops
        BY <1>3, <1>4, <2>1, <2>2
      <3> QED BY <3>1, <3>2
    <2> QED BY <1>3, <2>1, <2>3, AnswersGrow
  <1>8. Returns([turn EXCEPT !.out = out])
    <2>1. [turn EXCEPT !.out = Append(@, next)] = [turn EXCEPT !.out = out]
      <3>1. [turn EXCEPT !.out = Append(@, next)] = [turn EXCEPT !.out = Append(turn.out, next)]
        OBVIOUS
      <3> QED BY <1>5, <3>1
    <2> QED BY <1>2, <2>1
  <1> HIDE DEF out
  <1> QED BY <1>1, <1>5, <1>6, <1>7, <1>8, ReturnsKeeps

\* A pass of the loop: g drafts are verified, in rows and a copy that one
\* forward gives, and the first k come true.
Verified(next, d, g, m, rows, sh, k) ==
  LET batch == <<next>> \o Prefix(d, g)
      f == Forward(slot[bound].rows, shadow, batch, Len(turn.all), m)
  IN  /\ next \in (Target(turn.logit) \ turn.ban) \ Stops
      /\ g = Room(d, Len(turn.all), turn.cur - Len(turn.out) - 1)
      /\ m \in 0 .. Len(batch) /\ k \in 0 .. g
      /\ rows = f.rows /\ sh = f.shadow
      /\ Accepted(rows, Len(turn.all), d, k)

\* Then the history and the answer go on with the token and those drafts.
GoesOn(next, d, g, rows, sh, k) ==
  LET more == <<next>> \o Prefix(d, k)
      all == turn.all \o more
  IN  /\ g \in 0 .. Len(d) /\ k \in 0 .. Len(d) /\ more \in History /\ Len(more) = k + 1
      /\ SoundRows(all, rows) /\ SoundCopy(sh, rows)
      /\ rows[Len(turn.all) + 1 + k] = all
      /\ HiddenAfter(rows, Len(turn.all), k, g + 1) = all
      /\ Answers(turn.base, turn.out \o more)
      /\ Len(turn.out \o more) <= turn.cur

LEMMA RoundIs ==
    ASSUME GlmInv, turn.on, Len(turn.out) + 1 < turn.cur,
           NEW next, NEW d \in History, NEW g, NEW m, NEW rows, NEW sh, NEW k,
           Verified(next, d, g, m, rows, sh, k)
    PROVE  GoesOn(next, d, g, rows, sh, k)
  <1>. /\ next \in (Target(turn.logit) \ turn.ban) \ Stops
       /\ g = Room(d, Len(turn.all), turn.cur - Len(turn.out) - 1)
       /\ m \in 0 .. Len(<<next>> \o Prefix(d, g)) /\ k \in 0 .. g
       /\ rows = Forward(slot[bound].rows, shadow, <<next>> \o Prefix(d, g), Len(turn.all), m).rows
       /\ sh = Forward(slot[bound].rows, shadow, <<next>> \o Prefix(d, g), Len(turn.all), m).shadow
       /\ Accepted(rows, Len(turn.all), d, k)
    BY Zenon DEF Verified
  <1> DEFINE h == turn.all
             kv == Len(h)
             left == turn.cur - Len(turn.out) - 1
             one == <<next>>
             batch == one \o Prefix(d, g)
             more == one \o Prefix(d, k)
             all == h \o more
             every == h \o batch
             f == Forward(slot[bound].rows, shadow, batch, kv, m)
  <1>1. /\ turn \in Turns /\ turn.base \in History /\ turn.out \in History /\ turn.cur \in Int
        /\ h \in History /\ h # <<>> /\ h = turn.base \o turn.out
        /\ kv = Len(turn.base) + Len(turn.out)
        /\ Len(turn.base) \in Nat /\ Len(turn.out) \in Nat /\ kv \in Nat \ {0}
        /\ Target(turn.logit) = Support(h) \cap Tokens
        /\ Len(turn.base) + turn.cur + Draft + 2 <= Ctx
        /\ bound \in Slots
        /\ SoundRows(h, slot[bound].rows) /\ SoundCopy(shadow, slot[bound].rows)
        /\ Answers(turn.base, turn.out)
    BY DecodingIs
  <1>2. next \in Tokens /\ next \in Support(h) \ Stops
    BY <1>1
  <1>3. left \in Nat /\ kv + 2 < Ctx /\ kv \in Nat \ {0}
    <2> DEFINE b == Len(turn.base)
               o == Len(turn.out)
               c == turn.cur
    <2>1. b \in Nat /\ o \in Nat /\ c \in Int /\ kv = b + o /\ kv \in Nat \ {0} /\ b + c + Draft + 2 <= Ctx
      BY <1>1
    <2>2. o + 1 < c
      OBVIOUS
    <2> HIDE DEF b, o, c, kv
    <2>3. c - o - 1 \in Nat /\ kv + 2 < Ctx
      BY <2>1, <2>2, Sizes
    <2> QED BY <2>1, <2>3 DEF o, c
  <1>4. g \in 0 .. Len(d) /\ g <= left /\ kv + 1 + g <= Ctx /\ Len(d) \in Nat /\ g \in Nat /\ k \in Nat /\ k <= g
    <2>1. Len(d) \in Nat
      BY DEF History
    <2> HIDE DEF left, kv
    <2>2. g \in 0 .. Len(d) /\ g <= left /\ kv + 1 + g <= Ctx
      BY <1>3, RoomIs DEF left, kv
    <2>3. g \in Nat /\ k \in Nat /\ k <= g
      BY <2>1, <2>2
    <2> QED BY <2>1, <2>2, <2>3
  <1>5. /\ Prefix(d, g) \in History /\ Len(Prefix(d, g)) = g /\ \A i \in 1 .. g : Prefix(d, g)[i] = d[i]
        /\ Prefix(d, k) \in History /\ Len(Prefix(d, k)) = k /\ \A i \in 1 .. k : Prefix(d, k)[i] = d[i]
        /\ \A j \in 0 .. k : Prefix(Prefix(d, g), j) = Prefix(d, j) /\ Prefix(Prefix(d, k), j) = Prefix(d, j)
    <2>1. k \in 0 .. Len(d) /\ g \in 0 .. Len(d) /\ d \in Seq(Tokens)
      BY <1>4 DEF History
    <2>2. \A j \in 0 .. k : j \in 0 .. g
      BY <1>4
    <2> QED BY <2>1, <2>2, PrefixIs, PrefixOfPrefix DEF History
  <1>6. one \in Seq(Tokens) /\ Len(one) = 1 /\ one[1] = next
    BY <1>2
  <1>0. /\ kv \in Nat \ {0} /\ g \in Nat /\ k \in Nat /\ k <= g /\ kv + 1 + g <= Ctx
        /\ h \in Seq(Tokens) /\ Len(h) = kv
    BY <1>1, <1>3, <1>4 DEF History
  <1> HIDE DEF one, kv
  <1>7. /\ batch \in History /\ Len(batch) = 1 + g /\ batch[1] = next
        /\ more \in History /\ Len(more) = 1 + k /\ more[1] = next
        /\ \A i \in 1 .. k : more[1 + i] = d[i]
        /\ \A j \in 0 .. k : Prefix(batch, 1 + j) = one \o Prefix(d, j) /\ Prefix(more, 1 + j) = one \o Prefix(d, j)
    <2>0. JoinIs(one, Prefix(d, g)) /\ JoinIs(one, Prefix(d, k))
      BY <1>5, <1>6, Joined DEF History
    <2>1. /\ batch \in History /\ Len(batch) = 1 + g /\ \A i \in 1 .. 1 : batch[i] = one[i]
          /\ \A j \in 0 .. g : Prefix(batch, 1 + j) = one \o Prefix(Prefix(d, g), j)
      BY <1>5, <1>6, <2>0 DEF JoinIs
    <2>2. /\ more \in History /\ Len(more) = 1 + k /\ \A i \in 1 .. 1 : more[i] = one[i]
          /\ \A i \in 1 .. k : more[1 + i] = Prefix(d, k)[i]
          /\ \A j \in 0 .. k : Prefix(more, 1 + j) = one \o Prefix(Prefix(d, k), j)
      BY <1>5, <1>6, <2>0 DEF JoinIs
    <2>3. 1 \in 1 .. 1 /\ \A j \in 0 .. k : j \in 0 .. g
      BY <1>4
    <2> HIDE DEF batch, more
    <2> QED BY <1>0, <1>5, <1>6, <2>1, <2>2, <2>3 DEF History
  <1> HIDE DEF batch, more
  <1>8. /\ every \in History /\ Len(every) = kv + (1 + g) /\ all \in History /\ Len(all) = kv + (1 + k)
        /\ \A j \in 0 .. 1 + g : Prefix(every, kv + j) = h \o Prefix(batch, j)
    <2>1. JoinIs(h, batch) /\ JoinIs(h, more)
      BY <1>0, <1>7, Joined DEF History
    <2> QED BY <1>0, <1>7, <2>1 DEF JoinIs
  <1>9. rows = f.rows /\ sh = f.shadow /\ m \in Nat
    <2>1. m \in 0 .. Len(batch)
      BY DEF batch, one
    <2>2. m \in Nat
      BY <1>4, <1>7, <2>1
    <2> QED BY <2>2 DEF batch, one, kv
  <1>10. Follows(f, every, kv + (1 + g), slot[bound].rows)
    <2>1. kv + Len(batch) <= Ctx
      BY <1>0, <1>7, Sizes
    <2>2. /\ slot[bound].rows \in Rows /\ \A i \in 1 .. Len(h) : slot[bound].rows[i] = Prefix(h, i)
          /\ shadow \in Seq(History) /\ \A i \in 1 .. Len(shadow) : shadow[i] = slot[bound].rows[i]
      BY <1>1 DEF SoundRows, SoundCopy
    <2>3. Follows(f, every, kv + Len(batch), slot[bound].rows)
      <3>1. h \in History /\ Len(h) = kv
        BY <1>0 DEF History
      <3> QED BY <1>7, <1>9, <2>1, <2>2, <3>1, ForwardFollows
    <2> QED BY <1>7, <2>3
  <1> HIDE DEF f, every, h, all
  <1>11. SoundRows(every, rows) /\ SoundCopy(sh, rows)
    <2>1. Len(every) <= Ctx
      BY <1>0, <1>8, Sizes
    <2>2. Follows(f, every, Len(every), slot[bound].rows) /\ bound \in Slots
      BY <1>1, <1>8, <1>10
    <2>3. SoundRows(every, f.rows) /\ SoundCopy(f.shadow, f.rows)
      BY <1>8, <2>1, <2>2, FollowedIs
    <2> QED BY <1>9, <2>3
  <1>12. all = Prefix(every, kv + (1 + k))
    <2>1. 1 + k \in 0 .. 1 + g
      BY <1>4
    <2>2. Prefix(batch, 1 + k) = one \o Prefix(d, k)
      BY <1>4, <1>7
    <2> QED BY <1>8, <2>1, <2>2 DEF all, more
  <1>13. kv + (1 + k) \in 0 .. Len(every) /\ kv + (1 + k) \in 1 .. Len(every) /\ kv + (1 + k) <= Ctx
    BY <1>0, <1>8, Sizes
  <1>14. SoundRows(all, rows)
    <2>1. ASSUME NEW i \in 1 .. Len(all) PROVE rows[i] = Prefix(all, i)
      <3>1. i \in 0 .. kv + (1 + k) /\ i \in 1 .. Len(every)
        BY <1>0, <1>8
      <3>2. Prefix(all, i) = Prefix(every, i)
        BY <1>8, <1>12, <1>13, <3>1, PrefixOfPrefix DEF History
      <3> QED BY <1>11, <3>1, <3>2 DEF SoundRows
    <2> QED BY <1>8, <1>11, <1>13, <2>1 DEF SoundRows
  <1>15. rows[kv + (1 + k)] = all
    BY <1>11, <1>12, <1>13 DEF SoundRows
  <1>16. HiddenAfter(rows, kv, k, g + 1) = all
    <2>1. (k < (g + 1) - 1 => kv + k + 1 = kv + (1 + k)) /\ (~ (k < (g + 1) - 1) => kv + (g + 1) = kv + (1 + k))
      <3>1. \A n \in Nat : k < (g + 1) - 1 => n + k + 1 = n + (1 + k)
        BY <1>0
      <3>2. \A n \in Nat : ~ (k < (g + 1) - 1) => n + (g + 1) = n + (1 + k)
        <4>1. ~ (k < (g + 1) - 1) => g = k
          BY <1>0
        <4> QED BY <1>0, <4>1
      <3> QED BY <1>0, <3>1, <3>2
    <2> QED BY <1>15, <2>1 DEF HiddenAfter
  <1>17. ASSUME NEW j \in 1 .. Len(more) PROVE more[j] \in Support(h \o Prefix(more, j - 1)) \ Stops
    <2>1. CASE j = 1
      <3>1. j - 1 = 0 /\ 0 \in 0 .. Len(more)
        BY <1>4, <1>7, <2>1
      <3>2. Prefix(more, 0) \in Seq(Tokens) /\ Len(Prefix(more, 0)) = 0
        BY <1>7, <3>1, PrefixIs DEF History
      <3>3. Prefix(more, 0) = <<>> /\ h \in Seq(Tokens)
        BY <1>1, <3>2 DEF History
      <3>4. h \o Prefix(more, j - 1) = h
        BY <3>1, <3>3
      <3> QED BY <1>2, <1>7, <2>1, <3>4
    <2>2. CASE j # 1
      <3> DEFINE i == j - 1
      <3>1. i \in 1 .. k /\ 1 + i = j /\ i - 1 \in 0 .. k /\ 1 + (i - 1) = i /\ i \in 0 .. 1 + g /\ i \in Nat
        BY <1>4, <1>7, <2>2
      <3> HIDE DEF i
      <3>2. more[j] = d[i]
        BY <1>7, <3>1
      <3>3. d[i] \in Target(rows[kv + i]) \ Stops
        BY <3>1 DEF Accepted, h, kv
      <3>4. rows[kv + i] = h \o Prefix(batch, i)
        <4>1. kv + i \in 1 .. Len(every)
          BY <1>0, <1>8, <3>1
        <4> QED BY <1>8, <1>11, <3>1, <4>1 DEF SoundRows
      <3>5. Prefix(batch, i) = Prefix(more, i)
        BY <1>7, <3>1
      <3>6. h \o Prefix(more, i) # <<>>
        <4>1. i \in 0 .. Len(more) /\ i # 0
          <5>1. Len(more) = 1 + k /\ k \in Nat
            BY <1>0, <1>7
          <5> QED BY <3>1, <5>1
        <4>2. Prefix(more, i) \in Seq(Tokens) /\ Len(Prefix(more, i)) = i
          BY <1>7, <4>1, PrefixIs DEF History
        <4>3. h \in Seq(Tokens) /\ Len(h \o Prefix(more, i)) = kv + i
          <5>1. JoinIs(h, Prefix(more, i))
            BY <1>0, <4>2, Joined DEF History
          <5> QED BY <1>0, <4>2, <5>1 DEF JoinIs
        <4>4. kv + i # 0 /\ Len(<<>>) = 0
          BY <1>0, <3>1
        <4> QED BY <4>3, <4>4, Zenon
      <3>7. Target(h \o Prefix(more, i)) = Support(h \o Prefix(more, i)) \cap Tokens
        BY <3>6 DEF Target, Unwritten
      <3> QED BY <3>2, <3>3, <3>4, <3>5, <3>7 DEF i
    <2> QED BY <2>1, <2>2
  <1>18. Answers(turn.base, turn.out \o more)
    <2>1. \A j \in 1 .. Len(more) : more[j] \in Support((turn.base \o turn.out) \o Prefix(more, j - 1)) \ Stops
      BY <1>1, <1>17
    <2> QED BY <1>1, <1>7, <2>1, AnswersGrow
  <1>19. Len(turn.out \o more) <= turn.cur
    <2>1. Len(turn.out \o more) = Len(turn.out) + (1 + k)
      <3>1. JoinIs(turn.out, more)
        BY <1>1, <1>7, Joined
      <3> QED BY <1>7, <3>1 DEF JoinIs
    <2>2. Len(turn.out) \in Nat /\ turn.cur \in Int /\ g <= turn.cur - Len(turn.out) - 1
      BY <1>1, <1>4
    <2>3. \A o \in Nat, c \in Int : g <= c - o - 1 => o + (1 + k) <= c
      BY <1>0
    <2> QED BY <2>1, <2>2, <2>3, Zenon
  <1>20. kv + (1 + k) = kv + 1 + k /\ 1 + k = k + 1
    BY <1>0
  <1>21. k \in 0 .. Len(d) /\ g \in 0 .. Len(d)
    BY <1>0, <1>4
  <1> QED BY <1>7, <1>11, <1>14, <1>15, <1>16, <1>18, <1>19, <1>20, <1>21 DEF all, more, h, one, kv, GoesOn

LEMMA RoundKeeps == ASSUME GlmInv, Round PROVE GlmInv'
  <1> DEFINE h == turn.all
             kv == Len(h)
             left == turn.cur - Len(turn.out) - 1
             rows == slot[bound].rows
  <1>1. turn.on /\ Len(turn.out) + 1 < turn.cur /\ bound' = bound
    BY DEF Round
  <1>2. PICK next \in (Target(turn.logit) \ turn.ban) \ Stops :
          \E d \in Drafts(Feed(walker, next), Append(h, next)) :
            \E m \in 0 .. Len(<<next>> \o Prefix(d, Room(d, kv, left))) :
              LET g == Room(d, kv, left)
                  f == Forward(rows, shadow, <<next>> \o Prefix(d, g), kv, m)
              IN  \E k \in 0 .. g :
                    /\ Accepted(f.rows, kv, d, k)
                    /\ \/ Continues(turn, f.rows, kv, next, d, g, k)
                       \/ StopsAt(turn, f.rows, kv, next, d, g, k)
                    /\ shadow' = f.shadow
                    /\ hidden' = HiddenAfter(f.rows, kv, k, g + 1)
                    /\ walker' = FeedAll(Feed(walker, next), Prefix(d, k))
    BY Zenon DEF Round
  <1>3. /\ turn \in Turns /\ turn.base \in History /\ turn.out \in History /\ turn.cur \in Int
        /\ h \in History /\ h = turn.base \o turn.out /\ turn.base # <<>>
        /\ Target(turn.logit) = Support(h) \cap Tokens
        /\ Len(turn.base) + turn.cur + Draft + 2 <= Ctx
        /\ bound \in Slots /\ slot \in [Slots -> [hist : History, rows : Rows]]
    BY <1>1, DecodingIs DEF GlmInv, Decoding
  <1>4. next \in Tokens /\ Append(h, next) \in History
    BY <1>2, <1>3 DEF History
  <1>5. PICK d \in Drafts(Feed(walker, next), Append(h, next)) :
            \E m \in 0 .. Len(<<next>> \o Prefix(d, Room(d, kv, left))) :
              LET g == Room(d, kv, left)
                  f == Forward(rows, shadow, <<next>> \o Prefix(d, g), kv, m)
              IN  \E k \in 0 .. g :
                    /\ Accepted(f.rows, kv, d, k)
                    /\ \/ Continues(turn, f.rows, kv, next, d, g, k)
                       \/ StopsAt(turn, f.rows, kv, next, d, g, k)
                    /\ shadow' = f.shadow
                    /\ hidden' = HiddenAfter(f.rows, kv, k, g + 1)
                    /\ walker' = FeedAll(Feed(walker, next), Prefix(d, k))
    BY <1>2, Zenon
  <1>6. d \in History
    BY <1>4, DraftIs
  <1> DEFINE g == Room(d, kv, left)
  <1>7. PICK m \in 0 .. Len(<<next>> \o Prefix(d, g)) :
              LET f == Forward(rows, shadow, <<next>> \o Prefix(d, g), kv, m)
              IN  \E k \in 0 .. g :
                    /\ Accepted(f.rows, kv, d, k)
                    /\ \/ Continues(turn, f.rows, kv, next, d, g, k)
                       \/ StopsAt(turn, f.rows, kv, next, d, g, k)
                    /\ shadow' = f.shadow
                    /\ hidden' = HiddenAfter(f.rows, kv, k, g + 1)
                    /\ walker' = FeedAll(Feed(walker, next), Prefix(d, k))
    BY <1>5, Zenon
  <1> DEFINE f == Forward(rows, shadow, <<next>> \o Prefix(d, g), kv, m)
             new == f.rows
  <1>8. PICK k \in 0 .. g :
                    /\ Accepted(new, kv, d, k)
                    /\ \/ Continues(turn, new, kv, next, d, g, k)
                       \/ StopsAt(turn, new, kv, next, d, g, k)
                    /\ shadow' = f.shadow
                    /\ hidden' = HiddenAfter(new, kv, k, g + 1)
    BY <1>7, Zenon
  <1> DEFINE more == <<next>> \o Prefix(d, k)
             all == h \o more
             out == turn.out \o more
  <1>9. /\ g \in 0 .. Len(d) /\ k \in 0 .. Len(d) /\ more \in History /\ Len(more) = k + 1
        /\ SoundRows(all, new) /\ SoundCopy(f.shadow, new)
        /\ new[kv + 1 + k] = all
        /\ HiddenAfter(new, kv, k, g + 1) = all
        /\ Answers(turn.base, out)
        /\ Len(out) <= turn.cur
    <2>1. Verified(next, d, g, m, new, f.shadow, k)
      <3> HIDE DEF h, kv, left, rows
      <3> QED BY <1>8, Zenon DEF Verified, h, kv, left, rows
    <2> HIDE DEF f, g, new
    <2>2. GoesOn(next, d, g, new, f.shadow, k)
      BY <1>1, <1>6, <2>1, RoundIs
    <2> QED BY <2>2, Zenon DEF GoesOn
  <1>10. all \in History /\ out \in History /\ all = turn.base \o out
    <2>1. JoinIs(h, more) /\ JoinIs(turn.out, more)
      <3> HIDE DEF more
      <3> QED BY <1>3, <1>9, Joined
    <2>2. (turn.base \o turn.out) \o more = turn.base \o (turn.out \o more)
      <3> HIDE DEF more
      <3> QED BY <1>3, <1>9, Associative
    <2>3. all \in History /\ out \in History
      BY <2>1 DEF JoinIs
    <2> QED BY <1>3, <2>2, <2>3
  <1>11. /\ (h \o <<next>>) \o Prefix(d, k) = all
         /\ (turn.out \o <<next>>) \o Prefix(d, k) = out
    <2>1. Prefix(d, k) \in History
      BY <1>6, <1>9, PrefixIs DEF History
    <2>2. <<next>> \in History
      BY <1>4 DEF History
    <2> DEFINE one == <<next>>
               p == Prefix(d, k)
    <2>4. one \in History /\ p \in History /\ h \in History /\ turn.out \in History
      BY <1>3, <2>1, <2>2
    <2> HIDE DEF one, p, h
    <2>3. (h \o one) \o p = h \o (one \o p)
      BY <2>4, Associative
    <2>5. (turn.out \o one) \o p = turn.out \o (one \o p)
      BY <2>4, Associative
    <2> QED BY <2>3, <2>5 DEF one, p, all, out, more
  <1>12. SoundCopy(shadow', new) /\ hidden' = all
    BY <1>8, <1>9
  <1>13. slot[bound] \in [hist : History, rows : Rows]
    BY <1>3
  <1> HIDE DEF new, f, more, all, out
  <1>14. CASE Continues(turn, new, kv, next, d, g, k)
    <2>1. slot' = [slot EXCEPT ![bound] = [hist |-> slot[bound].hist, rows |-> new]]
      <3>1. slot' = [slot EXCEPT ![bound].rows = new]
        BY <1>14 DEF Continues
      <3>2. [slot[bound] EXCEPT !.rows = new] = [hist |-> slot[bound].hist, rows |-> new]
        BY <1>13
      <3>3. slot' = [slot EXCEPT ![bound] = [slot[bound] EXCEPT !.rows = new]]
        BY <3>1
      <3> QED BY <3>2, <3>3
    <2> DEFINE ban == IF k < g THEN {d[k + 1]} ELSE {}
    <2>2. turn' = [turn EXCEPT !.all = all, !.out = out, !.logit = all, !.ban = ban]
      <3>1. turn' = [turn EXCEPT !.all = @ \o <<next>> \o Prefix(d, k), !.out = @ \o <<next>> \o Prefix(d, k),
                                 !.logit = new[kv + 1 + k], !.ban = ban]
        BY <1>14 DEF Continues
      <3>2. turn' = [turn EXCEPT !.all = (h \o <<next>>) \o Prefix(d, k), !.out = (turn.out \o <<next>>) \o Prefix(d, k),
                                 !.logit = new[kv + 1 + k], !.ban = ban]
        BY <3>1
      <3>3. new[kv + 1 + k] = all
        BY <1>9
      <3> HIDE DEF h, kv, ban
      <3> QED BY <1>11, <3>2, <3>3
    <2>3. ban \subseteq Tokens
      <3>1. CASE k < g
        <4>1. k + 1 \in 1 .. Len(d)
          <5>1. Len(d) \in Nat /\ g \in 0 .. Len(d) /\ k \in 0 .. Len(d)
            BY <1>6, <1>9 DEF History
          <5> HIDE DEF g
          <5> QED BY <3>1, <5>1
        <4>2. d[k + 1] \in Tokens
          BY <1>6, <4>1 DEF History
        <4> QED BY <4>2
      <3> QED BY <3>1
    <2> HIDE DEF ban
    <2>4. turn' \in Turns /\ turn'.on /\ turn'.all = all /\ turn'.out = out /\ turn'.base = turn.base
          /\ turn'.logit = all /\ turn'.cur = turn.cur
      BY <1>1, <1>3, <1>10, <2>2, <2>3 DEF Turns
    <2>5. StepTo(bound, slot[bound].hist, all, new)
      BY <1>1, <1>12, <1>13, <2>1, <2>4 DEF StepTo
    <2>6. SoundRows(all, new) /\ SoundCopy(shadow', new)
      BY <1>9, <1>12
    <2>7. TypeCorrect' /\ InContext' /\ CachesFollowHistory' /\ HistoryOf(bound)' = all
      BY <1>3, <2>5, <2>6, StepKeeps
    <2>8. Decoding'
      BY <1>3, <1>9, <1>10, <2>4 DEF Decoding
    <2>9. EndsWithAnswer'
      BY <1>10, <2>4, <2>7 DEF EndsWithAnswer
    <2>10. OutputFollowsTarget'
      BY <1>9, <2>4, <2>7, AnswersAreNext
    <2> QED BY <2>7, <2>8, <2>9, <2>10 DEF GlmInv
  <1>15. CASE StopsAt(turn, new, kv, next, d, g, k)
    <2>1. /\ slot' = [slot EXCEPT ![bound] = [hist |-> all, rows |-> new]]
          /\ turn' = Over([turn EXCEPT !.all = all, !.out = out])
      <3>1. /\ slot' = [slot EXCEPT ![bound] = [hist |-> (h \o <<next>>) \o Prefix(d, k), rows |-> new]]
            /\ turn' = Over([turn EXCEPT !.all = (h \o <<next>>) \o Prefix(d, k), !.out = @ \o <<next>> \o Prefix(d, k)])
        BY <1>15 DEF StopsAt
      <3>2. turn' = Over([turn EXCEPT !.all = (h \o <<next>>) \o Prefix(d, k), !.out = (turn.out \o <<next>>) \o Prefix(d, k)])
        BY <3>1
      <3> HIDE DEF h
      <3> QED BY <1>11, <3>1, <3>2
    <2>2. <<>> \in History
      BY DEF History
    <2>3. turn' \in Turns /\ ~turn'.on /\ turn'.out = out /\ turn'.base = turn.base
      BY <1>3, <1>10, <2>1, <2>2 DEF Turns, Over, Unwritten
    <2>4. StepTo(bound, all, all, new)
      BY <1>1, <1>10, <2>1, <2>3 DEF StepTo
    <2>5. SoundRows(all, new) /\ SoundCopy(shadow', new)
      BY <1>9, <1>12
    <2>6. TypeCorrect' /\ InContext' /\ CachesFollowHistory' /\ HistoryOf(bound)' = all
      BY <1>3, <2>4, <2>5, StepKeeps
    <2>7. Decoding'
      BY <2>3 DEF Decoding
    <2>8. EndsWithAnswer'
      BY <1>10, <2>3, <2>6 DEF EndsWithAnswer
    <2>9. OutputFollowsTarget'
      BY <1>9, <2>3, <2>6, AnswersAreNext
    <2> QED BY <2>6, <2>7, <2>8, <2>9 DEF GlmInv
  <1> QED BY <1>8, <1>14, <1>15 DEF new, f
----------------------------------------------------------------------------
(* The theorems.                                                           *)

LEMMA ServeKeeps == ASSUME GlmInv, Serve PROVE GlmInv'
  <1>1. CASE \E s \in Slots, tokens \in Prompts, asked \in Asks :
               Prompt(s, tokens, IF asked > NGen THEN NGen ELSE asked)
    <2>1. PICK s \in Slots, tokens \in Prompts, asked \in Asks :
             Prompt(s, tokens, IF asked > NGen THEN NGen ELSE asked)
      BY <1>1
    <2>2. (IF asked > NGen THEN NGen ELSE asked) \in Nat
      BY GlmAssumption, Sizes
    <2> QED BY <2>1, <2>2, PromptKeeps
  <1>2. CASE \E tokens \in Prompts : Line(tokens)
    BY <1>2, LineKeeps
  <1>3. CASE More
    BY <1>3, MoreKeeps
  <1>4. CASE Reset
    BY <1>4, ResetKeeps
  <1> QED BY <1>1, <1>2, <1>3, <1>4 DEF Serve

LEMMA NextKeeps == ASSUME GlmInv, [Next]_vars PROVE GlmInv'
  <1>1. CASE Round
    BY <1>1, RoundKeeps
  <1>2. CASE ChooseLast
    BY <1>2, ChooseLastKeeps
  <1>3. CASE ChooseStop
    BY <1>3, EndKeeps DEF ChooseStop
  <1>4. CASE EndTurn
    BY <1>4, EndKeeps DEF EndTurn
  <1>5. CASE Serve
    BY <1>5, ServeKeeps
  <1>6. CASE GrammarGivesUp \/ UNCHANGED vars
    <2>1. UNCHANGED <<slot, bound, shadow, hidden, turn>>
      BY <1>6 DEF GrammarGivesUp, vars
    <2>2. TypeCorrect' /\ Decoding' /\ OutputFollowsTarget'
      BY <2>1 DEF GlmInv, TypeCorrect, Decoding, OutputFollowsTarget
    <2>3. InContext' /\ EndsWithAnswer'
      BY <2>1 DEF GlmInv, InContext, EndsWithAnswer, HistoryOf
    <2>4. CachesFollowHistory'
      BY <2>1 DEF GlmInv, CachesFollowHistory, HistoryOf
    <2> QED BY <2>2, <2>3, <2>4 DEF GlmInv
  <1> QED BY <1>1, <1>2, <1>3, <1>4, <1>5, <1>6 DEF Next

\* The invariant all the theorems below come from.
THEOREM DecodesInvariant == Spec => []GlmInv
  <1>1. Init => GlmInv
    BY InitInv
  <1>2. GlmInv /\ [Next]_vars => GlmInv'
    BY NextKeeps
  <1> QED BY <1>1, <1>2, PTL DEF Spec

\* Speculation is lossless for every target, grammar, walker, draft length
\* and context: whatever is drafted and rejected, and wherever a forward
\* falls off the device, every token of an answer is one the target may
\* choose after the history and the tokens before it (spec_decode).
THEOREM OutputAlwaysTheTargets == Spec => []OutputFollowsTarget
  <1>1. GlmInv => OutputFollowsTarget
    BY DEF GlmInv
  <1> QED BY <1>1, DecodesInvariant, PTL

\* The KV rows of every slot, the device's copy of the bound one's and the
\* hidden state are those of the history, through rejected drafts, shared
\* prefixes, cuts, RESET and MORE, and no row is written past the context.
THEOREM CachesAlwaysFollow == Spec => []CachesFollowHistory
  <1>1. GlmInv => CachesFollowHistory
    BY DEF GlmInv
  <1> QED BY <1>1, DecodesInvariant, PTL

\* What follows the first of two histories joined.
LEMMA AfterBase ==
    ASSUME NEW a \in History, NEW b \in History
    PROVE  SubSeq(a \o b, Len(a) + 1, Len(a \o b)) = b
  <1> DEFINE u == a \o b
             m == Len(a)
             n == Len(b)
             v == SubSeq(u, m + 1, m + n)
  <1>1. /\ u \in Seq(Tokens) /\ b \in Seq(Tokens) /\ Len(u) = m + n /\ m \in Nat /\ n \in Nat
        /\ \A i \in 1 .. n : u[m + i] = b[i]
    <2>1. JoinIs(a, b)
      BY Joined
    <2> QED BY <2>1 DEF JoinIs, History
  <1> HIDE DEF u, m, n
  <1>2. \A i \in m + 1 .. m + n : u[i] \in Tokens
    BY <1>1
  <1>3. /\ v \in Seq(Tokens) /\ Len(v) = IF m + 1 <= m + n THEN (m + n) - (m + 1) + 1 ELSE 0
        /\ \A i \in 1 .. (m + n) - (m + 1) + 1 : v[i] = u[m + 1 + i - 1]
    <2>1. m + 1 \in Nat /\ m + n \in Nat
      BY <1>1
    <2>2. u \in Seq(Tokens)
      BY <1>1
    <2> QED BY <1>2, <2>1, <2>2, SubSeqProperties, Z3
  <1> HIDE DEF v
  <1>4. Len(v) = n
    BY <1>1, <1>3
  <1>5. \A i \in 1 .. n : v[i] = b[i]
    <2> SUFFICES ASSUME NEW i \in 1 .. n PROVE v[i] = b[i]
      OBVIOUS
    <2>1. i \in 1 .. (m + n) - (m + 1) + 1 /\ m + 1 + i - 1 = m + i
      BY <1>1
    <2> QED BY <1>1, <1>3, <2>1
  <1>6. v = b
    BY <1>1, <1>3, <1>4, <1>5, Same DEF n
  <1> QED BY <1>1, <1>6 DEF v, u, m

\* What a client has been shown of an answer is what the next turn goes on
\* from, all but the last token of an answer that met its cap.
THEOREM AnswersAreKept == Spec => []AnswerIsKept
  <1>1. ASSUME GlmInv PROVE AnswerIsKept
    <2> DEFINE H == HistoryOf(bound)
               base == turn.base
    <2>1. TypeCorrect /\ EndsWithAnswer
      BY <1>1 DEF GlmInv
    <2>2. base \in History /\ turn.out \in History /\ Len(base) \in Nat
      BY <2>1, HistoriesAre
    <2>3. \A x \in History : H = base \o x =>
            Prefix(H, Len(base)) = base /\ SubSeq(H, Len(base) + 1, Len(H)) = x
      <3> SUFFICES ASSUME NEW x \in History, H = base \o x
                   PROVE  Prefix(H, Len(base)) = base /\ SubSeq(H, Len(base) + 1, Len(H)) = x
        OBVIOUS
      <3> HIDE DEF H, base
      <3>1. JoinIs(base, x)
        BY <2>2, Joined
      <3>2. Len(base) \in 0 .. Len(base) /\ Prefix(base, Len(base)) = base
        BY <2>2, PrefixWhole DEF History
      <3>3. Prefix(base \o x, Len(base)) = base
        BY <3>1, <3>2 DEF JoinIs
      <3> QED BY <2>2, <3>3, AfterBase
    <2>4. CASE H = base \o turn.out
      BY <2>2, <2>3, <2>4 DEF AnswerIsKept
    <2>5. CASE /\ ~turn.on /\ turn.out # <<>> /\ Len(turn.out) = turn.cur
               /\ H = base \o Front(turn.out)
      <3>1. Front(turn.out) \in History
        <4>1. Len(turn.out) - 1 \in 0 .. Len(turn.out) /\ turn.out \in Seq(Tokens)
          BY <2>2, <2>5 DEF History
        <4>2. Front(turn.out) = Prefix(turn.out, Len(turn.out) - 1)
          BY DEF Front, Prefix
        <4> QED BY <4>1, <4>2, PrefixIs DEF History
      <3>2. Prefix(H, Len(base)) = base /\ SubSeq(H, Len(base) + 1, Len(H)) = Front(turn.out)
        BY <2>3, <2>5, <3>1
      <3> QED BY <2>5, <3>2 DEF AnswerIsKept
    <2> QED BY <2>1, <2>4, <2>5 DEF EndsWithAnswer
  <1> QED BY <1>1, DecodesInvariant, PTL
=============================================================================

---------------------------- MODULE MCTextProofs ----------------------------
(***************************************************************************)
(* For any bounds.  Enter does one thing in an editor's text, and every    *)
(* part of MCEditor keeps its types.                                       *)
(*                                                                         *)
(* EditorText is about the words of a text in their order: a fold          *)
(* (FlattenSeq) of the words of its lines, of which Settled keeps the      *)
(* plain ones (filtered).  Both are recursive functions, so what they make *)
(* of a sequence with one item more, and of two sequences in one, is       *)
(* proved by induction over their length: Inducted says of a set of        *)
(* numbers what the library says of a predicate, from the well-founded     *)
(* order of the numbers (Least).  With that, a line broken at the cursor   *)
(* has the words it had (CutInTwo, Breaks), and one with the word before   *)
(* the cursor taken out or another completed in its place has the plain    *)
(* words it had (KeptWithout, Completes).  TextInv, the types with a word  *)
(* before the cursor wherever one is joined to it, is inductive.           *)
(***************************************************************************)
EXTENDS MCEditorProofs, WellFoundedInduction

(***************************************************************************)
(* Induction, and what a sequence keeps                                    *)
(***************************************************************************)

\* A set of numbers has a least one.
LEMMA Least ==
    ASSUME NEW T, T \subseteq Nat, T # {}
    PROVE  \E n \in T : \A m \in T : n <= m
<1> DEFINE R == OpToRel(<, Nat)
<1>1. PICK n \in T : \A m \in T : ~(<<m, n>> \in R)
  <2>1. IsWellFoundedOn(R, Nat)
    BY NatLessThanWellFounded
  <2> HIDE DEF R
  <2> QED BY <2>1, WFMin
<1>2. \A m \in T : m < n => <<m, n>> \in R
  BY DEF OpToRel
<1> HIDE DEF R
<1>3. \A m \in T : ~(m < n)
  BY <1>1, <1>2, Zenon
<1>4. \A m \in T : n <= m
  <2> TAKE m \in T
  <2>1. m \in Nat /\ n \in Nat /\ ~(m < n)
    BY <1>3
  <2> QED BY <2>1
<1> QED BY <1>4

\* Induction, told of sets.
LEMMA Inducted ==
    ASSUME NEW S, 0 \in S, \A n \in Nat : n \in S => n + 1 \in S
    PROVE  Nat \subseteq S
<1> SUFFICES ASSUME Nat \ S # {} PROVE FALSE
  OBVIOUS
<1>1. PICK n \in Nat \ S : \A m \in Nat \ S : n <= m
  BY Least
<1>2. n # 0 /\ n - 1 \in Nat /\ n - 1 \in S
  BY <1>1
<1>3. (n - 1) + 1 = n
  BY <1>1
<1> QED BY <1>1, <1>2, <1>3

\* filtered, its recursion written out.
KeptBody(f, i, s, T) ==
    IF i = 0 THEN <<>> ELSE IF s[i] \in T THEN Append(f[i - 1], s[i]) ELSE f[i - 1]
Keeper(s, T) == CHOOSE f : f = [i \in 0..Len(s) |-> KeptBody(f, i, s, T)]

\* It is that recursion.
LEMMA KeeperIs == \A s, T : Text!filtered(s, T) = Keeper(s, T)[Len(s)]
BY Zenon DEF Text!filtered, Keeper, KeptBody

\* What is kept up to an item depends on what was before it.
LEMMA KeptSame ==
    ASSUME NEW f, NEW g, NEW i, NEW s, NEW T, i = 0 \/ f[i - 1] = g[i - 1]
    PROVE  KeptBody(f, i, s, T) = KeptBody(g, i, s, T)
BY Zenon DEF KeptBody

\* Up to the item k there is a function that does what it says, for every k, so
\* the recursion does.
KeptSolves(g, k, s, T) == \A i \in 0..Len(s) : i <= k => g[i] = KeptBody(g, i, s, T)
LEMMA KeeperSolves ==
    ASSUME NEW e \in Nat, NEW s, e = Len(s), NEW T
    PROVE  \A i \in 0..e : Keeper(s, T)[i] = KeptBody(Keeper(s, T), i, s, T)
<1> DEFINE Ks == {k \in Nat : \E g : DOMAIN g = 0..e /\ KeptSolves(g, k, s, T)}
<1>1. 0 \in Ks
  <2>1. PICK g : g = [i \in 0..e |-> <<>>]
    OBVIOUS
  <2>2. DOMAIN g = 0..e
    BY <2>1
  <2>3. ASSUME NEW i \in 0..Len(s), i <= 0 PROVE g[i] = KeptBody(g, i, s, T)
    <3>1. i = 0
      BY <2>3
    <3>2. g[i] = <<>>
      BY <2>1
    <3> QED BY <3>1, <3>2, Zenon DEF KeptBody
  <2>4. KeptSolves(g, 0, s, T)
    BY <2>3, Zenon DEF KeptSolves
  <2> QED BY <2>2, <2>4
<1>2. ASSUME NEW k \in Nat, k \in Ks PROVE k + 1 \in Ks
  <2>1. PICK g : DOMAIN g = 0..e /\ KeptSolves(g, k, s, T)
    BY <1>2
  <2>2. PICK h : h = [i \in 0..e |-> IF i = k + 1 THEN KeptBody(g, i, s, T) ELSE g[i]]
    OBVIOUS
  <2>3. DOMAIN h = 0..e
    BY <2>2
  <2>4. \A i \in 0..e : h[i] = IF i = k + 1 THEN KeptBody(g, i, s, T) ELSE g[i]
    BY <2>2
  <2>5. ASSUME NEW i \in 0..e, i <= k + 1 PROVE h[i] = KeptBody(h, i, s, T)
    <3>1. i = 0 \/ h[i - 1] = g[i - 1]
      <4>1. CASE i # 0
        <5>1. i - 1 \in 0..e /\ i - 1 # k + 1
          BY <2>5, <4>1
        <5> QED BY <2>4, <5>1, Zenon
      <4> QED BY <4>1
    <3>2. KeptBody(h, i, s, T) = KeptBody(g, i, s, T)
      BY <3>1, KeptSame
    <3>3. CASE i = k + 1
      BY <2>4, <3>2, <3>3, Zenon
    <3>4. CASE i # k + 1
      <4>1. i <= k
        BY <2>5, <3>4
      <4>2. g[i] = KeptBody(g, i, s, T)
        BY <2>1, <4>1, Zenon DEF KeptSolves
      <4> QED BY <2>4, <3>2, <3>4, <4>2, Zenon
    <3> QED BY <3>3, <3>4
  <2>6. KeptSolves(h, k + 1, s, T)
    BY <2>5, Zenon DEF KeptSolves
  <2>7. k + 1 \in Nat
    OBVIOUS
  <2> QED BY <2>3, <2>6, <2>7
<1>3. e \in Ks
  <2>1. \A k \in Nat : k \in Ks => k + 1 \in Ks
    BY <1>2, Zenon
  <2> HIDE DEF Ks
  <2>2. Nat \subseteq Ks
    BY <1>1, <2>1, Inducted
  <2> QED BY <2>2
<1>4. PICK g : DOMAIN g = 0..e /\ KeptSolves(g, e, s, T)
  BY <1>3
<1>5. PICK h : h = [i \in 0..e |-> g[i]]
  OBVIOUS
<1>6. \A i \in 0..e : h[i] = KeptBody(h, i, s, T)
  <2> TAKE i \in 0..e
  <2>1. i <= e /\ (i = 0 \/ i - 1 \in 0..e)
    OBVIOUS
  <2>2. g[i] = KeptBody(g, i, s, T)
    BY <1>4, <2>1, Zenon DEF KeptSolves
  <2>3. i = 0 \/ h[i - 1] = g[i - 1]
    BY <1>5, <2>1
  <2>4. KeptBody(h, i, s, T) = KeptBody(g, i, s, T)
    BY <2>3, KeptSame
  <2> QED BY <1>5, <2>2, <2>4, Zenon
<1>7. h = [i \in 0..e |-> KeptBody(h, i, s, T)]
  BY <1>5, <1>6, Zenon
<1>8. Keeper(s, T) = [i \in 0..e |-> KeptBody(Keeper(s, T), i, s, T)]
  BY <1>7, Zenon DEF Keeper
<1> QED BY <1>8, Zenon

\* What is kept of one more item.
LEMMA KeptAppend ==
    ASSUME NEW S, NEW s \in Seq(S), NEW x \in S, NEW T
    PROVE  Text!filtered(Append(s, x), T)
             = IF x \in T THEN Append(Text!filtered(s, T), x) ELSE Text!filtered(s, T)
<1>1. PICK t, e : t = Append(s, x) /\ e = Len(s)
  OBVIOUS
<1>2. e \in Nat /\ Len(t) = e + 1 /\ t[e + 1] = x /\ \A i \in 1..e : t[i] = s[i]
  BY <1>1
<1>3. PICK f, g : f = Keeper(s, T) /\ g = Keeper(t, T)
  OBVIOUS
<1>4. \A i \in 0..e : f[i] = KeptBody(f, i, s, T)
  BY <1>1, <1>2, <1>3, KeeperSolves
<1>5. \A i \in 0..(e + 1) : g[i] = KeptBody(g, i, t, T)
  <2>1. e + 1 \in Nat
    BY <1>2
  <2> QED BY <1>2, <1>3, <2>1, KeeperSolves
<1> DEFINE Ks == {k \in Nat : k <= e => g[k] = f[k]}
<1>6. 0 \in Ks
  <2>1. 0 \in 0..e /\ 0 \in 0..(e + 1)
    BY <1>2
  <2>2. g[0] = <<>> /\ f[0] = <<>>
    BY <1>4, <1>5, <2>1, Zenon DEF KeptBody
  <2> QED BY <2>2
<1>7. ASSUME NEW k \in Nat, k \in Ks PROVE k + 1 \in Ks
  <2> SUFFICES ASSUME k + 1 <= e PROVE g[k + 1] = f[k + 1]
    OBVIOUS
  <2>1. /\ k + 1 \in 0..e /\ k + 1 \in 0..(e + 1) /\ (k + 1) - 1 = k /\ k + 1 # 0
        /\ g[k] = f[k] /\ t[k + 1] = s[k + 1]
    BY <1>2, <1>7
  <2>2. g[k + 1] = KeptBody(g, k + 1, t, T) /\ f[k + 1] = KeptBody(f, k + 1, s, T)
    BY <1>4, <1>5, <2>1
  <2>3. KeptBody(f, k + 1, s, T) = IF s[k + 1] \in T THEN Append(f[k], s[k + 1]) ELSE f[k]
    BY <2>1, Zenon DEF KeptBody
  <2>4. KeptBody(g, k + 1, t, T) = IF t[k + 1] \in T THEN Append(g[k], t[k + 1]) ELSE g[k]
    BY <2>1, Zenon DEF KeptBody
  <2> QED BY <2>1, <2>2, <2>3, <2>4, Zenon
<1>8. e \in Ks
  <2>1. \A k \in Nat : k \in Ks => k + 1 \in Ks
    BY <1>7, Zenon
  <2> HIDE DEF Ks
  <2>2. Nat \subseteq Ks
    BY <1>6, <2>1, Inducted
  <2> QED BY <1>2, <2>2
<1>9. g[e] = f[e]
  BY <1>2, <1>8
<1>10. e + 1 \in 0..(e + 1) /\ e + 1 # 0 /\ (e + 1) - 1 = e
  BY <1>2
<1>11. g[e + 1] = IF x \in T THEN Append(f[e], x) ELSE f[e]
  <2>1. g[e + 1] = KeptBody(g, e + 1, t, T)
    BY <1>5, <1>10
  <2> QED BY <1>2, <1>9, <1>10, <2>1, Zenon DEF KeptBody
<1>12. Text!filtered(t, T) = g[e + 1] /\ Text!filtered(s, T) = f[e]
  BY <1>1, <1>2, <1>3, KeeperIs, Zenon
<1> QED BY <1>1, <1>11, <1>12, Zenon

\* Nothing is kept of nothing.
LEMMA KeptNothing == \A T : Text!filtered(<<>>, T) = <<>>
<1> TAKE T
<1>1. Len(<<>>) = 0 /\ 0 \in 0..0 /\ 0 \in Nat
  OBVIOUS
<1>2. PICK s : s = <<>>
  OBVIOUS
<1>3. 0 = Len(s)
  BY <1>1, <1>2
<1>4. Keeper(s, T)[0] = KeptBody(Keeper(s, T), 0, s, T)
  BY <1>1, <1>3, KeeperSolves
<1> QED BY <1>2, <1>3, <1>4, KeeperIs, Zenon DEF KeptBody

\* What is kept is of the items there are, and no more.
LEMMA KeptTypes ==
    ASSUME NEW S, NEW s \in Seq(S), NEW T
    PROVE  Text!filtered(s, T) \in Seq(S) /\ Len(Text!filtered(s, T)) <= Len(s)
<1>1. PICK e \in Nat : e = Len(s)
  OBVIOUS
<1>2. PICK f : f = Keeper(s, T)
  OBVIOUS
<1>3. \A i \in 0..e : f[i] = KeptBody(f, i, s, T)
  BY <1>1, <1>2, KeeperSolves
<1> DEFINE Ks == {k \in Nat : k <= e => f[k] \in Seq(S) /\ Len(f[k]) <= k}
<1>4. 0 \in Ks
  <2>1. 0 \in 0..e
    OBVIOUS
  <2>2. f[0] = <<>>
    BY <1>3, <2>1, Zenon DEF KeptBody
  <2>3. f[0] \in Seq(S) /\ Len(f[0]) <= 0
    BY <2>2
  <2> QED BY <2>3
<1>5. ASSUME NEW k \in Nat, k \in Ks PROVE k + 1 \in Ks
  <2> SUFFICES ASSUME k + 1 <= e PROVE f[k + 1] \in Seq(S) /\ Len(f[k + 1]) <= k + 1
    OBVIOUS
  <2>1. k + 1 \in 0..e /\ (k + 1) - 1 = k /\ k + 1 # 0 /\ s[k + 1] \in S
    BY <1>1
  <2>2. PICK q, x : q = f[k] /\ x = s[k + 1]
    OBVIOUS
  <2>3. q \in Seq(S) /\ Len(q) <= k /\ x \in S
    BY <1>5, <2>1, <2>2
  <2>4. f[k + 1] = IF x \in T THEN Append(q, x) ELSE q
    BY <1>3, <2>1, <2>2, Zenon DEF KeptBody
  <2> QED BY <2>3, <2>4
<1>6. e \in Ks
  <2>1. \A k \in Nat : k \in Ks => k + 1 \in Ks
    BY <1>5, Zenon
  <2> HIDE DEF Ks
  <2>2. Nat \subseteq Ks
    BY <1>4, <2>1, Inducted
  <2> QED BY <2>2
<1>7. f[e] \in Seq(S) /\ Len(f[e]) <= e
  BY <1>6
<1>8. Text!filtered(s, T) = f[e]
  BY <1>1, <1>2, KeeperIs, Zenon
<1> QED BY <1>1, <1>7, <1>8

\* A sequence with another after it.
LEMMA Joined ==
    ASSUME NEW S, NEW a \in Seq(S), NEW b \in Seq(S)
    PROVE  a \o b \in Seq(S)
OBVIOUS

Tied(S, a, b, x) == Append(a \o b, x) = a \o Append(b, x)

\* An item after both is one after the second.
LEMMA AppendJoined ==
    ASSUME NEW S, NEW a, NEW b, NEW x, a \in Seq(S), b \in Seq(S), x \in S
    PROVE  Tied(S, a, b, x)
<1>1. Append(a \o b, x) = a \o Append(b, x)
  OBVIOUS
<1> QED BY <1>1 DEF Tied

\* What is kept of two sequences in one.
LEMMA KeptJoined ==
    ASSUME NEW S, NEW s \in Seq(S), NEW t \in Seq(S), NEW T
    PROVE  Text!filtered(s \o t, T) = Text!filtered(s, T) \o Text!filtered(t, T)
<1> DEFINE Same(q) == Text!filtered(s \o q, T) = Text!filtered(s, T) \o Text!filtered(q, T)
           Ks == {k \in Nat : \A q \in Seq(S) : Len(q) = k => Same(q)}
<1>1. PICK p : p = Text!filtered(s, T) /\ p \in Seq(S)
  BY KeptTypes
<1>2. 0 \in Ks
  <2>1. ASSUME NEW q \in Seq(S), Len(q) = 0 PROVE Same(q)
    <3>1. q = <<>>
      BY <2>1
    <3>2. s \o q = s /\ p \o q = p
      BY <1>1, <3>1
    <3> QED BY <1>1, <3>1, <3>2, KeptNothing, Zenon
  <2> QED BY <2>1
<1>3. ASSUME NEW k \in Nat, k \in Ks PROVE k + 1 \in Ks
  <2>1. ASSUME NEW q \in Seq(S), Len(q) = k + 1 PROVE Same(q)
    <3>1. PICK r, x : r = SubSeq(q, 1, k) /\ x = q[k + 1]
      OBVIOUS
    <3>2. r \in Seq(S) /\ Len(r) = k /\ x \in S /\ q = Append(r, x)
      BY <2>1, <3>1
    <3> HIDE DEF Same, Ks
    <3>3. PICK v : v = s \o r /\ v \in Seq(S)
      <4>1. r \in Seq(S) /\ s \in Seq(S)
        BY <3>2
      <4>2. s \o r \in Seq(S)
        BY <4>1, Joined, Zenon
      <4> QED BY <4>2, Zenon
    <3>4. s \o q = Append(v, x)
      BY <3>2, <3>3, AppendJoined DEF Tied
    <3>5. PICK w : w = Text!filtered(r, T) /\ w \in Seq(S)
      BY <3>2, KeptTypes
    <3>6. Text!filtered(v, T) = p \o w
      <4>1. Same(r)
        BY <1>3, <3>2 DEF Ks
      <4> QED BY <1>1, <3>3, <3>5, <4>1, Zenon DEF Same
    <3>7. Text!filtered(Append(v, x), T) = IF x \in T THEN Append(p \o w, x) ELSE p \o w
      <4>1. v \in Seq(S) /\ x \in S
        BY <3>2, <3>3
      <4>2. Text!filtered(Append(v, x), T)
              = IF x \in T THEN Append(Text!filtered(v, T), x) ELSE Text!filtered(v, T)
        BY <4>1, KeptAppend
      <4> QED BY <3>6, <4>2, Zenon
    <3>8. Text!filtered(q, T) = IF x \in T THEN Append(w, x) ELSE w
      BY <3>2, <3>5, KeptAppend
    <3>9. Append(p \o w, x) = p \o Append(w, x)
      <4>1. p \in Seq(S)
        BY <1>1
      <4>2. w \in Seq(S)
        BY <3>5
      <4>3. x \in S
        BY <3>2
      <4>4. Tied(S, p, w, x)
        BY <4>1, <4>2, <4>3, AppendJoined, Zenon
      <4> QED BY <4>4, Zenon DEF Tied
    <3> QED BY <1>1, <3>4, <3>5, <3>7, <3>8, <3>9, Zenon DEF Same
  <2>2. k + 1 \in Nat
    OBVIOUS
  <2> HIDE DEF Same
  <2> QED BY <2>1, <2>2
<1>4. \A k \in Nat : k \in Ks => k + 1 \in Ks
  BY <1>3, Zenon
<1>5. PICK e \in Nat : e = Len(t)
  OBVIOUS
<1>6. e \in Ks
  <2> HIDE DEF Ks
  <2>1. Nat \subseteq Ks
    BY <1>2, <1>4, Inducted
  <2> QED BY <2>1
<1>7. Same(t)
  <2> HIDE DEF Same
  <2> QED BY <1>5, <1>6
<1> QED BY <1>7

\* FlattenSeq, its recursion written out.
FlatBody(f, i, s) == IF i = 1 THEN s[i] ELSE f[i - 1] \o s[i]
Flatter(s) == CHOOSE f : f = [i \in 1..Len(s) |-> FlatBody(f, i, s)]

\* It is that recursion.
LEMMA FlatterIs == \A s : Text!FlattenSeq(s) = IF Len(s) = 0 THEN s ELSE Flatter(s)[Len(s)]
BY Zenon DEF Text!FlattenSeq, Flatter, FlatBody

\* What is joined up to a sequence depends on what was before it.
LEMMA FlatSame ==
    ASSUME NEW f, NEW g, NEW i, NEW s, i = 1 \/ f[i - 1] = g[i - 1]
    PROVE  FlatBody(f, i, s) = FlatBody(g, i, s)
BY Zenon DEF FlatBody

\* Up to the sequence k there is a function that does what it says, for every k, so
\* the recursion does.
FlatSolves(g, k, s) == \A i \in 1..Len(s) : i <= k => g[i] = FlatBody(g, i, s)
LEMMA FlatterSolves ==
    ASSUME NEW e \in Nat, NEW s, e = Len(s)
    PROVE  \A i \in 1..e : Flatter(s)[i] = FlatBody(Flatter(s), i, s)
<1> DEFINE Ks == {k \in Nat : \E g : DOMAIN g = 1..e /\ FlatSolves(g, k, s)}
<1>1. 0 \in Ks
  <2>1. PICK g : g = [i \in 1..e |-> <<>>]
    OBVIOUS
  <2>2. DOMAIN g = 1..e
    BY <2>1
  <2>3. ASSUME NEW i \in 1..Len(s), i <= 0 PROVE g[i] = FlatBody(g, i, s)
    <3> QED BY <2>3
  <2>4. FlatSolves(g, 0, s)
    BY <2>3, Zenon DEF FlatSolves
  <2> QED BY <2>2, <2>4
<1>2. ASSUME NEW k \in Nat, k \in Ks PROVE k + 1 \in Ks
  <2>1. PICK g : DOMAIN g = 1..e /\ FlatSolves(g, k, s)
    BY <1>2
  <2>2. PICK h : h = [i \in 1..e |-> IF i = k + 1 THEN FlatBody(g, i, s) ELSE g[i]]
    OBVIOUS
  <2>3. DOMAIN h = 1..e
    BY <2>2
  <2>4. \A i \in 1..e : h[i] = IF i = k + 1 THEN FlatBody(g, i, s) ELSE g[i]
    BY <2>2
  <2>5. ASSUME NEW i \in 1..e, i <= k + 1 PROVE h[i] = FlatBody(h, i, s)
    <3>1. i = 1 \/ h[i - 1] = g[i - 1]
      <4>1. CASE i # 1
        <5>1. i - 1 \in 1..e /\ i - 1 # k + 1
          BY <2>5, <4>1
        <5> QED BY <2>4, <5>1, Zenon
      <4> QED BY <4>1
    <3>2. FlatBody(h, i, s) = FlatBody(g, i, s)
      BY <3>1, FlatSame
    <3>3. CASE i = k + 1
      BY <2>4, <3>2, <3>3, Zenon
    <3>4. CASE i # k + 1
      <4>1. i <= k
        BY <2>5, <3>4
      <4>2. g[i] = FlatBody(g, i, s)
        BY <2>1, <4>1, Zenon DEF FlatSolves
      <4> QED BY <2>4, <3>2, <3>4, <4>2, Zenon
    <3> QED BY <3>3, <3>4
  <2>6. FlatSolves(h, k + 1, s)
    BY <2>5, Zenon DEF FlatSolves
  <2>7. k + 1 \in Nat
    OBVIOUS
  <2> QED BY <2>3, <2>6, <2>7
<1>3. e \in Ks
  <2>1. \A k \in Nat : k \in Ks => k + 1 \in Ks
    BY <1>2, Zenon
  <2> HIDE DEF Ks
  <2>2. Nat \subseteq Ks
    BY <1>1, <2>1, Inducted
  <2> QED BY <2>2
<1>4. PICK g : DOMAIN g = 1..e /\ FlatSolves(g, e, s)
  BY <1>3
<1>5. PICK h : h = [i \in 1..e |-> g[i]]
  OBVIOUS
<1>6. \A i \in 1..e : h[i] = FlatBody(h, i, s)
  <2> TAKE i \in 1..e
  <2>1. i <= e /\ (i = 1 \/ i - 1 \in 1..e)
    OBVIOUS
  <2>2. g[i] = FlatBody(g, i, s)
    BY <1>4, <2>1, Zenon DEF FlatSolves
  <2>3. i = 1 \/ h[i - 1] = g[i - 1]
    BY <1>5, <2>1
  <2>4. FlatBody(h, i, s) = FlatBody(g, i, s)
    BY <2>3, FlatSame
  <2> QED BY <1>5, <2>2, <2>4, Zenon
<1>7. h = [i \in 1..e |-> FlatBody(h, i, s)]
  BY <1>5, <1>6, Zenon
<1>8. Flatter(s) = [i \in 1..e |-> FlatBody(Flatter(s), i, s)]
  BY <1>7, Zenon DEF Flatter
<1> QED BY <1>8, Zenon

\* A sequence without items is the empty one.
LEMMA NoItems == ASSUME NEW T, NEW s \in Seq(T), Len(s) = 0 PROVE s = <<>>
  OBVIOUS

\* What is joined is of the items there are.
LEMMA FlatTypes ==
    ASSUME NEW S, NEW s \in Seq(Seq(S))
    PROVE  Text!FlattenSeq(s) \in Seq(S)
<1>1. PICK e \in Nat : e = Len(s)
  OBVIOUS
<1>2. PICK f : f = Flatter(s)
  OBVIOUS
<1>3. \A i \in 1..e : f[i] = FlatBody(f, i, s)
  BY <1>1, <1>2, FlatterSolves
<1> DEFINE Ks == {k \in Nat : k \in 1..e => f[k] \in Seq(S)}
<1>4. 0 \in Ks
  OBVIOUS
<1>5. ASSUME NEW k \in Nat, k \in Ks PROVE k + 1 \in Ks
  <2> SUFFICES ASSUME k + 1 \in 1..e PROVE f[k + 1] \in Seq(S)
    OBVIOUS
  <2>1. PICK x : x = s[k + 1] /\ x \in Seq(S)
    BY <1>1
  <2>2. CASE k = 0
    <3>1. k + 1 = 1
      BY <2>2
    <3>2. f[k + 1] = x
      BY <1>3, <2>1, <3>1, Zenon DEF FlatBody
    <3> QED BY <2>1, <3>2
  <2>3. CASE k # 0
    <3>1. k \in 1..e /\ (k + 1) - 1 = k /\ k + 1 # 1
      BY <2>3
    <3>2. PICK q : q = f[k] /\ q \in Seq(S)
      BY <1>5, <3>1
    <3>3. f[k + 1] = q \o x
      BY <1>3, <2>1, <3>1, <3>2, Zenon DEF FlatBody
    <3>4. q \o x \in Seq(S)
      BY <2>1, <3>2, Joined
    <3> QED BY <3>3, <3>4, Zenon
  <2> QED BY <2>2, <2>3
<1>6. e \in Ks
  <2>1. \A k \in Nat : k \in Ks => k + 1 \in Ks
    BY <1>5, Zenon
  <2> HIDE DEF Ks
  <2>2. Nat \subseteq Ks
    BY <1>4, <2>1, Inducted
  <2> QED BY <2>2
<1>7. CASE e = 0
  <2>1. s = <<>>
    BY <1>1, <1>7, NoItems
  <2>2. Text!FlattenSeq(s) = <<>>
    BY <1>1, <1>7, <2>1, FlatterIs, Zenon
  <2> QED BY <2>2
<1>8. CASE e # 0
  <2>1. f[e] \in Seq(S)
    BY <1>6, <1>8
  <2> QED BY <1>1, <1>2, <1>8, <2>1, FlatterIs
<1> QED BY <1>7, <1>8

\* One sequence more.
LEMMA FlatAppend ==
    ASSUME NEW S, NEW s \in Seq(Seq(S)), NEW x \in Seq(S)
    PROVE  Text!FlattenSeq(Append(s, x)) = Text!FlattenSeq(s) \o x
<1>1. PICK t, e : t = Append(s, x) /\ e = Len(s)
  OBVIOUS
<1>2. e \in Nat /\ Len(t) = e + 1 /\ t[e + 1] = x /\ \A i \in 1..e : t[i] = s[i]
  BY <1>1
<1>3. PICK f, g : f = Flatter(s) /\ g = Flatter(t)
  OBVIOUS
<1>4. \A i \in 1..e : f[i] = FlatBody(f, i, s)
  BY <1>1, <1>2, <1>3, FlatterSolves
<1>5. \A i \in 1..(e + 1) : g[i] = FlatBody(g, i, t)
  <2>1. e + 1 \in Nat
    BY <1>2
  <2> QED BY <1>2, <1>3, <2>1, FlatterSolves
<1> DEFINE Ks == {k \in Nat : k \in 1..e => g[k] = f[k]}
<1>6. 0 \in Ks
  OBVIOUS
<1>7. ASSUME NEW k \in Nat, k \in Ks PROVE k + 1 \in Ks
  <2> SUFFICES ASSUME k + 1 \in 1..e PROVE g[k + 1] = f[k + 1]
    OBVIOUS
  <2>1. /\ k + 1 \in 1..(e + 1) /\ (k + 1) - 1 = k /\ t[k + 1] = s[k + 1]
        /\ k + 1 = 1 \/ g[k] = f[k]
    BY <1>2, <1>7
  <2>2. g[k + 1] = FlatBody(g, k + 1, t) /\ f[k + 1] = FlatBody(f, k + 1, s)
    BY <1>4, <1>5, <2>1
  <2>3. FlatBody(f, k + 1, s) = IF k + 1 = 1 THEN s[k + 1] ELSE f[k] \o s[k + 1]
    BY <2>1, Zenon DEF FlatBody
  <2>4. FlatBody(g, k + 1, t) = IF k + 1 = 1 THEN t[k + 1] ELSE g[k] \o t[k + 1]
    BY <2>1, Zenon DEF FlatBody
  <2> QED BY <2>1, <2>2, <2>3, <2>4, Zenon
<1>8. e \in Ks
  <2>1. \A k \in Nat : k \in Ks => k + 1 \in Ks
    BY <1>7, Zenon
  <2> HIDE DEF Ks
  <2>2. Nat \subseteq Ks
    BY <1>6, <2>1, Inducted
  <2> QED BY <1>2, <2>2
<1>9. e + 1 \in 1..(e + 1) /\ (e + 1) - 1 = e /\ e + 1 # 0
  BY <1>2
<1>10. Text!FlattenSeq(t) = FlatBody(g, e + 1, t)
  <2>1. Text!FlattenSeq(t) = g[e + 1]
    BY <1>2, <1>3, <1>9, FlatterIs, Zenon
  <2> QED BY <1>5, <1>9, <2>1, Zenon
<1>11. CASE e = 0
  <2>1. s = <<>>
    BY <1>1, <1>11, NoItems
  <2>2. Text!FlattenSeq(s) = <<>>
    BY <1>1, <1>11, <2>1, FlatterIs, Zenon
  <2>3. e + 1 = 1
    BY <1>11
  <2>4. Text!FlattenSeq(t) = x
    BY <1>2, <1>10, <2>3, Zenon DEF FlatBody
  <2>5. <<>> \o x = x
    OBVIOUS
  <2> QED BY <1>1, <2>2, <2>4, <2>5, Zenon
<1>12. CASE e # 0
  <2>1. g[e] = f[e] /\ e + 1 # 1
    BY <1>2, <1>8, <1>12
  <2>2. Text!FlattenSeq(s) = f[e]
    BY <1>1, <1>3, <1>12, FlatterIs, Zenon
  <2>3. Text!FlattenSeq(t) = f[e] \o x
    BY <1>2, <1>9, <1>10, <2>1, Zenon DEF FlatBody
  <2> QED BY <1>1, <2>2, <2>3, Zenon
<1> QED BY <1>11, <1>12

\* The words of a text, line by line.
LEMMA WordsTyped == \A f \in Seq(Text!Line) : Text!Words(f) \in Seq(Text!Word)
<1> TAKE f \in Seq(Text!Line)
<1>1. PICK s : s = [i \in DOMAIN f |-> f[i].words]
  OBVIOUS
<1>2. \A i \in DOMAIN f : f[i].words \in Seq(Text!Word)
  <2> TAKE i \in DOMAIN f
  <2>1. f[i] \in Text!Line
    OBVIOUS
  <2> QED BY <2>1 DEF Text!Line
<1>3. s \in Seq(Seq(Text!Word))
  BY <1>1, <1>2
<1>4. Text!FlattenSeq(s) \in Seq(Text!Word)
  BY <1>3, FlatTypes
<1> QED BY <1>1, <1>4, Zenon DEF Text!Words

\* One line more.
LEMMA WordsAppend ==
    ASSUME NEW f \in Seq(Text!Line), NEW l \in Text!Line
    PROVE  Text!Words(Append(f, l)) = Text!Words(f) \o l.words
<1>1. PICK s, t, g : /\ s = [i \in DOMAIN f |-> f[i].words] /\ g = Append(f, l)
                     /\ t = [i \in DOMAIN g |-> g[i].words]
  OBVIOUS
<1>2. \A i \in DOMAIN f : f[i].words \in Seq(Text!Word)
  <2> TAKE i \in DOMAIN f
  <2>1. f[i] \in Text!Line
    OBVIOUS
  <2> QED BY <2>1 DEF Text!Line
<1>3. s \in Seq(Seq(Text!Word)) /\ Len(s) = Len(f)
  BY <1>1, <1>2
<1>4. PICK x : x = l.words /\ x \in Seq(Text!Word)
  BY DEF Text!Line
<1>5. t = Append(s, x)
  <2>1. /\ DOMAIN g = 1..(Len(f) + 1) /\ g[Len(f) + 1] = l /\ \A i \in 1..Len(f) : g[i] = f[i]
        /\ DOMAIN f = 1..Len(f) /\ Len(f) \in Nat
    BY <1>1
  <2>2. t = [i \in 1..(Len(f) + 1) |-> g[i].words]
    BY <1>1, <2>1
  <2>3. s = [i \in 1..Len(f) |-> f[i].words]
    BY <1>1, <2>1
  <2>4. PICK u : u = Append(s, x)
    OBVIOUS
  <2>5. /\ u \in Seq(Seq(Text!Word)) /\ DOMAIN u = 1..(Len(f) + 1) /\ u[Len(f) + 1] = x
        /\ \A i \in 1..Len(f) : u[i] = s[i]
    BY <1>3, <1>4, <2>1, <2>4
  <2>6. \A i \in 1..(Len(f) + 1) : t[i] = u[i]
    <3> TAKE i \in 1..(Len(f) + 1)
    <3>1. CASE i = Len(f) + 1
      BY <1>4, <2>1, <2>2, <2>5, <3>1
    <3>2. CASE i # Len(f) + 1
      <4>1. i \in 1..Len(f)
        BY <2>1, <3>2
      <4> QED BY <2>1, <2>2, <2>3, <2>5, <4>1
    <3> QED BY <3>1, <3>2
  <2>7. t = u
    <3>1. t \in Seq(Seq(Text!Word)) /\ Len(t) = Len(f) + 1
      <4>1. \A i \in 1..(Len(f) + 1) : g[i].words \in Seq(Text!Word)
        BY <1>2, <1>4, <2>1
      <4> QED BY <2>1, <2>2, <4>1
    <3>2. Len(u) = Len(f) + 1
      BY <2>1, <2>5
    <3> QED BY <2>5, <2>6, <3>1, <3>2
  <2> QED BY <2>4, <2>7
<1>6. Text!FlattenSeq(t) = Text!FlattenSeq(s) \o x
  BY <1>3, <1>4, <1>5, FlatAppend
<1> QED BY <1>1, <1>4, <1>6, Zenon DEF Text!Words

\* The parts of a sequence before and after one of its items.
LEMMA CutParts ==
    ASSUME NEW S, NEW s \in Seq(S), NEW i \in 1..Len(s)
    PROVE  /\ SubSeq(s, 1, i - 1) \in Seq(S) /\ Len(SubSeq(s, 1, i - 1)) = i - 1
           /\ \A j \in 1..(i - 1) : SubSeq(s, 1, i - 1)[j] = s[j]
           /\ SubSeq(s, i + 1, Len(s)) \in Seq(S) /\ Len(SubSeq(s, i + 1, Len(s))) = Len(s) - i
           /\ \A j \in 1..(Len(s) - i) : SubSeq(s, i + 1, Len(s))[j] = s[i + j]
<1>1. Len(s) \in Nat /\ i \in Nat /\ i >= 1 /\ i <= Len(s)
  OBVIOUS
<1>2. SubSeq(s, 1, i - 1) \in Seq(S) /\ Len(SubSeq(s, 1, i - 1)) = i - 1
  BY <1>1
<1>3. \A j \in 1..(i - 1) : SubSeq(s, 1, i - 1)[j] = s[j]
  BY <1>1
<1>4. SubSeq(s, i + 1, Len(s)) \in Seq(S) /\ Len(SubSeq(s, i + 1, Len(s))) = Len(s) - i
  BY <1>1
<1>5. \A j \in 1..(Len(s) - i) : SubSeq(s, i + 1, Len(s))[j] = s[i + j]
  BY <1>1
<1> QED BY <1>2, <1>3, <1>4, <1>5

\* Two sequences with the same items are the same.
LEMMA SameItems ==
    ASSUME NEW S, NEW s \in Seq(S), NEW t \in Seq(S), Len(s) = Len(t),
           \A i \in 1..Len(s) : s[i] = t[i]
    PROVE  s = t
OBVIOUS

\* What is at a place of two sequences joined.
LEMMA JoinedAt ==
    ASSUME NEW S, NEW a \in Seq(S), NEW b \in Seq(S)
    PROVE  /\ a \o b \in Seq(S) /\ Len(a \o b) = Len(a) + Len(b)
           /\ \A i \in 1..(Len(a) + Len(b)) : (a \o b)[i] = IF i <= Len(a) THEN a[i] ELSE b[i - Len(a)]
OBVIOUS

\* What is at a place of a sequence with one item more.
LEMMA AppendAt ==
    ASSUME NEW S, NEW a \in Seq(S), NEW x \in S
    PROVE  /\ Append(a, x) \in Seq(S) /\ Len(Append(a, x)) = Len(a) + 1
           /\ \A i \in 1..(Len(a) + 1) : Append(a, x)[i] = IF i <= Len(a) THEN a[i] ELSE x
OBVIOUS

\* A sequence with one item replaced, by itself for one.
LEMMA Replacing ==
    ASSUME NEW S, NEW s \in Seq(S), NEW i \in 1..Len(s), NEW x \in S
    PROVE  [s EXCEPT ![i] = x] = Append(SubSeq(s, 1, i - 1), x) \o SubSeq(s, i + 1, Len(s))
<1>1. PICK n \in Nat : n = Len(s)
  OBVIOUS
<1>0. PICK a, b : a = SubSeq(s, 1, i - 1) /\ b = SubSeq(s, i + 1, Len(s))
  OBVIOUS
<1>2. a \in Seq(S) /\ Len(a) = i - 1 /\ \A j \in 1..(i - 1) : a[j] = s[j]
  BY <1>0, CutParts, Zenon
<1>3. b \in Seq(S) /\ Len(b) = n - i /\ \A j \in 1..(n - i) : b[j] = s[i + j]
  BY <1>0, <1>1, CutParts, Zenon
<1>10. PICK c, d : c = Append(a, x) /\ d = c \o b
  OBVIOUS
<1>4. /\ c \in Seq(S) /\ Len(c) = i
      /\ \A j \in 1..i : c[j] = IF j <= i - 1 THEN a[j] ELSE x
  <2>1. Len(a) + 1 = i
    BY <1>1, <1>2
  <2>2. /\ c \in Seq(S) /\ Len(c) = Len(a) + 1
        /\ \A j \in 1..(Len(a) + 1) : c[j] = IF j <= Len(a) THEN a[j] ELSE x
    BY <1>2, <1>10, AppendAt, Zenon
  <2> QED BY <1>2, <2>1, <2>2, Zenon
<1>5. /\ d \in Seq(S) /\ Len(d) = n
      /\ \A j \in 1..n : d[j] = IF j <= i THEN c[j] ELSE b[j - i]
  <2>1. Len(c) + Len(b) = n
    BY <1>1, <1>3, <1>4
  <2>3. /\ d \in Seq(S) /\ Len(d) = Len(c) + Len(b)
        /\ \A j \in 1..(Len(c) + Len(b)) : d[j] = IF j <= Len(c) THEN c[j] ELSE b[j - Len(c)]
    <3>1. c \in Seq(S) /\ b \in Seq(S)
      BY <1>3, <1>4
    <3>2. /\ c \o b \in Seq(S) /\ Len(c \o b) = Len(c) + Len(b)
          /\ \A j \in 1..(Len(c) + Len(b)) :
                (c \o b)[j] = IF j <= Len(c) THEN c[j] ELSE b[j - Len(c)]
      BY <3>1, JoinedAt
    <3> QED BY <1>10, <3>2, Zenon
  <2>4. PICK m : m = Len(c) + Len(b)
    OBVIOUS
  <2>5. Len(c) = i /\ m = n
    BY <1>4, <2>1, <2>4
  <2>6. \A j \in 1..m : d[j] = IF j <= Len(c) THEN c[j] ELSE b[j - Len(c)]
    BY <2>3, <2>4
  <2>7. \A j \in 1..n : d[j] = IF j <= i THEN c[j] ELSE b[j - i]
    BY <2>5, <2>6
  <2> QED BY <2>1, <2>3, <2>7
<1>11. PICK r : r = [s EXCEPT ![i] = x]
  OBVIOUS
<1>6. /\ r \in Seq(S) /\ Len(r) = n
      /\ \A j \in 1..n : r[j] = IF j = i THEN x ELSE s[j]
  <2>1. r \in Seq(S) /\ Len(r) = n
    BY <1>1, <1>11
  <2>2. \A j \in 1..n : r[j] = IF j = i THEN x ELSE s[j]
    BY <1>1, <1>11
  <2> QED BY <2>1, <2>2
<1>7. \A j \in 1..n : r[j] = d[j]
  <2> TAKE j \in 1..n
  <2>1. CASE j < i
    <3>1. j \in 1..(i - 1) /\ j \in 1..i
      BY <1>1, <2>1
    <3>2. d[j] = c[j] /\ c[j] = a[j] /\ a[j] = s[j] /\ r[j] = s[j]
      BY <1>2, <1>4, <1>5, <1>6, <2>1, <3>1
    <3> QED BY <3>2
  <2>2. CASE j = i
    <3>1. j \in 1..i /\ j <= i /\ ~(j <= i - 1)
      BY <1>1, <2>2
    <3>2. d[j] = c[j] /\ c[j] = x /\ r[j] = x
      BY <1>4, <1>5, <1>6, <2>2, <3>1
    <3> QED BY <3>2
  <2>3. CASE j > i
    <3>1. j - i \in 1..(n - i) /\ i + (j - i) = j /\ ~(j <= i) /\ j # i
      BY <1>1, <2>3
    <3>2. d[j] = b[j - i] /\ r[j] = s[j]
      BY <1>5, <1>6, <3>1
    <3>3. b[j - i] = s[i + (j - i)]
      BY <1>3, <3>1
    <3> QED BY <3>1, <3>2, <3>3
  <2> QED BY <2>1, <2>2, <2>3
<1>8. r = d
  BY <1>5, <1>6, <1>7, SameItems, Zenon
<1> QED BY <1>0, <1>8, <1>10, <1>11, Zenon

\* A sequence cut in two.
LEMMA CutInTwo ==
    ASSUME NEW S, NEW s \in Seq(S), NEW i \in 0..Len(s)
    PROVE  /\ SubSeq(s, 1, i) \in Seq(S) /\ Len(SubSeq(s, 1, i)) = i
           /\ SubSeq(s, i + 1, Len(s)) \in Seq(S)
           /\ s = SubSeq(s, 1, i) \o SubSeq(s, i + 1, Len(s))
<1>1. PICK n \in Nat : n = Len(s)
  OBVIOUS
<1>0. PICK a, b : a = SubSeq(s, 1, i) /\ b = SubSeq(s, i + 1, Len(s))
  OBVIOUS
<1>2. a \in Seq(S) /\ Len(a) = i /\ \A j \in 1..i : a[j] = s[j]
  <2>1. a \in Seq(S) /\ Len(a) = i
    BY <1>0, <1>1
  <2>2. \A j \in 1..i : a[j] = s[j]
    BY <1>0, <1>1
  <2> QED BY <2>1, <2>2
<1>3. b \in Seq(S) /\ Len(b) = n - i /\ \A j \in 1..(n - i) : b[j] = s[i + j]
  <2>1. b \in Seq(S) /\ Len(b) = n - i
    BY <1>0, <1>1
  <2>2. \A j \in 1..(n - i) : b[j] = s[i + j]
    BY <1>0, <1>1
  <2> QED BY <2>1, <2>2
<1>4. PICK d : d = a \o b
  OBVIOUS
<1>5. /\ d \in Seq(S) /\ Len(d) = Len(a) + Len(b)
      /\ \A j \in 1..(Len(a) + Len(b)) : d[j] = IF j <= Len(a) THEN a[j] ELSE b[j - Len(a)]
  BY <1>2, <1>3, <1>4, JoinedAt, Zenon
<1>6. Len(a) + Len(b) = n
  BY <1>1, <1>2, <1>3
<1>7. \A j \in 1..n : s[j] = d[j]
  <2> TAKE j \in 1..n
  <2>1. CASE j <= i
    <3>1. j \in 1..i
      BY <1>1, <2>1
    <3> QED BY <1>2, <1>5, <1>6, <2>1, <3>1
  <2>2. CASE j > i
    <3>1. j - i \in 1..(n - i) /\ i + (j - i) = j /\ ~(j <= i)
      BY <1>1, <2>2
    <3>2. d[j] = b[j - i]
      BY <1>2, <1>5, <1>6, <3>1
    <3> QED BY <1>3, <3>1, <3>2
  <2> QED BY <2>1, <2>2
<1>8. s = d
  BY <1>1, <1>5, <1>6, <1>7, SameItems, Zenon
<1> QED BY <1>0, <1>2, <1>3, <1>4, <1>8, Zenon

\* An item that is not kept can be taken out, or be replaced by another such.
LEMMA KeptWithout ==
    ASSUME NEW S, NEW s \in Seq(S), NEW i \in 1..Len(s), NEW T, s[i] \notin T
    PROVE  /\ Text!filtered(Text!RemoveAt(s, i), T) = Text!filtered(s, T)
           /\ Text!RemoveAt(s, i) \in Seq(S)
           /\ \A x \in S \ T : Text!filtered([s EXCEPT ![i] = x], T) = Text!filtered(s, T)
<1>1. PICK a \in Seq(S), b \in Seq(S) : a = SubSeq(s, 1, i - 1) /\ b = SubSeq(s, i + 1, Len(s))
  BY CutParts
<1>0. \A p, q \in Seq(S) :
         Text!filtered(p \o q, T) = Text!filtered(p, T) \o Text!filtered(q, T)
  <2> TAKE p, q \in Seq(S)
  <2>1. p \in Seq(S) /\ q \in Seq(S)
    OBVIOUS
  <2> QED BY <2>1, KeptJoined, Z3T(20)
<1>2. ASSUME NEW x \in S \ T
      PROVE  Text!filtered([s EXCEPT ![i] = x], T) = Text!filtered(a, T) \o Text!filtered(b, T)
  <2>1. [s EXCEPT ![i] = x] = Append(a, x) \o b
    BY <1>1, Replacing, Zenon
  <2>2. PICK c : c = Append(a, x) /\ c \in Seq(S)
    <3>1. x \in S
      OBVIOUS
    <3>2. Append(a, x) \in Seq(S)
      BY <3>1, AppendAt, Zenon
    <3> QED BY <3>2
  <2>3. Text!filtered(c, T) = Text!filtered(a, T)
    BY <2>2, KeptAppend
  <2>4. Text!filtered(c \o b, T) = Text!filtered(c, T) \o Text!filtered(b, T)
    BY <1>0, <2>2, Zenon
  <2> QED BY <2>1, <2>2, <2>3, <2>4, Zenon
<1>3. s[i] \in S \ T /\ s = [s EXCEPT ![i] = s[i]]
  OBVIOUS
<1>4. Text!filtered(s, T) = Text!filtered(a, T) \o Text!filtered(b, T)
  BY <1>2, <1>3, Zenon
<1>5. Text!RemoveAt(s, i) = a \o b
  BY <1>1, Zenon DEF Text!RemoveAt
<1>6. Text!filtered(a \o b, T) = Text!filtered(a, T) \o Text!filtered(b, T) /\ a \o b \in Seq(S)
  BY KeptJoined, Joined
<1> QED BY <1>2, <1>4, <1>5, <1>6, Zenon

\* The types, with a word before the cursor where one is joined to it.
TextInv ==
    /\ Text!TypeOK
    /\ joined => at >= 1
    /\ tags \in {<<"t1", "t2", "u">>, <<"t2", "u">>}

Item == {"todo", "code", "link", "table", "t1", "t2", "u"}
LinesTyped(ls) == ls \in Seq(Text!Line) /\ ls # <<>>

\* The line of the cursor.
LEMMA CurrentLine ==
    ASSUME LinesTyped(lines)
    PROVE  /\ Text!current \in Text!Line /\ Text!current.words \in Seq(Text!Word)
           /\ Text!current = Text!Last(lines)
           /\ Text!Words(lines) = Text!Words(Text!Front(lines)) \o Text!current.words
           /\ Text!Words(Text!Front(lines)) \in Seq(Text!Word)
<1>1. PICK n \in Nat : n = Len(lines) /\ n >= 1
  BY DEF LinesTyped
<1>2. PICK c : c = lines[n]
  OBVIOUS
<1>3. Text!current = c /\ Text!Last(lines) = c
  BY <1>1, <1>2, Zenon DEF Text!current, Text!Last
<1>4. c \in Text!Line
  BY <1>1, <1>2 DEF LinesTyped
<1>5. c.words \in Seq(Text!Word)
  BY <1>4 DEF Text!Line
<1>6. PICK f : f = SubSeq(lines, 1, n - 1)
  OBVIOUS
<1>7. Text!Front(lines) = f
  BY <1>1, <1>6, Zenon DEF Text!Front
<1>8. f \in Seq(Text!Line) /\ lines = Append(f, c)
  <2>1. n \in 1..Len(lines) /\ lines \in Seq(Text!Line)
    BY <1>1 DEF LinesTyped
  <2>2. /\ f \in Seq(Text!Line) /\ Len(f) = n - 1 /\ \A j \in 1..(n - 1) : f[j] = lines[j]
    BY <1>6, <2>1, CutParts
  <2>3. PICK g : g = Append(f, c)
    OBVIOUS
  <2>4. /\ g \in Seq(Text!Line) /\ Len(g) = Len(f) + 1
        /\ \A i \in 1..(Len(f) + 1) : g[i] = IF i <= Len(f) THEN f[i] ELSE c
    BY <1>4, <2>2, <2>3, AppendAt, Zenon
  <2>5. Len(g) = n /\ \A i \in 1..n : g[i] = lines[i]
    <3>1. Len(f) + 1 = n
      BY <1>1, <2>2
    <3>2. ASSUME NEW i \in 1..n PROVE g[i] = lines[i]
      <4>1. i \in 1..(Len(f) + 1)
        BY <3>1
      <4>2. CASE i <= Len(f)
        <5>1. i \in 1..(n - 1)
          BY <1>1, <3>1, <4>2
        <5> QED BY <2>2, <2>4, <4>1, <4>2, <5>1
      <4>3. CASE ~(i <= Len(f))
        <5>1. i = n
          BY <1>1, <3>1, <4>3
        <5> QED BY <1>2, <2>4, <4>1, <4>3, <5>1
      <4> QED BY <4>2, <4>3
    <3> QED BY <2>4, <3>1, <3>2
  <2>6. lines = g
    BY <1>1, <2>1, <2>4, <2>5, SameItems
  <2> QED BY <2>2, <2>3, <2>6
<1>9. Text!Words(lines) = Text!Words(f) \o c.words
  BY <1>4, <1>8, WordsAppend, Zenon
<1>10. Text!Words(f) \in Seq(Text!Word)
  BY <1>8, WordsTyped, Zenon
<1> QED BY <1>3, <1>4, <1>5, <1>7, <1>9, <1>10, Zenon

\* Another line in its place.
LEMMA Relined ==
    ASSUME LinesTyped(lines), NEW l \in Text!Line
    PROVE  /\ LinesTyped(Text!Replaced(l)) /\ Text!Last(Text!Replaced(l)) = l
           /\ Len(Text!Replaced(l)) = Len(lines)
           /\ Text!Words(Text!Replaced(l)) = Text!Words(Text!Front(lines)) \o l.words
<1>1. PICK n \in Nat : n = Len(lines) /\ n >= 1
  BY DEF LinesTyped
<1>2. PICK f : f = SubSeq(lines, 1, n - 1)
  OBVIOUS
<1>3. Text!Front(lines) = f
  BY <1>1, <1>2, Zenon DEF Text!Front
<1>4. f \in Seq(Text!Line) /\ Len(f) = n - 1
  <2>1. n \in 1..Len(lines) /\ lines \in Seq(Text!Line)
    BY <1>1 DEF LinesTyped
  <2> QED BY <1>2, <2>1, CutParts
<1>5. PICK g : g = Append(f, l)
  OBVIOUS
<1>6. Text!Replaced(l) = g
  BY <1>3, <1>5, Zenon DEF Text!Replaced
<1>7. g \in Seq(Text!Line) /\ Len(g) = n /\ g[n] = l
  BY <1>1, <1>4, <1>5
<1>8. g # <<>>
  BY <1>1, <1>7
<1>9. Text!Last(g) = l
  BY <1>7, Zenon DEF Text!Last
<1>10. Text!Words(g) = Text!Words(f) \o l.words
  BY <1>4, <1>5, WordsAppend, Zenon
<1> QED BY <1>1, <1>3, <1>6, <1>7, <1>8, <1>9, <1>10, Zenon DEF LinesTyped

\* The suggestions are items, four at most, for a word joined to the cursor.
LEMMA SuggestionsAre ==
    ASSUME TextInv
    PROVE  /\ Text!suggestions \in Seq(Item) /\ Len(Text!suggestions) <= 4
           /\ Text!isVisible => /\ joined /\ at \in 1..Len(Text!current.words)
                                /\ Text!word = Text!current.words[at]
                                /\ Text!word.is \in Text!Trigger
                                /\ Len(Text!suggestions) \in 1..4
<1>1. tags \in Seq(Item) /\ Len(tags) <= 3
  <2>1. <<"t1", "t2", "u">> \in Seq(Item) /\ Len(<<"t1", "t2", "u">>) = 3
    BY DEF Item
  <2>2. <<"t2", "u">> \in Seq(Item) /\ Len(<<"t2", "u">>) = 2
    BY DEF Item
  <2>3. tags = <<"t1", "t2", "u">> \/ tags = <<"t2", "u">>
    BY Zenon DEF TextInv
  <2>4. CASE tags = <<"t1", "t2", "u">>
    BY <2>1, <2>4
  <2>5. CASE tags = <<"t2", "u">>
    BY <2>2, <2>5
  <2> QED BY <2>3, <2>4, <2>5
<1>2. <<"todo", "code", "link", "table">> \in Seq(Item)
  BY DEF Item
<1>3. PICK c : c = <<"todo", "code", "link", "table">>
  OBVIOUS
<1>4. Text!Commands = c /\ c \in Seq(Item) /\ Len(c) = 4
  BY <1>2, <1>3 DEF Text!Commands
<1>5. PICK p, q : p = Text!filtered(tags, {"t1", "t2"}) /\ q = Text!filtered(c, {"todo", "table"})
  OBVIOUS
<1>6. p \in Seq(Item) /\ Len(p) <= Len(tags)
  BY <1>1, <1>5, KeptTypes
<1>7. q \in Seq(Item) /\ Len(q) <= Len(c)
  BY <1>4, <1>5, KeptTypes
<1>8. PICK s : s = Text!suggestions
  OBVIOUS
<1>9. \/ /\ s \in {tags, p, c, q}
         /\ popup.is = Text!word.is /\ Text!word.is \in {"tag", "command"}
      \/ s = <<>>
  <2>1. \/ /\ popup.is = "tag" /\ Text!word.is = "tag" /\ s = (IF Text!word.q = "" THEN tags ELSE p)
        \/ /\ popup.is = "command" /\ Text!word.is = "command"
           /\ s = (IF Text!word.q = "" THEN c ELSE q)
        \/ s = <<>>
    <3>1. s = CASE popup.is = "tag" /\ Text!word.is = "tag" -> (IF Text!word.q = "" THEN tags ELSE p)
                [] popup.is = "command" /\ Text!word.is = "command" -> (IF Text!word.q = "" THEN c ELSE q)
                [] OTHER -> <<>>
      BY <1>4, <1>5, <1>8, Zenon DEF Text!suggestions
    <3> QED BY <3>1
  <2> QED BY <2>1
<1>10. s \in Seq(Item) /\ Len(s) <= 4
  <2>1. tags \in Seq(Item) /\ Len(tags) <= 4
    BY <1>1
  <2>2. p \in Seq(Item) /\ Len(p) <= 4
    BY <1>1, <1>6
  <2>3. c \in Seq(Item) /\ Len(c) <= 4
    BY <1>4
  <2>4. q \in Seq(Item) /\ Len(q) <= 4
    BY <1>4, <1>7
  <2>5. <<>> \in Seq(Item) /\ Len(<<>>) <= 4
    OBVIOUS
  <2> QED BY <1>9, <2>1, <2>2, <2>3, <2>4, <2>5, Zenon
<1>11. ASSUME Text!isVisible
       PROVE  /\ joined /\ at \in 1..Len(Text!current.words)
              /\ Text!word = Text!current.words[at]
              /\ Text!word.is \in Text!Trigger /\ Len(s) \in 1..4
  <2>1. s # <<>> /\ Text!word.is \in {"tag", "command"}
    BY <1>8, <1>9, <1>11 DEF Text!isVisible
  <2>2. Len(s) \in 1..4
    <3>1. Len(s) \in Nat
      BY <1>10
    <3>2. Len(s) # 0
      BY <1>10, <2>1, NoItems
    <3>3. Len(s) <= 4
      BY <1>10
    <3>4. PICK k : k = Len(s)
      OBVIOUS
    <3>5. k \in Nat /\ k # 0 /\ k <= 4
      BY <3>1, <3>2, <3>3, <3>4, Zenon
    <3>6. k \in 1..4
      BY <3>5
    <3> QED BY <3>4, <3>6, Zenon
  <2>3. joined
    <3>1. ASSUME ~joined PROVE FALSE
      <4>1. Text!word = Text!Plain
        BY <3>1, Zenon DEF Text!word
      <4>2. Text!Plain.is = "plain"
        BY DEF Text!Plain
      <4> QED BY <2>1, <4>1, <4>2
    <3> QED BY <3>1
  <2>4. Text!word = Text!current.words[at]
    BY <2>3, Zenon DEF Text!word
  <2>5. at \in 1..Len(Text!current.words)
    <3>1. PICK k : k = Len(Text!current.words)
      OBVIOUS
    <3>2. Text!Last(lines) = Text!current /\ Text!current.words \in Seq(Text!Word)
      <4>1. LinesTyped(lines)
        BY DEF TextInv, Text!TypeOK, LinesTyped
      <4> QED BY <4>1, CurrentLine
    <3>3. k \in Nat
      BY <3>1, <3>2
    <3>4. at \in 0..k /\ at >= 1
      BY <2>3, <3>1, <3>2, Zenon DEF TextInv, Text!TypeOK
    <3> QED BY <3>1, <3>3, <3>4
  <2> QED BY <2>1, <2>2, <2>3, <2>4, <2>5 DEF Text!Trigger
<1> QED BY <1>8, <1>10, <1>11

\* The cursor is in a text.
CursorIn(ls, a, j) ==
    LinesTyped(ls) /\ a \in 0..Len(Text!Last(ls).words) /\ j \in BOOLEAN /\ (j => a >= 1)
Popup == [is : Text!Trigger \union {"none"}, selected : 1..4]
UserTags == {<<"t1", "t2", "u">>, <<"t2", "u">>}

\* What TextInv says of each variable.
LEMMA TextParts ==
    TextInv <=> /\ CursorIn(lines, at, joined) /\ popup \in Popup
                /\ composing \in BOOLEAN /\ justComposed \in BOOLEAN /\ keys \in 0..MaxKeys
                /\ tags \in UserTags
BY Zenon DEF TextInv, Text!TypeOK, CursorIn, LinesTyped, Popup, UserTags
LEMMA TextPartsNext ==
    TextInv' <=> /\ CursorIn(lines', at', joined') /\ popup' \in Popup
                 /\ composing' \in BOOLEAN /\ justComposed' \in BOOLEAN /\ keys' \in 0..MaxKeys
                 /\ tags' \in UserTags
BY Zenon DEF TextInv, Text!TypeOK, CursorIn, LinesTyped, Popup, UserTags, Text!Last

\* The line of the cursor replaced.
LEMMA LineSet ==
    ASSUME LinesTyped(lines), NEW l \in Text!Line, NEW a \in 0..Len(l.words), NEW j \in BOOLEAN,
           j => a >= 1
    PROVE  CursorIn(Text!Replaced(l), a, j)
<1>1. LinesTyped(Text!Replaced(l)) /\ Text!Last(Text!Replaced(l)) = l
  BY Relined
<1> QED BY <1>1, Zenon DEF CursorIn

\* A line with other words.
LEMMA Worded ==
    ASSUME NEW l \in Text!Line, NEW ws \in Seq(Text!Word)
    PROVE  /\ [l EXCEPT !.words = ws] \in Text!Line
           /\ [l EXCEPT !.words = ws].words = ws /\ [l EXCEPT !.words = ws].mark = l.mark
BY DEF Text!Line
LEMMA Marked ==
    ASSUME NEW l \in Text!Line, NEW m \in Text!Marks, NEW n \in Nat
    PROVE  /\ [l EXCEPT !.mark = m, !.no = n] \in Text!Line
           /\ [l EXCEPT !.mark = m, !.no = n].words = l.words
BY DEF Text!Line

\* A word inserted.
LEMMA Inserted ==
    ASSUME NEW S, NEW s \in Seq(S), NEW i \in 0..Len(s), NEW x \in S
    PROVE  Text!InsertAt(s, i + 1, x) \in Seq(S) /\ Len(Text!InsertAt(s, i + 1, x)) = Len(s) + 1
<1>1. PICK n \in Nat : n = Len(s)
  OBVIOUS
<1>2. PICK a, b, c, d : /\ a = SubSeq(s, 1, i) /\ b = SubSeq(s, i + 1, Len(s))
                        /\ c = <<x>> /\ d = a \o c
  OBVIOUS
<1>3. a \in Seq(S) /\ b \in Seq(S) /\ Len(a) = i /\ Len(b) = n - i
  <2>1. a \in Seq(S) /\ Len(a) = i
    BY <1>1, <1>2
  <2>2. b \in Seq(S) /\ Len(b) = n - i
    BY <1>1, <1>2
  <2> QED BY <2>1, <2>2
<1>4. c \in Seq(S) /\ Len(c) = 1
  BY <1>2
<1>5. d \in Seq(S) /\ Len(d) = i + 1
  <2>1. a \o c \in Seq(S) /\ Len(a \o c) = Len(a) + Len(c)
    BY <1>3, <1>4, JoinedAt
  <2> QED BY <1>2, <1>3, <1>4, <2>1
<1>6. d \o b \in Seq(S) /\ Len(d \o b) = Len(d) + Len(b)
  BY <1>3, <1>5, JoinedAt
<1>7. Len(d) + Len(b) = n + 1
  BY <1>1, <1>3, <1>5
<1>8. Text!InsertAt(s, i + 1, x) = d \o b
  <2>1. (i + 1) - 1 = i
    BY <1>1
  <2> QED BY <1>2, <2>1, Zenon DEF Text!InsertAt
<1> QED BY <1>1, <1>6, <1>7, <1>8

\* The words a line may have.
LEMMA WordsAre ==
    /\ Text!Plain \in Text!Word /\ Text!Plain.is = "plain"
    /\ \A t \in Text!Trigger, q \in Text!Query : [is |-> t, q |-> q] \in Text!Word
    /\ \A i \in Item \union {"undefined"} : Text!Done(i) \in Text!Word /\ Text!Done(i) # Text!Plain
    /\ \A w \in Text!Word : w.is \in Text!Trigger =>
          w # Text!Plain /\ [w EXCEPT !.q = "t"] \in Text!Word
<1>1. PICK c, t : c = <<"todo", "code", "link", "table">> /\ t = <<"t1", "t2", "u">>
  OBVIOUS
<1>2. Text!Commands = c /\ Text!Tags = t
  BY <1>1 DEF Text!Commands, Text!Tags
<1>3. Text!ToSet(Text!Commands) \union Text!ToSet(Text!Tags) = Item
  <2>1. Text!ToSet(c) = {"todo", "code", "link", "table"}
    <3>1. Text!ToSet(c) = {c[i] : i \in 1..4}
      BY <1>1 DEF Text!ToSet
    <3> QED BY <1>1, <3>1
  <2>2. Text!ToSet(t) = {"t1", "t2", "u"}
    <3>1. Text!ToSet(t) = {t[i] : i \in 1..3}
      BY <1>1 DEF Text!ToSet
    <3> QED BY <1>1, <3>1
  <2> QED BY <1>2, <2>1, <2>2 DEF Item
<1>4. PICK P : P = Text!Plain
  OBVIOUS
<1>5. P = [is |-> "plain", q |-> ""]
  BY <1>4, Zenon DEF Text!Plain
<1>6. Text!Word = {P} \union [is : {"tag", "command"}, q : {"", "t"}]
                  \union [is : {"done"}, q : Item \union {"undefined"}]
  <2>1. Text!Word = {P} \union [is : Text!Trigger, q : Text!Query] \union
                    [is : {"done"}, q : Text!ToSet(Text!Commands) \union Text!ToSet(Text!Tags)
                                        \union {"undefined"}]
    BY <1>4, Zenon DEF Text!Word
  <2> QED BY <1>3, <2>1, Zenon DEF Text!Trigger, Text!Query
<1>7. PICK A, B : /\ A = [is : {"tag", "command"}, q : {"", "t"}]
                  /\ B = [is : {"done"}, q : Item \union {"undefined"}]
  OBVIOUS
<1>8. Text!Word = ({P} \union A) \union B
  BY <1>6, <1>7, Zenon
<1>9. P \in Text!Word /\ (\A w \in A : w \in Text!Word) /\ (\A w \in B : w \in Text!Word)
  BY <1>8, Zenon
<1>10. \A w \in Text!Word : w = P \/ w \in A \/ w \in B
  BY <1>8, Zenon
<1>11. P.is = "plain"
  BY <1>5
<1>12. \A r \in Text!Trigger, q \in Text!Query : [is |-> r, q |-> q] \in Text!Word
  <2>1. ASSUME NEW r \in Text!Trigger, NEW q \in Text!Query
        PROVE  [is |-> r, q |-> q] \in A
    BY <1>7 DEF Text!Trigger, Text!Query
  <2> QED BY <1>9, <2>1, Zenon
<1>13. \A i \in Item \union {"undefined"} : Text!Done(i) \in Text!Word /\ Text!Done(i) # P
  <2> TAKE i \in Item \union {"undefined"}
  <2>1. PICK d : d = Text!Done(i)
    OBVIOUS
  <2>2. d = [is |-> "done", q |-> i]
    BY <2>1, Zenon DEF Text!Done
  <2>3. d \in B /\ d.is = "done"
    BY <1>7, <2>2
  <2>4. d # P
    BY <1>11, <2>3
  <2> QED BY <1>9, <2>1, <2>3, <2>4, Zenon
<1>14. \A w \in Text!Word : w.is \in Text!Trigger =>
          w # P /\ [w EXCEPT !.q = "t"] \in Text!Word
  <2> TAKE w \in Text!Word
  <2> HAVE w.is \in Text!Trigger
  <2>1. w.is \in {"tag", "command"}
    BY DEF Text!Trigger
  <2>2. w # P
    BY <1>11, <2>1
  <2>3. ~(w \in B)
    <3>1. \A v \in B : v.is = "done"
      BY <1>7
    <3> QED BY <2>1, <3>1
  <2>4. w \in A
    BY <1>10, <2>2, <2>3, Zenon
  <2>5. [w EXCEPT !.q = "t"] \in A
    BY <1>7, <2>4
  <2> QED BY <1>9, <2>2, <2>5, Zenon
<1> QED BY <1>4, <1>9, <1>11, <1>12, <1>13, <1>14, Zenon

\* The popup shows nothing, or what a trigger calls for.
LEMMA PopupsAre ==
    Text!Hidden \in Popup /\ \A w : Text!Noticed(w) \in Popup
<1>1. Text!Hidden \in Popup
  BY DEF Text!Hidden, Popup
<1>2. ASSUME NEW w PROVE Text!Noticed(w) \in Popup
  BY <1>1 DEF Text!Noticed, Popup
<1> QED BY <1>1, <1>2

\* Three sequences in one.
LEMMA Together ==
    ASSUME NEW S, NEW a \in Seq(S), NEW b \in Seq(S), NEW c \in Seq(S)
    PROVE  (a \o b) \o c = a \o (b \o c)
OBVIOUS

\* Where the cursor is.
LEMMA Here ==
    ASSUME TextInv
    PROVE  /\ LinesTyped(lines) /\ Text!current \in Text!Line
           /\ Text!current.words \in Seq(Text!Word)
           /\ at \in 0..Len(Text!current.words) /\ joined \in BOOLEAN
           /\ joined => at \in 1..Len(Text!current.words) /\ Text!word = Text!current.words[at]
<1>1. CursorIn(lines, at, joined)
  BY TextParts
<1>2. LinesTyped(lines) /\ at \in 0..Len(Text!Last(lines).words) /\ joined \in BOOLEAN /\ (joined => at >= 1)
  BY <1>1, Zenon DEF CursorIn
<1>3. /\ Text!current \in Text!Line /\ Text!current.words \in Seq(Text!Word)
      /\ Text!current = Text!Last(lines)
  BY <1>2, CurrentLine
<1>4. PICK k \in Nat : k = Len(Text!current.words)
  BY <1>3
<1>5. at \in 0..k
  BY <1>2, <1>3, <1>4, Zenon
<1>6. joined => at \in 1..k
  BY <1>2, <1>4, <1>5
<1>7. joined => Text!word = Text!current.words[at]
  BY Zenon DEF Text!word
<1> QED BY <1>2, <1>3, <1>4, <1>5, <1>6, <1>7, Zenon

\* A key more.
LEMMA KeyCounted ==
    ASSUME TextInv, Text!Key
    PROVE  keys' \in 0..MaxKeys
<1>1. keys \in 0..MaxKeys
  BY TextParts
<1> QED BY <1>1, PartsAssumption DEF Text!Key

\* The cursor stays in a text that does not change.
LEMMA Stays ==
    ASSUME TextInv, lines' = lines
    PROVE  /\ \A a \in 0..Len(Text!current.words) : CursorIn(lines', a, FALSE)
           /\ at' = at /\ joined' = joined => CursorIn(lines', at', joined')
<1>1. CursorIn(lines, at, joined)
  BY TextParts
<1>2. Text!current = Text!Last(lines)
  BY Zenon DEF Text!current
<1>3. PICK k : k = Len(Text!current.words)
  OBVIOUS
<1>4. LinesTyped(lines) /\ k = Len(Text!Last(lines).words)
  BY <1>1, <1>2, <1>3, Zenon DEF CursorIn
<1>5. ASSUME NEW a \in 0..k PROVE CursorIn(lines, a, FALSE)
  BY <1>4, Zenon DEF CursorIn
<1> QED BY <1>1, <1>3, <1>5, Zenon

\* The words that begin.
LEMMA WordsBegun ==
    \A w \in {Text!Plain} \union [is : Text!Trigger, q : {""}] : w \in Text!Word
<1> TAKE w \in {Text!Plain} \union [is : Text!Trigger, q : {""}]
<1>1. CASE w = Text!Plain
  BY <1>1, WordsAre
<1>2. CASE w \in [is : Text!Trigger, q : {""}]
  <2>1. PICK t \in Text!Trigger, q \in {""} : w = [is |-> t, q |-> q]
    BY <1>2
  <2>2. q \in Text!Query
    BY DEF Text!Query
  <2> QED BY <2>1, <2>2, WordsAre, Zenon
<1> QED BY <1>1, <1>2

\* A word is typed, one letter of it or the mark of an item.
LEMMA TypesWord ==
    ASSUME TextInv, NEW w \in Text!Word, Text!TypeWord(w)
    PROVE  TextInv'
<1>1. w \in Text!Word
  OBVIOUS
<1>2. PICK c : c = Text!current
  OBVIOUS
<1>3. c \in Text!Line /\ c.words \in Seq(Text!Word) /\ at \in 0..Len(c.words) /\ LinesTyped(lines)
  BY <1>2, Here
<1>4. PICK k \in Nat : k = Len(c.words)
  <2>1. c.words \in Seq(Text!Word)
    BY <1>3, Zenon
  <2>2. Len(c.words) \in Nat
    BY <2>1
  <2> QED BY <2>2, Zenon
<1>5. PICK v : v = Text!InsertAt(c.words, at + 1, w)
  OBVIOUS
<1>6. v \in Seq(Text!Word) /\ Len(v) = k + 1
  <2>1. c.words \in Seq(Text!Word) /\ at \in 0..Len(c.words)
    BY <1>3, Zenon
  <2>2. /\ Text!InsertAt(c.words, at + 1, w) \in Seq(Text!Word)
        /\ Len(Text!InsertAt(c.words, at + 1, w)) = Len(c.words) + 1
    BY <1>1, <2>1, Inserted
  <2>3. v \in Seq(Text!Word) /\ Len(v) = Len(c.words) + 1
    BY <1>5, <2>2, Zenon
  <2>4. Len(v) = k + 1
    BY <1>4, <2>3, Zenon
  <2> QED BY <2>3, <2>4, Zenon
<1>7. PICK l : l = [c EXCEPT !.words = v]
  OBVIOUS
<1>8. l \in Text!Line /\ l.words = v
  BY <1>3, <1>6, <1>7, Worded
<1>9. lines' = Text!Replaced(l) /\ at' = at + 1 /\ joined' = TRUE /\ popup' = Text!Noticed(w)
  <2>1. l = [c EXCEPT !.words = Text!InsertAt(@, at + 1, w)]
    BY <1>5, <1>7, Zenon
  <2> QED BY <1>2, <2>1, Zenon DEF Text!TypeWord
<1>10. at + 1 \in 0..Len(l.words) /\ at + 1 >= 1
  <2>1. at \in 0..k
    BY <1>3, <1>4, Zenon
  <2>2. PICK a : a = at
    OBVIOUS
  <2>3. a \in 0..k
    BY <2>1, <2>2, Zenon
  <2>4. a + 1 \in 0..(k + 1) /\ a + 1 >= 1
    BY <2>3
  <2>5. Len(l.words) = k + 1
    BY <1>6, <1>8, Zenon
  <2> QED BY <2>2, <2>4, <2>5, Zenon
<1>11. CursorIn(lines', at', joined')
  <2>1. TRUE \in BOOLEAN
    OBVIOUS
  <2>2. CursorIn(Text!Replaced(l), at + 1, TRUE)
    BY <1>3, <1>8, <1>10, <2>1, LineSet
  <2> QED BY <1>9, <2>2
<1>12. popup' \in Popup
  BY <1>9, PopupsAre
<1>13. Text!Key /\ tags' = tags /\ composing' = composing /\ justComposed' = justComposed
  BY Zenon DEF Text!TypeWord
<1> QED BY <1>11, <1>12, <1>13, KeyCounted, TextParts, TextPartsNext, Zenon

LEMMA TypesMark ==
    ASSUME TextInv, NEW mark \in Text!Marks \ {"none"}, Text!TypeMark(mark)
    PROVE  TextInv'
<1>1. PICK n : n = IF mark = "number" THEN 1 ELSE 0
  OBVIOUS
<1>2. n \in Nat
  BY <1>1
<1>3. PICK c : c = Text!Blank
  OBVIOUS
<1>4. PICK l : l = [c EXCEPT !.mark = mark, !.no = n]
  OBVIOUS
<1>5. /\ Text!current = c /\ lines' = Text!Replaced(l) /\ popup' = Text!Hidden
      /\ at' = at /\ joined' = joined /\ ~joined
  BY <1>1, <1>3, <1>4, Zenon DEF Text!TypeMark
<1>6. c \in Text!Line /\ at \in 0..Len(c.words) /\ LinesTyped(lines)
  BY <1>5, Here
<1>7. l \in Text!Line /\ l.words = c.words
  BY <1>2, <1>4, <1>6, Marked
<1>8. CursorIn(lines', at', joined')
  <2>1. at \in 0..Len(l.words) /\ joined \in BOOLEAN /\ (joined => at >= 1)
    BY <1>5, <1>6, <1>7, Here, Zenon
  <2>2. CursorIn(Text!Replaced(l), at, joined)
    BY <1>6, <1>7, <2>1, LineSet
  <2> QED BY <1>5, <2>2
<1>9. Text!Key /\ tags' = tags /\ composing' = composing /\ justComposed' = justComposed
  BY Zenon DEF Text!TypeMark
<1> QED BY <1>5, <1>8, <1>9, KeyCounted, PopupsAre, TextParts, TextPartsNext, Zenon

LEMMA TypesOn ==
    ASSUME TextInv, Text!TypeOn
    PROVE  TextInv'
<1>1. /\ Text!Key /\ joined /\ at' = at /\ tags' = tags /\ composing' = composing
      /\ justComposed' = justComposed
  BY Zenon DEF Text!TypeOn
<1>2. PICK c : c = Text!current
  OBVIOUS
<1>3. /\ c \in Text!Line /\ c.words \in Seq(Text!Word) /\ LinesTyped(lines)
      /\ at \in 1..Len(c.words) /\ at \in 0..Len(c.words) /\ Text!word = c.words[at]
  BY <1>1, <1>2, Here
<1>4. ASSUME /\ Text!word.is \in Text!Trigger
             /\ lines' = Text!Replaced([c EXCEPT !.words[at].q = "t"])
             /\ popup' = Text!Noticed(Text!word) /\ joined' = joined
      PROVE  CursorIn(lines', at', joined') /\ popup' \in Popup
  <2>1. PICK w : w = [Text!word EXCEPT !.q = "t"]
    OBVIOUS
  <2>2. w \in Text!Word
    <3>1. Text!word \in Text!Word
      BY <1>3
    <3> QED BY <1>4, <2>1, <3>1, WordsAre
  <2>3. PICK v : v = [c.words EXCEPT ![at] = w]
    OBVIOUS
  <2>4. v \in Seq(Text!Word) /\ Len(v) = Len(c.words)
    BY <1>3, <2>2, <2>3
  <2>5. PICK l : l = [c EXCEPT !.words = v]
    OBVIOUS
  <2>6. l \in Text!Line /\ l.words = v
    BY <1>3, <2>4, <2>5, Worded
  <2>7. lines' = Text!Replaced(l)
    <3>1. [c EXCEPT !.words[at].q = "t"] = [c EXCEPT !.words = [c.words EXCEPT ![at] = [c.words[at] EXCEPT !.q = "t"]]]
      OBVIOUS
    <3>2. l = [c EXCEPT !.words[at].q = "t"]
      BY <1>3, <2>1, <2>3, <2>5, <3>1
    <3> QED BY <1>4, <3>2, Zenon
  <2>8. at \in 0..Len(l.words) /\ joined \in BOOLEAN /\ (joined => at >= 1)
    BY <1>3, <2>4, <2>6, Here
  <2>9. CursorIn(Text!Replaced(l), at, joined)
    BY <1>3, <2>6, <2>8, LineSet
  <2>10. at' = at /\ joined' = joined
    BY <1>1, <1>4
  <2> QED BY <1>4, <2>7, <2>9, <2>10, PopupsAre, Zenon
<1>5. ASSUME joined' = FALSE, popup' = Text!Hidden, lines' = lines
      PROVE  CursorIn(lines', at', joined') /\ popup' \in Popup
  BY <1>1, <1>2, <1>3, <1>5, PopupsAre, Stays, Zenon
<1>6. CursorIn(lines', at', joined') /\ popup' \in Popup
  <2>1. \/ /\ Text!word.is \in Text!Trigger
           /\ lines' = Text!Replaced([c EXCEPT !.words[at].q = "t"])
           /\ popup' = Text!Noticed(Text!word) /\ joined' = joined
        \/ joined' = FALSE /\ popup' = Text!Hidden /\ lines' = lines
    BY <1>2, Zenon DEF Text!TypeOn
  <2> QED BY <1>4, <1>5, <2>1
<1> QED BY <1>1, <1>6, KeyCounted, TextParts, TextPartsNext, Zenon

\* The cursor moves, the popup is closed or another of its items selected.
LEMMA MovesCursor ==
    ASSUME TextInv, NEW n \in 0..2, Text!MoveCursor(n)
    PROVE  TextInv'
<1>1. /\ Text!Key /\ n \in 0..Len(Text!current.words) /\ at' = n /\ joined' = FALSE
      /\ popup' = Text!Hidden /\ lines' = lines
      /\ tags' = tags /\ composing' = composing /\ justComposed' = justComposed
  BY Zenon DEF Text!MoveCursor
<1>2. CursorIn(lines', at', joined')
  BY <1>1, Stays, Zenon
<1> QED BY <1>1, <1>2, KeyCounted, PopupsAre, TextParts, TextPartsNext, Zenon

LEMMA Escapes ==
    ASSUME TextInv, Text!Escape
    PROVE  TextInv'
<1>1. /\ Text!Key /\ popup' = Text!Hidden /\ lines' = lines /\ at' = at /\ joined' = joined
      /\ tags' = tags /\ composing' = composing /\ justComposed' = justComposed
  BY Zenon DEF Text!Escape
<1>2. CursorIn(lines', at', joined')
  BY <1>1, Stays, Zenon
<1> QED BY <1>1, <1>2, KeyCounted, PopupsAre, TextParts, TextPartsNext, Zenon

LEMMA ArrowMoves ==
    ASSUME TextInv, NEW d \in {1, Len(Text!suggestions) - 1}, Text!Arrow(d)
    PROVE  TextInv'
<1>1. /\ Text!Key /\ Text!isVisible /\ lines' = lines /\ at' = at /\ joined' = joined
      /\ popup' = [popup EXCEPT !.selected = ((@ - 1 + d) % Len(Text!suggestions)) + 1]
      /\ tags' = tags /\ composing' = composing /\ justComposed' = justComposed
  BY Zenon DEF Text!Arrow
<1>2. CursorIn(lines', at', joined')
  BY <1>1, Stays, Zenon
<1>3. popup' \in Popup
  <2>1. popup \in Popup
    BY TextParts
  <2>2. PICK k : k = Len(Text!suggestions)
    OBVIOUS
  <2>3. k \in 1..4
    BY <1>1, <2>2, SuggestionsAre, Zenon
  <2>4. PICK s : s = ((popup.selected - 1 + d) % k) + 1
    OBVIOUS
  <2>5. popup.selected \in 1..4
    BY <2>1 DEF Popup
  <2>6. s \in 1..4
    <3>1. PICK o : o = popup.selected
      OBVIOUS
    <3>2. d = 1 \/ d = k - 1
      BY <2>2
    <3>3. o \in 1..4
      BY <2>5, <3>1
    <3>4. PICK e : e = o - 1 + d
      OBVIOUS
    <3>5. e \in Nat
      BY <2>3, <3>2, <3>3, <3>4
    <3>6. e % k \in 0..(k - 1)
      BY <2>3, <3>5
    <3>7. s = (e % k) + 1
      BY <2>4, <3>1, <3>4
    <3> QED BY <2>3, <3>6, <3>7
  <2>7. popup' = [popup EXCEPT !.selected = s]
    BY <1>1, <2>2, <2>4, Zenon
  <2> QED BY <2>1, <2>6, <2>7 DEF Popup
<1> QED BY <1>1, <1>2, <1>3, KeyCounted, TextParts, TextPartsNext, Zenon

\* The input method, and the tags that are fetched.
LEMMA Composes ==
    ASSUME TextInv, Text!Compose \/ Text!Later
    PROVE  TextInv'
<1>1. /\ lines' = lines /\ at' = at /\ joined' = joined /\ popup' = popup /\ tags' = tags
      /\ \/ Text!Key /\ composing' \in BOOLEAN /\ justComposed' \in {TRUE, justComposed}
         \/ keys' = keys /\ composing' = composing /\ justComposed' = FALSE
  <2>1. CASE Text!Compose
    BY <2>1 DEF Text!Compose
  <2>2. CASE Text!Later
    BY <2>2 DEF Text!Later
  <2> QED BY <2>1, <2>2
<1>2. CursorIn(lines', at', joined')
  BY <1>1, Stays, Zenon
<1>3. keys \in 0..MaxKeys /\ composing \in BOOLEAN /\ justComposed \in BOOLEAN
  BY TextParts
<1>4. composing' \in BOOLEAN /\ justComposed' \in BOOLEAN /\ keys' \in 0..MaxKeys
  <2>1. CASE Text!Key /\ composing' \in BOOLEAN /\ justComposed' \in {TRUE, justComposed}
    <3>1. keys' \in 0..MaxKeys
      BY <2>1, KeyCounted
    <3> QED BY <1>3, <2>1, <3>1
  <2>2. CASE keys' = keys /\ composing' = composing /\ justComposed' = FALSE
    BY <1>3, <2>2
  <2> QED BY <1>1, <2>1, <2>2
<1> QED BY <1>1, <1>2, <1>4, TextParts, TextPartsNext, Zenon

LEMMA FetchesTags ==
    ASSUME TextInv, Text!TagsFetched
    PROVE  TextInv'
<1>1. /\ Text!Key /\ Len(tags) = 3 /\ tags' = Tail(tags) /\ lines' = lines /\ at' = at
      /\ joined' = joined /\ popup' = popup
      /\ composing' = composing /\ justComposed' = justComposed
  BY Zenon DEF Text!TagsFetched
<1>2. CursorIn(lines', at', joined')
  BY <1>1, Stays, Zenon
<1>3. tags' \in UserTags
  <2>1. tags = <<"t1", "t2", "u">> \/ tags = <<"t2", "u">>
    BY DEF TextInv
  <2>2. CASE tags = <<"t2", "u">>
    BY <1>1, <2>2
  <2>3. CASE tags = <<"t1", "t2", "u">>
    <3>1. Tail(<<"t1", "t2", "u">>) = <<"t2", "u">>
      OBVIOUS
    <3> QED BY <1>1, <2>3, <3>1 DEF UserTags
  <2> QED BY <2>1, <2>2, <2>3
<1> QED BY <1>1, <1>2, <1>3, KeyCounted, TextParts, TextPartsNext, Zenon

\* What is left of a text with a line replaced, when the words that settled are.
LEMMA SettledIs ==
    ASSUME LinesTyped(lines), NEW l \in Text!Line,
           Text!filtered(l.words, {Text!Plain}) = Text!filtered(Text!current.words, {Text!Plain})
    PROVE  Text!Settled(Text!Replaced(l)) = Text!Settled(lines)
<1>1. PICK f, c, w : /\ f = Text!Words(Text!Front(lines)) /\ c = Text!current.words /\ w = l.words
  OBVIOUS
<1>2. /\ f \in Seq(Text!Word) /\ c \in Seq(Text!Word) /\ Text!Words(lines) = f \o c
  BY <1>1, CurrentLine
<1>3. Text!Words(Text!Replaced(l)) = f \o w
  BY <1>1, Relined
<1>4. w \in Seq(Text!Word)
  BY <1>1 DEF Text!Line
<1>5. \A a, b \in Seq(Text!Word) :
          Text!filtered(a \o b, {Text!Plain})
            = Text!filtered(a, {Text!Plain}) \o Text!filtered(b, {Text!Plain})
  <2> TAKE a, b \in Seq(Text!Word)
  <2> QED BY KeptJoined, Z3T(20)
<1>6. Text!filtered(f \o w, {Text!Plain}) = Text!filtered(f \o c, {Text!Plain})
  <2>1. Text!filtered(f \o w, {Text!Plain})
          = Text!filtered(f, {Text!Plain}) \o Text!filtered(w, {Text!Plain})
    BY <1>2, <1>4, <1>5, Zenon
  <2>2. Text!filtered(f \o c, {Text!Plain})
          = Text!filtered(f, {Text!Plain}) \o Text!filtered(c, {Text!Plain})
    BY <1>2, <1>5, Zenon
  <2>3. Text!filtered(w, {Text!Plain}) = Text!filtered(c, {Text!Plain})
    BY <1>1
  <2> QED BY <2>1, <2>2, <2>3, Zenon
<1> QED BY <1>2, <1>3, <1>6, Zenon DEF Text!Settled

\* What is highlighted takes the place of the word that called for it.
LEMMA Completes ==
    ASSUME TextInv, Text!isVisible, NEW i, Text!handleAutocomplete(i)
    PROVE  /\ CursorIn(lines', at', joined') /\ popup' \in Popup
           /\ Text!Settled(lines') = Text!Settled(lines) /\ Len(lines') = Len(lines)
<1>1. PICK c : c = Text!current
  OBVIOUS
<1>2. PICK item : item = IF i \in DOMAIN Text!suggestions THEN Text!suggestions[i] ELSE "undefined"
  OBVIOUS
<1>3. item \in Item \union {"undefined"}
  <2>1. PICK s : s = Text!suggestions
    OBVIOUS
  <2>2. s \in Seq(Item)
    BY <2>1, SuggestionsAre
  <2>3. i \in DOMAIN s => s[i] \in Item
    BY <2>2
  <2> QED BY <1>2, <2>1, <2>3
<1>4. PICK rest : rest = Text!RemoveAt(c.words, at)
  OBVIOUS
<1>5. /\ \/ lines' = Text!Replaced([c EXCEPT !.mark = "task", !.words = rest]) /\ at' = 0
         \/ lines' = Text!Replaced([c EXCEPT !.words[at] = Text!Done(item)]) /\ at' = at
      /\ joined' = FALSE /\ popup' = Text!Hidden
  BY <1>1, <1>2, <1>4, Zenon DEF Text!handleAutocomplete
<1>6. LinesTyped(lines) /\ c \in Text!Line /\ c.words \in Seq(Text!Word)
  BY <1>1, Here
<1>7. /\ at \in 1..Len(c.words) /\ Text!word = c.words[at] /\ Text!word.is \in Text!Trigger
  BY <1>1, SuggestionsAre
<1>8. c.words[at] \in Text!Word /\ c.words[at] \notin {Text!Plain}
  <2>1. c.words[at] \in Text!Word
    BY <1>6, <1>7
  <2>2. \A w \in Text!Word : w.is \in Text!Trigger => w # Text!Plain
    BY WordsAre, Zenon
  <2>3. c.words[at] # Text!Plain
    BY <1>7, <2>1, <2>2, Zenon
  <2> QED BY <2>1, <2>3
<1>9. /\ rest \in Seq(Text!Word)
      /\ Text!filtered(rest, {Text!Plain}) = Text!filtered(c.words, {Text!Plain})
      /\ \A x \in Text!Word \ {Text!Plain} :
            Text!filtered([c.words EXCEPT ![at] = x], {Text!Plain}) = Text!filtered(c.words, {Text!Plain})
  <2>1. \A s \in Seq(Text!Word) : \A a \in 1..Len(s) : s[a] \notin {Text!Plain} =>
           /\ Text!filtered(Text!RemoveAt(s, a), {Text!Plain}) = Text!filtered(s, {Text!Plain})
           /\ Text!RemoveAt(s, a) \in Seq(Text!Word)
           /\ \A x \in Text!Word \ {Text!Plain} :
                 Text!filtered([s EXCEPT ![a] = x], {Text!Plain}) = Text!filtered(s, {Text!Plain})
    <3> TAKE s \in Seq(Text!Word)
    <3> TAKE a \in 1..Len(s)
    <3> HAVE s[a] \notin {Text!Plain}
    <3>1. s[a] \notin {Text!Plain}
      OBVIOUS
    <3>2. PICK T : T = {Text!Plain}
      OBVIOUS
    <3>3. s[a] \notin T
      BY <3>1, <3>2, Zenon
    <3>4. /\ Text!filtered(Text!RemoveAt(s, a), T) = Text!filtered(s, T)
          /\ Text!RemoveAt(s, a) \in Seq(Text!Word)
          /\ \A x \in Text!Word \ T : Text!filtered([s EXCEPT ![a] = x], T) = Text!filtered(s, T)
      BY <3>3, KeptWithout
    <3> QED BY <3>2, <3>4, Zenon
  <2>2. c.words \in Seq(Text!Word) /\ at \in 1..Len(c.words) /\ c.words[at] \notin {Text!Plain}
    BY <1>6, <1>7, <1>8
  <2> QED BY <1>4, <2>1, <2>2, Zenon
<1>10. ASSUME NEW l, l \in Text!Line, lines' = Text!Replaced(l), at' \in 0..Len(l.words),
              Text!filtered(l.words, {Text!Plain}) = Text!filtered(c.words, {Text!Plain})
       PROVE  /\ CursorIn(lines', at', joined')
              /\ Text!Settled(lines') = Text!Settled(lines) /\ Len(lines') = Len(lines)
  <2>1. CursorIn(Text!Replaced(l), at', FALSE)
    <3>1. LinesTyped(Text!Replaced(l)) /\ Text!Last(Text!Replaced(l)) = l
      BY <1>6, <1>10, Relined
    <3> QED BY <1>10, <3>1, Zenon DEF CursorIn
  <2>2. Len(Text!Replaced(l)) = Len(lines)
    BY <1>6, <1>10, Relined
  <2>3. Text!Settled(Text!Replaced(l)) = Text!Settled(lines)
    BY <1>1, <1>6, <1>10, SettledIs
  <2> QED BY <1>5, <1>10, <2>1, <2>2, <2>3, Zenon
<1>11. ASSUME lines' = Text!Replaced([c EXCEPT !.mark = "task", !.words = rest]), at' = 0
       PROVE  /\ CursorIn(lines', at', joined')
              /\ Text!Settled(lines') = Text!Settled(lines) /\ Len(lines') = Len(lines)
  <2>1. PICK l : l = [c EXCEPT !.mark = "task", !.words = rest]
    OBVIOUS
  <2>2. l \in Text!Line /\ l.words = rest
    BY <1>6, <1>9, <2>1 DEF Text!Line, Text!Marks
  <2>3. at' \in 0..Len(l.words)
    <3>1. Len(rest) \in Nat
      BY <1>9
    <3>2. 0 \in 0..Len(rest)
      BY <3>1
    <3> QED BY <1>11, <2>2, <3>2, Zenon
  <2> QED BY <1>9, <1>10, <1>11, <2>1, <2>2, <2>3, Zenon
<1>12. ASSUME lines' = Text!Replaced([c EXCEPT !.words[at] = Text!Done(item)]), at' = at
       PROVE  /\ CursorIn(lines', at', joined')
              /\ Text!Settled(lines') = Text!Settled(lines) /\ Len(lines') = Len(lines)
  <2>1. PICK d : d = Text!Done(item)
    OBVIOUS
  <2>2. d \in Text!Word /\ d \in Text!Word \ {Text!Plain}
    <3>1. d \in Text!Word /\ d # Text!Plain
      BY <1>3, <2>1, WordsAre, Zenon
    <3> QED BY <3>1
  <2>3. PICK v : v = [c.words EXCEPT ![at] = d]
    OBVIOUS
  <2>4. v \in Seq(Text!Word) /\ Len(v) = Len(c.words)
    BY <1>6, <1>7, <2>2, <2>3
  <2>5. PICK l : l = [c EXCEPT !.words = v]
    OBVIOUS
  <2>6. l \in Text!Line /\ l.words = v
    BY <1>6, <2>4, <2>5, Worded
  <2>7. lines' = Text!Replaced(l)
    <3>1. [c EXCEPT !.words[at] = d] = [c EXCEPT !.words = [c.words EXCEPT ![at] = d]]
      OBVIOUS
    <3>2. l = [c EXCEPT !.words[at] = d]
      BY <2>3, <2>5, <3>1
    <3> QED BY <1>12, <2>1, <3>2, Zenon
  <2>8. at' \in 0..Len(l.words)
    <3>1. at \in 0..Len(c.words)
      BY <1>1, Here
    <3> QED BY <1>12, <2>4, <2>6, <3>1, Zenon
  <2>9. Text!filtered(l.words, {Text!Plain}) = Text!filtered(c.words, {Text!Plain})
    BY <1>9, <2>2, <2>3, <2>6, Zenon
  <2> QED BY <1>10, <2>6, <2>7, <2>8, <2>9, Zenon
<1> QED BY <1>5, <1>11, <1>12, PopupsAre, Zenon

\* What a key does to the text, without the words being another.
SameWords(ls, more) == Text!Words(ls) = Text!Words(lines) /\ Len(ls) = Len(lines) + more

\* A line is broken at the cursor, and every word is there.
LEMMA Breaks ==
    ASSUME TextInv, NEW m \in Text!Marks, NEW n \in Nat, Text!Split(m, n)
    PROVE  /\ CursorIn(lines', at', joined') /\ SameWords(lines', 1)
           /\ Text!Last(lines').mark = m
<1>1. PICK c, k : c = Text!current /\ k = at
  OBVIOUS
<1>2. PICK a, b : /\ a = SubSeq(c.words, 1, k)
                  /\ b = SubSeq(c.words, k + 1, Len(c.words))
  OBVIOUS
<1>3. PICK l, r : /\ l = [c EXCEPT !.words = a]
                  /\ r = [mark |-> m, no |-> n, words |-> b]
  OBVIOUS
<1>4. PICK g : g = Text!Replaced(l)
  OBVIOUS
<1>5. lines' = Append(g, r) /\ at' = 0 /\ joined' = FALSE
  BY <1>1, <1>2, <1>3, <1>4, Zenon DEF Text!Split
<1>6. LinesTyped(lines) /\ c \in Text!Line /\ c.words \in Seq(Text!Word) /\ k \in 0..Len(c.words)
  BY <1>1, Here
<1>7. a \in Seq(Text!Word) /\ b \in Seq(Text!Word) /\ c.words = a \o b
  <2>1. \A s \in Seq(Text!Word) : \A i \in 0..Len(s) :
           /\ SubSeq(s, 1, i) \in Seq(Text!Word)
           /\ SubSeq(s, i + 1, Len(s)) \in Seq(Text!Word)
           /\ s = SubSeq(s, 1, i) \o SubSeq(s, i + 1, Len(s))
    BY CutInTwo
  <2> QED BY <1>2, <1>6, <2>1, Zenon
<1>8. l \in Text!Line /\ l.words = a
  BY <1>3, <1>6, <1>7, Worded
<1>9. r \in Text!Line /\ r.words = b /\ r.mark = m
  BY <1>3, <1>7 DEF Text!Line
<1>10. PICK f : f = Text!Words(Text!Front(lines))
  OBVIOUS
<1>11. /\ LinesTyped(g) /\ Len(g) = Len(lines) /\ Text!Words(g) = f \o a
  BY <1>4, <1>6, <1>8, <1>10, Relined
<1>12. f \in Seq(Text!Word) /\ Text!Words(lines) = f \o c.words
  BY <1>1, <1>6, <1>10, CurrentLine
<1>13. PICK h : h = Append(g, r)
  OBVIOUS
<1>14. g \in Seq(Text!Line)
  BY <1>11 DEF LinesTyped
<1>15. h \in Seq(Text!Line) /\ Len(h) = Len(g) + 1 /\ h[Len(g) + 1] = r /\ h # <<>>
  BY <1>9, <1>13, <1>14
<1>16. Text!Last(h) = r
  BY <1>15, Zenon DEF Text!Last
<1>17. Text!Words(h) = Text!Words(g) \o b
  <2>1. Text!Words(Append(g, r)) = Text!Words(g) \o r.words
    BY <1>9, <1>14, WordsAppend
  <2> QED BY <1>9, <1>13, <2>1, Zenon
<1>18. Text!Words(h) = Text!Words(lines)
  <2>1. (f \o a) \o b = f \o (a \o b)
    BY <1>7, <1>12, Together
  <2> QED BY <1>7, <1>11, <1>12, <1>17, <2>1, Zenon
<1>19. CursorIn(h, 0, FALSE)
  <2>1. Len(b) \in Nat
    BY <1>7
  <2>2. 0 \in 0..Len(b)
    BY <2>1
  <2>3. 0 \in 0..Len(Text!Last(h).words)
    BY <1>9, <1>16, <2>2, Zenon
  <2>4. LinesTyped(h)
    BY <1>15, Zenon DEF LinesTyped
  <2> QED BY <2>3, <2>4, Zenon DEF CursorIn
<1> QED BY <1>5, <1>9, <1>11, <1>13, <1>15, <1>16, <1>18, <1>19, Zenon DEF SameWords

\* A list is ended or continued.
LEMMA CompletesList ==
    ASSUME TextInv, Text!CompleteList
    PROVE  /\ CursorIn(lines', at', joined')
           /\ \/ SameWords(lines', 0)
              \/ SameWords(lines', 1) /\ Text!Last(lines').mark = Text!current.mark
<1>1. PICK c : c = Text!current
  OBVIOUS
<1>2. /\ LinesTyped(lines) /\ c \in Text!Line /\ c.mark \in Text!Marks /\ c.no \in Nat
      /\ at \in 0..Len(c.words) /\ joined \in BOOLEAN /\ (joined => at >= 1)
  <2>1. /\ LinesTyped(lines) /\ c \in Text!Line
        /\ at \in 0..Len(c.words) /\ joined \in BOOLEAN
    BY <1>1, Here
  <2>2. c.mark \in Text!Marks /\ c.no \in Nat
    BY <2>1 DEF Text!Line
  <2>3. joined => at >= 1
    BY TextParts, Zenon DEF CursorIn
  <2> QED BY <2>1, <2>2, <2>3
<1>3. CASE at = 0
  <2>1. PICK l : l = [c EXCEPT !.mark = "none", !.no = 0]
    OBVIOUS
  <2>2. lines' = Text!Replaced(l) /\ at' = at /\ joined' = joined
    BY <1>1, <1>3, <2>1, Zenon DEF Text!CompleteList
  <2>3. l \in Text!Line /\ l.words = c.words
    <3>1. "none" \in Text!Marks /\ 0 \in Nat
      BY DEF Text!Marks
    <3> QED BY <1>2, <2>1, <3>1, Marked
  <2>4. CursorIn(Text!Replaced(l), at, joined)
    <3>1. at \in 0..Len(l.words)
      BY <1>2, <2>3
    <3> QED BY <1>2, <2>3, <3>1, LineSet
  <2>5. SameWords(Text!Replaced(l), 0)
    <3>1. /\ Len(Text!Replaced(l)) = Len(lines)
          /\ Text!Words(Text!Replaced(l)) = Text!Words(Text!Front(lines)) \o l.words
      BY <1>2, <2>3, Relined
    <3>2. Text!Words(lines) = Text!Words(Text!Front(lines)) \o c.words
      BY <1>1, <1>2, CurrentLine
    <3>3. Len(lines) \in Nat
      BY <1>2 DEF LinesTyped
    <3>4. Len(lines) = Len(lines) + 0
      BY <3>3
    <3> QED BY <2>3, <3>1, <3>2, <3>4, Zenon DEF SameWords
  <2> QED BY <2>2, <2>4, <2>5, Zenon
<1>4. CASE at # 0
  <2>1. PICK n : n = IF c.mark = "number" THEN c.no + 1 ELSE 0
    OBVIOUS
  <2>2. n \in Nat
    BY <1>2, <2>1
  <2>3. Text!Split(c.mark, n)
    <3>1. Text!Continued
      BY <1>4, Zenon DEF Text!CompleteList
    <3> QED BY <1>1, <2>1, <3>1, Zenon DEF Text!Continued
  <2> QED BY <1>1, <1>2, <2>2, <2>3, Breaks, Zenon
<1> QED BY <1>3, <1>4

\* Enter completes, or ends or continues a list, or breaks the line, and one only.
LEMMA EnterIs ==
    ASSUME TextInv, Text!Enter
    PROVE  /\ CursorIn(lines', at', joined') /\ popup' \in Popup
           /\ tags' = tags /\ justComposed' = justComposed /\ composing' = composing
           /\ Text!Key
           /\ \/ /\ Text!isVisible
                 /\ Text!Settled(lines') = Text!Settled(lines) /\ Len(lines') = Len(lines)
              \/ ~Text!isVisible /\ lines' = lines
              \/ /\ ~Text!isVisible /\ ~composing
                 /\ \/ SameWords(lines', 0)
                    \/ /\ SameWords(lines', 1)
                       /\ Text!Last(lines').mark = Text!current.mark \/ justComposed
<1>1. /\ Text!Key /\ tags' = tags /\ justComposed' = justComposed /\ composing' = composing
      /\ \/ Text!isVisible /\ Text!handleAutocomplete(popup.selected)
         \/ /\ ~Text!isVisible /\ composing
            /\ lines' = lines /\ at' = at /\ joined' = joined /\ popup' = popup
         \/ /\ ~Text!isVisible /\ ~composing
            /\ \/ Text!CompleteList /\ popup' = popup
               \/ /\ Text!current.mark = "none" \/ justComposed
                  /\ Text!Split("none", 0) /\ popup' = Text!Hidden
  BY Zenon DEF Text!Enter
<1>2. popup \in Popup
  BY TextParts
<1>3. CASE Text!isVisible /\ Text!handleAutocomplete(popup.selected)
  BY <1>1, <1>3, Completes, Zenon
<1>4. CASE /\ ~Text!isVisible /\ composing
           /\ lines' = lines /\ at' = at /\ joined' = joined /\ popup' = popup
  BY <1>1, <1>2, <1>4, Stays, Zenon
<1>5. CASE ~Text!isVisible /\ ~composing /\ Text!CompleteList /\ popup' = popup
  BY <1>1, <1>2, <1>5, CompletesList, Zenon
<1>6. CASE /\ ~Text!isVisible /\ ~composing
           /\ Text!current.mark = "none" \/ justComposed
           /\ Text!Split("none", 0) /\ popup' = Text!Hidden
  <2>1. "none" \in Text!Marks /\ 0 \in Nat
    BY DEF Text!Marks
  <2>2. /\ CursorIn(lines', at', joined') /\ SameWords(lines', 1)
        /\ Text!Last(lines').mark = "none"
    BY <1>6, <2>1, Breaks, Zenon
  <2> QED BY <1>1, <1>6, <2>2, PopupsAre, Zenon
<1> QED BY <1>1, <1>3, <1>4, <1>5, <1>6, Zenon

\* Tab, and the mouse on an item, complete.
LEMMA TabPicks ==
    ASSUME TextInv, Text!Tab \/ \E i \in 1..4 : Text!Pick(i)
    PROVE  TextInv'
<1>1. PICK i : /\ Text!handleAutocomplete(i) /\ Text!isVisible /\ Text!Key
               /\ tags' = tags /\ composing' = composing /\ justComposed' = justComposed
  <2>1. CASE Text!Tab
    BY <2>1, Zenon DEF Text!Tab
  <2>2. ASSUME NEW i \in 1..4, Text!Pick(i)
        PROVE  /\ Text!handleAutocomplete(i) /\ Text!isVisible /\ Text!Key
               /\ tags' = tags /\ composing' = composing /\ justComposed' = justComposed
    <3>1. /\ Text!handleAutocomplete(i) /\ i \in DOMAIN Text!suggestions /\ Text!Key
          /\ tags' = tags /\ composing' = composing /\ justComposed' = justComposed
      BY <2>2, Zenon DEF Text!Pick
    <3>2. DOMAIN <<>> = {}
      OBVIOUS
    <3>3. Text!isVisible
      BY <3>1, <3>2, Zenon DEF Text!isVisible
    <3> QED BY <3>1, <3>3
  <2> QED BY <2>1, <2>2, Zenon
<1>2. CursorIn(lines', at', joined') /\ popup' \in Popup
  BY <1>1, Completes, Zenon
<1> QED BY <1>1, <1>2, KeyCounted, TextParts, TextPartsNext, Zenon

\* TextInv in every step of the typing.
LEMMA TextStep == TextInv /\ Text!Next => TextInv'
<1> SUFFICES ASSUME TextInv, Text!Next PROVE TextInv'
  OBVIOUS
<1>1. CASE \E w \in {Text!Plain} \union [is : Text!Trigger, q : {""}] : Text!TypeWord(w)
  BY <1>1, TypesWord, WordsBegun, Zenon
<1>2. CASE \E mark \in Text!Marks \ {"none"} : Text!TypeMark(mark)
  BY <1>2, TypesMark, Zenon
<1>3. CASE Text!TypeOn
  BY <1>3, TypesOn
<1>4. CASE Text!Escape
  BY <1>4, Escapes
<1>5. CASE Text!Compose \/ Text!Later
  BY <1>5, Composes
<1>6. CASE Text!TagsFetched
  BY <1>6, FetchesTags
<1>7. CASE Text!Enter
  BY <1>7, EnterIs, KeyCounted, TextParts, TextPartsNext, Zenon
<1>8. CASE Text!Tab \/ \E i \in 1..4 : Text!Pick(i)
  BY <1>8, TabPicks
<1>9. CASE \E n \in 0..2 : Text!MoveCursor(n)
  BY <1>9, MovesCursor, Zenon
<1>10. CASE \E d \in {1, Len(Text!suggestions) - 1} : Text!Arrow(d)
  BY <1>10, ArrowMoves, Zenon
<1> QED BY <1>1, <1>2, <1>3, <1>4, <1>5, <1>6, <1>7, <1>8, <1>9, <1>10, Zenon DEF Text!Next

\* It holds of an empty text.
LEMMA TextStart == Text!Init => TextInv
<1> SUFFICES ASSUME Text!Init PROVE TextInv
  OBVIOUS
<1>1. PICK b : b = Text!Blank
  OBVIOUS
<1>2. /\ lines = <<b>> /\ at = 0 /\ joined = FALSE /\ popup = Text!Hidden
      /\ tags = Text!Tags /\ composing = FALSE /\ justComposed = FALSE /\ keys = 0
  BY <1>1, Zenon DEF Text!Init
<1>3. b \in Text!Line /\ Len(b.words) = 0
  BY <1>1 DEF Text!Blank, Text!Line, Text!Marks
<1>4. lines \in Seq(Text!Line) /\ Len(lines) = 1 /\ lines[1] = b /\ lines # <<>>
  BY <1>2, <1>3
<1>5. Text!Last(lines) = b
  BY <1>4, Zenon DEF Text!Last
<1>6. 0 \in 0..0 /\ FALSE \in BOOLEAN
  OBVIOUS
<1>7. CursorIn(lines, at, joined)
  BY <1>2, <1>3, <1>4, <1>5, <1>6, Zenon DEF CursorIn, LinesTyped
<1>8. tags \in UserTags
  BY <1>2, Zenon DEF Text!Tags, UserTags
<1>9. keys \in 0..MaxKeys
  BY <1>2, PartsAssumption
<1> QED BY <1>2, <1>6, <1>7, <1>8, <1>9, PopupsAre, TextParts, Zenon

\* The text is as it should be whatever part of the editor moves.
THEOREM TextAlways == PartsSpec => []TextInv
<1>1. PartsInit => TextInv
  BY TextStart, Zenon DEF PartsInit
<1>2. TextInv /\ [PartsNext]_parts => TextInv'
  <2> SUFFICES ASSUME TextInv, [PartsNext]_parts PROVE TextInv'
    OBVIOUS
  <2>1. CASE Text!Next
    BY <2>1, TextStep
  <2>2. CASE typing' = typing
    <3>1. /\ lines' = lines /\ at' = at /\ joined' = joined /\ popup' = popup /\ tags' = tags
          /\ composing' = composing /\ justComposed' = justComposed /\ keys' = keys
      BY <2>2, Zenon DEF typing
    <3> QED BY <3>1, TextParts, TextPartsNext, Zenon
  <2> QED BY <2>1, <2>2, Zenon DEF PartsNext, parts
<1> QED BY <1>1, <1>2, PTL DEF PartsSpec

\* Enter does one thing.
LEMMA EnterOne ==
    ASSUME TextInv, Text!Enter
    PROVE  /\ Text!Settled(lines') = Text!Settled(lines)
           /\ Text!isVisible => Len(lines') = Len(lines)
           /\ ~Text!isVisible => Text!Words(lines') = Text!Words(lines)
           /\ ~Text!isVisible /\ composing => lines' = lines
           /\ Len(lines') = Len(lines) + 1 => \/ Text!Last(lines').mark = Text!current.mark
                                              \/ justComposed
<1>1. PICK k : k = Len(lines)
  OBVIOUS
<1>2. k \in Nat
  BY <1>1, Here DEF LinesTyped
<1>3. k # k + 1 /\ k + 0 = k
  BY <1>2
<1>4. ASSUME Text!Words(lines') = Text!Words(lines) PROVE Text!Settled(lines') = Text!Settled(lines)
  BY <1>4, Zenon DEF Text!Settled
<1> QED BY <1>1, <1>3, <1>4, EnterIs, Zenon DEF SameWords

\* Enter completes what is highlighted, or ends or continues a list, or breaks
\* the line, and no word that was typed is lost (useSuggestions.ts handleKeyDown,
\* useListCompletion.ts, Editor/index.tsx).
THEOREM EnterAlwaysOne == PartsSpec => EnterDoesOneThing
<1>1. TextInv => [Text!Enter =>
        /\ Text!Settled(lines') = Text!Settled(lines)
        /\ Text!isVisible => Len(lines') = Len(lines)
        /\ ~Text!isVisible => Text!Words(lines') = Text!Words(lines)
        /\ ~Text!isVisible /\ composing => lines' = lines
        /\ Len(lines') = Len(lines) + 1 => \/ Text!Last(lines').mark = Text!current.mark
                                           \/ justComposed]_(Text!vars)
  BY EnterOne
<1> QED BY <1>1, TextAlways, PTL DEF EnterDoesOneThing, Text!EnterDoesOneThing

(***************************************************************************)
(* Every part's types                                                      *)
(***************************************************************************)

\* The dialogs' state has its types in every step.
LEMMA DialogsTyped ==
    ASSUME Dialogs!TypeOK, Dialogs!Next
    PROVE  Dialogs!TypeOK'
<1> DEFINE
      LinkTyped ==
          /\ text \in Dialogs!Text /\ due \in BOOLEAN /\ requests \in Seq(Dialogs!Text)
          /\ found \subseteq Dialogs!Memos /\ fetching \in BOOLEAN
          /\ related \subseteq Dialogs!Memos /\ muddled \in BOOLEAN
      Names == {Dialogs!Name[p] : p \in Dialogs!Position}
      PlaceTyped ==
          /\ position \in Dialogs!Position \union {"none"}
          /\ debounced \in Dialogs!Position \union {"none"}
          /\ placeholder \in {"", "own words"} \union Names
          /\ named \in {""} \union Names
          /\ known \subseteq Dialogs!Position /\ located \in BOOLEAN
          /\ asked \in BOOLEAN /\ typed \in BOOLEAN
          /\ location.at \in Dialogs!Position \union {"none"}
      DialogIs == dialog \in {"none", "link", "place"}
      StepsIn == steps \in 0..MaxSteps
<1>1. LinkTyped /\ PlaceTyped /\ DialogIs /\ StepsIn
  BY DEF Dialogs!TypeOK
<1>2. ASSUME LinkTyped', PlaceTyped', DialogIs', StepsIn' PROVE Dialogs!TypeOK'
  BY <1>2 DEF Dialogs!TypeOK
<1>3. ASSUME Dialogs!Step PROVE StepsIn'
  <2>1. steps < MaxSteps /\ steps' = steps + 1
    BY <1>3, Zenon DEF Dialogs!Step
  <2>2. steps \in 0..MaxSteps /\ MaxSteps \in Nat
    BY <1>1, PartsAssumption, Zenon
  <2>3. steps' \in 0..MaxSteps
    <3> HIDE DEF StepsIn, DialogIs, PlaceTyped, LinkTyped, Names
    <3> QED BY <2>1, <2>2
  <2> QED BY <2>3
<1>4. ASSUME UNCHANGED Dialogs!linking PROVE LinkTyped'
  BY <1>1, <1>4 DEF Dialogs!linking
<1>5. ASSUME UNCHANGED Dialogs!locating PROVE PlaceTyped'
  BY <1>1, <1>5 DEF Dialogs!locating
<1>6. ASSUME steps' = steps PROVE StepsIn'
  BY <1>1, <1>6
<1>7. \A t : Dialogs!Matches(t) \subseteq Dialogs!Memos
  BY DEF Dialogs!Matches, Dialogs!Memos
<1>8. Dialogs!displayName \in {""} \union Names
  BY <1>1 DEF Dialogs!displayName
<1> HIDE DEF Names, StepsIn
<1>9. ASSUME NEW open \in BOOLEAN, Dialogs!LinkDialog(open) PROVE Dialogs!TypeOK'
  <2>1. LinkTyped' /\ DialogIs'
    BY <1>1, <1>9 DEF Dialogs!LinkDialog
  <2>2. UNCHANGED Dialogs!locating /\ Dialogs!Step
    BY <1>9, Zenon DEF Dialogs!LinkDialog
  <2> QED BY <1>2, <1>3, <1>5, <2>1, <2>2, Zenon
<1>10. ASSUME NEW t \in Dialogs!Text, Dialogs!setSearchText(t) PROVE Dialogs!TypeOK'
  <2>1. LinkTyped' /\ DialogIs'
    BY <1>1, <1>10 DEF Dialogs!setSearchText
  <2>2. UNCHANGED Dialogs!locating /\ Dialogs!Step
    BY <1>10, Zenon DEF Dialogs!setSearchText
  <2> QED BY <1>2, <1>3, <1>5, <2>1, <2>2, Zenon
<1>11. CASE Dialogs!Search
  <2>1. requests' \in Seq(Dialogs!Text)
    <3>1. requests' = Append(requests, text) \/ requests' = requests
      BY <1>11, Zenon DEF Dialogs!Search
    <3>2. requests \in Seq(Dialogs!Text) /\ text \in Dialogs!Text
      BY <1>1, Zenon
    <3> QED BY <3>1, <3>2
  <2>2. LinkTyped' /\ DialogIs'
    BY <1>1, <1>11, <2>1 DEF Dialogs!Search
  <2>3. UNCHANGED Dialogs!locating /\ steps' = steps
    BY <1>11, Zenon DEF Dialogs!Search
  <2> QED BY <1>2, <1>5, <1>6, <2>2, <2>3, Zenon
<1>12. ASSUME NEW i \in DOMAIN requests, NEW ok \in BOOLEAN, Dialogs!Answered(i, ok)
       PROVE  Dialogs!TypeOK'
  <2>1. requests' = RemoveAt(requests, i)
    BY <1>12, Zenon DEF Dialogs!Answered, Dialogs!RemoveAt, RemoveAt
  <2>2. requests' \in Seq(Dialogs!Text)
    BY <1>1, <2>1, FirstAnswered
  <2>3. found' \subseteq Dialogs!Memos
    BY <1>1, <1>7, <1>12, Zenon DEF Dialogs!Answered
  <2>4. /\ fetching' = FALSE /\ muddled' = (muddled \/ ~ok \/ i > 1) /\ dialog' = dialog
        /\ text' = text /\ due' = due /\ related' = related
    BY <1>12, Zenon DEF Dialogs!Answered
  <2>5. LinkTyped' /\ DialogIs'
    BY <1>1, <2>2, <2>3, <2>4
  <2>6. UNCHANGED Dialogs!locating
    BY <1>12, Zenon DEF Dialogs!Answered
  <2>7. StepsIn'
    BY <1>3, <1>6, <1>12, Zenon DEF Dialogs!Answered
  <2> QED BY <1>2, <1>5, <2>5, <2>6, <2>7, Zenon
<1>13. ASSUME NEW m \in Dialogs!Memos, Dialogs!addMemoRelation(m) \/ Dialogs!handleDeleteRelation(m)
       PROVE  Dialogs!TypeOK'
  <2>1. LinkTyped' /\ DialogIs'
    BY <1>1, <1>13 DEF Dialogs!addMemoRelation, Dialogs!handleDeleteRelation
  <2>2. UNCHANGED Dialogs!locating /\ Dialogs!Step
    BY <1>13, Zenon DEF Dialogs!addMemoRelation, Dialogs!handleDeleteRelation
  <2> QED BY <1>2, <1>3, <1>5, <2>1, <2>2, Zenon
<1>14. ASSUME NEW p \in Dialogs!Position, Dialogs!handlePositionChange(p) \/ Dialogs!updateCoordinate(p)
       PROVE  Dialogs!TypeOK'
  <2>1. PlaceTyped' /\ DialogIs'
    BY <1>1, <1>14 DEF Dialogs!handlePositionChange, Dialogs!updateCoordinate
  <2>2. UNCHANGED Dialogs!linking /\ Dialogs!Step
    BY <1>14, Zenon DEF Dialogs!handlePositionChange, Dialogs!updateCoordinate
  <2> QED BY <1>2, <1>3, <1>4, <2>1, <2>2, Zenon
<1>15. CASE Dialogs!handleLocationClick \/ Dialogs!setPlaceholder
  <2>1. PlaceTyped' /\ DialogIs'
    BY <1>1, <1>15 DEF Dialogs!handleLocationClick, Dialogs!setPlaceholder
  <2>2. UNCHANGED Dialogs!linking /\ Dialogs!Step
    BY <1>15, Zenon DEF Dialogs!handleLocationClick, Dialogs!setPlaceholder
  <2> QED BY <1>2, <1>3, <1>4, <2>1, <2>2, Zenon
<1>16. CASE Dialogs!Debounce \/ Dialogs!Geocoded \/ Dialogs!Named
  <2>1. PlaceTyped' /\ DialogIs'
    BY <1>1, <1>8, <1>16 DEF Dialogs!Debounce, Dialogs!Geocoded, Dialogs!Named
  <2>2. UNCHANGED Dialogs!linking /\ steps' = steps
    BY <1>16, Zenon DEF Dialogs!Debounce, Dialogs!Geocoded, Dialogs!Named
  <2> QED BY <1>2, <1>4, <1>6, <2>1, <2>2, Zenon
<1>17. CASE Dialogs!handleLocationConfirm \/ Dialogs!handleLocationCancel
  <2>1. PlaceTyped' /\ DialogIs'
    <3>1. CASE Dialogs!handleLocationConfirm
      <4>1. location' = [at |-> position, as |-> placeholder] /\ dialog' = "none"
        BY <3>1, Zenon DEF Dialogs!handleLocationConfirm
      <4>2. location'.at = position
        BY <4>1
      <4>3. UNCHANGED <<position, placeholder, located, debounced, named, known, asked, typed>>
        BY <3>1, Zenon DEF Dialogs!handleLocationConfirm
      <4> QED BY <1>1, <4>1, <4>2, <4>3
    <3>2. CASE Dialogs!handleLocationCancel
      BY <1>1, <3>2 DEF Dialogs!handleLocationCancel
    <3> QED BY <1>17, <3>1, <3>2
  <2>2. UNCHANGED Dialogs!linking /\ Dialogs!Step
    BY <1>17, Zenon DEF Dialogs!handleLocationConfirm, Dialogs!handleLocationCancel
  <2> QED BY <1>2, <1>3, <1>4, <2>1, <2>2, Zenon
<1>18. CASE Dialogs!Dismiss
  <2>1. DialogIs' /\ UNCHANGED Dialogs!locating /\ UNCHANGED Dialogs!linking /\ Dialogs!Step
    BY <1>1, <1>18 DEF Dialogs!Dismiss
  <2> QED BY <1>2, <1>3, <1>4, <1>5, <2>1, Zenon
<1>19. CASE Dialogs!RemoveLocation
  <2>1. PlaceTyped' /\ DialogIs'
    BY <1>1, <1>19 DEF Dialogs!RemoveLocation, Dialogs!Nowhere
  <2>2. UNCHANGED Dialogs!linking /\ Dialogs!Step
    BY <1>19, Zenon DEF Dialogs!RemoveLocation
  <2> QED BY <1>2, <1>3, <1>4, <2>1, <2>2, Zenon
<1> QED BY <1>9, <1>10, <1>11, <1>12, <1>13, <1>14, <1>15, <1>16, <1>17, <1>18, <1>19, Zenon
        DEF Dialogs!Next

\* No dialog is open yet.
LEMMA DialogsStart == Dialogs!Init => Dialogs!TypeOK
<1> SUFFICES ASSUME Dialogs!Init PROVE Dialogs!TypeOK
  OBVIOUS
<1>1. <<>> \in Seq(Dialogs!Text) /\ Dialogs!Nowhere.at = "none" /\ "" \in Dialogs!Text
  BY DEF Dialogs!Nowhere, Dialogs!Text
<1>2. 0 \in 0..MaxSteps
  BY PartsAssumption
<1> QED BY <1>1, <1>2 DEF Dialogs!Init, Dialogs!TypeOK

\* The system's scheme and the counts of the preferences.
Bounded ==
    /\ dark \in BOOLEAN /\ drawn \in BOOLEAN /\ mixed \in BOOLEAN
    /\ events \in 0..MaxEvents /\ failures \in 0..MaxFaults
LEMMA CountsStart == Preferences!Init => Bounded
<1> SUFFICES ASSUME Preferences!Init PROVE Bounded
  OBVIOUS
<1>1. dark = FALSE /\ drawn = FALSE /\ mixed = FALSE /\ events = 0 /\ failures = 0
  BY Zenon DEF Preferences!Init
<1>2. 0 \in 0..MaxEvents /\ 0 \in 0..MaxFaults /\ FALSE \in BOOLEAN
  BY PartsAssumption
<1> QED BY <1>1, <1>2, Zenon DEF Bounded
LEMMA CountsKept ==
    ASSUME Bounded, Preferences!Next
    PROVE  Bounded'
<1>1. ASSUME Preferences!Event PROVE events' \in 0..MaxEvents
  BY <1>1, PartsAssumption DEF Preferences!Event, Bounded
<1>2. ASSUME Preferences!Fault PROVE failures' \in 0..MaxFaults
  BY <1>2, PartsAssumption DEF Preferences!Fault, Bounded
<1>3. /\ Preferences!Event \/ events' = events
      /\ Preferences!Fault \/ failures' = failures
      /\ dark' \in {dark, ~dark} /\ drawn' \in {drawn, dark, ~dark}
      /\ mixed' \in {mixed, TRUE, FALSE} \/ mixed' = (mixed \/ ~Preferences!Quiet)
  <2>1. ASSUME NEW k, NEW v, NEW a, Preferences!Choose(k, v, a)
        PROVE  /\ Preferences!Event /\ failures' = failures /\ dark' = dark
               /\ drawn' \in {drawn, dark} /\ mixed' = (mixed \/ ~Preferences!Quiet)
    BY <2>1 DEF Preferences!Choose, Preferences!Load
  <2>2. ASSUME NEW k, NEW v, Preferences!ChooseSignedOut(k, v)
        PROVE  /\ Preferences!Event /\ failures' = failures /\ dark' = dark
               /\ drawn' \in {drawn, dark} /\ mixed' = mixed
    BY <2>2 DEF Preferences!ChooseSignedOut, Preferences!Load
  <2>3. ASSUME NEW k, NEW v, Preferences!ChosenElsewhere(k, v)
        PROVE  /\ Preferences!Event /\ failures' = failures /\ dark' = dark
               /\ drawn' = drawn /\ mixed' \in {mixed, TRUE}
    BY <2>3 DEF Preferences!ChosenElsewhere
  <2>4. ASSUME Preferences!LeavePreferences
        PROVE  /\ events' = events /\ failures' = failures /\ dark' = dark
               /\ drawn' = drawn /\ mixed' = TRUE
    BY <2>4, Zenon DEF Preferences!LeavePreferences
  <2>5. ASSUME NEW i, Preferences!SaveApplied(i) \/ Preferences!SaveAnswered(i)
                      \/ Preferences!FetchRead(i)
        PROVE  /\ events' = events /\ failures' = failures /\ dark' = dark
               /\ drawn' = drawn /\ mixed' = mixed
    BY <2>5, Zenon DEF Preferences!SaveApplied, Preferences!SaveAnswered, Preferences!FetchRead
  <2>6. ASSUME NEW i, Preferences!SaveFails(i) \/ Preferences!FetchFails(i)
        PROVE  /\ events' = events /\ Preferences!Fault /\ dark' = dark
               /\ drawn' = drawn /\ mixed' = mixed
    BY <2>6, Zenon DEF Preferences!SaveFails, Preferences!FetchFails
  <2>7. ASSUME Preferences!refetchSettings
        PROVE  /\ Preferences!Event /\ failures' = failures /\ dark' = dark
               /\ drawn' = drawn /\ mixed' = (mixed \/ ~Preferences!Quiet)
    BY <2>7, Zenon DEF Preferences!refetchSettings
  <2>8. ASSUME NEW n, Preferences!Effects(n) PROVE drawn' \in {drawn, dark}
    BY <2>8 DEF Preferences!Effects
  <2>9. ASSUME NEW i, Preferences!FetchAnswered(i)
        PROVE  /\ events' = events /\ failures' = failures /\ dark' = dark
               /\ drawn' \in {drawn, dark} /\ mixed' = mixed
    BY <2>8, <2>9, Zenon DEF Preferences!FetchAnswered
  <2>10. ASSUME Preferences!SignIn
        PROVE  /\ events' = events /\ failures' = failures /\ dark' = dark
               /\ drawn' \in {drawn, dark} /\ mixed' = mixed
    BY <2>8, <2>10, Zenon DEF Preferences!SignIn
  <2>11. ASSUME Preferences!Reload
         PROVE  /\ Preferences!Event /\ failures' = failures /\ dark' = dark
                /\ drawn' = dark /\ mixed' = FALSE
    BY <2>11, Zenon DEF Preferences!Reload
  <2>12. ASSUME Preferences!SystemChanges
         PROVE  /\ Preferences!Event /\ failures' = failures /\ dark' = ~dark
                /\ drawn' \in {drawn, ~dark} /\ mixed' = mixed
    BY <2>12 DEF Preferences!SystemChanges
  <2> QED BY <2>1, <2>2, <2>3, <2>4, <2>5, <2>6, <2>7, <2>9, <2>10, <2>11, <2>12
          DEF Preferences!Next
<1>4. /\ dark \in BOOLEAN /\ drawn \in BOOLEAN /\ mixed \in BOOLEAN
      /\ events \in 0..MaxEvents /\ failures \in 0..MaxFaults
  BY DEF Bounded
<1> QED BY <1>1, <1>2, <1>3, <1>4 DEF Bounded

\* A sequence of some of a set's values is of the set's.
LEMMA WiderSeq == ASSUME NEW S, NEW T, S \subseteq T PROVE Seq(S) \subseteq Seq(T)
OBVIOUS

\* Every part's state has its type (MemoEditor/state/types.ts, useLocation.ts,
\* useSuggestions.ts, AuthContext.tsx).
THEOREM EditorPartsTyped == PartsSpec => []PartsTypeOK
<1> DEFINE PartsKept ==
               /\ part \in {"editors", "dialogs", "text", "preferences"}
               /\ part = "dialogs" => Dialogs!TypeOK
               /\ part = "preferences" => Bounded
<1>1. PartsInit => PartsKept
  BY DialogsStart, CountsStart DEF PartsInit
<1>2. PartsKept /\ [PartsNext]_parts => PartsKept'
  <2> SUFFICES ASSUME PartsKept, [PartsNext]_parts PROVE PartsKept'
    OBVIOUS
  <2>1. part' = part
    BY DEF PartsNext, parts
  <2>2. CASE part = "dialogs"
    <3>1. CASE Dialogs!Next
      BY <2>1, <2>2, <3>1, DialogsTyped
    <3>2. CASE dialogs' = dialogs
      BY <2>1, <2>2, <3>2 DEF dialogs, Dialogs!TypeOK
    <3> QED BY <2>2, <3>1, <3>2 DEF PartsNext, parts
  <2>3. CASE part = "preferences"
    <3>1. CASE Preferences!Next
      BY <2>1, <2>3, <3>1, CountsKept
    <3>2. CASE preferences' = preferences
      BY <2>1, <2>3, <3>2 DEF preferences, Bounded
    <3> QED BY <2>3, <3>1, <3>2 DEF PartsNext, parts
  <2> QED BY <2>1, <2>2, <2>3
<1>3. PartsSpec => Spec
  <2>1. PartsInit => Init
    BY DEF PartsInit
  <2>2. [PartsNext]_parts => [Next]_vars
    BY Zenon DEF PartsNext, parts
  <2> QED BY <2>1, <2>2, PTL DEF PartsSpec, Spec
<1>4. PartsKept /\ TypeOK /\ TextInv /\ (part = "preferences" => PreferencesInv) => PartsTypeOK
  <2> SUFFICES ASSUME PartsKept, TypeOK, TextInv, part = "preferences" => PreferencesInv
               PROVE  PartsTypeOK
    OBVIOUS
  <2>1. Text!TypeOK
    BY DEF TextInv
  <2>2. CASE part = "preferences"
    <3>1. Chosen /\ Calls /\ Bounded
      BY <2>2 DEF PreferencesInv
    <3>2. Saving \subseteq Preferences!Save
      BY DEF Saving
    <3>3. saves \in Seq(Preferences!Save)
      BY <3>1, <3>2, WiderSeq DEF Calls
    <3>4. Preferences!TypeOK
      BY <3>1, <3>3 DEF Chosen, Calls, Bounded, Prefs, Preferences!TypeOK
    <3> QED BY <2>2, <3>4 DEF PartsTypeOK
  <2> QED BY <2>1, <2>2 DEF PartsTypeOK
<1> HIDE DEF PartsKept
<1> QED BY <1>1, <1>2, <1>3, <1>4, EditorTyped, TextAlways, PreferencesKept, PTL DEF PartsSpec
=============================================================================

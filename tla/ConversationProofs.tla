------------------------- MODULE ConversationProofs -------------------------
(***************************************************************************)
(* What holds of Conversation for any client, any model and conversations  *)
(* of any length: names and identities.  ConvInv says of every phase which *)
(* shape the request has and from what the later variables were computed;  *)
(* on it rest that a verdict stays with its call, that documents have      *)
(* names of their own and that a result follows its call.                  *)
(*                                                                         *)
(* First what the model is built from: sequences as functions on 1..n,     *)
(* FlattenSeq, the choice of elements of a sequence (Kept), and blocks     *)
(* with a field changed.                                                   *)
(***************************************************************************)
EXTENDS Conversation, SequenceTheorems, FiniteSetTheorems, TLAPS

-----------------------------------------------------------------------------
\* Sequences, of whatever.
AreSeqs(ss) == IsSeq(ss) /\ \A i \in DOMAIN ss : IsSeq(ss[i])

LEMMA SeqShape ==
    ASSUME NEW s, IsSeq(s)
    PROVE  Len(s) \in Nat /\ DOMAIN s = 1..Len(s) /\ s = [i \in 1..Len(s) |-> s[i]]
<1>1. Len(s) \in Nat /\ s = [i \in 1..Len(s) |-> s[i]]
  BY DEF IsSeq
<1>2. DOMAIN s = DOMAIN [i \in 1..Len(s) |-> s[i]]
  BY <1>1
<1> QED
  BY <1>1, <1>2

LEMMA SeqMade ==
    ASSUME NEW n \in Nat, NEW s, s = [i \in 1..n |-> s[i]]
    PROVE  IsSeq(s) /\ Len(s) = n /\ DOMAIN s = 1..n
<1> DEFINE S == {s[i] : i \in DOMAIN s}
<1>1. DOMAIN s = 1..n /\ s \in [1..n -> S]
  OBVIOUS
<1> HIDE DEF S
<1>2. Len(s) = n
  BY <1>1
<1> QED
  BY <1>1, <1>2 DEF IsSeq

LEMMA SeqTyped ==
    ASSUME NEW s, IsSeq(s), NEW S, \A i \in DOMAIN s : s[i] \in S
    PROVE  s \in Seq(S)
<1>1. Len(s) \in Nat /\ DOMAIN s = 1..Len(s) /\ s = [i \in 1..Len(s) |-> s[i]]
  BY SeqShape
<1>2. s \in [1..Len(s) -> S]
  BY <1>1
<1> QED
  BY <1>1, <1>2

LEMMA SeqUntyped ==
    ASSUME NEW S, NEW s \in Seq(S)
    PROVE  IsSeq(s)
<1>1. Len(s) \in Nat /\ s \in [1..Len(s) -> S]
  BY LenProperties
<1>2. s = [i \in 1..Len(s) |-> s[i]]
  BY <1>1
<1> QED
  BY <1>1, <1>2, SeqMade

LEMMA SeqSame ==
    ASSUME NEW s, IsSeq(s), NEW t, IsSeq(t), Len(s) = Len(t), \A i \in 1..Len(s) : s[i] = t[i]
    PROVE  s = t
<1>1. Len(s) \in Nat /\ s = [i \in 1..Len(s) |-> s[i]] /\ t = [i \in 1..Len(s) |-> t[i]]
  BY SeqShape
<1> QED
  BY <1>1

LEMMA EmptyIsSeq == IsSeq(<<>>) /\ Len(<<>>) = 0 /\ DOMAIN <<>> = {}
  BY DEF IsSeq

\* w is s followed by t; w is s followed by x.
Joined(w, s, t) ==
    /\ IsSeq(w) /\ Len(w) = Len(s) + Len(t) /\ DOMAIN w = 1..(Len(s) + Len(t))
    /\ \A i \in 1..Len(s) : w[i] = s[i]
    /\ \A i \in 1..Len(t) : w[Len(s) + i] = t[i]
Extended(w, s, x) ==
    /\ IsSeq(w) /\ Len(w) = Len(s) + 1 /\ DOMAIN w = 1..(Len(s) + 1)
    /\ \A i \in 1..Len(s) : w[i] = s[i]
    /\ w[Len(s) + 1] = x

LEMMA ConcatJoins ==
    ASSUME NEW s, IsSeq(s), NEW t, IsSeq(t)
    PROVE  Joined(s \o t, s, t)
<1> DEFINE S == {s[i] : i \in DOMAIN s} \cup {t[i] : i \in DOMAIN t}
           w == s \o t
<1>1. s \in Seq(S)
  <2>1. \A i \in DOMAIN s : s[i] \in S
    OBVIOUS
  <2> HIDE DEF S
  <2> QED BY <2>1, SeqTyped
<1>2. t \in Seq(S)
  <2>1. \A i \in DOMAIN t : t[i] \in S
    OBVIOUS
  <2> HIDE DEF S
  <2> QED BY <2>1, SeqTyped
<1> HIDE DEF S
<1>3. /\ w \in Seq(S) /\ Len(w) = Len(s) + Len(t)
      /\ \A i \in 1..(Len(s) + Len(t)) : w[i] = IF i <= Len(s) THEN s[i] ELSE t[i - Len(s)]
  BY <1>1, <1>2, ConcatProperties
<1> HIDE DEF w
<1>4. Len(s) \in Nat /\ Len(t) \in Nat
  BY SeqShape
<1>5. IsSeq(w)
  BY <1>3, SeqUntyped
<1>6. DOMAIN w = 1..(Len(s) + Len(t))
  BY <1>3, <1>5, SeqShape
<1>7. \A i \in 1..Len(s) : w[i] = s[i]
  <2> SUFFICES ASSUME NEW i \in 1..Len(s)
               PROVE  w[i] = s[i]
    OBVIOUS
  <2>1. i \in 1..(Len(s) + Len(t)) /\ i <= Len(s)
    BY <1>4
  <2> QED BY <1>3, <2>1
<1>8. \A i \in 1..Len(t) : w[Len(s) + i] = t[i]
  <2> SUFFICES ASSUME NEW i \in 1..Len(t)
               PROVE  w[Len(s) + i] = t[i]
    OBVIOUS
  <2>1. Len(s) + i \in 1..(Len(s) + Len(t)) /\ ~(Len(s) + i <= Len(s)) /\ (Len(s) + i) - Len(s) = i
    BY <1>4
  <2> QED BY <1>3, <2>1
<1>9. Joined(w, s, t)
  BY <1>3, <1>5, <1>6, <1>7, <1>8 DEF Joined
<1> QED
  BY <1>9 DEF w

LEMMA AppendExtends ==
    ASSUME NEW s, IsSeq(s), NEW x
    PROVE  Extended(Append(s, x), s, x)
<1> DEFINE S == {s[i] : i \in DOMAIN s} \cup {x}
           w == Append(s, x)
<1>1. s \in Seq(S) /\ x \in S
  <2>1. \A i \in DOMAIN s : s[i] \in S
    OBVIOUS
  <2>2. x \in S
    OBVIOUS
  <2> HIDE DEF S
  <2> QED BY <2>1, <2>2, SeqTyped
<1> HIDE DEF S
<1>2. /\ w \in Seq(S) /\ Len(w) = Len(s) + 1 /\ w[Len(s) + 1] = x
      /\ \A i \in 1..Len(s) : w[i] = s[i]
  BY <1>1, AppendProperties
<1> HIDE DEF w
<1>3. IsSeq(w)
  BY <1>2, SeqUntyped
<1>4. DOMAIN w = 1..(Len(s) + 1)
  BY <1>2, <1>3, SeqShape
<1>5. Extended(w, s, x)
  BY <1>2, <1>3, <1>4 DEF Extended
<1> QED
  BY <1>5 DEF w

LEMMA ExtendedUnique ==
    ASSUME NEW s, IsSeq(s), NEW x, NEW w, Extended(w, s, x)
    PROVE  w = Append(s, x)
<1> DEFINE v == Append(s, x)
<1>1. Extended(v, s, x)
  BY AppendExtends
<1> HIDE DEF v
<1>2. Len(s) \in Nat
  BY SeqShape
<1>3. /\ IsSeq(w) /\ IsSeq(v) /\ Len(w) = Len(s) + 1 /\ Len(v) = Len(s) + 1
      /\ \A i \in 1..Len(s) : w[i] = v[i]
      /\ w[Len(s) + 1] = v[Len(s) + 1]
  BY <1>1 DEF Extended
<1>4. \A i \in 1..Len(w) : w[i] = v[i]
  BY <1>2, <1>3
<1>5. w = v
  BY <1>3, <1>4, SeqSame
<1> QED
  BY <1>5 DEF v

LEMMA JoinedUnique ==
    ASSUME NEW s, IsSeq(s), NEW t, IsSeq(t), NEW w, Joined(w, s, t)
    PROVE  w = s \o t
<1> DEFINE v == s \o t
<1>1. Joined(v, s, t)
  BY ConcatJoins
<1> HIDE DEF v
<1>2. Len(s) \in Nat /\ Len(t) \in Nat
  BY SeqShape
<1>3. /\ IsSeq(w) /\ IsSeq(v) /\ Len(w) = Len(s) + Len(t) /\ Len(v) = Len(s) + Len(t)
      /\ \A i \in 1..Len(s) : w[i] = v[i]
      /\ \A i \in 1..Len(t) : w[Len(s) + i] = v[Len(s) + i]
  BY <1>1 DEF Joined
<1>4. ASSUME NEW i \in 1..Len(w)
      PROVE  w[i] = v[i]
  <2>1. CASE i <= Len(s)
    BY <1>2, <1>3, <2>1
  <2>2. CASE ~(i <= Len(s))
    <3>1. i - Len(s) \in 1..Len(t) /\ Len(s) + (i - Len(s)) = i
      BY <1>2, <1>3, <2>2
    <3> QED BY <1>3, <3>1
  <2> QED BY <2>1, <2>2
<1>5. w = v
  BY <1>3, <1>4, SeqSame
<1> QED
  BY <1>5 DEF v

Associate(s, t, u) == (s \o t) \o u = s \o (t \o u)

LEMMA ConcatAssoc ==
    ASSUME NEW s, IsSeq(s), NEW t, IsSeq(t), NEW u, IsSeq(u)
    PROVE  Associate(s, t, u)
<1> DEFINE S == {s[i] : i \in DOMAIN s} \cup {t[i] : i \in DOMAIN t} \cup {u[i] : i \in DOMAIN u}
<1>1. /\ \A i \in DOMAIN s : s[i] \in S
      /\ \A i \in DOMAIN t : t[i] \in S
      /\ \A i \in DOMAIN u : u[i] \in S
  OBVIOUS
<1> HIDE DEF S
<1>2. s \in Seq(S) /\ t \in Seq(S) /\ u \in Seq(S)
  BY <1>1, SeqTyped
<1> QED
  BY <1>2, ConcatAssociative DEF Associate

LEMMA ConcatNone ==
    ASSUME NEW s, IsSeq(s)
    PROVE  s \o <<>> = s /\ <<>> \o s = s
<1> DEFINE S == {s[i] : i \in DOMAIN s}
<1>0. \A i \in DOMAIN s : s[i] \in S
  OBVIOUS
<1> HIDE DEF S
<1>1. s \in Seq(S)
  BY <1>0, SeqTyped
<1> QED
  BY <1>1, ConcatEmptySeq
-----------------------------------------------------------------------------
LEMMA LeastNatural ==
    ASSUME NEW T \in SUBSET Nat, T # {}
    PROVE  \E x \in T : \A y \in T : x <= y
<1> DEFINE Below == {0..n : n \in T}
           R == StrictSubsetOrdering(Nat)
<1>1. Below \subseteq FiniteSubsetsOf(Nat)
  <2> SUFFICES ASSUME NEW n \in T
               PROVE  0..n \in FiniteSubsetsOf(Nat)
    OBVIOUS
  <2>1. IsFiniteSet(0..n)
    BY FS_Interval
  <2>2. 0..n \in SUBSET Nat
    OBVIOUS
  <2> QED
    BY <2>1, <2>2, Zenon DEF FiniteSubsetsOf
<1>2. Below # {}
  OBVIOUS
<1>3. IsWellFoundedOn(R, FiniteSubsetsOf(Nat))
  BY FS_StrictSubsetOrderingWellFounded
<1>4. PICK X \in Below : \A Y \in Below : <<Y, X>> \notin R
  <2> HIDE DEF Below, R
  <2> QED
    BY <1>1, <1>2, <1>3, WFMin
<1>5. PICK x \in T : X = 0..x
  OBVIOUS
<1>6. ASSUME NEW y \in T, y < x
      PROVE  FALSE
  <2>1. x \in 0..x /\ x \notin 0..y
    BY <1>6
  <2>2. 0..y \subseteq 0..x /\ 0..y # 0..x
    BY <1>6, <2>1
  <2>3. <<0..y, X>> \in R
    BY <2>2, <1>5 DEF StrictSubsetOrdering
  <2> QED
    BY <2>3, <1>4
<1> QED
  BY <1>6

LEMMA Induction ==
    ASSUME NEW T \in SUBSET Nat, 0 \in T, \A n \in T : n + 1 \in T
    PROVE  T = Nat
<1> SUFFICES ASSUME Nat \ T # {}
             PROVE  FALSE
  OBVIOUS
<1>1. PICK x \in Nat \ T : \A y \in Nat \ T : x <= y
  BY LeastNatural
<1>2. x - 1 \in Nat /\ ~ (x <= x - 1)
  OBVIOUS
<1>3. x - 1 \in T
  BY <1>1, <1>2
<1> QED
  BY <1>2, <1>3

\* f joins the sequences s[1], s[2], ... s[n] one by one, as FlattenSeq does.
Joins(f, s, n) == f = [i \in 1..n |-> IF i = 1 THEN s[i] ELSE f[i - 1] \o s[i]]

LEMMA JoinsExists ==
    ASSUME NEW s, NEW n \in Nat
    PROVE  \E f : Joins(f, s, n)
<1> DEFINE T == {m \in Nat : \E f : Joins(f, s, m)}
<1>1. 0 \in T
  <2> DEFINE f == [i \in 1..0 |-> s[i]]
  <2>1. Joins(f, s, 0)
    BY DEF Joins
  <2> QED
    BY <2>1
<1>2. ASSUME NEW m \in T
      PROVE  m + 1 \in T
  <2>1. PICK f : Joins(f, s, m)
    OBVIOUS
  <2> DEFINE g == [i \in 1..(m + 1) |-> IF i = m + 1 THEN IF i = 1 THEN s[i] ELSE f[m] \o s[i] ELSE f[i]]
  <2>2. ASSUME NEW i \in 1..(m + 1)
        PROVE  g[i] = IF i = 1 THEN s[i] ELSE g[i - 1] \o s[i]
    <3>1. CASE i = m + 1
      BY <3>1
    <3>2. CASE i # m + 1
      <4>1. i \in 1..m /\ g[i] = f[i]
        BY <3>2
      <4>2. i # 1 => i - 1 \in 1..m /\ g[i - 1] = f[i - 1]
        BY <4>1
      <4> HIDE DEF g
      <4> QED
        BY <2>1, <4>1, <4>2 DEF Joins
    <3> QED
      BY <3>1, <3>2
  <2>3. g = [i \in 1..(m + 1) |-> g[i]]
    OBVIOUS
  <2> HIDE DEF g
  <2>4. Joins(g, s, m + 1)
    BY <2>2, <2>3 DEF Joins
  <2> QED
    BY <2>4
<1>3. T = Nat
  <2> HIDE DEF T
  <2>1. T \in SUBSET Nat
    BY DEF T
  <2> QED
    BY <1>1, <1>2, <2>1, Induction
<1> QED
  BY <1>3

LEMMA JoinsAgree ==
    ASSUME NEW s, NEW t, NEW n \in Nat, NEW m \in Nat, n <= m, \A i \in 1..n : s[i] = t[i],
           NEW f, NEW g, Joins(f, s, n), Joins(g, t, m)
    PROVE  \A i \in 1..n : f[i] = g[i]
<1>1. /\ \A i \in 1..n : f[i] = IF i = 1 THEN s[i] ELSE f[i - 1] \o s[i]
      /\ \A i \in 1..m : g[i] = IF i = 1 THEN t[i] ELSE g[i - 1] \o t[i]
  BY DEF Joins
<1> DEFINE T == {k \in Nat : k + 1 \in 1..n => f[k + 1] = g[k + 1]}
<1>2. 0 \in T
  <2> SUFFICES ASSUME 1 \in 1..n
               PROVE  f[1] = g[1]
    OBVIOUS
  <2>1. 1 \in 1..m
    OBVIOUS
  <2> QED BY <1>1, <2>1
<1>3. ASSUME NEW k \in T
      PROVE  k + 1 \in T
  <2> SUFFICES ASSUME k + 2 \in 1..n
               PROVE  f[k + 2] = g[k + 2]
    OBVIOUS
  <2>1. k + 2 \in 1..m /\ k + 2 # 1 /\ (k + 2) - 1 = k + 1 /\ k + 1 \in 1..n
    OBVIOUS
  <2>2. f[k + 1] = g[k + 1]
    BY <2>1
  <2>3. f[k + 2] = f[k + 1] \o s[k + 2] /\ g[k + 2] = g[k + 1] \o t[k + 2]
    BY <1>1, <2>1
  <2>4. s[k + 2] = t[k + 2]
    OBVIOUS
  <2> QED BY <2>2, <2>3, <2>4
<1>4. T = Nat
  <2> HIDE DEF T
  <2>1. T \in SUBSET Nat
    BY DEF T
  <2> QED BY <1>2, <1>3, <2>1, Induction
<1> SUFFICES ASSUME NEW i \in 1..n
             PROVE  f[i] = g[i]
  OBVIOUS
<1>5. i - 1 \in Nat /\ (i - 1) + 1 = i
  OBVIOUS
<1>6. i - 1 \in T
  <2> HIDE DEF T
  <2> QED BY <1>4, <1>5
<1> QED
  BY <1>5, <1>6

\* The first n of s, and what they join to.
Pre(s, n) == [i \in 1..n |-> s[i]]
Flat(ss, n) == FlattenSeq(Pre(ss, n))

LEMMA PreSeq ==
    ASSUME NEW s, NEW n \in Nat
    PROVE  IsSeq(Pre(s, n)) /\ Len(Pre(s, n)) = n /\ \A i \in 1..n : Pre(s, n)[i] = s[i]
<1> DEFINE p == Pre(s, n)
<1>1. p = [i \in 1..n |-> p[i]] /\ \A i \in 1..n : p[i] = s[i]
  BY DEF Pre
<1> HIDE DEF p
<1>2. IsSeq(p) /\ Len(p) = n
  BY <1>1, SeqMade
<1> QED
  BY <1>1, <1>2 DEF p

LEMMA PreAll ==
    ASSUME NEW s, IsSeq(s)
    PROVE  Pre(s, Len(s)) = s
  BY SeqShape DEF Pre

LEMMA FlatNone ==
    ASSUME NEW ss
    PROVE  Flat(ss, 0) = <<>>
<1>1. Pre(ss, 0) = <<>>
  BY DEF Pre
<1>2. Len(<<>>) = 0
  BY EmptyIsSeq
<1> QED
  BY <1>1, <1>2 DEF Flat, FlattenSeq

LEMMA FlatIsJoin ==
    ASSUME NEW ss, NEW n \in Nat, n # 0
    PROVE  \E f : Joins(f, ss, n) /\ Flat(ss, n) = f[n]
<1> DEFINE p == Pre(ss, n)
<1>1. Len(p) = n /\ \A i \in 1..n : p[i] = ss[i]
  BY PreSeq
<1> HIDE DEF p
<1> DEFINE f == CHOOSE g : g = [i \in 1..Len(p) |-> IF i = 1 THEN p[i] ELSE g[i - 1] \o p[i]]
<1>2. Joins(f, p, n)
  <2>1. \E g : Joins(g, p, n)
    BY JoinsExists
  <2> QED BY <2>1, <1>1 DEF Joins
<1>3. FlattenSeq(p) = f[n]
  BY <1>1 DEF FlattenSeq
<1> HIDE DEF f
<1>4. Joins(f, ss, n)
  BY <1>1, <1>2 DEF Joins
<1> QED
  BY <1>3, <1>4 DEF Flat, p

LEMMA FlatFirst ==
    ASSUME NEW ss
    PROVE  Flat(ss, 1) = ss[1]
<1>1. PICK f : Joins(f, ss, 1) /\ Flat(ss, 1) = f[1]
  BY FlatIsJoin
<1>2. f[1] = ss[1]
  BY <1>1 DEF Joins
<1> QED
  BY <1>1, <1>2

LEMMA FlatNext ==
    ASSUME NEW ss, NEW n \in Nat, n # 0
    PROVE  Flat(ss, n + 1) = Flat(ss, n) \o ss[n + 1]
<1>1. PICK f : Joins(f, ss, n) /\ Flat(ss, n) = f[n]
  BY FlatIsJoin
<1>2. PICK g : Joins(g, ss, n + 1) /\ Flat(ss, n + 1) = g[n + 1]
  <2>1. n + 1 \in Nat /\ n + 1 # 0
    OBVIOUS
  <2> QED BY <2>1, FlatIsJoin
<1>3. f[n] = g[n]
  <2>1. n \in 1..n /\ n <= n + 1 /\ n + 1 \in Nat
    OBVIOUS
  <2>2. \A i \in 1..n : f[i] = g[i]
    BY <1>1, <1>2, <2>1, JoinsAgree
  <2> QED BY <2>1, <2>2
<1>4. n + 1 \in 1..(n + 1) /\ n + 1 # 1 /\ (n + 1) - 1 = n
  OBVIOUS
<1>5. g[n + 1] = g[n] \o ss[n + 1]
  BY <1>2, <1>4 DEF Joins
<1> QED
  BY <1>1, <1>2, <1>3, <1>5

\* What the first n join to is a sequence, and the next join behind it.
LEMMA FlatSeq ==
    ASSUME NEW ss, AreSeqs(ss), NEW n \in 0..Len(ss)
    PROVE  IsSeq(Flat(ss, n))
<1>1. Len(ss) \in Nat /\ DOMAIN ss = 1..Len(ss) /\ \A i \in 1..Len(ss) : IsSeq(ss[i])
  BY SeqShape DEF AreSeqs
<1> DEFINE T == {k \in Nat : k <= Len(ss) => IsSeq(Flat(ss, k))}
<1>2. 0 \in T
  BY FlatNone, EmptyIsSeq
<1>3. ASSUME NEW k \in T
      PROVE  k + 1 \in T
  <2> SUFFICES ASSUME k + 1 <= Len(ss)
               PROVE  IsSeq(Flat(ss, k + 1))
    OBVIOUS
  <2>1. k \in Nat /\ k <= Len(ss) /\ k + 1 \in 1..Len(ss)
    BY <1>1
  <2>2. IsSeq(Flat(ss, k)) /\ IsSeq(ss[k + 1])
    BY <1>1, <2>1
  <2>3. CASE k = 0
    <3>1. Flat(ss, k + 1) = ss[k + 1]
      BY <2>3, FlatFirst
    <3> QED BY <2>2, <3>1
  <2>4. CASE k # 0
    <3>1. Flat(ss, k + 1) = Flat(ss, k) \o ss[k + 1]
      BY <2>1, <2>4, FlatNext
    <3>2. Joined(Flat(ss, k) \o ss[k + 1], Flat(ss, k), ss[k + 1])
      BY <2>2, ConcatJoins
    <3> QED BY <3>1, <3>2 DEF Joined
  <2> QED BY <2>3, <2>4
<1>4. T = Nat
  <2> HIDE DEF T
  <2>1. T \in SUBSET Nat
    BY DEF T
  <2> QED BY <1>2, <1>3, <2>1, Induction
<1>5. n \in Nat /\ n <= Len(ss)
  BY <1>1
<1>6. n \in T
  <2> HIDE DEF T
  <2> QED BY <1>4, <1>5
<1> QED
  BY <1>5, <1>6

LEMMA FlatStep ==
    ASSUME NEW ss, AreSeqs(ss), NEW n \in Nat, n + 1 <= Len(ss)
    PROVE  Flat(ss, n + 1) = Flat(ss, n) \o ss[n + 1]
<1>1. CASE n = 0
  <2>1. Flat(ss, n + 1) = ss[n + 1] /\ Flat(ss, n) = <<>>
    BY <1>1, FlatFirst, FlatNone
  <2>2. IsSeq(ss[n + 1])
    BY <1>1, SeqShape DEF AreSeqs
  <2>3. <<>> \o ss[n + 1] = ss[n + 1]
    BY <2>2, ConcatNone
  <2> QED BY <2>1, <2>3
<1>2. CASE n # 0
  BY <1>2, FlatNext
<1> QED
  BY <1>1, <1>2

LEMMA FlatAll ==
    ASSUME NEW ss, IsSeq(ss)
    PROVE  FlattenSeq(ss) = Flat(ss, Len(ss))
  BY PreAll DEF Flat

\* Only the first n count.
LEMMA FlatAgree ==
    ASSUME NEW ss, NEW tt, NEW n \in Nat, \A i \in 1..n : ss[i] = tt[i]
    PROVE  Flat(ss, n) = Flat(tt, n)
<1>1. Pre(ss, n) = Pre(tt, n)
  BY DEF Pre
<1> QED
  BY <1>1 DEF Flat
-----------------------------------------------------------------------------
\* Where the j-th of ss[i] is in what ss joins to.
At(ss, i, j) == Len(Flat(ss, i - 1)) + j
Place(w, ss, n, k) == \E i \in 1..n : \E j \in 1..Len(ss[i]) : k = At(ss, i, j) /\ w[k] = ss[i][j]
Placed(w, ss, n) ==
    /\ \A k \in 1..Len(w) : Place(w, ss, n, k)
    /\ \A i \in 1..n : \A j \in 1..Len(ss[i]) : At(ss, i, j) \in 1..Len(w) /\ w[At(ss, i, j)] = ss[i][j]

LEMMA FlatPlaces ==
    ASSUME NEW ss, AreSeqs(ss), NEW n \in 0..Len(ss)
    PROVE  Placed(Flat(ss, n), ss, n)
<1>1. Len(ss) \in Nat /\ DOMAIN ss = 1..Len(ss) /\ \A i \in 1..Len(ss) : IsSeq(ss[i])
  BY SeqShape DEF AreSeqs
<1> DEFINE T == {m \in Nat : m <= Len(ss) => Placed(Flat(ss, m), ss, m)}
<1>2. 0 \in T
  <2>1. Len(Flat(ss, 0)) = 0
    BY FlatNone, EmptyIsSeq
  <2> QED BY <2>1 DEF Placed
<1>3. ASSUME NEW m \in T
      PROVE  m + 1 \in T
  <2> SUFFICES ASSUME m + 1 <= Len(ss)
               PROVE  Placed(Flat(ss, m + 1), ss, m + 1)
    OBVIOUS
  <2> DEFINE v == Flat(ss, m)
             w == Flat(ss, m + 1)
  <2>1. m \in Nat /\ m \in 0..Len(ss) /\ m + 1 \in 1..Len(ss) /\ Placed(v, ss, m)
    BY <1>1
  <2>2. w = v \o ss[m + 1]
    BY <2>1, FlatStep
  <2>3. IsSeq(v) /\ IsSeq(ss[m + 1])
    BY <1>1, <2>1, FlatSeq
  <2>4. Joined(w, v, ss[m + 1])
    BY <2>2, <2>3, ConcatJoins
  <2>5. \A j : At(ss, m + 1, j) = Len(v) + j
    <3>1. (m + 1) - 1 = m
      BY <2>1
    <3> QED BY <3>1 DEF At
  <2> HIDE DEF v, w
  <2>6. Len(v) \in Nat /\ Len(ss[m + 1]) \in Nat
    BY <2>3, SeqShape
  <2>7. /\ Len(w) = Len(v) + Len(ss[m + 1])
        /\ \A k \in 1..Len(v) : w[k] = v[k]
        /\ \A j \in 1..Len(ss[m + 1]) : w[Len(v) + j] = ss[m + 1][j]
    BY <2>4 DEF Joined
  <2>8. ASSUME NEW k \in 1..Len(w)
        PROVE  Place(w, ss, m + 1, k)
    <3>1. CASE k <= Len(v)
      <4>1. k \in 1..Len(v)
        BY <2>6, <2>7, <3>1
      <4>2. PICK i \in 1..m : \E j \in 1..Len(ss[i]) : k = At(ss, i, j) /\ v[k] = ss[i][j]
        BY <2>1, <4>1 DEF Placed, Place
      <4>3. i \in 1..(m + 1) /\ w[k] = v[k]
        BY <2>1, <2>7, <4>1
      <4> QED BY <4>2, <4>3 DEF Place
    <3>2. CASE ~(k <= Len(v))
      <4> DEFINE j == k - Len(v)
      <4>1. j \in 1..Len(ss[m + 1]) /\ Len(v) + j = k
        BY <2>6, <2>7, <3>2
      <4>2. k = At(ss, m + 1, j) /\ w[k] = ss[m + 1][j] /\ m + 1 \in 1..(m + 1)
        BY <2>1, <2>5, <2>7, <4>1
      <4> HIDE DEF j
      <4> QED BY <4>1, <4>2 DEF Place
    <3> QED BY <3>1, <3>2
  <2>9. ASSUME NEW i \in 1..(m + 1), NEW j \in 1..Len(ss[i])
        PROVE  At(ss, i, j) \in 1..Len(w) /\ w[At(ss, i, j)] = ss[i][j]
    <3>1. CASE i = m + 1
      <4>1. At(ss, i, j) = Len(v) + j
        BY <2>5, <3>1
      <4>2. Len(v) + j \in 1..Len(w)
        BY <2>6, <2>7, <3>1
      <4> QED BY <2>7, <3>1, <4>1, <4>2
    <3>2. CASE i # m + 1
      <4>1. i \in 1..m
        BY <2>1, <3>2
      <4>2. At(ss, i, j) \in 1..Len(v) /\ v[At(ss, i, j)] = ss[i][j]
        BY <2>1, <4>1 DEF Placed
      <4>3. At(ss, i, j) \in 1..Len(w)
        BY <2>6, <2>7, <4>2
      <4> QED BY <2>7, <4>2, <4>3
    <3> QED BY <3>1, <3>2
  <2>10. Placed(w, ss, m + 1)
    BY <2>8, <2>9 DEF Placed
  <2> QED BY <2>10 DEF w
<1>4. T = Nat
  <2> HIDE DEF T
  <2>1. T \in SUBSET Nat
    BY DEF T
  <2> QED BY <1>2, <1>3, <2>1, Induction
<1>5. n \in Nat /\ n <= Len(ss)
  BY <1>1
<1>6. n \in T
  <2> HIDE DEF T
  <2> QED BY <1>4, <1>5
<1> QED
  BY <1>5, <1>6

LEMMA FlattenPlaces ==
    ASSUME NEW ss, AreSeqs(ss)
    PROVE  IsSeq(FlattenSeq(ss)) /\ Placed(FlattenSeq(ss), ss, Len(ss))
<1>1. Len(ss) \in 0..Len(ss) /\ FlattenSeq(ss) = Flat(ss, Len(ss))
  BY SeqShape, FlatAll DEF AreSeqs
<1> QED
  BY <1>1, FlatSeq, FlatPlaces

\* Joining sequences one after another joins what each joins to.
LEMMA FlattenConcat ==
    ASSUME NEW ss, AreSeqs(ss), NEW tt, AreSeqs(tt)
    PROVE  AreSeqs(ss \o tt) /\ FlattenSeq(ss \o tt) = FlattenSeq(ss) \o FlattenSeq(tt)
<1> DEFINE uu == ss \o tt
           n == Len(ss)
           F == Flat(ss, n)
<1>1. Joined(uu, ss, tt)
  BY ConcatJoins DEF AreSeqs
<1> HIDE DEF uu
<1>2. /\ n \in Nat /\ DOMAIN ss = 1..n /\ \A i \in 1..n : IsSeq(ss[i])
      /\ Len(tt) \in Nat /\ DOMAIN tt = 1..Len(tt) /\ \A i \in 1..Len(tt) : IsSeq(tt[i])
  BY SeqShape DEF AreSeqs
<1>3. /\ IsSeq(uu) /\ Len(uu) = n + Len(tt)
      /\ \A i \in 1..n : uu[i] = ss[i]
      /\ \A i \in 1..Len(tt) : uu[n + i] = tt[i]
      /\ DOMAIN uu = 1..(n + Len(tt))
  BY <1>1 DEF Joined
<1>4. AreSeqs(uu)
  <2> SUFFICES ASSUME NEW i \in DOMAIN uu
               PROVE  IsSeq(uu[i])
    BY <1>3 DEF AreSeqs
  <2>1. CASE i <= n
    BY <1>2, <1>3, <2>1
  <2>2. CASE ~(i <= n)
    <3>1. i - n \in 1..Len(tt) /\ n + (i - n) = i
      BY <1>2, <1>3, <2>2
    <3>2. uu[i] = tt[i - n]
      BY <1>3, <3>1
    <3> QED BY <1>2, <3>1, <3>2
  <2> QED BY <2>1, <2>2
<1>5. F = FlattenSeq(ss) /\ IsSeq(F)
  BY <1>2, FlatAll, FlatSeq DEF AreSeqs
<1> DEFINE T == {m \in Nat : m <= Len(tt) => Flat(uu, n + m) = F \o Flat(tt, m)}
<1>6. 0 \in T
  <2>1. Flat(uu, n) = F
    BY <1>2, <1>3, FlatAgree
  <2>2. Flat(tt, 0) = <<>> /\ n + 0 = n
    BY <1>2, FlatNone
  <2>3. F \o <<>> = F
    BY <1>5, ConcatNone
  <2> QED BY <2>1, <2>2, <2>3
<1>7. ASSUME NEW m \in T
      PROVE  m + 1 \in T
  <2> SUFFICES ASSUME m + 1 <= Len(tt)
               PROVE  Flat(uu, n + (m + 1)) = F \o Flat(tt, m + 1)
    OBVIOUS
  <2>1. /\ m \in Nat /\ m \in 0..Len(tt) /\ m + 1 \in 1..Len(tt) /\ n + m \in Nat
        /\ (n + m) + 1 = n + (m + 1) /\ (n + m) + 1 <= Len(uu)
        /\ Flat(uu, n + m) = F \o Flat(tt, m)
    BY <1>2, <1>3
  <2>2. Flat(uu, (n + m) + 1) = Flat(uu, n + m) \o uu[(n + m) + 1]
    BY <1>4, <2>1, FlatStep
  <2>3. uu[(n + m) + 1] = tt[m + 1]
    BY <1>3, <2>1
  <2>4. Flat(tt, m + 1) = Flat(tt, m) \o tt[m + 1]
    BY <2>1, FlatStep
  <2>5. IsSeq(Flat(tt, m)) /\ IsSeq(tt[m + 1])
    BY <1>2, <2>1, FlatSeq
  <2> HIDE DEF F
  <2>6. (F \o Flat(tt, m)) \o tt[m + 1] = F \o (Flat(tt, m) \o tt[m + 1])
    <3> DEFINE g == Flat(tt, m)
               x == tt[m + 1]
    <3>1. IsSeq(F) /\ IsSeq(g) /\ IsSeq(x)
      BY <1>5, <2>5
    <3> HIDE DEF g, x
    <3>2. Associate(F, g, x)
      BY <3>1, ConcatAssoc
    <3> QED BY <3>2 DEF g, x, Associate
  <2> QED BY <2>1, <2>2, <2>3, <2>4, <2>6
<1>8. T = Nat
  <2> HIDE DEF T
  <2>1. T \in SUBSET Nat
    BY DEF T
  <2> QED BY <1>6, <1>7, <2>1, Induction
<1>9. Len(tt) \in T
  <2> HIDE DEF T
  <2> QED BY <1>2, <1>8
<1>10. Flat(uu, n + Len(tt)) = F \o Flat(tt, Len(tt))
  BY <1>2, <1>9
<1>11. FlattenSeq(uu) = F \o FlattenSeq(tt)
  BY <1>2, <1>3, <1>10, FlatAll DEF AreSeqs
<1> QED
  BY <1>4, <1>5, <1>11 DEF uu

LEMMA FlattenOne ==
    ASSUME NEW s
    PROVE  FlattenSeq(<<s>>) = s
<1> DEFINE ss == <<s>>
<1>1. ss = [i \in 1..1 |-> ss[i]] /\ ss[1] = s
  OBVIOUS
<1> HIDE DEF ss
<1>2. IsSeq(ss) /\ Len(ss) = 1
  BY <1>1, SeqMade
<1>3. FlattenSeq(ss) = s
  BY <1>1, <1>2, FlatAll, FlatFirst
<1> QED
  BY <1>3 DEF ss

LEMMA FlattenNothing == FlattenSeq(<<>>) = <<>>
  BY EmptyIsSeq DEF FlattenSeq
-----------------------------------------------------------------------------
\* What Kept returns: the elements at the places, and those only.
Singles(s, I) == [i \in DOMAIN s |-> IF i \in I THEN <<s[i]>> ELSE <<>>]
KeepsOnly(w, s, I) ==
    /\ IsSeq(w)
    /\ \A k \in DOMAIN w : \E i \in I \cap DOMAIN s : w[k] = s[i]
    /\ \A i \in I \cap DOMAIN s : \E k \in DOMAIN w : w[k] = s[i]

LEMMA SingleSeq ==
    ASSUME NEW x
    PROVE  IsSeq(<<x>>) /\ Len(<<x>>) = 1 /\ DOMAIN <<x>> = 1..1 /\ <<x>>[1] = x
<1> DEFINE s == <<x>>
<1>1. s = [i \in 1..1 |-> s[i]] /\ s[1] = x
  OBVIOUS
<1> HIDE DEF s
<1>2. IsSeq(s) /\ Len(s) = 1 /\ DOMAIN s = 1..1
  BY <1>1, SeqMade
<1> QED
  BY <1>1, <1>2 DEF s

LEMMA SingleHas ==
    ASSUME NEW t, NEW x, NEW kept \in BOOLEAN, t = IF kept THEN <<x>> ELSE <<>>, NEW j \in 1..Len(t)
    PROVE  kept /\ t = <<x>> /\ j = 1
<1>1. CASE kept
  <2>1. t = <<x>>
    BY <1>1
  <2>2. Len(<<x>>) = 1
    OBVIOUS
  <2> QED BY <1>1, <2>1, <2>2
<1>2. CASE ~kept
  <2>1. t = <<>>
    BY <1>2
  <2>2. Len(<<>>) = 0
    BY EmptyIsSeq
  <2> QED BY <2>1, <2>2
<1> QED
  BY <1>1, <1>2

LEMMA SinglesSeqs ==
    ASSUME NEW s, IsSeq(s), NEW I
    PROVE  /\ AreSeqs(Singles(s, I)) /\ Len(Singles(s, I)) = Len(s)
           /\ \A i \in 1..Len(s) : Singles(s, I)[i] = IF i \in I THEN <<s[i]>> ELSE <<>>
<1> DEFINE ss == Singles(s, I)
<1>1. Len(s) \in Nat /\ DOMAIN s = 1..Len(s)
  BY SeqShape
<1>2. ss = [i \in 1..Len(s) |-> ss[i]] /\ \A i \in 1..Len(s) : ss[i] = IF i \in I THEN <<s[i]>> ELSE <<>>
  BY <1>1 DEF Singles
<1> HIDE DEF ss
<1>3. IsSeq(ss) /\ Len(ss) = Len(s) /\ DOMAIN ss = 1..Len(s)
  BY <1>1, <1>2, SeqMade
<1>4. \A i \in 1..Len(s) : IsSeq(ss[i])
  BY <1>2, SingleSeq, EmptyIsSeq
<1> QED
  BY <1>2, <1>3, <1>4 DEF AreSeqs, ss

LEMMA KeptIsFlat ==
    ASSUME NEW s, IsSeq(s), NEW I
    PROVE  Kept(s, I) = Flat(Singles(s, I), Len(s))
<1>1. Kept(s, I) = FlattenSeq(Singles(s, I))
  BY DEF Kept, Singles
<1> QED
  BY <1>1, SinglesSeqs, FlatAll DEF AreSeqs

LEMMA KeptElements ==
    ASSUME NEW s, IsSeq(s), NEW I
    PROVE  KeepsOnly(Kept(s, I), s, I)
<1> DEFINE ss == Singles(s, I)
           w == Kept(s, I)
<1>1. /\ AreSeqs(ss) /\ Len(ss) = Len(s) /\ Len(s) \in Nat /\ DOMAIN s = 1..Len(s)
      /\ \A i \in 1..Len(s) : ss[i] = IF i \in I THEN <<s[i]>> ELSE <<>>
  BY SinglesSeqs, SeqShape
<1> HIDE DEF ss
<1>2. w = FlattenSeq(ss)
  BY DEF Kept, Singles, ss
<1> HIDE DEF w
<1>3. IsSeq(w) /\ Placed(w, ss, Len(s))
  BY <1>1, <1>2, FlattenPlaces
<1>4. DOMAIN w = 1..Len(w)
  BY <1>3, SeqShape
<1>5. ASSUME NEW k \in DOMAIN w
      PROVE  \E i \in I \cap DOMAIN s : w[k] = s[i]
  <2>1. PICK i \in 1..Len(s) : \E j \in 1..Len(ss[i]) : w[k] = ss[i][j]
    BY <1>3, <1>4 DEF Placed, Place
  <2>2. PICK j \in 1..Len(ss[i]) : w[k] = ss[i][j]
    BY <2>1
  <2>3. i \in I /\ ss[i] = <<s[i]>> /\ j = 1
    <3>1. ss[i] = IF i \in I THEN <<s[i]>> ELSE <<>>
      BY <1>1
    <3> QED BY <3>1, SingleHas
  <2>4. ss[i][j] = s[i]
    BY <2>3, SingleSeq
  <2> QED BY <1>1, <2>2, <2>3, <2>4
<1>6. ASSUME NEW i \in I \cap DOMAIN s
      PROVE  \E k \in DOMAIN w : w[k] = s[i]
  <2>1. i \in 1..Len(s) /\ ss[i] = <<s[i]>> /\ 1 \in 1..Len(ss[i])
    <3>1. i \in 1..Len(s) /\ ss[i] = <<s[i]>>
      BY <1>1
    <3>2. 1 \in 1..Len(<<s[i]>>)
      OBVIOUS
    <3> QED BY <3>1, <3>2
  <2>2. At(ss, i, 1) \in 1..Len(w) /\ w[At(ss, i, 1)] = ss[i][1]
    BY <1>3, <2>1 DEF Placed
  <2>3. ss[i][1] = s[i]
    BY <2>1, SingleSeq
  <2> QED BY <1>4, <2>2, <2>3
<1>7. KeepsOnly(w, s, I)
  BY <1>3, <1>5, <1>6 DEF KeepsOnly
<1> QED
  BY <1>7 DEF w

\* Of two sequences of one length the elements at the same places are kept, in one order.
KeptAlike(s, t, I) ==
    /\ Len(Kept(s, I)) = Len(Kept(t, I))
    /\ \A k \in DOMAIN Kept(s, I) :
          \E i \in I \cap DOMAIN s : Kept(s, I)[k] = s[i] /\ Kept(t, I)[k] = t[i]

LEMMA KeptTogether ==
    ASSUME NEW s, IsSeq(s), NEW t, IsSeq(t), Len(s) = Len(t), NEW I
    PROVE  KeptAlike(s, t, I)
<1> DEFINE ss == Singles(s, I)
           tt == Singles(t, I)
           n == Len(s)
           w == Kept(s, I)
           v == Kept(t, I)
<1>1. /\ AreSeqs(ss) /\ AreSeqs(tt) /\ Len(ss) = n /\ Len(tt) = n /\ n \in Nat /\ DOMAIN s = 1..n
      /\ \A i \in 1..n : ss[i] = IF i \in I THEN <<s[i]>> ELSE <<>>
      /\ \A i \in 1..n : tt[i] = IF i \in I THEN <<t[i]>> ELSE <<>>
  BY SinglesSeqs, SeqShape
<1>2. w = Flat(ss, n) /\ v = Flat(tt, n)
  BY KeptIsFlat
<1> HIDE DEF ss, tt, w, v
<1>3. \A i \in 1..n : Len(ss[i]) = Len(tt[i]) /\ IsSeq(ss[i]) /\ IsSeq(tt[i])
  BY <1>1, SingleSeq, EmptyIsSeq
<1> DEFINE T == {m \in Nat : m <= n => Len(Flat(ss, m)) = Len(Flat(tt, m))}
<1>4. 0 \in T
  BY FlatNone
<1>5. ASSUME NEW m \in T
      PROVE  m + 1 \in T
  <2> SUFFICES ASSUME m + 1 <= n
               PROVE  Len(Flat(ss, m + 1)) = Len(Flat(tt, m + 1))
    OBVIOUS
  <2> DEFINE a == Flat(ss, m)
             b == Flat(tt, m)
  <2>1. m \in Nat /\ m \in 0..n /\ m + 1 \in 1..n /\ Len(a) = Len(b)
    BY <1>1
  <2>2. Flat(ss, m + 1) = a \o ss[m + 1] /\ Flat(tt, m + 1) = b \o tt[m + 1] /\ IsSeq(a) /\ IsSeq(b)
    BY <1>1, <2>1, FlatStep, FlatSeq
  <2> HIDE DEF a, b
  <2>3. Joined(a \o ss[m + 1], a, ss[m + 1]) /\ Joined(b \o tt[m + 1], b, tt[m + 1])
    BY <1>3, <2>1, <2>2, ConcatJoins
  <2> QED BY <1>3, <2>1, <2>2, <2>3 DEF Joined
<1>6. T = Nat
  <2> HIDE DEF T
  <2>1. T \in SUBSET Nat
    BY DEF T
  <2> QED BY <1>4, <1>5, <2>1, Induction
<1>7. \A m \in 0..n : Len(Flat(ss, m)) = Len(Flat(tt, m))
  <2> SUFFICES ASSUME NEW m \in 0..n
               PROVE  Len(Flat(ss, m)) = Len(Flat(tt, m))
    OBVIOUS
  <2>1. m \in T
    <3> HIDE DEF T
    <3> QED BY <1>1, <1>6
  <2> QED BY <1>1, <2>1
<1>8. IsSeq(w) /\ IsSeq(v) /\ Placed(w, ss, n) /\ Placed(v, tt, n)
  BY <1>1, <1>2, FlatSeq, FlatPlaces
<1>9. Len(w) = Len(v) /\ DOMAIN w = 1..Len(w)
  BY <1>1, <1>2, <1>7, <1>8, SeqShape
<1>10. ASSUME NEW k \in DOMAIN w
       PROVE  \E i \in I \cap DOMAIN s : w[k] = s[i] /\ v[k] = t[i]
  <2>1. PICK i \in 1..n : \E j \in 1..Len(ss[i]) : k = At(ss, i, j) /\ w[k] = ss[i][j]
    BY <1>8, <1>9 DEF Placed, Place
  <2>2. PICK j \in 1..Len(ss[i]) : k = At(ss, i, j) /\ w[k] = ss[i][j]
    BY <2>1
  <2>3. i \in I /\ ss[i] = <<s[i]>> /\ tt[i] = <<t[i]>> /\ j = 1
    <3>1. /\ ss[i] = IF i \in I THEN <<s[i]>> ELSE <<>>
          /\ tt[i] = IF i \in I THEN <<t[i]>> ELSE <<>>
      BY <1>1
    <3>2. i \in I /\ ss[i] = <<s[i]>> /\ j = 1
      BY <3>1, SingleHas
    <3> QED BY <3>1, <3>2
  <2>4. At(ss, i, j) = At(tt, i, j)
    <3>1. i - 1 \in 0..n
      BY <1>1
    <3> QED BY <1>7, <3>1 DEF At
  <2>5. v[k] = tt[i][j]
    <3>1. j \in 1..Len(tt[i])
      BY <1>3
    <3> QED BY <1>8, <2>2, <2>4, <3>1 DEF Placed
  <2>6. ss[i][j] = s[i] /\ tt[i][j] = t[i]
    BY <2>3, SingleSeq
  <2> QED BY <1>1, <2>2, <2>3, <2>5, <2>6
<1>11. /\ Len(w) = Len(v)
       /\ \A k \in DOMAIN w : \E i \in I \cap DOMAIN s : w[k] = s[i] /\ v[k] = t[i]
  BY <1>9, <1>10
<1> QED
  BY <1>11 DEF KeptAlike, w, v

\* Only the elements and the places in the sequence count.
LEMMA KeptAgree ==
    ASSUME NEW s, IsSeq(s), NEW I, NEW J, \A i \in 1..Len(s) : i \in I <=> i \in J
    PROVE  Kept(s, I) = Kept(s, J)
<1>1. DOMAIN s = 1..Len(s)
  BY SeqShape
<1>2. Singles(s, I) = Singles(s, J)
  BY <1>1 DEF Singles
<1> QED
  BY <1>2, KeptIsFlat

\* The places of K are, in a sequence that joins two, those of I and those of J.
Splits(K, I, J, n, m) ==
    (\A i \in 1..n : i \in K <=> i \in I) /\ (\A i \in 1..m : n + i \in K <=> i \in J)

LEMMA KeptConcat ==
    ASSUME NEW s, IsSeq(s), NEW t, IsSeq(t), NEW I, NEW J, NEW K, Splits(K, I, J, Len(s), Len(t))
    PROVE  Kept(s \o t, K) = Kept(s, I) \o Kept(t, J)
<1>0. /\ \A i \in 1..Len(s) : i \in K <=> i \in I
      /\ \A i \in 1..Len(t) : Len(s) + i \in K <=> i \in J
  BY DEF Splits
<1> DEFINE u == s \o t
           ss == Singles(s, I)
           tt == Singles(t, J)
           uu == Singles(u, K)
<1>1. Joined(u, s, t)
  BY ConcatJoins
<1>2. Kept(u, K) = FlattenSeq(uu) /\ Kept(s, I) = FlattenSeq(ss) /\ Kept(t, J) = FlattenSeq(tt)
  BY DEF Kept, Singles
<1> HIDE DEF u
<1>3. /\ IsSeq(u) /\ Len(u) = Len(s) + Len(t) /\ Len(s) \in Nat /\ Len(t) \in Nat
      /\ \A i \in 1..Len(s) : u[i] = s[i]
      /\ \A i \in 1..Len(t) : u[Len(s) + i] = t[i]
  BY <1>1, SeqShape DEF Joined
<1>4. /\ AreSeqs(ss) /\ AreSeqs(tt) /\ AreSeqs(uu)
      /\ Len(ss) = Len(s) /\ Len(tt) = Len(t) /\ Len(uu) = Len(s) + Len(t)
      /\ \A i \in 1..Len(s) : ss[i] = IF i \in I THEN <<s[i]>> ELSE <<>>
      /\ \A i \in 1..Len(t) : tt[i] = IF i \in J THEN <<t[i]>> ELSE <<>>
      /\ \A i \in 1..(Len(s) + Len(t)) : uu[i] = IF i \in K THEN <<u[i]>> ELSE <<>>
  <2>1. /\ AreSeqs(ss) /\ Len(ss) = Len(s)
        /\ \A i \in 1..Len(s) : ss[i] = IF i \in I THEN <<s[i]>> ELSE <<>>
    BY SinglesSeqs
  <2>2. /\ AreSeqs(tt) /\ Len(tt) = Len(t)
        /\ \A i \in 1..Len(t) : tt[i] = IF i \in J THEN <<t[i]>> ELSE <<>>
    BY SinglesSeqs
  <2>3. /\ AreSeqs(uu) /\ Len(uu) = Len(u)
        /\ \A i \in 1..Len(u) : uu[i] = IF i \in K THEN <<u[i]>> ELSE <<>>
    BY <1>3, SinglesSeqs
  <2> QED BY <1>3, <2>1, <2>2, <2>3
<1> HIDE DEF ss, tt, uu
<1>5. \A i \in 1..Len(s) : uu[i] = ss[i]
  <2> SUFFICES ASSUME NEW i \in 1..Len(s)
               PROVE  uu[i] = ss[i]
    OBVIOUS
  <2>1. i \in 1..(Len(s) + Len(t))
    BY <1>3
  <2> QED BY <1>0, <1>3, <1>4, <2>1
<1>6. \A i \in 1..Len(t) : uu[Len(s) + i] = tt[i]
  <2> SUFFICES ASSUME NEW i \in 1..Len(t)
               PROVE  uu[Len(s) + i] = tt[i]
    OBVIOUS
  <2>1. Len(s) + i \in 1..(Len(s) + Len(t))
    BY <1>3
  <2> QED BY <1>0, <1>3, <1>4, <2>1
<1>7. Joined(uu, ss, tt)
  <2>1. DOMAIN uu = 1..(Len(ss) + Len(tt))
    BY <1>4, SeqShape DEF AreSeqs
  <2> QED BY <1>4, <1>5, <1>6, <2>1 DEF Joined, AreSeqs
<1>8. uu = ss \o tt
  BY <1>4, <1>7, JoinedUnique DEF AreSeqs
<1>9. FlattenSeq(uu) = FlattenSeq(ss) \o FlattenSeq(tt)
  BY <1>4, <1>8, FlattenConcat
<1> QED
  BY <1>2, <1>9 DEF u

LEMMA KeptWhole ==
    ASSUME NEW s, IsSeq(s), NEW I, 1..Len(s) \subseteq I
    PROVE  Kept(s, I) = s
<1> DEFINE ss == Singles(s, I)
           n == Len(s)
<1>1. /\ AreSeqs(ss) /\ Len(ss) = n /\ n \in Nat /\ s = [i \in 1..n |-> s[i]]
      /\ \A i \in 1..n : ss[i] = <<s[i]>>
  BY SinglesSeqs, SeqShape
<1> HIDE DEF ss
<1> DEFINE T == {m \in Nat : m <= n => Flat(ss, m) = Pre(s, m)}
<1>2. 0 \in T
  <2>1. Pre(s, 0) = <<>>
    BY DEF Pre
  <2> QED BY <2>1, FlatNone
<1>3. ASSUME NEW m \in T
      PROVE  m + 1 \in T
  <2> SUFFICES ASSUME m + 1 <= n
               PROVE  Flat(ss, m + 1) = Pre(s, m + 1)
    OBVIOUS
  <2>1. m \in Nat /\ m + 1 \in 1..n /\ Flat(ss, m) = Pre(s, m)
    BY <1>1
  <2>2. Flat(ss, m + 1) = Pre(s, m) \o <<s[m + 1]>>
    BY <1>1, <2>1, FlatStep
  <2>3. /\ IsSeq(Pre(s, m)) /\ Len(Pre(s, m)) = m /\ \A i \in 1..m : Pre(s, m)[i] = s[i]
        /\ IsSeq(Pre(s, m + 1)) /\ Len(Pre(s, m + 1)) = m + 1 /\ \A i \in 1..(m + 1) : Pre(s, m + 1)[i] = s[i]
    BY <2>1, PreSeq
  <2>4. DOMAIN Pre(s, m + 1) = 1..(m + 1)
    BY DEF Pre
  <2>5. Joined(Pre(s, m + 1), Pre(s, m), <<s[m + 1]>>)
    <3>1. \A i \in 1..1 : Pre(s, m + 1)[m + i] = <<s[m + 1]>>[i]
      BY <2>1, <2>3, SingleSeq
    <3>2. \A i \in 1..m : Pre(s, m + 1)[i] = Pre(s, m)[i]
      BY <2>1, <2>3
    <3> QED BY <2>3, <2>4, <3>1, <3>2, SingleSeq DEF Joined
  <2>6. Pre(s, m + 1) = Pre(s, m) \o <<s[m + 1]>>
    BY <2>3, <2>5, SingleSeq, JoinedUnique
  <2> QED BY <2>2, <2>6
<1>4. T = Nat
  <2> HIDE DEF T
  <2>1. T \in SUBSET Nat
    BY DEF T
  <2> QED BY <1>2, <1>3, <2>1, Induction
<1>5. n \in T
  <2> HIDE DEF T
  <2> QED BY <1>1, <1>4
<1>6. Flat(ss, n) = s
  BY <1>1, <1>5, PreAll
<1> QED
  BY <1>6, KeptIsFlat DEF ss

LEMMA KeptNone ==
    ASSUME NEW s, IsSeq(s), NEW I, \A i \in 1..Len(s) : i \notin I
    PROVE  Kept(s, I) = <<>>
<1> DEFINE w == Kept(s, I)
<1>1. KeepsOnly(w, s, I)
  BY KeptElements
<1> HIDE DEF w
<1>2. IsSeq(w) /\ DOMAIN s = 1..Len(s) /\ Len(w) \in Nat /\ DOMAIN w = 1..Len(w)
  BY <1>1, SeqShape DEF KeepsOnly
<1>3. DOMAIN w = {}
  BY <1>1, <1>2 DEF KeepsOnly
<1>4. Len(w) = 0
  <2>1. Len(w) # 0 => 1 \in DOMAIN w
    BY <1>2
  <2> QED BY <1>3, <2>1
<1>5. w = <<>>
  BY <1>2, <1>4, EmptyIsSeq, SeqSame
<1> QED
  BY <1>5 DEF w

-----------------------------------------------------------------------------
\* Every field but some is as it was.
Keeps(c, b, fields) ==
    /\ c = [f \in DOMAIN Block |-> c[f]]
    /\ \A f \in DOMAIN Block \ fields : c[f] = b[f]

LEMMA BlockFields ==
    DOMAIN Block = {"type", "body", "source", "media", "title", "id", "content", "cites", "error", "cache"}
  BY DEF Block

LEMMA BlockIsSimple ==
    /\ Simple(Block) /\ Block.type = "text" /\ Block.body = <<>> /\ Block.id = ""
    /\ Block.cache = FALSE /\ Block.content = <<>>
  BY CleanedAssumption, EmptyIsSeq DEF Simple, IsBlock, Block

LEMMA KeptBlock ==
    ASSUME NEW b, IsBlock(b), NEW c, Keeps(c, b, {"type", "id", "source", "media", "error"})
    PROVE  /\ IsBlock(c) /\ c.body = b.body /\ c.content = b.content /\ c.cites = b.cites
           /\ c.title = b.title /\ c.cache = b.cache
<1>1. \A f \in {"body", "content", "cites", "title", "cache"} : c[f] = b[f]
  BY BlockFields DEF Keeps
<1>2. /\ c.body = b.body /\ c.content = b.content /\ c.cites = b.cites
      /\ c.title = b.title /\ c.cache = b.cache
  BY <1>1
<1>3. c = [f \in DOMAIN Block |-> c[f]]
  BY DEF Keeps
<1> QED
  BY <1>2, <1>3 DEF IsBlock

LEMMA Retyped ==
    ASSUME NEW b, IsBlock(b), NEW t
    PROVE  Keeps([b EXCEPT !.type = t], b, {"type"}) /\ [b EXCEPT !.type = t].type = t
<1>1. b = [f \in DOMAIN Block |-> b[f]] /\ "type" \in DOMAIN Block
  BY BlockFields DEF IsBlock
<1> QED
  BY <1>1 DEF Keeps

\* What the parts of an answer of Converse are: reasoning that is no text is printed
\* and loses its signature.
SaidBy(b) == IF b.type = "redactedContent" THEN Printed(b.body) ELSE b.body
SignedBy(b) == IF b.type = "redactedContent" THEN "" ELSE b.id
Answered(p, b) ==
    /\ Keeps(p, b, {"type", "body", "id"})
    /\ p.body = SaidBy(b) /\ p.id = SignedBy(b)
    /\ p.type = IF b.type = "toolUse" THEN "tool_call" ELSE
                IF b.type \in {"reasoningContent", "redactedContent"} THEN "thinking" ELSE
                IF b.type = "image" THEN "image" ELSE "text"

LEMMA BedrockPartIs ==
    ASSUME NEW b, IsBlock(b)
    PROVE  Answered(BedrockPart(b), b)
<1>1. ASSUME NEW c, Keeps(c, b, {"type"})
      PROVE  Keeps(c, b, {"type", "body", "id"}) /\ c.body = b.body /\ c.id = b.id
  BY <1>1, BlockFields DEF Keeps
<1>2. \A t : Keeps([b EXCEPT !.type = t], b, {"type"}) /\ [b EXCEPT !.type = t].type = t
  BY Retyped
<1>3. Keeps(b, b, {"type"})
  BY DEF Keeps, IsBlock
<1>4. CASE b.type = "toolUse"
  BY <1>1, <1>2, <1>4 DEF BedrockPart, Answered, SaidBy, SignedBy
<1>5. CASE b.type = "reasoningContent"
  BY <1>1, <1>2, <1>5 DEF BedrockPart, Answered, SaidBy, SignedBy
<1>6. CASE b.type = "image"
  BY <1>1, <1>3, <1>6 DEF BedrockPart, Answered, SaidBy, SignedBy
<1>7. CASE b.type = "redactedContent"
  <2> DEFINE c == [b EXCEPT !.type = "thinking", !.body = Printed(b.body), !.id = ""]
  <2>1. b = [f \in DOMAIN Block |-> b[f]] /\ {"type", "body", "id"} \subseteq DOMAIN Block
    BY BlockFields DEF IsBlock
  <2>2. /\ c = [f \in DOMAIN Block |-> c[f]] /\ \A f \in DOMAIN Block \ {"type", "body", "id"} : c[f] = b[f]
        /\ c.type = "thinking" /\ c.body = Printed(b.body) /\ c.id = ""
    BY <2>1
  <2>3. BedrockPart(b) = c
    BY <1>7 DEF BedrockPart
  <2> HIDE DEF c
  <2> QED BY <1>7, <2>2, <2>3 DEF Answered, Keeps, SaidBy, SignedBy
<1>8. CASE b.type \notin {"toolUse", "reasoningContent", "redactedContent", "image"}
  BY <1>1, <1>2, <1>8 DEF BedrockPart, Answered, SaidBy, SignedBy
<1> QED
  BY <1>4, <1>5, <1>6, <1>7, <1>8

\* The types of the parts of an answer, and of its blocks.
PartTypes == {"text", "tool_call", "thinking", "image"}
Parts(s) == IsSeq(s) /\ \A i \in 1..Len(s) : Simple(s[i]) /\ s[i].type \in PartTypes

LEMMA AnsweredSimple ==
    ASSUME NEW b, Simple(b), NEW p, Answered(p, b)
    PROVE  Simple(p)
<1>1. IsSeq(SaidBy(b))
  <2>1. IsSeq(b.body) /\ IsSeq(<<"repr">>)
    BY SingleSeq DEF Simple, IsBlock
  <2>2. IsSeq(Printed(b.body))
    BY <2>1, ConcatJoins DEF Printed, Joined
  <2> QED BY <2>1, <2>2 DEF SaidBy
<1>2. \A f \in {"content", "cites", "title", "cache"} : p[f] = b[f]
  BY BlockFields DEF Answered, Keeps
<1>3. p = [f \in DOMAIN Block |-> p[f]] /\ p.body = SaidBy(b)
  BY DEF Answered, Keeps
<1>4. p.content = b.content /\ p.cites = b.cites /\ p.title = b.title /\ p.cache = b.cache
  BY <1>2
<1> QED
  BY <1>1, <1>3, <1>4 DEF Simple, IsBlock

LEMMA MapSeq ==
    ASSUME NEW s, IsSeq(s), NEW t, t = [i \in DOMAIN s |-> t[i]]
    PROVE  IsSeq(t) /\ Len(t) = Len(s) /\ DOMAIN t = 1..Len(s)
<1>1. Len(s) \in Nat /\ DOMAIN s = 1..Len(s)
  BY SeqShape
<1> QED
  BY <1>1, SeqMade

LEMMA OnePart == Parts(<<Block>>)
<1> DEFINE w == <<Block>>
<1>1. IsSeq(w) /\ Len(w) = 1 /\ w[1] = Block
  BY SingleSeq
<1> HIDE DEF w
<1>2. \A i \in 1..Len(w) : w[i] = Block
  BY <1>1
<1>3. Parts(w)
  BY <1>1, <1>2, BlockIsSimple DEF Parts, PartTypes
<1> QED
  BY <1>3 DEF w

\* What the result of an answer holds: its parts, or an empty text if there is none.
LEMMA ConverseParts ==
    ASSUME NEW a \in Answers["bedrock"], "bedrock" \in Backends
    PROVE  /\ Parts(FromBedrock(a).content)
           /\ IF a.content = <<>> THEN FromBedrock(a).content = <<Block>>
              ELSE /\ Len(FromBedrock(a).content) = Len(a.content)
                   /\ \A i \in 1..Len(a.content) : FromBedrock(a).content[i] = BedrockPart(a.content[i])
<1> DEFINE parts == [i \in DOMAIN a.content |-> BedrockPart(a.content[i])]
           c == FromBedrock(a).content
<1>1. IsSeq(a.content) /\ \A i \in DOMAIN a.content : Simple(a.content[i])
  BY AnswersAssumption
<1>2. Len(a.content) \in Nat /\ DOMAIN a.content = 1..Len(a.content)
  BY <1>1, SeqShape
<1>3. c = IF parts = <<>> THEN <<Block>> ELSE parts
  BY DEF FromBedrock
<1>4. parts = [i \in DOMAIN a.content |-> parts[i]] /\ \A i \in 1..Len(a.content) : parts[i] = BedrockPart(a.content[i])
  BY <1>2
<1> HIDE DEF parts, c
<1>5. IsSeq(parts) /\ Len(parts) = Len(a.content)
  BY <1>1, <1>4, MapSeq
<1>6. \A i \in 1..Len(parts) : Simple(parts[i]) /\ parts[i].type \in PartTypes
  <2> SUFFICES ASSUME NEW i \in 1..Len(parts)
               PROVE  Simple(parts[i]) /\ parts[i].type \in PartTypes
    OBVIOUS
  <2>1. Simple(a.content[i]) /\ parts[i] = BedrockPart(a.content[i])
    BY <1>1, <1>2, <1>4, <1>5
  <2>2. Answered(parts[i], a.content[i])
    BY <2>1, BedrockPartIs DEF Simple
  <2>3. Simple(parts[i])
    BY <2>1, <2>2, AnsweredSimple
  <2> QED BY <2>2, <2>3 DEF Answered, PartTypes
<1>7. a.content = <<>> <=> parts = <<>>
  <2>1. a.content = <<>> <=> Len(a.content) = 0
    BY <1>1, EmptyIsSeq, SeqSame, <1>2
  <2>2. parts = <<>> <=> Len(parts) = 0
    BY <1>5, EmptyIsSeq, SeqSame, <1>2
  <2> QED BY <1>5, <2>1, <2>2
<1>8. CASE parts = <<>>
  <2> QED BY <1>3, <1>7, <1>8, OnePart DEF c
<1>9. CASE parts # <<>>
  BY <1>3, <1>4, <1>5, <1>6, <1>7, <1>9 DEF Parts, c
<1> QED
  BY <1>8, <1>9
LEMMA LangChainPartsAre ==
    ASSUME NEW a \in Answers["langchain"], "langchain" \in Backends
    PROVE  Parts(FromLangChain(a).content)
<1> DEFINE I == {i \in DOMAIN a.content : a.content[i].type = "text" /\ a.content[i].body # <<>>}
           J == {i \in DOMAIN a.content : a.content[i].type \in {"tool_call"}}
           u == Kept(a.content, I)
           v == Kept(a.content, J)
           c == FromLangChain(a).content
           w == u \o v
<1>1. IsSeq(a.content) /\ \A i \in DOMAIN a.content : Simple(a.content[i])
  BY AnswersAssumption
<1>2. LangChainParts(a) = w
  BY DEF LangChainParts, OfType
<1>3. c = IF w = <<>> THEN <<Block>> ELSE w
  BY <1>2 DEF FromLangChain
<1>4. KeepsOnly(u, a.content, I) /\ KeepsOnly(v, a.content, J)
  BY <1>1, KeptElements
<1>5. /\ \A i \in I : i \in DOMAIN a.content /\ a.content[i].type = "text"
      /\ \A i \in J : i \in DOMAIN a.content /\ a.content[i].type = "tool_call"
  OBVIOUS
<1> HIDE DEF I, J, u, v, c
<1>6. Joined(w, u, v)
  BY <1>4, ConcatJoins DEF KeepsOnly
<1> HIDE DEF w
<1>7. IsSeq(u) /\ IsSeq(v) /\ Len(u) \in Nat /\ DOMAIN u = 1..Len(u) /\ Len(v) \in Nat /\ DOMAIN v = 1..Len(v)
  BY <1>4, SeqShape DEF KeepsOnly
<1>8. ASSUME NEW k \in 1..Len(w)
      PROVE  Simple(w[k]) /\ w[k].type \in PartTypes
  <2>1. CASE k <= Len(u)
    <3>1. k \in DOMAIN u /\ w[k] = u[k]
      BY <1>6, <1>7, <2>1 DEF Joined
    <3>2. PICK i \in I \cap DOMAIN a.content : u[k] = a.content[i]
      BY <1>4, <3>1 DEF KeepsOnly
    <3> QED BY <1>1, <1>5, <3>1, <3>2 DEF PartTypes
  <2>2. CASE ~(k <= Len(u))
    <3>1. k - Len(u) \in DOMAIN v /\ Len(u) + (k - Len(u)) = k
      BY <1>6, <1>7, <2>2 DEF Joined
    <3>2. w[k] = v[k - Len(u)]
      BY <1>6, <1>7, <3>1 DEF Joined
    <3>3. PICK i \in J \cap DOMAIN a.content : v[k - Len(u)] = a.content[i]
      BY <1>4, <3>1 DEF KeepsOnly
    <3> QED BY <1>1, <1>5, <3>2, <3>3 DEF PartTypes
  <2> QED BY <2>1, <2>2
<1>9. Parts(w)
  BY <1>6, <1>8 DEF Parts, Joined
<1>10. c = <<Block>> \/ c = w
  BY <1>3
<1> QED
  BY <1>9, <1>10, OnePart DEF c

\* What a block of the response is, of a part of the result.
BlockTypes == {"text", "tool_use", "thinking", "image"}
Returned(b, p) ==
    /\ IsBlock(b) /\ b.body = p.body /\ b.id = p.id /\ b.content = <<>> /\ b.cache = p.cache
    /\ b.type = IF p.type = "tool_call" THEN "tool_use" ELSE p.type

LEMMA BlockOfReturns ==
    ASSUME NEW p, Simple(p), p.type \in PartTypes
    PROVE  Returned(BlockOf(p), p)
<1>0. IsBlock(p) /\ p.content = <<>>
  BY DEF Simple
<1>1. CASE p.type = "text"
  <2> DEFINE cites == [i \in DOMAIN p.cites |-> CitationToWire(p.cites[i])]
             b == [p EXCEPT !.cites = cites]
  <2>1. BlockOf(p) = b
    BY <1>1 DEF BlockOf
  <2>2. IsSeq(cites)
    <3>1. cites = [i \in DOMAIN p.cites |-> cites[i]] /\ IsSeq(p.cites)
      BY <1>0 DEF IsBlock
    <3> HIDE DEF cites
    <3> QED BY <3>1, MapSeq
  <2> HIDE DEF cites
  <2>3. p = [f \in DOMAIN Block |-> p[f]]
    BY <1>0 DEF IsBlock
  <2>4. /\ b = [f \in DOMAIN Block |-> b[f]] /\ b.cites = cites
        /\ \A f \in DOMAIN Block \ {"cites"} : b[f] = p[f]
    BY <2>3, BlockFields
  <2> HIDE DEF b
  <2>5. /\ b.type = p.type /\ b.body = p.body /\ b.id = p.id /\ b.content = p.content
        /\ b.title = p.title /\ b.cache = p.cache
    BY <2>4, BlockFields
  <2>6. IsBlock(b)
    BY <1>0, <2>2, <2>4, <2>5 DEF IsBlock
  <2> QED BY <1>0, <1>1, <2>1, <2>5, <2>6 DEF Returned
<1>2. CASE p.type = "tool_call"
  <2> DEFINE b == [p EXCEPT !.type = "tool_use"]
  <2>1. BlockOf(p) = b
    BY <1>2 DEF BlockOf
  <2>2. Keeps(b, p, {"type"}) /\ b.type = "tool_use"
    BY <1>0, Retyped
  <2> HIDE DEF b
  <2>3. IsBlock(b) /\ b.body = p.body /\ b.content = p.content /\ b.cache = p.cache
    <3>1. Keeps(b, p, {"type", "id", "source", "media", "error"})
      BY <2>2 DEF Keeps
    <3> QED BY <1>0, <3>1, KeptBlock
  <2>4. b.id = p.id
    BY <2>2, BlockFields DEF Keeps
  <2> QED BY <1>0, <1>2, <2>1, <2>2, <2>3, <2>4 DEF Returned
<1>3. CASE p.type \in {"thinking", "image"}
  <2>1. BlockOf(p) = p
    BY <1>3 DEF BlockOf
  <2> QED BY <1>0, <1>3, <2>1 DEF Returned
<1> QED
  BY <1>1, <1>2, <1>3 DEF PartTypes

\* The blocks of the response.
Blocks(s) == IsSeq(s) /\ \A i \in 1..Len(s) : Simple(s[i]) /\ s[i].type \in BlockTypes

LEMMA ResponseBlocks ==
    ASSUME NEW r, Parts(r.content), r.content # <<>>
    PROVE  /\ Blocks(ToResponse(r).content) /\ Len(ToResponse(r).content) = Len(r.content)
           /\ \A i \in 1..Len(r.content) : ToResponse(r).content[i] = BlockOf(r.content[i])
           /\ \A i \in 1..Len(r.content) : Returned(ToResponse(r).content[i], r.content[i])
<1> DEFINE c == ToResponse(r).content
<1>1. IsSeq(r.content) /\ \A i \in 1..Len(r.content) : Simple(r.content[i]) /\ r.content[i].type \in PartTypes
  BY DEF Parts
<1>2. DOMAIN r.content = 1..Len(r.content)
  BY <1>1, SeqShape
<1>3. c = [i \in DOMAIN r.content |-> c[i]] /\ \A i \in 1..Len(r.content) : c[i] = BlockOf(r.content[i])
  BY <1>2 DEF ToResponse
<1> HIDE DEF c
<1>4. IsSeq(c) /\ Len(c) = Len(r.content)
  BY <1>1, <1>3, MapSeq
<1>5. ASSUME NEW i \in 1..Len(r.content)
      PROVE  Returned(c[i], r.content[i]) /\ Simple(c[i]) /\ c[i].type \in BlockTypes
  <2>1. Returned(c[i], r.content[i])
    BY <1>1, <1>3, BlockOfReturns
  <2> QED BY <1>1, <2>1 DEF Returned, Simple, PartTypes, BlockTypes
<1> QED
  BY <1>3, <1>4, <1>5 DEF Blocks, c

-----------------------------------------------------------------------------
\* What is in a request, and how its translation follows from it.
Deeply(b) ==
    /\ IsBlock(b) /\ \A i \in 1..Len(b.content) : Flatly(b.content[i])
    /\ IF b.type = "tool_result" THEN b.body = <<>>
       ELSE \A i \in 1..Len(b.content) : Chunk(b, b.content[i])
Tells(content) == IsSeq(content) /\ \A i \in 1..Len(content) : Deeply(content[i])
SystemTexts(s) == IsSeq(s) /\ \A i \in 1..Len(s) : Simple(s[i]) /\ s[i].type = "text"
Thoughtless(s) == \A i \in 1..Len(s) : s[i].type # "thinking"
Message(m) ==
    /\ m = [role |-> m.role, content |-> m.content]
    /\ m.role \in {"user", "assistant", "system"} /\ Tells(m.content)
    /\ m.role = "system" => SystemTexts(m.content)
    /\ m.role = "assistant" => Blocks(m.content)
    /\ m.role = "user" => Thoughtless(m.content)
Messages(s) == IsSeq(s) /\ \A i \in 1..Len(s) : Message(s[i])
Request(r) ==
    /\ r = [f \in SettingNames |-> r[f]]
    /\ Messages(r.messages) /\ SystemTexts(r.system)

Parsed == IF provider = "bedrock" THEN FromBedrock(raw) ELSE FromLangChain(raw)
Phases == {"request", "refused", "internal", "sent", "answered", "result", "response"}

\* Every step has what the ones before it have made.
Follows ==
    /\ phase \in {"internal", "sent", "answered", "result", "response"} =>
          internal = ToInternal(request) /\ ~RefusedByAdapter(request)
    /\ phase \in {"sent", "answered", "result", "response"} => sent = Translated /\ ~Refuses
    /\ phase \in {"answered", "result", "response"} => raw \in Answers[provider]
    /\ phase \in {"result", "response"} => result = Parsed
    /\ phase = "response" => response = ToResponse(result)

ConvInv == provider \in Backends /\ phase \in Phases /\ Request(request) /\ Follows

LEMMA SimpleIsFlat ==
    ASSUME NEW b, Simple(b)
    PROVE  Flatly(b)
<1>1. IsBlock(b) /\ b.content = <<>>
  BY DEF Simple
<1>2. Len(b.content) = 0 /\ DOMAIN b.content = {}
  BY <1>1, EmptyIsSeq
<1> QED
  BY <1>1, <1>2 DEF Flatly

LEMMA FlatIsDeep ==
    ASSUME NEW b, Flatly(b), b.type # "tool_result"
    PROVE  Deeply(b)
<1>1. IsBlock(b) /\ \A i \in DOMAIN b.content : Chunk(b, b.content[i]) /\ Simple(b.content[i])
  BY DEF Flatly, Chunk
<1>2. DOMAIN b.content = 1..Len(b.content)
  BY <1>1, SeqShape DEF IsBlock
<1> QED
  BY <1>1, <1>2, SimpleIsFlat DEF Deeply

Speaks(c) == Says(c) /\ \A i \in DOMAIN c : c[i].type \notin {"tool_result", "thinking"}

LEMMA SpeaksTells ==
    ASSUME NEW c, Speaks(c)
    PROVE  Tells(c) /\ Thoughtless(c)
<1>1. IsSeq(c) /\ DOMAIN c = 1..Len(c)
  BY SeqShape DEF Says, Speaks
<1> QED
  BY <1>1, FlatIsDeep DEF Says, Speaks, Tells, Thoughtless

LEMMA TellsTogether ==
    ASSUME NEW c, Tells(c), NEW d, Tells(d)
    PROVE  Tells(c \o d)
<1> DEFINE w == c \o d
<1>1. Joined(w, c, d)
  BY ConcatJoins DEF Tells
<1> HIDE DEF w
<1>2. Len(c) \in Nat /\ Len(d) \in Nat
  BY SeqShape DEF Tells
<1>3. ASSUME NEW i \in 1..Len(w)
      PROVE  Deeply(w[i])
  <2>1. CASE i <= Len(c)
    <3>1. i \in 1..Len(c) /\ w[i] = c[i]
      BY <1>1, <1>2, <2>1 DEF Joined
    <3> QED BY <3>1 DEF Tells
  <2>2. CASE ~(i <= Len(c))
    <3>1. i - Len(c) \in 1..Len(d) /\ Len(c) + (i - Len(c)) = i
      BY <1>1, <1>2, <2>2 DEF Joined
    <3>2. w[i] = d[i - Len(c)]
      BY <1>1, <3>1 DEF Joined
    <3> QED BY <3>1, <3>2 DEF Tells
  <2> QED BY <2>1, <2>2
<1>4. Tells(w)
  BY <1>1, <1>3 DEF Tells, Joined
<1> QED
  BY <1>4 DEF w

\* The results the client makes up, one for each call in the answer.
Result(b, call, inner) ==
    /\ IsBlock(b) /\ b.type = "tool_result" /\ b.id = call.id /\ b.content = inner /\ b.body = <<>>
    /\ b.error = FALSE
Results(s, calls, inner) ==
    /\ IsSeq(s) /\ Len(s) = Len(calls)
    /\ \A i \in 1..Len(calls) : Result(s[i], calls[i], inner)

LEMMA ResultsAre ==
    ASSUME NEW content, IsSeq(content), NEW inner, Says(inner)
    PROVE  Results(ResultsOf(content, inner), OfType(content, {"tool_use"}), inner)
<1> DEFINE I == {i \in DOMAIN content : content[i].type \in {"tool_use"}}
           calls == OfType(content, {"tool_use"})
           s == ResultsOf(content, inner)
<1>1. calls = Kept(content, I)
  BY DEF OfType
<1> HIDE DEF I
<1>2. IsSeq(calls)
  BY <1>1, KeptElements DEF KeepsOnly
<1> HIDE DEF calls
<1>3. /\ s = [i \in DOMAIN calls |-> s[i]]
      /\ \A i \in DOMAIN calls : s[i] =
            [Block EXCEPT !.type = "tool_result", !.id = calls[i].id, !.content = inner, !.cache = i = Len(calls)]
  BY DEF ResultsOf, calls
<1> HIDE DEF s
<1>4. IsSeq(s) /\ Len(s) = Len(calls) /\ DOMAIN calls = 1..Len(calls)
  BY <1>2, <1>3, MapSeq, SeqShape
<1>5. ASSUME NEW i \in 1..Len(calls)
      PROVE  Result(s[i], calls[i], inner)
  <2> DEFINE last == i = Len(calls)
             b == [Block EXCEPT !.type = "tool_result", !.id = calls[i].id, !.content = inner, !.cache = last]
  <2>0. s[i] = b /\ last \in BOOLEAN
    BY <1>3, <1>4
  <2> HIDE DEF last
  <2>1. /\ b.type = "tool_result" /\ b.id = calls[i].id /\ b.content = inner
        /\ b.cache = last /\ b.body = <<>> /\ b.cites = <<>> /\ b.title = <<>> /\ b.error = FALSE
    BY DEF Block
  <2>3. b = [f \in DOMAIN Block |-> b[f]]
    BY DEF Block
  <2> HIDE DEF b
  <2>2. IsBlock(b)
    BY <2>0, <2>1, <2>3, CleanedAssumption, EmptyIsSeq DEF IsBlock, Says
  <2> QED BY <2>0, <2>1, <2>2 DEF Result
<1>6. Results(s, calls, inner)
  BY <1>4, <1>5 DEF Results
<1> QED
  BY <1>6 DEF s, calls

LEMMA ResultsTell ==
    ASSUME NEW s, NEW calls, NEW inner, Says(inner), Results(s, calls, inner)
    PROVE  Tells(s)
<1>1. IsSeq(s) /\ Len(s) = Len(calls)
  BY DEF Results
<1>2. ASSUME NEW i \in 1..Len(s)
      PROVE  Deeply(s[i])
  <2>1. IsBlock(s[i]) /\ s[i].type = "tool_result" /\ s[i].content = inner /\ s[i].body = <<>>
    BY <1>1 DEF Results, Result
  <2>2. \A j \in 1..Len(inner) : Flatly(inner[j])
    BY SeqShape DEF Says
  <2> QED BY <2>1, <2>2 DEF Deeply
<1> QED
  BY <1>1, <1>2 DEF Tells

LEMMA BlocksTell ==
    ASSUME NEW s, Blocks(s)
    PROVE  Tells(s)
<1>1. \A i \in 1..Len(s) : Flatly(s[i]) /\ s[i].type # "tool_result"
  BY SimpleIsFlat DEF Blocks, BlockTypes
<1> QED
  BY <1>1, FlatIsDeep DEF Blocks, Tells

-----------------------------------------------------------------------------
LEMMA MessagesTogether ==
    ASSUME NEW c, Messages(c), NEW d, Messages(d)
    PROVE  Messages(c \o d)
<1> DEFINE w == c \o d
<1>1. Joined(w, c, d)
  BY ConcatJoins DEF Messages
<1> HIDE DEF w
<1>2. Len(c) \in Nat /\ Len(d) \in Nat
  BY SeqShape DEF Messages
<1>3. ASSUME NEW i \in 1..Len(w)
      PROVE  Message(w[i])
  <2>1. CASE i <= Len(c)
    <3>1. i \in 1..Len(c) /\ w[i] = c[i]
      BY <1>1, <1>2, <2>1 DEF Joined
    <3> QED BY <3>1 DEF Messages
  <2>2. CASE ~(i <= Len(c))
    <3>1. i - Len(c) \in 1..Len(d) /\ Len(c) + (i - Len(c)) = i
      BY <1>1, <1>2, <2>2 DEF Joined
    <3>2. w[i] = d[i - Len(c)]
      BY <1>1, <3>1 DEF Joined
    <3> QED BY <3>1, <3>2 DEF Messages
  <2> QED BY <2>1, <2>2
<1>4. Messages(w)
  BY <1>1, <1>3 DEF Messages, Joined
<1> QED
  BY <1>4 DEF w

LEMMA PairSeq ==
    ASSUME NEW x, NEW y
    PROVE  IsSeq(<<x, y>>) /\ Len(<<x, y>>) = 2 /\ <<x, y>>[1] = x /\ <<x, y>>[2] = y
<1> DEFINE s == <<x, y>>
<1>1. s = [i \in 1..2 |-> s[i]] /\ s[1] = x /\ s[2] = y
  OBVIOUS
<1> HIDE DEF s
<1>2. IsSeq(s) /\ Len(s) = 2
  BY <1>1, SeqMade
<1> QED
  BY <1>1, <1>2 DEF s

\* What the client says next: the answer, its results with what the user says, an aside.
Turn(content) == [role |-> "assistant", content |-> content]
Saying(results, c, first) == User(IF first THEN results \o c ELSE c \o results)
Said(messages, content, results, c, first, aside) ==
    (messages \o <<Turn(content), Saying(results, c, first)>>) \o aside

LEMMA ThoughtlessTogether ==
    ASSUME NEW s, IsSeq(s), Thoughtless(s), NEW t, IsSeq(t), Thoughtless(t)
    PROVE  Thoughtless(s \o t)
<1> DEFINE w == s \o t
<1>1. Joined(w, s, t) /\ Len(s) \in Nat /\ Len(t) \in Nat
  BY ConcatJoins, SeqShape
<1> HIDE DEF w
<1>2. ASSUME NEW i \in 1..Len(w)
      PROVE  w[i].type # "thinking"
  <2>1. CASE i <= Len(s)
    <3>1. i \in 1..Len(s) /\ w[i] = s[i]
      BY <1>1, <2>1 DEF Joined
    <3> QED BY <3>1 DEF Thoughtless
  <2>2. CASE ~(i <= Len(s))
    <3>1. i - Len(s) \in 1..Len(t) /\ Len(s) + (i - Len(s)) = i
      BY <1>1, <2>2 DEF Joined
    <3>2. w[i] = t[i - Len(s)]
      BY <1>1, <3>1 DEF Joined
    <3> QED BY <3>1, <3>2 DEF Thoughtless
  <2> QED BY <2>1, <2>2
<1>3. Thoughtless(w)
  BY <1>2 DEF Thoughtless
<1> QED
  BY <1>3 DEF w

LEMMA PairMessages ==
    ASSUME NEW a, Blocks(a), NEW results, Tells(results), Thoughtless(results), NEW c, Speaks(c),
           NEW first \in BOOLEAN
    PROVE  Messages(<<Turn(a), Saying(results, c, first)>>)
<1> DEFINE x == Turn(a)
           y == Saying(results, c, first)
           s == <<x, y>>
<1>1. Tells(a)
  BY BlocksTell
<1>2. Message(x)
  BY <1>1 DEF Message, Turn
<1>3. /\ Tells(results \o c) /\ Tells(c \o results)
      /\ Thoughtless(results \o c) /\ Thoughtless(c \o results)
  BY SpeaksTells, TellsTogether, ThoughtlessTogether DEF Tells
<1>4. Message(y)
  BY <1>3 DEF Message, Saying, User
<1> HIDE DEF x, y
<1>5. IsSeq(s) /\ Len(s) = 2 /\ s[1] = x /\ s[2] = y
  BY PairSeq
<1> HIDE DEF s
<1>6. \A i \in 1..Len(s) : i = 1 \/ i = 2
  BY <1>5
<1>7. Messages(s)
  BY <1>2, <1>4, <1>5, <1>6 DEF Messages
<1> QED
  BY <1>7 DEF s, x, y

LEMMA AsideMessages ==
    ASSUME NEW aside \in Asides
    PROVE  Messages(aside) /\ \A i \in 1..Len(aside) : aside[i].role = "system"
<1>1. IsSeq(aside) /\ DOMAIN aside = 1..Len(aside)
  BY ClientAssumption, SeqShape
<1>2. ASSUME NEW i \in 1..Len(aside)
      PROVE  Message(aside[i]) /\ aside[i].role = "system"
  <2> DEFINE s == aside[i].content
  <2>1. /\ aside[i] = [role |-> "system", content |-> s] /\ IsSeq(s)
        /\ \A j \in DOMAIN s : Simple(s[j]) /\ s[j].type = "text"
    BY <1>1, ClientAssumption
  <2>2. aside[i].role = "system"
    BY <2>1
  <2>3. DOMAIN s = 1..Len(s)
    BY <2>1, SeqShape
  <2> HIDE DEF s
  <2>4. SystemTexts(s)
    BY <2>1, <2>3 DEF SystemTexts
  <2>5. Tells(s)
    <3>1. \A j \in 1..Len(s) : Flatly(s[j]) /\ s[j].type # "tool_result"
      BY <2>1, <2>3, SimpleIsFlat
    <3> QED BY <2>1, <3>1, FlatIsDeep DEF Tells
  <2>6. aside[i] = [role |-> aside[i].role, content |-> aside[i].content]
    BY <2>1, <2>2 DEF s
  <2> QED BY <2>2, <2>4, <2>5, <2>6 DEF Message, s
<1> QED
  BY <1>1, <1>2 DEF Messages

LEMMA SettingsRequest ==
    ASSUME NEW r, Request(r), NEW m, Messages(m), NEW q, q = [r EXCEPT !.messages = m]
    PROVE  Request(q) /\ q.messages = m /\ q.system = r.system
<1>1. r = [f \in SettingNames |-> r[f]] /\ {"messages", "system"} \subseteq SettingNames
  BY DEF Request, SettingNames
<1>2. /\ q = [f \in SettingNames |-> q[f]] /\ q["messages"] = m
      /\ \A f \in SettingNames \ {"messages"} : q[f] = r[f]
  BY <1>1
<1>3. q.messages = m /\ q.system = r.system
  BY <1>1, <1>2
<1> QED
  BY <1>2, <1>3 DEF Request

LEMMA BareRequest ==
    ASSUME NEW s \in Settings
    PROVE  Request(s) /\ s.messages = <<>>
<1>1. /\ s = [f \in SettingNames |-> s[f]] /\ s.messages = <<>> /\ IsSeq(s.system)
      /\ \A i \in DOMAIN s.system : Simple(s.system[i]) /\ s.system[i].type = "text"
  BY SettingsAssumption
<1>2. DOMAIN s.system = 1..Len(s.system)
  BY <1>1, SeqShape
<1>3. Messages(<<>>)
  BY EmptyIsSeq DEF Messages
<1> QED
  BY <1>1, <1>2, <1>3 DEF Request, SystemTexts

Opening(s, c) == [s EXCEPT !.messages = <<User(c)>>]

LEMMA OpeningIs ==
    ASSUME NEW s \in Settings, NEW c \in Contents
    PROVE  /\ [s EXCEPT !.messages = Append(@, User(c))] = Opening(s, c)
           /\ Request(Opening(s, c)) /\ Opening(s, c).messages = <<User(c)>>
           /\ Opening(s, c).system = s.system
<1>1. Request(s) /\ s.messages = <<>>
  BY BareRequest
<1>2. [s EXCEPT !.messages = Append(@, User(c))] = Opening(s, c)
  BY <1>1 DEF Opening
<1> DEFINE m == <<User(c)>>
<1>3. Messages(m)
  <2>1. Message(User(c))
    <3>1. Speaks(c)
      BY ClientAssumption DEF Speaks
    <3> QED BY <3>1, SpeaksTells DEF Message, User
  <2>2. IsSeq(m) /\ Len(m) = 1 /\ m[1] = User(c)
    BY SingleSeq
  <2> HIDE DEF m
  <2>3. \A i \in 1..Len(m) : i = 1
    BY <2>2
  <2> QED BY <2>1, <2>2, <2>3 DEF Messages
<1> HIDE DEF m
<1>4. Opening(s, c) = [s EXCEPT !.messages = m]
  BY DEF Opening, m
<1>5. Request(Opening(s, c)) /\ Opening(s, c).messages = m /\ Opening(s, c).system = s.system
  BY <1>1, <1>3, <1>4, SettingsRequest
<1> QED
  BY <1>2, <1>5 DEF m

LEMMA ConvInitHolds ==
    ASSUME ConvInit
    PROVE  ConvInv
<1>1. PICK s \in Settings, c \in Contents : request = [s EXCEPT !.messages = Append(@, User(c))]
  BY DEF ConvInit
<1>2. Request(request)
  BY <1>1, OpeningIs
<1> QED
  BY <1>2 DEF ConvInit, ConvInv, Phases, Follows

\* The content of an answer, as the client has it.
AnswerOf(p, a) == ToResponse(IF p = "bedrock" THEN FromBedrock(a) ELSE FromLangChain(a)).content

LEMMA AnswerBlocks ==
    ASSUME NEW p \in Backends, NEW a \in Answers[p]
    PROVE  Blocks(AnswerOf(p, a))
<1> DEFINE r == IF p = "bedrock" THEN FromBedrock(a) ELSE FromLangChain(a)
<1>1. Parts(r.content)
  <2>1. p \in {"bedrock", "langchain"}
    BY AnswersAssumption
  <2>2. CASE p = "bedrock"
    BY <2>2, ConverseParts
  <2>3. CASE p = "langchain"
    BY <2>3, LangChainPartsAre
  <2> QED BY <2>1, <2>2, <2>3
<1>2. r.content # <<>>
  <2>1. <<Block>> # <<>>
    OBVIOUS
  <2> QED BY <2>1 DEF FromBedrock, FromLangChain
<1> HIDE DEF r
<1>3. Blocks(ToResponse(r).content)
  BY <1>1, <1>2, ResponseBlocks
<1> QED
  BY <1>3 DEF AnswerOf, r

\* The request that follows an answer.
NextRequest(q, c, inner, first, aside) ==
    \E results : /\ Results(results, OfType(response.content, {"tool_use"}), inner) /\ Tells(results)
                 /\ Thoughtless(results) /\ Request(q) /\ q.system = request.system
                 /\ q.messages = Said(request.messages, response.content, results, c, first, aside)

LEMMA ContinueIs ==
    ASSUME ConvInv, NEW c \in FollowUps, NEW inner \in FollowUps, NEW first \in BOOLEAN,
           NEW aside \in Asides, Continue(c, inner, first, aside)
    PROVE  NextRequest(request', c, inner, first, aside)
<1> DEFINE results == ResultsOf(response.content, inner)
           m == Said(request.messages, response.content, results, c, first, aside)
<1>1. request' = [request EXCEPT !.messages = m] /\ phase = "response"
  BY DEF Continue, Said, Turn, Saying
<1>2. response = ToResponse(result) /\ result = Parsed /\ raw \in Answers[provider] /\ provider \in Backends
  BY <1>1 DEF ConvInv, Follows
<1>3. Blocks(response.content)
  <2>1. response.content = AnswerOf(provider, raw)
    BY <1>2 DEF AnswerOf, Parsed
  <2> QED BY <1>2, <2>1, AnswerBlocks
<1>4. Speaks(c) /\ Says(inner)
  BY ClientAssumption DEF Speaks
<1>5. Results(results, OfType(response.content, {"tool_use"}), inner)
  BY <1>3, <1>4, ResultsAre DEF Blocks
<1> HIDE DEF results
<1>6. Tells(results) /\ Thoughtless(results)
  <2>1. \A i \in 1..Len(results) : results[i].type = "tool_result"
    BY <1>5 DEF Results, Result
  <2> QED BY <1>4, <1>5, <2>1, ResultsTell DEF Thoughtless
<1>7. Messages(m)
  <2> DEFINE pair == <<Turn(response.content), Saying(results, c, first)>>
  <2>1. Messages(pair)
    BY <1>3, <1>4, <1>6, PairMessages
  <2>2. Messages(aside) /\ Messages(request.messages)
    BY AsideMessages DEF ConvInv, Request
  <2> HIDE DEF pair
  <2>3. Messages((request.messages \o pair) \o aside)
    BY <2>1, <2>2, MessagesTogether
  <2> QED BY <2>3 DEF Said, pair
<1> HIDE DEF m
<1>8. Request(request') /\ request'.messages = m /\ request'.system = request.system
  BY <1>1, <1>7, SettingsRequest DEF ConvInv
<1> QED
  BY <1>5, <1>6, <1>8 DEF NextRequest, m

LEMMA ConvStep ==
    ASSUME ConvInv, [ConvNext]_convVars
    PROVE  ConvInv'
<1> USE DEF ConvInv, Follows, Phases
<1>1. CASE Adapt
  BY <1>1 DEF Adapt
<1>2. CASE Send
  BY <1>2 DEF Send, Translated, Refuses
<1>3. ASSUME NEW a \in Answers[provider], Answer(a) PROVE ConvInv'
  BY <1>3 DEF Answer, Translated, Refuses
<1>4. CASE Parse
  BY <1>4 DEF Parse, Translated, Refuses, Parsed
<1>5. CASE Respond
  BY <1>5 DEF Respond, Translated, Refuses, Parsed
<1>6. ASSUME NEW c \in FollowUps, NEW inner \in FollowUps, NEW first \in BOOLEAN, NEW aside \in Asides,
             Continue(c, inner, first, aside)
      PROVE  ConvInv'
  <2>1. Request(request')
    BY <1>6, ContinueIs DEF NextRequest
  <2> QED BY <1>6, <2>1 DEF Continue
<1>7. CASE UNCHANGED convVars
  BY <1>7 DEF convVars, Translated, Refuses, Parsed
<1> QED
  BY <1>1, <1>2, <1>3, <1>4, <1>5, <1>6, <1>7 DEF ConvNext

LEMMA ConvInvHolds == ConvSpec => []ConvInv
<1>1. ConvInit => ConvInv
  BY ConvInitHolds
<1>2. ConvInv /\ [ConvNext]_convVars => ConvInv'
  BY ConvStep
<1> QED
  BY <1>1, <1>2, PTL DEF ConvSpec

-----------------------------------------------------------------------------
\* The verdicts of Converse name its calls by position; the ids that stand for them
\* are those of the same calls.
Verdict(v, content) ==
    \E i \in 1..Len(content) : content[i].type = "tool_use" /\ v = <<content[i].id, content[i].body>>

LEMMA VerdictsNameCalls ==
    ASSUME NEW a \in Answers["bedrock"], "bedrock" \in Backends
    PROVE  \A k \in DOMAIN FromBedrock(a).safeguards :
               Verdict(FromBedrock(a).safeguards[k], ToResponse(FromBedrock(a)).content)
<1> DEFINE parts == [i \in DOMAIN a.content |-> BedrockPart(a.content[i])]
           r == FromBedrock(a)
           I == {i \in DOMAIN a.content : a.content[i].type \in {"toolUse"}}
           J == {i \in DOMAIN parts : parts[i].type \in {"tool_call"}}
           calls == OfType(a.content, {"toolUse"})
           mine == OfType(parts, {"tool_call"})
           ids == ToolCallIds(parts)
           g == r.safeguards
<1>1. /\ IsSeq(a.content) /\ \A i \in DOMAIN a.content : Simple(a.content[i])
      /\ IsSeq(a.verdicts)
      /\ Len(a.verdicts) = Len(calls) => \A i \in DOMAIN calls : a.verdicts[i] = calls[i].body
  BY AnswersAssumption
<1>2. Len(a.content) \in Nat /\ DOMAIN a.content = 1..Len(a.content)
  BY <1>1, SeqShape
<1>3. parts = [i \in DOMAIN a.content |-> parts[i]] /\ \A i \in 1..Len(a.content) : parts[i] = BedrockPart(a.content[i])
  BY <1>2
<1>4. calls = Kept(a.content, I) /\ mine = Kept(parts, J)
  BY DEF OfType
<1>5. g = Remapped(a.verdicts, ids) /\ ids = [i \in DOMAIN mine |-> mine[i].id]
  BY DEF FromBedrock, ToolCallIds
<1>6. r.content = IF parts = <<>> THEN <<Block>> ELSE parts
  BY DEF FromBedrock
<1>7. \A i \in I : i \in DOMAIN a.content /\ a.content[i].type = "toolUse"
  OBVIOUS
<1> HIDE DEF parts, r
<1>8. IsSeq(parts) /\ Len(parts) = Len(a.content) /\ DOMAIN parts = 1..Len(a.content)
  BY <1>1, <1>3, MapSeq
<1>9. \A i \in 1..Len(a.content) : Answered(parts[i], a.content[i])
  BY <1>1, <1>2, <1>3, BedrockPartIs DEF Simple
<1>10. I = J
  BY <1>2, <1>8, <1>9 DEF Answered
<1> HIDE DEF I, J, calls, mine, ids, g
<1>11. KeptAlike(a.content, parts, I)
  BY <1>1, <1>8, KeptTogether
<1>12. /\ Len(calls) = Len(mine)
       /\ \A k \in DOMAIN calls : \E i \in I : calls[k] = a.content[i] /\ mine[k] = parts[i]
  BY <1>4, <1>10, <1>11 DEF KeptAlike
<1>13. IsSeq(calls) /\ IsSeq(mine) /\ DOMAIN calls = 1..Len(calls) /\ DOMAIN mine = 1..Len(mine)
  BY <1>1, <1>4, <1>8, KeptElements, SeqShape DEF KeepsOnly
<1>14. IsSeq(ids) /\ Len(ids) = Len(mine) /\ DOMAIN ids = 1..Len(mine) /\ \A i \in 1..Len(mine) : ids[i] = mine[i].id
  <2>1. ids = [i \in DOMAIN mine |-> ids[i]] /\ \A i \in 1..Len(mine) : ids[i] = mine[i].id
    BY <1>5, <1>13
  <2> QED BY <1>13, <2>1, MapSeq
<1> SUFFICES ASSUME NEW k \in DOMAIN g
             PROVE  Verdict(g[k], ToResponse(r).content)
  BY DEF g, r
<1>15. Len(a.verdicts) = Len(ids)
  <2>1. CASE Len(a.verdicts) # Len(ids)
    <3>1. g = <<>>
      BY <1>5, <2>1 DEF Remapped
    <3> QED BY <3>1
  <2> QED BY <2>1
<1>16. k \in 1..Len(calls) /\ g[k] = <<ids[k], a.verdicts[k]>>
  BY <1>5, <1>12, <1>14, <1>15 DEF Remapped
<1>17. PICK i \in I : calls[k] = a.content[i] /\ mine[k] = parts[i]
  BY <1>12, <1>13, <1>16
<1>18. a.verdicts[k] = a.content[i].body /\ ids[k] = parts[i].id
  BY <1>1, <1>12, <1>13, <1>14, <1>15, <1>16, <1>17
<1>19. i \in 1..Len(a.content) /\ Answered(parts[i], a.content[i]) /\ a.content[i].type = "toolUse"
  BY <1>2, <1>7, <1>9
<1>20. parts[i].type = "tool_call" /\ parts[i].body = a.content[i].body
  BY <1>19, BlockFields DEF Answered, Keeps, SaidBy, SignedBy
<1>21. r.content = parts
  <2>1. parts # <<>>
    BY <1>8, <1>19, EmptyIsSeq
  <2> QED BY <1>6, <2>1
<1>22. Parts(parts) /\ Parts(r.content) /\ r.content # <<>>
  <2>1. Parts(r.content)
    BY ConverseParts DEF r
  <2>2. parts # <<>>
    BY <1>8, <1>19, EmptyIsSeq
  <2> QED BY <1>21, <2>1, <2>2
<1>23. /\ Len(ToResponse(r).content) = Len(parts)
       /\ Returned(ToResponse(r).content[i], parts[i])
  BY <1>8, <1>19, <1>21, <1>22, ResponseBlocks
<1>24. i \in 1..Len(ToResponse(r).content)
  BY <1>8, <1>19, <1>23
<1> QED
  BY <1>16, <1>18, <1>20, <1>23, <1>24 DEF Verdict, Returned

\* The verdict the client is told is the verdict on that call.
THEOREM VerdictsStayWithCalls == ConvSpec => []VerdictsBelong
<1>1. ConvInv => VerdictsBelong
  <2> SUFFICES ASSUME ConvInv, phase = "response", NEW v \in ToSet(response.safeguards)
               PROVE  \E b \in ToSet(response.content) : b.type = "tool_use" /\ b.id = v[1] /\ b.body = v[2]
    BY DEF VerdictsBelong
  <2>1. /\ response = ToResponse(result) /\ result = Parsed /\ raw \in Answers[provider]
        /\ provider \in Backends /\ provider \in {"bedrock", "langchain"}
    BY AnswersAssumption DEF ConvInv, Follows
  <2>2. response.safeguards = result.safeguards
    BY <2>1 DEF ToResponse
  <2>3. PICK k \in DOMAIN result.safeguards : v = result.safeguards[k]
    BY <2>2 DEF ToSet
  <2>4. provider = "bedrock"
    <3>1. CASE provider = "langchain"
      <4>1. result.safeguards = <<>>
        BY <2>1, <3>1 DEF Parsed, FromLangChain
      <4> QED BY <2>3, <4>1
    <3> QED BY <2>1, <3>1
  <2>5. result = FromBedrock(raw) /\ raw \in Answers["bedrock"] /\ "bedrock" \in Backends
    BY <2>1, <2>4 DEF Parsed
  <2>6. Verdict(v, response.content)
    BY <2>1, <2>3, <2>5, VerdictsNameCalls
  <2>7. PICK i \in 1..Len(response.content) :
            response.content[i].type = "tool_use" /\ v = <<response.content[i].id, response.content[i].body>>
    BY <2>6 DEF Verdict
  <2>8. Blocks(response.content)
    BY <2>1, AnswerBlocks DEF AnswerOf, Parsed
  <2>9. response.content[i] \in ToSet(response.content)
    BY <2>7, <2>8, SeqShape DEF ToSet, Blocks
  <2> QED BY <2>7, <2>9
<1> QED
  BY <1>1, ConvInvHolds, PTL

-----------------------------------------------------------------------------
\* What becomes of a block: its information, its type, its marker.
LEMMA TextPartIs ==
    ASSUME NEW b, IsBlock(b)
    PROVE  Keeps(TextPart(b), b, {"cites"}) /\ IsSeq(TextPart(b).cites)
<1> DEFINE known == Kept(b.cites, {i \in DOMAIN b.cites : b.cites[i] \in DOMAIN CitationKind})
           cites == [i \in DOMAIN known |-> CitationKind[known[i]]]
           c == [b EXCEPT !.cites = cites]
<1>1. TextPart(b) = c
  BY DEF TextPart
<1>2. IsSeq(known)
  <2>1. IsSeq(b.cites)
    BY DEF IsBlock
  <2> QED BY <2>1, KeptElements DEF KeepsOnly
<1> HIDE DEF known
<1>3. cites = [i \in DOMAIN known |-> cites[i]]
  OBVIOUS
<1> HIDE DEF cites
<1>4. IsSeq(cites)
  BY <1>2, <1>3, MapSeq
<1>5. b = [f \in DOMAIN Block |-> b[f]]
  BY DEF IsBlock
<1>6. Keeps(c, b, {"cites"}) /\ c.cites = cites
  BY <1>5, BlockFields DEF Keeps
<1> QED
  BY <1>1, <1>4, <1>6

LEMMA CitesKept ==
    ASSUME NEW b, IsBlock(b), NEW c, Keeps(c, b, {"cites"}), IsSeq(c.cites)
    PROVE  /\ IsBlock(c) /\ c.type = b.type /\ c.body = b.body /\ c.id = b.id /\ c.title = b.title
           /\ c.content = b.content /\ c.cache = b.cache
<1>1. \A f \in {"type", "body", "id", "content", "title", "cache"} : c[f] = b[f]
  BY BlockFields DEF Keeps
<1>2. /\ c.type = b.type /\ c.body = b.body /\ c.id = b.id /\ c.title = b.title
      /\ c.content = b.content /\ c.cache = b.cache
  BY <1>1
<1> QED
  BY <1>2 DEF IsBlock, Keeps

\* The chunks of a search result, without their markers.
Unmarked(t, s) ==
    /\ IsSeq(t) /\ Len(t) = Len(s)
    /\ \A i \in 1..Len(s) : /\ Simple(t[i]) /\ t[i].body = s[i].body /\ t[i].type = s[i].type
                            /\ t[i].cites = s[i].cites /\ ~t[i].cache

LEMMA UnmarkedAre ==
    ASSUME NEW s, IsSeq(s), \A i \in DOMAIN s : Simple(s[i])
    PROVE  Unmarked([i \in DOMAIN s |-> [s[i] EXCEPT !.cache = FALSE]], s)
<1> DEFINE t == [i \in DOMAIN s |-> [s[i] EXCEPT !.cache = FALSE]]
<1>1. DOMAIN s = 1..Len(s)
  BY SeqShape
<1>2. t = [i \in DOMAIN s |-> t[i]] /\ \A i \in 1..Len(s) : t[i] = [s[i] EXCEPT !.cache = FALSE]
  BY <1>1
<1> HIDE DEF t
<1>3. IsSeq(t) /\ Len(t) = Len(s)
  BY <1>2, MapSeq
<1>4. ASSUME NEW i \in 1..Len(s)
      PROVE  /\ Simple(t[i]) /\ t[i].body = s[i].body /\ t[i].type = s[i].type
             /\ t[i].cites = s[i].cites /\ ~t[i].cache
  <2> DEFINE b == s[i]
             c == [b EXCEPT !.cache = FALSE]
  <2>1. t[i] = c /\ IsBlock(b) /\ b.content = <<>>
    BY <1>1, <1>2 DEF Simple
  <2> HIDE DEF b
  <2>2. b = [f \in DOMAIN Block |-> b[f]]
    BY <2>1 DEF IsBlock
  <2>3. Keeps(c, b, {"cache"}) /\ c.cache = FALSE
    BY <2>2, BlockFields DEF Keeps
  <2> HIDE DEF c
  <2>4. \A f \in {"type", "body", "id", "content", "title", "cites"} : c[f] = b[f]
    BY <2>3, BlockFields DEF Keeps
  <2>5. /\ c.type = b.type /\ c.body = b.body /\ c.title = b.title
        /\ c.content = b.content /\ c.cites = b.cites
    BY <2>4
  <2>6. IsBlock(c)
    BY <2>1, <2>3, <2>5 DEF IsBlock, Keeps
  <2> QED BY <2>1, <2>3, <2>5, <2>6 DEF Simple, b
<1>5. Unmarked(t, s)
  BY <1>3, <1>4 DEF Unmarked
<1> QED
  BY <1>5 DEF t

\* A block in a tool result, or one that is none.
Inward(q, c) ==
    /\ IsBlock(q) /\ q.type = c.type /\ q.body = c.body /\ q.id = c.id /\ q.title = c.title
    /\ Len(q.content) = Len(c.content)
    /\ \A j \in 1..Len(c.content) :
          Simple(q.content[j]) /\ q.content[j].body = c.content[j].body /\ q.content[j].type = c.content[j].type
    /\ q.cache <=> c.cache \/ (c.type = "search_result" /\ Marked(c.content))

LEMMA FlatContent ==
    ASSUME NEW b, Flatly(b)
    PROVE  /\ IsBlock(b) /\ IsSeq(b.content) /\ DOMAIN b.content = 1..Len(b.content)
           /\ Len(b.content) \in Nat /\ b.cache \in BOOLEAN
           /\ \A i \in 1..Len(b.content) : Simple(b.content[i])
<1>1. IsBlock(b) /\ IsSeq(b.content) /\ b.cache \in BOOLEAN /\ \A i \in DOMAIN b.content : Simple(b.content[i])
  BY DEF Flatly, Chunk, IsBlock
<1> QED
  BY <1>1, SeqShape

LEMMA SearchIs ==
    ASSUME NEW b, Flatly(b), b.type = "search_result"
    PROVE  Inward(SearchResult(b), b)
<1> DEFINE s == [i \in DOMAIN b.content |-> [b.content[i] EXCEPT !.cache = FALSE]]
           marked == b.cache \/ Marked(b.content)
           c == [b EXCEPT !.content = s, !.cache = marked]
<1>1. SearchResult(b) = c
  BY DEF SearchResult
<1>2. Unmarked(s, b.content) /\ IsBlock(b)
  BY FlatContent, UnmarkedAre
<1> HIDE DEF s
<1>3. marked \in BOOLEAN
  OBVIOUS
<1>4. b = [f \in DOMAIN Block |-> b[f]] /\ b.cache \in BOOLEAN
  BY <1>2 DEF IsBlock
<1>5. c.cache <=> b.cache \/ Marked(b.content)
  BY <1>4, BlockFields
<1> HIDE DEF marked
<1>6. Keeps(c, b, {"content", "cache"}) /\ c.content = s /\ c.cache = marked
  BY <1>4, BlockFields DEF Keeps
<1> HIDE DEF c
<1>7. \A f \in {"type", "body", "id", "cites", "title"} : c[f] = b[f]
  BY <1>6, BlockFields DEF Keeps
<1>8. c.type = b.type /\ c.body = b.body /\ c.id = b.id /\ c.title = b.title /\ c.cites = b.cites
  BY <1>7
<1>9. IsBlock(c)
  BY <1>2, <1>3, <1>6, <1>8 DEF IsBlock, Keeps, Unmarked
<1> QED
  BY <1>1, <1>2, <1>5, <1>6, <1>8, <1>9 DEF Inward, Unmarked

LEMMA SameInward ==
    ASSUME NEW b, Flatly(b), b.type # "search_result", NEW c, IsBlock(c),
           c.type = b.type, c.body = b.body, c.id = b.id, c.title = b.title,
           c.content = b.content, c.cache = b.cache
    PROVE  Inward(c, b)
  BY FlatContent DEF Inward

LEMMA InnerIs ==
    ASSUME NEW b, Flatly(b)
    PROVE  Inward(InnerPart(b), b)
<1>1. IsBlock(b)
  BY DEF Flatly
<1>2. CASE b.type = "text"
  <2> DEFINE c == TextPart(b)
  <2>1. InnerPart(b) = c
    BY <1>2 DEF InnerPart
  <2>2. Keeps(c, b, {"cites"}) /\ IsSeq(c.cites)
    BY <1>1, TextPartIs
  <2> HIDE DEF c
  <2> QED BY <1>1, <1>2, <2>1, <2>2, CitesKept, SameInward
<1>3. CASE b.type = "search_result"
  BY <1>3, SearchIs DEF InnerPart
<1>4. CASE b.type \notin {"text", "search_result"}
  <2>1. InnerPart(b) = b
    BY <1>4 DEF InnerPart
  <2> QED BY <1>1, <1>4, <2>1, SameInward
<1> QED
  BY <1>2, <1>3, <1>4

\* The type of the part a block becomes.
PartType(b) ==
    IF b.type = "tool_use" THEN "tool_call"
    ELSE IF b.type \in {"mcp_tool_use", "server_tool_use"} THEN "server_tool_call"
    ELSE IF b.type \in ServerResults \cup {"server_tool_result"} THEN "server_tool_result" ELSE b.type
Outward(p, b) ==
    /\ IsBlock(p) /\ p.type = PartType(b) /\ p.body = b.body /\ p.id = b.id /\ p.title = b.title
    /\ Len(p.content) = Len(b.content)
    /\ b.type = "tool_result" => \A j \in 1..Len(b.content) : Inward(p.content[j], b.content[j])
    /\ b.type # "tool_result" => \A j \in 1..Len(b.content) :
          Simple(p.content[j]) /\ p.content[j].body = b.content[j].body /\ p.content[j].type = b.content[j].type
    /\ p.cache <=> MarkedDeep(b)

LEMMA ToolResultIs ==
    ASSUME NEW b, Deeply(b), b.type = "tool_result"
    PROVE  Outward(ToolResult(b), b)
<1> DEFINE inner == [i \in DOMAIN b.content |-> InnerPart(b.content[i])]
           marked == b.cache \/ Marked(inner)
           c == [b EXCEPT !.content = inner, !.cache = marked]
<1>1. ToolResult(b) = c
  BY DEF ToolResult
<1>2. /\ IsBlock(b) /\ IsSeq(b.content) /\ DOMAIN b.content = 1..Len(b.content)
      /\ \A i \in 1..Len(b.content) : Flatly(b.content[i])
  BY SeqShape DEF Deeply, IsBlock
<1>3. inner = [i \in DOMAIN b.content |-> inner[i]] /\ \A i \in 1..Len(b.content) : inner[i] = InnerPart(b.content[i])
  BY <1>2
<1> HIDE DEF inner
<1>4. IsSeq(inner) /\ Len(inner) = Len(b.content) /\ DOMAIN inner = 1..Len(b.content)
  BY <1>2, <1>3, MapSeq
<1>5. \A i \in 1..Len(b.content) : Inward(inner[i], b.content[i])
  BY <1>2, <1>3, InnerIs
<1>6. b = [f \in DOMAIN Block |-> b[f]] /\ b.cache \in BOOLEAN
  BY <1>2 DEF IsBlock
<1>7. c.cache <=> b.cache \/ Marked(inner)
  BY <1>6, BlockFields
<1>8. marked \in BOOLEAN
  OBVIOUS
<1> HIDE DEF marked
<1>9. Keeps(c, b, {"content", "cache"}) /\ c.content = inner /\ c.cache = marked
  BY <1>6, BlockFields DEF Keeps
<1> HIDE DEF c
<1>10. \A f \in {"type", "body", "id", "cites", "title"} : c[f] = b[f]
  BY <1>9, BlockFields DEF Keeps
<1>11. c.type = b.type /\ c.body = b.body /\ c.id = b.id /\ c.title = b.title /\ c.cites = b.cites
  BY <1>10
<1>12. IsBlock(c)
  BY <1>2, <1>4, <1>8, <1>9, <1>11 DEF IsBlock, Keeps
<1>13. Marked(inner) <=> Marked(b.content) \/
          \E x \in ToSet(b.content) : x.type = "search_result" /\ Marked(x.content)
  <2>1. Marked(inner) <=> \E i \in 1..Len(b.content) : inner[i].cache
    BY <1>4 DEF Marked
  <2>2. Marked(b.content) <=> \E i \in 1..Len(b.content) : b.content[i].cache
    BY <1>2 DEF Marked
  <2>3. (\E x \in ToSet(b.content) : x.type = "search_result" /\ Marked(x.content)) <=>
        \E i \in 1..Len(b.content) : b.content[i].type = "search_result" /\ Marked(b.content[i].content)
    BY <1>2 DEF ToSet
  <2>4. \A i \in 1..Len(b.content) : inner[i].cache <=>
            b.content[i].cache \/ (b.content[i].type = "search_result" /\ Marked(b.content[i].content))
    BY <1>5 DEF Inward
  <2> QED BY <2>1, <2>2, <2>3, <2>4
<1>14. c.cache <=> MarkedDeep(b)
  BY <1>7, <1>13 DEF MarkedDeep
<1>15. c.type = PartType(b)
  BY <1>11 DEF PartType, ServerResults
<1> QED
  BY <1>1, <1>4, <1>5, <1>9, <1>11, <1>12, <1>14, <1>15 DEF Outward

-----------------------------------------------------------------------------
LEMMA DeepIsFlat ==
    ASSUME NEW b, Deeply(b), b.type # "tool_result"
    PROVE  Flatly(b)
<1>1. IsBlock(b) /\ DOMAIN b.content = 1..Len(b.content)
  BY SeqShape DEF Deeply, IsBlock
<1> QED
  BY <1>1 DEF Deeply, Flatly

LEMMA SameOutward ==
    ASSUME NEW b, Flatly(b), b.type \notin {"tool_result", "search_result"}, NEW c, IsBlock(c),
           c.type = PartType(b), c.body = b.body, c.id = b.id, c.title = b.title,
           c.content = b.content, c.cache = b.cache
    PROVE  Outward(c, b)
<1>1. \A i \in 1..Len(b.content) : Simple(b.content[i])
  BY FlatContent
<1>2. b.cache <=> MarkedDeep(b)
  BY DEF MarkedDeep
<1> QED
  BY <1>1, <1>2 DEF Outward

LEMMA PartOfIs ==
    ASSUME NEW b, Deeply(b)
    PROVE  Outward(PartOf(b), b)
<1>0. IsBlock(b)
  BY DEF Deeply
<1>1. CASE b.type = "text"
  <2> DEFINE c == TextPart(b)
  <2>1. PartOf(b) = c
    BY <1>1 DEF PartOf, ModelOf, InResults, ServerResults
  <2>2. Keeps(c, b, {"cites"}) /\ IsSeq(c.cites)
    BY <1>0, TextPartIs
  <2> HIDE DEF c
  <2>3. /\ IsBlock(c) /\ c.type = b.type /\ c.body = b.body /\ c.id = b.id /\ c.title = b.title
        /\ c.content = b.content /\ c.cache = b.cache
    BY <1>0, <2>2, CitesKept
  <2>4. PartType(b) = b.type
    BY <1>1 DEF PartType, ServerResults
  <2>5. Flatly(b)
    BY <1>1, DeepIsFlat
  <2>6. Outward(c, b)
    BY <1>1, <2>3, <2>4, <2>5, SameOutward
  <2> QED BY <2>1, <2>6
<1>2. CASE b.type = "search_result"
  <2> DEFINE c == SearchResult(b)
  <2>1. PartOf(b) = c
    BY <1>2 DEF PartOf, ModelOf, InResults, ServerResults
  <2>2. Inward(c, b)
    BY <1>2, DeepIsFlat, SearchIs
  <2> HIDE DEF c
  <2>3. PartType(b) = b.type
    BY <1>2 DEF PartType, ServerResults
  <2>4. MarkedDeep(b) <=> b.cache \/ Marked(b.content)
    BY <1>2 DEF MarkedDeep
  <2> QED BY <1>2, <2>1, <2>2, <2>3, <2>4 DEF Inward, Outward
<1>3. CASE b.type = "tool_result"
  <2>1. PartOf(b) = ToolResult(b)
    BY <1>3 DEF PartOf, ModelOf, InResults, ServerResults
  <2> QED BY <1>3, <2>1, ToolResultIs
<1>4. CASE b.type \notin {"text", "search_result", "tool_result"}
  <2> DEFINE c == PartOf(b)
  <2>1. /\ Keeps(c, b, {"type", "media"}) /\ c.type = PartType(b)
    <3>1. b = [f \in DOMAIN Block |-> b[f]]
      BY <1>0 DEF IsBlock
    <3>2. CASE b.type = "tool_use"
      <4>1. c = [b EXCEPT !.type = "tool_call"] /\ PartType(b) = "tool_call"
        BY <3>2 DEF PartOf, PartType, ModelOf, InResults, ServerResults
      <4> HIDE DEF c
      <4> QED BY <3>1, <4>1, BlockFields DEF Keeps
    <3>3. CASE b.type \in {"mcp_tool_use", "server_tool_use"}
      <4>1. c = [b EXCEPT !.type = "server_tool_call", !.media = b.type] /\ PartType(b) = "server_tool_call"
        BY <3>3 DEF PartOf, PartType, ModelOf, InResults, ServerResults
      <4> HIDE DEF c
      <4> QED BY <3>1, <4>1, BlockFields DEF Keeps
    <3>4. CASE b.type \in ServerResults
      <4>1. c = [b EXCEPT !.type = "server_tool_result", !.media = b.type] /\ PartType(b) = "server_tool_result"
        BY <3>4 DEF PartOf, PartType, ModelOf, InResults, ServerResults
      <4> HIDE DEF c
      <4> QED BY <3>1, <4>1, BlockFields DEF Keeps
    <3>5. CASE b.type \notin {"tool_use", "mcp_tool_use", "server_tool_use"} \cup ServerResults
      <4>1. c = b /\ PartType(b) = b.type
        BY <1>4, <3>5 DEF PartOf, PartType, ModelOf, InResults, ServerResults
      <4> HIDE DEF c
      <4> QED BY <3>1, <4>1 DEF Keeps
    <3> QED BY <3>2, <3>3, <3>4, <3>5
  <2> HIDE DEF c
  <2>2. c.id = b.id
    BY <2>1, BlockFields DEF Keeps
  <2>3. Keeps(c, b, {"type", "id", "source", "media", "error"})
    BY <2>1 DEF Keeps
  <2>4. IsBlock(c) /\ c.body = b.body /\ c.content = b.content /\ c.title = b.title /\ c.cache = b.cache
    BY <1>0, <2>3, KeptBlock
  <2>5. Flatly(b)
    BY <1>4, DeepIsFlat
  <2>6. Outward(c, b)
    BY <1>4, <2>1, <2>2, <2>4, <2>5, SameOutward
  <2> QED BY <2>6 DEF c
<1> QED
  BY <1>1, <1>2, <1>3, <1>4

-----------------------------------------------------------------------------
\* The internal request: a message for each turn, a part for each block.
InternalHolds(q, t) ==
    /\ IsSeq(q) /\ Len(q) = Len(t)
    /\ \A k \in 1..Len(t) :
          /\ Message(t[k]) /\ t[k].role # "system"
          /\ q[k].role = t[k].role /\ IsSeq(q[k].content) /\ Len(q[k].content) = Len(t[k].content)
          /\ \A j \in 1..Len(t[k].content) :
                q[k].content[j] = PartOf(t[k].content[j]) /\ Outward(q[k].content[j], t[k].content[j])

LEMMA TurnsAre ==
    ASSUME NEW s, Messages(s)
    PROVE  /\ IsSeq(Turns(s))
           /\ \A k \in 1..Len(Turns(s)) : \E i \in 1..Len(s) : Turns(s)[k] = s[i] /\ s[i].role # "system"
<1> DEFINE I == {i \in DOMAIN s : s[i].role # "system"}
           t == Turns(s)
<1>1. t = Kept(s, I)
  BY DEF Turns
<1>2. IsSeq(s) /\ DOMAIN s = 1..Len(s)
  BY SeqShape DEF Messages
<1>3. \A i \in I : i \in 1..Len(s) /\ s[i].role # "system"
  BY <1>2
<1> HIDE DEF I, t
<1>4. KeepsOnly(t, s, I)
  BY <1>1, <1>2, KeptElements
<1>5. IsSeq(t) /\ DOMAIN t = 1..Len(t) /\ \A k \in DOMAIN t : \E i \in I \cap DOMAIN s : t[k] = s[i]
  BY <1>4, SeqShape DEF KeepsOnly
<1>6. IsSeq(t) /\ \A k \in 1..Len(t) : \E i \in 1..Len(s) : t[k] = s[i] /\ s[i].role # "system"
  BY <1>3, <1>5
<1> QED
  BY <1>6 DEF t

LEMMA InternalIs ==
    ASSUME NEW r, Request(r)
    PROVE  InternalHolds(ToInternal(r).messages, Turns(r.messages))
<1> DEFINE t == Turns(r.messages)
           q == ToInternal(r).messages
<1>1. Messages(r.messages)
  BY DEF Request
<1>2. IsSeq(t) /\ \A k \in 1..Len(t) : \E i \in 1..Len(r.messages) : t[k] = r.messages[i] /\ r.messages[i].role # "system"
  BY <1>1, TurnsAre
<1>3. \A k \in 1..Len(t) : Message(t[k]) /\ t[k].role # "system"
  BY <1>1, <1>2 DEF Messages
<1>4. q = [i \in DOMAIN t |-> [t[i] EXCEPT !.content = [j \in DOMAIN @ |-> PartOf(@[j])]]]
  BY DEF ToInternal
<1> HIDE DEF t, q
<1>5. DOMAIN t = 1..Len(t)
  BY <1>2, SeqShape
<1>6. q = [i \in DOMAIN t |-> q[i]]
  BY <1>4
<1>7. IsSeq(q) /\ Len(q) = Len(t)
  BY <1>2, <1>6, MapSeq
<1>8. ASSUME NEW k \in 1..Len(t)
      PROVE  /\ q[k].role = t[k].role /\ IsSeq(q[k].content) /\ Len(q[k].content) = Len(t[k].content)
             /\ \A j \in 1..Len(t[k].content) :
                   q[k].content[j] = PartOf(t[k].content[j]) /\ Outward(q[k].content[j], t[k].content[j])
  <2> DEFINE c == t[k].content
             d == [j \in DOMAIN c |-> PartOf(c[j])]
  <2>1. t[k] = [role |-> t[k].role, content |-> c] /\ Tells(c)
    BY <1>3 DEF Message
  <2>2. q[k] = [t[k] EXCEPT !.content = d]
    BY <1>4, <1>5
  <2>3. IsSeq(c) /\ DOMAIN c = 1..Len(c) /\ \A j \in 1..Len(c) : Deeply(c[j])
    BY <2>1, SeqShape DEF Tells
  <2>4. d = [j \in DOMAIN c |-> d[j]] /\ \A j \in 1..Len(c) : d[j] = PartOf(c[j])
    BY <2>3
  <2> HIDE DEF c, d
  <2>5. q[k].role = t[k].role /\ q[k].content = d
    BY <2>1, <2>2
  <2>6. IsSeq(d) /\ Len(d) = Len(c)
    BY <2>3, <2>4, MapSeq
  <2>7. \A j \in 1..Len(c) : Outward(d[j], c[j])
    BY <2>3, <2>4, PartOfIs
  <2> QED BY <2>4, <2>5, <2>6, <2>7 DEF c
<1>9. InternalHolds(q, t)
  BY <1>3, <1>7, <1>8 DEF InternalHolds
<1> QED
  BY <1>9 DEF q, t

\* A part Converse has an item for, or that is left out.
PlainTypes == {"text", "image", "search_result", "tool_call", "thinking", "document"}
Convertible(p) ==
    /\ p.type \in PlainTypes \cup {"tool_result", "redacted_thinking"} /\ p.title \in DOMAIN Cleaned
    /\ IsSeq(p.content) /\ \A i \in 1..Len(p.content) :
          p.content[i].title \in DOMAIN Cleaned /\ (p.type = "tool_result" => p.content[i].type \in InResults)

LEMMA AcceptedConvertible ==
    ASSUME NEW b, Deeply(b), ~Rejected(b), NEW p, Outward(p, b), p.type \notin ServerParts
    PROVE  Convertible(p)
<1>1. ModelOf(b, FALSE) # "unknown"
  BY DEF Rejected
<1>2. b.type \in InResults \cup {"tool_use", "tool_result", "thinking", "redacted_thinking",
                                 "mcp_tool_use", "server_tool_use"} \cup ServerResults
  BY <1>1 DEF ModelOf, InResults, ServerResults
<1>3. p.type = PartType(b)
  BY DEF Outward
<1>4. p.type \in PlainTypes \cup {"tool_result", "redacted_thinking"}
  BY <1>2, <1>3 DEF PartType, PlainTypes, ServerParts, InResults, ServerResults
<1>5. p.type = "tool_result" => b.type = "tool_result"
  BY <1>2, <1>3 DEF PartType, ServerResults, InResults
<1>6. IsBlock(p) /\ IsBlock(b) /\ Len(p.content) = Len(b.content) /\ DOMAIN b.content = 1..Len(b.content)
  BY SeqShape DEF Outward, Deeply, IsBlock
<1>7. ASSUME NEW i \in 1..Len(p.content)
      PROVE  p.content[i].title \in DOMAIN Cleaned /\ (p.type = "tool_result" => p.content[i].type \in InResults)
  <2>1. CASE b.type = "tool_result"
    <3>1. Inward(p.content[i], b.content[i])
      BY <1>6, <2>1 DEF Outward
    <3>2. ModelOf(b.content[i], TRUE) # "unknown"
      <4>1. b.content[i] \in ToSet(b.content)
        BY <1>6 DEF ToSet
      <4> QED BY <2>1, <4>1 DEF Rejected
    <3>3. b.content[i].type \in InResults
      BY <3>2 DEF ModelOf, InResults
    <3> QED BY <3>1, <3>3 DEF Inward, IsBlock
  <2>2. CASE b.type # "tool_result"
    <3>1. Simple(p.content[i])
      BY <1>6, <2>2 DEF Outward
    <3> QED BY <1>5, <2>2, <3>1 DEF Simple, IsBlock
  <2> QED BY <2>1, <2>2
<1> QED
  BY <1>4, <1>6, <1>7 DEF Convertible, IsBlock

\* What is sent is made of such parts.
Sendable(q) ==
    /\ IsSeq(q)
    /\ \A k \in 1..Len(q) : IsSeq(q[k].content) /\ \A j \in 1..Len(q[k].content) : Convertible(q[k].content[j])

LEMMA AcceptedSendable ==
    ASSUME NEW r, Request(r), ~RefusedByAdapter(r),
           ~RefusedByBedrock(ToInternal(r)) \/ ~RefusedByLangChain(ToInternal(r))
    PROVE  Sendable(ToInternal(r).messages)
<1> DEFINE t == Turns(r.messages)
           q == ToInternal(r).messages
<1>1. InternalHolds(q, t)
  BY InternalIs
<1>2. IsSeq(t) /\ \A k \in 1..Len(t) : \E i \in 1..Len(r.messages) : t[k] = r.messages[i] /\ r.messages[i].role # "system"
  BY TurnsAre DEF Request
<1>3. DOMAIN r.messages = 1..Len(r.messages)
  BY SeqShape DEF Request, Messages
<1>4. \A k \in 1..Len(q) : \A p \in ToSet(q[k].content) : p.type \notin ServerParts
  <2> SUFFICES ASSUME NEW k \in 1..Len(q), NEW p \in ToSet(q[k].content)
               PROVE  p.type \notin ServerParts
    OBVIOUS
  <2>1. DOMAIN q = 1..Len(q)
    BY <1>1, SeqShape DEF InternalHolds
  <2> HIDE DEF q
  <2>2. q[k] \in ToSet(q)
    BY <2>1 DEF ToSet
  <2> QED BY <2>2 DEF RefusedByBedrock, RefusedByLangChain, q
<1> HIDE DEF t, q
<1>5. IsSeq(q) /\ Len(q) = Len(t)
  BY <1>1 DEF InternalHolds
<1>6. ASSUME NEW k \in 1..Len(q), NEW j \in 1..Len(q[k].content)
      PROVE  Convertible(q[k].content[j])
  <2>1. /\ Message(t[k]) /\ t[k].role # "system"
        /\ IsSeq(q[k].content) /\ Len(q[k].content) = Len(t[k].content)
        /\ Outward(q[k].content[j], t[k].content[j])
    BY <1>1, <1>5 DEF InternalHolds
  <2>2. PICK i \in 1..Len(r.messages) : t[k] = r.messages[i]
    BY <1>2, <1>5
  <2>3. t[k] \in ToSet(r.messages)
    BY <1>3, <2>2 DEF ToSet
  <2>4. j \in 1..Len(t[k].content) /\ Deeply(t[k].content[j]) /\ DOMAIN t[k].content = 1..Len(t[k].content)
    BY <2>1, SeqShape DEF Message, Tells
  <2>5. t[k].content[j] \in ToSet(t[k].content)
    BY <2>4 DEF ToSet
  <2>6. ~Rejected(t[k].content[j])
    BY <2>1, <2>3, <2>5 DEF RefusedByAdapter
  <2>7. q[k].content[j] \in ToSet(q[k].content)
    <3>1. j \in DOMAIN q[k].content
      BY <2>1, SeqShape
    <3> QED BY <3>1 DEF ToSet
  <2>8. q[k].content[j].type \notin ServerParts
    BY <1>4, <2>7
  <2> QED BY <2>1, <2>4, <2>6, <2>8, AcceptedConvertible
<1>7. \A k \in 1..Len(q) : IsSeq(q[k].content)
  BY <1>1, <1>5 DEF InternalHolds
<1>8. Sendable(q)
  BY <1>5, <1>6, <1>7 DEF Sendable
<1> QED
  BY <1>8 DEF q

-----------------------------------------------------------------------------
\* The conversions that go through a sequence with what they have so far: of what is in a
\* tool result, of the parts of a message, of the messages.
Go(way, acc, p) ==
    IF way = "inner" THEN Plain(acc, p) ELSE IF way = "parts" THEN AddPart(acc, p) ELSE AddMessage(acc, p)
Goes(f, way, acc, s, n) == f = [i \in 0..n |-> IF i = 0 THEN acc ELSE Go(way, f[i - 1], s[i])]
Gone(way, acc, s, n) == (CHOOSE f : Goes(f, way, acc, s, n))[n]

LEMMA GoesExists ==
    ASSUME NEW way, NEW acc, NEW s, NEW n \in Nat
    PROVE  \E f : Goes(f, way, acc, s, n)
<1> DEFINE T == {m \in Nat : \E f : Goes(f, way, acc, s, m)}
<1>1. 0 \in T
  <2> DEFINE f == [i \in 0..0 |-> acc]
  <2>1. f = [i \in 0..0 |-> IF i = 0 THEN acc ELSE Go(way, f[i - 1], s[i])]
    OBVIOUS
  <2> HIDE DEF f
  <2>2. Goes(f, way, acc, s, 0)
    BY <2>1 DEF Goes
  <2> QED
    BY <2>2
<1>2. ASSUME NEW m \in T
      PROVE  m + 1 \in T
  <2>1. PICK f : Goes(f, way, acc, s, m)
    OBVIOUS
  <2> DEFINE g == [i \in 0..(m + 1) |-> IF i = m + 1 THEN Go(way, f[m], s[i]) ELSE f[i]]
  <2>2. ASSUME NEW i \in 0..(m + 1)
        PROVE  g[i] = IF i = 0 THEN acc ELSE Go(way, g[i - 1], s[i])
    <3>1. CASE i = m + 1
      <4>1. i - 1 = m /\ m \in 0..(m + 1) /\ m # m + 1 /\ i # 0
        BY <3>1
      <4> QED BY <3>1, <4>1
    <3>2. CASE i # m + 1
      <4>1. i \in 0..m /\ g[i] = f[i]
        BY <3>2
      <4>2. i # 0 => i - 1 \in 0..m /\ g[i - 1] = f[i - 1]
        BY <4>1
      <4> HIDE DEF g
      <4> QED
        BY <2>1, <4>1, <4>2 DEF Goes
    <3> QED
      BY <3>1, <3>2
  <2>3. g = [i \in 0..(m + 1) |-> g[i]]
    OBVIOUS
  <2> HIDE DEF g
  <2>4. Goes(g, way, acc, s, m + 1)
    BY <2>2, <2>3 DEF Goes
  <2> QED
    BY <2>4
<1>3. T = Nat
  <2> HIDE DEF T
  <2>1. T \in SUBSET Nat
    BY DEF T
  <2> QED
    BY <1>1, <1>2, <2>1, Induction
<1> QED
  BY <1>3

LEMMA GoesAgree ==
    ASSUME NEW way, NEW acc, NEW s, NEW t, NEW n \in Nat, NEW m \in Nat, n <= m,
           \A i \in 1..n : s[i] = t[i],
           NEW f, NEW g, Goes(f, way, acc, s, n), Goes(g, way, acc, t, m)
    PROVE  f[n] = g[n]
<1>1. /\ \A i \in 0..n : f[i] = IF i = 0 THEN acc ELSE Go(way, f[i - 1], s[i])
      /\ \A i \in 0..m : g[i] = IF i = 0 THEN acc ELSE Go(way, g[i - 1], t[i])
  BY DEF Goes
<1> DEFINE T == {k \in Nat : k <= n => f[k] = g[k]}
<1>2. 0 \in T
  <2>1. 0 \in 0..n /\ 0 \in 0..m
    OBVIOUS
  <2> QED BY <1>1, <2>1
<1>3. ASSUME NEW k \in T
      PROVE  k + 1 \in T
  <2> SUFFICES ASSUME k + 1 <= n
               PROVE  f[k + 1] = g[k + 1]
    OBVIOUS
  <2>1. k + 1 \in 0..n /\ k + 1 \in 0..m /\ k + 1 # 0 /\ (k + 1) - 1 = k /\ k + 1 \in 1..n
    OBVIOUS
  <2>2. f[k] = g[k]
    BY <2>1
  <2>3. f[k + 1] = Go(way, f[k], s[k + 1]) /\ g[k + 1] = Go(way, g[k], t[k + 1])
    BY <1>1, <2>1
  <2> QED BY <2>1, <2>2, <2>3
<1>4. T = Nat
  <2> HIDE DEF T
  <2>1. T \in SUBSET Nat
    BY DEF T
  <2> QED BY <1>2, <1>3, <2>1, Induction
<1>5. n \in T
  <2> HIDE DEF T
  <2> QED BY <1>4
<1> QED
  BY <1>5

LEMMA GoneIs ==
    ASSUME NEW way, NEW acc, NEW s, NEW n \in Nat
    PROVE  \E f : Goes(f, way, acc, s, n) /\ Gone(way, acc, s, n) = f[n]
<1> DEFINE f == CHOOSE g : Goes(g, way, acc, s, n)
<1>1. Goes(f, way, acc, s, n)
  BY GoesExists
<1> HIDE DEF f
<1>2. Gone(way, acc, s, n) = f[n]
  BY DEF Gone, f
<1> QED
  BY <1>1, <1>2

LEMMA GoneNone ==
    ASSUME NEW way, NEW acc, NEW s
    PROVE  Gone(way, acc, s, 0) = acc
<1>1. PICK f : Goes(f, way, acc, s, 0) /\ Gone(way, acc, s, 0) = f[0]
  BY GoneIs
<1> QED
  BY <1>1 DEF Goes

\* One more element is one more step, and only the elements so far count.
LEMMA GoneStep ==
    ASSUME NEW way, NEW acc, NEW s, NEW n \in Nat
    PROVE  Gone(way, acc, s, n + 1) = Go(way, Gone(way, acc, s, n), s[n + 1])
<1>1. PICK f : Goes(f, way, acc, s, n) /\ Gone(way, acc, s, n) = f[n]
  BY GoneIs
<1>2. PICK g : Goes(g, way, acc, s, n + 1) /\ Gone(way, acc, s, n + 1) = g[n + 1]
  BY GoneIs
<1>3. f[n] = g[n]
  BY <1>1, <1>2, GoesAgree
<1>4. g[n + 1] = Go(way, g[n], s[n + 1])
  BY <1>2 DEF Goes
<1> QED
  BY <1>1, <1>2, <1>3, <1>4

LEMMA GoneAgree ==
    ASSUME NEW way, NEW acc, NEW s, NEW t, NEW n \in Nat, \A i \in 1..n : s[i] = t[i]
    PROVE  Gone(way, acc, s, n) = Gone(way, acc, t, n)
<1>1. PICK f : Goes(f, way, acc, s, n) /\ Gone(way, acc, s, n) = f[n]
  BY GoneIs
<1>2. PICK g : Goes(g, way, acc, t, n) /\ Gone(way, acc, t, n) = g[n]
  BY GoneIs
<1>3. f[n] = g[n]
  BY <1>1, <1>2, GoesAgree
<1> QED
  BY <1>1, <1>2, <1>3

LEMMA InnerGoes ==
    ASSUME NEW names, NEW s, IsSeq(s)
    PROVE  Inner(names, s) = Gone("inner", Started(names), s, Len(s))
  BY DEF Inner, Gone, Goes, Go

LEMMA PartsGo ==
    ASSUME NEW names, NEW s, IsSeq(s)
    PROVE  AddParts(names, s) = Gone("parts", Started(names), s, Len(s))
  BY DEF AddParts, Gone, Goes, Go

LEMMA MessagesGo ==
    ASSUME NEW s, IsSeq(s)
    PROVE  AddMessages(s) = Gone("messages", Started({}), s, Len(s))
  BY DEF AddMessages, Gone, Goes, Go

-----------------------------------------------------------------------------
\* Numbers tell names apart.
LEMMA NumberedApart ==
    ASSUME NEW base, IsSeq(base), NEW n \in Nat, NEW m \in Nat, Numbered(base, n) = Numbered(base, m)
    PROVE  n = m
<1> DEFINE v == Append(base, n)
           w == Append(base, m)
<1>0. Len(base) \in Nat
  BY SeqShape
<1>1. Extended(v, base, n) /\ Extended(w, base, m)
  BY AppendExtends
<1>2. Numbered(base, n) = (IF n = 1 THEN base ELSE v) /\ Numbered(base, m) = (IF m = 1 THEN base ELSE w)
  BY DEF Numbered
<1> HIDE DEF v, w
<1>3. Len(v) = Len(base) + 1 /\ Len(w) = Len(base) + 1 /\ v[Len(base) + 1] = n /\ w[Len(base) + 1] = m
  BY <1>1 DEF Extended
<1>4. Len(base) + 1 # Len(base)
  BY <1>0
<1>5. CASE n = 1 /\ m # 1
  <2>1. base = w
    BY <1>2, <1>5
  <2> QED BY <1>3, <1>4, <2>1
<1>6. CASE n # 1 /\ m = 1
  <2>1. v = base
    BY <1>2, <1>6
  <2> QED BY <1>3, <1>4, <2>1
<1>7. CASE n # 1 /\ m # 1
  <2>1. v = w
    BY <1>2, <1>7
  <2> QED BY <1>3, <2>1
<1> QED
  BY <1>5, <1>6, <1>7

\* One of the names of a title is free.
LEMMA SomeFree ==
    ASSUME NEW used, IsFiniteSet(used), NEW base, IsSeq(base)
    PROVE  \E n \in 1..(Cardinality(used) + 1) : Numbered(base, n) \notin used
<1> SUFFICES ASSUME \A n \in 1..(Cardinality(used) + 1) : Numbered(base, n) \in used
             PROVE  FALSE
  OBVIOUS
<1> DEFINE N == 1..(Cardinality(used) + 1)
           f == [n \in N |-> Numbered(base, n)]
<1>1. Cardinality(used) \in Nat
  BY FS_CardinalityType
<1>2. IsFiniteSet(N) /\ Cardinality(N) = Cardinality(used) + 1
  <2>1. 1 \in Int /\ Cardinality(used) + 1 \in Int /\ ~(1 > Cardinality(used) + 1)
    BY <1>1
  <2>2. IsFiniteSet(N) /\ Cardinality(N) = (Cardinality(used) + 1) - 1 + 1
    BY <2>1, FS_Interval
  <2> QED BY <1>1, <2>2
<1>3. N \subseteq Nat
  BY <1>1
<1>4. \A n \in N : f[n] = Numbered(base, n) /\ Numbered(base, n) \in used
  OBVIOUS
<1>5. f \in [N -> used]
  OBVIOUS
<1> HIDE DEF N, f
<1>6. Cardinality(used) < Cardinality(N)
  BY <1>1, <1>2
<1>7. \E x, y \in N : x # y /\ f[x] = f[y]
  BY <1>2, <1>5, <1>6, FS_PigeonHole
<1> QED
  BY <1>3, <1>4, <1>7, NumberedApart

LEMMA WantedSeq ==
    ASSUME NEW title \in DOMAIN Cleaned
    PROVE  IsSeq(Wanted(title))
<1>1. IsSeq(Cleaned[title])
  BY CleanedAssumption
<1>2. IsSeq(<<"document">>)
  BY SingleSeq
<1> QED
  BY <1>1, <1>2 DEF Wanted

\* The name that is taken is a free one.
LEMMA TakeIsFree ==
    ASSUME NEW used, IsFiniteSet(used), NEW title \in DOMAIN Cleaned
    PROVE  Take(used, title) \notin used
<1> DEFINE base == Wanted(title)
           top == Cardinality(used) + 1
           Free(n) == Numbered(base, n) \notin used
           F == {n \in 1..top : Free(n)}
<1>1. IsSeq(base)
  BY WantedSeq
<1>2. top \in Nat
  BY FS_CardinalityType
<1>3. F \in SUBSET Nat /\ F # {}
  <2>1. \E n \in 1..top : Free(n)
    BY <1>1, SomeFree
  <2>2. 1..top \subseteq Nat
    BY <1>2
  <2> HIDE DEF top, Free
  <2> QED BY <2>1, <2>2
<1>4. PICK n \in F : \A m \in F : n <= m
  <2> HIDE DEF F
  <2> QED BY <1>3, LeastNatural
<1>5. n \in 1..top /\ Free(n) /\ \A k \in 1..(n - 1) : ~Free(k)
  <2>1. n \in 1..top /\ Free(n)
    OBVIOUS
  <2>2. ASSUME NEW k \in 1..(n - 1), Free(k)
        PROVE  FALSE
    <3>1. k \in 1..top /\ ~(n <= k)
      BY <1>2, <2>1
    <3>2. k \in F
      BY <2>2, <3>1
    <3> QED BY <1>4, <3>1, <3>2
  <2> QED BY <2>1, <2>2
<1> DEFINE m == CHOOSE k \in 1..top : Free(k) /\ \A j \in 1..(k - 1) : ~Free(j)
<1>6. m \in 1..top /\ Free(m)
  <2> HIDE DEF Free, top
  <2> QED BY <1>5
<1>7. Take(used, title) = Numbered(base, m)
  BY DEF Take
<1> HIDE DEF m
<1> QED
  BY <1>6, <1>7

-----------------------------------------------------------------------------
\* Where an item has a document: it is one, or what is in it is one.
Spot(item, i) == IF i = 0 THEN item ELSE item.content[i]
Spots(item) == {i \in 0..Len(item.content) : Spot(item, i).type = "document"}

\* The documents of an item have names of their own that are new.
Holds(item, old, used) ==
    /\ IsSeq(item.content)
    /\ \A i \in Spots(item) : Spot(item, i).title \in used \ old
    /\ \A i, j \in Spots(item) : Spot(item, i).title = Spot(item, j).title => i = j
Distinct(items, old, used) ==
    /\ IsSeq(items)
    /\ \A k \in 1..Len(items) : Holds(items[k], old, used)
    /\ \A k, l \in 1..Len(items) : \A i \in Spots(items[k]), j \in Spots(items[l]) :
          Spot(items[k], i).title = Spot(items[l], j).title => k = l
Fresh(acc, old) ==
    IsFiniteSet(acc.used) /\ old \subseteq acc.used /\ Distinct(acc.out, old, acc.used)

LEMMA StartsFresh ==
    ASSUME NEW names, IsFiniteSet(names)
    PROVE  Fresh(Started(names), names) /\ Started(names).out = <<>>
<1>1. Started(names).out = <<>> /\ Started(names).used = names
  BY DEF Started
<1> QED
  BY <1>1, EmptyIsSeq DEF Fresh, Distinct

LEMMA WithIs ==
    ASSUME NEW acc, NEW item, NEW names
    PROVE  With(acc, item, names).out = Append(acc.out, item) /\ With(acc, item, names).used = names
  BY DEF With

LEMMA FreshWith ==
    ASSUME NEW acc, NEW old, Fresh(acc, old), NEW item, NEW names, IsFiniteSet(names),
           acc.used \subseteq names, Holds(item, acc.used, names)
    PROVE  Fresh(With(acc, item, names), old)
<1> DEFINE s == acc.out
           w == Append(s, item)
           c == With(acc, item, names)
<1>1. c.out = w /\ c.used = names
  BY WithIs
<1>2. IsSeq(s) /\ Len(s) \in Nat
  BY SeqShape DEF Fresh, Distinct
<1>3. Extended(w, s, item)
  BY <1>2, AppendExtends
<1> HIDE DEF w, c
<1>4. /\ IsSeq(w) /\ Len(w) = Len(s) + 1 /\ w[Len(s) + 1] = item
      /\ \A k \in 1..Len(s) : w[k] = s[k]
  BY <1>3 DEF Extended
<1>5. \A k \in 1..Len(s) : Holds(s[k], old, acc.used)
  BY DEF Fresh, Distinct
<1>6. ASSUME NEW k \in 1..Len(w)
      PROVE  Holds(w[k], old, names)
  <2>1. CASE k = Len(s) + 1
    BY <1>4, <2>1 DEF Holds, Fresh
  <2>2. CASE k # Len(s) + 1
    <3>1. k \in 1..Len(s) /\ w[k] = s[k]
      BY <1>2, <1>4, <2>2
    <3> QED BY <1>5, <3>1 DEF Holds
  <2> QED BY <2>1, <2>2
<1>7. \A i \in Spots(item) : Spot(item, i).title \in names \ acc.used
  BY DEF Holds
<1>8. ASSUME NEW k \in 1..Len(w), NEW l \in 1..Len(w), NEW i \in Spots(w[k]), NEW j \in Spots(w[l]),
             Spot(w[k], i).title = Spot(w[l], j).title
      PROVE  k = l
  <2>1. \A m \in 1..Len(w) : m # Len(s) + 1 => m \in 1..Len(s)
    BY <1>2, <1>4
  <2>2. CASE k = Len(s) + 1 /\ l # Len(s) + 1
    <3>1. l \in 1..Len(s) /\ w[l] = s[l] /\ w[k] = item
      BY <1>4, <2>1, <2>2
    <3>2. Spot(w[l], j).title \in acc.used
      BY <1>5, <3>1 DEF Holds
    <3> QED BY <1>7, <1>8, <3>1, <3>2
  <2>3. CASE k # Len(s) + 1 /\ l = Len(s) + 1
    <3>1. k \in 1..Len(s) /\ w[k] = s[k] /\ w[l] = item
      BY <1>4, <2>1, <2>3
    <3>2. Spot(w[k], i).title \in acc.used
      BY <1>5, <3>1 DEF Holds
    <3> QED BY <1>7, <1>8, <3>1, <3>2
  <2>4. CASE k # Len(s) + 1 /\ l # Len(s) + 1
    <3>1. k \in 1..Len(s) /\ w[k] = s[k] /\ l \in 1..Len(s) /\ w[l] = s[l]
      BY <1>4, <2>1, <2>4
    <3> QED BY <1>8, <3>1 DEF Fresh, Distinct
  <2> QED BY <2>2, <2>3, <2>4
<1>9. old \subseteq names
  BY DEF Fresh
<1>10. Fresh(c, old)
  BY <1>1, <1>4, <1>6, <1>8, <1>9 DEF Fresh, Distinct
<1> QED
  BY <1>10 DEF c

\* An item without anything in it.
LEMMA BareHolds ==
    ASSUME NEW item, item.content = <<>>, NEW old, NEW used,
           item.type = "document" => item.title \in used \ old
    PROVE  Holds(item, old, used)
<1>1. Len(item.content) = 0 /\ IsSeq(item.content)
  BY EmptyIsSeq
<1>2. \A i \in Spots(item) : i = 0 /\ item.type = "document" /\ Spot(item, i) = item
  BY <1>1 DEF Spots, Spot
<1> QED
  BY <1>1, <1>2 DEF Holds

LEMMA ItemIs ==
    ASSUME NEW p, p.type \in PlainTypes \ {"document"}
    PROVE  Item(p).content = <<>> /\ Item(p).type # "document" /\ Item(p).id = p.id
           /\ Item(p).type = ItemType[p.type]
           /\ Item(p).body = p.body \o Bodies(p.content)
<1>1. ItemType[p.type] # "document"
  BY DEF PlainTypes, ItemType
<1> DEFINE kind == ItemType[p.type]
           body == p.body \o Bodies(p.content)
           cites == IF p.type = "text" THEN <<>> ELSE p.cites
<1>2. Item(p) = [Block EXCEPT !.type = kind, !.body = body, !.id = p.id, !.cites = cites]
  BY DEF Item
<1> HIDE DEF kind, body, cites
<1>3. Item(p).content = <<>> /\ Item(p).type = kind /\ Item(p).id = p.id /\ Item(p).body = body
  BY <1>2 DEF Block
<1> QED
  BY <1>1, <1>3 DEF kind, body

LEMMA DocumentIs ==
    ASSUME NEW p, NEW name
    PROVE  /\ Document(p, name).content = <<>> /\ Document(p, name).type = "document"
           /\ Document(p, name).title = name /\ Document(p, name).body = p.body \o Bodies(p.content)
<1> DEFINE body == p.body \o Bodies(p.content)
<1>1. Document(p, name) = [Block EXCEPT !.type = "document", !.body = body, !.title = name, !.cites = p.cites]
  BY DEF Document
<1> HIDE DEF body
<1>2. /\ Document(p, name).content = <<>> /\ Document(p, name).type = "document"
      /\ Document(p, name).title = name /\ Document(p, name).body = body
  BY <1>1 DEF Block
<1> QED
  BY <1>2 DEF body

\* The item that stands for a part, by its type and the call it is about.
SentType(p) ==
    IF p.type = "tool_result" THEN "toolResult" ELSE IF p.type = "document" THEN "document" ELSE ItemType[p.type]
Made(item, p) == item.type = SentType(p) /\ (p.type \in {"tool_call", "tool_result"} => item.id = p.id)

\* What one part adds.
Adds(d, acc, item, names) ==
    /\ d = With(acc, item, names) /\ IsFiniteSet(names) /\ acc.used \subseteq names
    /\ Holds(item, acc.used, names)

LEMMA PlainAdds ==
    ASSUME NEW acc, IsFiniteSet(acc.used), NEW p, p.type \in PlainTypes, p.title \in DOMAIN Cleaned
    PROVE  \E item, names : Adds(Plain(acc, p), acc, item, names) /\ Made(item, p) /\ item.content = <<>>
<1>0. p.type # "tool_result"
  BY DEF PlainTypes
<1>1. CASE p.type = "document"
  <2> DEFINE name == Take(acc.used, p.title)
             item == Document(p, name)
             names == acc.used \cup {name}
  <2>1. Plain(acc, p) = With(acc, item, names)
    BY <1>1 DEF Plain
  <2>2. name \notin acc.used
    BY TakeIsFree
  <2> HIDE DEF name
  <2>3. item.content = <<>> /\ item.title = name /\ item.type = "document"
    BY DocumentIs
  <2>4. IsFiniteSet(names) /\ acc.used \subseteq names
    BY FS_AddElement
  <2>5. item.title \in names \ acc.used
    BY <2>2, <2>3
  <2> HIDE DEF item, names
  <2>6. Holds(item, acc.used, names)
    BY <2>3, <2>5, BareHolds
  <2>7. Made(item, p)
    BY <1>1, <2>3 DEF Made, SentType
  <2> QED BY <2>1, <2>3, <2>4, <2>6, <2>7 DEF Adds
<1>2. CASE p.type # "document"
  <2> DEFINE item == Item(p)
  <2>1. Plain(acc, p) = With(acc, item, acc.used)
    BY <1>2 DEF Plain
  <2>2. item.content = <<>> /\ item.type # "document" /\ item.type = ItemType[p.type] /\ item.id = p.id
    BY <1>2, ItemIs
  <2> HIDE DEF item
  <2>3. Holds(item, acc.used, acc.used)
    BY <2>2, BareHolds
  <2>4. Made(item, p)
    BY <1>0, <1>2, <2>2 DEF Made, SentType
  <2> QED BY <2>1, <2>2, <2>3, <2>4 DEF Adds
<1> QED
  BY <1>1, <1>2

\* What is in a tool result is converted like a part, and each with a name of its own.
Bare(s) == \A i \in 1..Len(s) : s[i].content = <<>>

LEMMA BareWith ==
    ASSUME NEW s, IsSeq(s), Bare(s), NEW item, item.content = <<>>
    PROVE  Bare(Append(s, item))
<1> DEFINE w == Append(s, item)
<1>1. Extended(w, s, item) /\ Len(s) \in Nat
  BY AppendExtends, SeqShape
<1> HIDE DEF w
<1>2. \A i \in 1..Len(w) : i = Len(s) + 1 \/ i \in 1..Len(s)
  BY <1>1 DEF Extended
<1>3. Bare(w)
  BY <1>1, <1>2 DEF Bare, Extended
<1> QED
  BY <1>3 DEF w

InResult(s) ==
    IsSeq(s) /\ \A i \in 1..Len(s) : s[i].type \in InResults /\ s[i].title \in DOMAIN Cleaned

LEMMA InnerFresh ==
    ASSUME NEW names, IsFiniteSet(names), NEW s, InResult(s)
    PROVE  Fresh(Inner(names, s), names) /\ Bare(Inner(names, s).out)
<1> DEFINE G(m) == Gone("inner", Started(names), s, m)
           T == {m \in Nat : m <= Len(s) => Fresh(G(m), names) /\ Bare(G(m).out)}
<1>1. IsSeq(s) /\ Len(s) \in Nat
  BY SeqShape DEF InResult
<1>2. 0 \in T
  <2>1. G(0) = Started(names)
    BY GoneNone
  <2>2. Fresh(Started(names), names) /\ Started(names).out = <<>>
    BY StartsFresh
  <2>3. Bare(<<>>)
    BY EmptyIsSeq DEF Bare
  <2> QED BY <2>1, <2>2, <2>3
<1>3. ASSUME NEW m \in T
      PROVE  m + 1 \in T
  <2> SUFFICES ASSUME m + 1 <= Len(s)
               PROVE  Fresh(G(m + 1), names) /\ Bare(G(m + 1).out)
    OBVIOUS
  <2> DEFINE acc == G(m)
             p == s[m + 1]
  <2>1. m \in Nat /\ m + 1 \in 1..Len(s) /\ Fresh(acc, names) /\ Bare(acc.out)
    BY <1>1
  <2>2. G(m + 1) = Plain(acc, p)
    BY <2>1, GoneStep DEF Go
  <2>3. p.type \in PlainTypes /\ p.title \in DOMAIN Cleaned
    BY <2>1 DEF InResult, InResults, PlainTypes
  <2>4. IsFiniteSet(acc.used) /\ IsSeq(acc.out)
    BY <2>1 DEF Fresh, Distinct
  <2> HIDE DEF acc, p, G
  <2>5. PICK item, more : Adds(Plain(acc, p), acc, item, more) /\ Made(item, p) /\ item.content = <<>>
    BY <2>3, <2>4, PlainAdds
  <2>6. Fresh(With(acc, item, more), names)
    BY <2>1, <2>5, FreshWith DEF Adds
  <2>7. Bare(Append(acc.out, item))
    BY <2>1, <2>4, <2>5, BareWith
  <2>8. Plain(acc, p) = With(acc, item, more)
    BY <2>5 DEF Adds
  <2>9. With(acc, item, more).out = Append(acc.out, item)
    BY WithIs
  <2> QED BY <2>2, <2>6, <2>7, <2>8, <2>9
<1>4. T = Nat
  <2> HIDE DEF T
  <2>1. T \in SUBSET Nat
    BY DEF T
  <2> QED BY <1>2, <1>3, <2>1, Induction
<1>5. Len(s) \in T
  <2> HIDE DEF T
  <2> QED BY <1>1, <1>4
<1> QED
  BY <1>1, <1>5, InnerGoes

-----------------------------------------------------------------------------
\* The item of a tool result holds what was in it.
ResultItem(p, s) == [Block EXCEPT !.type = "toolResult", !.id = p.id, !.error = p.error, !.content = s]

LEMMA ResultItemIs ==
    ASSUME NEW p, NEW s
    PROVE  /\ ResultItem(p, s).type = "toolResult" /\ ResultItem(p, s).id = p.id
           /\ ResultItem(p, s).content = s /\ ResultItem(p, s).body = <<>>
  BY DEF ResultItem, Block

LEMMA ConvertedAdds ==
    ASSUME NEW acc, IsFiniteSet(acc.used), NEW p, Convertible(p), p.type # "redacted_thinking"
    PROVE  \E item, names : Adds(Converted(acc, p), acc, item, names) /\ Made(item, p)
<1>1. CASE p.type # "tool_result"
  <2>1. p.type \in PlainTypes /\ p.title \in DOMAIN Cleaned /\ Converted(acc, p) = Plain(acc, p)
    BY <1>1 DEF Convertible, Converted
  <2> QED BY <2>1, PlainAdds
<1>2. CASE p.type = "tool_result"
  <2> DEFINE inner == Inner(acc.used, p.content)
             item == ResultItem(p, inner.out)
             names == inner.used
  <2>1. Converted(acc, p) = With(acc, item, names)
    BY <1>2 DEF Converted, ResultItem
  <2>2. InResult(p.content)
    BY <1>2 DEF Convertible, InResult
  <2>3. Fresh(inner, acc.used) /\ Bare(inner.out)
    BY <2>2, InnerFresh
  <2> HIDE DEF inner
  <2>4. item.type = "toolResult" /\ item.id = p.id /\ item.content = inner.out
    BY ResultItemIs
  <2> HIDE DEF item
  <2>5. IsFiniteSet(names) /\ acc.used \subseteq names /\ Distinct(inner.out, acc.used, names)
    BY <2>3 DEF Fresh
  <2> DEFINE s == inner.out
  <2>6. IsSeq(s) /\ Len(s) \in Nat
    BY <2>5, SeqShape DEF Distinct
  <2> HIDE DEF s, names
  <2>7. item.content = s /\ Distinct(s, acc.used, names) /\ Bare(s)
    BY <2>3, <2>4, <2>5 DEF s
  <2>8. \A i \in Spots(item) : i \in 1..Len(s) /\ s[i].type = "document" /\ Spot(item, i) = s[i]
    <3> SUFFICES ASSUME NEW i \in Spots(item)
                 PROVE  i \in 1..Len(s) /\ s[i].type = "document" /\ Spot(item, i) = s[i]
      OBVIOUS
    <3>1. i \in 0..Len(s) /\ Spot(item, i).type = "document"
      BY <2>7 DEF Spots
    <3>2. i # 0
      BY <2>4, <3>1 DEF Spot
    <3> QED BY <2>6, <2>7, <3>1, <3>2 DEF Spot
  <2>9. \A i \in 1..Len(s) : s[i].type = "document" => 0 \in Spots(s[i]) /\ Spot(s[i], 0) = s[i]
    <3> SUFFICES ASSUME NEW i \in 1..Len(s), s[i].type = "document"
                 PROVE  0 \in Spots(s[i]) /\ Spot(s[i], 0) = s[i]
      OBVIOUS
    <3>1. Len(s[i].content) = 0
      BY <2>7, EmptyIsSeq DEF Bare
    <3>2. Spot(s[i], 0) = s[i]
      BY DEF Spot
    <3>3. 0 \in 0..Len(s[i].content)
      BY <3>1
    <3> QED BY <3>2, <3>3 DEF Spots
  <2>10. \A i \in 1..Len(s) : s[i].type = "document" => s[i].title \in names \ acc.used
    <3> SUFFICES ASSUME NEW i \in 1..Len(s), s[i].type = "document"
                 PROVE  s[i].title \in names \ acc.used
      OBVIOUS
    <3>1. Holds(s[i], acc.used, names)
      BY <2>7 DEF Distinct
    <3>2. \A a \in Spots(s[i]) : Spot(s[i], a).title \in names \ acc.used
      BY <3>1 DEF Holds
    <3>3. 0 \in Spots(s[i]) /\ Spot(s[i], 0) = s[i]
      BY <2>9
    <3> HIDE DEF Spots, Spot
    <3> QED BY <3>2, <3>3
  <2>11. \A i, j \in 1..Len(s) :
            s[i].type = "document" /\ s[j].type = "document" /\ s[i].title = s[j].title => i = j
    <3> SUFFICES ASSUME NEW i \in 1..Len(s), NEW j \in 1..Len(s),
                        s[i].type = "document", s[j].type = "document", s[i].title = s[j].title
                 PROVE  i = j
      OBVIOUS
    <3>1. 0 \in Spots(s[i]) /\ 0 \in Spots(s[j]) /\ Spot(s[i], 0).title = Spot(s[j], 0).title
      BY <2>9
    <3>2. \A k, l \in 1..Len(s) : \A a \in Spots(s[k]), b \in Spots(s[l]) :
              Spot(s[k], a).title = Spot(s[l], b).title => k = l
      BY <2>7 DEF Distinct
    <3> HIDE DEF Spots, Spot
    <3> QED BY <3>1, <3>2
  <2>12. Holds(item, acc.used, names)
    BY <2>6, <2>7, <2>8, <2>10, <2>11 DEF Holds
  <2>13. Made(item, p)
    BY <1>2, <2>4 DEF Made, SentType
  <2> QED BY <2>1, <2>5, <2>12, <2>13 DEF Adds, names
<1> QED
  BY <1>1, <1>2

\* The items of a message: of each part one, but of redacted thinking, and breakpoints.
SentAs(out, s, m) ==
    /\ \A k \in 1..Len(out) : out[k] = CachePoint \/
          \E i \in 1..m : s[i].type # "redacted_thinking" /\ Made(out[k], s[i])
    /\ \A i \in 1..m : s[i].type # "redacted_thinking" => \E k \in 1..Len(out) : Made(out[k], s[i])

LEMMA SentWith ==
    ASSUME NEW out, IsSeq(out), NEW s, NEW m \in Nat, SentAs(out, s, m),
           NEW item, s[m + 1].type # "redacted_thinking", Made(item, s[m + 1])
    PROVE  SentAs(Append(out, item), s, m + 1)
<1> DEFINE w == Append(out, item)
<1>1. Extended(w, out, item) /\ Len(out) \in Nat
  BY AppendExtends, SeqShape
<1> HIDE DEF w
<1>2. /\ Len(w) = Len(out) + 1 /\ w[Len(out) + 1] = item
      /\ \A k \in 1..Len(out) : w[k] = out[k]
  BY <1>1 DEF Extended
<1>3. ASSUME NEW k \in 1..Len(w)
      PROVE  w[k] = CachePoint \/ \E i \in 1..(m + 1) : s[i].type # "redacted_thinking" /\ Made(w[k], s[i])
  <2>1. CASE k = Len(out) + 1
    <3>1. m + 1 \in 1..(m + 1) /\ w[k] = item
      BY <1>2, <2>1
    <3> QED BY <3>1
  <2>2. CASE k # Len(out) + 1
    <3>1. k \in 1..Len(out) /\ w[k] = out[k] /\ 1..m \subseteq 1..(m + 1)
      BY <1>1, <1>2, <2>2
    <3> QED BY <3>1 DEF SentAs
  <2> QED BY <2>1, <2>2
<1>4. ASSUME NEW i \in 1..(m + 1), s[i].type # "redacted_thinking"
      PROVE  \E k \in 1..Len(w) : Made(w[k], s[i])
  <2>1. CASE i = m + 1
    <3>1. Len(out) + 1 \in 1..Len(w)
      BY <1>1, <1>2
    <3> QED BY <1>2, <2>1, <3>1
  <2>2. CASE i # m + 1
    <3>1. i \in 1..m /\ 1..Len(out) \subseteq 1..Len(w)
      BY <1>1, <1>2, <2>2
    <3>2. PICK k \in 1..Len(out) : Made(out[k], s[i])
      BY <1>4, <3>1 DEF SentAs
    <3> QED BY <1>2, <3>1, <3>2
  <2> QED BY <2>1, <2>2
<1>5. SentAs(w, s, m + 1)
  BY <1>3, <1>4 DEF SentAs
<1> QED
  BY <1>5 DEF w

LEMMA SentPoint ==
    ASSUME NEW out, IsSeq(out), NEW s, NEW m \in Nat, SentAs(out, s, m)
    PROVE  SentAs(Append(out, CachePoint), s, m)
<1> DEFINE w == Append(out, CachePoint)
<1>1. Extended(w, out, CachePoint) /\ Len(out) \in Nat
  BY AppendExtends, SeqShape
<1> HIDE DEF w
<1>2. /\ Len(w) = Len(out) + 1 /\ w[Len(out) + 1] = CachePoint
      /\ \A k \in 1..Len(out) : w[k] = out[k] /\ k \in 1..Len(w)
  BY <1>1 DEF Extended
<1>3. \A k \in 1..Len(w) : k = Len(out) + 1 \/ k \in 1..Len(out)
  BY <1>1, <1>2
<1>4. SentAs(w, s, m)
  BY <1>2, <1>3 DEF SentAs
<1> QED
  BY <1>4 DEF w

LEMMA SentMore ==
    ASSUME NEW out, NEW s, NEW m \in Nat, SentAs(out, s, m), s[m + 1].type = "redacted_thinking"
    PROVE  SentAs(out, s, m + 1)
<1>1. \A i \in 1..(m + 1) : i \in 1..m \/ i = m + 1
  OBVIOUS
<1>2. 1..m \subseteq 1..(m + 1)
  OBVIOUS
<1> QED
  BY <1>1, <1>2 DEF SentAs

LEMMA CachePointIs == CachePoint.type = "cachePoint" /\ CachePoint.content = <<>> /\ CachePoint.body = <<>>
  BY DEF CachePoint, Block

Fits(c, names, s, m) == Fresh(c, names) /\ SentAs(c.out, s, m)

LEMMA AddPartFits ==
    ASSUME NEW names, NEW s, NEW m \in Nat, Convertible(s[m + 1]), NEW acc, Fits(acc, names, s, m)
    PROVE  Fits(AddPart(acc, s[m + 1]), names, s, m + 1)
<1> DEFINE p == s[m + 1]
           d == Converted(acc, p)
<1>0. IsFiniteSet(acc.used) /\ IsSeq(acc.out)
  BY DEF Fits, Fresh, Distinct
<1>1. CASE p.type = "redacted_thinking"
  <2>1. AddPart(acc, p) = acc
    BY <1>1 DEF AddPart
  <2> QED BY <1>1, <2>1, SentMore DEF Fits
<1>2. CASE p.type # "redacted_thinking"
  <2>1. PICK item, more : Adds(d, acc, item, more) /\ Made(item, p)
    BY <1>0, <1>2, ConvertedAdds
  <2>2. AddPart(acc, p) = IF p.cache THEN With(d, CachePoint, d.used) ELSE d
    BY <1>2 DEF AddPart
  <2>3. s[m + 1].type # "redacted_thinking" /\ Made(item, s[m + 1])
    BY <1>2, <2>1
  <2> HIDE DEF d, p
  <2>4. d = With(acc, item, more) /\ d.out = Append(acc.out, item) /\ d.used = more
    BY <2>1, WithIs DEF Adds
  <2>5. Fresh(d, names)
    BY <2>1, <2>4, FreshWith DEF Adds, Fits
  <2>6. SentAs(d.out, s, m + 1)
    BY <1>0, <2>3, <2>4, SentWith DEF Fits
  <2>7. CASE p.cache
    <3> DEFINE e == With(d, CachePoint, d.used)
    <3>1. AddPart(acc, p) = e /\ e.out = Append(d.out, CachePoint)
      BY <2>2, <2>7, WithIs
    <3>2. Holds(CachePoint, d.used, d.used)
      BY CachePointIs, BareHolds
    <3>3. Fresh(e, names)
      BY <2>5, <3>2, FreshWith DEF Fresh
    <3>4. m + 1 \in Nat /\ IsSeq(d.out)
      BY <2>5 DEF Fresh, Distinct
    <3>5. SentAs(Append(d.out, CachePoint), s, m + 1)
      BY <2>6, <3>4, SentPoint
    <3> HIDE DEF e
    <3> QED BY <3>1, <3>3, <3>5 DEF Fits, p
  <2>8. CASE ~p.cache
    BY <2>2, <2>5, <2>6, <2>8 DEF Fits, p
  <2> QED BY <2>7, <2>8
<1> QED
  BY <1>1, <1>2

ToConvert(s) == IsSeq(s) /\ \A i \in 1..Len(s) : Convertible(s[i])

LEMMA AddPartsFits ==
    ASSUME NEW names, IsFiniteSet(names), NEW s, ToConvert(s)
    PROVE  Fits(AddParts(names, s), names, s, Len(s))
<1> DEFINE G(m) == Gone("parts", Started(names), s, m)
           T == {m \in Nat : m <= Len(s) => Fits(G(m), names, s, m)}
<1>1. IsSeq(s) /\ Len(s) \in Nat
  BY SeqShape DEF ToConvert
<1>2. 0 \in T
  <2>1. G(0) = Started(names)
    BY GoneNone
  <2>2. Fresh(Started(names), names) /\ Started(names).out = <<>>
    BY StartsFresh
  <2>3. SentAs(<<>>, s, 0)
    BY EmptyIsSeq DEF SentAs
  <2> QED BY <2>1, <2>2, <2>3 DEF Fits
<1>3. ASSUME NEW m \in T
      PROVE  m + 1 \in T
  <2> SUFFICES ASSUME m + 1 <= Len(s)
               PROVE  Fits(G(m + 1), names, s, m + 1)
    OBVIOUS
  <2>1. m \in Nat /\ m + 1 \in 1..Len(s) /\ Fits(G(m), names, s, m)
    BY <1>1
  <2>2. G(m + 1) = AddPart(G(m), s[m + 1])
    BY <2>1, GoneStep DEF Go
  <2>3. Convertible(s[m + 1])
    BY <2>1 DEF ToConvert
  <2> HIDE DEF G
  <2> QED BY <2>1, <2>2, <2>3, AddPartFits
<1>4. T = Nat
  <2> HIDE DEF T
  <2>1. T \in SUBSET Nat
    BY DEF T
  <2> QED BY <1>2, <1>3, <2>1, Induction
<1>5. Len(s) \in T
  <2> HIDE DEF T
  <2> QED BY <1>1, <1>4
<1> QED
  BY <1>1, <1>5, PartsGo

-----------------------------------------------------------------------------
\* The messages that are sent: their roles, what is in them, and names of their own.
Share(s, t) ==
    \E a \in 1..Len(s), b \in 1..Len(t) : \E i \in Spots(s[a]), j \in Spots(t[b]) :
        Spot(s[a], i).title = Spot(t[b], j).title
Apart(out) == \A k, l \in 1..Len(out) : Share(out[k].content, out[l].content) => k = l
SentMessage(x, m, used) ==
    x.role = m.role /\ Distinct(x.content, {}, used) /\ SentAs(x.content, m.content, Len(m.content))
MessagesFit(acc, q, m) ==
    /\ IsFiniteSet(acc.used) /\ IsSeq(acc.out) /\ Len(acc.out) = m
    /\ \A k \in 1..m : SentMessage(acc.out[k], q[k], acc.used)
    /\ Apart(acc.out)

LEMMA StillDistinct ==
    ASSUME NEW s, NEW old, NEW used, Distinct(s, old, used), NEW more, used \subseteq more
    PROVE  Distinct(s, old, more)
<1>1. \A k \in 1..Len(s) : Holds(s[k], old, more)
  <2> SUFFICES ASSUME NEW k \in 1..Len(s)
               PROVE  Holds(s[k], old, more)
    OBVIOUS
  <2>1. Holds(s[k], old, used)
    BY DEF Distinct
  <2> QED BY <2>1 DEF Holds
<1> QED
  BY <1>1 DEF Distinct

\* Names of before are not among the new ones.
LEMMA NothingShared ==
    ASSUME NEW s, NEW t, NEW used, NEW more, Distinct(s, {}, used), Distinct(t, used, more)
    PROVE  ~Share(s, t) /\ ~Share(t, s)
<1>1. \A a \in 1..Len(s) : \A i \in Spots(s[a]) : Spot(s[a], i).title \in used
  BY DEF Distinct, Holds
<1>2. \A b \in 1..Len(t) : \A j \in Spots(t[b]) : Spot(t[b], j).title \notin used
  BY DEF Distinct, Holds
<1> QED
  BY <1>1, <1>2 DEF Share

LEMMA AddMessageFits ==
    ASSUME NEW q, NEW m \in Nat, ToConvert(q[m + 1].content), NEW acc, MessagesFit(acc, q, m)
    PROVE  MessagesFit(AddMessage(acc, q[m + 1]), q, m + 1)
<1> DEFINE msg == q[m + 1]
           c == AddParts(acc.used, msg.content)
           x == [role |-> msg.role, content |-> c.out]
           out == acc.out
           w == Append(out, x)
           d == With(acc, x, c.used)
<1>1. AddMessage(acc, q[m + 1]) = d
  BY DEF AddMessage
<1>2. IsFiniteSet(acc.used) /\ IsSeq(out) /\ Len(out) = m
  BY DEF MessagesFit
<1>3. Fits(c, acc.used, msg.content, Len(msg.content))
  BY <1>2, AddPartsFits
<1>4. x.role = msg.role /\ x.content = c.out
  OBVIOUS
<1>5. d.out = w /\ d.used = c.used
  BY WithIs
<1> HIDE DEF c, x, d
<1>6. /\ IsFiniteSet(c.used) /\ acc.used \subseteq c.used /\ Distinct(x.content, acc.used, c.used)
      /\ SentAs(x.content, msg.content, Len(msg.content))
  BY <1>3, <1>4 DEF Fits, Fresh
<1>7. Extended(w, out, x)
  BY <1>2, AppendExtends
<1>8. \A k \in 1..m : SentMessage(out[k], q[k], acc.used)
  BY DEF MessagesFit
<1>9. Apart(out)
  BY DEF MessagesFit
<1> HIDE DEF w, out, msg
<1>10. /\ IsSeq(w) /\ Len(w) = m + 1 /\ w[m + 1] = x
       /\ \A k \in 1..m : w[k] = out[k]
  BY <1>2, <1>7 DEF Extended
<1>11. SentMessage(x, msg, c.used)
  BY <1>4, <1>6 DEF SentMessage, Distinct, Holds
<1>12. \A k \in 1..m : SentMessage(out[k], q[k], c.used)
  BY <1>6, <1>8, StillDistinct DEF SentMessage
<1>13. \A k \in 1..(m + 1) : k = m + 1 \/ k \in 1..m
  OBVIOUS
<1>14. \A k \in 1..(m + 1) : SentMessage(w[k], q[k], c.used)
  BY <1>10, <1>11, <1>12, <1>13 DEF msg
<1>15. Apart(w)
  <2>1. \A k \in 1..m : ~Share(out[k].content, x.content) /\ ~Share(x.content, out[k].content)
    BY <1>6, <1>8, NothingShared DEF SentMessage
  <2>2. \A k, l \in 1..m : Share(out[k].content, out[l].content) => k = l
    BY <1>2, <1>9 DEF Apart, out
  <2> QED BY <1>10, <1>13, <2>1, <2>2 DEF Apart
<1> QED
  BY <1>1, <1>5, <1>6, <1>10, <1>14, <1>15 DEF MessagesFit

LEMMA AddMessagesFit ==
    ASSUME NEW q, Sendable(q)
    PROVE  MessagesFit(AddMessages(q), q, Len(q))
<1> DEFINE G(m) == Gone("messages", Started({}), q, m)
           T == {m \in Nat : m <= Len(q) => MessagesFit(G(m), q, m)}
<1>1. IsSeq(q) /\ Len(q) \in Nat
  BY SeqShape DEF Sendable
<1>2. 0 \in T
  <2>1. G(0) = Started({})
    BY GoneNone
  <2>2. IsFiniteSet({})
    BY FS_EmptySet
  <2>3. Started({}).out = <<>> /\ Started({}).used = {}
    BY DEF Started
  <2> DEFINE e == Started({})
  <2>4. IsSeq(e.out) /\ Len(e.out) = 0 /\ IsFiniteSet(e.used)
    BY <2>2, <2>3, EmptyIsSeq
  <2> HIDE DEF e
  <2>5. MessagesFit(e, q, 0)
    BY <2>4 DEF MessagesFit, Apart
  <2> QED BY <2>1, <2>5 DEF e
<1>3. ASSUME NEW m \in T
      PROVE  m + 1 \in T
  <2> SUFFICES ASSUME m + 1 <= Len(q)
               PROVE  MessagesFit(G(m + 1), q, m + 1)
    OBVIOUS
  <2>1. m \in Nat /\ m + 1 \in 1..Len(q) /\ MessagesFit(G(m), q, m)
    BY <1>1
  <2>2. G(m + 1) = AddMessage(G(m), q[m + 1])
    BY <2>1, GoneStep DEF Go
  <2>3. ToConvert(q[m + 1].content)
    BY <2>1 DEF Sendable, ToConvert
  <2> HIDE DEF G
  <2> QED BY <2>1, <2>2, <2>3, AddMessageFits
<1>4. T = Nat
  <2> HIDE DEF T
  <2>1. T \in SUBSET Nat
    BY DEF T
  <2> QED BY <1>2, <1>3, <2>1, Induction
<1>5. Len(q) \in T
  <2> HIDE DEF T
  <2> QED BY <1>1, <1>4
<1> QED
  BY <1>1, <1>5, MessagesGo

\* Where a document is.
IsAt(x, out, k, a, i) ==
    /\ k \in DOMAIN out /\ a \in DOMAIN out[k].content /\ i \in 0..Len(out[k].content[a].content)
    /\ x = <<k, a, i>> /\ Spot(out[k].content[a], i).type = "document"
    /\ ItemAt(out, x) = Spot(out[k].content[a], i)

LEMMA DocumentsAre ==
    ASSUME NEW out, NEW x \in Documents(out)
    PROVE  \E k, a, i : IsAt(x, out, k, a, i)
<1> DEFINE Of(k, a) == {<<k, a, i>> : i \in 0..Len(out[k].content[a].content)}
           In(k) == UNION {Of(k, a) : a \in DOMAIN out[k].content}
<1>1. x \in UNION {In(k) : k \in DOMAIN out} /\ ItemAt(out, x).type = "document"
  BY Zenon DEF Documents
<1>2. PICK k \in DOMAIN out : x \in In(k)
  <2> HIDE DEF In
  <2> QED BY <1>1
<1>3. PICK a \in DOMAIN out[k].content : x \in Of(k, a)
  <2> HIDE DEF Of
  <2> QED BY <1>2
<1>4. PICK i \in 0..Len(out[k].content[a].content) : x = <<k, a, i>>
  BY <1>3
<1>5. x[1] = k /\ x[2] = a /\ x[3] = i
  BY <1>4
<1>6. ItemAt(out, x) = Spot(out[k].content[a], i)
  BY <1>5 DEF ItemAt, Spot
<1> QED
  BY <1>1, <1>4, <1>6 DEF IsAt

\* What is sent to Converse, of an accepted request.
LEMMA SentToConverse ==
    ASSUME ConvInv, phase = "sent", provider = "bedrock"
    PROVE  /\ internal.messages = ToInternal(request).messages /\ Sendable(internal.messages)
           /\ sent.messages = AddMessages(internal.messages).out
           /\ MessagesFit(AddMessages(internal.messages), internal.messages, Len(internal.messages))
<1>1. /\ internal = ToInternal(request) /\ ~RefusedByAdapter(request)
      /\ sent = ToBedrock(internal) /\ ~RefusedByBedrock(internal) /\ Request(request)
  BY DEF ConvInv, Follows, Translated, Refuses
<1>2. sent.messages = AddMessages(internal.messages).out
  BY <1>1 DEF ToBedrock
<1>3. Sendable(internal.messages)
  BY <1>1, AcceptedSendable
<1> QED
  BY <1>1, <1>2, <1>3, AddMessagesFit

\* No two documents of a request to Converse have one name.
THEOREM DocumentsHaveNamesOfTheirOwn == ConvSpec => []NamesUnique
<1>1. ConvInv => NamesUnique
  <2> SUFFICES ASSUME ConvInv, phase = "sent", provider = "bedrock",
                      NEW x \in Documents(sent.messages), NEW y \in Documents(sent.messages),
                      ItemAt(sent.messages, x).title = ItemAt(sent.messages, y).title
               PROVE  x = y
    BY DEF NamesUnique
  <2> DEFINE out == sent.messages
  <2>1. PICK acc : acc.out = out /\ MessagesFit(acc, internal.messages, Len(internal.messages))
    BY SentToConverse
  <2>2. /\ IsSeq(out) /\ Apart(out)
        /\ \A k \in 1..Len(out) : Distinct(out[k].content, {}, acc.used)
    BY <2>1 DEF MessagesFit, SentMessage
  <2>3. DOMAIN out = 1..Len(out)
    BY <2>2, SeqShape
  <2>4. \A k \in 1..Len(out) : IsSeq(out[k].content) /\ DOMAIN out[k].content = 1..Len(out[k].content)
    BY <2>2, SeqShape DEF Distinct
  <2>5. PICK k, a, i : IsAt(x, out, k, a, i)
    BY DocumentsAre
  <2>6. PICK l, b, j : IsAt(y, out, l, b, j)
    BY DocumentsAre
  <2>7. /\ k \in 1..Len(out) /\ a \in 1..Len(out[k].content) /\ i \in Spots(out[k].content[a])
        /\ l \in 1..Len(out) /\ b \in 1..Len(out[l].content) /\ j \in Spots(out[l].content[b])
    BY <2>3, <2>4, <2>5, <2>6 DEF IsAt, Spots
  <2>8. Spot(out[k].content[a], i).title = Spot(out[l].content[b], j).title
    BY <2>5, <2>6 DEF IsAt
  <2> HIDE DEF out
  <2>9. k = l
    <3>1. Share(out[k].content, out[l].content)
      BY <2>7, <2>8, Zenon DEF Share
    <3> QED BY <2>2, <2>7, <3>1 DEF Apart
  <2>10. a = b
    BY <2>2, <2>7, <2>8, <2>9 DEF Distinct
  <2>11. i = j
    <3>1. Holds(out[k].content[a], {}, acc.used)
      BY <2>2, <2>7 DEF Distinct
    <3> QED BY <2>7, <2>8, <2>9, <2>10, <3>1 DEF Holds
  <2> QED BY <2>5, <2>6, <2>9, <2>10, <2>11 DEF IsAt
<1> QED
  BY <1>1, ConvInvHolds, PTL

-----------------------------------------------------------------------------
\* The turns of a conversation that goes on: those of before, the answer, the next.
LEMMA TurnsTogether ==
    ASSUME NEW s, IsSeq(s), NEW t, IsSeq(t)
    PROVE  Turns(s \o t) = Turns(s) \o Turns(t)
<1> DEFINE u == s \o t
           K == {i \in DOMAIN u : u[i].role # "system"}
           I == {i \in DOMAIN s : s[i].role # "system"}
           J == {i \in DOMAIN t : t[i].role # "system"}
<1>1. Turns(u) = Kept(u, K) /\ Turns(s) = Kept(s, I) /\ Turns(t) = Kept(t, J)
  BY DEF Turns
<1>2. Joined(u, s, t)
  BY ConcatJoins
<1>3. Len(s) \in Nat /\ Len(t) \in Nat /\ DOMAIN s = 1..Len(s) /\ DOMAIN t = 1..Len(t)
  BY SeqShape
<1> HIDE DEF u
<1>4. \A i \in 1..Len(s) : i \in K <=> i \in I
  <2> SUFFICES ASSUME NEW i \in 1..Len(s)
               PROVE  i \in K <=> i \in I
    OBVIOUS
  <2>1. i \in DOMAIN u /\ u[i] = s[i] /\ i \in DOMAIN s
    BY <1>2, <1>3 DEF Joined
  <2> QED BY <2>1
<1>5. \A i \in 1..Len(t) : Len(s) + i \in K <=> i \in J
  <2> SUFFICES ASSUME NEW i \in 1..Len(t)
               PROVE  Len(s) + i \in K <=> i \in J
    OBVIOUS
  <2>1. Len(s) + i \in DOMAIN u /\ u[Len(s) + i] = t[i] /\ i \in DOMAIN t
    BY <1>2, <1>3 DEF Joined
  <2> QED BY <2>1
<1> HIDE DEF K, I, J
<1>6. Kept(s \o t, K) = Kept(s, I) \o Kept(t, J)
  <2>1. Splits(K, I, J, Len(s), Len(t))
    BY <1>4, <1>5 DEF Splits
  <2> QED BY <2>1, KeptConcat
<1> QED
  BY <1>1, <1>6 DEF u

LEMMA AllTurns ==
    ASSUME NEW s, IsSeq(s), \A i \in 1..Len(s) : s[i].role # "system"
    PROVE  Turns(s) = s
<1> DEFINE I == {i \in DOMAIN s : s[i].role # "system"}
<1>1. 1..Len(s) \subseteq I
  BY SeqShape
<1>2. Turns(s) = Kept(s, I)
  BY DEF Turns
<1> HIDE DEF I
<1> QED
  BY <1>1, <1>2, KeptWhole

LEMMA NoTurns ==
    ASSUME NEW s, IsSeq(s), \A i \in 1..Len(s) : s[i].role = "system"
    PROVE  Turns(s) = <<>>
<1> DEFINE I == {i \in DOMAIN s : s[i].role # "system"}
<1>1. \A i \in 1..Len(s) : i \notin I
  BY SeqShape
<1>2. Turns(s) = Kept(s, I)
  BY DEF Turns
<1> HIDE DEF I
<1> QED
  BY <1>1, <1>2, KeptNone

Exchange(content, results, c, first) == <<Turn(content), Saying(results, c, first)>>

LEMMA ExchangeIs ==
    ASSUME NEW content, NEW results, NEW c, NEW first
    PROVE  /\ IsSeq(Exchange(content, results, c, first)) /\ Len(Exchange(content, results, c, first)) = 2
           /\ Exchange(content, results, c, first)[1] = Turn(content)
           /\ Exchange(content, results, c, first)[2] = Saying(results, c, first)
  BY PairSeq DEF Exchange

LEMMA SaidTurns ==
    ASSUME NEW m, IsSeq(m), NEW content, NEW results, NEW c, NEW first, NEW aside \in Asides
    PROVE  Turns(Said(m, content, results, c, first, aside)) = Turns(m) \o Exchange(content, results, c, first)
<1> DEFINE e == Exchange(content, results, c, first)
           u == m \o e
           t == Turns(m) \o e
<1>1. IsSeq(e) /\ Len(e) = 2 /\ e[1] = Turn(content) /\ e[2] = Saying(results, c, first)
  BY ExchangeIs
<1>2. e[1].role = "assistant" /\ e[2].role = "user"
  BY <1>1 DEF Turn, Saying, User
<1>3. Said(m, content, results, c, first, aside) = u \o aside
  BY DEF Said, Exchange
<1> HIDE DEF e
<1>4. Turns(e) = e
  <2>1. \A i \in 1..Len(e) : i = 1 \/ i = 2
    BY <1>1
  <2>2. \A i \in 1..Len(e) : e[i].role # "system"
    BY <1>2, <2>1
  <2> QED BY <1>1, <2>2, AllTurns
<1>5. Turns(u) = t
  BY <1>1, <1>4, TurnsTogether
<1>6. IsSeq(u)
  BY <1>1, ConcatJoins DEF Joined
<1>7. IsSeq(aside) /\ Turns(aside) = <<>>
  BY AsideMessages, NoTurns DEF Messages
<1>8. IsSeq(t)
  <2>1. IsSeq(Turns(m))
    <3> DEFINE I == {i \in DOMAIN m : m[i].role # "system"}
    <3>1. Turns(m) = Kept(m, I)
      BY DEF Turns
    <3> HIDE DEF I
    <3> QED BY <3>1, KeptElements DEF KeepsOnly
  <2> QED BY <1>1, <2>1, ConcatJoins DEF Joined
<1> HIDE DEF u, t
<1>9. Turns(u \o aside) = t \o <<>>
  BY <1>5, <1>6, <1>7, TurnsTogether
<1>10. Turns(u \o aside) = t
  BY <1>8, <1>9, ConcatNone
<1> QED
  BY <1>3, <1>10 DEF t, e

\* The result of a tool is in the turn that follows its call.
Called(t, k, b) ==
    /\ k > 1 /\ t[k - 1].role = "assistant"
    /\ \E d \in 1..Len(t[k - 1].content) : t[k - 1].content[d].type = "tool_use" /\ t[k - 1].content[d].id = b.id
ResultsFit(t) ==
    /\ IsSeq(t)
    /\ \A k \in 1..Len(t) : \A j \in 1..Len(t[k].content) :
          t[k].content[j].type = "tool_result" => Called(t, k, t[k].content[j])

NoResults(c) == \A j \in 1..Len(c) : c[j].type # "tool_result"

LEMMA SaysNoResults ==
    ASSUME NEW c \in Contents \cup FollowUps
    PROVE  IsSeq(c) /\ NoResults(c)
<1>1. Says(c) /\ \A i \in DOMAIN c : c[i].type # "tool_result"
  BY ClientAssumption
<1>2. IsSeq(c) /\ DOMAIN c = 1..Len(c)
  BY <1>1, SeqShape DEF Says
<1> QED
  BY <1>1, <1>2 DEF NoResults

\* The calls a turn of results is about.
AnswersSeq(s, content) ==
    \A j \in 1..Len(s) : s[j].type = "tool_result" =>
        \E d \in 1..Len(content) : content[d].type = "tool_use" /\ content[d].id = s[j].id

LEMMA ResultsAnswer ==
    ASSUME NEW content, IsSeq(content), NEW inner, NEW results,
           Results(results, OfType(content, {"tool_use"}), inner)
    PROVE  AnswersSeq(results, content)
<1> DEFINE I == {i \in DOMAIN content : content[i].type \in {"tool_use"}}
           calls == OfType(content, {"tool_use"})
<1>1. calls = Kept(content, I)
  BY DEF OfType
<1>2. DOMAIN content = 1..Len(content)
  BY SeqShape
<1>3. \A i \in I : i \in 1..Len(content) /\ content[i].type = "tool_use"
  BY <1>2
<1> HIDE DEF I, calls
<1>4. KeepsOnly(calls, content, I)
  BY <1>1, KeptElements
<1>5. IsSeq(calls) /\ DOMAIN calls = 1..Len(calls)
  BY <1>4, SeqShape DEF KeepsOnly
<1>6. Len(results) = Len(calls) /\ \A i \in 1..Len(calls) : results[i].id = calls[i].id
  BY DEF Results, Result, calls
<1> SUFFICES ASSUME NEW j \in 1..Len(results)
             PROVE  \E d \in 1..Len(content) : content[d].type = "tool_use" /\ content[d].id = results[j].id
  BY DEF AnswersSeq
<1>7. PICK i \in I \cap DOMAIN content : calls[j] = content[i]
  BY <1>4, <1>5, <1>6 DEF KeepsOnly
<1> QED
  BY <1>3, <1>6, <1>7

LEMMA AnswersTogether ==
    ASSUME NEW content, NEW s, IsSeq(s), NEW t, IsSeq(t), AnswersSeq(s, content), AnswersSeq(t, content)
    PROVE  AnswersSeq(s \o t, content)
<1> DEFINE w == s \o t
<1>1. Joined(w, s, t) /\ Len(s) \in Nat /\ Len(t) \in Nat
  BY ConcatJoins, SeqShape
<1> HIDE DEF w
<1>2. ASSUME NEW j \in 1..Len(w)
      PROVE  (\E i \in 1..Len(s) : w[j] = s[i]) \/ (\E i \in 1..Len(t) : w[j] = t[i])
  <2>1. CASE j <= Len(s)
    BY <1>1, <2>1 DEF Joined
  <2>2. CASE ~(j <= Len(s))
    <3>1. j - Len(s) \in 1..Len(t) /\ Len(s) + (j - Len(s)) = j
      BY <1>1, <2>2 DEF Joined
    <3> QED BY <1>1, <3>1 DEF Joined
  <2> QED BY <2>1, <2>2
<1>3. ASSUME NEW j \in 1..Len(w), w[j].type = "tool_result"
      PROVE  \E d \in 1..Len(content) : content[d].type = "tool_use" /\ content[d].id = w[j].id
  <2>1. CASE \E i \in 1..Len(s) : w[j] = s[i]
    <3>1. PICK i \in 1..Len(s) : w[j] = s[i]
      BY <2>1
    <3>2. s[i].type = "tool_result"
      BY <1>3, <3>1
    <3>3. PICK d \in 1..Len(content) : content[d].type = "tool_use" /\ content[d].id = s[i].id
      BY <3>2 DEF AnswersSeq
    <3> QED BY <3>1, <3>3
  <2>2. CASE \E i \in 1..Len(t) : w[j] = t[i]
    <3>1. PICK i \in 1..Len(t) : w[j] = t[i]
      BY <2>2
    <3>2. t[i].type = "tool_result"
      BY <1>3, <3>1
    <3>3. PICK d \in 1..Len(content) : content[d].type = "tool_use" /\ content[d].id = t[i].id
      BY <3>2 DEF AnswersSeq
    <3> QED BY <3>1, <3>3
  <2> QED BY <1>2, <2>1, <2>2
<1>4. AnswersSeq(w, content)
  BY <1>3 DEF AnswersSeq
<1> QED
  BY <1>4 DEF w

LEMMA SayingAnswers ==
    ASSUME NEW content, IsSeq(content), NEW inner \in FollowUps, NEW results,
           Results(results, OfType(content, {"tool_use"}), inner), NEW c \in FollowUps, NEW first \in BOOLEAN
    PROVE  AnswersSeq(Saying(results, c, first).content, content)
<1>1. AnswersSeq(results, content) /\ IsSeq(results)
  BY ResultsAnswer DEF Results
<1>2. AnswersSeq(c, content) /\ IsSeq(c)
  BY SaysNoResults DEF AnswersSeq, NoResults
<1>3. AnswersSeq(results \o c, content) /\ AnswersSeq(c \o results, content)
  BY <1>1, <1>2, AnswersTogether
<1> QED
  BY <1>3 DEF Saying, User

LEMMA ResultsFitMore ==
    ASSUME NEW t, ResultsFit(t), NEW content, NoResults(content), NEW results, NEW c, NEW first,
           AnswersSeq(Saying(results, c, first).content, content)
    PROVE  ResultsFit(t \o Exchange(content, results, c, first))
<1> DEFINE e == Exchange(content, results, c, first)
           w == t \o e
           n == Len(t)
<1>1. IsSeq(e) /\ Len(e) = 2 /\ e[1] = Turn(content) /\ e[2] = Saying(results, c, first)
  BY ExchangeIs
<1>2. e[1].role = "assistant" /\ e[1].content = content
  BY <1>1 DEF Turn
<1> HIDE DEF e
<1>3. Joined(w, t, e) /\ n \in Nat
  BY <1>1, ConcatJoins, SeqShape DEF ResultsFit
<1> HIDE DEF w
<1>4. /\ IsSeq(w) /\ Len(w) = n + 2 /\ w[n + 1] = e[1] /\ w[n + 2] = e[2]
      /\ \A k \in 1..n : w[k] = t[k]
  BY <1>1, <1>3 DEF Joined
<1>5. ASSUME NEW k \in 1..Len(w), NEW j \in 1..Len(w[k].content), w[k].content[j].type = "tool_result"
      PROVE  Called(w, k, w[k].content[j])
  <2>1. CASE k \in 1..n
    <3>1. w[k] = t[k] /\ Called(t, k, t[k].content[j])
      BY <1>4, <1>5, <2>1 DEF ResultsFit
    <3>2. k - 1 \in 1..n /\ w[k - 1] = t[k - 1]
      BY <1>3, <1>4, <2>1, <3>1 DEF Called
    <3> QED BY <3>1, <3>2 DEF Called
  <2>2. CASE k = n + 1
    BY <1>2, <1>4, <1>5, <2>2 DEF NoResults
  <2>3. CASE k = n + 2
    <3>1. k > 1 /\ k - 1 = n + 1
      BY <1>3, <2>3
    <3>2. AnswersSeq(w[k].content, content) /\ w[k - 1].role = "assistant" /\ w[k - 1].content = content
      BY <1>1, <1>2, <1>4, <2>3, <3>1
    <3> QED BY <1>5, <3>1, <3>2 DEF Called, AnswersSeq
  <2> QED BY <1>3, <1>4, <2>1, <2>2, <2>3
<1>6. ResultsFit(w)
  BY <1>4, <1>5 DEF ResultsFit
<1> QED
  BY <1>6 DEF w, e

-----------------------------------------------------------------------------
\* The next request in terms of the turns of the last one.
NextTurns(q, t) ==
    \E results, c, first :
        /\ Blocks(response.content)
        /\ AnswersSeq(Saying(results, c, first).content, response.content)
        /\ q = t \o Exchange(response.content, results, c, first)

LEMMA ContinueTurns ==
    ASSUME ConvInv, NEW c \in FollowUps, NEW inner \in FollowUps, NEW first \in BOOLEAN,
           NEW aside \in Asides, Continue(c, inner, first, aside)
    PROVE  NextTurns(Turns(request'.messages), Turns(request.messages))
<1>1. PICK results : /\ Results(results, OfType(response.content, {"tool_use"}), inner)
                     /\ request'.messages = Said(request.messages, response.content, results, c, first, aside)
  BY ContinueIs DEF NextRequest
<1>2. phase = "response"
  BY DEF Continue
<1>3. response = ToResponse(result) /\ result = Parsed /\ raw \in Answers[provider] /\ provider \in Backends
  BY <1>2 DEF ConvInv, Follows
<1>4. Blocks(response.content)
  <2>1. response.content = AnswerOf(provider, raw)
    BY <1>3 DEF AnswerOf, Parsed
  <2> QED BY <1>3, <2>1, AnswerBlocks
<1>5. AnswersSeq(Saying(results, c, first).content, response.content)
  BY <1>1, <1>4, SayingAnswers DEF Blocks
<1>6. Turns(request'.messages) = Turns(request.messages) \o Exchange(response.content, results, c, first)
  <2>1. IsSeq(request.messages)
    BY DEF ConvInv, Request, Messages
  <2> QED BY <1>1, <2>1, SaidTurns
<1> QED
  BY <1>4, <1>5, <1>6 DEF NextTurns

ResultsInv == ConvInv /\ ResultsFit(Turns(request.messages))

LEMMA ResultsInvStarts ==
    ASSUME ConvInit
    PROVE  ResultsInv
<1>1. PICK s \in Settings, c \in Contents : request = [s EXCEPT !.messages = Append(@, User(c))]
  BY DEF ConvInit
<1>2. request.messages = <<User(c)>>
  BY <1>1, OpeningIs
<1> DEFINE t == <<User(c)>>
<1>3. IsSeq(t) /\ Len(t) = 1 /\ t[1] = User(c)
  BY SingleSeq
<1> HIDE DEF t
<1>4. t[1].role = "user" /\ t[1].content = c
  BY <1>3 DEF User
<1>5. \A k \in 1..Len(t) : k = 1
  BY <1>3
<1>6. Turns(t) = t
  <2>1. \A k \in 1..Len(t) : t[k].role # "system"
    BY <1>4, <1>5
  <2> QED BY <1>3, <2>1, AllTurns
<1>7. ResultsFit(t)
  BY <1>3, <1>4, <1>5, SaysNoResults DEF ResultsFit, NoResults
<1> QED
  BY <1>2, <1>6, <1>7, ConvInitHolds DEF ResultsInv, t

LEMMA ResultsInvHolds == ConvSpec => []ResultsInv
<1>1. ConvInit => ResultsInv
  BY ResultsInvStarts
<1>2. ResultsInv /\ [ConvNext]_convVars => ResultsInv'
  <2> SUFFICES ASSUME ResultsInv, [ConvNext]_convVars
               PROVE  ResultsInv'
    OBVIOUS
  <2>1. ConvInv /\ ConvInv'
    BY ConvStep DEF ResultsInv
  <2>2. CASE UNCHANGED request
    BY <2>1, <2>2 DEF ResultsInv
  <2>3. ASSUME NEW c \in FollowUps, NEW inner \in FollowUps, NEW first \in BOOLEAN, NEW aside \in Asides,
               Continue(c, inner, first, aside)
        PROVE  ResultsInv'
    <3> DEFINE t == Turns(request.messages)
               u == Turns(request'.messages)
    <3>1. PICK results, d, f : /\ Blocks(response.content)
                               /\ AnswersSeq(Saying(results, d, f).content, response.content)
                               /\ u = t \o Exchange(response.content, results, d, f)
      BY <2>1, <2>3, ContinueTurns DEF NextTurns
    <3>2. NoResults(response.content)
      BY <3>1 DEF Blocks, BlockTypes, NoResults
    <3>3. ResultsFit(t)
      BY DEF ResultsInv
    <3> HIDE DEF t, u
    <3>4. ResultsFit(u)
      BY <3>1, <3>2, <3>3, ResultsFitMore
    <3> QED BY <2>1, <3>4 DEF ResultsInv, u
  <2>4. UNCHANGED request \/ \E c, inner \in FollowUps, first \in BOOLEAN, aside \in Asides :
            Continue(c, inner, first, aside)
    BY DEF ConvNext, Adapt, Send, Answer, Parse, Respond, convVars
  <2> QED BY <2>2, <2>3, <2>4
<1> QED
  BY <1>1, <1>2, PTL DEF ConvSpec

-----------------------------------------------------------------------------
\* Converse: the item of a result, and that of its call in the message before.
LEMMA ResultOfBlock ==
    ASSUME NEW p, NEW b, Outward(p, b), p.type = "tool_result"
    PROVE  b.type = "tool_result" /\ p.id = b.id
  BY DEF Outward, PartType, ServerResults

LEMMA CallOfBlock ==
    ASSUME NEW p, NEW b, Outward(p, b), b.type = "tool_use"
    PROVE  p.type = "tool_call" /\ p.id = b.id
  BY DEF Outward, PartType

LEMMA ResultOfItem ==
    ASSUME NEW item, NEW p, Convertible(p), p.type # "redacted_thinking", Made(item, p), item.type = "toolResult"
    PROVE  p.type = "tool_result" /\ item.id = p.id
<1>1. p.type \in PlainTypes \ {"document"} => ItemType[p.type] # "toolResult"
  BY DEF PlainTypes, ItemType
<1>2. p.type \in PlainTypes \cup {"tool_result"}
  BY DEF Convertible
<1>3. p.type = "tool_result"
  BY <1>1, <1>2 DEF Made, SentType, PlainTypes
<1> QED
  BY <1>3 DEF Made

LEMMA CallOfItem ==
    ASSUME NEW item, NEW p, Made(item, p), p.type = "tool_call"
    PROVE  item.type = "toolUse" /\ item.id = p.id
  BY DEF Made, SentType, ItemType

LEMMA ConverseResultsFollow ==
    ASSUME ResultsInv, phase = "sent", provider = "bedrock",
           NEW k \in DOMAIN sent.messages, NEW x \in ToSet(sent.messages[k].content), x.type = "toolResult"
    PROVE  k > 1 /\ \E c \in ToSet(sent.messages[k - 1].content) : c.type = "toolUse" /\ c.id = x.id
<1> DEFINE out == sent.messages
           q == internal.messages
           t == Turns(request.messages)
<1>1. ConvInv /\ ResultsFit(t) /\ Request(request)
  BY DEF ResultsInv, ConvInv
<1>2. PICK acc : acc.out = out /\ MessagesFit(acc, q, Len(q))
  BY <1>1, SentToConverse
<1>3. Sendable(q) /\ InternalHolds(q, t)
  <2>1. Sendable(q) /\ q = ToInternal(request).messages
    BY <1>1, SentToConverse
  <2> QED BY <1>1, <2>1, InternalIs
<1> HIDE DEF out, q, t
<1>4. /\ IsSeq(out) /\ Len(out) = Len(q) /\ Len(q) = Len(t) /\ Len(q) \in Nat
      /\ DOMAIN out = 1..Len(q)
      /\ \A l \in 1..Len(q) : IsSeq(out[l].content) /\ SentAs(out[l].content, q[l].content, Len(q[l].content))
  BY <1>2, <1>3, SeqShape DEF MessagesFit, SentMessage, InternalHolds, Distinct
<1>5. k \in 1..Len(q) /\ x \in ToSet(out[k].content)
  BY <1>4 DEF out
<1>6. PICK a \in 1..Len(out[k].content) : x = out[k].content[a]
  BY <1>4, <1>5, SeqShape DEF ToSet
<1>7. x # CachePoint
  BY CachePointIs
<1>8. PICK i \in 1..Len(q[k].content) : q[k].content[i].type # "redacted_thinking" /\ Made(x, q[k].content[i])
  BY <1>4, <1>5, <1>6, <1>7 DEF SentAs
<1>9. Convertible(q[k].content[i])
  BY <1>3, <1>5 DEF Sendable
<1>10. q[k].content[i].type = "tool_result" /\ x.id = q[k].content[i].id
  BY <1>8, <1>9, ResultOfItem
<1>11. i \in 1..Len(t[k].content) /\ Outward(q[k].content[i], t[k].content[i])
  BY <1>3, <1>4, <1>5 DEF InternalHolds
<1>12. t[k].content[i].type = "tool_result" /\ x.id = t[k].content[i].id
  BY <1>10, <1>11, ResultOfBlock
<1>13. Called(t, k, t[k].content[i])
  BY <1>1, <1>4, <1>5, <1>11, <1>12 DEF ResultsFit
<1>14. k > 1 /\ k - 1 \in 1..Len(q)
  BY <1>4, <1>5, <1>13 DEF Called
<1>15. PICK d \in 1..Len(t[k - 1].content) :
           t[k - 1].content[d].type = "tool_use" /\ t[k - 1].content[d].id = x.id
  BY <1>12, <1>13 DEF Called
<1> DEFINE part == q[k - 1].content[d]
<1>16. d \in 1..Len(q[k - 1].content) /\ Outward(part, t[k - 1].content[d])
  BY <1>3, <1>4, <1>14 DEF InternalHolds
<1>17. part.type = "tool_call" /\ part.id = x.id
  BY <1>15, <1>16, CallOfBlock
<1>18. PICK e \in 1..Len(out[k - 1].content) : Made(out[k - 1].content[e], part)
  <2>1. part.type # "redacted_thinking"
    BY <1>17
  <2> QED BY <1>4, <1>14, <1>16, <2>1 DEF SentAs
<1>19. out[k - 1].content[e].type = "toolUse" /\ out[k - 1].content[e].id = x.id
  BY <1>17, <1>18, CallOfItem
<1>20. out[k - 1].content[e] \in ToSet(out[k - 1].content)
  BY <1>4, <1>14, SeqShape DEF ToSet
<1> QED
  BY <1>14, <1>19, <1>20 DEF out

-----------------------------------------------------------------------------
\* LangChain: the messages a turn becomes.
Tooled(w, results) ==
    /\ IsSeq(w) /\ Len(results) <= Len(w)
    /\ \A j \in 1..Len(w) : IF j <= Len(results) THEN w[j].role = "tool" /\ w[j].id = results[j].id
                                                ELSE w[j].role = "human"

LEMMA ToolMessageIs ==
    ASSUME NEW p
    PROVE  ToolMessage(p).role = "tool" /\ ToolMessage(p).id = p.id
  BY DEF ToolMessage

LEMMA UserMessagesAre ==
    ASSUME NEW content, IsSeq(content)
    PROVE  Tooled(UserMessages(content), OfType(content, {"tool_result"}))
<1> DEFINE I == {i \in DOMAIN content : content[i].type \in {"tool_result"}}
           results == OfType(content, {"tool_result"})
           rest == NotOfType(content, {"tool_result"})
           tools == [i \in DOMAIN results |-> ToolMessage(results[i])]
           human == [role |-> "human", id |-> "",
                     content |-> FlattenSeq([i \in DOMAIN rest |-> UserItem(rest[i])])]
           none == results # <<>> /\ rest = <<>>
           w == UserMessages(content)
<1>1. w = tools \o IF none THEN <<>> ELSE <<human>>
  BY DEF UserMessages
<1>2. results = Kept(content, I)
  BY DEF OfType
<1>3. human.role = "human"
  OBVIOUS
<1> HIDE DEF I, human, none, w, results
<1>4. IsSeq(results) /\ DOMAIN results = 1..Len(results) /\ Len(results) \in Nat
  BY <1>2, KeptElements, SeqShape DEF KeepsOnly
<1>5. tools = [i \in DOMAIN results |-> tools[i]] /\ \A i \in 1..Len(results) : tools[i] = ToolMessage(results[i])
  BY <1>4
<1> HIDE DEF tools
<1>6. IsSeq(tools) /\ Len(tools) = Len(results)
  BY <1>4, <1>5, MapSeq
<1>7. \A i \in 1..Len(results) : tools[i].role = "tool" /\ tools[i].id = results[i].id
  BY <1>5, ToolMessageIs
<1>8. CASE none
  <2>1. w = tools
    BY <1>1, <1>6, <1>8, ConcatNone
  <2>2. Tooled(w, results)
    BY <1>4, <1>6, <1>7, <2>1 DEF Tooled
  <2> QED BY <2>2 DEF w, results
<1>9. CASE ~none
  <2> DEFINE h == <<human>>
  <2>1. w = tools \o h
    BY <1>1, <1>9
  <2>2. IsSeq(h) /\ Len(h) = 1 /\ h[1] = human
    BY SingleSeq
  <2> HIDE DEF h
  <2>3. Joined(w, tools, h)
    BY <1>6, <2>1, <2>2, ConcatJoins
  <2>4. /\ IsSeq(w) /\ Len(w) = Len(results) + 1 /\ w[Len(results) + 1] = human
        /\ \A i \in 1..Len(results) : w[i] = tools[i]
    BY <1>4, <1>6, <2>2, <2>3 DEF Joined
  <2>5. ASSUME NEW j \in 1..Len(w)
        PROVE  IF j <= Len(results) THEN w[j].role = "tool" /\ w[j].id = results[j].id ELSE w[j].role = "human"
    <3>1. CASE j <= Len(results)
      <4>1. j \in 1..Len(results)
        BY <1>4, <2>4, <3>1
      <4> QED BY <1>7, <2>4, <3>1, <4>1
    <3>2. CASE ~(j <= Len(results))
      <4>1. j = Len(results) + 1
        BY <1>4, <2>4, <3>2
      <4> QED BY <1>3, <2>4, <3>2, <4>1
    <3> QED BY <3>1, <3>2
  <2>6. Len(results) <= Len(w)
    BY <1>4, <2>4
  <2>7. Tooled(w, results)
    BY <2>4, <2>5, <2>6 DEF Tooled
  <2> QED BY <2>7 DEF w, results
<1> QED
  BY <1>8, <1>9

Calling(m, content) ==
    /\ m.role = "ai" /\ IsSeq(m.content)
    /\ \A d \in 1..Len(content) : content[d].type = "tool_call" =>
          \E c \in ToSet(m.content) : c.type = "tool_call" /\ c.id = content[d].id

LEMMA AIMessageIs ==
    ASSUME NEW content, IsSeq(content)
    PROVE  Calling(AIMessage(content), content)
<1> DEFINE I == {i \in DOMAIN content : content[i].type \in {"tool_call"}}
           texts == OfType(content, {"text", "thinking", "document", "search_result"})
           calls == OfType(content, {"tool_call"})
           item == TextItem(FlattenSeq([i \in DOMAIN texts |-> AsText(texts[i])]))
           h == <<item>>
           w == h \o calls
           m == AIMessage(content)
<1>1. m.role = "ai" /\ m.content = w
  BY DEF AIMessage
<1>2. calls = Kept(content, I)
  BY DEF OfType
<1>3. DOMAIN content = 1..Len(content)
  BY SeqShape
<1>4. \A d \in 1..Len(content) : content[d].type = "tool_call" => d \in I
  BY <1>3
<1> HIDE DEF item, m, calls, I
<1>5. IsSeq(h) /\ Len(h) = 1
  BY SingleSeq
<1> HIDE DEF h
<1>6. KeepsOnly(calls, content, I)
  BY <1>2, KeptElements
<1>7. IsSeq(calls) /\ DOMAIN calls = 1..Len(calls) /\ Len(calls) \in Nat
  BY <1>6, SeqShape DEF KeepsOnly
<1>8. Joined(w, h, calls)
  BY <1>5, <1>7, ConcatJoins
<1> HIDE DEF w
<1>9. ASSUME NEW d \in 1..Len(content), content[d].type = "tool_call"
      PROVE  \E c \in ToSet(w) : c.type = "tool_call" /\ c.id = content[d].id
  <2>1. PICK k \in DOMAIN calls : calls[k] = content[d]
    BY <1>3, <1>4, <1>6, <1>9 DEF KeepsOnly
  <2>2. Len(h) + k \in DOMAIN w /\ w[Len(h) + k] = calls[k]
    BY <1>5, <1>7, <1>8 DEF Joined
  <2>3. content[d] \in ToSet(w)
    BY <2>1, <2>2 DEF ToSet
  <2> QED BY <1>9, <2>3
<1>10. Calling(m, content)
  BY <1>1, <1>8, <1>9 DEF Calling, Joined
<1> QED
  BY <1>10 DEF m

\* The messages of each turn, one turn after another.
TurnMessages(m) == IF m.role = "user" THEN UserMessages(m.content) ELSE <<AIMessage(m.content)>>
OfTurns(q) == [i \in DOMAIN q |-> TurnMessages(q[i])]

LEMMA TurnMessagesSeq ==
    ASSUME NEW m, IsSeq(m.content)
    PROVE  IsSeq(TurnMessages(m))
  BY UserMessagesAre, SingleSeq DEF TurnMessages, Tooled

LEMMA OfTurnsSeqs ==
    ASSUME NEW q, IsSeq(q), \A i \in 1..Len(q) : IsSeq(q[i].content)
    PROVE  AreSeqs(OfTurns(q)) /\ Len(OfTurns(q)) = Len(q) /\ \A i \in 1..Len(q) : OfTurns(q)[i] = TurnMessages(q[i])
<1> DEFINE ss == OfTurns(q)
<1>1. DOMAIN q = 1..Len(q)
  BY SeqShape
<1>2. ss = [i \in DOMAIN q |-> ss[i]] /\ \A i \in 1..Len(q) : ss[i] = TurnMessages(q[i])
  BY <1>1 DEF OfTurns
<1> HIDE DEF ss
<1>3. IsSeq(ss) /\ Len(ss) = Len(q) /\ DOMAIN ss = 1..Len(q)
  BY <1>2, MapSeq
<1>4. AreSeqs(ss)
  BY <1>2, <1>3, TurnMessagesSeq DEF AreSeqs
<1> QED
  BY <1>2, <1>3, <1>4 DEF ss

LEMMA LangChainResultsFollow ==
    ASSUME ResultsInv, phase = "sent", provider = "langchain",
           NEW k \in DOMAIN sent.messages, sent.messages[k].role = "tool"
    PROVE  \E j \in 1..(k - 1) :
               /\ \E c \in ToSet(sent.messages[j].content) : c.type = "tool_call" /\ c.id = sent.messages[k].id
               /\ \A i \in (j + 1)..(k - 1) : sent.messages[i].role = "tool"
<1> DEFINE out == sent.messages
           q == internal.messages
           t == Turns(request.messages)
           ss == OfTurns(q)
<1>1. ConvInv /\ ResultsFit(t) /\ Request(request)
  BY DEF ResultsInv, ConvInv
<1>2. internal = ToInternal(request) /\ sent = ToLangChain(internal)
  BY <1>1 DEF ConvInv, Follows, Translated
<1>3. out = FlattenSeq(ss)
  BY <1>2 DEF ToLangChain, OfTurns, TurnMessages
<1>4. InternalHolds(q, t)
  BY <1>1, <1>2, InternalIs
<1> HIDE DEF out, q, t
<1>5. IsSeq(q) /\ Len(q) = Len(t) /\ Len(q) \in Nat /\ \A i \in 1..Len(q) : IsSeq(q[i].content)
  BY <1>4, SeqShape DEF InternalHolds
<1>6. AreSeqs(ss) /\ Len(ss) = Len(q) /\ \A i \in 1..Len(q) : ss[i] = TurnMessages(q[i])
  BY <1>5, OfTurnsSeqs
<1> HIDE DEF ss
<1>7. IsSeq(out) /\ Placed(out, ss, Len(q)) /\ DOMAIN out = 1..Len(out)
  BY <1>3, <1>6, FlattenPlaces, SeqShape
<1>8. k \in 1..Len(out) /\ out[k].role = "tool"
  BY <1>7 DEF out
<1>9. PICK i \in 1..Len(q) : \E j \in 1..Len(ss[i]) : k = At(ss, i, j) /\ out[k] = ss[i][j]
  BY <1>7, <1>8 DEF Placed, Place
<1>10. PICK j \in 1..Len(ss[i]) : k = At(ss, i, j) /\ out[k] = ss[i][j]
  BY <1>9
<1> DEFINE m == AIMessage(q[i].content)
<1>11. q[i].role = "user"
  <2> SUFFICES ASSUME q[i].role # "user"
               PROVE  FALSE
    OBVIOUS
  <2>1. ss[i] = <<m>>
    BY <1>6 DEF TurnMessages
  <2>2. m.role = "ai"
    BY <1>5, AIMessageIs DEF Calling
  <2> HIDE DEF m
  <2>3. Len(ss[i]) = 1 /\ ss[i][1] = m
    BY <2>1, SingleSeq
  <2>4. j = 1
    BY <2>3
  <2> QED BY <1>8, <1>10, <2>2, <2>3, <2>4
<1> DEFINE results == OfType(q[i].content, {"tool_result"})
           I == {b \in DOMAIN q[i].content : q[i].content[b].type \in {"tool_result"}}
<1>12. Tooled(ss[i], results)
  BY <1>5, <1>6, <1>11, UserMessagesAre DEF TurnMessages
<1>13. results = Kept(q[i].content, I)
  BY DEF OfType
<1>14. \A b \in I : b \in 1..Len(q[i].content) /\ q[i].content[b].type = "tool_result"
  BY <1>5, SeqShape
<1> HIDE DEF m, results, I
<1>15. KeepsOnly(results, q[i].content, I)
  BY <1>5, <1>13, KeptElements
<1>16. IsSeq(results) /\ DOMAIN results = 1..Len(results) /\ Len(results) \in Nat
  BY <1>15, SeqShape DEF KeepsOnly
<1>17. j <= Len(results) /\ out[k].id = results[j].id /\ j \in Nat /\ j > 0
  BY <1>6, <1>8, <1>10, <1>12 DEF Tooled
<1>18. PICK b \in I \cap DOMAIN q[i].content : results[j] = q[i].content[b]
  BY <1>15, <1>16, <1>17 DEF KeepsOnly
<1>19. b \in 1..Len(t[i].content) /\ Outward(q[i].content[b], t[i].content[b]) /\ q[i].content[b].type = "tool_result"
  BY <1>4, <1>5, <1>14, <1>18 DEF InternalHolds
<1>20. t[i].content[b].type = "tool_result" /\ out[k].id = t[i].content[b].id
  BY <1>17, <1>18, <1>19, ResultOfBlock
<1>21. Called(t, i, t[i].content[b])
  BY <1>1, <1>5, <1>19, <1>20 DEF ResultsFit
<1>22. i > 1 /\ i - 1 \in 1..Len(q) /\ q[i - 1].role = "assistant"
  <2>1. i > 1 /\ i - 1 \in 1..Len(q) /\ t[i - 1].role = "assistant"
    BY <1>5, <1>21 DEF Called
  <2> QED BY <1>4, <1>5, <2>1 DEF InternalHolds
<1>23. PICK d \in 1..Len(t[i - 1].content) :
           t[i - 1].content[d].type = "tool_use" /\ t[i - 1].content[d].id = out[k].id
  BY <1>20, <1>21 DEF Called
<1> DEFINE part == q[i - 1].content[d]
           ai == AIMessage(q[i - 1].content)
<1>24. d \in 1..Len(q[i - 1].content) /\ Outward(part, t[i - 1].content[d])
  BY <1>4, <1>5, <1>22 DEF InternalHolds
<1>25. part.type = "tool_call" /\ part.id = out[k].id
  BY <1>23, <1>24, CallOfBlock
<1>26. Calling(ai, q[i - 1].content)
  BY <1>5, <1>22, AIMessageIs
<1>27. PICK c \in ToSet(ai.content) : c.type = "tool_call" /\ c.id = out[k].id
  BY <1>24, <1>25, <1>26 DEF Calling
<1>28. ss[i - 1] = <<ai>>
  BY <1>6, <1>22 DEF TurnMessages
<1> HIDE DEF ai
<1>29. Len(ss[i - 1]) = 1 /\ ss[i - 1][1] = ai
  BY <1>28, SingleSeq
<1> DEFINE z == At(ss, i - 1, 1)
<1>30. z \in 1..Len(out) /\ out[z] = ai
  BY <1>7, <1>22, <1>29 DEF Placed
<1>31. z = Len(Flat(ss, i - 1))
  <2> DEFINE u == Flat(ss, i - 2)
             v == Flat(ss, i - 1)
  <2>1. i - 2 \in 0..Len(ss) /\ (i - 2) + 1 = i - 1 /\ i - 2 \in Nat /\ i - 1 <= Len(ss) /\ (i - 1) - 1 = i - 2
    BY <1>5, <1>6, <1>22
  <2>2. v = u \o ss[i - 1] /\ IsSeq(u)
    BY <1>6, <2>1, FlatStep, FlatSeq
  <2>3. IsSeq(ss[i - 1])
    BY <1>28, SingleSeq
  <2>4. z = Len(u) + 1
    BY <2>1 DEF At
  <2> HIDE DEF u, v, z
  <2>5. Len(v) = Len(u) + Len(ss[i - 1])
    BY <2>2, <2>3, ConcatJoins DEF Joined
  <2>6. z = Len(v)
    BY <1>29, <2>4, <2>5
  <2> QED BY <2>6 DEF v
<1>32. \A n : At(ss, i, n) = z + n
  BY <1>31 DEF At
<1> HIDE DEF z
<1>33. k = z + j /\ z \in Nat
  BY <1>10, <1>30, <1>32
<1>34. z \in 1..(k - 1)
  BY <1>17, <1>30, <1>33
<1>35. ASSUME NEW n \in (z + 1)..(k - 1)
       PROVE  out[n].role = "tool"
  <2>1. n - z \in 1..Len(ss[i]) /\ n - z <= Len(results) /\ z + (n - z) = n
    BY <1>12, <1>16, <1>17, <1>33 DEF Tooled
  <2>2. out[n] = ss[i][n - z]
    BY <1>7, <1>32, <2>1 DEF Placed
  <2> QED BY <1>12, <2>1, <2>2 DEF Tooled
<1> QED
  BY <1>27, <1>30, <1>34, <1>35 DEF out

\* A tool's result follows the turn that called it.
THEOREM ResultsFollowTheirCalls == ConvSpec => []ResultsFollowCalls
<1>1. ResultsInv => ResultsFollowCalls
  BY ConverseResultsFollow, LangChainResultsFollow DEF ResultsFollowCalls
<1> QED
  BY <1>1, ResultsInvHolds, PTL
=============================================================================

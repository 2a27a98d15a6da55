--------------------------- MODULE ContentProofs ---------------------------
(***************************************************************************)
(* What holds of Conversation for any client, any model and conversations  *)
(* of any length: content.  What was sent is sent again in front of what   *)
(* is new, breakpoints stand where the client marked, nothing that is said *)
(* is lost, and the model gets back what it said.                          *)
(***************************************************************************)
EXTENDS ConversationProofs

-----------------------------------------------------------------------------
\* What is said: by a block without parts of its parts, by a block, by blocks.
Body(b) == b.body \o Bodies(b.content)
Speech(b) == b.body \o Chunks(b.content)
Heard(s) == IsSeq(s) /\ \A i \in 1..Len(s) : IsSeq(s[i].body)
Voiced(s) == IsSeq(s) /\ \A i \in 1..Len(s) : IsSeq(Speech(s[i]))

BodyOfEach(s) == [i \in DOMAIN s |-> s[i].body]
TextOfEach(s) == [i \in DOMAIN s |-> Body(s[i])]
SpeechOfEach(s) == [i \in DOMAIN s |-> Speech(s[i])]

LEMMA SaidAre ==
    ASSUME NEW s, IsSeq(s)
    PROVE  /\ Bodies(s) = FlattenSeq(BodyOfEach(s)) /\ IsSeq(BodyOfEach(s)) /\ Len(BodyOfEach(s)) = Len(s)
           /\ \A i \in 1..Len(s) : BodyOfEach(s)[i] = s[i].body
           /\ Chunks(s) = FlattenSeq(TextOfEach(s)) /\ IsSeq(TextOfEach(s)) /\ Len(TextOfEach(s)) = Len(s)
           /\ \A i \in 1..Len(s) : TextOfEach(s)[i] = Body(s[i])
           /\ Flow(s) = FlattenSeq(SpeechOfEach(s)) /\ IsSeq(SpeechOfEach(s)) /\ Len(SpeechOfEach(s)) = Len(s)
           /\ \A i \in 1..Len(s) : SpeechOfEach(s)[i] = Speech(s[i])
<1>1. DOMAIN s = 1..Len(s)
  BY SeqShape
<1> DEFINE a == BodyOfEach(s)
           b == TextOfEach(s)
           c == SpeechOfEach(s)
<1>2. Bodies(s) = FlattenSeq(a) /\ Chunks(s) = FlattenSeq(b) /\ Flow(s) = FlattenSeq(c)
  BY DEF Bodies, Chunks, Flow, BodyOfEach, TextOfEach, SpeechOfEach, Body, Speech
<1>3. /\ a = [i \in DOMAIN s |-> a[i]] /\ \A i \in 1..Len(s) : a[i] = s[i].body
      /\ b = [i \in DOMAIN s |-> b[i]] /\ \A i \in 1..Len(s) : b[i] = Body(s[i])
      /\ c = [i \in DOMAIN s |-> c[i]] /\ \A i \in 1..Len(s) : c[i] = Speech(s[i])
  BY <1>1 DEF BodyOfEach, TextOfEach, SpeechOfEach
<1> HIDE DEF a, b, c
<1>4. IsSeq(a) /\ Len(a) = Len(s) /\ IsSeq(b) /\ Len(b) = Len(s) /\ IsSeq(c) /\ Len(c) = Len(s)
  BY <1>3, MapSeq
<1>5. /\ Bodies(s) = FlattenSeq(a) /\ IsSeq(a) /\ Len(a) = Len(s)
      /\ \A i \in 1..Len(s) : a[i] = s[i].body
      /\ Chunks(s) = FlattenSeq(b) /\ IsSeq(b) /\ Len(b) = Len(s)
      /\ \A i \in 1..Len(s) : b[i] = Body(s[i])
      /\ Flow(s) = FlattenSeq(c) /\ IsSeq(c) /\ Len(c) = Len(s)
      /\ \A i \in 1..Len(s) : c[i] = Speech(s[i])
  BY <1>2, <1>3, <1>4
<1> QED
  BY <1>5 DEF a, b, c

LEMMA FlattenSame ==
    ASSUME NEW ss, IsSeq(ss), NEW tt, IsSeq(tt), Len(ss) = Len(tt), \A i \in 1..Len(ss) : ss[i] = tt[i]
    PROVE  FlattenSeq(ss) = FlattenSeq(tt)
  BY SeqSame

LEMMA SeqOfSeqs ==
    ASSUME NEW ss, IsSeq(ss), \A i \in 1..Len(ss) : IsSeq(ss[i])
    PROVE  AreSeqs(ss) /\ IsSeq(FlattenSeq(ss))
<1>1. AreSeqs(ss)
  BY SeqShape DEF AreSeqs
<1> QED
  BY <1>1, FlattenPlaces

LEMMA NothingSaid == Bodies(<<>>) = <<>> /\ Chunks(<<>>) = <<>> /\ Flow(<<>>) = <<>>
<1> DEFINE e == <<>>
<1>1. IsSeq(e) /\ Len(e) = 0
  BY EmptyIsSeq
<1>2. e = <<>>
  OBVIOUS
<1> HIDE DEF e
<1>3. IsSeq(BodyOfEach(e)) /\ Len(BodyOfEach(e)) = 0 /\ IsSeq(TextOfEach(e)) /\ Len(TextOfEach(e)) = 0
      /\ IsSeq(SpeechOfEach(e)) /\ Len(SpeechOfEach(e)) = 0
  BY <1>1, SaidAre
<1>4. BodyOfEach(e) = <<>> /\ TextOfEach(e) = <<>> /\ SpeechOfEach(e) = <<>>
  BY <1>3, EmptyIsSeq, SeqSame
<1> QED
  BY <1>1, <1>2, <1>4, SaidAre, FlattenNothing

LEMMA SameBodies ==
    ASSUME NEW s, IsSeq(s), NEW t, IsSeq(t), Len(s) = Len(t), \A i \in 1..Len(s) : s[i].body = t[i].body
    PROVE  Bodies(s) = Bodies(t)
<1>1. /\ Bodies(s) = FlattenSeq(BodyOfEach(s)) /\ IsSeq(BodyOfEach(s)) /\ Len(BodyOfEach(s)) = Len(s)
      /\ \A i \in 1..Len(s) : BodyOfEach(s)[i] = s[i].body
      /\ Bodies(t) = FlattenSeq(BodyOfEach(t)) /\ IsSeq(BodyOfEach(t)) /\ Len(BodyOfEach(t)) = Len(t)
      /\ \A i \in 1..Len(t) : BodyOfEach(t)[i] = t[i].body
  BY SaidAre
<1> QED
  BY <1>1, FlattenSame

LEMMA SameChunks ==
    ASSUME NEW s, IsSeq(s), NEW t, IsSeq(t), Len(s) = Len(t), \A i \in 1..Len(s) : Body(s[i]) = Body(t[i])
    PROVE  Chunks(s) = Chunks(t)
<1>1. /\ Chunks(s) = FlattenSeq(TextOfEach(s)) /\ IsSeq(TextOfEach(s)) /\ Len(TextOfEach(s)) = Len(s)
      /\ \A i \in 1..Len(s) : TextOfEach(s)[i] = Body(s[i])
      /\ Chunks(t) = FlattenSeq(TextOfEach(t)) /\ IsSeq(TextOfEach(t)) /\ Len(TextOfEach(t)) = Len(t)
      /\ \A i \in 1..Len(t) : TextOfEach(t)[i] = Body(t[i])
  BY SaidAre
<1> QED
  BY <1>1, FlattenSame

LEMMA HeardBodies ==
    ASSUME NEW s, Heard(s)
    PROVE  IsSeq(Bodies(s))
<1>1. /\ Bodies(s) = FlattenSeq(BodyOfEach(s)) /\ IsSeq(BodyOfEach(s)) /\ Len(BodyOfEach(s)) = Len(s)
      /\ \A i \in 1..Len(s) : BodyOfEach(s)[i] = s[i].body
  BY SaidAre DEF Heard
<1> QED
  BY <1>1, SeqOfSeqs DEF Heard

\* A block that has no parts says what is in its body.
LEMMA BareBody ==
    ASSUME NEW b, IsSeq(b.body), b.content = <<>>
    PROVE  Body(b) = b.body /\ Speech(b) = b.body
  BY NothingSaid, ConcatNone DEF Body, Speech

LEMMA AllBare ==
    ASSUME NEW s, IsSeq(s), \A i \in 1..Len(s) : IsSeq(s[i].body) /\ s[i].content = <<>>
    PROVE  Chunks(s) = Bodies(s) /\ Flow(s) = Bodies(s) /\ Heard(s) /\ Voiced(s)
<1>1. \A i \in 1..Len(s) : Body(s[i]) = s[i].body /\ Speech(s[i]) = s[i].body
  BY BareBody
<1>2. /\ Bodies(s) = FlattenSeq(BodyOfEach(s)) /\ IsSeq(BodyOfEach(s)) /\ Len(BodyOfEach(s)) = Len(s)
      /\ \A i \in 1..Len(s) : BodyOfEach(s)[i] = s[i].body
      /\ Chunks(s) = FlattenSeq(TextOfEach(s)) /\ IsSeq(TextOfEach(s)) /\ Len(TextOfEach(s)) = Len(s)
      /\ \A i \in 1..Len(s) : TextOfEach(s)[i] = Body(s[i])
      /\ Flow(s) = FlattenSeq(SpeechOfEach(s)) /\ IsSeq(SpeechOfEach(s)) /\ Len(SpeechOfEach(s)) = Len(s)
      /\ \A i \in 1..Len(s) : SpeechOfEach(s)[i] = Speech(s[i])
  BY SaidAre
<1>3. Chunks(s) = Bodies(s)
  <2>1. \A i \in 1..Len(s) : TextOfEach(s)[i] = BodyOfEach(s)[i]
    BY <1>1, <1>2
  <2> QED BY <2>1, <1>2, FlattenSame
<1>4. Flow(s) = Bodies(s)
  <2>1. \A i \in 1..Len(s) : SpeechOfEach(s)[i] = BodyOfEach(s)[i]
    BY <1>1, <1>2
  <2> QED BY <2>1, <1>2, FlattenSame
<1> QED
  BY <1>1, <1>3, <1>4 DEF Heard, Voiced

LEMMA FlowSeq ==
    ASSUME NEW s, Voiced(s)
    PROVE  IsSeq(Flow(s)) /\ AreSeqs(SpeechOfEach(s)) /\ Flow(s) = FlattenSeq(SpeechOfEach(s))
<1>1. /\ Flow(s) = FlattenSeq(SpeechOfEach(s)) /\ IsSeq(SpeechOfEach(s)) /\ Len(SpeechOfEach(s)) = Len(s)
      /\ \A i \in 1..Len(s) : SpeechOfEach(s)[i] = Speech(s[i])
  BY SaidAre DEF Voiced
<1> QED
  BY <1>1, SeqOfSeqs DEF Voiced

LEMMA FlowTogether ==
    ASSUME NEW s, Voiced(s), NEW t, Voiced(t)
    PROVE  Voiced(s \o t) /\ Flow(s \o t) = Flow(s) \o Flow(t)
<1> DEFINE w == s \o t
           a == SpeechOfEach(s)
           b == SpeechOfEach(t)
           c == SpeechOfEach(w)
<1>1. Joined(w, s, t) /\ IsSeq(s) /\ IsSeq(t)
  BY ConcatJoins DEF Voiced
<1> HIDE DEF w
<1>2. /\ IsSeq(w) /\ Len(w) = Len(s) + Len(t) /\ Len(s) \in Nat /\ Len(t) \in Nat
      /\ \A i \in 1..Len(s) : w[i] = s[i]
      /\ \A i \in 1..Len(t) : w[Len(s) + i] = t[i]
  BY <1>1, SeqShape DEF Joined
<1>3. /\ AreSeqs(a) /\ Len(a) = Len(s) /\ \A i \in 1..Len(s) : a[i] = Speech(s[i])
      /\ AreSeqs(b) /\ Len(b) = Len(t) /\ \A i \in 1..Len(t) : b[i] = Speech(t[i])
      /\ IsSeq(c) /\ Len(c) = Len(w) /\ \A i \in 1..Len(w) : c[i] = Speech(w[i])
      /\ Flow(s) = FlattenSeq(a) /\ Flow(t) = FlattenSeq(b) /\ Flow(w) = FlattenSeq(c)
  BY <1>1, <1>2, SaidAre, FlowSeq
<1> HIDE DEF a, b, c
<1>4. \A i \in 1..Len(s) : c[i] = a[i]
  <2> SUFFICES ASSUME NEW i \in 1..Len(s)
               PROVE  c[i] = a[i]
    OBVIOUS
  <2>1. i \in 1..Len(w)
    BY <1>2
  <2> QED BY <1>2, <1>3, <2>1
<1>5. \A i \in 1..Len(t) : c[Len(s) + i] = b[i]
  <2> SUFFICES ASSUME NEW i \in 1..Len(t)
               PROVE  c[Len(s) + i] = b[i]
    OBVIOUS
  <2>1. Len(s) + i \in 1..Len(w)
    BY <1>2
  <2> QED BY <1>2, <1>3, <2>1
<1>6. Joined(c, a, b)
  <2>1. DOMAIN c = 1..(Len(a) + Len(b))
    BY <1>2, <1>3, SeqShape
  <2> QED BY <1>2, <1>3, <1>4, <1>5, <2>1 DEF Joined
<1>7. c = a \o b
  BY <1>3, <1>6, JoinedUnique DEF AreSeqs
<1>8. AreSeqs(c) /\ Flow(w) = Flow(s) \o Flow(t)
  <2>1. AreSeqs(a \o b) /\ FlattenSeq(a \o b) = FlattenSeq(a) \o FlattenSeq(b)
    BY <1>3, FlattenConcat
  <2> QED
    BY <1>3, <1>7, <2>1
<1>9. Voiced(w)
  <2>1. DOMAIN c = 1..Len(w)
    BY <1>3, SeqShape
  <2> QED BY <1>2, <1>3, <1>8, <2>1 DEF Voiced, AreSeqs
<1> QED
  BY <1>8, <1>9 DEF w

LEMMA AppendIsJoin ==
    ASSUME NEW s, IsSeq(s), NEW x
    PROVE  Append(s, x) = s \o <<x>>
<1> DEFINE h == <<x>>
           w == s \o h
<1>1. IsSeq(h) /\ Len(h) = 1 /\ h[1] = x
  BY SingleSeq
<1> HIDE DEF h
<1>2. Joined(w, s, h) /\ Len(s) \in Nat
  BY <1>1, ConcatJoins, SeqShape
<1> HIDE DEF w
<1>3. Extended(w, s, x)
  <2>1. w[Len(s) + 1] = x
    BY <1>1, <1>2 DEF Joined
  <2> QED BY <1>1, <1>2, <2>1 DEF Joined, Extended
<1>4. w = Append(s, x)
  BY <1>3, ExtendedUnique
<1> QED
  BY <1>4 DEF w, h

LEMMA FlowOne ==
    ASSUME NEW x, IsSeq(Speech(x))
    PROVE  Voiced(<<x>>) /\ Flow(<<x>>) = Speech(x)
<1> DEFINE h == <<x>>
<1>1. IsSeq(h) /\ Len(h) = 1 /\ h[1] = x
  BY SingleSeq
<1> HIDE DEF h
<1>2. \A i \in 1..Len(h) : i = 1
  BY <1>1
<1>3. Voiced(h)
  BY <1>1, <1>2 DEF Voiced
<1>4. /\ Flow(h) = FlattenSeq(SpeechOfEach(h)) /\ IsSeq(SpeechOfEach(h)) /\ Len(SpeechOfEach(h)) = 1
      /\ SpeechOfEach(h)[1] = Speech(x)
  BY <1>1, SaidAre
<1>5. FlattenSeq(SpeechOfEach(h)) = Speech(x)
  BY <1>4, FlatAll, FlatFirst
<1> QED
  BY <1>3, <1>4, <1>5 DEF h

LEMMA FlowAppend ==
    ASSUME NEW s, Voiced(s), NEW x, IsSeq(Speech(x))
    PROVE  Voiced(Append(s, x)) /\ Flow(Append(s, x)) = Flow(s) \o Speech(x)
<1>1. Append(s, x) = s \o <<x>>
  BY AppendIsJoin DEF Voiced
<1>2. Voiced(<<x>>) /\ Flow(<<x>>) = Speech(x)
  BY FlowOne
<1> DEFINE h == <<x>>
<1> HIDE DEF h
<1>3. Voiced(s \o h) /\ Flow(s \o h) = Flow(s) \o Flow(h)
  BY <1>2, FlowTogether DEF h
<1> QED
  BY <1>1, <1>2, <1>3 DEF h

-----------------------------------------------------------------------------
\* A text is sent as its body, with a breakpoint behind it if it is marked.
TextAdded(d, acc, item, p) ==
    /\ item.content = <<>> /\ item.body = p.body /\ item.type = "text"
    /\ d = IF p.cache THEN With(With(acc, item, acc.used), CachePoint, acc.used)
           ELSE With(acc, item, acc.used)

LEMMA TextAdds ==
    ASSUME NEW acc, NEW p, Simple(p), p.type = "text"
    PROVE  \E item : TextAdded(AddPart(acc, p), acc, item, p)
<1> DEFINE item == Item(p)
<1>1. item.content = <<>> /\ item.type = "text" /\ item.body = p.body \o Bodies(p.content)
  <2>1. p.type \in PlainTypes \ {"document"}
    BY DEF PlainTypes
  <2>2. ItemType[p.type] = "text"
    BY DEF ItemType
  <2> QED BY <2>1, <2>2, ItemIs
<1>2. IsSeq(p.body) /\ p.content = <<>>
  BY DEF Simple, IsBlock
<1>3. item.body = p.body
  BY <1>1, <1>2, NothingSaid, ConcatNone
<1>4. Converted(acc, p) = With(acc, item, acc.used)
  BY DEF Converted, Plain
<1> HIDE DEF item
<1>5. With(acc, item, acc.used).used = acc.used
  BY WithIs
<1>6. AddPart(acc, p) = IF p.cache THEN With(With(acc, item, acc.used), CachePoint, acc.used)
                        ELSE With(acc, item, acc.used)
  BY <1>4, <1>5 DEF AddPart
<1> QED
  BY <1>1, <1>3, <1>6 DEF TextAdded

LEMMA PointSaysNothing == Speech(CachePoint) = <<>> /\ IsSeq(Speech(CachePoint))
<1>1. IsSeq(CachePoint.body)
  BY CachePointIs, EmptyIsSeq
<1> QED
  BY <1>1, CachePointIs, BareBody

LEMMA FlowPoint ==
    ASSUME NEW s, Voiced(s)
    PROVE  Voiced(Append(s, CachePoint)) /\ Flow(Append(s, CachePoint)) = Flow(s)
<1>1. Voiced(Append(s, CachePoint)) /\ Flow(Append(s, CachePoint)) = Flow(s) \o Speech(CachePoint)
  BY PointSaysNothing, FlowAppend
<1>2. IsSeq(Flow(s))
  BY FlowSeq
<1> QED
  BY <1>1, <1>2, PointSaysNothing, ConcatNone

\* Saying: what is converted says what is given, so far.
SaysSoFar(acc, s, n) == Voiced(acc.out) /\ Flow(acc.out) = Flat(BodyOfEach(s), n)

LEMMA TextSaid ==
    ASSUME NEW s, SystemTexts(s), NEW n \in Nat, n + 1 <= Len(s), NEW acc, SaysSoFar(acc, s, n)
    PROVE  SaysSoFar(AddPart(acc, s[n + 1]), s, n + 1)
<1> DEFINE p == s[n + 1]
           d == AddPart(acc, p)
<1>1. Simple(p) /\ p.type = "text" /\ n + 1 \in 1..Len(s) /\ Len(s) \in Nat
  BY SeqShape DEF SystemTexts
<1>2. AreSeqs(BodyOfEach(s)) /\ Len(BodyOfEach(s)) = Len(s) /\ BodyOfEach(s)[n + 1] = p.body
  <2>1. /\ IsSeq(BodyOfEach(s)) /\ Len(BodyOfEach(s)) = Len(s)
        /\ \A i \in 1..Len(s) : BodyOfEach(s)[i] = s[i].body
    BY SaidAre DEF SystemTexts
  <2>2. \A i \in 1..Len(BodyOfEach(s)) : IsSeq(BodyOfEach(s)[i])
    BY <2>1 DEF SystemTexts, Simple, IsBlock
  <2> QED BY <1>1, <2>1, <2>2, SeqOfSeqs
<1>3. Flat(BodyOfEach(s), n + 1) = Flat(BodyOfEach(s), n) \o p.body
  BY <1>1, <1>2, FlatStep
<1>4. PICK item : TextAdded(d, acc, item, p)
  BY <1>1, TextAdds
<1> HIDE DEF p, d
<1> DEFINE e == With(acc, item, acc.used)
<1>5. e.out = Append(acc.out, item) /\ e.used = acc.used
  BY WithIs
<1>6. Speech(item) = p.body /\ IsSeq(Speech(item))
  <2>1. IsSeq(item.body) /\ item.content = <<>> /\ item.body = p.body
    BY <1>1, <1>4 DEF TextAdded, Simple, IsBlock
  <2> QED BY <2>1, BareBody
<1>7. Voiced(e.out) /\ Flow(e.out) = Flat(BodyOfEach(s), n + 1)
  BY <1>3, <1>5, <1>6, FlowAppend DEF SaysSoFar
<1> HIDE DEF e
<1>8. CASE p.cache
  <2>1. d = With(e, CachePoint, acc.used)
    BY <1>4, <1>8 DEF TextAdded, e
  <2>2. d.out = Append(e.out, CachePoint)
    BY <2>1, WithIs
  <2>3. Voiced(d.out) /\ Flow(d.out) = Flow(e.out)
    BY <1>7, <2>2, FlowPoint
  <2> QED BY <1>7, <2>3 DEF SaysSoFar, d, p
<1>9. CASE ~p.cache
  <2>1. d = e
    BY <1>4, <1>9 DEF TextAdded, e
  <2> QED BY <1>7, <2>1 DEF SaysSoFar, d, p
<1> QED
  BY <1>8, <1>9

LEMMA SystemFlow ==
    ASSUME NEW s, SystemTexts(s)
    PROVE  Voiced(AddParts({}, s).out) /\ Flow(AddParts({}, s).out) = Bodies(s)
<1> DEFINE G(n) == Gone("parts", Started({}), s, n)
           T == {n \in Nat : n <= Len(s) => SaysSoFar(G(n), s, n)}
<1>0. IsSeq(s) /\ Len(s) \in Nat
  BY SeqShape DEF SystemTexts
<1>1. 0 \in T
  <2>1. G(0) = Started({})
    BY GoneNone
  <2>2. G(0).out = <<>>
    BY <2>1 DEF Started
  <2>3. Voiced(<<>>)
    BY EmptyIsSeq DEF Voiced
  <2>4. Flat(BodyOfEach(s), 0) = <<>>
    BY FlatNone
  <2>5. SaysSoFar(G(0), s, 0)
    BY <2>2, <2>3, <2>4, NothingSaid DEF SaysSoFar
  <2> QED BY <2>5
<1>2. ASSUME NEW n \in T
      PROVE  n + 1 \in T
  <2>1. n \in Nat /\ n + 1 \in Nat
    OBVIOUS
  <2>2. CASE n + 1 <= Len(s)
    <3>1. SaysSoFar(G(n), s, n)
      BY <1>0, <2>1, <2>2
    <3>2. G(n + 1) = Go("parts", G(n), s[n + 1])
      BY <2>1, GoneStep
    <3>3. G(n + 1) = AddPart(G(n), s[n + 1])
      BY <3>2 DEF Go
    <3> HIDE DEF G
    <3>4. SaysSoFar(AddPart(G(n), s[n + 1]), s, n + 1)
      BY <2>1, <2>2, <3>1, TextSaid
    <3> QED BY <2>1, <3>3, <3>4
  <2>3. CASE ~(n + 1 <= Len(s))
    BY <2>1, <2>3
  <2> QED BY <2>2, <2>3
<1> HIDE DEF T
<1>3. T = Nat
  <2>1. T \in SUBSET Nat
    BY DEF T
  <2> QED BY <1>1, <1>2, <2>1, Induction
<1>4. SaysSoFar(G(Len(s)), s, Len(s))
  BY <1>0, <1>3 DEF T
<1>5. AddParts({}, s) = G(Len(s))
  BY <1>0, PartsGo
<1> HIDE DEF G
<1>6. Flat(BodyOfEach(s), Len(s)) = Bodies(s)
  <2>1. Bodies(s) = FlattenSeq(BodyOfEach(s)) /\ IsSeq(BodyOfEach(s)) /\ Len(BodyOfEach(s)) = Len(s)
    BY <1>0, SaidAre
  <2> QED BY <2>1, FlatAll
<1> QED
  BY <1>4, <1>5, <1>6 DEF SaysSoFar

-----------------------------------------------------------------------------
\* What sequences of blocks say one after another.
Flows(ss) == [i \in DOMAIN ss |-> Flow(ss[i])]

LEMMA FlowsAre ==
    ASSUME NEW ss, AreSeqs(ss), \A i \in 1..Len(ss) : Voiced(ss[i])
    PROVE  /\ AreSeqs(Flows(ss)) /\ Len(Flows(ss)) = Len(ss)
           /\ \A i \in 1..Len(ss) : Flows(ss)[i] = Flow(ss[i])
<1> DEFINE f == Flows(ss)
<1>1. IsSeq(ss) /\ DOMAIN ss = 1..Len(ss)
  BY SeqShape DEF AreSeqs
<1>2. f = [i \in DOMAIN ss |-> f[i]] /\ \A i \in 1..Len(ss) : f[i] = Flow(ss[i])
  BY <1>1 DEF Flows
<1> HIDE DEF f
<1>3. IsSeq(f) /\ Len(f) = Len(ss)
  BY <1>1, <1>2, MapSeq
<1>4. \A i \in 1..Len(f) : IsSeq(f[i])
  BY <1>2, <1>3, FlowSeq
<1>5. AreSeqs(f)
  BY <1>3, <1>4, SeqOfSeqs
<1> QED
  BY <1>2, <1>3, <1>5 DEF f

LEMMA FlowFlatten ==
    ASSUME NEW ss, AreSeqs(ss), \A i \in 1..Len(ss) : Voiced(ss[i])
    PROVE  Voiced(FlattenSeq(ss)) /\ Flow(FlattenSeq(ss)) = FlattenSeq(Flows(ss))
<1> DEFINE P(n) == Voiced(Flat(ss, n)) /\ Flow(Flat(ss, n)) = Flat(Flows(ss), n)
           T == {n \in Nat : n <= Len(ss) => P(n)}
<1>0. /\ IsSeq(ss) /\ Len(ss) \in Nat
      /\ AreSeqs(Flows(ss)) /\ Len(Flows(ss)) = Len(ss) /\ IsSeq(Flows(ss))
      /\ \A i \in 1..Len(ss) : Flows(ss)[i] = Flow(ss[i])
  BY SeqShape, FlowsAre DEF AreSeqs
<1>1. 0 \in T
  <2>1. Flat(ss, 0) = <<>> /\ Flat(Flows(ss), 0) = <<>>
    BY FlatNone
  <2>2. Voiced(<<>>)
    BY EmptyIsSeq DEF Voiced
  <2> QED BY <2>1, <2>2, NothingSaid
<1>2. ASSUME NEW n \in T
      PROVE  n + 1 \in T
  <2>1. n \in Nat /\ n + 1 \in Nat
    OBVIOUS
  <2>2. CASE n + 1 <= Len(ss)
    <3>1. P(n)
      BY <1>0, <2>1, <2>2
    <3>2. Flat(ss, n + 1) = Flat(ss, n) \o ss[n + 1]
      BY <2>1, <2>2, FlatStep
    <3>3. Flat(Flows(ss), n + 1) = Flat(Flows(ss), n) \o Flows(ss)[n + 1]
      BY <1>0, <2>1, <2>2, FlatStep
    <3>4. Voiced(ss[n + 1]) /\ Flows(ss)[n + 1] = Flow(ss[n + 1])
      BY <1>0, <2>1, <2>2
    <3>5. /\ Voiced(Flat(ss, n) \o ss[n + 1])
          /\ Flow(Flat(ss, n) \o ss[n + 1]) = Flow(Flat(ss, n)) \o Flow(ss[n + 1])
      BY <3>1, <3>4, FlowTogether
    <3>6. P(n + 1)
      BY <3>1, <3>2, <3>3, <3>4, <3>5
    <3> QED BY <2>1, <3>6
  <2>3. CASE ~(n + 1 <= Len(ss))
    BY <2>1, <2>3
  <2> QED BY <2>2, <2>3
<1> HIDE DEF T
<1>3. T = Nat
  <2>1. T \in SUBSET Nat
    BY DEF T
  <2> QED BY <1>1, <1>2, <2>1, Induction
<1>4. P(Len(ss))
  BY <1>0, <1>3 DEF T
<1>5. FlattenSeq(ss) = Flat(ss, Len(ss)) /\ FlattenSeq(Flows(ss)) = Flat(Flows(ss), Len(ss))
  BY <1>0, FlatAll
<1> QED
  BY <1>4, <1>5

-----------------------------------------------------------------------------
\* The system texts of a request, those at the top and those between its turns.
LEMMA TextsVoiced ==
    ASSUME NEW s, SystemTexts(s)
    PROVE  Voiced(s) /\ Flow(s) = Bodies(s) /\ IsSeq(s) /\ IsSeq(Bodies(s))
<1>1. IsSeq(s) /\ \A i \in 1..Len(s) : IsSeq(s[i].body) /\ s[i].content = <<>>
  BY DEF SystemTexts, Simple, IsBlock
<1>2. Voiced(s) /\ Flow(s) = Bodies(s) /\ Heard(s)
  BY <1>1, AllBare
<1> QED
  BY <1>1, <1>2, HeardBodies

LEMMA NoTexts == SystemTexts(<<>>)
  BY EmptyIsSeq DEF SystemTexts

LEMMA OneText ==
    ASSUME NEW x, Simple(x), x.type = "text"
    PROVE  SystemTexts(<<x>>) /\ Bodies(<<x>>) = x.body
<1> DEFINE s == <<x>>
<1>1. IsSeq(s) /\ Len(s) = 1 /\ s[1] = x
  BY SingleSeq
<1>2. \A i \in 1..Len(s) : s[i] = x
  BY <1>1
<1>3. SystemTexts(s)
  BY <1>1, <1>2 DEF SystemTexts
<1>4. Flow(s) = Speech(x)
  <2>1. IsSeq(x.body) /\ x.content = <<>>
    BY DEF Simple, IsBlock
  <2>2. IsSeq(Speech(x))
    BY <2>1, BareBody
  <2> QED BY <2>2, FlowOne
<1>5. Speech(x) = x.body
  BY BareBody DEF Simple, IsBlock
<1> HIDE DEF s
<1>6. Flow(s) = Bodies(s)
  BY <1>3, TextsVoiced
<1> QED
  BY <1>3, <1>4, <1>5, <1>6 DEF s

LEMMA TextsTogether ==
    ASSUME NEW s, SystemTexts(s), NEW t, SystemTexts(t)
    PROVE  SystemTexts(s \o t) /\ Bodies(s \o t) = Bodies(s) \o Bodies(t)
<1> DEFINE w == s \o t
<1>1. Joined(w, s, t) /\ Len(s) \in Nat /\ Len(t) \in Nat
  BY ConcatJoins, SeqShape DEF SystemTexts
<1>0. Voiced(w) /\ Flow(w) = Flow(s) \o Flow(t)
  BY TextsVoiced, FlowTogether
<1> HIDE DEF w
<1>2. ASSUME NEW i \in 1..Len(w)
      PROVE  Simple(w[i]) /\ w[i].type = "text"
  <2>1. CASE i <= Len(s)
    <3>1. i \in 1..Len(s) /\ w[i] = s[i]
      BY <1>1, <2>1 DEF Joined
    <3> QED BY <3>1 DEF SystemTexts
  <2>2. CASE ~(i <= Len(s))
    <3>1. i - Len(s) \in 1..Len(t) /\ Len(s) + (i - Len(s)) = i
      BY <1>1, <2>2 DEF Joined
    <3>2. w[i] = t[i - Len(s)]
      BY <1>1, <3>1 DEF Joined
    <3> QED BY <3>1, <3>2 DEF SystemTexts
  <2> QED BY <2>1, <2>2
<1>3. SystemTexts(w)
  BY <1>1, <1>2 DEF SystemTexts, Joined
<1>4. Flow(w) = Bodies(w) /\ Flow(s) = Bodies(s) /\ Flow(t) = Bodies(t)
  BY <1>3, TextsVoiced
<1> QED
  BY <1>0, <1>3, <1>4 DEF w

LEMMA TextsFlatten ==
    ASSUME NEW ss, IsSeq(ss), \A i \in 1..Len(ss) : SystemTexts(ss[i])
    PROVE  SystemTexts(FlattenSeq(ss)) /\ AreSeqs(ss) /\ \A i \in 1..Len(ss) : Voiced(ss[i])
<1>1. \A i \in 1..Len(ss) : IsSeq(ss[i]) /\ Voiced(ss[i])
  BY TextsVoiced
<1>2. AreSeqs(ss)
  BY <1>1, SeqOfSeqs
<1> DEFINE w == FlattenSeq(ss)
<1>3. IsSeq(w) /\ Placed(w, ss, Len(ss))
  BY <1>2, FlattenPlaces
<1> HIDE DEF w
<1>4. ASSUME NEW k \in 1..Len(w)
      PROVE  Simple(w[k]) /\ w[k].type = "text"
  <2>1. Place(w, ss, Len(ss), k)
    BY <1>3 DEF Placed
  <2>2. PICK i \in 1..Len(ss) : \E j \in 1..Len(ss[i]) : w[k] = ss[i][j]
    BY <2>1 DEF Place
  <2> QED BY <2>2 DEF SystemTexts
<1>5. SystemTexts(w)
  BY <1>3, <1>4 DEF SystemTexts
<1> QED
  BY <1>1, <1>2, <1>5 DEF w

LEMMA InlineSaid ==
    ASSUME NEW m, SystemTexts(m.content)
    PROVE  SystemTexts(InlineSystem(m)) /\ Bodies(InlineSystem(m)) = Bodies(m.content)
<1> DEFINE c == m.content
           I == {i \in DOMAIN c : c[i].type \in {"text"}}
           x == [Block EXCEPT !.body = Bodies(c), !.cache = Marked(c)]
<1>1. IsSeq(c) /\ DOMAIN c = 1..Len(c) /\ \A i \in 1..Len(c) : c[i].type = "text"
  BY SeqShape DEF SystemTexts
<1>2. OfType(c, {"text"}) = c
  <2>1. 1..Len(c) \subseteq I
    BY <1>1
  <2>2. OfType(c, {"text"}) = Kept(c, I)
    BY DEF OfType
  <2> HIDE DEF I
  <2> QED BY <1>1, <2>1, <2>2, KeptWhole
<1>3. InlineSystem(m) = IF Bodies(c) = <<>> THEN <<>> ELSE <<x>>
  BY <1>2 DEF InlineSystem
<1>4. Simple(x) /\ x.type = "text" /\ x.body = Bodies(c)
  <2>1. Keeps(x, Block, {"body", "cache"}) /\ x.body = Bodies(c) /\ x.cache = Marked(c)
    BY BlockFields DEF Keeps, Block
  <2>2. Marked(c) \in BOOLEAN
    BY DEF Marked
  <2>3. IsSeq(Bodies(c))
    BY TextsVoiced
  <2> HIDE DEF x
  <2>4. /\ x = [f \in DOMAIN Block |-> x[f]] /\ x.type = Block.type /\ x.content = Block.content
        /\ x.cites = Block.cites /\ x.title = Block.title
    BY <2>1, BlockFields DEF Keeps
  <2> QED BY <2>1, <2>2, <2>3, <2>4, BlockIsSimple DEF Simple, IsBlock
<1> HIDE DEF x
<1>5. CASE Bodies(c) = <<>>
  BY <1>3, <1>5, NoTexts, NothingSaid
<1>6. CASE Bodies(c) # <<>>
  BY <1>3, <1>4, <1>6, OneText
<1> QED
  BY <1>5, <1>6

-----------------------------------------------------------------------------
\* What a request tells besides its turns, and what the adapter makes of it.
Aside(m) == IF m.role = "system" THEN m.content ELSE <<>>
Inline(m) == IF m.role = "system" THEN InlineSystem(m) ELSE <<>>
Tellings(s) == [i \in DOMAIN s |-> Aside(s[i])]
Inlines(s) == [i \in DOMAIN s |-> Inline(s[i])]

LEMMA TellingsAre ==
    ASSUME NEW s, IsSeq(s)
    PROVE  /\ IsSeq(Tellings(s)) /\ Len(Tellings(s)) = Len(s)
           /\ \A i \in 1..Len(s) : Tellings(s)[i] = Aside(s[i])
           /\ IsSeq(Inlines(s)) /\ Len(Inlines(s)) = Len(s)
           /\ \A i \in 1..Len(s) : Inlines(s)[i] = Inline(s[i])
<1>1. DOMAIN s = 1..Len(s)
  BY SeqShape
<1> DEFINE a == Tellings(s)
           b == Inlines(s)
<1>2. /\ a = [i \in DOMAIN s |-> a[i]] /\ \A i \in 1..Len(s) : a[i] = Aside(s[i])
      /\ b = [i \in DOMAIN s |-> b[i]] /\ \A i \in 1..Len(s) : b[i] = Inline(s[i])
  BY <1>1 DEF Tellings, Inlines
<1> HIDE DEF a, b
<1>3. IsSeq(a) /\ Len(a) = Len(s) /\ IsSeq(b) /\ Len(b) = Len(s)
  BY <1>2, MapSeq
<1> QED
  BY <1>2, <1>3 DEF a, b

LEMMA AsideTexts ==
    ASSUME NEW m, Message(m)
    PROVE  SystemTexts(Aside(m)) /\ SystemTexts(Inline(m)) /\ Bodies(Aside(m)) = Bodies(Inline(m))
<1>1. CASE m.role = "system"
  BY <1>1, InlineSaid DEF Message, Aside, Inline
<1>2. CASE m.role # "system"
  BY <1>2, NoTexts DEF Aside, Inline
<1> QED
  BY <1>1, <1>2

LEMMA SystemTold ==
    ASSUME NEW r, Request(r)
    PROVE  /\ SystemTexts(FlattenSystem(r))
           /\ Bodies(FlattenSystem(r)) = Flow(r.system \o FlattenSeq(Tellings(r.messages)))
<1> DEFINE s == r.messages
           a == Tellings(s)
           b == Inlines(s)
<1>1. Messages(s) /\ IsSeq(s) /\ SystemTexts(r.system)
  BY DEF Request, Messages
<1>2. FlattenSystem(r) = r.system \o FlattenSeq(b)
  BY DEF FlattenSystem, InlineTexts, Inlines, Inline
<1> HIDE DEF s
<1>3. /\ IsSeq(a) /\ Len(a) = Len(s) /\ \A i \in 1..Len(s) : a[i] = Aside(s[i])
      /\ IsSeq(b) /\ Len(b) = Len(s) /\ \A i \in 1..Len(s) : b[i] = Inline(s[i])
  BY <1>1, TellingsAre
<1> HIDE DEF a, b
<1>4. \A i \in 1..Len(s) : SystemTexts(a[i]) /\ SystemTexts(b[i]) /\ Bodies(a[i]) = Bodies(b[i])
  BY <1>1, <1>3, AsideTexts DEF Messages
<1>5. /\ SystemTexts(FlattenSeq(a)) /\ AreSeqs(a) /\ \A i \in 1..Len(a) : Voiced(a[i])
      /\ SystemTexts(FlattenSeq(b)) /\ AreSeqs(b) /\ \A i \in 1..Len(b) : Voiced(b[i])
  BY <1>3, <1>4, TextsFlatten
<1>6. /\ Flow(FlattenSeq(a)) = FlattenSeq(Flows(a)) /\ Flow(FlattenSeq(b)) = FlattenSeq(Flows(b))
  BY <1>5, FlowFlatten
<1>7. FlattenSeq(Flows(a)) = FlattenSeq(Flows(b))
  <2>1. /\ IsSeq(Flows(a)) /\ Len(Flows(a)) = Len(a) /\ \A i \in 1..Len(a) : Flows(a)[i] = Flow(a[i])
        /\ IsSeq(Flows(b)) /\ Len(Flows(b)) = Len(b) /\ \A i \in 1..Len(b) : Flows(b)[i] = Flow(b[i])
    BY <1>5, FlowsAre DEF AreSeqs
  <2>2. \A i \in 1..Len(s) : Flow(a[i]) = Flow(b[i])
    BY <1>4, TextsVoiced
  <2> QED BY <1>3, <2>1, <2>2, FlattenSame
<1>8. /\ SystemTexts(r.system \o FlattenSeq(b))
      /\ Bodies(r.system \o FlattenSeq(b)) = Bodies(r.system) \o Bodies(FlattenSeq(b))
      /\ SystemTexts(r.system \o FlattenSeq(a))
      /\ Bodies(r.system \o FlattenSeq(a)) = Bodies(r.system) \o Bodies(FlattenSeq(a))
  BY <1>1, <1>5, TextsTogether
<1>9. Bodies(FlattenSeq(a)) = Bodies(FlattenSeq(b))
  BY <1>5, <1>6, <1>7, TextsVoiced
<1>10. Flow(r.system \o FlattenSeq(a)) = Bodies(r.system \o FlattenSeq(a))
  BY <1>8, TextsVoiced
<1> QED
  BY <1>2, <1>8, <1>9, <1>10 DEF a, s

-----------------------------------------------------------------------------
\* A sequence that goes on where another one ends.
Continues(s, t) == \E u : IsSeq(u) /\ t = s \o u

LEMMA SubSeqPre ==
    ASSUME NEW s, IsSeq(s), NEW n \in 0..Len(s)
    PROVE  SubSeq(s, 1, n) = Pre(s, n)
<1> DEFINE S == {s[i] : i \in DOMAIN s}
           w == SubSeq(s, 1, n)
<1>1. s \in Seq(S) /\ Len(s) \in Nat
  BY SeqTyped, SeqShape
<1>2. 1 \in 1..(Len(s) + 1) /\ n \in (1 - 1)..Len(s) /\ n \in Nat
  BY <1>1
<1> HIDE DEF S
<1>3. w \in Seq(S) /\ Len(w) = n - 1 + 1 /\ \A i \in 1..(n - 1 + 1) : w[i] = s[1 + i - 1]
  BY <1>1, <1>2, SubSeqProperties
<1> HIDE DEF w
<1>4. IsSeq(w) /\ Len(w) = n /\ \A i \in 1..n : w[i] = s[i]
  BY <1>2, <1>3, SeqUntyped
<1>5. IsSeq(Pre(s, n)) /\ Len(Pre(s, n)) = n /\ \A i \in 1..n : Pre(s, n)[i] = s[i]
  BY <1>2, PreSeq
<1>6. w = Pre(s, n)
  BY <1>4, <1>5, SeqSame
<1> QED
  BY <1>6 DEF w

LEMMA PreAgree ==
    ASSUME NEW s, NEW t, NEW n \in Nat, \A i \in 1..n : s[i] = t[i]
    PROVE  Pre(s, n) = Pre(t, n)
  BY DEF Pre

LEMMA ContinuesPrefix ==
    ASSUME NEW s, IsSeq(s), NEW t, Continues(s, t)
    PROVE  IsPrefix(s, t) /\ IsSeq(t) /\ Len(s) <= Len(t) /\ \A i \in 1..Len(s) : s[i] = t[i]
<1>1. PICK u : IsSeq(u) /\ t = s \o u
  BY DEF Continues
<1>2. Joined(t, s, u) /\ Len(s) \in Nat /\ Len(u) \in Nat
  BY <1>1, ConcatJoins, SeqShape
<1>3. IsSeq(t) /\ Len(s) <= Len(t) /\ (\A i \in 1..Len(s) : s[i] = t[i]) /\ Len(t) \in Nat
  BY <1>2 DEF Joined
<1>4. SubSeq(s, 1, Len(s)) = Pre(s, Len(s)) /\ SubSeq(t, 1, Len(s)) = Pre(t, Len(s))
  BY <1>2, <1>3, SubSeqPre
<1>5. Pre(s, Len(s)) = Pre(t, Len(s))
  BY <1>2, <1>3, PreAgree
<1> QED
  BY <1>3, <1>4, <1>5 DEF IsPrefix

LEMMA ContinuesNone ==
    ASSUME NEW t, IsSeq(t)
    PROVE  Continues(<<>>, t) /\ Continues(t, t)
<1>1. t = <<>> \o t /\ t = t \o <<>>
  BY ConcatNone
<1> QED
  BY <1>1, EmptyIsSeq DEF Continues

LEMMA ContinuesMore ==
    ASSUME NEW s, IsSeq(s), NEW t, Continues(s, t), NEW v, Continues(t, v)
    PROVE  Continues(s, v)
<1>1. PICK u : IsSeq(u) /\ t = s \o u
  BY DEF Continues
<1>2. PICK w : IsSeq(w) /\ v = t \o w
  BY DEF Continues
<1>3. v = s \o (u \o w)
  BY <1>1, <1>2, ConcatAssoc DEF Associate
<1>4. IsSeq(u \o w)
  BY <1>1, <1>2, ConcatJoins DEF Joined
<1> QED
  BY <1>3, <1>4 DEF Continues

LEMMA ContinuesAppend ==
    ASSUME NEW s, IsSeq(s), NEW t, Continues(s, t), NEW x
    PROVE  Continues(s, Append(t, x))
<1>1. IsSeq(t)
  BY ContinuesPrefix
<1>2. Append(t, x) = t \o <<x>> /\ IsSeq(<<x>>)
  BY <1>1, AppendIsJoin, SingleSeq
<1>3. Continues(t, Append(t, x))
  BY <1>2 DEF Continues
<1> QED
  BY <1>3, ContinuesMore

-----------------------------------------------------------------------------
\* What was made of the turns stays in front of what is made of those that follow.
Wire(m) == [m EXCEPT !.content = [j \in DOMAIN @ |-> PartOf(@[j])]]
Wired(s) == [i \in DOMAIN s |-> Wire(s[i])]

LEMMA WiredTogether ==
    ASSUME NEW s, IsSeq(s), NEW t, IsSeq(t)
    PROVE  Wired(s \o t) = Wired(s) \o Wired(t) /\ IsSeq(Wired(s)) /\ IsSeq(Wired(t))
<1> DEFINE w == s \o t
           a == Wired(s)
           b == Wired(t)
           c == Wired(w)
<1>1. Joined(w, s, t) /\ IsSeq(w)
  BY ConcatJoins DEF Joined
<1> HIDE DEF w
<1>2. /\ a = [i \in DOMAIN s |-> a[i]] /\ \A i \in DOMAIN s : a[i] = Wire(s[i])
      /\ b = [i \in DOMAIN t |-> b[i]] /\ \A i \in DOMAIN t : b[i] = Wire(t[i])
      /\ c = [i \in DOMAIN w |-> c[i]] /\ \A i \in DOMAIN w : c[i] = Wire(w[i])
  BY DEF Wired
<1> HIDE DEF a, b, c
<1>3. /\ IsSeq(a) /\ Len(a) = Len(s) /\ IsSeq(b) /\ Len(b) = Len(t)
      /\ IsSeq(c) /\ Len(c) = Len(w)
  BY <1>1, <1>2, MapSeq
<1>4. /\ Len(s) \in Nat /\ Len(t) \in Nat /\ DOMAIN s = 1..Len(s) /\ DOMAIN t = 1..Len(t)
      /\ DOMAIN w = 1..(Len(s) + Len(t)) /\ DOMAIN c = 1..Len(w)
  BY <1>1, <1>3, SeqShape DEF Joined
<1>5. \A i \in 1..Len(s) : c[i] = a[i]
  <2> SUFFICES ASSUME NEW i \in 1..Len(s)
               PROVE  c[i] = a[i]
    OBVIOUS
  <2>1. i \in DOMAIN w /\ w[i] = s[i]
    BY <1>1, <1>4 DEF Joined
  <2> QED BY <1>2, <1>4, <2>1
<1>6. \A i \in 1..Len(t) : c[Len(s) + i] = b[i]
  <2> SUFFICES ASSUME NEW i \in 1..Len(t)
               PROVE  c[Len(s) + i] = b[i]
    OBVIOUS
  <2>1. Len(s) + i \in DOMAIN w /\ w[Len(s) + i] = t[i]
    BY <1>1, <1>4 DEF Joined
  <2> QED BY <1>2, <1>4, <2>1
<1>7. Joined(c, a, b)
  BY <1>1, <1>3, <1>4, <1>5, <1>6 DEF Joined
<1>8. c = a \o b
  BY <1>3, <1>7, JoinedUnique
<1> QED
  BY <1>3, <1>8 DEF w, a, b, c

LEMMA OfTurnsTogether ==
    ASSUME NEW s, IsSeq(s), NEW t, IsSeq(t)
    PROVE  OfTurns(s \o t) = OfTurns(s) \o OfTurns(t)
<1> DEFINE w == s \o t
           a == OfTurns(s)
           b == OfTurns(t)
           c == OfTurns(w)
<1>1. Joined(w, s, t) /\ IsSeq(w)
  BY ConcatJoins DEF Joined
<1> HIDE DEF w
<1>2. /\ a = [i \in DOMAIN s |-> a[i]] /\ \A i \in DOMAIN s : a[i] = TurnMessages(s[i])
      /\ b = [i \in DOMAIN t |-> b[i]] /\ \A i \in DOMAIN t : b[i] = TurnMessages(t[i])
      /\ c = [i \in DOMAIN w |-> c[i]] /\ \A i \in DOMAIN w : c[i] = TurnMessages(w[i])
  BY DEF OfTurns
<1> HIDE DEF a, b, c
<1>3. /\ IsSeq(a) /\ Len(a) = Len(s) /\ IsSeq(b) /\ Len(b) = Len(t)
      /\ IsSeq(c) /\ Len(c) = Len(w)
  BY <1>1, <1>2, MapSeq
<1>4. /\ Len(s) \in Nat /\ Len(t) \in Nat /\ DOMAIN s = 1..Len(s) /\ DOMAIN t = 1..Len(t)
      /\ DOMAIN w = 1..(Len(s) + Len(t)) /\ DOMAIN c = 1..Len(w)
  BY <1>1, <1>3, SeqShape DEF Joined
<1>5. \A i \in 1..Len(s) : c[i] = a[i]
  <2> SUFFICES ASSUME NEW i \in 1..Len(s)
               PROVE  c[i] = a[i]
    OBVIOUS
  <2>1. i \in DOMAIN w /\ w[i] = s[i]
    BY <1>1, <1>4 DEF Joined
  <2> QED BY <1>2, <1>4, <2>1
<1>6. \A i \in 1..Len(t) : c[Len(s) + i] = b[i]
  <2> SUFFICES ASSUME NEW i \in 1..Len(t)
               PROVE  c[Len(s) + i] = b[i]
    OBVIOUS
  <2>1. Len(s) + i \in DOMAIN w /\ w[Len(s) + i] = t[i]
    BY <1>1, <1>4 DEF Joined
  <2> QED BY <1>2, <1>4, <2>1
<1>7. Joined(c, a, b)
  BY <1>1, <1>3, <1>4, <1>5, <1>6 DEF Joined
<1>8. c = a \o b
  BY <1>3, <1>7, JoinedUnique
<1> QED
  BY <1>8 DEF w, a, b, c

\* Converse's messages, made one after another with the names so far.
LEMMA MessagesGrow ==
    ASSUME NEW s, IsSeq(s), NEW t, Continues(s, t)
    PROVE  IsSeq(AddMessages(s).out) /\ Continues(AddMessages(s).out, AddMessages(t).out)
<1> DEFINE G(n) == Gone("messages", Started({}), t, n)
           first == G(Len(s)).out
           P(n) == IsSeq(G(n).out) /\ (Len(s) <= n => IsSeq(first) /\ Continues(first, G(n).out))
           T == {n \in Nat : P(n)}
<1>0. /\ IsSeq(t) /\ Len(s) <= Len(t) /\ Len(s) \in Nat /\ Len(t) \in Nat
      /\ \A i \in 1..Len(s) : s[i] = t[i]
  BY ContinuesPrefix, SeqShape
<1>1. G(0).out = <<>>
  BY GoneNone DEF Started
<1>2. ASSUME NEW n \in Nat
      PROVE  \E x : G(n + 1).out = Append(G(n).out, x)
  <2>1. G(n + 1) = Go("messages", G(n), t[n + 1])
    BY GoneStep
  <2>2. G(n + 1) = AddMessage(G(n), t[n + 1])
    BY <2>1 DEF Go
  <2> DEFINE x == [role |-> t[n + 1].role, content |-> AddParts(G(n).used, t[n + 1].content).out]
  <2>3. G(n + 1) = With(G(n), x, AddParts(G(n).used, t[n + 1].content).used)
    BY <2>2 DEF AddMessage
  <2>4. G(n + 1).out = Append(G(n).out, x)
    BY <2>3, WithIs
  <2> QED BY <2>4
<1>5. AddMessages(t) = G(Len(t))
  BY <1>0, MessagesGo
<1>6. AddMessages(s) = G(Len(s))
  BY <1>0, MessagesGo, GoneAgree
<1>7. first = G(Len(s)).out
  OBVIOUS
<1> HIDE DEF G, first
<1>8. P(0)
  <2>1. IsSeq(G(0).out) /\ Continues(G(0).out, G(0).out)
    BY <1>1, EmptyIsSeq, ContinuesNone
  <2>2. Len(s) <= 0 => first = G(0).out
    BY <1>0, <1>7
  <2> QED BY <2>1, <2>2
<1>9. ASSUME NEW n \in Nat, P(n)
      PROVE  P(n + 1)
  <2>1. PICK x : G(n + 1).out = Append(G(n).out, x)
    BY <1>2
  <2>2. IsSeq(G(n + 1).out)
    <3>1. IsSeq(G(n).out)
      BY <1>9
    <3>2. Extended(Append(G(n).out, x), G(n).out, x)
      BY <3>1, AppendExtends
    <3> QED BY <2>1, <3>2 DEF Extended
  <2>3. CASE Len(s) <= n
    <3>1. Continues(first, G(n).out) /\ IsSeq(first)
      BY <1>9, <2>3
    <3>2. Continues(first, G(n + 1).out)
      BY <2>1, <3>1, ContinuesAppend
    <3> QED BY <2>2, <3>1, <3>2
  <2>4. CASE ~(Len(s) <= n)
    <3>1. Len(s) <= n + 1 => first = G(n + 1).out
      BY <1>0, <1>7, <2>4
    <3>2. Continues(G(n + 1).out, G(n + 1).out)
      BY <2>2, ContinuesNone
    <3> QED BY <2>2, <3>1, <3>2
  <2> QED BY <2>3, <2>4
<1> HIDE DEF P
<1>10. T = Nat
  <2>1. T \in SUBSET Nat
    OBVIOUS
  <2>2. 0 \in T /\ \A n \in T : n + 1 \in T
    BY <1>8, <1>9
  <2> HIDE DEF T
  <2> QED BY <2>1, <2>2, Induction
<1>11. P(Len(t))
  BY <1>0, <1>10
<1>12. IsSeq(first) /\ Continues(first, G(Len(t)).out)
  BY <1>0, <1>11 DEF P
<1> QED
  BY <1>5, <1>6, <1>7, <1>12

\* The system part, text after text: the breakpoints go with it.
LEMMA PartsGrow ==
    ASSUME NEW s, IsSeq(s), NEW t, SystemTexts(t), Continues(s, t)
    PROVE  IsSeq(AddParts({}, s).out) /\ Continues(AddParts({}, s).out, AddParts({}, t).out)
<1> DEFINE G(n) == Gone("parts", Started({}), t, n)
           first == G(Len(s)).out
           P(n) == n <= Len(t) =>
                       IsSeq(G(n).out) /\ (Len(s) <= n => IsSeq(first) /\ Continues(first, G(n).out))
           T == {n \in Nat : P(n)}
<1>0. /\ IsSeq(t) /\ Len(s) <= Len(t) /\ Len(s) \in Nat /\ Len(t) \in Nat
      /\ \A i \in 1..Len(s) : s[i] = t[i]
  BY ContinuesPrefix, SeqShape
<1>1. G(0).out = <<>>
  BY GoneNone DEF Started
<1>2. ASSUME NEW n \in Nat
      PROVE  G(n + 1) = AddPart(G(n), t[n + 1])
  <2>1. G(n + 1) = Go("parts", G(n), t[n + 1])
    BY GoneStep
  <2> QED BY <2>1 DEF Go
<1>3. AddParts({}, t) = G(Len(t))
  BY <1>0, PartsGo
<1>4. AddParts({}, s) = G(Len(s))
  BY <1>0, PartsGo, GoneAgree
<1>5. first = G(Len(s)).out
  OBVIOUS
<1> HIDE DEF G, first
<1>6. P(0)
  <2>1. IsSeq(G(0).out) /\ Continues(G(0).out, G(0).out)
    BY <1>1, EmptyIsSeq, ContinuesNone
  <2>2. Len(s) <= 0 => first = G(0).out
    BY <1>0, <1>5
  <2> QED BY <2>1, <2>2
<1>7. ASSUME NEW n \in Nat, P(n)
      PROVE  P(n + 1)
  <2> SUFFICES ASSUME n + 1 <= Len(t)
               PROVE  IsSeq(G(n + 1).out) /\
                      (Len(s) <= n + 1 => IsSeq(first) /\ Continues(first, G(n + 1).out))
    OBVIOUS
  <2>1. IsSeq(G(n).out) /\ (Len(s) <= n => IsSeq(first) /\ Continues(first, G(n).out))
    BY <1>0, <1>7
  <2>2. Simple(t[n + 1]) /\ t[n + 1].type = "text"
    <3>1. n + 1 \in 1..Len(t)
      BY <1>0
    <3> QED BY <3>1 DEF SystemTexts
  <2>3. PICK item : TextAdded(AddPart(G(n), t[n + 1]), G(n), item, t[n + 1])
    BY <2>2, TextAdds
  <2> DEFINE e == With(G(n), item, G(n).used)
             d == With(e, CachePoint, G(n).used)
             o == Append(G(n).out, item)
  <2>4. e.out = o /\ d.out = Append(o, CachePoint)
    <3>1. e.out = o
      BY WithIs
    <3> HIDE DEF e
    <3>2. d.out = Append(e.out, CachePoint)
      BY WithIs
    <3> QED BY <3>1, <3>2
  <2>5. G(n + 1) = d \/ G(n + 1) = e
    BY <1>2, <2>3 DEF TextAdded
  <2> HIDE DEF e, d
  <2>6. G(n + 1).out = o \/ G(n + 1).out = Append(o, CachePoint)
    BY <2>4, <2>5
  <2>7. IsSeq(o)
    BY <2>1, AppendExtends DEF Extended
  <2>8. IsSeq(Append(o, CachePoint))
    <3> HIDE DEF o
    <3> QED BY <2>7, AppendExtends DEF Extended
  <2>9. IsSeq(G(n + 1).out)
    BY <2>6, <2>7, <2>8
  <2>10. CASE Len(s) <= n
    <3>1. IsSeq(first) /\ Continues(first, o)
      BY <2>1, <2>10, ContinuesAppend
    <3>2. Continues(first, Append(o, CachePoint))
      <4> HIDE DEF o
      <4> QED BY <3>1, ContinuesAppend
    <3> QED BY <2>6, <2>9, <3>1, <3>2
  <2>11. CASE ~(Len(s) <= n)
    <3>1. Len(s) <= n + 1 => first = G(n + 1).out
      BY <1>0, <1>5, <2>11
    <3>2. Continues(G(n + 1).out, G(n + 1).out)
      BY <2>9, ContinuesNone
    <3> QED BY <2>9, <3>1, <3>2
  <2> QED BY <2>10, <2>11
<1> HIDE DEF P
<1>8. T = Nat
  <2>1. T \in SUBSET Nat
    OBVIOUS
  <2>2. 0 \in T /\ \A n \in T : n + 1 \in T
    BY <1>6, <1>7
  <2> HIDE DEF T
  <2> QED BY <2>1, <2>2, Induction
<1>9. P(Len(t))
  BY <1>0, <1>8
<1>10. IsSeq(first) /\ Continues(first, G(Len(t)).out)
  BY <1>0, <1>9 DEF P
<1> QED
  BY <1>3, <1>4, <1>5, <1>10

-----------------------------------------------------------------------------
\* What a provider is sent for an internal request.
Sent(p, q) == IF p = "bedrock" THEN ToBedrock(q) ELSE ToLangChain(q)

\* What is sent in front of the messages is made of the system texts, and of nothing else.
SystemPart(p, texts) ==
    IF p = "bedrock" THEN AddParts({}, texts).out
    ELSE IF texts = <<>> THEN <<>> ELSE <<TextItem(Bodies(texts))>>

LEMMA SystemOf ==
    ASSUME NEW r, NEW p
    PROVE  Sent(p, ToInternal(r)).system = SystemPart(p, FlattenSystem(r))
<1>1. ToInternal(r).system = FlattenSystem(r)
  BY DEF ToInternal
<1> QED
  BY <1>1 DEF Sent, ToBedrock, ToLangChain, SystemPart

\* Whatever the provider, the system texts arrive in one piece and in order.
LEMMA SystemSent ==
    ASSUME NEW r, Request(r), NEW p
    PROVE  /\ Voiced(Sent(p, ToInternal(r)).system)
           /\ Flow(Sent(p, ToInternal(r)).system) = Bodies(FlattenSystem(r))
<1> DEFINE s == FlattenSystem(r)
           q == ToInternal(r)
<1>1. q.system = s
  BY DEF ToInternal
<1>2. SystemTexts(s)
  BY SystemTold
<1> HIDE DEF s, q
<1>3. CASE p = "bedrock"
  <2>1. Sent(p, q).system = AddParts({}, s).out
    BY <1>1, <1>3 DEF Sent, ToBedrock
  <2> QED BY <1>2, <2>1, SystemFlow DEF s, q
<1>4. CASE p # "bedrock"
  <2> DEFINE x == TextItem(Bodies(s))
  <2>1. Sent(p, q).system = IF s = <<>> THEN <<>> ELSE <<x>>
    BY <1>1, <1>4 DEF Sent, ToLangChain
  <2>2. CASE s = <<>>
    <3>1. Voiced(<<>>)
      BY EmptyIsSeq DEF Voiced
    <3> QED BY <2>1, <2>2, <3>1, NothingSaid DEF s, q
  <2>3. CASE s # <<>>
    <3>1. x.body = Bodies(s) /\ x.content = <<>>
      BY DEF TextItem, Block
    <3>2. IsSeq(Bodies(s))
      BY <1>2, TextsVoiced
    <3> HIDE DEF x
    <3>3. IsSeq(Speech(x)) /\ Speech(x) = Bodies(s)
      BY <3>1, <3>2, BareBody
    <3>4. Voiced(<<x>>) /\ Flow(<<x>>) = Speech(x)
      BY <3>3, FlowOne
    <3>5. Sent(p, q).system = <<x>>
      BY <2>1, <2>3
    <3> QED BY <3>3, <3>4, <3>5 DEF s, q
  <2> QED BY <2>2, <2>3
<1> QED
  BY <1>3, <1>4

\* The messages of a request that goes on continue those of the one before.
LEMMA MessagesSent ==
    ASSUME NEW r, Request(r), NEW q, Request(q), Continues(Turns(r.messages), Turns(q.messages)), NEW p
    PROVE  /\ IsSeq(Sent(p, ToInternal(r)).messages)
           /\ Continues(Sent(p, ToInternal(r)).messages, Sent(p, ToInternal(q)).messages)
<1> DEFINE s == Turns(r.messages)
           t == Turns(q.messages)
           a == ToInternal(r).messages
           b == ToInternal(q).messages
<1>1. IsSeq(s) /\ IsSeq(t)
  BY TurnsAre DEF Request
<1>2. PICK u : IsSeq(u) /\ t = s \o u
  BY DEF Continues
<1>3. a = Wired(s) /\ b = Wired(t)
  BY DEF ToInternal, Wired, Wire
<1>4. InternalHolds(a, s) /\ InternalHolds(b, t)
  BY InternalIs
<1>5. Sent(p, ToInternal(r)).messages = IF p = "bedrock" THEN AddMessages(a).out ELSE FlattenSeq(OfTurns(a))
  BY DEF Sent, ToBedrock, ToLangChain, OfTurns, TurnMessages
<1>6. Sent(p, ToInternal(q)).messages = IF p = "bedrock" THEN AddMessages(b).out ELSE FlattenSeq(OfTurns(b))
  BY DEF Sent, ToBedrock, ToLangChain, OfTurns, TurnMessages
<1> HIDE DEF s, t, a, b
<1>7. /\ IsSeq(a) /\ Len(a) = Len(s) /\ \A i \in 1..Len(a) : IsSeq(a[i].content)
      /\ IsSeq(b) /\ Len(b) = Len(t) /\ \A i \in 1..Len(b) : IsSeq(b[i].content)
  BY <1>4 DEF InternalHolds
<1>8. b = a \o Wired(u) /\ IsSeq(Wired(u))
  BY <1>1, <1>2, <1>3, WiredTogether
<1> DEFINE v == Wired(u)
<1> HIDE DEF v
<1>9. b = a \o v /\ IsSeq(v)
  BY <1>8 DEF v
<1>10. CASE p = "bedrock"
  <2>1. Continues(a, b)
    BY <1>9 DEF Continues
  <2>2. IsSeq(AddMessages(a).out) /\ Continues(AddMessages(a).out, AddMessages(b).out)
    BY <1>7, <2>1, MessagesGrow
  <2> QED BY <1>5, <1>6, <1>10, <2>2
<1>11. CASE p # "bedrock"
  <2>1. OfTurns(b) = OfTurns(a) \o OfTurns(v)
    BY <1>7, <1>9, OfTurnsTogether
  <2>2. \A i \in 1..Len(v) : IsSeq(v[i].content)
    <3> SUFFICES ASSUME NEW i \in 1..Len(v)
                 PROVE  IsSeq(v[i].content)
      OBVIOUS
    <3>1. Joined(b, a, v) /\ Len(a) \in Nat /\ Len(v) \in Nat
      BY <1>7, <1>9, ConcatJoins, SeqShape
    <3>2. v[i] = b[Len(a) + i] /\ Len(a) + i \in 1..Len(b)
      BY <3>1 DEF Joined
    <3> QED BY <1>7, <3>2
  <2>3. AreSeqs(OfTurns(a)) /\ AreSeqs(OfTurns(v))
    BY <1>7, <1>9, <2>2, OfTurnsSeqs
  <2>4. FlattenSeq(OfTurns(b)) = FlattenSeq(OfTurns(a)) \o FlattenSeq(OfTurns(v))
    BY <2>1, <2>3, FlattenConcat
  <2>5. IsSeq(FlattenSeq(OfTurns(a))) /\ IsSeq(FlattenSeq(OfTurns(v)))
    BY <2>3, FlattenPlaces
  <2>6. Continues(FlattenSeq(OfTurns(a)), FlattenSeq(OfTurns(b)))
    BY <2>4, <2>5 DEF Continues
  <2> QED BY <1>5, <1>6, <1>11, <2>5, <2>6
<1> QED
  BY <1>10, <1>11

\* What one request tells is told again by those that go on from it.
GoesOn(r, q) ==
    /\ Continues(Turns(r.messages), Turns(q.messages))
    /\ \E y : SystemTexts(y) /\ FlattenSystem(q) = FlattenSystem(r) \o y

\* What is sent for r, and then for q.
SentBefore(p, a, b) ==
    /\ IsPrefix(a.messages, b.messages)
    /\ IF p = "bedrock" THEN IsPrefix(a.system, b.system)
                        ELSE IsPrefix(Flow(a.system), Flow(b.system))

LEMMA SamePrefixes ==
    ASSUME NEW r, Request(r), NEW q, Request(q), GoesOn(r, q), NEW p
    PROVE  SentBefore(p, Sent(p, ToInternal(r)), Sent(p, ToInternal(q)))
<1> DEFINE a == Sent(p, ToInternal(r))
           b == Sent(p, ToInternal(q))
           s == FlattenSystem(r)
           t == FlattenSystem(q)
<1>1. IsPrefix(a.messages, b.messages)
  <2>1. IsSeq(a.messages) /\ Continues(a.messages, b.messages)
    BY MessagesSent DEF GoesOn
  <2> HIDE DEF a, b
  <2> QED BY <2>1, ContinuesPrefix
<1>2. PICK y : SystemTexts(y) /\ t = s \o y
  BY DEF GoesOn
<1>3. SystemTexts(s) /\ SystemTexts(t)
  BY SystemTold
<1>4. a.system = SystemPart(p, s) /\ b.system = SystemPart(p, t)
  BY SystemOf
<1>5. Flow(a.system) = Bodies(s) /\ Flow(b.system) = Bodies(t)
  BY SystemSent
<1> HIDE DEF a, b, s, t
<1>6. CASE p = "bedrock"
  <2>1. IsSeq(s) /\ Continues(s, t)
    BY <1>2, <1>3 DEF Continues, SystemTexts
  <2>2. IsSeq(AddParts({}, s).out) /\ Continues(AddParts({}, s).out, AddParts({}, t).out)
    BY <1>3, <2>1, PartsGrow
  <2>3. IsPrefix(AddParts({}, s).out, AddParts({}, t).out)
    BY <2>2, ContinuesPrefix
  <2>4. IsPrefix(a.system, b.system)
    BY <1>4, <1>6, <2>3 DEF SystemPart
  <2> QED BY <1>1, <1>6, <2>4 DEF SentBefore, a, b
<1>7. CASE p # "bedrock"
  <2>1. Bodies(t) = Bodies(s) \o Bodies(y)
    BY <1>2, <1>3, TextsTogether
  <2>2. IsSeq(Bodies(s)) /\ IsSeq(Bodies(y))
    BY <1>2, <1>3, TextsVoiced
  <2>3. Continues(Bodies(s), Bodies(t))
    BY <2>1, <2>2 DEF Continues
  <2>4. IsPrefix(Flow(a.system), Flow(b.system))
    BY <1>5, <2>2, <2>3, ContinuesPrefix
  <2> QED BY <1>1, <1>7, <2>4 DEF SentBefore, a, b
<1> QED
  BY <1>6, <1>7

\* With the same system texts the whole prompt is a prefix of the next.
LEMMA SamePrompt ==
    ASSUME NEW r, Request(r), NEW q, Request(q), GoesOn(r, q), FlattenSystem(q) = FlattenSystem(r), NEW p
    PROVE  IsPrefix(Prompt(Sent(p, ToInternal(r))), Prompt(Sent(p, ToInternal(q))))
<1> DEFINE a == Sent(p, ToInternal(r))
           b == Sent(p, ToInternal(q))
<1>1. IsSeq(a.messages) /\ Continues(a.messages, b.messages)
  BY MessagesSent DEF GoesOn
<1>2. b.system = a.system
  BY SystemOf
<1>3. IsSeq(a.system)
  BY SystemSent DEF Voiced
<1> HIDE DEF a, b
<1>4. PICK u : IsSeq(u) /\ b.messages = a.messages \o u
  BY <1>1 DEF Continues
<1>5. a.system \o (a.messages \o u) = (a.system \o a.messages) \o u
  <2> DEFINE x == a.system
             y == a.messages
  <2>1. IsSeq(x) /\ IsSeq(y)
    BY <1>1, <1>3
  <2> HIDE DEF x, y
  <2>2. Associate(x, y, u)
    BY <1>4, <2>1, ConcatAssoc
  <2> QED BY <2>2 DEF Associate, x, y
<1>6. Prompt(b) = Prompt(a) \o u
  BY <1>2, <1>4, <1>5 DEF Prompt
<1>7. IsSeq(Prompt(a))
  BY <1>1, <1>3, ConcatJoins DEF Prompt, Joined
<1>8. Continues(Prompt(a), Prompt(b))
  BY <1>4, <1>6 DEF Continues
<1>9. IsPrefix(Prompt(a), Prompt(b))
  BY <1>7, <1>8, ContinuesPrefix
<1> QED
  BY <1>9 DEF a, b

LEMMA MoreInlines ==
    ASSUME NEW r, Request(r), NEW q, Request(q), q.system = r.system,
           NEW u, IsSeq(u), q.messages = r.messages \o u
    PROVE  /\ SystemTexts(FlattenSeq(Inlines(u)))
           /\ FlattenSystem(q) = FlattenSystem(r) \o FlattenSeq(Inlines(u))
<1> DEFINE s == r.messages
           w == s \o u
           a == Inlines(s)
           b == Inlines(u)
           c == Inlines(w)
<1>1. Messages(s) /\ IsSeq(s) /\ Messages(q.messages)
  BY DEF Request, Messages
<1>2. FlattenSystem(r) = r.system \o FlattenSeq(a) /\ FlattenSystem(q) = r.system \o FlattenSeq(c)
  BY DEF FlattenSystem, InlineTexts, Inlines, Inline
<1>3. Joined(w, s, u) /\ Messages(w)
  BY <1>1, ConcatJoins
<1> HIDE DEF w
<1>4. /\ IsSeq(w) /\ Len(w) = Len(s) + Len(u) /\ Len(s) \in Nat /\ Len(u) \in Nat
      /\ \A i \in 1..Len(s) : w[i] = s[i]
      /\ \A i \in 1..Len(u) : w[Len(s) + i] = u[i]
  BY <1>1, <1>3, SeqShape DEF Joined
<1>5. /\ IsSeq(a) /\ Len(a) = Len(s) /\ \A i \in 1..Len(s) : a[i] = Inline(s[i])
      /\ IsSeq(b) /\ Len(b) = Len(u) /\ \A i \in 1..Len(u) : b[i] = Inline(u[i])
      /\ IsSeq(c) /\ Len(c) = Len(w) /\ \A i \in 1..Len(w) : c[i] = Inline(w[i])
  BY <1>1, <1>4, TellingsAre
<1> HIDE DEF a, b, c, s
<1>6. \A i \in 1..Len(s) : c[i] = a[i]
  <2> SUFFICES ASSUME NEW i \in 1..Len(s)
               PROVE  c[i] = a[i]
    OBVIOUS
  <2>1. i \in 1..Len(w)
    BY <1>4
  <2> QED BY <1>4, <1>5, <2>1
<1>7. \A i \in 1..Len(u) : c[Len(s) + i] = b[i] /\ SystemTexts(b[i])
  <2> SUFFICES ASSUME NEW i \in 1..Len(u)
               PROVE  c[Len(s) + i] = b[i] /\ SystemTexts(b[i])
    OBVIOUS
  <2>1. Len(s) + i \in 1..Len(w)
    BY <1>4
  <2>2. Message(u[i])
    BY <1>3, <1>4, <2>1 DEF Messages
  <2>3. SystemTexts(Inline(u[i]))
    BY <2>2, AsideTexts
  <2> QED BY <1>4, <1>5, <2>1, <2>3
<1>8. c = a \o b
  <2>1. DOMAIN c = 1..(Len(a) + Len(b))
    BY <1>4, <1>5, SeqShape
  <2>2. Joined(c, a, b)
    BY <1>4, <1>5, <1>6, <1>7, <2>1 DEF Joined
  <2> QED BY <1>5, <2>2, JoinedUnique
<1>9. \A i \in 1..Len(a) : SystemTexts(a[i])
  <2> SUFFICES ASSUME NEW i \in 1..Len(a)
               PROVE  SystemTexts(a[i])
    OBVIOUS
  <2>1. Message(s[i]) /\ a[i] = Inline(s[i])
    BY <1>1, <1>5 DEF Messages
  <2> QED BY <2>1, AsideTexts
<1>10. /\ SystemTexts(FlattenSeq(a)) /\ AreSeqs(a) /\ SystemTexts(FlattenSeq(b)) /\ AreSeqs(b)
  BY <1>5, <1>7, <1>9, TextsFlatten
<1>11. FlattenSeq(c) = FlattenSeq(a) \o FlattenSeq(b)
  <2>1. FlattenSeq(a \o b) = FlattenSeq(a) \o FlattenSeq(b)
    BY <1>10, FlattenConcat
  <2> QED BY <1>8, <2>1
<1>12. SystemTexts(r.system)
  BY DEF Request
<1> DEFINE x == FlattenSeq(a)
           y == FlattenSeq(b)
           z == r.system
<1>13. SystemTexts(x) /\ SystemTexts(y) /\ SystemTexts(z) /\ FlattenSystem(r) = z \o x
       /\ FlattenSystem(q) = z \o (x \o y)
  BY <1>2, <1>10, <1>11, <1>12
<1> HIDE DEF x, y, z
<1>14. (z \o x) \o y = z \o (x \o y)
  BY <1>13, ConcatAssoc DEF SystemTexts, Associate
<1>15. FlattenSystem(q) = FlattenSystem(r) \o y
  BY <1>13, <1>14
<1> QED
  BY <1>13, <1>15 DEF y, b

\* A turn of the model and one of the user have no system text.
LEMMA ExchangeQuiet ==
    ASSUME NEW content, NEW results, NEW c, NEW first
    PROVE  FlattenSeq(Inlines(Exchange(content, results, c, first))) = <<>>
<1> DEFINE u == Exchange(content, results, c, first)
           b == Inlines(u)
<1>1. IsSeq(u) /\ Len(u) = 2 /\ u[1] = Turn(content) /\ u[2] = Saying(results, c, first)
  BY ExchangeIs
<1>2. u[1].role # "system" /\ u[2].role # "system"
  BY <1>1 DEF Turn, Saying, User
<1> HIDE DEF u
<1>3. IsSeq(b) /\ Len(b) = 2 /\ \A i \in 1..2 : b[i] = Inline(u[i])
  BY <1>1, TellingsAre
<1>4. b[1] = <<>> /\ b[2] = <<>>
  <2>1. 1 \in 1..2 /\ 2 \in 1..2
    OBVIOUS
  <2>2. Inline(u[1]) = <<>> /\ Inline(u[2]) = <<>>
    BY <1>2 DEF Inline
  <2>3. b[1] = Inline(u[1]) /\ b[2] = Inline(u[2])
    BY <1>3, <2>1
  <2> QED BY <2>2, <2>3
<1> HIDE DEF b
<1>5. AreSeqs(b)
  <2>1. \A i \in 1..Len(b) : IsSeq(b[i])
    BY <1>3, <1>4, EmptyIsSeq
  <2> QED BY <1>3, <2>1, SeqOfSeqs
<1>6. /\ Flat(b, 0) = <<>> /\ Flat(b, 0 + 1) = Flat(b, 0) \o b[0 + 1]
      /\ Flat(b, 1 + 1) = Flat(b, 1) \o b[1 + 1]
  <2>1. 0 + 1 <= Len(b) /\ 1 + 1 <= Len(b) /\ 0 \in Nat /\ 1 \in Nat
    BY <1>3
  <2>2. Flat(b, 0 + 1) = Flat(b, 0) \o b[0 + 1]
    BY <1>5, <2>1, FlatStep
  <2>3. Flat(b, 1 + 1) = Flat(b, 1) \o b[1 + 1]
    BY <1>5, <2>1, FlatStep
  <2> QED BY <2>2, <2>3, FlatNone
<1>7. <<>> \o <<>> = <<>>
  BY EmptyIsSeq, ConcatNone
<1>8. Flat(b, 2) = <<>>
  BY <1>4, <1>6, <1>7
<1>9. FlattenSeq(b) = <<>>
  BY <1>3, <1>5, <1>8, FlatAll
<1> QED
  BY <1>9 DEF b, u

\* A message of the system that comes with a turn is behind the last turn of the model.
Asided(messages) ==
    \E i \in DOMAIN messages :
        /\ messages[i].role = "system"
        /\ \A j \in DOMAIN messages : j > i => messages[j].role # "assistant"

LEMMA AsideSeen ==
    ASSUME NEW s, IsSeq(s), NEW aside \in Asides, aside # <<>>
    PROVE  Asided(s \o aside)
<1> DEFINE m == s \o aside
<1>1. IsSeq(aside) /\ \A i \in 1..Len(aside) : aside[i].role = "system"
  <2>1. IsSeq(aside) /\ \A i \in DOMAIN aside : aside[i].role = "system"
    BY ClientAssumption
  <2> QED BY <2>1, SeqShape
<1>2. Joined(m, s, aside) /\ IsSeq(m)
  BY <1>1, ConcatJoins DEF Joined
<1> HIDE DEF m
<1>3. /\ Len(s) \in Nat /\ Len(aside) \in Nat /\ DOMAIN m = 1..(Len(s) + Len(aside))
      /\ \A i \in 1..Len(aside) : m[Len(s) + i] = aside[i]
  BY <1>1, <1>2, SeqShape DEF Joined
<1>4. Len(aside) # 0
  BY <1>1, EmptyIsSeq, SeqSame
<1>5. Len(s) + 1 \in DOMAIN m /\ m[Len(s) + 1].role = "system"
  BY <1>1, <1>3, <1>4
<1>6. ASSUME NEW j \in DOMAIN m, j > Len(s) + 1
      PROVE  m[j].role # "assistant"
  <2> DEFINE k == j - Len(s)
  <2>1. k \in 1..Len(aside) /\ j = Len(s) + k
    BY <1>3, <1>6
  <2>2. m[j] = aside[k]
    BY <1>3, <2>1
  <2> QED BY <1>1, <2>1, <2>2
<1>7. Asided(m)
  BY <1>5, <1>6 DEF Asided
<1> QED
  BY <1>7 DEF m

-----------------------------------------------------------------------------
\* Until the next request is sent, what was sent last is of one this goes on from.
Before(r) ==
    /\ Request(r) /\ GoesOn(r, request) /\ sent = Sent(provider, ToInternal(r))
    /\ ~AsideCame => FlattenSystem(request) = FlattenSystem(r)
StableInv ==
    ConvInv /\ (phase \in {"request", "internal"} => sent = Nothing \/ \E r : Before(r))

LEMMA ContinueGoesOn ==
    ASSUME ConvInv, NEW c \in FollowUps, NEW inner \in FollowUps, NEW first \in BOOLEAN,
           NEW aside \in Asides, Continue(c, inner, first, aside)
    PROVE  /\ GoesOn(request, request')
           /\ ~AsideCame' => FlattenSystem(request') = FlattenSystem(request)
<1>1. PICK results : /\ Request(request') /\ request'.system = request.system
                     /\ request'.messages = Said(request.messages, response.content, results, c, first, aside)
  BY ContinueIs DEF NextRequest
<1> DEFINE s == request.messages
           pair == Exchange(response.content, results, c, first)
           u == pair \o aside
<1>2. IsSeq(s) /\ IsSeq(pair) /\ IsSeq(aside) /\ Request(request)
  BY ExchangeIs, ClientAssumption DEF ConvInv, Request, Messages
<1>3. request'.messages = (s \o pair) \o aside
  BY <1>1 DEF Said, Exchange
<1>4. Turns(request'.messages) = Turns(s) \o pair
  BY <1>1, <1>2, SaidTurns
<1>5. FlattenSeq(Inlines(pair)) = <<>>
  BY ExchangeQuiet
<1> HIDE DEF s, pair
<1>6. request'.messages = s \o u /\ IsSeq(u)
  <2>1. (s \o pair) \o aside = s \o (pair \o aside)
    BY <1>2, ConcatAssoc DEF Associate
  <2>2. Joined(u, pair, aside)
    BY <1>2, ConcatJoins
  <2> HIDE DEF u
  <2>3. IsSeq(u)
    BY <2>2 DEF Joined
  <2> QED BY <1>3, <2>1, <2>3 DEF u
<1>7. Continues(Turns(s), Turns(request'.messages))
  BY <1>2, <1>4 DEF Continues
<1>8. /\ SystemTexts(FlattenSeq(Inlines(u)))
      /\ FlattenSystem(request') = FlattenSystem(request) \o FlattenSeq(Inlines(u))
  <2> HIDE DEF u
  <2> QED BY <1>1, <1>2, <1>6, MoreInlines DEF s
<1>9. GoesOn(request, request')
  BY <1>7, <1>8 DEF GoesOn, s
<1>10. ASSUME ~AsideCame'
       PROVE  FlattenSystem(request') = FlattenSystem(request)
  <2>1. ~Asided(request'.messages)
    BY <1>10 DEF AsideCame, Asided
  <2>2. IsSeq(s \o pair)
    BY <1>2, ConcatJoins DEF Joined
  <2>3. aside = <<>>
    BY <1>3, <2>1, <2>2, AsideSeen
  <2>4. u = pair
    BY <1>2, <2>3, ConcatNone
  <2>5. FlattenSystem(request') = FlattenSystem(request) \o <<>>
    BY <1>5, <1>8, <2>4
  <2>6. IsSeq(FlattenSystem(request))
    BY <1>2, SystemTold DEF SystemTexts
  <2> QED BY <2>5, <2>6, ConcatNone
<1> QED
  BY <1>9, <1>10

LEMMA StableStep ==
    ASSUME StableInv, [ConvNext]_convVars
    PROVE  StableInv'
<1>1. ConvInv /\ ConvInv' /\ Request(request)
  BY ConvStep DEF StableInv, ConvInv
<1>2. CASE UNCHANGED <<request, sent, provider, phase>>
  BY <1>1, <1>2 DEF StableInv, Before, AsideCame
<1>3. CASE Adapt
  <2>1. UNCHANGED <<request, sent, provider>> /\ phase = "request"
    BY <1>3 DEF Adapt
  <2> QED BY <1>1, <2>1 DEF StableInv, Before, AsideCame
<1>4. CASE phase' \notin {"request", "internal"}
  BY <1>1, <1>4 DEF StableInv
<1>5. ASSUME NEW c \in FollowUps, NEW inner \in FollowUps, NEW first \in BOOLEAN, NEW aside \in Asides,
             Continue(c, inner, first, aside)
      PROVE  StableInv'
  <2>1. sent' = sent /\ provider' = provider /\ phase = "response"
    BY <1>5 DEF Continue
  <2>2. internal = ToInternal(request) /\ sent = Translated
    BY <1>1, <2>1 DEF ConvInv, Follows
  <2>3. sent' = Sent(provider', ToInternal(request))
    BY <2>1, <2>2 DEF Translated, Sent
  <2>4. /\ GoesOn(request, request')
        /\ ~AsideCame' => FlattenSystem(request') = FlattenSystem(request)
    BY <1>1, <1>5, ContinueGoesOn
  <2>5. \E r : Before(r)'
    BY <1>1, <2>3, <2>4 DEF Before
  <2> QED BY <1>1, <2>5 DEF StableInv
<1>6. \/ UNCHANGED <<request, sent, provider, phase>> \/ Adapt
      \/ phase' \notin {"request", "internal"}
      \/ \E c, inner \in FollowUps, first \in BOOLEAN, aside \in Asides :
            Continue(c, inner, first, aside)
  BY DEF ConvNext, Send, Answer, Parse, Respond, convVars
<1> QED
  BY <1>2, <1>3, <1>4, <1>5, <1>6

LEMMA StableSent ==
    ASSUME StableInv, [ConvNext]_convVars, sent' # sent, sent # Nothing
    PROVE  /\ ~AsideCame => IsPrefix(Prompt(sent), Prompt(sent'))
           /\ SentBefore(provider, sent, sent')
<1>1. Send /\ phase = "internal"
  BY DEF ConvNext, Adapt, Send, Answer, Parse, Respond, Continue, convVars
<1>2. Request(request) /\ internal = ToInternal(request) /\ sent' = Translated
  BY <1>1 DEF StableInv, ConvInv, Follows, Send
<1>3. sent' = Sent(provider, ToInternal(request))
  BY <1>2 DEF Translated, Sent
<1>4. PICK r : Before(r)
  BY <1>1 DEF StableInv
<1>5. Request(r) /\ GoesOn(r, request) /\ sent = Sent(provider, ToInternal(r))
      /\ (~AsideCame => FlattenSystem(request) = FlattenSystem(r))
  BY <1>4 DEF Before
<1>6. SentBefore(provider, sent, sent')
  BY <1>2, <1>3, <1>5, SamePrefixes
<1>7. ASSUME ~AsideCame
      PROVE  IsPrefix(Prompt(sent), Prompt(sent'))
  BY <1>2, <1>3, <1>5, <1>7, SamePrompt
<1> QED
  BY <1>6, <1>7

\* What was sent is sent again when the conversation goes on, to either provider.  Without
\* a new message of the system, the whole prompt, system part and messages, stands
\* in front of what is new: no turn, no name of a document and no breakpoint of it
\* changes, so every prefix the provider has cached stays valid.  With one, which goes to
\* the end of the system part, this is so of the system part and of the messages apart:
\* then only what was cached of the system part stays valid (build_converse_request,
\* to_langchain_messages).
THEOREM CachedPrefixStays == ConvSpec => PrefixStable
<1>1. ConvInit => StableInv
  BY ConvInitHolds DEF StableInv, ConvInit
<1>2. StableInv /\ [ConvNext]_convVars => StableInv'
  BY StableStep
<1>3. StableInv /\ [ConvNext]_convVars =>
          [sent' # sent /\ sent # Nothing =>
              /\ ~AsideCame => IsPrefix(Prompt(sent), Prompt(sent'))
              /\ IsPrefix(sent.messages, sent'.messages)
              /\ IF provider = "bedrock" THEN IsPrefix(sent.system, sent'.system)
                                         ELSE IsPrefix(Flow(sent.system), Flow(sent'.system))]_convVars
  BY StableSent DEF SentBefore
<1> QED
  BY <1>1, <1>2, <1>3, PTL DEF ConvSpec, PrefixStable

-----------------------------------------------------------------------------
\* What Converse is given of a part says what the part says.
TellsPart(item, p) ==
    /\ item.content = <<>> /\ item.body = p.body \o Bodies(p.content) /\ item.type # "cachePoint"

LEMMA PlainTells ==
    ASSUME NEW acc, NEW p, p.type \in PlainTypes
    PROVE  \E item, names : Plain(acc, p) = With(acc, item, names) /\ TellsPart(item, p)
<1>1. CASE p.type = "document"
  <2> DEFINE name == Take(acc.used, p.title)
  <2>1. Plain(acc, p) = With(acc, Document(p, name), acc.used \cup {name})
    BY <1>1 DEF Plain
  <2>2. TellsPart(Document(p, name), p)
    BY DocumentIs DEF TellsPart
  <2> QED BY <2>1, <2>2
<1>2. CASE p.type # "document"
  <2>1. Plain(acc, p) = With(acc, Item(p), acc.used)
    BY <1>2 DEF Plain
  <2>2. ItemType[p.type] # "cachePoint"
    BY <1>2 DEF PlainTypes, ItemType
  <2>3. TellsPart(Item(p), p)
    BY <1>2, <2>2, ItemIs DEF TellsPart
  <2> QED BY <2>1, <2>3
<1> QED
  BY <1>1, <1>2

Retold(out, s, n) == IsSeq(out) /\ Len(out) = n /\ \A i \in 1..n : TellsPart(out[i], s[i])

LEMMA RetoldMore ==
    ASSUME NEW out, NEW s, NEW n \in Nat, Retold(out, s, n), NEW item, TellsPart(item, s[n + 1])
    PROVE  Retold(Append(out, item), s, n + 1)
<1> DEFINE w == Append(out, item)
<1>1. Extended(w, out, item) /\ Len(out) = n
  BY AppendExtends DEF Retold
<1> HIDE DEF w
<1>2. IsSeq(w) /\ Len(w) = n + 1 /\ w[n + 1] = item /\ \A i \in 1..n : w[i] = out[i]
  BY <1>1 DEF Extended
<1>3. ASSUME NEW i \in 1..(n + 1)
      PROVE  TellsPart(w[i], s[i])
  <2>1. CASE i = n + 1
    BY <1>2, <2>1
  <2>2. CASE i # n + 1
    <3>1. i \in 1..n
      BY <2>2
    <3> QED BY <1>2, <3>1 DEF Retold
  <2> QED BY <2>1, <2>2
<1>4. Retold(w, s, n + 1)
  BY <1>2, <1>3 DEF Retold
<1> QED
  BY <1>4 DEF w

LEMMA InnerTells ==
    ASSUME NEW names, NEW s, IsSeq(s), \A i \in 1..Len(s) : s[i].type \in PlainTypes
    PROVE  Retold(Inner(names, s).out, s, Len(s))
<1> DEFINE G(n) == Gone("inner", Started(names), s, n)
           P(n) == n <= Len(s) => Retold(G(n).out, s, n)
           T == {n \in Nat : P(n)}
<1>0. Len(s) \in Nat
  BY SeqShape
<1>1. G(0).out = <<>>
  BY GoneNone DEF Started
<1>2. ASSUME NEW n \in Nat
      PROVE  G(n + 1) = Plain(G(n), s[n + 1])
  <2>1. G(n + 1) = Go("inner", G(n), s[n + 1])
    BY GoneStep
  <2> QED BY <2>1 DEF Go
<1>3. Inner(names, s) = G(Len(s))
  BY InnerGoes
<1> HIDE DEF G
<1>4. P(0)
  <2>1. Retold(<<>>, s, 0)
    BY EmptyIsSeq DEF Retold
  <2> QED BY <1>1, <2>1
<1>5. ASSUME NEW n \in Nat, P(n)
      PROVE  P(n + 1)
  <2> SUFFICES ASSUME n + 1 <= Len(s)
               PROVE  Retold(G(n + 1).out, s, n + 1)
    OBVIOUS
  <2>1. Retold(G(n).out, s, n) /\ s[n + 1].type \in PlainTypes
    BY <1>0, <1>5
  <2>2. PICK item, more : Plain(G(n), s[n + 1]) = With(G(n), item, more) /\ TellsPart(item, s[n + 1])
    BY <2>1, PlainTells
  <2>3. G(n + 1).out = Append(G(n).out, item)
    <3>1. G(n + 1) = With(G(n), item, more)
      BY <1>2, <2>2
    <3>2. With(G(n), item, more).out = Append(G(n).out, item)
      BY WithIs
    <3> QED BY <3>1, <3>2
  <2>4. Retold(Append(G(n).out, item), s, n + 1)
    BY <2>1, <2>2, RetoldMore
  <2> QED BY <2>3, <2>4
<1> HIDE DEF P
<1>6. T = Nat
  <2>1. T \in SUBSET Nat
    OBVIOUS
  <2>2. 0 \in T /\ \A n \in T : n + 1 \in T
    BY <1>4, <1>5
  <2> HIDE DEF T
  <2> QED BY <2>1, <2>2, Induction
<1>7. P(Len(s))
  BY <1>0, <1>6
<1> QED
  BY <1>0, <1>3, <1>7 DEF P

\* What a block says is what its body and its texts say.
LEMMA FlatSpeaks ==
    ASSUME NEW b, Flatly(b)
    PROVE  /\ Body(b) = b.body \o Bodies(b.content) /\ Speech(b) = Body(b) /\ IsSeq(Body(b))
           /\ IsSeq(b.body) /\ IsSeq(Bodies(b.content))
<1>1. IsSeq(b.body) /\ IsSeq(b.content) /\ \A i \in 1..Len(b.content) : Simple(b.content[i])
  BY FlatContent DEF IsBlock
<1>2. \A i \in 1..Len(b.content) : IsSeq(b.content[i].body) /\ b.content[i].content = <<>>
  BY <1>1 DEF Simple, IsBlock
<1>3. Chunks(b.content) = Bodies(b.content) /\ IsSeq(Bodies(b.content))
  BY <1>1, <1>2, AllBare, HeardBodies
<1>4. IsSeq(b.body \o Bodies(b.content))
  BY <1>1, <1>3, ConcatJoins DEF Joined
<1> QED
  BY <1>1, <1>3, <1>4 DEF Body, Speech

LEMMA InwardBody ==
    ASSUME NEW c, Flatly(c), NEW q, Inward(q, c)
    PROVE  q.body \o Bodies(q.content) = Body(c)
<1>1. /\ q.body = c.body /\ Len(q.content) = Len(c.content) /\ IsSeq(q.content) /\ IsSeq(c.content)
      /\ \A j \in 1..Len(c.content) : q.content[j].body = c.content[j].body
  BY FlatContent DEF Inward, IsBlock
<1>2. Bodies(q.content) = Bodies(c.content)
  BY <1>1, SameBodies
<1> QED
  BY <1>1, <1>2 DEF Body

LEMMA OutwardBody ==
    ASSUME NEW b, Flatly(b), b.type # "tool_result", NEW p, Outward(p, b)
    PROVE  p.body \o Bodies(p.content) = Body(b)
<1>1. /\ p.body = b.body /\ Len(p.content) = Len(b.content) /\ IsSeq(p.content) /\ IsSeq(b.content)
      /\ \A j \in 1..Len(b.content) : p.content[j].body = b.content[j].body
  BY FlatContent DEF Outward, IsBlock
<1>2. Bodies(p.content) = Bodies(b.content)
  BY <1>1, SameBodies
<1> QED
  BY <1>1, <1>2 DEF Body

LEMMA BareSpeech ==
    ASSUME NEW item, NEW s, IsSeq(s), item.body = s, item.content = <<>>
    PROVE  Speech(item) = s /\ Body(item) = s
  BY BareBody

\* An item of Converse for a block of the client.
ItemFor(d, acc, b) ==
    \E item, names : d = With(acc, item, names) /\ Speech(item) = Speech(b) /\ item.type # "cachePoint"

LEMMA ResultSpeaks ==
    ASSUME NEW b, Deeply(b), b.type = "tool_result", NEW p, Outward(p, b), Convertible(p),
           p.type = "tool_result", NEW acc
    PROVE  ItemFor(Converted(acc, p), acc, b) /\ IsSeq(Speech(b))
<1> DEFINE inner == Inner(acc.used, p.content)
           item == ResultItem(p, inner.out)
<1>1. Converted(acc, p) = With(acc, item, inner.used)
  BY DEF Converted, ResultItem
<1>2. IsSeq(p.content) /\ \A i \in 1..Len(p.content) : p.content[i].type \in PlainTypes
  BY DEF Convertible, InResults, PlainTypes
<1>3. Retold(inner.out, p.content, Len(p.content))
  BY <1>2, InnerTells
<1>4. /\ IsSeq(b.content) /\ Len(p.content) = Len(b.content) /\ b.body = <<>>
      /\ \A i \in 1..Len(b.content) : Flatly(b.content[i]) /\ Inward(p.content[i], b.content[i])
  BY DEF Deeply, IsBlock, Outward
<1>5. item.body = <<>> /\ item.content = inner.out /\ item.type = "toolResult"
  BY ResultItemIs
<1> DEFINE out == inner.out
           c == b.content
<1> HIDE DEF inner, item
<1>6. ASSUME NEW i \in 1..Len(c)
      PROVE  Body(out[i]) = Body(c[i]) /\ IsSeq(Body(c[i]))
  <2>1. Flatly(c[i]) /\ Inward(p.content[i], c[i])
    BY <1>4
  <2>2. out[i].content = <<>> /\ out[i].body = p.content[i].body \o Bodies(p.content[i].content)
    BY <1>3, <1>4 DEF Retold, TellsPart
  <2>3. out[i].body = Body(c[i]) /\ IsSeq(Body(c[i]))
    BY <2>1, <2>2, InwardBody, FlatSpeaks
  <2> QED BY <2>2, <2>3, BareSpeech
<1>7. IsSeq(out) /\ Len(out) = Len(c) /\ IsSeq(c)
  BY <1>3, <1>4 DEF Retold
<1> HIDE DEF out, c
<1>8. Chunks(out) = Chunks(c)
  BY <1>6, <1>7, SameChunks
<1>9. IsSeq(Chunks(c))
  <2>1. /\ Chunks(c) = FlattenSeq(TextOfEach(c)) /\ IsSeq(TextOfEach(c)) /\ Len(TextOfEach(c)) = Len(c)
        /\ \A i \in 1..Len(c) : TextOfEach(c)[i] = Body(c[i])
    BY <1>7, SaidAre
  <2> QED BY <1>6, <2>1, SeqOfSeqs
<1>10. Speech(item) = Speech(b) /\ IsSeq(Speech(b))
  <2>1. Speech(item) = <<>> \o Chunks(c)
    BY <1>5, <1>8 DEF Speech, out
  <2>2. Speech(b) = <<>> \o Chunks(c)
    BY <1>4 DEF Speech, c
  <2> QED BY <1>9, <2>1, <2>2, ConcatNone
<1> QED
  BY <1>1, <1>5, <1>10 DEF ItemFor

LEMMA ConvertedSpeaks ==
    ASSUME NEW b, Deeply(b), NEW p, Outward(p, b), Convertible(p), p.type # "redacted_thinking", NEW acc
    PROVE  ItemFor(Converted(acc, p), acc, b) /\ IsSeq(Speech(b))
<1>1. CASE p.type = "tool_result"
  <2>1. b.type = "tool_result"
    BY <1>1, ResultOfBlock
  <2> QED BY <1>1, <2>1, ResultSpeaks
<1>2. CASE p.type # "tool_result"
  <2>1. p.type \in PlainTypes /\ Converted(acc, p) = Plain(acc, p)
    BY <1>2 DEF Convertible, Converted
  <2>2. b.type # "tool_result"
    BY <1>2 DEF Outward, PartType, ServerResults
  <2>3. Flatly(b)
    BY <2>2, DeepIsFlat
  <2>4. PICK item, names : Plain(acc, p) = With(acc, item, names) /\ TellsPart(item, p)
    BY <2>1, PlainTells
  <2>5. item.body = Body(b) /\ item.content = <<>>
    BY <2>2, <2>3, <2>4, OutwardBody DEF TellsPart
  <2>6. IsSeq(Body(b)) /\ Speech(b) = Body(b)
    BY <2>3, FlatSpeaks
  <2>7. Speech(item) = Speech(b)
    BY <2>5, <2>6, BareSpeech
  <2> QED BY <2>1, <2>4, <2>6, <2>7 DEF ItemFor, TellsPart
<1> QED
  BY <1>1, <1>2

-----------------------------------------------------------------------------
\* The breakpoints in items, the marked among blocks, and what is said up to some places.
Points(s) == {j \in 1..Len(s) : s[j].type = "cachePoint"}
Marks(s) == {j \in 1..Len(s) : MarkedDeep(s[j])}
Upto(s, places) == {Flow(SubSeq(s, 1, j)) : j \in places}

LEMMA UptoSame ==
    ASSUME NEW s, IsSeq(s), NEW x, NEW places, places \subseteq 1..Len(s)
    PROVE  Upto(Append(s, x), places) = Upto(s, places)
<1> DEFINE w == Append(s, x)
<1>1. Extended(w, s, x) /\ Len(s) \in Nat
  BY AppendExtends, SeqShape
<1> HIDE DEF w
<1>2. IsSeq(w) /\ Len(w) = Len(s) + 1 /\ \A i \in 1..Len(s) : w[i] = s[i]
  BY <1>1 DEF Extended
<1>3. ASSUME NEW j \in places
      PROVE  SubSeq(w, 1, j) = SubSeq(s, 1, j)
  <2>1. j \in 0..Len(s) /\ j \in 0..Len(w) /\ j \in Nat /\ 1..j \subseteq 1..Len(s)
    BY <1>1, <1>2
  <2>2. SubSeq(w, 1, j) = Pre(w, j)
    BY <1>2, <2>1, SubSeqPre
  <2>3. SubSeq(s, 1, j) = Pre(s, j)
    BY <2>1, SubSeqPre
  <2>4. \A i \in 1..j : w[i] = s[i]
    BY <1>2, <2>1
  <2>5. Pre(w, j) = Pre(s, j)
    BY <2>1, <2>4, PreAgree
  <2> QED BY <2>2, <2>3, <2>5
<1>4. Upto(w, places) = Upto(s, places)
  BY <1>3 DEF Upto
<1> QED
  BY <1>4 DEF w

LEMMA UptoMore ==
    ASSUME NEW s, IsSeq(s), NEW x, NEW places, places \subseteq 1..Len(s)
    PROVE  Upto(Append(s, x), places \cup {Len(s) + 1}) = Upto(s, places) \cup {Flow(Append(s, x))}
<1> DEFINE w == Append(s, x)
           n == Len(s) + 1
<1>1. Extended(w, s, x) /\ Len(s) \in Nat
  BY AppendExtends, SeqShape
<1>2. Upto(w, places) = Upto(s, places)
  BY UptoSame
<1> HIDE DEF w
<1>3. IsSeq(w) /\ Len(w) = n /\ n \in 0..Len(w)
  BY <1>1 DEF Extended
<1> HIDE DEF n
<1>4. SubSeq(w, 1, n) = w
  <2>1. SubSeq(w, 1, n) = Pre(w, n)
    BY <1>3, SubSeqPre
  <2>2. Pre(w, Len(w)) = w
    BY <1>3, PreAll
  <2> QED BY <1>3, <2>1, <2>2
<1>5. Upto(w, places \cup {n}) = Upto(w, places) \cup {Flow(SubSeq(w, 1, n))}
  BY DEF Upto
<1> QED
  BY <1>2, <1>4, <1>5 DEF w, n

LEMMA PlacesAppend ==
    ASSUME NEW s, IsSeq(s), NEW x
    PROVE  /\ Points(Append(s, x)) = IF x.type = "cachePoint" THEN Points(s) \cup {Len(s) + 1} ELSE Points(s)
           /\ Marks(Append(s, x)) = IF MarkedDeep(x) THEN Marks(s) \cup {Len(s) + 1} ELSE Marks(s)
           /\ Points(s) \subseteq 1..Len(s) /\ Marks(s) \subseteq 1..Len(s) /\ Len(s) + 1 \notin 1..Len(s)
<1> DEFINE w == Append(s, x)
<1>1. Extended(w, s, x) /\ Len(s) \in Nat
  BY AppendExtends, SeqShape
<1> HIDE DEF w
<1>2. Len(w) = Len(s) + 1 /\ w[Len(s) + 1] = x /\ \A i \in 1..Len(s) : w[i] = s[i]
  BY <1>1 DEF Extended
<1>3. 1..Len(w) = 1..Len(s) \cup {Len(s) + 1} /\ Len(s) + 1 \notin 1..Len(s)
  BY <1>1, <1>2
<1>4. Points(w) = IF x.type = "cachePoint" THEN Points(s) \cup {Len(s) + 1} ELSE Points(s)
  BY <1>2, <1>3 DEF Points
<1>5. Marks(w) = IF MarkedDeep(x) THEN Marks(s) \cup {Len(s) + 1} ELSE Marks(s)
  <2> DEFINE n == Len(s) + 1
  <2>1. \A i \in 1..Len(s) : w[i] = s[i] /\ i # n
    BY <1>2, <1>3
  <2>2. w[n] = x /\ 1..Len(w) = 1..Len(s) \cup {n}
    BY <1>2, <1>3
  <2> HIDE DEF n
  <2>3. Marks(w) = IF MarkedDeep(x) THEN Marks(s) \cup {n} ELSE Marks(s)
    BY <2>1, <2>2 DEF Marks
  <2> QED BY <2>3 DEF n
<1> QED
  BY <1>3, <1>4, <1>5 DEF w, Points, Marks

\* What is carried over: the items say what the blocks say, and there is a breakpoint
\* for each of the marked, behind what is said up to it.
Carries(out, w) ==
    /\ Voiced(out) /\ Voiced(w) /\ Flow(out) = Flow(w)
    /\ IsFiniteSet(Points(out)) /\ IsFiniteSet(Marks(w))
    /\ Cardinality(Points(out)) = Cardinality(Marks(w))
    /\ Upto(out, Points(out)) = Upto(w, Marks(w))

LEMMA CarriesNone == Carries(<<>>, <<>>)
<1>1. Voiced(<<>>)
  BY EmptyIsSeq DEF Voiced
<1>2. Points(<<>>) = {} /\ Marks(<<>>) = {}
  BY EmptyIsSeq DEF Points, Marks
<1>3. Upto(<<>>, {}) = {}
  BY DEF Upto
<1>4. IsFiniteSet({}) /\ Cardinality({}) = 0
  BY FS_EmptySet
<1> QED
  BY <1>1, <1>2, <1>3, <1>4 DEF Carries

\* An item without a breakpoint, behind which one may follow.
LEMMA ItemCarries ==
    ASSUME NEW out, NEW w, Carries(out, w), NEW b, IsSeq(Speech(b)), NEW item,
           Speech(item) = Speech(b), item.type # "cachePoint"
    PROVE  /\ Voiced(Append(out, item)) /\ Voiced(Append(w, b))
           /\ Flow(Append(out, item)) = Flow(Append(w, b))
           /\ Points(Append(out, item)) = Points(out)
           /\ Upto(Append(out, item), Points(out)) = Upto(out, Points(out))
<1>1. Voiced(out) /\ Voiced(w) /\ Flow(out) = Flow(w) /\ IsSeq(out) /\ IsSeq(w)
  BY DEF Carries, Voiced
<1>2. Voiced(Append(out, item)) /\ Flow(Append(out, item)) = Flow(out) \o Speech(item)
  BY <1>1, FlowAppend
<1>3. Voiced(Append(w, b)) /\ Flow(Append(w, b)) = Flow(w) \o Speech(b)
  BY <1>1, FlowAppend
<1>4. Points(Append(out, item)) = Points(out) /\ Points(out) \subseteq 1..Len(out)
  BY <1>1, PlacesAppend
<1>5. Upto(Append(out, item), Points(out)) = Upto(out, Points(out))
  BY <1>1, <1>4, UptoSame
<1> QED
  BY <1>1, <1>2, <1>3, <1>4, <1>5

LEMMA UnmarkedCarries ==
    ASSUME NEW out, NEW w, Carries(out, w), NEW b, IsSeq(Speech(b)), NEW item,
           Speech(item) = Speech(b), item.type # "cachePoint", ~MarkedDeep(b)
    PROVE  Carries(Append(out, item), Append(w, b))
<1>1. IsSeq(w)
  BY DEF Carries, Voiced
<1>2. Marks(Append(w, b)) = Marks(w) /\ Marks(w) \subseteq 1..Len(w)
  BY <1>1, PlacesAppend
<1>3. Upto(Append(w, b), Marks(w)) = Upto(w, Marks(w))
  BY <1>1, <1>2, UptoSame
<1> QED
  BY <1>2, <1>3, ItemCarries DEF Carries

LEMMA MarkedCarries ==
    ASSUME NEW out, NEW w, Carries(out, w), NEW b, IsSeq(Speech(b)), NEW item,
           Speech(item) = Speech(b), item.type # "cachePoint", MarkedDeep(b)
    PROVE  Carries(Append(Append(out, item), CachePoint), Append(w, b))
<1> DEFINE o == Append(out, item)
           v == Append(w, b)
           z == Append(o, CachePoint)
<1>1. IsSeq(w)
  BY DEF Carries, Voiced
<1>2. /\ Voiced(o) /\ Voiced(v) /\ Flow(o) = Flow(v)
      /\ Points(o) = Points(out) /\ Upto(o, Points(o)) = Upto(out, Points(out))
  BY ItemCarries
<1>3. Marks(v) = Marks(w) \cup {Len(w) + 1} /\ Len(w) + 1 \notin Marks(w) /\ Marks(w) \subseteq 1..Len(w)
  BY <1>1, PlacesAppend
<1>4. Upto(v, Marks(v)) = Upto(w, Marks(w)) \cup {Flow(v)}
  BY <1>1, <1>3, UptoMore
<1> HIDE DEF o, v
<1>5. IsSeq(o)
  BY <1>2 DEF Voiced
<1>6. Points(z) = Points(o) \cup {Len(o) + 1} /\ Len(o) + 1 \notin Points(o) /\ Points(o) \subseteq 1..Len(o)
  BY <1>5, PlacesAppend, CachePointIs
<1>7. Upto(z, Points(z)) = Upto(o, Points(o)) \cup {Flow(z)}
  BY <1>5, <1>6, UptoMore
<1>8. Voiced(z) /\ Flow(z) = Flow(o)
  BY <1>2, FlowPoint
<1> HIDE DEF z
<1>9. /\ IsFiniteSet(Points(out)) /\ IsFiniteSet(Marks(w))
      /\ Cardinality(Points(out)) = Cardinality(Marks(w))
      /\ Upto(out, Points(out)) = Upto(w, Marks(w))
  BY DEF Carries
<1>10. IsFiniteSet(Points(z)) /\ Cardinality(Points(z)) = Cardinality(Points(out)) + 1
  BY <1>2, <1>6, <1>9, FS_AddElement
<1>11. IsFiniteSet(Marks(v)) /\ Cardinality(Marks(v)) = Cardinality(Marks(w)) + 1
  BY <1>3, <1>9, FS_AddElement
<1>12. Upto(z, Points(z)) = Upto(v, Marks(v))
  BY <1>2, <1>4, <1>7, <1>8, <1>9
<1>13. Cardinality(Points(z)) = Cardinality(Marks(v))
  BY <1>9, <1>10, <1>11
<1>14. Carries(z, v)
  BY <1>2, <1>8, <1>10, <1>11, <1>12, <1>13 DEF Carries
<1> QED
  BY <1>14 DEF o, v, z

-----------------------------------------------------------------------------
\* A part with the block it is of.
Matched(p, b) == Deeply(b) /\ Outward(p, b) /\ Convertible(p)
AllMatched(s, c) == IsSeq(s) /\ IsSeq(c) /\ Len(s) = Len(c) /\ \A j \in 1..Len(c) : Matched(s[j], c[j])

LEMMA RedactedPart ==
    ASSUME NEW p, NEW b, Outward(p, b)
    PROVE  p.type = "redacted_thinking" <=> b.type = "redacted_thinking"
  BY DEF Outward, PartType, ServerResults

LEMMA PartCarries ==
    ASSUME NEW p, NEW b, Matched(p, b), b.type # "redacted_thinking", NEW acc, NEW w, Carries(acc.out, w)
    PROVE  Carries(AddPart(acc, p).out, Append(w, b))
<1> DEFINE d == Converted(acc, p)
<1>1. p.type # "redacted_thinking" /\ (p.cache <=> MarkedDeep(b))
  BY RedactedPart DEF Matched, Outward
<1>2. ItemFor(d, acc, b) /\ IsSeq(Speech(b))
  BY <1>1, ConvertedSpeaks DEF Matched
<1>3. AddPart(acc, p) = IF p.cache THEN With(d, CachePoint, d.used) ELSE d
  BY <1>1 DEF AddPart
<1> HIDE DEF d
<1>4. PICK item, names : d = With(acc, item, names) /\ Speech(item) = Speech(b) /\ item.type # "cachePoint"
  BY <1>2 DEF ItemFor
<1>5. d.out = Append(acc.out, item)
  BY <1>4, WithIs
<1>6. CASE p.cache
  <2>1. AddPart(acc, p).out = Append(d.out, CachePoint)
    BY <1>3, <1>6, WithIs
  <2>2. Carries(Append(Append(acc.out, item), CachePoint), Append(w, b))
    BY <1>1, <1>2, <1>4, <1>6, MarkedCarries
  <2> QED BY <1>5, <2>1, <2>2
<1>7. CASE ~p.cache
  <2>1. AddPart(acc, p).out = Append(acc.out, item)
    BY <1>3, <1>5, <1>7
  <2>2. Carries(Append(acc.out, item), Append(w, b))
    BY <1>1, <1>2, <1>4, <1>7, UnmarkedCarries
  <2> QED BY <2>1, <2>2
<1> QED
  BY <1>6, <1>7

\* What is to be represented of the first blocks, one block after another.
Shown(c) == {i \in DOMAIN c : c[i].type \notin {"redacted_thinking"}}
ShownOf(c, n) == Flat(Singles(c, Shown(c)), n)

LEMMA ShownStep ==
    ASSUME NEW c, IsSeq(c), NEW n \in Nat, n + 1 <= Len(c)
    PROVE  /\ c[n + 1].type = "redacted_thinking" => ShownOf(c, n + 1) = ShownOf(c, n)
           /\ c[n + 1].type # "redacted_thinking" => ShownOf(c, n + 1) = Append(ShownOf(c, n), c[n + 1])
<1> DEFINE ss == Singles(c, Shown(c))
           w == Flat(ss, n)
<1>1. Len(c) \in Nat /\ DOMAIN c = 1..Len(c) /\ n + 1 \in 1..Len(c) /\ n \in 0..Len(c)
  BY SeqShape
<1>2. /\ AreSeqs(ss) /\ Len(ss) = Len(c)
      /\ ss[n + 1] = IF n + 1 \in Shown(c) THEN <<c[n + 1]>> ELSE <<>>
  BY <1>1, SinglesSeqs
<1> HIDE DEF ss
<1>3. Flat(ss, n + 1) = w \o ss[n + 1] /\ IsSeq(w)
  BY <1>1, <1>2, FlatStep, FlatSeq
<1>4. ShownOf(c, n + 1) = w \o ss[n + 1] /\ ShownOf(c, n) = w
  BY <1>3 DEF ShownOf, ss
<1> HIDE DEF w
<1>5. CASE c[n + 1].type = "redacted_thinking"
  <2>1. ss[n + 1] = <<>>
    BY <1>2, <1>5 DEF Shown
  <2> QED BY <1>3, <1>4, <1>5, <2>1, ConcatNone
<1>6. CASE c[n + 1].type # "redacted_thinking"
  <2>1. n + 1 \in Shown(c)
    BY <1>1, <1>6 DEF Shown
  <2>2. ss[n + 1] = <<c[n + 1]>>
    BY <1>2, <2>1
  <2>3. w \o <<c[n + 1]>> = Append(w, c[n + 1])
    BY <1>3, AppendIsJoin
  <2> QED BY <1>4, <1>6, <2>2, <2>3
<1> QED
  BY <1>5, <1>6

LEMMA ShownAll ==
    ASSUME NEW c, IsSeq(c)
    PROVE  ShownOf(c, Len(c)) = Representable(c) /\ ShownOf(c, 0) = <<>>
  BY KeptIsFlat, FlatNone DEF ShownOf, Shown, Representable, NotOfType

LEMMA ContentCarries ==
    ASSUME NEW s, NEW c, AllMatched(s, c), NEW names
    PROVE  Carries(AddParts(names, s).out, Representable(c))
<1> DEFINE G(n) == Gone("parts", Started(names), s, n)
           P(n) == n <= Len(c) => Carries(G(n).out, ShownOf(c, n))
           T == {n \in Nat : P(n)}
<1>0. IsSeq(s) /\ IsSeq(c) /\ Len(s) = Len(c) /\ Len(c) \in Nat
  BY SeqShape DEF AllMatched
<1>1. G(0).out = <<>>
  BY GoneNone DEF Started
<1>2. ASSUME NEW n \in Nat
      PROVE  G(n + 1) = AddPart(G(n), s[n + 1])
  <2>1. G(n + 1) = Go("parts", G(n), s[n + 1])
    BY GoneStep
  <2> QED BY <2>1 DEF Go
<1>3. AddParts(names, s) = G(Len(s))
  BY <1>0, PartsGo
<1> HIDE DEF G
<1>4. P(0)
  BY <1>0, <1>1, ShownAll, CarriesNone
<1>5. ASSUME NEW n \in Nat, P(n)
      PROVE  P(n + 1)
  <2> SUFFICES ASSUME n + 1 <= Len(c)
               PROVE  Carries(G(n + 1).out, ShownOf(c, n + 1))
    OBVIOUS
  <2>1. n + 1 \in 1..Len(c) /\ Carries(G(n).out, ShownOf(c, n))
    BY <1>0, <1>5
  <2>2. Matched(s[n + 1], c[n + 1])
    BY <2>1 DEF AllMatched
  <2>3. CASE c[n + 1].type = "redacted_thinking"
    <3>1. s[n + 1].type = "redacted_thinking"
      BY <2>2, <2>3, RedactedPart DEF Matched
    <3>2. G(n + 1) = G(n)
      BY <1>2, <3>1 DEF AddPart
    <3>3. ShownOf(c, n + 1) = ShownOf(c, n)
      BY <1>0, <2>3, ShownStep
    <3> QED BY <2>1, <3>2, <3>3
  <2>4. CASE c[n + 1].type # "redacted_thinking"
    <3>1. ShownOf(c, n + 1) = Append(ShownOf(c, n), c[n + 1])
      BY <1>0, <2>4, ShownStep
    <3>2. Carries(AddPart(G(n), s[n + 1]).out, Append(ShownOf(c, n), c[n + 1]))
      BY <2>1, <2>2, <2>4, PartCarries
    <3> QED BY <1>2, <3>1, <3>2
  <2> QED BY <2>3, <2>4
<1> HIDE DEF P
<1>6. T = Nat
  <2>1. T \in SUBSET Nat
    OBVIOUS
  <2>2. 0 \in T /\ \A n \in T : n + 1 \in T
    BY <1>4, <1>5
  <2> HIDE DEF T
  <2> QED BY <2>1, <2>2, Induction
<1>7. P(Len(c))
  BY <1>0, <1>6
<1>8. Carries(G(Len(c)).out, ShownOf(c, Len(c)))
  BY <1>0, <1>7 DEF P
<1> QED
  BY <1>0, <1>3, <1>8, ShownAll

-----------------------------------------------------------------------------
\* Each message of Converse is made of its turn, with some names taken before.
MadeOf(x, m) == \E names : x = [role |-> m.role, content |-> AddParts(names, m.content).out]
AllMade(out, q, n) == IsSeq(out) /\ Len(out) = n /\ \A k \in 1..n : MadeOf(out[k], q[k])

LEMMA MadeMore ==
    ASSUME NEW out, NEW q, NEW n \in Nat, AllMade(out, q, n), NEW x, MadeOf(x, q[n + 1])
    PROVE  AllMade(Append(out, x), q, n + 1)
<1> DEFINE w == Append(out, x)
<1>1. Extended(w, out, x) /\ Len(out) = n
  BY AppendExtends DEF AllMade
<1> HIDE DEF w
<1>2. IsSeq(w) /\ Len(w) = n + 1 /\ w[n + 1] = x /\ \A k \in 1..n : w[k] = out[k]
  BY <1>1 DEF Extended
<1>3. ASSUME NEW k \in 1..(n + 1)
      PROVE  MadeOf(w[k], q[k])
  <2>1. CASE k = n + 1
    BY <1>2, <2>1
  <2>2. CASE k # n + 1
    <3>1. k \in 1..n
      BY <2>2
    <3> QED BY <1>2, <3>1 DEF AllMade
  <2> QED BY <2>1, <2>2
<1>4. AllMade(w, q, n + 1)
  BY <1>2, <1>3 DEF AllMade
<1> QED
  BY <1>4 DEF w

LEMMA MessagesMade ==
    ASSUME NEW q, IsSeq(q)
    PROVE  AllMade(AddMessages(q).out, q, Len(q))
<1> DEFINE G(n) == Gone("messages", Started({}), q, n)
           P(n) == AllMade(G(n).out, q, n)
           T == {n \in Nat : P(n)}
<1>0. Len(q) \in Nat
  BY SeqShape
<1>1. G(0).out = <<>>
  BY GoneNone DEF Started
<1>2. ASSUME NEW n \in Nat
      PROVE  \E x : G(n + 1).out = Append(G(n).out, x) /\ MadeOf(x, q[n + 1])
  <2>1. G(n + 1) = Go("messages", G(n), q[n + 1])
    BY GoneStep
  <2>2. G(n + 1) = AddMessage(G(n), q[n + 1])
    BY <2>1 DEF Go
  <2> DEFINE x == [role |-> q[n + 1].role, content |-> AddParts(G(n).used, q[n + 1].content).out]
  <2>3. G(n + 1) = With(G(n), x, AddParts(G(n).used, q[n + 1].content).used)
    BY <2>2 DEF AddMessage
  <2>4. G(n + 1).out = Append(G(n).out, x)
    BY <2>3, WithIs
  <2>5. MadeOf(x, q[n + 1])
    BY DEF MadeOf
  <2> QED BY <2>4, <2>5
<1>3. AddMessages(q) = G(Len(q))
  BY MessagesGo
<1> HIDE DEF G
<1>4. P(0)
  BY <1>1, EmptyIsSeq DEF AllMade
<1>5. ASSUME NEW n \in Nat, P(n)
      PROVE  P(n + 1)
  <2>1. PICK x : G(n + 1).out = Append(G(n).out, x) /\ MadeOf(x, q[n + 1])
    BY <1>2
  <2>2. AllMade(Append(G(n).out, x), q, n + 1)
    BY <1>5, <2>1, MadeMore
  <2> QED BY <2>1, <2>2
<1> HIDE DEF P
<1>6. T = Nat
  <2>1. T \in SUBSET Nat
    OBVIOUS
  <2>2. 0 \in T /\ \A n \in T : n + 1 \in T
    BY <1>4, <1>5
  <2> HIDE DEF T
  <2> QED BY <2>1, <2>2, Induction
<1>7. P(Len(q))
  BY <1>0, <1>6
<1> QED
  BY <1>3, <1>7 DEF P

\* A request to Converse carries what its turns say, each with its breakpoints.
LEMMA ConverseCarries ==
    ASSUME ConvInv, phase = "sent", provider = "bedrock"
    PROVE  /\ IsSeq(Spoken) /\ IsSeq(sent.messages) /\ Len(sent.messages) = Len(Spoken)
           /\ \A k \in 1..Len(Spoken) : Carries(sent.messages[k].content, Representable(Spoken[k].content))
<1> DEFINE q == internal.messages
           t == Spoken
           out == sent.messages
<1>1. Request(request) /\ q = ToInternal(request).messages /\ Sendable(q) /\ out = AddMessages(q).out
  BY SentToConverse DEF ConvInv
<1>2. InternalHolds(q, t) /\ IsSeq(t)
  BY <1>1, InternalIs, TurnsAre DEF Spoken, Request
<1> HIDE DEF q, t, out
<1>3. IsSeq(q) /\ Len(q) = Len(t)
  BY <1>2 DEF InternalHolds
<1>4. IsSeq(out) /\ Len(out) = Len(t) /\ \A k \in 1..Len(t) : MadeOf(out[k], q[k])
  BY <1>1, <1>3, MessagesMade DEF AllMade
<1>5. ASSUME NEW k \in 1..Len(t)
      PROVE  Carries(out[k].content, Representable(t[k].content))
  <2>1. PICK names : out[k] = [role |-> q[k].role, content |-> AddParts(names, q[k].content).out]
    BY <1>4 DEF MadeOf
  <2>2. AllMatched(q[k].content, t[k].content)
    <3>1. /\ Message(t[k]) /\ IsSeq(q[k].content) /\ Len(q[k].content) = Len(t[k].content)
          /\ \A j \in 1..Len(t[k].content) : Outward(q[k].content[j], t[k].content[j])
      BY <1>2 DEF InternalHolds
    <3>2. IsSeq(t[k].content) /\ \A j \in 1..Len(t[k].content) : Deeply(t[k].content[j])
      BY <3>1 DEF Message, Tells
    <3>3. \A j \in 1..Len(t[k].content) : Convertible(q[k].content[j])
      BY <1>1, <1>3, <3>1 DEF Sendable
    <3> QED BY <3>1, <3>2, <3>3 DEF AllMatched, Matched
  <2>3. Carries(AddParts(names, q[k].content).out, Representable(t[k].content))
    BY <2>2, ContentCarries
  <2> QED BY <2>1, <2>3
<1> QED
  BY <1>2, <1>4, <1>5 DEF t, out

\* What Converse may cache are the prefixes the client marked: in every message as many
\* breakpoints as there are marked blocks in its turn, behind what is said up to them
\* (_convert_message_to_bedrock, _tool_result_to_part, _search_result_to_part).
THEOREM BreakpointsStayBehindMarks == ConvSpec => []BreakpointsKept
<1>1. ConvInv => BreakpointsKept
  <2> SUFFICES ASSUME ConvInv, phase = "sent", provider = "bedrock", NEW k \in DOMAIN Spoken
               PROVE  LET items == sent.messages[k].content
                          blocks == Representable(Spoken[k].content)
                          points == {j \in DOMAIN items : items[j].type = "cachePoint"}
                          marks == {j \in DOMAIN blocks : MarkedDeep(blocks[j])} IN
                      /\ Cardinality(points) = Cardinality(marks)
                      /\ {Flow(SubSeq(items, 1, j)) : j \in points} = {Flow(SubSeq(blocks, 1, j)) : j \in marks}
    BY DEF BreakpointsKept
  <2> DEFINE items == sent.messages[k].content
             blocks == Representable(Spoken[k].content)
  <2>1. Carries(items, blocks)
    <3>1. k \in 1..Len(Spoken)
      BY ConverseCarries, SeqShape
    <3> QED BY <3>1, ConverseCarries
  <2> HIDE DEF items, blocks
  <2>2. DOMAIN items = 1..Len(items) /\ DOMAIN blocks = 1..Len(blocks)
    BY <2>1, SeqShape DEF Carries, Voiced
  <2>3. /\ Points(items) = {j \in DOMAIN items : items[j].type = "cachePoint"}
        /\ Marks(blocks) = {j \in DOMAIN blocks : MarkedDeep(blocks[j])}
    BY <2>2 DEF Points, Marks
  <2>4. /\ Cardinality(Points(items)) = Cardinality(Marks(blocks))
        /\ {Flow(SubSeq(items, 1, j)) : j \in Points(items)} = {Flow(SubSeq(blocks, 1, j)) : j \in Marks(blocks)}
    BY <2>1 DEF Carries, Upto
  <2>5. /\ Cardinality({j \in DOMAIN items : items[j].type = "cachePoint"}) =
              Cardinality({j \in DOMAIN blocks : MarkedDeep(blocks[j])})
        /\ {Flow(SubSeq(items, 1, j)) : j \in {j \in DOMAIN items : items[j].type = "cachePoint"}} =
              {Flow(SubSeq(blocks, 1, j)) : j \in {j \in DOMAIN blocks : MarkedDeep(blocks[j])}}
    BY <2>3, <2>4
  <2> QED BY <2>5 DEF items, blocks
<1> QED
  BY <1>1, ConvInvHolds, PTL

-----------------------------------------------------------------------------
\* The facts in sequences, without their order.
LEMMA ConcatHas ==
    ASSUME NEW s, IsSeq(s), NEW t, IsSeq(t)
    PROVE  IsSeq(s \o t) /\ ToSet(s \o t) = ToSet(s) \cup ToSet(t)
<1> DEFINE w == s \o t
<1>1. Joined(w, s, t)
  BY ConcatJoins
<1> HIDE DEF w
<1>2. /\ IsSeq(w) /\ DOMAIN w = 1..(Len(s) + Len(t))
      /\ \A i \in 1..Len(s) : w[i] = s[i]
      /\ \A i \in 1..Len(t) : w[Len(s) + i] = t[i]
  BY <1>1 DEF Joined
<1>3. /\ Len(s) \in Nat /\ Len(t) \in Nat /\ DOMAIN s = 1..Len(s) /\ DOMAIN t = 1..Len(t)
  BY SeqShape
<1>4. ASSUME NEW k \in DOMAIN w
      PROVE  w[k] \in ToSet(s) \cup ToSet(t)
  <2>1. CASE k <= Len(s)
    <3>1. k \in 1..Len(s)
      BY <1>2, <1>3, <2>1
    <3> QED BY <1>2, <1>3, <3>1 DEF ToSet
  <2>2. CASE ~(k <= Len(s))
    <3>1. k - Len(s) \in 1..Len(t) /\ Len(s) + (k - Len(s)) = k
      BY <1>2, <1>3, <2>2
    <3>2. w[k] = t[k - Len(s)]
      BY <1>2, <3>1
    <3> QED BY <1>3, <3>1, <3>2 DEF ToSet
  <2> QED BY <2>1, <2>2
<1>5. ASSUME NEW i \in DOMAIN s
      PROVE  s[i] \in ToSet(w)
  <2>1. i \in DOMAIN w /\ w[i] = s[i]
    BY <1>2, <1>3
  <2> QED BY <2>1 DEF ToSet
<1>6. ASSUME NEW i \in DOMAIN t
      PROVE  t[i] \in ToSet(w)
  <2>1. Len(s) + i \in DOMAIN w /\ w[Len(s) + i] = t[i]
    BY <1>2, <1>3
  <2> QED BY <2>1 DEF ToSet
<1>7. ToSet(w) = ToSet(s) \cup ToSet(t)
  BY <1>4, <1>5, <1>6 DEF ToSet
<1> QED
  BY <1>2, <1>7 DEF w

Has(ss, x) == \E i \in 1..Len(ss) : x \in ToSet(ss[i])

LEMMA FlattenHas ==
    ASSUME NEW ss, AreSeqs(ss), NEW x
    PROVE  x \in ToSet(FlattenSeq(ss)) <=> Has(ss, x)
<1> DEFINE w == FlattenSeq(ss)
<1>1. IsSeq(w) /\ Placed(w, ss, Len(ss))
  BY FlattenPlaces
<1> HIDE DEF w
<1>2. DOMAIN w = 1..Len(w) /\ \A i \in 1..Len(ss) : DOMAIN ss[i] = 1..Len(ss[i])
  BY <1>1, SeqShape DEF AreSeqs
<1>3. ASSUME x \in ToSet(w)
      PROVE  Has(ss, x)
  <2>1. PICK k \in 1..Len(w) : w[k] = x
    BY <1>2, <1>3 DEF ToSet
  <2>2. PICK i \in 1..Len(ss) : \E j \in 1..Len(ss[i]) : w[k] = ss[i][j]
    BY <1>1, <2>1 DEF Placed, Place
  <2>3. x \in ToSet(ss[i])
    BY <1>2, <2>1, <2>2 DEF ToSet
  <2> QED BY <2>3 DEF Has
<1>4. ASSUME Has(ss, x)
      PROVE  x \in ToSet(w)
  <2>1. PICK i \in 1..Len(ss) : x \in ToSet(ss[i])
    BY <1>4 DEF Has
  <2>2. PICK j \in 1..Len(ss[i]) : ss[i][j] = x
    BY <1>2, <2>1 DEF ToSet
  <2>3. At(ss, i, j) \in 1..Len(w) /\ w[At(ss, i, j)] = x
    BY <1>1, <2>2 DEF Placed
  <2> QED BY <1>2, <2>3 DEF ToSet
<1> QED
  BY <1>3, <1>4 DEF w

LEMMA FlowHas ==
    ASSUME NEW s, Voiced(s), NEW x
    PROVE  x \in ToSet(Flow(s)) <=> \E i \in 1..Len(s) : x \in ToSet(Speech(s[i]))
<1>1. AreSeqs(SpeechOfEach(s)) /\ Flow(s) = FlattenSeq(SpeechOfEach(s)) /\ IsSeq(s)
  BY FlowSeq DEF Voiced
<1>2. Len(SpeechOfEach(s)) = Len(s) /\ \A i \in 1..Len(s) : SpeechOfEach(s)[i] = Speech(s[i])
  BY <1>1, SaidAre
<1> QED
  BY <1>1, <1>2, FlattenHas DEF Has

LEMMA BodiesHas ==
    ASSUME NEW s, Heard(s), NEW x
    PROVE  x \in ToSet(Bodies(s)) <=> \E i \in 1..Len(s) : x \in ToSet(s[i].body)
<1>1. /\ Bodies(s) = FlattenSeq(BodyOfEach(s)) /\ IsSeq(BodyOfEach(s)) /\ Len(BodyOfEach(s)) = Len(s)
      /\ \A i \in 1..Len(s) : BodyOfEach(s)[i] = s[i].body
  BY SaidAre DEF Heard
<1>2. AreSeqs(BodyOfEach(s))
  BY <1>1, SeqOfSeqs DEF Heard
<1> QED
  BY <1>1, <1>2, FlattenHas DEF Has

LEMMA ChunksHave ==
    ASSUME NEW s, IsSeq(s), \A i \in 1..Len(s) : IsSeq(Body(s[i])), NEW x
    PROVE  x \in ToSet(Chunks(s)) <=> \E i \in 1..Len(s) : x \in ToSet(Body(s[i]))
<1>1. /\ Chunks(s) = FlattenSeq(TextOfEach(s)) /\ IsSeq(TextOfEach(s)) /\ Len(TextOfEach(s)) = Len(s)
      /\ \A i \in 1..Len(s) : TextOfEach(s)[i] = Body(s[i])
  BY SaidAre
<1>2. AreSeqs(TextOfEach(s))
  BY <1>1, SeqOfSeqs
<1> QED
  BY <1>1, <1>2, FlattenHas DEF Has

LEMMA NoneIn == ToSet(<<>>) = {}
  BY EmptyIsSeq DEF ToSet

LEMMA InSet ==
    ASSUME NEW s, IsSeq(s), NEW x
    PROVE  x \in ToSet(s) <=> \E i \in 1..Len(s) : s[i] = x
  BY SeqShape DEF ToSet

\* The blocks of some types among others.
Picks(w, s, types) ==
    /\ IsSeq(w) /\ \A k \in 1..Len(w) : \E i \in 1..Len(s) : s[i].type \in types /\ w[k] = s[i]
    /\ \A i \in 1..Len(s) : s[i].type \in types => \E k \in 1..Len(w) : w[k] = s[i]
Leaves(w, s, types) ==
    /\ IsSeq(w) /\ \A k \in 1..Len(w) : \E i \in 1..Len(s) : s[i].type \notin types /\ w[k] = s[i]
    /\ \A i \in 1..Len(s) : s[i].type \notin types => \E k \in 1..Len(w) : w[k] = s[i]

LEMMA TypedHas ==
    ASSUME NEW s, IsSeq(s), NEW types
    PROVE  Picks(OfType(s, types), s, types) /\ Leaves(NotOfType(s, types), s, types)
<1> DEFINE I == {i \in DOMAIN s : s[i].type \in types}
           J == {i \in DOMAIN s : s[i].type \notin types}
           a == OfType(s, types)
           b == NotOfType(s, types)
<1>1. a = Kept(s, I) /\ b = Kept(s, J)
  BY DEF OfType, NotOfType
<1>2. /\ DOMAIN s = 1..Len(s) /\ \A i \in 1..Len(s) : i \in I <=> s[i].type \in types
      /\ \A i \in 1..Len(s) : i \in J <=> s[i].type \notin types
  BY SeqShape
<1> HIDE DEF I, J, a, b
<1>3. KeepsOnly(a, s, I) /\ KeepsOnly(b, s, J)
  BY <1>1, KeptElements
<1>4. IsSeq(a) /\ DOMAIN a = 1..Len(a) /\ IsSeq(b) /\ DOMAIN b = 1..Len(b)
  BY <1>3, SeqShape DEF KeepsOnly
<1>5. /\ \A k \in 1..Len(a) : \E i \in 1..Len(s) : s[i].type \in types /\ a[k] = s[i]
      /\ \A i \in 1..Len(s) : s[i].type \in types => \E k \in 1..Len(a) : a[k] = s[i]
  <2>1. ASSUME NEW k \in 1..Len(a)
        PROVE  \E i \in 1..Len(s) : s[i].type \in types /\ a[k] = s[i]
    <3>1. PICK i \in DOMAIN s : i \in I /\ a[k] = s[i]
      BY <1>3, <1>4 DEF KeepsOnly
    <3> QED BY <3>1, <1>2
  <2>2. ASSUME NEW i \in 1..Len(s), s[i].type \in types
        PROVE  \E k \in 1..Len(a) : a[k] = s[i]
    <3>1. i \in DOMAIN s /\ i \in I
      BY <1>2, <2>2
    <3> QED BY <3>1, <1>3, <1>4 DEF KeepsOnly
  <2> QED BY <2>1, <2>2
<1>6. /\ \A k \in 1..Len(b) : \E i \in 1..Len(s) : s[i].type \notin types /\ b[k] = s[i]
      /\ \A i \in 1..Len(s) : s[i].type \notin types => \E k \in 1..Len(b) : b[k] = s[i]
  <2>1. ASSUME NEW k \in 1..Len(b)
        PROVE  \E i \in 1..Len(s) : s[i].type \notin types /\ b[k] = s[i]
    <3>1. PICK i \in DOMAIN s : i \in J /\ b[k] = s[i]
      BY <1>3, <1>4 DEF KeepsOnly
    <3> QED BY <3>1, <1>2
  <2>2. ASSUME NEW i \in 1..Len(s), s[i].type \notin types
        PROVE  \E k \in 1..Len(b) : b[k] = s[i]
    <3>1. i \in DOMAIN s /\ i \in J
      BY <1>2, <2>2
    <3> QED BY <3>1, <1>3, <1>4 DEF KeepsOnly
  <2> QED BY <2>1, <2>2
<1>7. Picks(a, s, types) /\ Leaves(b, s, types)
  BY <1>4, <1>5, <1>6 DEF Picks, Leaves
<1> QED
  BY <1>7 DEF a, b

-----------------------------------------------------------------------------
\* Parts, as flat as their blocks.
LEMMA InwardFlat ==
    ASSUME NEW b, Flatly(b), NEW q, Inward(q, b)
    PROVE  Flatly(q)
<1>1. /\ IsBlock(q) /\ q.type = b.type /\ IsSeq(q.content) /\ Len(q.content) = Len(b.content)
      /\ \A j \in 1..Len(b.content) : Simple(q.content[j]) /\ q.content[j].type = b.content[j].type
  BY DEF Inward, IsBlock
<1>2. DOMAIN q.content = 1..Len(b.content) /\ DOMAIN b.content = 1..Len(b.content)
  BY <1>1, FlatContent, SeqShape
<1>3. \A j \in 1..Len(b.content) : Chunk(b, b.content[j])
  BY <1>2 DEF Flatly
<1> QED
  BY <1>1, <1>2, <1>3 DEF Flatly, Chunk

LEMMA OutwardFlat ==
    ASSUME NEW b, Flatly(b), b.type # "tool_result", NEW p, Outward(p, b)
    PROVE  Flatly(p)
<1>1. /\ IsBlock(p) /\ p.type = PartType(b) /\ IsSeq(p.content) /\ Len(p.content) = Len(b.content)
      /\ \A j \in 1..Len(b.content) : Simple(p.content[j]) /\ p.content[j].type = b.content[j].type
  BY DEF Outward, IsBlock
<1>2. DOMAIN p.content = 1..Len(b.content) /\ DOMAIN b.content = 1..Len(b.content)
  BY <1>1, FlatContent, SeqShape
<1>3. \A j \in 1..Len(b.content) : Chunk(b, b.content[j])
  BY <1>2 DEF Flatly
<1>4. b.type \in DOMAIN ChunkTypes => p.type = b.type
  BY <1>1 DEF PartType, ServerResults, ChunkTypes
<1> QED
  BY <1>1, <1>2, <1>3, <1>4 DEF Flatly, Chunk

\* Images among the chunks of a document.
Pictured(p, x) == p.type = "document" /\ \E j \in 1..Len(p.content) :
                     p.content[j].type = "image" /\ x \in ToSet(p.content[j].body)

LEMMA AsTextSays ==
    ASSUME NEW p, Flatly(p)
    PROVE  /\ IsSeq(AsText(p))
           /\ \A x \in ToSet(Body(p)) : x \in ToSet(AsText(p)) \/ Pictured(p, x)
<1> DEFINE c == p.content
           t == Texts(c)
<1>1. /\ IsSeq(p.body) /\ IsSeq(c) /\ DOMAIN c = 1..Len(c)
      /\ \A i \in 1..Len(c) : Chunk(p, c[i]) /\ IsSeq(c[i].body)
  BY FlatContent DEF Flatly, Simple, IsBlock
<1> HIDE DEF c, t
<1>2. /\ IsSeq(t) /\ \A k \in 1..Len(t) : \E i \in 1..Len(c) : t[k] = c[i]
      /\ \A i \in 1..Len(c) : c[i].type = "text" => \E k \in 1..Len(t) : t[k] = c[i]
  <2>1. Picks(t, c, {"text"})
    BY <1>1, TypedHas DEF t, Texts
  <2> QED BY <2>1 DEF Picks
<1>3. Heard(t) /\ Heard(c)
  BY <1>1, <1>2 DEF Heard
<1>4. IsSeq(Bodies(t)) /\ IsSeq(Bodies(c))
  BY <1>3, HeardBodies
<1>5. AsText(p) = p.body \o Bodies(t) /\ Body(p) = p.body \o Bodies(c)
  BY DEF AsText, Body, t, c
<1>6. /\ IsSeq(AsText(p)) /\ ToSet(AsText(p)) = ToSet(p.body) \cup ToSet(Bodies(t))
      /\ ToSet(Body(p)) = ToSet(p.body) \cup ToSet(Bodies(c))
  BY <1>1, <1>4, <1>5, ConcatHas
<1>7. ASSUME NEW x \in ToSet(Bodies(c))
      PROVE  x \in ToSet(Bodies(t)) \/ Pictured(p, x)
  <2>1. PICK i \in 1..Len(c) : x \in ToSet(c[i].body)
    BY <1>3, <1>7, BodiesHas
  <2>2. CASE c[i].type = "text"
    <3>1. PICK k \in 1..Len(t) : t[k] = c[i]
      BY <1>2, <2>2
    <3>2. x \in ToSet(t[k].body)
      BY <2>1, <3>1
    <3> QED BY <1>3, <3>2, BodiesHas
  <2>3. CASE c[i].type # "text"
    <3>1. p.type = "document" /\ c[i].type = "image"
      BY <1>1, <2>3 DEF Chunk, ChunkTypes
    <3> QED BY <2>1, <3>1 DEF Pictured, c
  <2> QED BY <2>2, <2>3
<1> QED
  BY <1>6, <1>7

-----------------------------------------------------------------------------
\* LangChain: what the items of a message hold.
Items(w) == IsSeq(w) /\ \A k \in 1..Len(w) : IsSeq(w[k].body) /\ w[k].content = <<>>
Holding(w, x) == \E k \in 1..Len(w) : x \in ToSet(w[k].body)

LEMMA NoItems == Items(<<>>)
  BY EmptyIsSeq DEF Items

LEMMA OneItem ==
    ASSUME NEW item, IsSeq(item.body), item.content = <<>>
    PROVE  Items(<<item>>) /\ \A x \in ToSet(item.body) : Holding(<<item>>, x)
<1> DEFINE w == <<item>>
<1>1. IsSeq(w) /\ Len(w) = 1 /\ w[1] = item
  BY SingleSeq
<1> HIDE DEF w
<1>2. Items(w) /\ \A x \in ToSet(item.body) : Holding(w, x)
  BY <1>1 DEF Items, Holding
<1> QED
  BY <1>2 DEF w

LEMMA ItemsFlow ==
    ASSUME NEW w, Items(w)
    PROVE  Voiced(w) /\ Heard(w) /\ \A x : Holding(w, x) => x \in ToSet(Flow(w)) /\ x \in ToSet(Bodies(w))
<1>1. Flow(w) = Bodies(w) /\ Heard(w) /\ Voiced(w)
  BY AllBare DEF Items
<1>2. ASSUME NEW x, Holding(w, x)
      PROVE  x \in ToSet(Bodies(w))
  BY <1>1, <1>2, BodiesHas DEF Holding
<1> QED
  BY <1>1, <1>2

LEMMA ItemsTogether ==
    ASSUME NEW s, Items(s), NEW t, Items(t)
    PROVE  Items(s \o t)
<1> DEFINE w == s \o t
<1>1. Joined(w, s, t) /\ IsSeq(s) /\ IsSeq(t)
  BY ConcatJoins DEF Items
<1> HIDE DEF w
<1>2. /\ IsSeq(w) /\ Len(w) = Len(s) + Len(t) /\ Len(s) \in Nat /\ Len(t) \in Nat
      /\ \A i \in 1..Len(s) : w[i] = s[i]
      /\ \A i \in 1..Len(t) : w[Len(s) + i] = t[i]
  BY <1>1, SeqShape DEF Joined
<1>3. ASSUME NEW k \in 1..Len(w)
      PROVE  (\E i \in 1..Len(s) : w[k] = s[i]) \/ (\E i \in 1..Len(t) : w[k] = t[i])
  <2>1. CASE k <= Len(s)
    <3>1. k \in 1..Len(s)
      BY <1>2, <2>1
    <3> QED BY <1>2, <3>1
  <2>2. CASE ~(k <= Len(s))
    <3>1. k - Len(s) \in 1..Len(t) /\ Len(s) + (k - Len(s)) = k
      BY <1>2, <2>2
    <3> QED BY <1>2, <3>1
  <2> QED BY <2>1, <2>2
<1>4. Items(w)
  BY <1>2, <1>3 DEF Items
<1> QED
  BY <1>4 DEF w

LEMMA ItemsFlatten ==
    ASSUME NEW ss, IsSeq(ss), \A i \in 1..Len(ss) : Items(ss[i])
    PROVE  /\ Items(FlattenSeq(ss))
           /\ \A i \in 1..Len(ss) : \A x : Holding(ss[i], x) => Holding(FlattenSeq(ss), x)
<1> DEFINE w == FlattenSeq(ss)
<1>1. AreSeqs(ss)
  BY SeqOfSeqs DEF Items
<1>2. IsSeq(w) /\ Placed(w, ss, Len(ss))
  BY <1>1, FlattenPlaces
<1> HIDE DEF w
<1>3. \A k \in 1..Len(w) : \E i \in 1..Len(ss) : \E j \in 1..Len(ss[i]) : w[k] = ss[i][j]
  BY <1>2 DEF Placed, Place
<1>4. Items(w)
  <2>1. ASSUME NEW k \in 1..Len(w)
        PROVE  IsSeq(w[k].body) /\ w[k].content = <<>>
    <3>1. PICK i \in 1..Len(ss) : \E j \in 1..Len(ss[i]) : w[k] = ss[i][j]
      BY <1>3
    <3>2. Items(ss[i])
      OBVIOUS
    <3> QED BY <3>1, <3>2 DEF Items
  <2> QED BY <1>2, <2>1 DEF Items
<1>5. ASSUME NEW i \in 1..Len(ss), NEW x, Holding(ss[i], x)
      PROVE  Holding(w, x)
  <2>1. PICK j \in 1..Len(ss[i]) : x \in ToSet(ss[i][j].body)
    BY <1>5 DEF Holding
  <2>2. At(ss, i, j) \in 1..Len(w) /\ w[At(ss, i, j)] = ss[i][j]
    BY <1>2, <2>1 DEF Placed
  <2> QED BY <2>1, <2>2 DEF Holding
<1> QED
  BY <1>4, <1>5 DEF w

LEMMA TextItemIs ==
    ASSUME NEW s, IsSeq(s)
    PROVE  /\ TextItem(s).body = s /\ TextItem(s).content = <<>>
           /\ Items(<<TextItem(s)>>) /\ \A x \in ToSet(s) : Holding(<<TextItem(s)>>, x)
<1> DEFINE item == TextItem(s)
<1>1. item.body = s /\ item.content = <<>>
  BY DEF TextItem, Block
<1> HIDE DEF item
<1>2. Items(<<item>>) /\ \A x \in ToSet(item.body) : Holding(<<item>>, x)
  BY <1>1, OneItem
<1> QED
  BY <1>1, <1>2 DEF item

Spoke == {"text", "image", "document", "search_result", "tool_call"}

LEMMA NoChunks ==
    ASSUME NEW p, Flatly(p), p.type \notin DOMAIN ChunkTypes
    PROVE  p.content = <<>> /\ Body(p) = p.body /\ IsSeq(p.body)
<1>1. IsSeq(p.content) /\ IsSeq(p.body) /\ \A j \in DOMAIN p.content : FALSE
  BY DEF Flatly, Chunk, IsBlock
<1>2. DOMAIN p.content = 1..Len(p.content) /\ Len(p.content) \in Nat
  BY <1>1, SeqShape
<1>3. Len(p.content) = 0
  <2> SUFFICES ASSUME Len(p.content) # 0
               PROVE  FALSE
    OBVIOUS
  <2>1. 1 \in 1..Len(p.content)
    BY <1>2
  <2>2. 1 \in DOMAIN p.content
    BY <1>2, <2>1
  <2> QED BY <1>1, <2>2
<1>4. p.content = <<>>
  BY <1>1, <1>3, EmptyIsSeq, SeqSame
<1> QED
  BY <1>1, <1>4, BareBody

LEMMA UserItemSays ==
    ASSUME NEW p, Flatly(p)
    PROVE  /\ Items(UserItem(p))
           /\ p.type \in Spoke => \A x \in ToSet(Body(p)) : Holding(UserItem(p), x) \/ Pictured(p, x)
<1>1. CASE p.type = "image"
  <2> DEFINE item == [Block EXCEPT !.type = "image_url", !.body = p.body]
  <2>1. UserItem(p) = <<item>>
    BY <1>1 DEF UserItem
  <2>2. item.body = p.body /\ item.content = <<>>
    BY DEF Block
  <2>3. p.type \notin DOMAIN ChunkTypes
    BY <1>1 DEF ChunkTypes
  <2>4. Body(p) = p.body /\ IsSeq(p.body)
    BY <2>3, NoChunks
  <2> HIDE DEF item
  <2>5. Items(<<item>>) /\ \A x \in ToSet(item.body) : Holding(<<item>>, x)
    BY <2>2, <2>4, OneItem
  <2> QED BY <2>1, <2>2, <2>4, <2>5
<1>2. CASE p.type \in {"text", "document", "search_result", "tool_call"}
  <2> DEFINE s == AsText(p)
  <2>1. UserItem(p) = <<TextItem(s)>>
    BY <1>2 DEF UserItem
  <2>2. IsSeq(s) /\ \A x \in ToSet(Body(p)) : x \in ToSet(s) \/ Pictured(p, x)
    BY AsTextSays
  <2> HIDE DEF s
  <2>3. Items(<<TextItem(s)>>) /\ \A x \in ToSet(s) : Holding(<<TextItem(s)>>, x)
    BY <2>2, TextItemIs
  <2> QED BY <2>1, <2>2, <2>3
<1>3. CASE p.type \notin Spoke
  <2>1. UserItem(p) = <<>>
    BY <1>3 DEF UserItem, Spoke
  <2> QED BY <1>3, <2>1, NoItems
<1> QED
  BY <1>1, <1>2, <1>3 DEF Spoke

\* The items of parts, one part after another.
UserItems(s) == [i \in DOMAIN s |-> UserItem(s[i])]

LEMMA UserItemsSay ==
    ASSUME NEW s, IsSeq(s), \A i \in 1..Len(s) : Flatly(s[i])
    PROVE  /\ Items(FlattenSeq(UserItems(s)))
           /\ \A i \in 1..Len(s) : s[i].type \in Spoke => \A x \in ToSet(Body(s[i])) :
                 Holding(FlattenSeq(UserItems(s)), x) \/ Pictured(s[i], x)
<1> DEFINE ss == UserItems(s)
<1>1. DOMAIN s = 1..Len(s)
  BY SeqShape
<1>2. ss = [i \in DOMAIN s |-> ss[i]] /\ \A i \in 1..Len(s) : ss[i] = UserItem(s[i])
  BY <1>1 DEF UserItems
<1> HIDE DEF ss
<1>3. IsSeq(ss) /\ Len(ss) = Len(s)
  BY <1>2, MapSeq
<1>4. \A i \in 1..Len(ss) : Items(ss[i])
  BY <1>2, <1>3, UserItemSays
<1> DEFINE w == FlattenSeq(ss)
<1>5. Items(w) /\ \A i \in 1..Len(ss) : \A x : Holding(ss[i], x) => Holding(w, x)
  BY <1>3, <1>4, ItemsFlatten
<1> HIDE DEF w
<1>6. ASSUME NEW i \in 1..Len(s), s[i].type \in Spoke, NEW x \in ToSet(Body(s[i]))
      PROVE  Holding(w, x) \/ Pictured(s[i], x)
  <2>1. Holding(UserItem(s[i]), x) \/ Pictured(s[i], x)
    BY <1>6, UserItemSays
  <2> QED BY <1>2, <1>3, <1>5, <2>1
<1> QED
  BY <1>5, <1>6 DEF w, ss

LEMMA ToolMessageSays ==
    ASSUME NEW p, IsSeq(p.content), \A j \in 1..Len(p.content) : Flatly(p.content[j]) /\ p.content[j].type \in InResults
    PROVE  /\ Voiced(ToolMessage(p).content)
           /\ \A j \in 1..Len(p.content) : \A x \in ToSet(Body(p.content[j])) :
                 x \in ToSet(Flow(ToolMessage(p).content)) \/ Pictured(p.content[j], x)
<1> DEFINE c == p.content
           items == FlattenSeq(UserItems(c))
           one == <<TextItem(Bodies(items))>>
           w == ToolMessage(p).content
<1>1. w = IF \A i \in DOMAIN items : items[i].type = "text" THEN one ELSE items
  BY DEF ToolMessage, UserItems
<1> HIDE DEF w
<1>2. \A j \in 1..Len(c) : c[j].type \in Spoke
  BY DEF InResults, Spoke
<1>3. /\ Items(items)
      /\ \A j \in 1..Len(c) : \A x \in ToSet(Body(c[j])) : Holding(items, x) \/ Pictured(c[j], x)
  BY <1>2, UserItemsSay
<1> HIDE DEF items
<1>4. /\ Voiced(items) /\ IsSeq(Bodies(items))
      /\ \A x : Holding(items, x) => x \in ToSet(Flow(items)) /\ x \in ToSet(Bodies(items))
  BY <1>3, ItemsFlow, HeardBodies
<1>5. Items(one) /\ \A x \in ToSet(Bodies(items)) : Holding(one, x)
  BY <1>4, TextItemIs
<1> HIDE DEF one
<1>6. Voiced(one) /\ \A x : Holding(one, x) => x \in ToSet(Flow(one))
  BY <1>5, ItemsFlow
<1>7. Voiced(w) /\ \A x : Holding(items, x) => x \in ToSet(Flow(w))
  BY <1>1, <1>4, <1>5, <1>6
<1>8. \A j \in 1..Len(c) : \A x \in ToSet(Body(c[j])) : x \in ToSet(Flow(w)) \/ Pictured(c[j], x)
  BY <1>3, <1>7
<1> QED
  BY <1>7, <1>8 DEF w

-----------------------------------------------------------------------------
\* What the messages of a turn say.
Reaches(w, x) == \E k \in 1..Len(w) : x \in ToSet(Flow(w[k].content))
ToolShaped(p) ==
    IsSeq(p.content) /\ \A j \in 1..Len(p.content) : Flatly(p.content[j]) /\ p.content[j].type \in InResults
Shaped(s) ==
    IsSeq(s) /\ \A i \in 1..Len(s) : IF s[i].type = "tool_result" THEN ToolShaped(s[i]) ELSE Flatly(s[i])

LEMMA ReachesTogether ==
    ASSUME NEW s, IsSeq(s), NEW t, IsSeq(t), NEW x, Reaches(s, x) \/ Reaches(t, x)
    PROVE  Reaches(s \o t, x)
<1> DEFINE w == s \o t
<1>1. Joined(w, s, t)
  BY ConcatJoins
<1> HIDE DEF w
<1>2. /\ Len(w) = Len(s) + Len(t) /\ Len(s) \in Nat /\ Len(t) \in Nat
      /\ \A i \in 1..Len(s) : w[i] = s[i]
      /\ \A i \in 1..Len(t) : w[Len(s) + i] = t[i]
  BY <1>1, SeqShape DEF Joined
<1>3. CASE Reaches(s, x)
  <2>1. PICK i \in 1..Len(s) : x \in ToSet(Flow(s[i].content))
    BY <1>3 DEF Reaches
  <2>2. i \in 1..Len(w) /\ w[i] = s[i]
    BY <1>2
  <2> QED BY <2>1, <2>2 DEF Reaches, w
<1>4. CASE Reaches(t, x)
  <2>1. PICK i \in 1..Len(t) : x \in ToSet(Flow(t[i].content))
    BY <1>4 DEF Reaches
  <2>2. Len(s) + i \in 1..Len(w) /\ w[Len(s) + i] = t[i]
    BY <1>2
  <2> QED BY <2>1, <2>2 DEF Reaches, w
<1> QED
  BY <1>3, <1>4

LEMMA OneReaches ==
    ASSUME NEW m, NEW x \in ToSet(Flow(m.content))
    PROVE  Reaches(<<m>>, x)
<1> DEFINE w == <<m>>
<1>1. Len(w) = 1 /\ w[1] = m
  BY SingleSeq
<1> HIDE DEF w
<1>2. Reaches(w, x)
  BY <1>1 DEF Reaches
<1> QED
  BY <1>2 DEF w

\* Reported: of a part of the user, everything but the images in a document of it.
Reported(w, p) ==
    /\ p.type \in Spoke => \A x \in ToSet(Body(p)) : Reaches(w, x) \/ Pictured(p, x)
    /\ p.type = "tool_result" => \A j \in 1..Len(p.content) : \A x \in ToSet(Body(p.content[j])) :
          Reaches(w, x) \/ Pictured(p.content[j], x)

LEMMA ToolsReport ==
    ASSUME NEW s, Shaped(s), NEW r, Picks(r, s, {"tool_result"}), NEW tools, IsSeq(tools), Len(tools) = Len(r),
           \A k \in 1..Len(r) : tools[k] = ToolMessage(r[k]),
           NEW i \in 1..Len(s), s[i].type = "tool_result", NEW j \in 1..Len(s[i].content),
           NEW x \in ToSet(Body(s[i].content[j]))
    PROVE  Reaches(tools, x) \/ Pictured(s[i].content[j], x)
<1>1. PICK k \in 1..Len(r) : r[k] = s[i]
  BY DEF Picks
<1>2. ToolShaped(s[i])
  BY DEF Shaped
<1>3. x \in ToSet(Flow(ToolMessage(s[i]).content)) \/ Pictured(s[i].content[j], x)
  BY <1>2, ToolMessageSays DEF ToolShaped
<1>4. k \in 1..Len(tools) /\ tools[k] = ToolMessage(s[i])
  BY <1>1
<1> QED
  BY <1>3, <1>4 DEF Reaches

LEMMA UserTurnSays ==
    ASSUME NEW s, Shaped(s), NEW i \in 1..Len(s)
    PROVE  Reported(UserMessages(s), s[i])
<1> DEFINE r == OfType(s, {"tool_result"})
           rest == NotOfType(s, {"tool_result"})
           tools == [k \in DOMAIN r |-> ToolMessage(r[k])]
           h == FlattenSeq(UserItems(rest))
           human == [role |-> "human", id |-> "", content |-> h]
           none == r # <<>> /\ rest = <<>>
           w == UserMessages(s)
<1>1. w = tools \o IF none THEN <<>> ELSE <<human>>
  BY DEF UserMessages, UserItems
<1>2. Picks(r, s, {"tool_result"}) /\ Leaves(rest, s, {"tool_result"})
  BY TypedHas DEF Shaped
<1>3. human.content = h
  OBVIOUS
<1> HIDE DEF r, rest, human, w, none
<1>4. IsSeq(r) /\ DOMAIN r = 1..Len(r) /\ IsSeq(rest)
  BY <1>2, SeqShape DEF Picks, Leaves
<1>5. tools = [k \in DOMAIN r |-> tools[k]] /\ \A k \in 1..Len(r) : tools[k] = ToolMessage(r[k])
  BY <1>4
<1> HIDE DEF tools
<1>6. IsSeq(tools) /\ Len(tools) = Len(r)
  BY <1>4, <1>5, MapSeq
<1>7. \A k \in 1..Len(rest) : Flatly(rest[k])
  <2> SUFFICES ASSUME NEW k \in 1..Len(rest)
               PROVE  Flatly(rest[k])
    OBVIOUS
  <2>1. PICK l \in 1..Len(s) : s[l].type \notin {"tool_result"} /\ rest[k] = s[l]
    BY <1>2 DEF Leaves
  <2> QED BY <2>1 DEF Shaped
<1>8. /\ Items(h)
      /\ \A k \in 1..Len(rest) : rest[k].type \in Spoke => \A x \in ToSet(Body(rest[k])) :
            Holding(h, x) \/ Pictured(rest[k], x)
  BY <1>4, <1>7, UserItemsSay
<1> HIDE DEF h
<1>9. \A x : Holding(h, x) => x \in ToSet(Flow(human.content))
  BY <1>3, <1>8, ItemsFlow
<1>10. ASSUME s[i].type \in Spoke, NEW x \in ToSet(Body(s[i]))
       PROVE  Reaches(w, x) \/ Pictured(s[i], x)
  <2>1. s[i].type \notin {"tool_result"}
    BY <1>10 DEF Spoke
  <2>2. PICK k \in 1..Len(rest) : rest[k] = s[i]
    BY <1>2, <2>1 DEF Leaves
  <2>3. rest # <<>>
    BY <2>2, EmptyIsSeq
  <2>4. w = tools \o <<human>>
    BY <1>1, <2>3 DEF none
  <2>5. Holding(h, x) \/ Pictured(s[i], x)
    BY <1>8, <1>10, <2>2
  <2>6. ASSUME Holding(h, x)
        PROVE  Reaches(w, x)
    <3>1. Reaches(<<human>>, x)
      BY <1>9, <2>6, OneReaches
    <3>2. IsSeq(<<human>>)
      BY SingleSeq
    <3> DEFINE one == <<human>>
    <3>3. IsSeq(one) /\ Reaches(one, x) /\ w = tools \o one
      BY <2>4, <3>1, <3>2
    <3> HIDE DEF one
    <3> QED BY <1>6, <3>3, ReachesTogether
  <2> QED BY <2>5, <2>6
<1>11. ASSUME s[i].type = "tool_result", NEW j \in 1..Len(s[i].content), NEW x \in ToSet(Body(s[i].content[j]))
       PROVE  Reaches(w, x) \/ Pictured(s[i].content[j], x)
  <2>1. Reaches(tools, x) \/ Pictured(s[i].content[j], x)
    BY <1>2, <1>5, <1>6, <1>11, ToolsReport
  <2> DEFINE more == IF none THEN <<>> ELSE <<human>>
  <2>2. IsSeq(more) /\ w = tools \o more
    BY <1>1, SingleSeq, EmptyIsSeq
  <2> HIDE DEF more
  <2> QED BY <1>6, <2>1, <2>2, ReachesTogether
<1>12. Reported(w, s[i])
  BY <1>10, <1>11 DEF Reported
<1> QED
  BY <1>12 DEF w

\* A turn of the assistant: its texts and thinking in one, its calls behind.
Bodied(s) == IsSeq(s) /\ \A i \in 1..Len(s) : Flatly(s[i]) /\ s[i].type \in PartTypes

LEMMA AITurnSays ==
    ASSUME NEW s, Bodied(s), NEW i \in 1..Len(s), s[i].type # "image", NEW x \in ToSet(Body(s[i]))
    PROVE  x \in ToSet(Flow(AIMessage(s).content))
<1> DEFINE types == {"text", "thinking", "document", "search_result"}
           texts == OfType(s, types)
           calls == OfType(s, {"tool_call"})
           voiced == [k \in DOMAIN texts |-> AsText(texts[k])]
           one == <<TextItem(FlattenSeq(voiced))>>
           w == AIMessage(s).content
<1>0. IsSeq(s) /\ \A k \in 1..Len(s) : Flatly(s[k]) /\ s[k].content = <<>> /\ Body(s[k]) = s[k].body /\ IsSeq(s[k].body)
  <2> SUFFICES ASSUME NEW k \in 1..Len(s)
               PROVE  Flatly(s[k]) /\ s[k].content = <<>> /\ Body(s[k]) = s[k].body /\ IsSeq(s[k].body)
    BY DEF Bodied
  <2>1. Flatly(s[k]) /\ s[k].type \notin DOMAIN ChunkTypes
    BY DEF Bodied, PartTypes, ChunkTypes
  <2> QED BY <2>1, NoChunks
<1>1. w = one \o calls
  BY DEF AIMessage
<1>2. Picks(texts, s, types) /\ Picks(calls, s, {"tool_call"})
  BY <1>0, TypedHas
<1> HIDE DEF texts, calls, w
<1>3. IsSeq(texts) /\ DOMAIN texts = 1..Len(texts) /\ IsSeq(calls)
  BY <1>2, SeqShape DEF Picks
<1>4. voiced = [k \in DOMAIN texts |-> voiced[k]] /\ \A k \in 1..Len(texts) : voiced[k] = AsText(texts[k])
  BY <1>3
<1> HIDE DEF voiced
<1>5. IsSeq(voiced) /\ Len(voiced) = Len(texts)
  BY <1>3, <1>4, MapSeq
<1>6. \A k \in 1..Len(texts) : Flatly(texts[k])
  BY <1>0, <1>2 DEF Picks
<1>7. \A k \in 1..Len(voiced) : IsSeq(voiced[k])
  BY <1>4, <1>5, <1>6, AsTextSays
<1>8. AreSeqs(voiced) /\ IsSeq(FlattenSeq(voiced))
  BY <1>5, <1>7, SeqOfSeqs
<1>9. Items(one) /\ \A y \in ToSet(FlattenSeq(voiced)) : Holding(one, y)
  BY <1>8, TextItemIs
<1>10. Items(calls)
  <2>1. ASSUME NEW k \in 1..Len(calls)
        PROVE  IsSeq(calls[k].body) /\ calls[k].content = <<>>
    <3>1. PICK l \in 1..Len(s) : calls[k] = s[l]
      BY <1>2 DEF Picks
    <3> QED BY <1>0, <3>1
  <2> QED BY <1>3, <2>1 DEF Items
<1> HIDE DEF one
<1>11. Voiced(one) /\ Voiced(calls)
  BY <1>9, <1>10, ItemsFlow
<1>12. Flow(w) = Flow(one) \o Flow(calls) /\ IsSeq(Flow(one)) /\ IsSeq(Flow(calls))
  BY <1>1, <1>11, FlowTogether, FlowSeq
<1>13. ToSet(Flow(w)) = ToSet(Flow(one)) \cup ToSet(Flow(calls))
  BY <1>12, ConcatHas
<1>14. CASE s[i].type = "tool_call"
  <2>1. PICK k \in 1..Len(calls) : calls[k] = s[i]
    BY <1>2, <1>14 DEF Picks
  <2>2. Holding(calls, x)
    BY <1>0, <2>1 DEF Holding
  <2>3. x \in ToSet(Flow(calls))
    BY <1>10, <2>2, ItemsFlow
  <2> QED BY <1>13, <2>3 DEF w
<1>15. CASE s[i].type \in {"text", "thinking"}
  <2>1. s[i].type \in types
    BY <1>15
  <2>2. PICK k \in 1..Len(texts) : texts[k] = s[i]
    BY <1>2, <2>1 DEF Picks
  <2>3. x \in ToSet(AsText(s[i]))
    BY <1>0, <1>15, AsTextSays DEF Pictured
  <2>4. Has(voiced, x)
    BY <1>4, <1>5, <2>2, <2>3 DEF Has
  <2>5. x \in ToSet(FlattenSeq(voiced))
    BY <1>8, <2>4, FlattenHas
  <2>6. x \in ToSet(Flow(one))
    BY <1>9, <2>5, ItemsFlow
  <2> QED BY <1>13, <2>6 DEF w
<1> QED
  BY <1>14, <1>15 DEF Bodied, PartTypes

-----------------------------------------------------------------------------
\* What has no place in LangChain.
LEMMA PicturesUnplaced ==
    ASSUME NEW m, NEW b \in ToSet(m.content) \cup Within(ToSet(m.content), "tool_result"), b.type = "document",
           NEW c \in ToSet(b.content), c.type = "image", NEW x \in ToSet(c.body)
    PROVE  x \in Unplaced(m)
<1> DEFINE blocks == ToSet(m.content)
           documents == blocks \cup Within(blocks, "tool_result")
<1>1. c \in Within(documents, "document")
  BY DEF Within
<1> HIDE DEF documents
<1>2. x \in Images(Within(documents, "document"))
  BY <1>1 DEF Images
<1> QED
  BY <1>2 DEF Unplaced, documents

LEMMA ImagesUnplaced ==
    ASSUME NEW m, m.role # "user", NEW b \in ToSet(m.content), b.type = "image", NEW x \in ToSet(b.body)
    PROVE  x \in Unplaced(m)
<1>1. x \in Images(ToSet(m.content))
  BY DEF Images
<1> QED
  BY <1>1 DEF Unplaced

LEMMA PicturedOutward ==
    ASSUME NEW m, NEW b \in ToSet(m.content), Flatly(b), b.type # "tool_result",
           NEW p, Outward(p, b), NEW x, Pictured(p, x)
    PROVE  x \in Unplaced(m)
<1>1. b.type = "document"
  BY DEF Pictured, Outward, PartType, ServerResults
<1>2. PICK j \in 1..Len(p.content) : p.content[j].type = "image" /\ x \in ToSet(p.content[j].body)
  BY DEF Pictured
<1>3. /\ j \in DOMAIN b.content /\ b.content[j].type = "image" /\ b.content[j].body = p.content[j].body
  BY <1>2, FlatContent DEF Outward
<1>4. b.content[j] \in ToSet(b.content) /\ x \in ToSet(b.content[j].body)
  BY <1>2, <1>3 DEF ToSet
<1> QED
  BY <1>1, <1>3, <1>4, PicturesUnplaced

LEMMA PicturedInward ==
    ASSUME NEW m, NEW d \in ToSet(m.content), d.type = "tool_result", NEW b \in ToSet(d.content), Flatly(b),
           NEW q, Inward(q, b), NEW x, Pictured(q, x)
    PROVE  x \in Unplaced(m)
<1>1. b.type = "document" /\ b \in Within(ToSet(m.content), "tool_result")
  BY DEF Pictured, Inward, Within
<1>2. PICK j \in 1..Len(q.content) : q.content[j].type = "image" /\ x \in ToSet(q.content[j].body)
  BY DEF Pictured
<1>3. /\ j \in DOMAIN b.content /\ b.content[j].type = "image" /\ b.content[j].body = q.content[j].body
  BY <1>2, FlatContent DEF Inward
<1>4. b.content[j] \in ToSet(b.content) /\ x \in ToSet(b.content[j].body)
  BY <1>2, <1>3 DEF ToSet
<1> QED
  BY <1>1, <1>3, <1>4, PicturesUnplaced

-----------------------------------------------------------------------------
\* A turn's blocks and what they become.
LEMMA MatchedShape ==
    ASSUME NEW p, NEW b, Matched(p, b)
    PROVE  IF p.type = "tool_result" THEN b.type = "tool_result" /\ ToolShaped(p)
           ELSE b.type # "tool_result" /\ Flatly(b) /\ Flatly(p)
<1>1. CASE p.type = "tool_result"
  <2>1. b.type = "tool_result"
    BY <1>1, ResultOfBlock DEF Matched
  <2>2. IsSeq(p.content) /\ Len(p.content) = Len(b.content)
    BY DEF Matched, Outward, IsBlock
  <2>3. \A j \in 1..Len(b.content) : Flatly(b.content[j]) /\ Inward(p.content[j], b.content[j])
    BY <2>1 DEF Matched, Deeply, Outward
  <2>4. \A j \in 1..Len(p.content) : Flatly(p.content[j])
    BY <2>2, <2>3, InwardFlat
  <2>5. \A j \in 1..Len(p.content) : p.content[j].type \in InResults
    BY <1>1 DEF Matched, Convertible
  <2> QED BY <1>1, <2>1, <2>2, <2>4, <2>5 DEF ToolShaped
<1>2. CASE p.type # "tool_result"
  <2>1. b.type # "tool_result"
    BY <1>2 DEF Matched, Outward, PartType, ServerResults
  <2>2. Flatly(b)
    BY <2>1, DeepIsFlat DEF Matched
  <2> QED BY <1>2, <2>1, <2>2, OutwardFlat DEF Matched
<1> QED
  BY <1>1, <1>2

LEMMA AllShaped ==
    ASSUME NEW s, NEW c, AllMatched(s, c)
    PROVE  Shaped(s)
<1>1. IsSeq(s) /\ \A i \in 1..Len(s) : Matched(s[i], c[i])
  BY DEF AllMatched
<1> QED
  BY <1>1, MatchedShape DEF Shaped

LEMMA RepresentableHas ==
    ASSUME NEW s, NEW c, AllMatched(s, c), NEW x \in ToSet(Flow(Representable(c)))
    PROVE  \E i \in 1..Len(c) : c[i].type # "redacted_thinking" /\ x \in ToSet(Speech(c[i]))
<1> DEFINE w == Representable(c)
<1>1. Leaves(w, c, {"redacted_thinking"})
  BY TypedHas DEF AllMatched, Representable
<1>2. \A i \in 1..Len(c) : c[i].type # "redacted_thinking" => IsSeq(Speech(c[i]))
  <2> SUFFICES ASSUME NEW i \in 1..Len(c), c[i].type # "redacted_thinking"
               PROVE  IsSeq(Speech(c[i]))
    OBVIOUS
  <2>1. Deeply(c[i]) /\ Outward(s[i], c[i]) /\ Convertible(s[i])
    BY DEF AllMatched, Matched
  <2>2. s[i].type # "redacted_thinking"
    BY <2>1, RedactedPart
  <2> QED BY <2>1, <2>2, ConvertedSpeaks
<1> HIDE DEF w
<1>3. Voiced(w)
  <2>1. ASSUME NEW k \in 1..Len(w)
        PROVE  IsSeq(Speech(w[k]))
    <3>1. PICK i \in 1..Len(c) : c[i].type \notin {"redacted_thinking"} /\ w[k] = c[i]
      BY <1>1 DEF Leaves
    <3> QED BY <1>2, <3>1
  <2> QED BY <1>1, <2>1 DEF Voiced, Leaves
<1>4. PICK k \in 1..Len(w) : x \in ToSet(Speech(w[k]))
  BY <1>3, FlowHas DEF w
<1>5. PICK i \in 1..Len(c) : c[i].type \notin {"redacted_thinking"} /\ w[k] = c[i]
  BY <1>1 DEF Leaves
<1> QED
  BY <1>4, <1>5

LEMMA UserTold ==
    ASSUME NEW m, NEW s, AllMatched(s, m.content), Thoughtless(m.content), NEW i \in 1..Len(m.content),
           m.content[i].type # "redacted_thinking", NEW x \in ToSet(Speech(m.content[i])), x \notin Unplaced(m)
    PROVE  Reaches(UserMessages(s), x)
<1> DEFINE c == m.content
           b == c[i]
           p == s[i]
           w == UserMessages(s)
<1>1. Matched(p, b) /\ i \in 1..Len(s) /\ b \in ToSet(c) /\ b.type # "thinking"
  BY SeqShape DEF AllMatched, ToSet, Thoughtless
<1>2. Reported(w, p)
  BY <1>1, AllShaped, UserTurnSays
<1>3. p.type \in PlainTypes \cup {"tool_result"} /\ p.type # "thinking"
  <2>1. p.type # "redacted_thinking"
    BY <1>1, RedactedPart DEF Matched
  <2>2. p.type # "thinking"
    BY <1>1 DEF Matched, Outward, PartType, ServerResults
  <2> QED BY <1>1, <2>1, <2>2 DEF Matched, Convertible
<1>4. x \in ToSet(Speech(b))
  OBVIOUS
<1> HIDE DEF w, p, b
<1>5. CASE p.type = "tool_result"
  <2>1. b.type = "tool_result" /\ ToolShaped(p)
    BY <1>1, <1>5, MatchedShape
  <2>2. /\ IsSeq(b.content) /\ b.body = <<>> /\ Len(p.content) = Len(b.content)
        /\ \A j \in 1..Len(b.content) : Flatly(b.content[j]) /\ Inward(p.content[j], b.content[j])
    BY <1>1, <2>1 DEF Matched, Deeply, Outward, IsBlock
  <2>3. \A j \in 1..Len(b.content) : Body(p.content[j]) = Body(b.content[j]) /\ IsSeq(Body(b.content[j]))
    BY <2>2, InwardBody, FlatSpeaks DEF Body
  <2>4. Speech(b) = <<>> \o Chunks(b.content)
    BY <2>2 DEF Speech
  <2>5. x \in ToSet(Chunks(b.content))
    <3>1. IsSeq(Chunks(b.content))
      <4>1. /\ Chunks(b.content) = FlattenSeq(TextOfEach(b.content)) /\ IsSeq(TextOfEach(b.content))
            /\ Len(TextOfEach(b.content)) = Len(b.content)
            /\ \A j \in 1..Len(b.content) : TextOfEach(b.content)[j] = Body(b.content[j])
        BY <2>2, SaidAre
      <4> QED BY <2>3, <4>1, SeqOfSeqs
    <3>2. <<>> \o Chunks(b.content) = Chunks(b.content)
      BY <3>1, ConcatNone
    <3> QED BY <1>4, <2>4, <3>2
  <2>6. PICK j \in 1..Len(b.content) : x \in ToSet(Body(b.content[j]))
    BY <2>2, <2>3, <2>5, ChunksHave
  <2>7. Reaches(w, x) \/ Pictured(p.content[j], x)
    BY <1>2, <1>5, <2>2, <2>3, <2>6 DEF Reported
  <2>8. ~Pictured(p.content[j], x)
    <3>1. b.content[j] \in ToSet(b.content)
      BY <2>2, SeqShape DEF ToSet
    <3> QED BY <1>1, <2>1, <2>2, <3>1, PicturedInward DEF c
  <2> QED BY <2>7, <2>8 DEF w
<1>6. CASE p.type # "tool_result"
  <2>1. b.type # "tool_result" /\ Flatly(b)
    BY <1>1, <1>6, MatchedShape
  <2>2. Body(p) = Body(b) /\ Speech(b) = Body(b)
    <3>1. Outward(p, b)
      BY <1>1 DEF Matched
    <3> QED BY <2>1, <3>1, OutwardBody, FlatSpeaks DEF Body
  <2>3. p.type \in Spoke
    BY <1>3, <1>6 DEF PlainTypes, Spoke
  <2>4. Reaches(w, x) \/ Pictured(p, x)
    BY <1>2, <1>4, <2>2, <2>3 DEF Reported
  <2>5. ~Pictured(p, x)
    BY <1>1, <2>1, PicturedOutward DEF Matched, c
  <2> QED BY <2>4, <2>5 DEF w
<1> QED
  BY <1>5, <1>6

LEMMA AssistantTold ==
    ASSUME NEW m, m.role # "user", NEW s, AllMatched(s, m.content), Blocks(m.content), NEW i \in 1..Len(m.content),
           NEW x \in ToSet(Speech(m.content[i])), x \notin Unplaced(m)
    PROVE  x \in ToSet(Flow(AIMessage(s).content))
<1> DEFINE c == m.content
           b == c[i]
           p == s[i]
<1>1. \A k \in 1..Len(c) : /\ Matched(s[k], c[k]) /\ c[k].type \in BlockTypes /\ Simple(c[k])
  BY DEF AllMatched, Blocks
<1>2. \A k \in 1..Len(c) : Flatly(s[k]) /\ s[k].type \in PartTypes
  <2> SUFFICES ASSUME NEW k \in 1..Len(c)
               PROVE  Flatly(s[k]) /\ s[k].type \in PartTypes
    OBVIOUS
  <2>1. s[k].type = PartType(c[k]) /\ c[k].type \in BlockTypes
    BY <1>1 DEF Matched, Outward
  <2>2. s[k].type \in PartTypes
    BY <2>1 DEF PartType, BlockTypes, PartTypes, ServerResults
  <2> QED BY <1>1, <2>2, MatchedShape DEF PartTypes
<1>3. Bodied(s) /\ i \in 1..Len(s) /\ b \in ToSet(c)
  BY <1>2, SeqShape DEF Bodied, AllMatched, ToSet
<1>4. Matched(p, b) /\ Flatly(b) /\ b.type # "tool_result" /\ Outward(p, b)
  BY <1>1, SimpleIsFlat DEF Matched, BlockTypes
<1>5. x \in ToSet(Speech(b))
  OBVIOUS
<1> HIDE DEF b, p
<1>6. Speech(b) = Body(b) /\ Body(p) = Body(b)
  BY <1>4, OutwardBody, FlatSpeaks DEF Body
<1>7. b.type # "image"
  <2> SUFFICES ASSUME b.type = "image"
               PROVE  FALSE
    OBVIOUS
  <2>1. Body(b) = b.body
    BY <1>4, NoChunks DEF ChunkTypes
  <2> QED BY <1>3, <1>5, <1>6, <2>1, ImagesUnplaced DEF c
<1>8. p.type # "image"
  BY <1>4, <1>7 DEF Outward, PartType, ServerResults
<1> QED
  BY <1>3, <1>5, <1>6, <1>8, AITurnSays DEF p

LEMMA LangChainTold ==
    ASSUME ConvInv, phase = "sent", provider = "langchain", NEW k \in DOMAIN Spoken,
           NEW x \in ToSet(Flow(Representable(Spoken[k].content))), x \notin Unplaced(Spoken[k])
    PROVE  x \in UNION {ToSet(Flow(m.content)) : m \in ToSet(sent.messages)}
<1> DEFINE t == Spoken
           q == internal.messages
           ss == OfTurns(q)
           out == sent.messages
           c == t[k].content
           s == q[k].content
           w == TurnMessages(q[k])
<1>1. /\ internal = ToInternal(request) /\ ~RefusedByAdapter(request) /\ Request(request)
      /\ sent = ToLangChain(internal) /\ ~RefusedByLangChain(internal)
  BY DEF ConvInv, Follows, Translated, Refuses
<1>2. out = FlattenSeq(ss)
  BY <1>1 DEF ToLangChain, OfTurns, TurnMessages
<1>3. InternalHolds(q, t) /\ Sendable(q) /\ IsSeq(t)
  BY <1>1, InternalIs, AcceptedSendable, TurnsAre DEF Spoken, Request
<1>4. x \in ToSet(Flow(Representable(c))) /\ x \notin Unplaced(t[k]) /\ k \in DOMAIN t
  OBVIOUS
<1> HIDE DEF t, q, out
<1>5. /\ IsSeq(q) /\ Len(q) = Len(t) /\ k \in 1..Len(q) /\ \A i \in 1..Len(q) : IsSeq(q[i].content)
      /\ Message(t[k]) /\ t[k].role # "system" /\ q[k].role = t[k].role
      /\ Len(s) = Len(c) /\ \A j \in 1..Len(c) : Outward(s[j], c[j])
  BY <1>3, <1>4, SeqShape DEF InternalHolds
<1>6. AreSeqs(ss) /\ Len(ss) = Len(q) /\ ss[k] = w
  BY <1>5, OfTurnsSeqs
<1> HIDE DEF ss, w
<1>7. AllMatched(s, c)
  <2>1. IsSeq(c) /\ \A j \in 1..Len(c) : Deeply(c[j])
    BY <1>5 DEF Message, Tells
  <2>2. \A j \in 1..Len(c) : Convertible(s[j])
    BY <1>3, <1>5 DEF Sendable
  <2> QED BY <1>5, <2>1, <2>2 DEF AllMatched, Matched
<1>8. PICK i \in 1..Len(c) : c[i].type # "redacted_thinking" /\ x \in ToSet(Speech(c[i]))
  BY <1>4, <1>7, RepresentableHas
<1> DEFINE m == t[k]
<1>9. Reaches(w, x)
  <2>1. CASE m.role = "user"
    <3>1. w = UserMessages(s)
      BY <1>5, <2>1 DEF TurnMessages, w
    <3>2. Thoughtless(c)
      BY <1>5, <2>1 DEF Message
    <3> QED BY <1>4, <1>7, <1>8, <3>1, <3>2, UserTold
  <2>2. CASE m.role # "user"
    <3>1. w = <<AIMessage(s)>>
      BY <1>5, <2>2 DEF TurnMessages, w
    <3>2. Blocks(c)
      BY <1>5, <2>2 DEF Message
    <3>3. x \in ToSet(Flow(AIMessage(s).content))
      BY <1>4, <1>7, <1>8, <2>2, <3>2, AssistantTold
    <3> QED BY <3>1, <3>3, OneReaches
  <2> QED BY <2>1, <2>2
<1>10. PICK l \in 1..Len(w) : x \in ToSet(Flow(w[l].content))
  BY <1>9 DEF Reaches
<1>11. w[l] \in ToSet(ss[k])
  <2>1. IsSeq(w)
    BY <1>5, <1>6 , TurnMessagesSeq DEF w
  <2> QED BY <1>6, <2>1, InSet
<1>12. w[l] \in ToSet(out)
  BY <1>2, <1>5, <1>6, <1>11, FlattenHas DEF Has
<1> QED
  BY <1>10, <1>12 DEF out

\* A request that is accepted reaches the model whole, to either provider
\* (request_to_internal, build_converse_request, to_langchain_messages).
THEOREM RequestsArriveWhole == ConvSpec => []NothingLost
<1>1. ConvInv => NothingLost
  <2> SUFFICES ASSUME ConvInv, phase = "sent"
               PROVE  NothingLost
    BY DEF NothingLost
  <2>1. Flow(sent.system) = Flow(Told)
    <3>1. Request(request) /\ internal = ToInternal(request) /\ sent = Translated
      BY DEF ConvInv, Follows
    <3>2. sent = Sent(provider, ToInternal(request))
      BY <3>1 DEF Translated, Sent
    <3>3. Flow(sent.system) = Bodies(FlattenSystem(request))
      BY <3>1, <3>2, SystemSent
    <3>4. Bodies(FlattenSystem(request)) = Flow(request.system \o FlattenSeq(Tellings(request.messages)))
      BY <3>1, SystemTold
    <3>5. Told = request.system \o FlattenSeq(Tellings(request.messages))
      BY DEF Told, Tellings, Aside
    <3> QED BY <3>3, <3>4, <3>5
  <2>2. ASSUME provider = "bedrock"
        PROVE  /\ Len(sent.messages) = Len(Spoken)
               /\ \A k \in DOMAIN Spoken :
                     Flow(sent.messages[k].content) = Flow(Representable(Spoken[k].content))
    <3>1. DOMAIN Spoken = 1..Len(Spoken)
      BY <2>2, ConverseCarries, SeqShape
    <3> QED BY <2>2, <3>1, ConverseCarries DEF Carries
  <2>3. ASSUME provider = "langchain"
        PROVE  \A k \in DOMAIN Spoken :
                   ToSet(Flow(Representable(Spoken[k].content))) \ Unplaced(Spoken[k]) \subseteq
                       UNION {ToSet(Flow(m.content)) : m \in ToSet(sent.messages)}
    BY <2>3, LangChainTold
  <2> QED BY <2>1, <2>2, <2>3 DEF NothingLost
<1> QED
  BY <1>1, ConvInvHolds, PTL

-----------------------------------------------------------------------------
\* The conversation alternates: the user, and n times the model's answer and
\* the user again.  Every answer is what the model said, as the client has it.
Speaker(t, n) ==
    /\ IsSeq(t) /\ n \in Nat /\ Len(t) = 2 * n + 1
    /\ \A k \in 0..n : t[2 * k + 1].role = "user"
    /\ \A k \in 1..n : t[2 * k].role = "assistant"
Quotes(t, s, n) == \A k \in 1..n : s[k] \in Answers[provider] /\ t[2 * k].content = AnswerOf(provider, s[k])
Heeded(t, s, n) == Speaker(t, n) /\ IsSeq(s) /\ Quotes(t, s, n)
Asking == phase \in {"request", "refused", "internal", "sent"}
Replying == phase \in {"answered", "result", "response"}
SaidInv ==
    /\ ConvInv
    /\ \E n \in Nat :
          /\ Heeded(Turns(request.messages), said, n)
          /\ Asking => Len(said) = n
          /\ Replying => Len(said) = n + 1 /\ said[n + 1] = raw

LEMMA OneSpeaker ==
    ASSUME NEW c
    PROVE  Speaker(<<User(c)>>, 0) /\ Turns(<<User(c)>>) = <<User(c)>>
<1> DEFINE t == <<User(c)>>
<1>1. IsSeq(t) /\ Len(t) = 1 /\ t[1] = User(c)
  BY SingleSeq
<1> HIDE DEF t
<1>2. t[1].role = "user"
  BY <1>1 DEF User
<1>3. \A k \in 0..0 : 2 * k + 1 = 1
  OBVIOUS
<1>4. Speaker(t, 0)
  BY <1>1, <1>2, <1>3 DEF Speaker
<1>5. \A k \in 1..Len(t) : t[k].role # "system"
  <2>1. \A k \in 1..Len(t) : k = 1
    BY <1>1
  <2> QED BY <1>2, <2>1
<1> QED
  BY <1>1, <1>4, <1>5, AllTurns DEF t

Answering(w, t, n, x) == Speaker(w, n + 1) /\ w[2 * (n + 1)] = x /\ \A k \in 1..n : w[2 * k] = t[2 * k]

LEMMA SpeakerMore ==
    ASSUME NEW t, NEW n, Speaker(t, n), NEW e, IsSeq(e), Len(e) = 2, e[1].role = "assistant", e[2].role = "user"
    PROVE  Answering(t \o e, t, n, e[1])
<1> DEFINE w == t \o e
<1>1. Joined(w, t, e)
  BY ConcatJoins DEF Speaker
<1> HIDE DEF w
<1>2. n \in Nat /\ Len(t) = 2 * n + 1
  BY DEF Speaker
<1>3. IsSeq(w) /\ Len(w) = Len(t) + 2 /\ \A i \in 1..Len(t) : w[i] = t[i]
  BY <1>1 DEF Joined
<1>4. w[Len(t) + 1] = e[1] /\ w[Len(t) + 2] = e[2]
  <2>1. 1 \in 1..Len(e) /\ 2 \in 1..Len(e)
    OBVIOUS
  <2> QED BY <1>1, <2>1 DEF Joined
<1>5. Len(w) = 2 * (n + 1) + 1 /\ n + 1 \in Nat /\ Len(t) + 1 = 2 * (n + 1) /\ Len(t) + 2 = 2 * (n + 1) + 1
  BY <1>2, <1>3
<1>6. \A k \in 1..n : w[2 * k] = t[2 * k]
  <2> SUFFICES ASSUME NEW k \in 1..n
               PROVE  w[2 * k] = t[2 * k]
    OBVIOUS
  <2>1. 2 * k \in 1..Len(t)
    BY <1>2
  <2> QED BY <1>3, <2>1
<1>7. ASSUME NEW k \in 0..(n + 1)
      PROVE  w[2 * k + 1].role = "user"
  <2>1. CASE k = n + 1
    BY <1>4, <1>5, <2>1
  <2>2. CASE k # n + 1
    <3>1. k \in 0..n /\ 2 * k + 1 \in 1..Len(t)
      BY <1>2, <2>2
    <3> QED BY <1>3, <3>1 DEF Speaker
  <2> QED BY <2>1, <2>2
<1>8. ASSUME NEW k \in 1..(n + 1)
      PROVE  w[2 * k].role = "assistant"
  <2>1. CASE k = n + 1
    BY <1>4, <1>5, <2>1
  <2>2. CASE k # n + 1
    <3>1. k \in 1..n
      BY <1>2, <2>2
    <3> QED BY <1>6, <3>1 DEF Speaker
  <2> QED BY <2>1, <2>2
<1>9. Speaker(w, n + 1)
  BY <1>3, <1>5, <1>7, <1>8 DEF Speaker
<1>10. Answering(w, t, n, e[1])
  BY <1>4, <1>5, <1>6, <1>9 DEF Answering
<1> QED
  BY <1>10 DEF w

LEMMA HeededMore ==
    ASSUME NEW t, NEW s, NEW n, Heeded(t, s, n), NEW a \in Answers[provider], s[n + 1] = a,
           NEW results, NEW c, NEW first
    PROVE  Heeded(t \o Exchange(AnswerOf(provider, a), results, c, first), s, n + 1)
<1> DEFINE e == Exchange(AnswerOf(provider, a), results, c, first)
           w == t \o e
<1>1. IsSeq(e) /\ Len(e) = 2 /\ e[1] = Turn(AnswerOf(provider, a)) /\ e[2] = Saying(results, c, first)
  BY ExchangeIs
<1>2. e[1].role = "assistant" /\ e[1].content = AnswerOf(provider, a) /\ e[2].role = "user"
  BY <1>1 DEF Turn, Saying, User
<1> HIDE DEF e
<1>3. Speaker(w, n + 1) /\ w[2 * (n + 1)] = e[1] /\ (\A k \in 1..n : w[2 * k] = t[2 * k]) /\ n \in Nat
  <2>1. Speaker(t, n) /\ n \in Nat
    BY DEF Heeded, Speaker
  <2>2. IsSeq(e) /\ Len(e) = 2 /\ e[1].role = "assistant" /\ e[2].role = "user"
    BY <1>1, <1>2
  <2>3. Answering(w, t, n, e[1])
    BY <2>1, <2>2, SpeakerMore
  <2> QED BY <2>1, <2>3 DEF Answering
<1> HIDE DEF w
<1>4. ASSUME NEW k \in 1..(n + 1)
      PROVE  s[k] \in Answers[provider] /\ w[2 * k].content = AnswerOf(provider, s[k])
  <2>1. CASE k = n + 1
    BY <1>2, <1>3, <2>1
  <2>2. CASE k # n + 1
    <3>1. k \in 1..n
      BY <1>3, <2>2
    <3> QED BY <1>3, <3>1 DEF Heeded, Quotes
  <2> QED BY <2>1, <2>2
<1>5. Heeded(w, s, n + 1)
  BY <1>3, <1>4 DEF Heeded, Quotes
<1> QED
  BY <1>5 DEF w, e

LEMMA HeededAppend ==
    ASSUME NEW t, NEW s, NEW n, Heeded(t, s, n), Len(s) = n, NEW a
    PROVE  Heeded(t, Append(s, a), n) /\ Len(Append(s, a)) = n + 1 /\ Append(s, a)[n + 1] = a
<1> DEFINE w == Append(s, a)
<1>1. Extended(w, s, a)
  BY AppendExtends DEF Heeded
<1> HIDE DEF w
<1>2. IsSeq(w) /\ Len(w) = n + 1 /\ w[n + 1] = a /\ \A k \in 1..n : w[k] = s[k]
  BY <1>1 DEF Extended
<1>3. Heeded(t, w, n)
  BY <1>2 DEF Heeded, Quotes
<1> QED
  BY <1>2, <1>3 DEF w

LEMMA SaidStarts ==
    ASSUME ConvInit
    PROVE  SaidInv
<1>1. PICK s \in Settings, c \in Contents : request = [s EXCEPT !.messages = Append(@, User(c))]
  BY DEF ConvInit
<1>2. request.messages = <<User(c)>>
  BY <1>1, OpeningIs
<1>3. Speaker(Turns(request.messages), 0)
  BY <1>2, OneSpeaker
<1>4. said = <<>> /\ IsSeq(said) /\ Len(said) = 0 /\ phase = "request"
  BY EmptyIsSeq DEF ConvInit
<1>5. Heeded(Turns(request.messages), said, 0)
  BY <1>3, <1>4 DEF Heeded, Quotes
<1> QED
  BY <1>4, <1>5, ConvInitHolds DEF SaidInv, Asking, Replying

LEMMA ContinueSays ==
    ASSUME ConvInv, NEW c \in FollowUps, NEW inner \in FollowUps, NEW first \in BOOLEAN,
           NEW aside \in Asides, Continue(c, inner, first, aside)
    PROVE  /\ raw \in Answers[provider]
           /\ \E results, d, f :
                 Turns(request'.messages) =
                     Turns(request.messages) \o Exchange(AnswerOf(provider, raw), results, d, f)
<1>1. phase = "response"
  BY DEF Continue
<1>2. response = ToResponse(result) /\ result = Parsed /\ raw \in Answers[provider]
  BY <1>1 DEF ConvInv, Follows
<1>3. response.content = AnswerOf(provider, raw)
  BY <1>2 DEF AnswerOf, Parsed
<1>4. PICK results, d, f :
          Turns(request'.messages) = Turns(request.messages) \o Exchange(response.content, results, d, f)
  BY ContinueTurns DEF NextTurns
<1> QED
  BY <1>2, <1>3, <1>4

LEMMA SaidStep ==
    ASSUME SaidInv, [ConvNext]_convVars
    PROVE  SaidInv'
<1> DEFINE t == Turns(request.messages)
           u == Turns(request'.messages)
<1>1. ConvInv /\ ConvInv'
  BY ConvStep DEF SaidInv
<1>2. PICK n \in Nat : /\ Heeded(t, said, n) /\ (Asking => Len(said) = n)
                       /\ (Replying => Len(said) = n + 1 /\ said[n + 1] = raw)
  BY DEF SaidInv
<1>3. UNCHANGED provider
  BY DEF ConvNext, Adapt, Send, Answer, Parse, Respond, Continue, convVars
<1>4. CASE UNCHANGED <<request, said, raw>> /\ (Asking <=> Asking') /\ (Replying <=> Replying')
  BY <1>1, <1>2, <1>3, <1>4 DEF SaidInv, Heeded, Quotes
<1>5. ASSUME NEW a \in Answers[provider], Answer(a)
      PROVE  SaidInv'
  <2>1. Asking /\ ~Asking' /\ raw' = a /\ said' = Append(said, a) /\ UNCHANGED request
    BY <1>5 DEF Answer, Asking
  <2>2. Heeded(t, said', n) /\ Len(said') = n + 1 /\ said'[n + 1] = raw'
    BY <1>2, <2>1, HeededAppend
  <2>3. Heeded(Turns(request.messages), said, n)'
    BY <1>3, <2>1, <2>2 DEF Heeded, Quotes
  <2> QED BY <1>1, <2>1, <2>2, <2>3 DEF SaidInv
<1>6. ASSUME NEW c \in FollowUps, NEW inner \in FollowUps, NEW first \in BOOLEAN, NEW aside \in Asides,
             Continue(c, inner, first, aside)
      PROVE  SaidInv'
  <2>1. Replying /\ ~Replying' /\ UNCHANGED said
    BY <1>6 DEF Continue, Replying
  <2>2. PICK results, d, f : u = t \o Exchange(AnswerOf(provider, raw), results, d, f)
    BY <1>1, <1>6, ContinueSays
  <2>3. raw \in Answers[provider]
    BY <1>1, <1>6, ContinueSays
  <2> HIDE DEF t, u
  <2>4. Heeded(u, said, n + 1) /\ Len(said) = n + 1 /\ n + 1 \in Nat
    BY <1>2, <2>1, <2>2, <2>3, HeededMore
  <2>5. Heeded(Turns(request.messages), said, n + 1)'
    BY <1>3, <2>1, <2>4 DEF Heeded, Quotes, u
  <2> QED BY <1>1, <2>1, <2>4, <2>5 DEF SaidInv
<1>7. \/ UNCHANGED <<request, said, raw>> /\ (Asking <=> Asking') /\ (Replying <=> Replying')
      \/ \E a \in Answers[provider] : Answer(a)
      \/ \E c, inner \in FollowUps, first \in BOOLEAN, aside \in Asides : Continue(c, inner, first, aside)
  BY DEF ConvNext, Adapt, Send, Parse, Respond, convVars, Asking, Replying
<1> QED
  BY <1>4, <1>5, <1>6, <1>7

LEMMA SaidInvHolds == ConvSpec => []SaidInv
<1>1. ConvInit => SaidInv
  BY SaidStarts
<1>2. SaidInv /\ [ConvNext]_convVars => SaidInv'
  BY SaidStep
<1> QED
  BY <1>1, <1>2, PTL DEF ConvSpec

-----------------------------------------------------------------------------
\* What is chosen of two sequences is chosen of each.
Chosen(s, X) == Kept(s, {i \in DOMAIN s : s[i] \in X})

LEMMA ChosenTogether ==
    ASSUME NEW s, IsSeq(s), NEW t, IsSeq(t), NEW X
    PROVE  Chosen(s \o t, X) = Chosen(s, X) \o Chosen(t, X)
<1> DEFINE u == s \o t
           K == {i \in DOMAIN u : u[i] \in X}
           I == {i \in DOMAIN s : s[i] \in X}
           J == {i \in DOMAIN t : t[i] \in X}
<1>1. Chosen(u, X) = Kept(u, K) /\ Chosen(s, X) = Kept(s, I) /\ Chosen(t, X) = Kept(t, J)
  BY DEF Chosen
<1>2. Joined(u, s, t)
  BY ConcatJoins
<1>3. Len(s) \in Nat /\ Len(t) \in Nat /\ DOMAIN s = 1..Len(s) /\ DOMAIN t = 1..Len(t)
  BY SeqShape
<1> HIDE DEF u
<1>4. \A i \in 1..Len(s) : i \in K <=> i \in I
  <2> SUFFICES ASSUME NEW i \in 1..Len(s)
               PROVE  i \in K <=> i \in I
    OBVIOUS
  <2>1. i \in DOMAIN u /\ u[i] = s[i] /\ i \in DOMAIN s
    BY <1>2, <1>3 DEF Joined
  <2> QED BY <2>1
<1>5. \A i \in 1..Len(t) : Len(s) + i \in K <=> i \in J
  <2> SUFFICES ASSUME NEW i \in 1..Len(t)
               PROVE  Len(s) + i \in K <=> i \in J
    OBVIOUS
  <2>1. Len(s) + i \in DOMAIN u /\ u[Len(s) + i] = t[i] /\ i \in DOMAIN t
    BY <1>2, <1>3 DEF Joined
  <2> QED BY <2>1
<1> HIDE DEF K, I, J
<1>6. Kept(s \o t, K) = Kept(s, I) \o Kept(t, J)
  <2>1. Splits(K, I, J, Len(s), Len(t))
    BY <1>4, <1>5 DEF Splits
  <2> QED BY <2>1, KeptConcat
<1> QED
  BY <1>1, <1>6 DEF u

LEMMA HasElements ==
    ASSUME NEW s, IsSeq(s), NEW t, IsSeq(t)
    PROVE  /\ \A i \in DOMAIN s : s[i] \in ToSet(s \o t)
           /\ \A i \in DOMAIN t : t[i] \in ToSet(s \o t)
<1> DEFINE u == s \o t
<1>1. ToSet(u) = ToSet(s) \cup ToSet(t)
  BY ConcatHas
<1> HIDE DEF u
<1>2. /\ \A i \in DOMAIN s : s[i] \in ToSet(s)
      /\ \A i \in DOMAIN t : t[i] \in ToSet(t)
  BY DEF ToSet
<1> QED
  BY <1>1, <1>2 DEF u

\* The turns of the model among messages, sent or to be sent.
Replies(s) == Kept(s, {k \in DOMAIN s : s[k].role \in {"assistant", "ai"}})

LEMMA RepliesTogether ==
    ASSUME NEW s, IsSeq(s), NEW t, IsSeq(t)
    PROVE  Replies(s \o t) = Replies(s) \o Replies(t)
<1> DEFINE u == s \o t
           X == {m \in ToSet(u) : m.role \in {"assistant", "ai"}}
<1>1. \A i \in DOMAIN u : u[i] \in ToSet(u)
  BY DEF ToSet
<1>2. (\A i \in DOMAIN s : s[i] \in ToSet(u)) /\ (\A i \in DOMAIN t : t[i] \in ToSet(u))
  BY HasElements
<1> HIDE DEF u
<1>3. Chosen(u, X) = Replies(u) /\ Chosen(s, X) = Replies(s) /\ Chosen(t, X) = Replies(t)
  <2>1. /\ {i \in DOMAIN u : u[i] \in X} = {i \in DOMAIN u : u[i].role \in {"assistant", "ai"}}
        /\ {i \in DOMAIN s : s[i] \in X} = {i \in DOMAIN s : s[i].role \in {"assistant", "ai"}}
        /\ {i \in DOMAIN t : t[i] \in X} = {i \in DOMAIN t : t[i].role \in {"assistant", "ai"}}
    BY <1>1, <1>2
  <2> QED BY <2>1 DEF Chosen, Replies
<1> HIDE DEF X
<1>4. Chosen(u, X) = Chosen(s, X) \o Chosen(t, X)
  BY ChosenTogether DEF u
<1> QED
  BY <1>3, <1>4 DEF u

LEMMA AllReplies ==
    ASSUME NEW s, IsSeq(s), \A k \in 1..Len(s) : s[k].role \in {"assistant", "ai"}
    PROVE  Replies(s) = s
<1> DEFINE I == {k \in DOMAIN s : s[k].role \in {"assistant", "ai"}}
<1>1. 1..Len(s) \subseteq I
  BY SeqShape
<1>2. Replies(s) = Kept(s, I)
  BY DEF Replies
<1> HIDE DEF I
<1> QED
  BY <1>1, <1>2, KeptWhole

LEMMA NoReplies ==
    ASSUME NEW s, IsSeq(s), \A k \in 1..Len(s) : s[k].role \notin {"assistant", "ai"}
    PROVE  Replies(s) = <<>>
<1> DEFINE I == {k \in DOMAIN s : s[k].role \in {"assistant", "ai"}}
<1>1. \A k \in 1..Len(s) : k \notin I
  BY SeqShape
<1>2. Replies(s) = Kept(s, I)
  BY DEF Replies
<1> HIDE DEF I
<1> QED
  BY <1>1, <1>2, KeptNone

\* Of messages that come from alternating turns, those of the model.
Alternates(ss, n) ==
    /\ AreSeqs(ss) /\ n \in Nat /\ Len(ss) = 2 * n + 1
    /\ \A k \in 0..n : \A j \in 1..Len(ss[2 * k + 1]) : ss[2 * k + 1][j].role \notin {"assistant", "ai"}
    /\ \A k \in 1..n : Len(ss[2 * k]) = 1 /\ ss[2 * k][1].role \in {"assistant", "ai"}
Collected(w, ss, n) == IsSeq(w) /\ Len(w) = n /\ \A k \in 1..n : w[k] = ss[2 * k][1]

LEMMA CollectedMore ==
    ASSUME NEW ss, NEW n \in Nat, NEW w, Collected(w, ss, n), IsSeq(ss[2 * (n + 1)]), Len(ss[2 * (n + 1)]) = 1
    PROVE  Collected(w \o ss[2 * (n + 1)], ss, n + 1)
<1> DEFINE e == ss[2 * (n + 1)]
           v == w \o e
<1>1. IsSeq(w) /\ Len(w) = n /\ IsSeq(e) /\ Len(e) = 1
  BY DEF Collected
<1> HIDE DEF e
<1>2. Joined(v, w, e)
  BY <1>1, ConcatJoins
<1> HIDE DEF v
<1>3. IsSeq(v) /\ Len(v) = n + 1 /\ (\A i \in 1..n : v[i] = w[i]) /\ v[n + 1] = e[1]
  <2>1. 1 \in 1..Len(e)
    BY <1>1
  <2> QED BY <1>1, <1>2, <2>1 DEF Joined
<1>4. ASSUME NEW k \in 1..(n + 1)
      PROVE  v[k] = ss[2 * k][1]
  <2>1. CASE k = n + 1
    BY <1>3, <2>1 DEF e
  <2>2. CASE k # n + 1
    <3>1. k \in 1..n
      BY <2>2
    <3> QED BY <1>3, <3>1 DEF Collected
  <2> QED BY <2>1, <2>2
<1>5. Collected(v, ss, n + 1)
  BY <1>3, <1>4 DEF Collected
<1> QED
  BY <1>5 DEF v, e

LEMMA RepliesOfTurns ==
    ASSUME NEW ss, NEW n, Alternates(ss, n)
    PROVE  Collected(Replies(FlattenSeq(ss)), ss, n)
<1> DEFINE P(m) == Collected(Replies(Flat(ss, 2 * m + 1)), ss, m)
           T == {m \in Nat : m <= n => P(m)}
<1>1. AreSeqs(ss) /\ IsSeq(ss) /\ n \in Nat /\ Len(ss) = 2 * n + 1
  BY DEF Alternates, AreSeqs
<1>2. ASSUME NEW k \in 0..n
      PROVE  IsSeq(ss[2 * k + 1]) /\ Replies(ss[2 * k + 1]) = <<>>
  <2>1. 2 * k + 1 \in 1..Len(ss)
    BY <1>1
  <2>2. IsSeq(ss[2 * k + 1])
    BY <1>1, <2>1, SeqShape DEF AreSeqs
  <2>3. \A j \in 1..Len(ss[2 * k + 1]) : ss[2 * k + 1][j].role \notin {"assistant", "ai"}
    BY DEF Alternates
  <2> QED BY <2>2, <2>3, NoReplies
<1>3. ASSUME NEW k \in 1..n
      PROVE  IsSeq(ss[2 * k]) /\ Len(ss[2 * k]) = 1 /\ Replies(ss[2 * k]) = ss[2 * k]
  <2>1. 2 * k \in 1..Len(ss)
    BY <1>1
  <2>2. IsSeq(ss[2 * k])
    BY <1>1, <2>1, SeqShape DEF AreSeqs
  <2>3. Len(ss[2 * k]) = 1 /\ ss[2 * k][1].role \in {"assistant", "ai"}
    BY DEF Alternates
  <2>4. \A j \in 1..Len(ss[2 * k]) : j = 1
    BY <2>3
  <2> QED BY <2>2, <2>3, <2>4, AllReplies
<1>4. P(0)
  <2>1. 0 \in 0..n /\ 2 * 0 + 1 = 1
    BY <1>1
  <2>2. Flat(ss, 1) = ss[1]
    BY FlatFirst
  <2>3. Replies(Flat(ss, 2 * 0 + 1)) = <<>>
    BY <1>2, <2>1, <2>2
  <2> QED BY <2>3, EmptyIsSeq DEF Collected
<1>5. ASSUME NEW m \in Nat, m + 1 <= n, P(m)
      PROVE  P(m + 1)
  <2> DEFINE a == Flat(ss, 2 * m + 1)
             x == ss[2 * (m + 1)]
             y == ss[2 * (m + 1) + 1]
  <2>1. /\ 2 * m + 1 \in Nat /\ (2 * m + 1) + 1 = 2 * (m + 1) /\ (2 * m + 1) + 1 <= Len(ss)
        /\ 2 * (m + 1) \in Nat /\ 2 * (m + 1) + 1 <= Len(ss) /\ m + 1 \in 1..n /\ m + 1 \in 0..n
        /\ 2 * m + 1 \in 0..Len(ss)
    BY <1>1, <1>5
  <2>2. Flat(ss, 2 * (m + 1)) = a \o x
    BY <1>1, <2>1, FlatStep
  <2>3. Flat(ss, 2 * (m + 1) + 1) = Flat(ss, 2 * (m + 1)) \o y
    BY <1>1, <2>1, FlatStep
  <2>4. IsSeq(x) /\ Len(x) = 1 /\ Replies(x) = x /\ IsSeq(y) /\ Replies(y) = <<>>
    BY <1>2, <1>3, <2>1
  <2>5. IsSeq(a)
    BY <1>1, <2>1, FlatSeq
  <2>6. Collected(Replies(a), ss, m)
    BY <1>5
  <2>7. Collected(Replies(a) \o x, ss, m + 1)
    BY <2>4, <2>6, CollectedMore
  <2> HIDE DEF a, x, y
  <2>8. IsSeq(a \o x) /\ Replies(a \o x) = Replies(a) \o x
    BY <2>4, <2>5, RepliesTogether, ConcatJoins DEF Joined
  <2>9. Replies((a \o x) \o y) = (Replies(a) \o x) \o <<>>
    <3> DEFINE b == a \o x
    <3> HIDE DEF b
    <3>1. IsSeq(b) /\ Replies(b) = Replies(a) \o x
      BY <2>8 DEF b
    <3>2. Replies(b \o y) = Replies(b) \o Replies(y)
      BY <2>4, <3>1, RepliesTogether
    <3>3. Replies(b \o y) = (Replies(a) \o x) \o <<>>
      BY <2>4, <3>1, <3>2
    <3> QED BY <3>3 DEF b
  <2>10. (Replies(a) \o x) \o <<>> = Replies(a) \o x
    BY <2>7, ConcatNone DEF Collected
  <2> QED BY <2>2, <2>3, <2>7, <2>9, <2>10
<1> HIDE DEF P
<1>6. T = Nat
  <2>1. T \in SUBSET Nat
    OBVIOUS
  <2>2. 0 \in T
    BY <1>4
  <2>3. ASSUME NEW m \in T
        PROVE  m + 1 \in T
    <3>1. m \in Nat /\ (m + 1 <= n => m <= n)
      BY <1>1
    <3> QED BY <1>5, <3>1
  <2> HIDE DEF T
  <2> QED BY <2>1, <2>2, <2>3, Induction
<1>7. P(n)
  <2>1. n \in T /\ n <= n
    BY <1>1, <1>6
  <2> QED BY <2>1
<1>8. FlattenSeq(ss) = Flat(ss, 2 * n + 1)
  BY <1>1, FlatAll
<1> QED
  BY <1>7, <1>8 DEF P

-----------------------------------------------------------------------------
\* Converse: the items of a message without its breakpoints.
Offered(s) == NotOfType(s, {"cachePoint"})

LEMMA OfferedTogether ==
    ASSUME NEW s, IsSeq(s), NEW t, IsSeq(t)
    PROVE  Offered(s \o t) = Offered(s) \o Offered(t)
<1> DEFINE u == s \o t
           X == {m \in ToSet(u) : m.type \notin {"cachePoint"}}
<1>1. \A i \in DOMAIN u : u[i] \in ToSet(u)
  BY DEF ToSet
<1>2. (\A i \in DOMAIN s : s[i] \in ToSet(u)) /\ (\A i \in DOMAIN t : t[i] \in ToSet(u))
  BY HasElements
<1> HIDE DEF u
<1>3. Chosen(u, X) = Offered(u) /\ Chosen(s, X) = Offered(s) /\ Chosen(t, X) = Offered(t)
  <2>1. /\ {i \in DOMAIN u : u[i] \in X} = {i \in DOMAIN u : u[i].type \notin {"cachePoint"}}
        /\ {i \in DOMAIN s : s[i] \in X} = {i \in DOMAIN s : s[i].type \notin {"cachePoint"}}
        /\ {i \in DOMAIN t : t[i] \in X} = {i \in DOMAIN t : t[i].type \notin {"cachePoint"}}
    BY <1>1, <1>2
  <2> QED BY <2>1 DEF Chosen, Offered, NotOfType
<1> HIDE DEF X
<1>4. Chosen(u, X) = Chosen(s, X) \o Chosen(t, X)
  BY ChosenTogether DEF u
<1> QED
  BY <1>3, <1>4 DEF u

LEMMA OfferedAll ==
    ASSUME NEW s, IsSeq(s), \A i \in 1..Len(s) : s[i].type # "cachePoint"
    PROVE  Offered(s) = s
<1> DEFINE I == {i \in DOMAIN s : s[i].type \notin {"cachePoint"}}
<1>1. 1..Len(s) \subseteq I
  BY SeqShape
<1>2. Offered(s) = Kept(s, I)
  BY DEF Offered, NotOfType
<1> HIDE DEF I
<1> QED
  BY <1>1, <1>2, KeptWhole

LEMMA OfferedNone ==
    ASSUME NEW s, IsSeq(s), \A i \in 1..Len(s) : s[i].type = "cachePoint"
    PROVE  Offered(s) = <<>>
<1> DEFINE I == {i \in DOMAIN s : s[i].type \notin {"cachePoint"}}
<1>1. \A i \in 1..Len(s) : i \notin I
  BY SeqShape
<1>2. Offered(s) = Kept(s, I)
  BY DEF Offered, NotOfType
<1> HIDE DEF I
<1> QED
  BY <1>1, <1>2, KeptNone

LEMMA OfferedAppend ==
    ASSUME NEW s, IsSeq(s), IsSeq(Offered(s)), NEW x
    PROVE  Offered(Append(s, x)) = IF x.type = "cachePoint" THEN Offered(s) ELSE Append(Offered(s), x)
<1> DEFINE h == <<x>>
<1>1. IsSeq(h) /\ Len(h) = 1 /\ h[1] = x
  BY SingleSeq
<1>2. Append(s, x) = s \o h /\ Append(Offered(s), x) = Offered(s) \o h
  BY AppendIsJoin
<1> HIDE DEF h
<1>3. Offered(s \o h) = Offered(s) \o Offered(h)
  BY <1>1, OfferedTogether
<1>4. \A i \in 1..Len(h) : h[i] = x
  BY <1>1
<1>5. CASE x.type = "cachePoint"
  <2>1. Offered(h) = <<>>
    BY <1>1, <1>4, <1>5, OfferedNone
  <2> QED BY <1>2, <1>3, <1>5, <2>1, ConcatNone
<1>6. CASE x.type # "cachePoint"
  <2>1. Offered(h) = h
    BY <1>1, <1>4, <1>6, OfferedAll
  <2> QED BY <1>2, <1>3, <1>6, <2>1
<1> QED
  BY <1>5, <1>6

\* Of the parts of an answer, each is an item of its own.
Offers(out, s, n) ==
    /\ IsSeq(out) /\ IsSeq(Offered(out)) /\ Len(Offered(out)) = n
    /\ \A i \in 1..n : Offered(out)[i] = Item(s[i])

LEMMA ItemNoPoint ==
    ASSUME NEW p, p.type \in PartTypes
    PROVE  Item(p).type # "cachePoint" /\ p.type \in PlainTypes \ {"document"}
<1>1. p.type \in PlainTypes \ {"document"}
  BY DEF PartTypes, PlainTypes
<1>2. Item(p).type = ItemType[p.type]
  BY <1>1, ItemIs
<1> QED
  BY <1>1, <1>2 DEF PartTypes, ItemType

LEMMA OffersMore ==
    ASSUME NEW out, NEW s, NEW n \in Nat, Offers(out, s, n), s[n + 1].type \in PartTypes
    PROVE  Offers(Append(out, Item(s[n + 1])), s, n + 1)
<1> DEFINE x == Item(s[n + 1])
           w == Append(out, x)
           v == Append(Offered(out), x)
<1>1. IsSeq(out) /\ IsSeq(Offered(out)) /\ Len(Offered(out)) = n
  BY DEF Offers
<1>2. x.type # "cachePoint"
  BY ItemNoPoint
<1> HIDE DEF x
<1>3. Offered(w) = v
  BY <1>1, <1>2, OfferedAppend
<1>4. IsSeq(w) /\ Extended(v, Offered(out), x)
  BY <1>1, AppendExtends DEF Extended
<1> HIDE DEF w, v
<1>5. IsSeq(v) /\ Len(v) = n + 1 /\ v[n + 1] = x /\ \A i \in 1..n : v[i] = Offered(out)[i]
  BY <1>1, <1>4 DEF Extended
<1>6. ASSUME NEW i \in 1..(n + 1)
      PROVE  v[i] = Item(s[i])
  <2>1. CASE i = n + 1
    BY <1>5, <2>1 DEF x
  <2>2. CASE i # n + 1
    <3>1. i \in 1..n
      BY <2>2
    <3> QED BY <1>5, <3>1 DEF Offers
  <2> QED BY <2>1, <2>2
<1>7. Offers(w, s, n + 1)
  BY <1>3, <1>4, <1>5, <1>6 DEF Offers
<1> QED
  BY <1>7 DEF w, x

LEMMA OffersPoint ==
    ASSUME NEW out, NEW s, NEW n, Offers(out, s, n)
    PROVE  Offers(Append(out, CachePoint), s, n)
<1> DEFINE w == Append(out, CachePoint)
<1>1. CachePoint.type = "cachePoint"
  BY DEF CachePoint, Block
<1>2. Offered(w) = Offered(out)
  BY <1>1, OfferedAppend DEF Offers
<1>3. IsSeq(w)
  BY AppendExtends DEF Offers, Extended
<1> HIDE DEF w
<1>4. Offers(w, s, n)
  BY <1>2, <1>3 DEF Offers
<1> QED
  BY <1>4 DEF w

LEMMA PartOffered ==
    ASSUME NEW acc, NEW s, NEW n \in Nat, Offers(acc.out, s, n), s[n + 1].type \in PartTypes
    PROVE  Offers(AddPart(acc, s[n + 1]).out, s, n + 1)
<1> DEFINE p == s[n + 1]
           d == With(acc, Item(p), acc.used)
<1>1. p.type \notin {"redacted_thinking", "tool_result", "document"}
  BY DEF PartTypes
<1>2. AddPart(acc, p) = IF p.cache THEN With(d, CachePoint, d.used) ELSE d
  BY <1>1 DEF AddPart, Converted, Plain
<1>3. d.out = Append(acc.out, Item(p)) /\ With(d, CachePoint, d.used).out = Append(d.out, CachePoint)
  BY WithIs
<1> HIDE DEF d
<1>4. Offers(d.out, s, n + 1)
  BY <1>3, OffersMore
<1>5. Offers(Append(d.out, CachePoint), s, n + 1)
  BY <1>4, OffersPoint
<1>6. CASE p.cache
  BY <1>2, <1>3, <1>5, <1>6
<1>7. CASE ~p.cache
  BY <1>2, <1>4, <1>7
<1> QED
  BY <1>6, <1>7

LEMMA PartsOffered ==
    ASSUME NEW s, IsSeq(s), \A i \in 1..Len(s) : s[i].type \in PartTypes, NEW names
    PROVE  Offers(AddParts(names, s).out, s, Len(s))
<1> DEFINE G(n) == Gone("parts", Started(names), s, n)
           P(n) == n <= Len(s) => Offers(G(n).out, s, n)
           T == {n \in Nat : P(n)}
<1>0. Len(s) \in Nat
  BY SeqShape
<1>1. G(0).out = <<>>
  BY GoneNone DEF Started
<1>2. ASSUME NEW n \in Nat
      PROVE  G(n + 1) = AddPart(G(n), s[n + 1])
  <2>1. G(n + 1) = Go("parts", G(n), s[n + 1])
    BY GoneStep
  <2> QED BY <2>1 DEF Go
<1>3. AddParts(names, s) = G(Len(s))
  BY PartsGo
<1> HIDE DEF G
<1>4. P(0)
  <2> DEFINE e == <<>>
  <2>1. IsSeq(e) /\ Len(e) = 0 /\ e = <<>>
    BY EmptyIsSeq
  <2> HIDE DEF e
  <2>2. \A i \in 1..Len(e) : e[i].type = "cachePoint"
    BY <2>1
  <2>3. Offered(e) = <<>>
    BY <2>1, <2>2, OfferedNone
  <2>4. Offers(e, s, 0)
    BY <2>1, <2>3 DEF Offers
  <2> QED BY <1>1, <2>1, <2>4
<1>5. ASSUME NEW n \in Nat, P(n)
      PROVE  P(n + 1)
  <2> SUFFICES ASSUME n + 1 <= Len(s)
               PROVE  Offers(G(n + 1).out, s, n + 1)
    OBVIOUS
  <2>1. n + 1 \in 1..Len(s) /\ Offers(G(n).out, s, n)
    BY <1>0, <1>5
  <2> QED BY <1>2, <2>1, PartOffered
<1> HIDE DEF P
<1>6. T = Nat
  <2>1. T \in SUBSET Nat
    OBVIOUS
  <2>2. 0 \in T /\ \A n \in T : n + 1 \in T
    BY <1>4, <1>5
  <2> HIDE DEF T
  <2> QED BY <2>1, <2>2, Induction
<1>7. P(Len(s))
  BY <1>0, <1>6
<1>8. Offers(G(Len(s)).out, s, Len(s))
  BY <1>0, <1>7 DEF P
<1> QED
  BY <1>3, <1>8

LEMMA LenNone ==
    ASSUME NEW s, IsSeq(s)
    PROVE  s = <<>> <=> Len(s) = 0
<1>1. Len(s) = 0 => s = <<>>
  BY EmptyIsSeq, SeqSame
<1>2. Len(<<>>) = 0
  BY EmptyIsSeq
<1> QED
  BY <1>1, <1>2

\* A piece of an answer, when it is sent again.
LEMMA PieceComesBack ==
    ASSUME NEW b, Simple(b), b.type \notin Named["bedrock"] => b.id = "",
           NEW q, Answered(q, b), NEW c, Returned(c, q), NEW p, Outward(p, c)
    PROVE  p.type \in PartTypes /\ Piece(Item(p)) = Taken(b)
<1>0. q.body = SaidBy(b) /\ q.id = SignedBy(b) /\ Simple(q)
  BY AnsweredSimple DEF Answered
<1>1. IsSeq(q.body) /\ c.body = q.body /\ c.id = q.id /\ c.content = <<>>
  BY <1>0 DEF Returned, Simple, IsBlock
<1>2. p.body = c.body /\ p.id = c.id /\ p.type = PartType(c) /\ p.content = <<>>
  <2>1. IsSeq(p.content) /\ Len(p.content) = Len(c.content)
    BY DEF Outward, IsBlock
  <2>2. Len(c.content) = 0
    BY <1>1, EmptyIsSeq
  <2>3. p.content = <<>>
    BY <2>1, <2>2, LenNone
  <2> QED BY <2>3 DEF Outward
<1>3. p.type = IF b.type = "toolUse" THEN "tool_call" ELSE
               IF b.type \in {"reasoningContent", "redactedContent"} THEN "thinking" ELSE
               IF b.type = "image" THEN "image" ELSE "text"
  BY <1>2 DEF Answered, Returned, PartType, ServerResults
<1>4. p.type \in PartTypes
  BY <1>3 DEF PartTypes
<1>5. Item(p).type = ItemType[p.type] /\ Item(p).id = SignedBy(b) /\ Item(p).body = SaidBy(b)
  <2>1. Item(p).type = ItemType[p.type] /\ Item(p).id = p.id /\ Item(p).body = p.body \o Bodies(p.content)
    BY <1>4, ItemNoPoint, ItemIs
  <2>2. p.body \o Bodies(p.content) = p.body
    BY <1>1, <1>2, NothingSaid, ConcatNone
  <2> QED BY <1>0, <1>1, <1>2, <2>1, <2>2
<1>6. Piece(Item(p)) = <<ItemType[p.type], SaidBy(b), SignedBy(b)>>
  BY <1>5 DEF Piece
<1>7. /\ ItemType["tool_call"] = "toolUse" /\ ItemType["thinking"] = "reasoningContent"
      /\ ItemType["image"] = "image" /\ ItemType["text"] = "text"
  BY DEF ItemType
<1>8. CASE b.type \in {"toolUse", "reasoningContent", "image"}
  <2>1. ItemType[p.type] = b.type
    BY <1>3, <1>7, <1>8
  <2>2. SaidBy(b) = b.body /\ SignedBy(b) = b.id
    BY <1>8 DEF SaidBy, SignedBy
  <2>3. Taken(b) = <<b.type, b.body, b.id>>
    BY <1>8 DEF Taken, Piece
  <2> QED BY <1>4, <1>6, <2>1, <2>2, <2>3
<1>9. CASE b.type = "redactedContent"
  <2>1. ItemType[p.type] = "reasoningContent"
    BY <1>3, <1>7, <1>9
  <2>2. SaidBy(b) = Printed(b.body) /\ SignedBy(b) = ""
    BY <1>9 DEF SaidBy, SignedBy
  <2>3. Taken(b) = <<"reasoningContent", Printed(b.body), "">>
    BY <1>9 DEF Taken
  <2> QED BY <1>4, <1>6, <2>1, <2>2, <2>3
<1>10. CASE b.type \notin {"toolUse", "reasoningContent", "image", "redactedContent"}
  <2>1. ItemType[p.type] = "text"
    BY <1>3, <1>7, <1>10
  <2>2. b.id = ""
    BY <1>10 DEF Named
  <2>3. SaidBy(b) = b.body /\ SignedBy(b) = ""
    BY <1>10, <2>2 DEF SaidBy, SignedBy
  <2>4. Taken(b) = <<"text", b.body, "">>
    BY <1>10 DEF Taken
  <2> QED BY <1>4, <1>6, <2>1, <2>3, <2>4
<1> QED
  BY <1>8, <1>9, <1>10

\* The message a turn of the model becomes, when the model has said something.
GivenBack(x, a) ==
    a.content # <<>> =>
        [i \in DOMAIN Offered(x.content) |-> Piece(Offered(x.content)[i])] =
            [i \in DOMAIN a.content |-> Taken(a.content[i])]

LEMMA ConverseGivesBack ==
    ASSUME "bedrock" \in Backends, NEW a \in Answers["bedrock"], NEW s, IsSeq(s),
           Len(s) = Len(AnswerOf("bedrock", a)),
           \A i \in 1..Len(s) : Outward(s[i], AnswerOf("bedrock", a)[i]),
           NEW names, NEW x, x.content = AddParts(names, s).out
    PROVE  GivenBack(x, a)
<1> SUFFICES ASSUME a.content # <<>>
             PROVE  [i \in DOMAIN Offered(x.content) |-> Piece(Offered(x.content)[i])] =
                        [i \in DOMAIN a.content |-> Taken(a.content[i])]
  BY DEF GivenBack
<1> DEFINE r == FromBedrock(a)
           c == AnswerOf("bedrock", a)
           w == Offered(x.content)
<1>1. Parts(r.content) /\ Len(r.content) = Len(a.content) /\ \A i \in 1..Len(a.content) : r.content[i] = BedrockPart(a.content[i])
  BY ConverseParts
<1>2. /\ IsSeq(a.content) /\ \A i \in DOMAIN a.content : Simple(a.content[i])
      /\ \A i \in DOMAIN a.content : a.content[i].type \notin Named["bedrock"] => a.content[i].id = ""
  BY AnswersAssumption
<1>3. Len(a.content) \in Nat /\ DOMAIN a.content = 1..Len(a.content)
  BY <1>2, SeqShape
<1>4. r.content # <<>>
  <2>1. Len(a.content) # 0
    BY <1>2, LenNone
  <2>2. Len(<<>>) = 0
    BY EmptyIsSeq
  <2> QED BY <1>1, <2>1, <2>2
<1>5. c = ToResponse(r).content
  BY DEF AnswerOf
<1> HIDE DEF r, c
<1>6. Len(c) = Len(a.content) /\ \A i \in 1..Len(a.content) : Returned(c[i], r.content[i])
  BY <1>1, <1>4, <1>5, ResponseBlocks
<1>7. ASSUME NEW i \in 1..Len(a.content)
      PROVE  s[i].type \in PartTypes /\ Piece(Item(s[i])) = Taken(a.content[i])
  <2>1. Simple(a.content[i]) /\ (a.content[i].type \notin Named["bedrock"] => a.content[i].id = "")
    BY <1>2, <1>3
  <2>2. Answered(r.content[i], a.content[i])
    BY <1>1, <2>1, BedrockPartIs DEF Simple
  <2>3. Returned(c[i], r.content[i]) /\ Outward(s[i], c[i])
    BY <1>6 DEF c
  <2> QED BY <2>1, <2>2, <2>3, PieceComesBack
<1>8. Len(s) = Len(a.content)
  BY <1>6 DEF c
<1>9. Offers(x.content, s, Len(s))
  BY <1>7, <1>8, PartsOffered
<1>10. IsSeq(w) /\ Len(w) = Len(a.content) /\ DOMAIN w = 1..Len(a.content) /\ \A i \in 1..Len(a.content) : w[i] = Item(s[i])
  BY <1>8, <1>9, SeqShape DEF Offers
<1> HIDE DEF w
<1>11. \A i \in 1..Len(a.content) : Piece(w[i]) = Taken(a.content[i])
  BY <1>7, <1>10
<1>12. [i \in DOMAIN w |-> Piece(w[i])] = [i \in DOMAIN a.content |-> Taken(a.content[i])]
  BY <1>3, <1>10, <1>11
<1> QED
  BY <1>12 DEF w

-----------------------------------------------------------------------------
\* LangChain: a part of an answer that went to the client and came back.
LEMMA TextComesBack ==
    ASSUME NEW y, Simple(y), y.type = "text", NEW p, p = PartOf(BlockOf(y))
    PROVE  p.type = "text" /\ p.body = y.body /\ p.content = <<>> /\ IsSeq(y.body)
<1> DEFINE b == BlockOf(y)
<1>1. Returned(b, y)
  BY BlockOfReturns DEF PartTypes
<1> HIDE DEF b
<1>2. IsBlock(b) /\ b.body = y.body /\ b.content = <<>> /\ b.type = "text"
  BY <1>1 DEF Returned
<1>3. Deeply(b)
  BY <1>2, SimpleIsFlat, FlatIsDeep DEF Simple
<1>4. Outward(p, b)
  BY <1>3, PartOfIs DEF b
<1>5. p.type = "text" /\ p.body = b.body /\ IsSeq(p.content) /\ Len(p.content) = Len(b.content)
  BY <1>2, <1>4 DEF Outward, PartType, ServerResults, IsBlock
<1>6. p.content = <<>>
  BY <1>2, <1>5, EmptyIsSeq, LenNone
<1> QED
  BY <1>2, <1>5, <1>6 DEF Simple, IsBlock

LEMMA CallComesBack ==
    ASSUME NEW y, Simple(y), y.type = "tool_call"
    PROVE  PartOf(BlockOf(y)) = y
<1> DEFINE b == [y EXCEPT !.type = "tool_use"]
           p == [b EXCEPT !.type = "tool_call"]
<1>1. BlockOf(y) = b
  BY DEF BlockOf
<1>2. y = [f \in DOMAIN Block |-> y[f]]
  BY DEF Simple, IsBlock
<1>3. b.type = "tool_use"
  BY <1>2, BlockFields
<1>4. p = y
  BY <1>2, BlockFields
<1> HIDE DEF b
<1>5. PartOf(b) = [b EXCEPT !.type = "tool_call"]
  BY <1>3 DEF PartOf, ModelOf, InResults, ServerResults
<1> QED
  BY <1>1, <1>4, <1>5

\* Blocks of some types among those of two sequences.
LEMMA OfTypeTogether ==
    ASSUME NEW s, IsSeq(s), NEW t, IsSeq(t), NEW types
    PROVE  OfType(s \o t, types) = OfType(s, types) \o OfType(t, types)
<1> DEFINE u == s \o t
           X == {m \in ToSet(u) : m.type \in types}
<1>1. \A i \in DOMAIN u : u[i] \in ToSet(u)
  BY DEF ToSet
<1>2. (\A i \in DOMAIN s : s[i] \in ToSet(u)) /\ (\A i \in DOMAIN t : t[i] \in ToSet(u))
  BY HasElements
<1> HIDE DEF u
<1>3. Chosen(u, X) = OfType(u, types) /\ Chosen(s, X) = OfType(s, types) /\ Chosen(t, X) = OfType(t, types)
  <2>1. /\ {i \in DOMAIN u : u[i] \in X} = {i \in DOMAIN u : u[i].type \in types}
        /\ {i \in DOMAIN s : s[i] \in X} = {i \in DOMAIN s : s[i].type \in types}
        /\ {i \in DOMAIN t : t[i] \in X} = {i \in DOMAIN t : t[i].type \in types}
    BY <1>1, <1>2
  <2> QED BY <2>1 DEF Chosen, OfType
<1> HIDE DEF X
<1>4. Chosen(u, X) = Chosen(s, X) \o Chosen(t, X)
  BY ChosenTogether DEF u
<1> QED
  BY <1>3, <1>4 DEF u

LEMMA OfTypeAll ==
    ASSUME NEW s, IsSeq(s), NEW types, \A i \in 1..Len(s) : s[i].type \in types
    PROVE  OfType(s, types) = s
<1> DEFINE I == {i \in DOMAIN s : s[i].type \in types}
<1>1. 1..Len(s) \subseteq I
  BY SeqShape
<1>2. OfType(s, types) = Kept(s, I)
  BY DEF OfType
<1> HIDE DEF I
<1> QED
  BY <1>1, <1>2, KeptWhole

LEMMA OfTypeNone ==
    ASSUME NEW s, IsSeq(s), NEW types, \A i \in 1..Len(s) : s[i].type \notin types
    PROVE  OfType(s, types) = <<>>
<1> DEFINE I == {i \in DOMAIN s : s[i].type \in types}
<1>1. \A i \in 1..Len(s) : i \notin I
  BY SeqShape
<1>2. OfType(s, types) = Kept(s, I)
  BY DEF OfType
<1> HIDE DEF I
<1> QED
  BY <1>1, <1>2, KeptNone

\* Texts that say nothing can be left out.
Wordy(z) == {i \in DOMAIN z : z[i].type = "text" /\ z[i].body # <<>>}
Textual(z) == {i \in DOMAIN z : z[i].type \in {"text"}}
SayAlike(s, t) == SystemTexts(s) /\ SystemTexts(t) /\ Bodies(s) = Bodies(t)

LEMMA SayAlikeMore ==
    ASSUME NEW s, NEW t, SayAlike(s, t), NEW c, NEW d, SayAlike(c, d)
    PROVE  SayAlike(s \o c, t \o d)
<1>1. SystemTexts(s \o c) /\ Bodies(s \o c) = Bodies(s) \o Bodies(c)
  BY TextsTogether DEF SayAlike
<1>2. SystemTexts(t \o d) /\ Bodies(t \o d) = Bodies(t) \o Bodies(d)
  BY TextsTogether DEF SayAlike
<1> QED
  BY <1>1, <1>2 DEF SayAlike

LEMMA NoneAlike == SayAlike(<<>>, <<>>)
  BY NoTexts DEF SayAlike

LEMMA WordsAlike ==
    ASSUME NEW z, IsSeq(z), \A i \in 1..Len(z) : Simple(z[i])
    PROVE  SayAlike(Kept(z, Wordy(z)), Texts(z))
<1> DEFINE ss == Singles(z, Wordy(z))
           tt == Singles(z, Textual(z))
           P(n) == n <= Len(z) => SayAlike(Flat(ss, n), Flat(tt, n))
           T == {n \in Nat : P(n)}
<1>1. /\ Len(z) \in Nat /\ DOMAIN z = 1..Len(z)
      /\ AreSeqs(ss) /\ Len(ss) = Len(z) /\ AreSeqs(tt) /\ Len(tt) = Len(z)
      /\ \A i \in 1..Len(z) : ss[i] = IF i \in Wordy(z) THEN <<z[i]>> ELSE <<>>
      /\ \A i \in 1..Len(z) : tt[i] = IF i \in Textual(z) THEN <<z[i]>> ELSE <<>>
  BY SinglesSeqs, SeqShape
<1>2. Kept(z, Wordy(z)) = Flat(ss, Len(z)) /\ Texts(z) = Flat(tt, Len(z))
  BY KeptIsFlat DEF Texts, OfType, Textual
<1> HIDE DEF ss, tt
<1>3. ASSUME NEW i \in 1..Len(z)
      PROVE  SayAlike(ss[i], tt[i])
  <2>1. CASE z[i].type # "text"
    <3>1. i \notin Wordy(z) /\ i \notin Textual(z)
      BY <2>1 DEF Wordy, Textual
    <3>2. ss[i] = <<>> /\ tt[i] = <<>>
      BY <1>1, <3>1
    <3> QED BY <3>2, NoneAlike
  <2>2. CASE z[i].type = "text"
    <3> DEFINE h == <<z[i]>>
    <3>1. SystemTexts(h) /\ Bodies(h) = z[i].body
      BY <2>2, OneText
    <3>2. i \in Textual(z) /\ (i \in Wordy(z) <=> z[i].body # <<>>)
      BY <1>1, <2>2 DEF Wordy, Textual
    <3>3. tt[i] = h /\ ss[i] = IF z[i].body # <<>> THEN h ELSE <<>>
      BY <1>1, <3>2
    <3> HIDE DEF h
    <3>4. CASE z[i].body # <<>>
      BY <3>1, <3>3, <3>4 DEF SayAlike
    <3>5. CASE z[i].body = <<>>
      BY <3>1, <3>3, <3>5, NoTexts, NothingSaid DEF SayAlike
    <3> QED BY <3>4, <3>5
  <2> QED BY <2>1, <2>2
<1>4. P(0)
  BY FlatNone, NoneAlike
<1>5. ASSUME NEW n \in Nat, P(n)
      PROVE  P(n + 1)
  <2> SUFFICES ASSUME n + 1 <= Len(z)
               PROVE  SayAlike(Flat(ss, n + 1), Flat(tt, n + 1))
    OBVIOUS
  <2>1. n + 1 \in 1..Len(z) /\ SayAlike(Flat(ss, n), Flat(tt, n))
    BY <1>1, <1>5
  <2>2. Flat(ss, n + 1) = Flat(ss, n) \o ss[n + 1] /\ Flat(tt, n + 1) = Flat(tt, n) \o tt[n + 1]
    BY <1>1, FlatStep
  <2>3. SayAlike(ss[n + 1], tt[n + 1])
    BY <1>3, <2>1
  <2>4. SayAlike(Flat(ss, n) \o ss[n + 1], Flat(tt, n) \o tt[n + 1])
    BY <2>1, <2>3, SayAlikeMore
  <2> QED BY <2>2, <2>4
<1> HIDE DEF P
<1>6. T = Nat
  <2>1. T \in SUBSET Nat
    OBVIOUS
  <2>2. 0 \in T /\ \A n \in T : n + 1 \in T
    BY <1>4, <1>5
  <2> HIDE DEF T
  <2> QED BY <2>1, <2>2, Induction
<1>7. P(Len(z))
  BY <1>1, <1>6
<1> QED
  BY <1>1, <1>2, <1>7 DEF P

-----------------------------------------------------------------------------
\* LangChain: the message a turn of the model becomes.
LEMMA TailOf ==
    ASSUME NEW x, NEW v, IsSeq(v)
    PROVE  (<<x>> \o v)[1] = x /\ Tail(<<x>> \o v) = v
<1> DEFINE h == <<x>>
           w == h \o v
           S == {w[i] : i \in DOMAIN w}
<1>1. IsSeq(h) /\ Len(h) = 1 /\ h[1] = x
  BY SingleSeq
<1> HIDE DEF h
<1>2. Joined(w, h, v)
  BY <1>1, ConcatJoins
<1> HIDE DEF w
<1>3. IsSeq(w) /\ Len(w) = 1 + Len(v) /\ Len(v) \in Nat /\ \A i \in 1..Len(v) : w[1 + i] = v[i]
  BY <1>1, <1>2, SeqShape DEF Joined
<1>4. w[1] = x
  <2>1. 1 \in 1..Len(h)
    BY <1>1
  <2> QED BY <1>1, <1>2, <2>1 DEF Joined
<1>5. w \in Seq(S)
  <2>1. \A i \in DOMAIN w : w[i] \in S
    OBVIOUS
  <2> HIDE DEF S
  <2> QED BY <1>3, <2>1, SeqTyped
<1> HIDE DEF S
<1>6. w # <<>>
  <2>1. Len(w) # 0
    BY <1>3
  <2> QED BY <1>3, <2>1, LenNone
<1>7. /\ Tail(w) \in Seq(S) /\ Len(Tail(w)) = Len(w) - 1
      /\ \A i \in 1..Len(Tail(w)) : Tail(w)[i] = w[i + 1]
  BY <1>5, <1>6, HeadTailProperties
<1>8. IsSeq(Tail(w)) /\ Len(Tail(w)) = Len(v)
  <2>1. Len(w) - 1 = Len(v)
    BY <1>3
  <2>2. Tail(w) \in [1..Len(Tail(w)) -> S]
    BY <1>7, LenProperties
  <2>3. Tail(w) = [i \in 1..Len(Tail(w)) |-> Tail(w)[i]]
    BY <2>2
  <2> QED BY <1>3, <1>7, <2>1, <2>3 DEF IsSeq
<1>9. \A i \in 1..Len(v) : Tail(w)[i] = v[i]
  <2> SUFFICES ASSUME NEW i \in 1..Len(v)
               PROVE  Tail(w)[i] = v[i]
    OBVIOUS
  <2>1. i + 1 = 1 + i
    BY <1>3
  <2> QED BY <1>3, <1>7, <1>8, <2>1
<1>10. Tail(w) = v
  BY <1>8, <1>9, SeqSame
<1> QED
  BY <1>4, <1>10 DEF w, h

Talk(u) == IsSeq(u) /\ \A i \in 1..Len(u) : u[i].type = "text" /\ u[i].content = <<>> /\ IsSeq(u[i].body)
Calls(v) == IsSeq(v) /\ \A i \in 1..Len(v) : v[i].type = "tool_call"

LEMMA AIMessageSays ==
    ASSUME NEW u, Talk(u), NEW v, Calls(v)
    PROVE  AIMessage(u \o v).content = <<TextItem(Bodies(u))>> \o v
<1> DEFINE s == u \o v
           T == {"text", "thinking", "document", "search_result"}
           C == {"tool_call"}
<1>1. OfType(u, T) = u /\ OfType(v, T) = <<>>
  <2>1. \A i \in 1..Len(u) : u[i].type \in T
    BY DEF Talk
  <2>2. \A i \in 1..Len(v) : v[i].type \notin T
    BY DEF Calls
  <2> QED BY <2>1, <2>2, OfTypeAll, OfTypeNone DEF Talk, Calls
<1>2. OfType(u, C) = <<>> /\ OfType(v, C) = v
  <2>1. \A i \in 1..Len(u) : u[i].type \notin C
    BY DEF Talk
  <2>2. \A i \in 1..Len(v) : v[i].type \in C
    BY DEF Calls
  <2> QED BY <2>1, <2>2, OfTypeAll, OfTypeNone DEF Talk, Calls
<1>3. OfType(s, T) = OfType(u, T) \o OfType(v, T) /\ OfType(s, C) = OfType(u, C) \o OfType(v, C)
  BY OfTypeTogether DEF Talk, Calls
<1>4. OfType(s, T) = u /\ OfType(s, C) = v
  BY <1>1, <1>2, <1>3, ConcatNone DEF Talk, Calls
<1> HIDE DEF s
<1>5. Texts(<<>>) = <<>>
  BY EmptyIsSeq, OfTypeNone DEF Texts
<1>6. ASSUME NEW i \in DOMAIN u
      PROVE  AsText(u[i]) = u[i].body
  <2>1. i \in 1..Len(u)
    BY SeqShape DEF Talk
  <2>2. u[i].content = <<>> /\ IsSeq(u[i].body)
    BY <2>1 DEF Talk
  <2>3. Bodies(Texts(u[i].content)) = <<>>
    BY <1>5, <2>2, NothingSaid
  <2> QED BY <2>2, <2>3, ConcatNone DEF AsText
<1>7. [i \in DOMAIN u |-> AsText(u[i])] = [i \in DOMAIN u |-> u[i].body]
  BY <1>6
<1>8. FlattenSeq([i \in DOMAIN u |-> AsText(u[i])]) = Bodies(u)
  BY <1>7 DEF Bodies
<1>9. AIMessage(s).content =
        <<TextItem(FlattenSeq([i \in DOMAIN OfType(s, T) |-> AsText(OfType(s, T)[i])]))>> \o OfType(s, C)
  BY DEF AIMessage
<1>10. AIMessage(s).content = <<TextItem(FlattenSeq([i \in DOMAIN u |-> AsText(u[i])]))>> \o v
  BY <1>4, <1>9
<1> QED
  BY <1>8, <1>10 DEF s

LEMMA OfferedSays ==
    ASSUME NEW b, NEW v, Calls(v)
    PROVE  Offered(<<TextItem(b)>> \o v) = <<TextItem(b)>> \o v
<1> DEFINE h == <<TextItem(b)>>
           w == h \o v
<1>1. IsSeq(h) /\ Len(h) = 1 /\ h[1] = TextItem(b)
  BY SingleSeq
<1>2. h[1].type = "text"
  BY <1>1 DEF TextItem, Block
<1> HIDE DEF h
<1>3. Joined(w, h, v) /\ IsSeq(v) /\ Len(v) \in Nat
  BY <1>1, ConcatJoins, SeqShape DEF Calls
<1> HIDE DEF w
<1>4. ASSUME NEW i \in 1..Len(w)
      PROVE  w[i].type # "cachePoint"
  <2>1. Len(w) = 1 + Len(v)
    BY <1>1, <1>3 DEF Joined
  <2>2. CASE i = 1
    <3>1. i \in 1..Len(h)
      BY <1>1, <2>2
    <3> QED BY <1>2, <1>3, <2>2, <3>1 DEF Joined
  <2>3. CASE i # 1
    <3>1. i - 1 \in 1..Len(v) /\ 1 + (i - 1) = i
      BY <1>3, <2>1, <2>3
    <3>2. w[Len(h) + (i - 1)] = v[i - 1]
      BY <1>3, <3>1 DEF Joined
    <3>3. w[i] = v[i - 1]
      BY <1>1, <3>1, <3>2
    <3> QED BY <3>1, <3>3 DEF Calls
  <2> QED BY <2>2, <2>3
<1>5. Offered(w) = w
  BY <1>3, <1>4, OfferedAll DEF Joined
<1> QED
  BY <1>5 DEF w, h

-----------------------------------------------------------------------------
\* What an AIMessage says and calls, as the parts of the result.
SaysAndCalls(s, z) ==
    \E u, v :
        /\ s = u \o v /\ u \o v # <<>>
        /\ SayAlike(u, Texts(z))
        /\ v = OfType(z, {"tool_call"}) /\ Calls(v) /\ \A i \in 1..Len(v) : Simple(v[i])

LEMMA LangChainAnswers ==
    ASSUME "langchain" \in Backends, NEW a \in Answers["langchain"]
    PROVE  SaysAndCalls(FromLangChain(a).content, a.content)
<1> DEFINE z == a.content
           u == Kept(z, Wordy(z))
           v == OfType(z, {"tool_call"})
           w == u \o v
           e == <<Block>>
<1>1. IsSeq(z) /\ \A i \in 1..Len(z) : Simple(z[i])
  BY AnswersAssumption, SeqShape
<1>2. SayAlike(u, Texts(z))
  BY <1>1, WordsAlike
<1>3. Calls(v) /\ \A i \in 1..Len(v) : Simple(v[i])
  <2> DEFINE I == {i \in DOMAIN z : z[i].type \in {"tool_call"}}
  <2>1. v = Kept(z, I)
    BY DEF OfType
  <2>2. \A i \in I \cap DOMAIN z : z[i].type = "tool_call" /\ Simple(z[i])
    BY <1>1, SeqShape
  <2> HIDE DEF I, v, z
  <2>3. KeepsOnly(v, z, I)
    BY <1>1, <2>1, KeptElements
  <2>4. IsSeq(v) /\ \A k \in DOMAIN v : v[k].type = "tool_call" /\ Simple(v[k])
    BY <2>2, <2>3 DEF KeepsOnly
  <2> QED BY <2>4, SeqShape DEF Calls
<1>4. LangChainParts(a) = w
  BY DEF LangChainParts, Wordy
<1>5. FromLangChain(a).content = IF w = <<>> THEN e ELSE w
  BY <1>4 DEF FromLangChain
<1>6. CASE w # <<>>
  <2>1. FromLangChain(a).content = w
    BY <1>5, <1>6
  <2> HIDE DEF u, z
  <2> QED BY <1>2, <1>3, <1>6, <2>1 DEF SaysAndCalls, z
<1>7. CASE w = <<>>
  <2>1. FromLangChain(a).content = e
    BY <1>5, <1>7
  <2>2. IsSeq(u) /\ IsSeq(v)
    BY <1>2, <1>3 DEF SayAlike, SystemTexts, Calls
  <2>3. SystemTexts(e) /\ Bodies(e) = <<>> /\ e # <<>> /\ IsSeq(e)
    BY BlockIsSimple, OneText, SingleSeq
  <2> HIDE DEF u, v, e, z
  <2>4. Len(u) = 0 /\ Len(v) = 0
    <3>1. Joined(w, u, v)
      BY <2>2, ConcatJoins
    <3> HIDE DEF w
    <3>2. Len(u) + Len(v) = 0 /\ Len(u) \in Nat /\ Len(v) \in Nat
      BY <1>7, <2>2, <3>1, EmptyIsSeq, SeqShape DEF Joined
    <3> QED BY <3>2
  <2>5. u = <<>> /\ v = <<>>
    BY <2>2, <2>4, LenNone
  <2>6. Bodies(Texts(z)) = <<>> /\ SystemTexts(Texts(z))
    BY <1>2, <2>5, NothingSaid DEF SayAlike
  <2>7. SayAlike(e, Texts(z))
    BY <2>3, <2>6 DEF SayAlike
  <2>8. e \o v = e
    BY <2>3, <2>5, ConcatNone
  <2>9. FromLangChain(a).content = e \o v /\ e \o v # <<>>
    BY <2>1, <2>3, <2>8
  <2>10. v = OfType(z, {"tool_call"})
    BY DEF v, z
  <2> QED BY <1>3, <2>7, <2>9, <2>10 DEF SaysAndCalls, z
<1> QED
  BY <1>6, <1>7

\* The message of a turn, with what the model said and called in it.
Repeats(x, z) ==
    LET back == Offered(x.content) IN
    back[1].body = Bodies(Texts(z)) /\ Tail(back) = OfType(z, {"tool_call"})

LEMMA RepeatsThem ==
    ASSUME NEW s, IsSeq(s), NEW z, NEW u, SystemTexts(u), Bodies(u) = Bodies(Texts(z)),
           NEW v, v = OfType(z, {"tool_call"}), Calls(v), \A i \in 1..Len(v) : Simple(v[i]),
           Len(s) = Len(u) + Len(v),
           \A i \in 1..Len(u) : s[i] = PartOf(BlockOf(u[i])),
           \A i \in 1..Len(v) : s[Len(u) + i] = PartOf(BlockOf(v[i]))
    PROVE  Repeats(AIMessage(s), z)
<1> DEFINE w == [i \in 1..Len(u) |-> PartOf(BlockOf(u[i]))]
           h == TextItem(Bodies(w))
           back == <<h>> \o v
<1>1. IsSeq(u) /\ IsSeq(v) /\ Len(u) \in Nat
  BY SeqShape DEF SystemTexts, Calls
<1>2. IsSeq(w) /\ Len(w) = Len(u) /\ \A i \in 1..Len(u) : w[i] = PartOf(BlockOf(u[i]))
  BY <1>1 DEF IsSeq
<1> HIDE DEF w
<1>3. ASSUME NEW i \in 1..Len(u)
      PROVE  w[i].type = "text" /\ w[i].content = <<>> /\ IsSeq(w[i].body) /\ w[i].body = u[i].body
  <2>1. Simple(u[i]) /\ u[i].type = "text" /\ w[i] = PartOf(BlockOf(u[i]))
    BY <1>2 DEF SystemTexts
  <2> QED BY <2>1, TextComesBack
<1>4. Talk(w)
  BY <1>2, <1>3 DEF Talk
<1>5. Joined(s, w, v)
  <2>1. \A i \in 1..Len(v) : s[Len(w) + i] = v[i]
    BY <1>2, CallComesBack DEF Calls
  <2>2. \A i \in 1..Len(w) : s[i] = w[i]
    BY <1>2
  <2>3. DOMAIN s = 1..(Len(w) + Len(v)) /\ Len(s) = Len(w) + Len(v)
    BY <1>2, SeqShape
  <2> QED BY <2>1, <2>2, <2>3 DEF Joined
<1>6. s = w \o v
  BY <1>1, <1>2, <1>5, JoinedUnique
<1>7. AIMessage(s).content = back
  BY <1>4, <1>6, AIMessageSays
<1>8. Offered(back) = back
  BY OfferedSays
<1>9. Bodies(w) = Bodies(u)
  BY <1>1, <1>2, <1>3, SameBodies
<1>10. h.body = Bodies(u)
  BY <1>9 DEF TextItem, Block
<1>11. back[1] = h /\ Tail(back) = v
  <2> HIDE DEF h
  <2> QED BY <1>1, TailOf
<1> HIDE DEF back
<1>12. Offered(AIMessage(s).content) = back
  BY <1>7, <1>8
<1>13. back[1].body = Bodies(Texts(z)) /\ Tail(back) = OfType(z, {"tool_call"})
  BY <1>10, <1>11
<1> QED
  BY <1>12, <1>13 DEF Repeats

LEMMA LangChainGivesBack ==
    ASSUME "langchain" \in Backends, NEW a \in Answers["langchain"], NEW s, IsSeq(s),
           Len(s) = Len(AnswerOf("langchain", a)),
           \A i \in 1..Len(s) : s[i] = PartOf(AnswerOf("langchain", a)[i])
    PROVE  Repeats(AIMessage(s), a.content)
<1> DEFINE r == FromLangChain(a)
           c == AnswerOf("langchain", a)
           z == a.content
<1>1. SaysAndCalls(r.content, z)
  BY LangChainAnswers
<1>2. Parts(r.content)
  BY LangChainPartsAre
<1>3. c = ToResponse(r).content
  BY DEF AnswerOf
<1> HIDE DEF r, c, z
<1>4. PICK u, v : /\ r.content = u \o v /\ u \o v # <<>>
                  /\ SayAlike(u, Texts(z))
                  /\ v = OfType(z, {"tool_call"}) /\ Calls(v) /\ \A i \in 1..Len(v) : Simple(v[i])
  BY <1>1 DEF SaysAndCalls
<1>5. Len(c) = Len(r.content) /\ \A i \in 1..Len(r.content) : c[i] = BlockOf(r.content[i])
  <2>1. r.content # <<>>
    BY <1>4
  <2> QED BY <1>2, <1>3, <2>1, ResponseBlocks
<1>6. SystemTexts(u) /\ Bodies(u) = Bodies(Texts(z)) /\ IsSeq(u) /\ IsSeq(v)
  BY <1>4 DEF SayAlike, SystemTexts, Calls
<1>7. Joined(r.content, u, v)
  BY <1>4, <1>6, ConcatJoins
<1>8. Len(r.content) = Len(u) + Len(v) /\ Len(u) \in Nat /\ Len(v) \in Nat
  BY <1>6, <1>7, SeqShape DEF Joined
<1>9. Len(s) = Len(u) + Len(v)
  BY <1>5, <1>8 DEF c
<1>10. \A i \in 1..Len(s) : s[i] = PartOf(BlockOf(r.content[i]))
  BY <1>5, <1>8, <1>9 DEF c
<1>11. ASSUME NEW i \in 1..Len(u)
       PROVE  s[i] = PartOf(BlockOf(u[i]))
  <2>1. i \in 1..Len(s) /\ r.content[i] = u[i]
    BY <1>7, <1>8, <1>9 DEF Joined
  <2> QED BY <1>10, <2>1
<1>12. ASSUME NEW i \in 1..Len(v)
       PROVE  s[Len(u) + i] = PartOf(BlockOf(v[i]))
  <2>1. Len(u) + i \in 1..Len(s)
    BY <1>8, <1>9
  <2>2. r.content[Len(u) + i] = v[i]
    BY <1>7 DEF Joined
  <2> QED BY <1>10, <2>1, <2>2
<1>13. Repeats(AIMessage(s), z)
  BY <1>4, <1>6, <1>9, <1>11, <1>12, RepeatsThem
<1> QED
  BY <1>13 DEF z

-----------------------------------------------------------------------------
\* The turns of the model among the messages that are sent.
LEMMA TurnsConverted ==
    ASSUME ConvInv, phase = "sent"
    PROVE  /\ InternalHolds(internal.messages, Spoken)
           /\ sent = Sent(provider, internal) /\ provider \in {"bedrock", "langchain"}
<1>1. internal = ToInternal(request) /\ Request(request) /\ sent = Translated /\ provider \in Backends
  BY DEF ConvInv, Follows
<1>2. provider \in {"bedrock", "langchain"}
  BY <1>1, AnswersAssumption
<1>3. sent = Sent(provider, internal)
  BY <1>1 DEF Translated, Sent
<1> QED
  BY <1>1, <1>2, <1>3, InternalIs DEF Spoken

LEMMA ConverseReplies ==
    ASSUME ConvInv, phase = "sent", provider = "bedrock", NEW n, Speaker(Spoken, n)
    PROVE  /\ Len(AssistantTurns) = n
           /\ \A k \in 1..n : /\ AssistantTurns[k] = sent.messages[2 * k]
                              /\ MadeOf(sent.messages[2 * k], internal.messages[2 * k])
<1> DEFINE q == internal.messages
           t == Spoken
           out == sent.messages
           I == 1..Len(out)
           ss == Singles(out, I)
<1>1. InternalHolds(q, t) /\ Speaker(t, n)
  BY TurnsConverted
<1>2. out = AddMessages(q).out
  BY TurnsConverted DEF Sent, ToBedrock
<1>3. AssistantTurns = Replies(out)
  BY DEF AssistantTurns, Replies
<1> HIDE DEF q, t, out
<1>4. IsSeq(q) /\ n \in Nat /\ Len(q) = 2 * n + 1 /\ \A i \in 1..Len(q) : q[i].role = t[i].role
  BY <1>1 DEF InternalHolds, Speaker
<1>5. IsSeq(out) /\ Len(out) = Len(q) /\ \A i \in 1..Len(q) : MadeOf(out[i], q[i])
  BY <1>2, <1>4, MessagesMade DEF AllMade
<1>6. \A i \in 1..Len(out) : out[i].role = t[i].role
  BY <1>4, <1>5 DEF MadeOf
<1>7. /\ AreSeqs(ss) /\ Len(ss) = Len(out)
      /\ \A i \in 1..Len(out) : ss[i] = <<out[i]>>
  BY <1>5, SinglesSeqs, SeqShape
<1>8. FlattenSeq(ss) = out
  <2>1. Kept(out, I) = Flat(ss, Len(out))
    BY <1>5, KeptIsFlat
  <2>2. 1..Len(out) \subseteq I
    OBVIOUS
  <2> HIDE DEF I
  <2>3. Kept(out, I) = out
    BY <1>5, <2>2, KeptWhole
  <2> HIDE DEF ss
  <2>4. FlattenSeq(ss) = Flat(ss, Len(ss))
    BY <1>7, FlatAll DEF AreSeqs
  <2> QED BY <1>7, <2>1, <2>3, <2>4
<1> HIDE DEF ss, I
<1>9. ASSUME NEW i \in 1..Len(out)
      PROVE  Len(ss[i]) = 1 /\ ss[i][1] = out[i]
  BY <1>7, SingleSeq
<1>10. Alternates(ss, n)
  <2>1. ASSUME NEW k \in 0..n, NEW j \in 1..Len(ss[2 * k + 1])
        PROVE  ss[2 * k + 1][j].role \notin {"assistant", "ai"}
    <3>1. 2 * k + 1 \in 1..Len(out)
      BY <1>4, <1>5
    <3>2. j = 1
      <4>1. Len(ss[2 * k + 1]) = 1
        BY <1>9, <3>1
      <4> QED BY <2>1, <4>1
    <3>3. ss[2 * k + 1][j] = out[2 * k + 1]
      BY <1>9, <3>1, <3>2
    <3>4. out[2 * k + 1].role = "user"
      BY <1>1, <1>6, <3>1 DEF Speaker
    <3> QED BY <3>3, <3>4
  <2>2. ASSUME NEW k \in 1..n
        PROVE  Len(ss[2 * k]) = 1 /\ ss[2 * k][1].role \in {"assistant", "ai"}
    <3>1. 2 * k \in 1..Len(out)
      BY <1>4, <1>5
    <3>2. out[2 * k].role = "assistant"
      BY <1>1, <1>6, <3>1 DEF Speaker
    <3> QED BY <1>9, <3>1, <3>2
  <2> QED BY <1>4, <1>5, <1>7, <2>1, <2>2 DEF Alternates
<1>11. Collected(Replies(out), ss, n)
  BY <1>8, <1>10, RepliesOfTurns
<1>12. ASSUME NEW k \in 1..n
       PROVE  AssistantTurns[k] = out[2 * k] /\ MadeOf(out[2 * k], q[2 * k])
  <2>1. 2 * k \in 1..Len(out)
    BY <1>4, <1>5
  <2>2. AssistantTurns[k] = ss[2 * k][1]
    BY <1>3, <1>11 DEF Collected
  <2> QED BY <1>5, <1>9, <2>1, <2>2
<1> QED
  BY <1>3, <1>11, <1>12 DEF Collected, out, q

LEMMA LangChainReplies ==
    ASSUME ConvInv, phase = "sent", provider = "langchain", NEW n, Speaker(Spoken, n)
    PROVE  /\ Len(AssistantTurns) = n
           /\ \A k \in 1..n : AssistantTurns[k] = AIMessage(internal.messages[2 * k].content)
<1> DEFINE q == internal.messages
           t == Spoken
           out == sent.messages
           ss == OfTurns(q)
<1>1. InternalHolds(q, t) /\ Speaker(t, n)
  BY TurnsConverted
<1>2. out = FlattenSeq(ss)
  BY TurnsConverted DEF Sent, ToLangChain, OfTurns, TurnMessages
<1>3. AssistantTurns = Replies(out)
  BY DEF AssistantTurns, Replies
<1> HIDE DEF q, t, out
<1>4. /\ IsSeq(q) /\ n \in Nat /\ Len(q) = 2 * n + 1
      /\ \A i \in 1..Len(q) : q[i].role = t[i].role /\ IsSeq(q[i].content)
  BY <1>1 DEF InternalHolds, Speaker
<1>5. AreSeqs(ss) /\ Len(ss) = Len(q) /\ \A i \in 1..Len(q) : ss[i] = TurnMessages(q[i])
  BY <1>4, OfTurnsSeqs
<1> HIDE DEF ss
<1>6. ASSUME NEW k \in 1..n
      PROVE  Len(ss[2 * k]) = 1 /\ ss[2 * k][1] = AIMessage(q[2 * k].content)
  <2>1. 2 * k \in 1..Len(q)
    BY <1>4
  <2>2. q[2 * k].role = "assistant"
    BY <1>1, <1>4, <2>1 DEF Speaker
  <2>3. ss[2 * k] = <<AIMessage(q[2 * k].content)>>
    BY <1>5, <2>1, <2>2 DEF TurnMessages
  <2> QED BY <2>3, SingleSeq
<1>7. Alternates(ss, n)
  <2>1. ASSUME NEW k \in 0..n, NEW j \in 1..Len(ss[2 * k + 1])
        PROVE  ss[2 * k + 1][j].role \notin {"assistant", "ai"}
    <3> DEFINE w == UserMessages(q[2 * k + 1].content)
    <3>1. 2 * k + 1 \in 1..Len(q)
      BY <1>4
    <3>2. q[2 * k + 1].role = "user" /\ IsSeq(q[2 * k + 1].content)
      BY <1>1, <1>4, <3>1 DEF Speaker
    <3>3. ss[2 * k + 1] = w
      BY <1>5, <3>1, <3>2 DEF TurnMessages
    <3>4. Tooled(w, OfType(q[2 * k + 1].content, {"tool_result"}))
      BY <3>2, UserMessagesAre
    <3> HIDE DEF w
    <3>5. \A l \in 1..Len(w) : w[l].role \in {"tool", "human"}
      BY <3>4 DEF Tooled
    <3>6. w[j].role \in {"tool", "human"}
      BY <2>1, <3>3, <3>5
    <3> QED BY <3>3, <3>6
  <2>2. ASSUME NEW k \in 1..n
        PROVE  Len(ss[2 * k]) = 1 /\ ss[2 * k][1].role \in {"assistant", "ai"}
    <3>1. AIMessage(q[2 * k].content).role = "ai"
      BY DEF AIMessage
    <3> QED BY <1>6, <3>1
  <2> QED BY <1>4, <1>5, <2>1, <2>2 DEF Alternates
<1>8. Collected(Replies(out), ss, n)
  BY <1>2, <1>7, RepliesOfTurns
<1> QED
  BY <1>3, <1>6, <1>8 DEF Collected, q

-----------------------------------------------------------------------------
\* The model gets back what it said, in the next request and all later ones
\* (result_to_response, request_to_internal, build_converse_request,
\* to_langchain_messages).
THEOREM AnswersComeBack == ConvSpec => []AnswerComesBack
<1>1. SaidInv => AnswerComesBack
  <2> SUFFICES ASSUME SaidInv, phase = "sent"
               PROVE  AnswerComesBack
    BY DEF AnswerComesBack
  <2> DEFINE q == internal.messages
             t == Spoken
             back(k) == Offered(AssistantTurns[k].content)
  <2>1. ConvInv
    BY DEF SaidInv
  <2>2. PICK n \in Nat : Heeded(t, said, n) /\ Len(said) = n
    BY DEF SaidInv, Asking, Spoken
  <2>3. InternalHolds(q, t) /\ provider \in {"bedrock", "langchain"} /\ provider \in Backends
    BY <2>1, TurnsConverted DEF ConvInv
  <2>4. Speaker(t, n) /\ DOMAIN said = 1..n
    BY <2>2, SeqShape DEF Heeded
  <2>5. ASSUME NEW k \in 1..n
        PROVE  LET s == q[2 * k].content IN
               /\ said[k] \in Answers[provider] /\ IsSeq(s)
               /\ Len(s) = Len(AnswerOf(provider, said[k]))
               /\ \A i \in 1..Len(s) : /\ Outward(s[i], AnswerOf(provider, said[k])[i])
                                       /\ s[i] = PartOf(AnswerOf(provider, said[k])[i])
    <3>1. 2 * k \in 1..Len(t)
      BY <2>2, <2>4 DEF Speaker
    <3>2. said[k] \in Answers[provider] /\ t[2 * k].content = AnswerOf(provider, said[k])
      BY <2>2 DEF Heeded, Quotes
    <3>3. /\ IsSeq(q[2 * k].content) /\ Len(q[2 * k].content) = Len(t[2 * k].content)
          /\ \A j \in 1..Len(t[2 * k].content) :
                /\ q[2 * k].content[j] = PartOf(t[2 * k].content[j])
                /\ Outward(q[2 * k].content[j], t[2 * k].content[j])
      BY <2>3, <3>1 DEF InternalHolds
    <3> HIDE DEF t, q
    <3> QED BY <3>2, <3>3
  <2>6. CASE provider = "bedrock"
    <3>1. Len(AssistantTurns) = n
      BY <2>1, <2>4, <2>6, ConverseReplies
    <3>2. ASSUME NEW k \in 1..n
          PROVE  GivenBack(AssistantTurns[k], said[k])
      <4> DEFINE x == AssistantTurns[k]
                 s == q[2 * k].content
      <4>1. MadeOf(x, q[2 * k])
        BY <2>1, <2>4, <2>6, ConverseReplies
      <4> HIDE DEF x
      <4>2. PICK names : x = [role |-> q[2 * k].role, content |-> AddParts(names, s).out]
        BY <4>1 DEF MadeOf
      <4>3. x.content = AddParts(names, s).out
        BY <4>2
      <4> HIDE DEF q
      <4>4. /\ said[k] \in Answers["bedrock"] /\ IsSeq(s)
            /\ Len(s) = Len(AnswerOf("bedrock", said[k]))
            /\ \A i \in 1..Len(s) : Outward(s[i], AnswerOf("bedrock", said[k])[i])
        BY <2>5, <2>6
      <4> HIDE DEF s
      <4>5. GivenBack(x, said[k])
        BY <2>3, <2>6, <4>3, <4>4, ConverseGivesBack
      <4> QED BY <4>5 DEF x
    <3>3. ASSUME NEW k \in 1..n, said[k].content # <<>>
          PROVE  LET b == NotOfType(AssistantTurns[k].content, {"cachePoint"}) IN
                 [i \in DOMAIN b |-> Piece(b[i])] = [i \in DOMAIN said[k].content |-> Taken(said[k].content[i])]
      BY <3>2, <3>3 DEF GivenBack, Offered
    <3> QED BY <2>2, <2>4, <2>6, <3>1, <3>3 DEF AnswerComesBack
  <2>7. CASE provider = "langchain"
    <3>1. Len(AssistantTurns) = n
      BY <2>1, <2>4, <2>7, LangChainReplies
    <3>2. ASSUME NEW k \in 1..n
          PROVE  Repeats(AssistantTurns[k], said[k].content)
      <4> DEFINE s == q[2 * k].content
      <4>1. AssistantTurns[k] = AIMessage(s)
        BY <2>1, <2>4, <2>7, LangChainReplies
      <4> HIDE DEF q
      <4>2. /\ said[k] \in Answers["langchain"] /\ IsSeq(s)
            /\ Len(s) = Len(AnswerOf("langchain", said[k]))
            /\ \A i \in 1..Len(s) : s[i] = PartOf(AnswerOf("langchain", said[k])[i])
        BY <2>5, <2>7
      <4> HIDE DEF s
      <4>3. Repeats(AIMessage(s), said[k].content)
        BY <2>3, <2>7, <4>2, LangChainGivesBack
      <4> QED BY <4>1, <4>3
    <3>3. ASSUME NEW k \in 1..n
          PROVE  LET b == NotOfType(AssistantTurns[k].content, {"cachePoint"})
                     calls == OfType(said[k].content, {"tool_call"}) IN
                 b[1].body = Bodies(Texts(said[k].content)) /\ Tail(b) = calls
      BY <3>2 DEF Repeats, Offered
    <3>4. provider # "bedrock"
      BY <2>7
    <3> QED BY <2>2, <2>4, <3>1, <3>3, <3>4 DEF AnswerComesBack
  <2> QED BY <2>3, <2>6, <2>7
<1> QED
  BY <1>1, SaidInvHolds, PTL
=============================================================================

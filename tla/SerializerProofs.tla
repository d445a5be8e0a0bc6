-------------------------- MODULE SerializerProofs --------------------------
(***************************************************************************)
(* Theorems about Serializer, for all constants: its types, that depth     *)
(* counts the nesting of the events, that no checked alias comes before    *)
(* its anchor, that the registry and the anchors agree, and that the calls *)
(* in progress account for what is open in the emitter, which refuses      *)
(* nothing and gets whole documents, and that anchors and tags go to the   *)
(* nodes of their values.  The inductive invariant is in                   *)
(* SerializerInvariant.                                                    *)
(***************************************************************************)
EXTENDS SerializerInvariant, FiniteSetTheorems, TLAPS

-----------------------------------------------------------------------------
(* Sequences of levels.                                                    *)

\* A node changes the level it is in, and nothing else.
LEMMA AfterNodeLevels ==
  ASSUME NEW open \in Seq(Expectations), open # <<>>
  PROVE  /\ AfterNode(open) \in Seq(Expectations)
         /\ Len(AfterNode(open)) = Len(open)
         /\ AfterNode(open) # <<>>
         /\ open[1] \in {"root", "done"} => AfterNode(open)[1] \in {"root", "done"}
<1>1. Len(open) \in Nat \ {0} /\ DOMAIN open = 1 .. Len(open)
  OBVIOUS
<1>2. \A i \in 1 .. Len(open) : AfterNode(open)[i] \in Expectations
  BY <1>1 DEF AfterNode, Expectations
<1>3. AfterNode(open) \in [1 .. Len(open) -> Expectations]
  BY <1>1, <1>2 DEF AfterNode
<1>4. AfterNode(open) \in Seq(Expectations) /\ Len(AfterNode(open)) = Len(open)
  BY <1>1, <1>3
<1>5. open[1] \in {"root", "done"} => AfterNode(open)[1] \in {"root", "done"}
  BY <1>1 DEF AfterNode
<1> QED BY <1>1, <1>4, <1>5

\* The level below the innermost one.
LEMMA ButLastLevels ==
  ASSUME NEW open \in Seq(Expectations), open # <<>>, open[1] \in {"root", "done"},
         LastOf(open) \in {"item", "key"}
  PROVE  /\ ButLast(open) \in Seq(Expectations)
         /\ Len(ButLast(open)) = Len(open) - 1
         /\ ButLast(open) # <<>>
         /\ ButLast(open)[1] = open[1]
<1>1. Len(open) \in Nat \ {0, 1}
  BY DEF LastOf
<1> PICK n : n = Len(open) - 1
  OBVIOUS
<1>2. n \in Nat /\ n >= 1 /\ Len(open) = n + 1
  BY <1>1
<1>3. ButLast(open) = [i \in 1 .. n |-> open[i]]
  BY <1>2 DEF ButLast
<1>4. \A i \in 1 .. n : open[i] \in Expectations
  BY <1>2
<1>5. ButLast(open) \in [1 .. n -> Expectations]
  BY <1>3, <1>4
<1>6. ButLast(open) \in Seq(Expectations) /\ Len(ButLast(open)) = n
  BY <1>2, <1>5
<1>7. ButLast(open)[1] = open[1]
  BY <1>2, <1>3
<1> QED BY <1>2, <1>6, <1>7

\* One more event.
LEMMA OutGrows ==
  ASSUME NEW s \in Serializers, NEW t \in Serializers, NEW e \in Events,
         t.out = Append(s.out, e), t.check = s.check, t.anchors = s.anchors, t.open # <<>>,
         AliasesSound(s), AnchorsSound(s),
         e.type = "Alias" /\ s.check => e.anchor \in s.anchors
  PROVE  /\ AliasesSound(t)
         /\ AnchorsSound(t)
         /\ e.type # "Alias" => Defines(t, e.anchor)
<1>1. s.out \in Seq(Events) /\ t.out \in Seq(Events)
  BY DEF Serializers
<1>2. /\ Len(t.out) = Len(s.out) + 1
      /\ t.out[Len(s.out) + 1] = e
      /\ \A i \in 1 .. Len(s.out) : t.out[i] = s.out[i]
  BY <1>1
<1> PICK n : n = Len(s.out)
  OBVIOUS
<1>3. n \in Nat
  BY <1>1
<1>4. \A name : Defines(s, name) => Defines(t, name)
  BY <1>2, <1>3 DEF Defines
<1>5. AnchorsSound(t)
  BY <1>4 DEF AnchorsSound
<1>6. e.type # "Alias" => Defines(t, e.anchor)
  BY <1>2, <1>3 DEF Defines
<1>7. AliasesSound(t)
  <2>1. SUFFICES ASSUME t.check, NEW i \in 1 .. n + 1, t.out[i].type = "Alias"
                 PROVE  \E j \in 1 .. i - 1 :
                          t.out[j].type # "Alias" /\ t.out[j].anchor = t.out[i].anchor
    BY <1>2 DEF AliasesSound
  <2>2. CASE i = n + 1
    <3>1. Defines(s, e.anchor)
      BY <1>2, <2>1, <2>2 DEF AnchorsSound
    <3>2. PICK j \in 1 .. n : s.out[j].type # "Alias" /\ s.out[j].anchor = e.anchor
      BY <3>1 DEF Defines
    <3>3. t.out[j] = s.out[j] /\ t.out[i] = e /\ j \in 1 .. i - 1
      BY <1>2, <1>3, <2>2
    <3> QED BY <3>2, <3>3
  <2>3. CASE i \in 1 .. n
    <3>1. PICK j \in 1 .. i - 1 :
            s.out[j].type # "Alias" /\ s.out[j].anchor = s.out[i].anchor
      BY <1>2, <2>1, <2>3 DEF AliasesSound
    <3>2. t.out[j] = s.out[j] /\ t.out[i] = s.out[i]
      BY <1>2, <1>3, <2>3
    <3> QED BY <3>1, <3>2
  <2> QED BY <1>3, <2>2, <2>3
<1> QED BY <1>5, <1>6, <1>7

-----------------------------------------------------------------------------
(* The emitter.                                                            *)

\* What is begun where nothing is open is a new document.
LEMMA DocumentStartLevels ==
  ASSUME NEW s \in Serializers, AliasesSound(s), s.open = <<>>, s.anchors = {}, ~s.failed
  PROVE  LET t == EmitDocumentStart(s)
         IN  /\ t \in Serializers
             /\ t.open = <<"root">> /\ t.out = <<>> /\ ~t.failed /\ t.depth = s.depth
             /\ SameBut(s, t)
<1>1. EmitDocumentStart(s) = [s EXCEPT !.open = <<"root">>, !.out = <<>>]
  BY DEF EmitDocumentStart
<1>2. <<"root">> \in Seq(Expectations) /\ <<>> \in Seq(Events)
  BY DEF Expectations
<1> QED BY <1>1, <1>2 DEF SameBut, Serializers

\* value_start counts a node, and begins its document when there is none.
LEMMA ValueStartWithin ==
  ASSUME NEW s, Resting(s)
  PROVE  Within(ValueStart(s)) /\ SameBut(s, ValueStart(s))
<1>1. s \in Serializers /\ AliasesSound(s)
  BY DEF Resting
<1>2. CASE s.failed
  BY <1>1, <1>2 DEF ValueStart, Within, SameBut
<1>3. CASE ~s.failed /\ s.depth = 0
  <2> PICK t : t = EmitDocumentStart(s)
    OBVIOUS
  <2>1. s.open = <<>> /\ s.anchors = {}
    BY <1>3 DEF Resting, AnchorsSound
  <2>2. /\ t \in Serializers
        /\ t.open = <<"root">> /\ t.out = <<>> /\ ~t.failed /\ t.depth = 0
        /\ SameBut(s, t)
    BY <1>1, <1>3, <2>1, DocumentStartLevels
  <2> PICK u : u = [t EXCEPT !.depth = @ + 1]
    OBVIOUS
  <2>3. ValueStart(s) = u
    BY <1>3 DEF ValueStart
  <2>4. /\ u \in Serializers
        /\ u.open = <<"root">> /\ u.out = <<>> /\ ~u.failed /\ u.depth = 1
        /\ SameBut(s, u)
    BY <2>2 DEF Serializers, SameBut
  <2>5. Len(u.open) = 1 /\ u.open[1] = "root" /\ u.open # <<>> /\ Len(u.out) = 0
    <3>1. u.open = <<"root">> /\ u.out = <<>>
      BY <2>4
    <3> QED BY ONLY <3>1
  <2>6. u.anchors = {}
    BY <2>1, <2>4 DEF SameBut
  <2>7. AliasesSound(u)
    BY <2>5 DEF AliasesSound
  <2>8. AnchorsSound(u) /\ Rooted(u)
    BY <2>5, <2>6 DEF AnchorsSound, Rooted
  <2>9. Within(u)
    BY <2>4, <2>5, <2>7, <2>8 DEF Within
  <2> QED BY <2>3, <2>4, <2>9
<1>4. CASE ~s.failed /\ s.depth # 0
  <2> PICK u : u = [s EXCEPT !.depth = @ + 1]
    OBVIOUS
  <2>1. ValueStart(s) = u
    BY <1>4 DEF ValueStart
  <2>2. /\ u \in Serializers
        /\ u.open = s.open /\ u.out = s.out /\ ~u.failed /\ u.depth = s.depth + 1
        /\ SameBut(s, u)
    BY <1>1, <1>4 DEF Serializers, SameBut
  <2>3. s.open # <<>> /\ s.depth = Len(s.open) - 1 /\ Rooted(s) /\ AnchorsSound(s)
    BY <1>4 DEF Resting
  <2>4. Len(s.open) \in Nat
    BY <1>1 DEF Serializers
  <2>5. u.depth = Len(u.open) /\ u.open # <<>>
    BY <2>2, <2>3, <2>4
  <2>6. Rooted(u) /\ AnchorsSound(u) /\ AliasesSound(u)
    BY <1>1, <2>2, <2>3 DEF Rooted, AnchorsSound, AliasesSound, Defines, SameBut
  <2>7. Within(u)
    BY <2>2, <2>5, <2>6 DEF Within
  <2> QED BY <2>1, <2>2, <2>7
<1> QED BY <1>2, <1>3, <1>4

\* Refusing an event changes nothing else.
LEMMA RefusedNothingElse ==
  ASSUME NEW s \in Serializers, AliasesSound(s), NEW e
  PROVE  /\ Within(Refused(s)) /\ Resting(Refused(s))
         /\ Emitted(s, Refused(s), e)
<1> PICK t : t = Refused(s)
  OBVIOUS
<1>1. t = [s EXCEPT !.failed = TRUE]
  BY DEF Refused
<1>2. t \in Serializers /\ t.failed /\ t.out = s.out /\ t.check = s.check /\ SameBut(s, t)
  BY <1>1 DEF Serializers, SameBut
<1>3. AliasesSound(t)
  BY <1>2 DEF AliasesSound
<1> QED BY <1>2, <1>3 DEF Within, Resting, Emitted

\* An event that is taken, whatever levels it leaves open.
LEMMA GivenGrows ==
  ASSUME NEW s, Within(s) \/ Resting(s), NEW e \in Events, ~s.failed, Allowed(s, e),
         NEW open \in Seq(Expectations), open # <<>>
  PROVE  LET t == Given(s, open, e)
         IN  /\ t \in Serializers
             /\ t.open = open /\ t.depth = s.depth /\ ~t.failed
             /\ AliasesSound(t) /\ AnchorsSound(t) /\ Emitted(s, t, e)
<1>1. s \in Serializers /\ AliasesSound(s) /\ AnchorsSound(s)
  BY DEF Within, Resting
<1> PICK t : t = Given(s, open, e)
  OBVIOUS
<1>2. t = [s EXCEPT !.open = open, !.out = Append(@, e)]
  BY DEF Given
<1>3. Append(s.out, e) \in Seq(Events)
  BY <1>1 DEF Serializers
<1>4. /\ t \in Serializers /\ t.open = open /\ t.depth = s.depth /\ ~t.failed
      /\ t.out = Append(s.out, e) /\ SameBut(s, t)
  BY <1>1, <1>2, <1>3 DEF Serializers, SameBut
<1>5. t.check = s.check /\ t.anchors = s.anchors
  BY <1>4 DEF SameBut
<1>6. /\ AliasesSound(t)
      /\ AnchorsSound(t)
      /\ e.type # "Alias" => Defines(t, e.anchor)
  BY <1>1, <1>4, <1>5, OutGrows DEF Allowed
<1> QED BY <1>4, <1>6 DEF Emitted

\* A scalar or an alias is a node within its level.
LEMMA LeafWithin ==
  ASSUME NEW s, Within(s), NEW e \in Events, Allowed(s, e)
  PROVE  Within(EmitLeaf(s, e)) /\ Emitted(s, EmitLeaf(s, e), e)
<1>1. s \in Serializers /\ AliasesSound(s)
  BY DEF Within
<1>2. CASE EmitLeaf(s, e) = Refused(s)
  BY <1>1, <1>2, RefusedNothingElse
<1>3. CASE EmitLeaf(s, e) # Refused(s)
  <2>1. ~s.failed /\ EmitLeaf(s, e) = Given(s, AfterNode(s.open), e)
    BY <1>3 DEF EmitLeaf
  <2>2. s.open \in Seq(Expectations) /\ s.open # <<>> /\ s.open[1] \in {"root", "done"}
        /\ s.depth = Len(s.open)
    BY <1>1, <2>1 DEF Within, Rooted, Serializers
  <2> PICK open : open = AfterNode(s.open)
    OBVIOUS
  <2>3. open \in Seq(Expectations) /\ Len(open) = Len(s.open) /\ open # <<>>
        /\ open[1] \in {"root", "done"}
    BY <2>2, AfterNodeLevels
  <2> PICK t : t = Given(s, open, e)
    OBVIOUS
  <2>4. /\ t \in Serializers /\ t.open = open /\ t.depth = s.depth /\ ~t.failed
        /\ AliasesSound(t) /\ AnchorsSound(t) /\ Emitted(s, t, e)
    BY <2>1, <2>3, GivenGrows
  <2> QED BY <2>1, <2>2, <2>3, <2>4 DEF Within, Rooted
<1> QED BY <1>2, <1>3

\* The start of a collection opens a level above that of its node.
LEMMA StartRests ==
  ASSUME NEW s, Within(s), NEW e \in Events, e.type # "Alias"
  PROVE  Resting(EmitStart(s, e)) /\ Emitted(s, EmitStart(s, e), e)
<1>1. s \in Serializers /\ AliasesSound(s) /\ Allowed(s, e)
  BY DEF Within, Allowed
<1>2. CASE EmitStart(s, e) = Refused(s)
  BY <1>1, <1>2, RefusedNothingElse
<1>3. CASE EmitStart(s, e) # Refused(s)
  <2> PICK level : level = IF e.type = "SequenceStart" THEN "item" ELSE "key"
    OBVIOUS
  <2>1. ~s.failed /\ EmitStart(s, e) = Given(s, Append(AfterNode(s.open), level), e)
    BY <1>3 DEF EmitStart
  <2>2. s.open \in Seq(Expectations) /\ s.open # <<>> /\ s.open[1] \in {"root", "done"}
        /\ s.depth = Len(s.open)
    BY <1>1, <2>1 DEF Within, Rooted, Serializers
  <2> PICK below : below = AfterNode(s.open)
    OBVIOUS
  <2>3. below \in Seq(Expectations) /\ Len(below) = Len(s.open) /\ below # <<>>
        /\ below[1] \in {"root", "done"}
    BY <2>2, AfterNodeLevels
  <2> PICK open : open = Append(below, level)
    OBVIOUS
  <2>4. level \in Expectations
    BY DEF Expectations
  <2>5. open \in Seq(Expectations) /\ Len(open) = Len(s.open) + 1 /\ open # <<>>
        /\ open[1] \in {"root", "done"} /\ Len(open) >= 2
    BY <2>2, <2>3, <2>4
  <2> PICK t : t = Given(s, open, e)
    OBVIOUS
  <2>6. /\ t \in Serializers /\ t.open = open /\ t.depth = s.depth /\ ~t.failed
        /\ AliasesSound(t) /\ AnchorsSound(t) /\ Emitted(s, t, e)
    <3>1. e \in Events /\ ~s.failed /\ Allowed(s, e) /\ open \in Seq(Expectations) /\ open # <<>>
      BY <1>1, <2>1, <2>5
    <3>2. Within(s) /\ t = Given(s, open, e)
      OBVIOUS
    <3> QED BY ONLY <3>1, <3>2, GivenGrows
  <2>7. t.depth = Len(t.open) - 1 /\ t.depth # 0
    BY <2>2, <2>5, <2>6
  <2>8. Resting(t)
    BY <2>5, <2>6, <2>7 DEF Resting, Rooted
  <2> QED BY <2>1, <2>6, <2>8
<1> QED BY <1>2, <1>3

\* The end of a collection leaves its node complete, and not counted down yet.
LEMMA EndWithin ==
  ASSUME NEW s, Resting(s), NEW type \in {"SequenceEnd", "MappingEnd"}
  PROVE  Within(EmitEnd(s, Event(type))) /\ SameBut(s, EmitEnd(s, Event(type)))
<1> PICK e : e = Event(type)
  OBVIOUS
<1>1. s \in Serializers /\ AliasesSound(s)
  BY DEF Resting
<1>2. e \in Events /\ e.type = type /\ Allowed(s, e)
  BY DEF Event, Events, Allowed
<1>3. CASE EmitEnd(s, e) = Refused(s)
  BY <1>1, <1>3, RefusedNothingElse DEF Emitted
<1>4. CASE EmitEnd(s, e) # Refused(s)
  <2>1. /\ ~s.failed /\ EmitEnd(s, e) = Given(s, ButLast(s.open), e)
        /\ s.open # <<>> /\ LastOf(s.open) \in {"item", "key"}
    BY <1>4 DEF EmitEnd, Expecting
  <2>2. s.open \in Seq(Expectations) /\ s.open[1] \in {"root", "done"}
        /\ s.depth = Len(s.open) - 1
    BY <1>1, <2>1 DEF Resting, Rooted, Serializers
  <2> PICK open : open = ButLast(s.open)
    OBVIOUS
  <2>3. open \in Seq(Expectations) /\ Len(open) = Len(s.open) - 1 /\ open # <<>>
        /\ open[1] \in {"root", "done"}
    BY <2>1, <2>2, ButLastLevels
  <2> PICK t : t = Given(s, open, e)
    OBVIOUS
  <2>4. /\ t \in Serializers /\ t.open = open /\ t.depth = s.depth /\ ~t.failed
        /\ AliasesSound(t) /\ AnchorsSound(t) /\ Emitted(s, t, e)
    <3>1. e \in Events /\ ~s.failed /\ Allowed(s, e) /\ open \in Seq(Expectations) /\ open # <<>>
      BY <1>2, <2>1, <2>3
    <3> QED BY <3>1, GivenGrows
  <2> QED BY <2>1, <2>2, <2>3, <2>4 DEF Within, Rooted, Emitted
<1> QED BY <1>3, <1>4

\* value_end counts a node down, and ends the document with its root.
LEMMA ValueEndRests ==
  ASSUME NEW s, Within(s)
  PROVE  Resting(ValueEnd(s))
<1>1. s \in Serializers /\ AliasesSound(s)
  BY DEF Within
<1>2. CASE s.failed
  BY <1>1, <1>2 DEF ValueEnd, Resting
<1>3. CASE ~s.failed
  <2> PICK t : t = [s EXCEPT !.depth = @ - 1]
    OBVIOUS
  <2>1. s.open # <<>> /\ s.depth = Len(s.open) /\ Rooted(s) /\ AnchorsSound(s)
    BY <1>3 DEF Within
  <2>2. s.open \in Seq(Expectations) /\ s.depth \in Nat
    BY <1>1 DEF Serializers
  <2>3. s.depth - 1 \in Nat
    BY <2>1, <2>2
  <2>4. t \in Serializers /\ t.open = s.open /\ t.out = s.out /\ t.depth = s.depth - 1
        /\ ~t.failed /\ SameBut(s, t)
    BY <1>1, <1>3, <2>3 DEF Serializers, SameBut
  <2>5. AliasesSound(t) /\ AnchorsSound(t) /\ Rooted(t)
    BY <1>1, <2>1, <2>4 DEF AliasesSound, AnchorsSound, Rooted, Defines, SameBut
  <2>6. CASE t.depth # 0
    <3>1. ValueEnd(s) = t
      BY <1>3, <2>6 DEF ValueEnd
    <3> QED BY <2>1, <2>4, <2>5, <2>6, <3>1 DEF Resting
  <2>7. CASE t.depth = 0
    <3> PICK u : u = EmitDocumentEnd(t)
      OBVIOUS
    <3>1. CASE u = Refused(t)
      <4>1. u.failed
        BY <2>4, <3>1 DEF Refused, Serializers
      <4>2. ValueEnd(s) = u
        BY <1>3, <2>7, <4>1 DEF ValueEnd
      <4> QED BY <2>4, <2>5, <3>1, <4>2, RefusedNothingElse
    <3>2. CASE u # Refused(t)
      <4>1. u = [t EXCEPT !.open = <<>>]
        BY <3>2 DEF EmitDocumentEnd
      <4>2. u \in Serializers /\ u.open = <<>> /\ u.out = t.out /\ u.depth = 0 /\ ~u.failed
            /\ u.check = t.check
        <5>1. <<>> \in Seq(Expectations)
          OBVIOUS
        <5> QED BY <2>4, <2>7, <4>1, <5>1 DEF Serializers
      <4> PICK v : v = Reset(u)
        OBVIOUS
      <4>3. ValueEnd(s) = v
        BY <1>3, <2>7, <4>2 DEF ValueEnd
      <4>4. NoNames \in UNION { [P -> Names] : P \in SUBSET Pointers }
        <5>1. NoNames \in [{} -> Names]
          BY DEF NoNames
        <5> QED BY <5>1
      <4>5. v \in Serializers /\ v.open = <<>> /\ v.out = t.out /\ v.depth = 0
            /\ v.check = t.check /\ v.anchors = {}
        BY <4>2, <4>4 DEF Reset, Serializers
      <4>6. AliasesSound(v) /\ AnchorsSound(v) /\ Rooted(v)
        BY <2>5, <4>5 DEF AliasesSound, AnchorsSound, Rooted
      <4> QED BY <4>3, <4>5, <4>6 DEF Resting
    <3> QED BY <3>1, <3>2
  <2> QED BY <2>6, <2>7
<1> QED BY <1>2, <1>3

-----------------------------------------------------------------------------
(* The methods of the serializer.                                          *)

LEMMA Restated ==
  ASSUME NEW s, Resting(s), NEW t \in Serializers, SameDocument(s, t)
  PROVE  Resting(t)
BY DEF Resting, SameDocument, AliasesSound, AnchorsSound, Rooted, Defines

LEMMA TakenRests ==
  ASSUME NEW t, Carries(t)
  PROVE  /\ Resting(t) => Resting(Taken(t)) /\ Keeps(t, Taken(t))
         /\ Within(t) => Within(Taken(t)) /\ Keeps(t, Taken(t))
<1> SUFFICES ASSUME t \in Serializers, AliasesSound(t),
                    ~t.failed => Rooted(t) /\ AnchorsSound(t)
             PROVE  LET u == Taken(t)
                    IN  /\ u \in Serializers /\ AliasesSound(u) /\ Keeps(t, u)
                        /\ ~t.failed => Rooted(u) /\ AnchorsSound(u)
                        /\ u.failed = t.failed /\ u.open = t.open /\ u.depth = t.depth
  BY DEF Resting, Within
<1> PICK u : u = Taken(t)
  OBVIOUS
<1>1. /\ u \in Serializers
      /\ u.failed = t.failed /\ u.open = t.open /\ u.depth = t.depth /\ u.out = t.out
      /\ u.check = t.check /\ u.anchors = t.anchors \cup ({t.pending} \ {NoAnchor})
  BY DEF Taken, Serializers, States
<1>2. AliasesSound(u)
  BY <1>1 DEF AliasesSound
<1>3. ~t.failed => Rooted(u) /\ AnchorsSound(u)
  BY <1>1 DEF Rooted, AnchorsSound, Carries, Defines
<1> QED BY <1>1, <1>2, <1>3 DEF Keeps

\* The event of a node.
LEMMA NodeEvents ==
  ASSUME NEW s \in Serializers, NEW type \in {"Scalar", "SequenceStart", "MappingStart"}
  PROVE  /\ NodeEvent(s, type) \in Events
         /\ NodeEvent(s, type).type = type /\ NodeEvent(s, type).anchor = s.pending
BY DEF NodeEvent, Serializers, Events

\* The start of a collection, and what it leaves to be said of flow styles.
LEMMA CollectionRests ==
  ASSUME NEW s, Resting(s), NEW type \in {"SequenceStart", "MappingStart"}
  PROVE  LET t == Taken(EmitStart(ValueStart(s), NodeEvent(s, type)))
         IN  Resting(t) /\ Keeps(s, t)
<1> PICK e : e = NodeEvent(s, type)
  OBVIOUS
<1> PICK u : u = ValueStart(s)
  OBVIOUS
<1> PICK t : t = EmitStart(u, e)
  OBVIOUS
<1>1. s \in Serializers
  BY DEF Resting
<1>2. e \in Events /\ e.type # "Alias" /\ e.anchor = s.pending
  BY <1>1, NodeEvents
<1>3. Within(u) /\ SameBut(s, u)
  BY ValueStartWithin
<1>4. Resting(t) /\ Emitted(u, t, e)
  BY <1>2, <1>3, StartRests
<1>5. Carries(t)
  BY <1>2, <1>3, <1>4 DEF Carries, Emitted, SameBut
<1>6. Resting(Taken(t)) /\ Keeps(t, Taken(t))
  BY <1>4, <1>5, TakenRests
<1>7. t.check = s.check /\ t.anchors = s.anchors
  BY <1>3, <1>4 DEF Emitted, SameBut
<1> QED BY <1>6, <1>7 DEF Keeps

LEMMA MappingStartRests ==
  ASSUME NEW s, Resting(s)
  PROVE  Resting(MappingStart(s)) /\ Keeps(s, MappingStart(s))
<1> PICK t : t = Taken(EmitStart(ValueStart(s), NodeEvent(s, "MappingStart")))
  OBVIOUS
<1> PICK u : u = [t EXCEPT !.flowMap = FALSE]
  OBVIOUS
<1>1. MappingStart(s) = u
  BY DEF MappingStart
<1>2. Resting(t) /\ Keeps(s, t)
  BY CollectionRests
<1>3. t \in Serializers
  BY <1>2 DEF Resting
<1>4. u \in Serializers /\ SameDocument(t, u)
  BY <1>3 DEF Serializers, SameDocument
<1> QED BY <1>1, <1>2, <1>4, Restated DEF Keeps, SameDocument

\* Another state of the search for tags.
LEMMA StateRests ==
  ASSUME NEW s, Resting(s), NEW state \in States
  PROVE  LET t == [s EXCEPT !.state = state]
         IN  Resting(t) /\ Keeps(s, t)
<1> PICK t : t = [s EXCEPT !.state = state]
  OBVIOUS
<1>1. s \in Serializers
  BY DEF Resting
<1>2. t \in Serializers /\ SameDocument(s, t)
  BY <1>1 DEF Serializers, SameDocument
<1> QED BY <1>2, Restated DEF Keeps, SameDocument

LEMMA FlushRests ==
  ASSUME NEW s, Resting(s)
  PROVE  Resting(FlushMappingStart(s)) /\ Keeps(s, FlushMappingStart(s))
<1> PICK t : t = [s EXCEPT !.state = "NothingInParticular"]
  OBVIOUS
<1>1. Resting(t) /\ Keeps(s, t)
  BY StateRests DEF States
<1>2. Resting(MappingStart(t)) /\ Keeps(s, MappingStart(t))
  BY <1>1, MappingStartRests DEF Keeps
<1> QED BY <1>1, <1>2 DEF FlushMappingStart, Keeps

LEMMA EmitMappingStartRests ==
  ASSUME NEW s, Resting(s)
  PROVE  Resting(EmitMappingStart(s))
BY FlushRests, MappingStartRests DEF EmitMappingStart

LEMMA EmitSequenceStartRests ==
  ASSUME NEW s, Resting(s)
  PROVE  Resting(EmitSequenceStart(s))
<1> PICK r : r = FlushMappingStart(s)
  OBVIOUS
<1> PICK t : t = Taken(EmitStart(ValueStart(r), NodeEvent(r, "SequenceStart")))
  OBVIOUS
<1> PICK u : u = [t EXCEPT !.flowSeq = FALSE]
  OBVIOUS
<1>1. EmitSequenceStart(s) = u
  BY DEF EmitSequenceStart
<1>2. Resting(t)
  BY FlushRests, CollectionRests
<1>3. t \in Serializers
  BY <1>2 DEF Resting
<1>4. u \in Serializers /\ SameDocument(t, u)
  BY <1>3 DEF Serializers, SameDocument
<1> QED BY <1>1, <1>2, <1>4, Restated

LEMMA EmitScalarRests ==
  ASSUME NEW s, Resting(s)
  PROVE  Resting(EmitScalar(s))
<1> PICK r : r = FlushMappingStart(s)
  OBVIOUS
<1> PICK e : e = NodeEvent(r, "Scalar")
  OBVIOUS
<1> PICK u : u = ValueStart(r)
  OBVIOUS
<1> PICK t : t = EmitLeaf(u, e)
  OBVIOUS
<1>1. Resting(r) /\ r \in Serializers
  BY FlushRests DEF Resting
<1>2. e \in Events /\ e.type = "Scalar" /\ e.anchor = r.pending
  BY <1>1, NodeEvents
<1>3. Within(u) /\ SameBut(r, u)
  BY <1>1, ValueStartWithin
<1>4. Within(t) /\ Emitted(u, t, e)
  BY <1>2, <1>3, LeafWithin DEF Allowed
<1>5. Carries(t)
  BY <1>2, <1>3, <1>4 DEF Carries, Emitted, SameBut
<1>6. Resting(ValueEnd(Taken(t)))
  BY <1>4, <1>5, TakenRests, ValueEndRests
<1> QED BY <1>6 DEF EmitScalar

LEMMA EmitAliasRests ==
  ASSUME NEW s, Resting(s), NEW name \in Names, s.check => name \in s.anchors
  PROVE  Resting(EmitAlias(s, name))
<1> PICK r : r = FlushMappingStart(s)
  OBVIOUS
<1> PICK e : e = [Event("Alias") EXCEPT !.anchor = name]
  OBVIOUS
<1> PICK u : u = ValueStart(r)
  OBVIOUS
<1>1. Resting(r) /\ Keeps(s, r)
  BY FlushRests
<1>2. e \in Events /\ e.anchor = name
  BY DEF Event, Events
<1>3. Within(u) /\ SameBut(r, u)
  BY <1>1, ValueStartWithin
<1>4. Allowed(u, e)
  BY <1>1, <1>2, <1>3 DEF Allowed, Keeps, SameBut
<1>5. Within(EmitLeaf(u, e))
  BY <1>2, <1>3, <1>4, LeafWithin
<1>6. Resting(ValueEnd(EmitLeaf(u, e)))
  BY <1>5, ValueEndRests
<1> QED BY <1>6 DEF EmitAlias

LEMMA EmitSequenceEndRests ==
  ASSUME NEW s, Resting(s)
  PROVE  Resting(EmitSequenceEnd(s))
BY EndWithin, ValueEndRests DEF EmitSequenceEnd

LEMMA EmitMappingEndRests ==
  ASSUME NEW s, Resting(s)
  PROVE  Resting(EmitMappingEnd(s))
BY EndWithin, ValueEndRests DEF EmitMappingEnd

-----------------------------------------------------------------------------
(* The registry of the thread, and the anchors of the serializer.          *)

LEMMA SameRegistered ==
  ASSUME NEW s, NEW t, SameBut(s, t), Registered(s)
  PROVE  Registered(t)
BY DEF SameBut, Registered

\* A pending anchor moves to those of the document.
LEMMA TakenRegistered ==
  ASSUME NEW s \in Serializers, Registered(s)
  PROVE  Registered(Taken(s))
<1> PICK t : t = Taken(s)
  OBVIOUS
<1>1. t.names = s.names /\ t.pending = NoAnchor
      /\ t.anchors = s.anchors \cup ({s.pending} \ {NoAnchor})
  BY DEF Taken, Serializers
<1> QED BY <1>1 DEF Registered

\* What the emitter is given leaves the registry alone.
LEMMA EmittedSame ==
  ASSUME NEW s \in Serializers, NEW e \in Events
  PROVE  /\ SameBut(s, EmitLeaf(s, e)) /\ SameBut(s, EmitStart(s, e))
         /\ SameBut(s, EmitEnd(s, e)) /\ SameBut(s, EmitDocumentEnd(s))
<1>1. SameBut(s, Refused(s)) /\ SameBut(s, [s EXCEPT !.open = <<>>])
  BY DEF Serializers, SameBut, Refused
<1>2. \A open : SameBut(s, Given(s, open, e))
  BY DEF Serializers, SameBut, Given
<1> QED BY <1>1, <1>2 DEF EmitLeaf, EmitStart, EmitEnd, EmitDocumentEnd

\* The end of a document forgets the names together with the anchors.
LEMMA ValueEndRegistered ==
  ASSUME NEW s, Within(s), Registered(s)
  PROVE  Registered(ValueEnd(s))
<1> PICK t : t = [s EXCEPT !.depth = @ - 1]
  OBVIOUS
<1> PICK u : u = EmitDocumentEnd(t)
  OBVIOUS
<1>1. s \in Serializers
  BY DEF Within
<1>2. CASE s.failed
  BY <1>2 DEF ValueEnd
<1>3. CASE ~s.failed
  <2>1. SameBut(s, t)
    BY <1>1 DEF SameBut, Serializers
  <2>2. s.depth - 1 \in Nat
    BY <1>1, <1>3 DEF Within, Serializers
  <2>3. t \in Serializers
    BY <1>1, <2>2 DEF Serializers
  <2>4. SameBut(t, u)
    <3>1. Event("SequenceEnd") \in Events
      BY DEF Event, Events
    <3> QED BY <2>3, <3>1, EmittedSame
  <2>5. Registered(t) /\ Registered(u)
    BY <2>1, <2>4, SameRegistered
  <2>6. Reset(u).names = NoNames
    BY <2>3 DEF EmitDocumentEnd, Refused, Reset, Serializers
  <2>7. Registered(Reset(u))
    BY <2>6 DEF Registered, NoNames
  <2> QED BY <1>3, <2>5, <2>7 DEF ValueEnd
<1> QED BY <1>2, <1>3

\* The other methods.
LEMMA CollectionRegistered ==
  ASSUME NEW s, Resting(s), Registered(s), NEW type \in {"SequenceStart", "MappingStart"}
  PROVE  Registered(Taken(EmitStart(ValueStart(s), NodeEvent(s, type))))
<1> PICK u : u = ValueStart(s)
  OBVIOUS
<1> PICK t : t = EmitStart(u, NodeEvent(s, type))
  OBVIOUS
<1>1. Within(u) /\ SameBut(s, u)
  BY ValueStartWithin
<1>2. NodeEvent(s, type) \in Events /\ NodeEvent(s, type).type # "Alias"
  BY NodeEvents DEF Resting
<1>3. Resting(t)
  BY <1>1, <1>2, StartRests
<1>4. SameBut(u, t)
  BY <1>1, <1>2, EmittedSame DEF Within
<1>5. Registered(t)
  BY <1>1, <1>4, SameRegistered
<1> QED BY <1>3, <1>5, TakenRegistered DEF Resting

LEMMA MappingStartRegistered ==
  ASSUME NEW s, Resting(s), Registered(s)
  PROVE  Registered(MappingStart(s))
<1> PICK t : t = Taken(EmitStart(ValueStart(s), NodeEvent(s, "MappingStart")))
  OBVIOUS
<1>1. MappingStart(s) = [t EXCEPT !.flowMap = FALSE]
  BY DEF MappingStart
<1>2. Registered(t) /\ t \in Serializers
  BY CollectionRegistered, CollectionRests DEF Resting
<1>3. SameBut(t, [t EXCEPT !.flowMap = FALSE])
  BY <1>2 DEF SameBut, Serializers
<1> QED BY <1>1, <1>2, <1>3, SameRegistered

LEMMA StateRegistered ==
  ASSUME NEW s, Resting(s), Registered(s), NEW state \in States
  PROVE  Registered([s EXCEPT !.state = state])
BY DEF Resting, Serializers, Registered

LEMMA FlushRegistered ==
  ASSUME NEW s, Resting(s), Registered(s)
  PROVE  Registered(FlushMappingStart(s))
<1> PICK t : t = [s EXCEPT !.state = "NothingInParticular"]
  OBVIOUS
<1>1. Resting(t) /\ Registered(t)
  BY StateRests, StateRegistered DEF States
<1> QED BY <1>1, MappingStartRegistered DEF FlushMappingStart

LEMMA EmitMappingStartRegistered ==
  ASSUME NEW s, Resting(s), Registered(s)
  PROVE  Registered(EmitMappingStart(s))
BY FlushRests, FlushRegistered, MappingStartRegistered DEF EmitMappingStart

LEMMA EmitSequenceStartRegistered ==
  ASSUME NEW s, Resting(s), Registered(s)
  PROVE  Registered(EmitSequenceStart(s))
<1> PICK r : r = FlushMappingStart(s)
  OBVIOUS
<1> PICK t : t = Taken(EmitStart(ValueStart(r), NodeEvent(r, "SequenceStart")))
  OBVIOUS
<1>1. EmitSequenceStart(s) = [t EXCEPT !.flowSeq = FALSE]
  BY DEF EmitSequenceStart
<1>2. Resting(r) /\ Registered(r)
  BY FlushRests, FlushRegistered
<1>3. Registered(t) /\ t \in Serializers
  BY <1>2, CollectionRegistered, CollectionRests DEF Resting
<1>4. SameBut(t, [t EXCEPT !.flowSeq = FALSE])
  BY <1>3 DEF SameBut, Serializers
<1> QED BY <1>1, <1>3, <1>4, SameRegistered

LEMMA EmitScalarRegistered ==
  ASSUME NEW s, Resting(s), Registered(s)
  PROVE  Registered(EmitScalar(s))
<1> PICK r : r = FlushMappingStart(s)
  OBVIOUS
<1> PICK e : e = NodeEvent(r, "Scalar")
  OBVIOUS
<1> PICK u : u = ValueStart(r)
  OBVIOUS
<1> PICK t : t = EmitLeaf(u, e)
  OBVIOUS
<1>1. Resting(r) /\ r \in Serializers /\ Registered(r)
  BY FlushRests, FlushRegistered DEF Resting
<1>2. e \in Events /\ e.type = "Scalar" /\ e.anchor = r.pending
  BY <1>1, NodeEvents
<1>3. Within(u) /\ SameBut(r, u)
  BY <1>1, ValueStartWithin
<1>4. Within(t) /\ Emitted(u, t, e)
  BY <1>2, <1>3, LeafWithin DEF Allowed
<1>5. Carries(t)
  BY <1>2, <1>3, <1>4 DEF Carries, Emitted, SameBut
<1>6. Registered(t) /\ t \in Serializers
  BY <1>1, <1>3, <1>4, SameRegistered DEF Emitted, Within
<1>7. Within(Taken(t)) /\ Registered(Taken(t))
  BY <1>4, <1>5, <1>6, TakenRests, TakenRegistered
<1> QED BY <1>7, ValueEndRegistered DEF EmitScalar

LEMMA EmitAliasRegistered ==
  ASSUME NEW s, Resting(s), Registered(s), NEW name \in Names, s.check => name \in s.anchors
  PROVE  Registered(EmitAlias(s, name))
<1> PICK r : r = FlushMappingStart(s)
  OBVIOUS
<1> PICK e : e = [Event("Alias") EXCEPT !.anchor = name]
  OBVIOUS
<1> PICK u : u = ValueStart(r)
  OBVIOUS
<1>1. Resting(r) /\ Keeps(s, r) /\ Registered(r)
  BY FlushRests, FlushRegistered
<1>2. e \in Events /\ e.anchor = name
  BY DEF Event, Events
<1>3. Within(u) /\ SameBut(r, u)
  BY <1>1, ValueStartWithin
<1>4. Allowed(u, e)
  BY <1>1, <1>2, <1>3 DEF Allowed, Keeps, SameBut
<1>5. Within(EmitLeaf(u, e)) /\ Emitted(u, EmitLeaf(u, e), e)
  BY <1>2, <1>3, <1>4, LeafWithin
<1>6. Registered(EmitLeaf(u, e))
  BY <1>1, <1>3, <1>5, SameRegistered DEF Emitted
<1> QED BY <1>5, <1>6, ValueEndRegistered DEF EmitAlias

LEMMA EmitEndsRegistered ==
  ASSUME NEW s, Resting(s), Registered(s)
  PROVE  Registered(EmitSequenceEnd(s)) /\ Registered(EmitMappingEnd(s))
<1>1. ASSUME NEW type \in {"SequenceEnd", "MappingEnd"}
      PROVE  Registered(ValueEnd(EmitEnd(s, Event(type))))
  <2>1. Within(EmitEnd(s, Event(type))) /\ SameBut(s, EmitEnd(s, Event(type)))
    BY EndWithin
  <2> QED BY <2>1, SameRegistered, ValueEndRegistered
<1> QED BY <1>1 DEF EmitSequenceEnd, EmitMappingEnd

-----------------------------------------------------------------------------
(* The calls in progress.                                                  *)

LEMMA ButLastShorter ==
  ASSUME NEW S, NEW s \in Seq(S), s # <<>>
  PROVE  ButLast(s) \in Seq(S) /\ LastOf(s) \in S
<1> PICK n : n = Len(s) - 1
  OBVIOUS
<1>1. n \in Nat /\ Len(s) = n + 1
  OBVIOUS
<1>2. ButLast(s) = [i \in 1 .. n |-> s[i]]
  BY <1>1 DEF ButLast
<1>3. \A i \in 1 .. n + 1 : s[i] \in S
  BY <1>1
<1>4. ButLast(s) \in [1 .. n -> S]
  BY <1>1, <1>2, <1>3
<1> QED BY <1>1, <1>3, <1>4 DEF LastOf

\* A call that begins.
LEMMA FrameTypes ==
  ASSUME CallsOK, NEW kind \in Kinds
  PROVE  Frame(kind) \in Frames
<1>1. Len(ser.out) \in Nat /\ ser.depth \in Nat
  BY DEF CallsOK, Resting, Serializers
<1> QED BY <1>1 DEF Frame, Frames, Kinds

\* The innermost call returns, or is replaced, or makes a call.
LEMMA CallTypes ==
  ASSUME CallsOK, stack # <<>>, NEW f \in Frames
  PROVE  /\ Top \in Frames
         /\ Returned \in Seq(Frames)
         /\ Instead(f) \in Seq(Frames)
         /\ Inside(f) \in Seq(Frames)
<1> PICK rest : rest = ButLast(stack)
  OBVIOUS
<1>1. stack \in Seq(Frames)
  BY DEF CallsOK
<1>2. rest \in Seq(Frames) /\ Top \in Frames
  BY <1>1, ButLastShorter DEF Top
<1>3. Instead(f) \in Seq(Frames)
  BY <1>2 DEF Instead
<1>4. Inside(f) \in Seq(Frames)
  BY <1>3, FrameTypes DEF Inside, Kinds
<1>5. \A g \in Frames : Advanced(g) \in Frames
  BY DEF Advanced, Frames
<1>6. Returned \in Seq(Frames)
  <2>1. CASE rest = <<>>
    BY <2>1 DEF Returned
  <2>2. CASE rest # <<>>
    <3>1. Returned = [rest EXCEPT ![Len(rest)] = Advanced(rest[Len(rest)])]
      BY <2>2 DEF Returned
    <3>2. Len(rest) \in Nat \ {0} /\ rest[Len(rest)] \in Frames
      BY <1>2, <2>2
    <3>3. Advanced(rest[Len(rest)]) \in Frames
      BY <1>5, <3>2
    <3> QED BY <1>2, <3>1, <3>2, <3>3
  <2> QED BY <2>1, <2>2
<1> QED BY <1>2, <1>3, <1>4, <1>6

\* What a method does, and what an error does.
LEMMA DoKeeps ==
  ASSUME CallsOK, NEW s, Resting(s), NEW calls \in Seq(Frames), Do(s, calls)
  PROVE  CallsOK'
<1>1. Resting(ser')
  BY DEF Do
<1>2. stack' \in Seq(Frames) /\ errors' \subseteq Failures
  BY DEF Do, CallsOK, Failures
<1> QED BY <1>1, <1>2 DEF CallsOK

LEMMA AbortKeeps ==
  ASSUME CallsOK, NEW kind \in Failures, Abort(kind)
  PROVE  CallsOK'
<1>1. ser' \in Serializers /\ SameDocument(ser, ser')
  BY DEF Abort, CallsOK, Resting, Serializers, SameDocument
<1>2. Resting(ser')
  BY <1>1, Restated DEF CallsOK
<1>3. stack' \in Seq(Frames) /\ errors' \subseteq Failures
  BY DEF Abort, CallsOK
<1> QED BY <1>2, <1>3 DEF CallsOK

-----------------------------------------------------------------------------
(* The actions.                                                            *)

\* A tag that is found is kept for the next node.
LEMMA FoundTagRests ==
  ASSUME CallsOK, NEW tag \in Tags \cup {TagText}
  PROVE  Resting(FoundTag(tag))
<1>1. FoundTag(tag) \in Serializers /\ SameDocument(ser, FoundTag(tag))
  BY DEF FoundTag, CallsOK, Resting, Serializers, SameDocument, States
<1> QED BY <1>1, Restated DEF CallsOK

LEMMA MapBegunRests ==
  ASSUME CallsOK, NEW one \in BOOLEAN
  PROVE  Resting(MapBegun(one))
<1>1. Resting(EmitMappingStart(ser)) /\ Resting([ser EXCEPT !.state = "CheckForTag"])
  BY EmitMappingStartRests, StateRests DEF CallsOK, States
<1>2. Resting([EmitMappingStart(ser) EXCEPT !.state = "CheckForDuplicateTag"])
  BY <1>1, StateRests DEF States
<1> QED BY <1>1, <1>2 DEF MapBegun

LEMMA MapEndedRests ==
  ASSUME CallsOK
  PROVE  Resting(MapEnded)
<1> PICK s : s = IF ser.state = "CheckForTag" THEN EmitMappingStart(ser) ELSE ser
  OBVIOUS
<1> PICK t : t = IF s.state = "AlreadyTagged" THEN s ELSE EmitMappingEnd(s)
  OBVIOUS
<1>1. MapEnded = [t EXCEPT !.state = "NothingInParticular"]
  BY DEF MapEnded
<1>2. Resting(s)
  BY EmitMappingStartRests DEF CallsOK
<1>3. Resting(t)
  BY <1>2, EmitMappingEndRests
<1> QED BY <1>1, <1>3, StateRests DEF States

\* The registry knows one more pointer.
LEMMA RegistryRests ==
  ASSUME CallsOK, NEW counter \in Nat,
         NEW names \in UNION { [P -> Names] : P \in SUBSET Pointers }
  PROVE  Resting([ser EXCEPT !.counter = counter, !.names = names])
<1> PICK s : s = [ser EXCEPT !.counter = counter, !.names = names]
  OBVIOUS
<1>1. ser \in Serializers
  BY DEF CallsOK, Resting
<1>2. s \in Serializers
  BY ONLY <1>1, counter \in Nat, names \in UNION { [P -> Names] : P \in SUBSET Pointers },
          s = [ser EXCEPT !.counter = counter, !.names = names] DEF Serializers
<1>3. SameDocument(ser, s)
  BY <1>1 DEF Serializers, SameDocument
<1> QED BY <1>2, <1>3, Restated DEF CallsOK

LEMMA AnchoredKeeps ==
  ASSUME CallsOK, stack # <<>>, NEW s, Resting(s), NEW name \in Names, Anchored(s, name)
  PROVE  CallsOK'
<1> PICK t : t = [s EXCEPT !.pending = name]
  OBVIOUS
<1> PICK f : f = [Frame("anchor") EXCEPT !.step = "value", !.name = name,
                                         !.late = ser.state = "CheckForTag"]
  OBVIOUS
<1>1. s \in Serializers
  BY DEF Resting
<1>2. t \in Serializers /\ SameDocument(s, t)
  BY <1>1 DEF Serializers, SameDocument
<1>3. Resting(t)
  BY <1>2, Restated
<1>4. f \in Frames
  <2> PICK late \in BOOLEAN : late = (ser.state = "CheckForTag")
    OBVIOUS
  <2> PICK g \in Frames : g = Frame("anchor")
    BY FrameTypes DEF Kinds
  <2>1. f = [g EXCEPT !.step = "value", !.name = name, !.late = late]
    OBVIOUS
  <2> QED BY ONLY <2>1, name \in Names, g \in Frames, late \in BOOLEAN DEF Frames
<1>5. Do(t, Inside(f))
  BY DEF Anchored
<1> QED BY <1>3, <1>4, <1>5, CallTypes, DoKeeps

LEMMA AliasedKeeps ==
  ASSUME CallsOK, stack # <<>>, NEW name \in Names, Aliased(name)
  PROVE  CallsOK'
<1>1. CASE ser.check /\ name \notin ser.anchors
  BY <1>1, AbortKeeps DEF Aliased, Failures
<1>2. CASE ~(ser.check /\ name \notin ser.anchors)
  <2>1. Resting(EmitAlias(ser, name))
    BY <1>2, EmitAliasRests DEF CallsOK
  <2>2. Do(EmitAlias(ser, name), Returned)
    BY <1>2 DEF Aliased
  <2>3. Returned \in Seq(Frames)
    BY CallTypes, FrameTypes DEF Kinds
  <2> QED BY <2>1, <2>2, <2>3, DoKeeps
<1> QED BY <1>1, <1>2

\* No step of the caller or of a value loses what CallsOK says.
LEMMA CallsStep ==
  ASSUME CallsOK, Next
  PROVE  CallsOK'
<1> USE DEF Kinds
<1>1. Resting(ser) /\ ser \in Serializers
  BY DEF CallsOK, Resting
<1>2. \A kind \in Kinds : Frame(kind) \in Frames
  BY FrameTypes
<1>3. In("node", "open") => stack # <<>>
  BY DEF In
<1>4. stack # <<>> => Top \in Frames /\ Returned \in Seq(Frames)
  BY <1>2, CallTypes
<1>5. stack # <<>> =>
        \A f \in Frames : Instead(f) \in Seq(Frames) /\ Inside(f) \in Seq(Frames)
  BY CallTypes
<1>6. ASSUME SerializeValue PROVE CallsOK'
  <2>1. ser' = ser /\ errors' = errors /\ stack' = <<Frame("node")>>
    BY <1>6 DEF SerializeValue
  <2>2. <<Frame("node")>> \in Seq(Frames)
    BY <1>2
  <2> QED BY <2>1, <2>2 DEF CallsOK
<1>7. ASSUME SerializeScalar PROVE CallsOK'
  <2>1. stack # <<>> /\ Do(EmitScalar(ser), Returned)
    BY <1>3, <1>7 DEF SerializeScalar, Asked
  <2> QED BY <1>1, <1>4, <2>1, EmitScalarRests, DoKeeps
<1>8. ASSUME CollectStr PROVE CallsOK'
  <2> PICK s : s = IF LooksForTag THEN FoundTag(TagText) ELSE EmitScalar(ser)
    OBVIOUS
  <2>1. stack # <<>> /\ Do(s, Returned)
    BY <1>3, <1>8 DEF CollectStr, Asked
  <2>2. Resting(s)
    BY <1>1, EmitScalarRests, FoundTagRests
  <2> QED BY <1>4, <2>1, <2>2, DoKeeps
<1>9. ASSUME SerializeSeq PROVE CallsOK'
  <2>1. stack # <<>> /\ Do(EmitSequenceStart(ser), Instead(Frame("seq")))
    BY <1>3, <1>9 DEF SerializeSeq, Asked
  <2>2. Instead(Frame("seq")) \in Seq(Frames)
    BY <1>2, <1>5, <2>1
  <2> QED BY <1>1, <2>1, <2>2, EmitSequenceStartRests, DoKeeps
<1>10. ASSUME SerializeMap PROVE CallsOK'
  <2>1. PICK one \in BOOLEAN :
          stack # <<>> /\ Do(MapBegun(one), Instead([Frame("map") EXCEPT !.one = one]))
    BY <1>3, <1>10 DEF SerializeMap, Asked
  <2>2. [Frame("map") EXCEPT !.one = one] \in Frames
    BY <1>2 DEF Frames
  <2>3. Instead([Frame("map") EXCEPT !.one = one]) \in Seq(Frames)
    BY <1>5, <2>1, <2>2
  <2> QED BY <2>1, <2>3, MapBegunRests, DoKeeps
<1>11. ASSUME SerializeTagged PROVE CallsOK'
  <2>1. PICK tag \in Tags :
          /\ stack # <<>>
          /\ Do(MapBegun(TRUE), Instead([Frame("map") EXCEPT !.one = TRUE, !.tag = tag]))
    BY <1>3, <1>11 DEF SerializeTagged, Asked
  <2>2. [Frame("map") EXCEPT !.one = TRUE, !.tag = tag] \in Frames
    <3> PICK g \in Frames : g = Frame("map")
      BY <1>2
    <3>1. [g EXCEPT !.one = TRUE, !.tag = tag] \in Frames
      BY ONLY g \in Frames, tag \in Tags DEF Frames
    <3> QED BY <3>1
  <2>3. Instead([Frame("map") EXCEPT !.one = TRUE, !.tag = tag]) \in Seq(Frames)
    BY <1>5, <2>1, <2>2
  <2> QED BY <2>1, <2>3, MapBegunRests, DoKeeps
<1>12. ASSUME SerializeStruct PROVE CallsOK'
  <2>1. stack # <<>> /\ Do(EmitMappingStart(ser), Instead(Frame("struct")))
    BY <1>3, <1>12 DEF SerializeStruct, Asked
  <2>2. Instead(Frame("struct")) \in Seq(Frames)
    BY <1>2, <1>5, <2>1
  <2> QED BY <1>1, <2>1, <2>2, EmitMappingStartRests, DoKeeps
<1>13. ASSUME SerializeNewtypeVariant PROVE CallsOK'
  <2> PICK f : f = [Frame("variant") EXCEPT !.step = "value"]
    OBVIOUS
  <2>1. stack # <<>> /\ Do(EmitScalar(EmitMappingStart(ser)), Inside(f))
    BY <1>3, <1>13 DEF SerializeNewtypeVariant, Asked
  <2>2. f \in Frames
    BY <1>2 DEF Frames
  <2>3. Inside(f) \in Seq(Frames)
    BY <1>5, <2>1, <2>2
  <2>4. Resting(EmitScalar(EmitMappingStart(ser)))
    BY <1>1, EmitMappingStartRests, EmitScalarRests
  <2> QED BY <2>1, <2>3, <2>4, DoKeeps
<1>14. ASSUME SerializeTupleVariant PROVE CallsOK'
  <2> PICK f : f = [Frame("seq") EXCEPT !.ends = 2]
    OBVIOUS
  <2>1. /\ stack # <<>>
        /\ Do(EmitSequenceStart(EmitScalar(EmitMappingStart(ser))), Instead(f))
    BY <1>3, <1>14 DEF SerializeTupleVariant, Asked
  <2>2. f \in Frames
    BY <1>2 DEF Frames
  <2>3. Instead(f) \in Seq(Frames)
    BY <1>5, <2>1, <2>2
  <2>4. Resting(EmitSequenceStart(EmitScalar(EmitMappingStart(ser))))
    BY <1>1, EmitMappingStartRests, EmitScalarRests, EmitSequenceStartRests
  <2> QED BY <2>1, <2>3, <2>4, DoKeeps
<1>15. ASSUME SerializeStructVariant PROVE CallsOK'
  <2> PICK f : f = [Frame("struct") EXCEPT !.ends = 2]
    OBVIOUS
  <2>1. /\ stack # <<>>
        /\ Do(EmitMappingStart(EmitScalar(EmitMappingStart(ser))), Instead(f))
    BY <1>3, <1>15 DEF SerializeStructVariant, Asked
  <2>2. f \in Frames
    BY <1>2 DEF Frames
  <2>3. Instead(f) \in Seq(Frames)
    BY <1>5, <2>1, <2>2
  <2>4. Resting(EmitMappingStart(EmitScalar(EmitMappingStart(ser))))
    BY <1>1, EmitMappingStartRests, EmitScalarRests
  <2> QED BY <2>1, <2>3, <2>4, DoKeeps
<1>16. ASSUME SerializeAnchor PROVE CallsOK'
  <2>1. PICK name \in Anchors : stack # <<>> /\ Anchored(ser, name)
    BY <1>3, <1>16 DEF SerializeAnchor, Asked
  <2> QED BY <1>1, <2>1, AnchoredKeeps DEF Names
<1>17. ASSUME SerializeAlias PROVE CallsOK'
  <2>1. PICK name \in Anchors : stack # <<>> /\ Aliased(name)
    BY <1>3, <1>17 DEF SerializeAlias, Asked
  <2> QED BY <2>1, AliasedKeeps DEF Names
<1>18. ASSUME SerializeRc PROVE CallsOK'
  <2>1. PICK p \in Pointers :
          /\ stack # <<>>
          /\ IF p \in DOMAIN ser.names
               THEN Aliased(ser.names[p])
               ELSE /\ ser.counter < Len(AnchorName)
                    /\ LET name == AnchorName[ser.counter + 1]
                       IN  Anchored([ser EXCEPT !.counter = @ + 1,
                                                !.names = [q \in DOMAIN @ \cup {p} |->
                                                             IF q = p THEN name ELSE @[q]]],
                                    name)
    BY <1>3, <1>18 DEF SerializeRc, Asked
  <2>2. PICK P \in SUBSET Pointers : ser.names \in [P -> Names]
    BY <1>1 DEF Serializers
  <2>3. CASE p \in DOMAIN ser.names
    <3>1. ser.names[p] \in Names
      BY <2>2, <2>3
    <3> QED BY <2>1, <2>3, <3>1, AliasedKeeps
  <2>4. CASE p \notin DOMAIN ser.names
    <3> PICK name : name = AnchorName[ser.counter + 1]
      OBVIOUS
    <3> PICK names : names = [q \in DOMAIN ser.names \cup {p} |->
                                IF q = p THEN name ELSE ser.names[q]]
      OBVIOUS
    <3> PICK s : s = [ser EXCEPT !.counter = @ + 1, !.names = names]
      OBVIOUS
    <3>1. ser.counter < Len(AnchorName) /\ Anchored(s, name)
      BY <2>1, <2>4
    <3>2. ser.counter + 1 \in DOMAIN AnchorName
      BY <1>1, <3>1, SerializerAssumption DEF Serializers
    <3>3. name \in Names
      BY <3>2 DEF Names
    <3>4. P \cup {p} \in SUBSET Pointers /\ names \in [P \cup {p} -> Names]
      BY <2>2, <3>3
    <3>5. names \in UNION { [Q -> Names] : Q \in SUBSET Pointers }
      BY <3>4
    <3>6. ser.counter + 1 \in Nat
      BY <1>1 DEF Serializers
    <3>7. Resting(s)
      BY <3>5, <3>6, RegistryRests
    <3> QED BY <2>1, <3>1, <3>3, <3>7, AnchoredKeeps
  <2> QED BY <2>3, <2>4
<1>19. ASSUME SerializeFlow PROVE CallsOK'
  <2>1. PICK kind \in {"flowSeq", "flowMap"} :
          /\ stack # <<>>
          /\ Do(IF kind = "flowSeq" THEN [ser EXCEPT !.flowSeq = TRUE]
                                    ELSE [ser EXCEPT !.flowMap = TRUE],
                Inside([Frame(kind) EXCEPT !.step = "value"]))
    BY <1>3, <1>19 DEF SerializeFlow, Asked
  <2> PICK s : s = IF kind = "flowSeq" THEN [ser EXCEPT !.flowSeq = TRUE]
                                       ELSE [ser EXCEPT !.flowMap = TRUE]
    OBVIOUS
  <2>2. s \in Serializers /\ SameDocument(ser, s)
    BY <1>1 DEF Serializers, SameDocument
  <2>3. Resting(s)
    BY <1>1, <2>2, Restated
  <2>4. [Frame(kind) EXCEPT !.step = "value"] \in Frames
    BY <1>2 DEF Frames
  <2>5. Inside([Frame(kind) EXCEPT !.step = "value"]) \in Seq(Frames)
    BY <1>5, <2>1, <2>4
  <2> QED BY <2>1, <2>3, <2>5, DoKeeps
<1>20. ASSUME Fail PROVE CallsOK'
  BY <1>20, AbortKeeps DEF Fail, Failures
<1>21. ASSUME NextElement PROVE CallsOK'
  <2> PICK f : f = [Top EXCEPT !.step = "value"]
    OBVIOUS
  <2>1. stack # <<>> /\ Do(ser, Inside(f))
    BY <1>21 DEF NextElement, In
  <2>2. f \in Frames
    BY <1>4, <2>1 DEF Frames
  <2>3. Inside(f) \in Seq(Frames)
    BY <1>5, <2>1, <2>2
  <2> QED BY <1>1, <2>1, <2>3, DoKeeps
<1>22. ASSUME NextField PROVE CallsOK'
  <2> PICK f : f = [Top EXCEPT !.step = "value"]
    OBVIOUS
  <2>1. stack # <<>> /\ Do(EmitScalar(ser), Inside(f))
    BY <1>22 DEF NextField, In
  <2>2. f \in Frames
    BY <1>4, <2>1 DEF Frames
  <2>3. Inside(f) \in Seq(Frames)
    BY <1>5, <2>1, <2>2
  <2> QED BY <1>1, <2>1, <2>3, EmitScalarRests, DoKeeps
<1>23. ASSUME NextKey PROVE CallsOK'
  <2>1. PICK entry \in BOOLEAN :
          /\ stack # <<>>
          /\ Do(IF entry THEN ser ELSE FlushMappingStart(ser),
                Inside([Top EXCEPT !.step = "key", !.entry = entry]))
    BY <1>23 DEF NextKey, In
  <2> PICK s : s = IF entry THEN ser ELSE FlushMappingStart(ser)
    OBVIOUS
  <2>2. Resting(s)
    BY <1>1, FlushRests
  <2>3. [Top EXCEPT !.step = "key", !.entry = entry] \in Frames
    BY <1>4, <2>1 DEF Frames
  <2>4. Inside([Top EXCEPT !.step = "key", !.entry = entry]) \in Seq(Frames)
    BY <1>5, <2>1, <2>3
  <2> QED BY <2>1, <2>2, <2>4, DoKeeps
<1>24. ASSUME TagKey PROVE CallsOK'
  <2> PICK f : f = [Top EXCEPT !.step = "keyed", !.entry = TRUE]
    OBVIOUS
  <2>1. stack # <<>> /\ Top.tag # NoTag /\ Do(FoundTag(Top.tag), Instead(f))
    BY <1>24 DEF TagKey, In
  <2>2. Top.tag \in Tags \cup {NoTag}
    BY <1>4, <2>1 DEF Frames
  <2>3. Resting(FoundTag(Top.tag))
    BY <2>1, <2>2, FoundTagRests
  <2>4. f \in Frames
    BY <1>4, <2>1 DEF Frames
  <2>5. Instead(f) \in Seq(Frames)
    BY <1>5, <2>1, <2>4
  <2> QED BY <2>1, <2>3, <2>5, DoKeeps
<1>25. ASSUME NextValue PROVE CallsOK'
  <2> PICK tagged \in BOOLEAN : tagged = (Top.entry /\ ser.state = "FoundTag")
    OBVIOUS
  <2> PICK f : f = [Top EXCEPT !.step = "value", !.tagged = tagged]
    OBVIOUS
  <2>1. stack # <<>> /\ Do(ser, Inside(f))
    BY <1>25 DEF NextValue, In
  <2>2. Top \in Frames
    BY <1>4, <2>1
  <2>3. f \in Frames
    BY ONLY <2>2, f = [Top EXCEPT !.step = "value", !.tagged = tagged], tagged \in BOOLEAN
       DEF Frames
  <2>4. Inside(f) \in Seq(Frames)
    BY <1>5, <2>1, <2>3
  <2> QED BY <1>1, <2>1, <2>4, DoKeeps
<1>26. ASSUME EndEntry PROVE CallsOK'
  <2> PICK s : s = IF Top.tagged THEN [ser EXCEPT !.state = "AlreadyTagged"] ELSE ser
    OBVIOUS
  <2> PICK f : f = [Top EXCEPT !.step = "open", !.begun = TRUE]
    OBVIOUS
  <2>1. stack # <<>> /\ Do(s, Instead(f))
    BY <1>26 DEF EndEntry, In
  <2>2. Resting(s)
    BY <1>1, StateRests DEF States
  <2>3. f \in Frames
    BY <1>4, <2>1 DEF Frames
  <2>4. Instead(f) \in Seq(Frames)
    BY <1>5, <2>1, <2>3
  <2> QED BY <2>1, <2>2, <2>4, DoKeeps
<1>27. ASSUME EndSeq PROVE CallsOK'
  <2> PICK s : s = IF Top.ends = 2 THEN EmitMappingEnd(EmitSequenceEnd(ser))
                                   ELSE EmitSequenceEnd(ser)
    OBVIOUS
  <2>1. stack # <<>> /\ Do(s, Returned)
    BY <1>27 DEF EndSeq, In
  <2>2. Resting(s)
    BY <1>1, EmitSequenceEndRests, EmitMappingEndRests
  <2> QED BY <1>4, <2>1, <2>2, DoKeeps
<1>28. ASSUME EndStruct PROVE CallsOK'
  <2> PICK s : s = IF Top.ends = 2 THEN EmitMappingEnd(EmitMappingEnd(ser))
                                   ELSE EmitMappingEnd(ser)
    OBVIOUS
  <2>1. stack # <<>> /\ Do(s, Returned)
    BY <1>28 DEF EndStruct, In
  <2>2. Resting(s)
    BY <1>1, EmitMappingEndRests
  <2> QED BY <1>4, <2>1, <2>2, DoKeeps
<1>29. ASSUME EndMap PROVE CallsOK'
  <2>1. stack # <<>> /\ Do(MapEnded, Returned)
    BY <1>29 DEF EndMap, In
  <2> QED BY <1>4, <2>1, MapEndedRests, DoKeeps
<1>30. ASSUME EndVariant PROVE CallsOK'
  <2>1. stack # <<>> /\ Do(EmitMappingEnd(ser), Returned)
    BY <1>30 DEF EndVariant, In
  <2> QED BY <1>1, <1>4, <2>1, EmitMappingEndRests, DoKeeps
<1>31. ASSUME EndAnchor PROVE CallsOK'
  <2>1. stack # <<>> /\ Do(ser, Returned)
    BY <1>31 DEF EndAnchor, In
  <2> QED BY <1>1, <1>4, <2>1, DoKeeps
<1>32. ASSUME EndFlow PROVE CallsOK'
  <2>1. stack # <<>> /\ (Abort("flow") \/ Do(ser, Returned))
    BY <1>32 DEF EndFlow, In
  <2> QED BY <1>1, <1>4, <2>1, AbortKeeps, DoKeeps DEF Failures
<1> HIDE DEF Kinds
<1> QED
  BY <1>6, <1>7, <1>8, <1>9, <1>10, <1>11, <1>12, <1>13, <1>14, <1>15, <1>16, <1>17, <1>18,
     <1>19, <1>20, <1>21, <1>22, <1>23, <1>24, <1>25, <1>26, <1>27, <1>28, <1>29, <1>30,
     <1>31, <1>32 DEF Next

LEMMA HistoriesStep ==
  ASSUME Histories, Next
  PROVE  Histories'
<1>1. left' \in Nat
  <2>1. ASSUME SerializeRc PROVE Spent \/ Unspent
    BY <2>1 DEF SerializeRc, Anchored, Aliased
  <2>2. Spent \/ Unspent
    BY <2>1 DEF Next, SerializeValue, SerializeScalar, CollectStr,
      SerializeSeq, SerializeMap, SerializeTagged, SerializeStruct, SerializeNewtypeVariant,
      SerializeTupleVariant, SerializeStructVariant, SerializeAnchor, SerializeAlias,
      SerializeFlow, Fail, NextElement, NextField, NextKey, TagKey, NextValue,
      EndEntry, EndSeq, EndStruct, EndMap, EndVariant, EndAnchor, EndFlow, Anchored, Aliased
  <2> QED BY <2>2 DEF Spent, Unspent, Histories
<1>2. twisted' \in BOOLEAN
  BY DEF Histories, Next, Straight, SerializeValue, SerializeScalar, CollectStr,
    SerializeSeq, SerializeMap, SerializeTagged, SerializeStruct, SerializeNewtypeVariant,
    SerializeTupleVariant, SerializeStructVariant, SerializeAnchor, SerializeAlias,
    SerializeRc, SerializeFlow, Fail, NextElement, NextField, NextKey, TagKey, NextValue,
    EndEntry, EndSeq, EndStruct, EndMap, EndVariant, EndAnchor, EndFlow, Anchored, Aliased
<1>3. covered' \in BOOLEAN
  BY DEF Histories, Next, Straight, SerializeValue, SerializeScalar, CollectStr,
    SerializeSeq, SerializeMap, SerializeTagged, SerializeStruct, SerializeNewtypeVariant,
    SerializeTupleVariant, SerializeStructVariant, SerializeAnchor, SerializeAlias,
    SerializeRc, SerializeFlow, Fail, NextElement, NextField, NextKey, TagKey, NextValue,
    EndEntry, EndSeq, EndStruct, EndMap, EndVariant, EndAnchor, EndFlow, Anchored, Aliased
<1> QED BY <1>1, <1>2, <1>3 DEF Histories

-----------------------------------------------------------------------------
(* The registry, step by step.                                             *)

\* What a method does to the registry it does to that of the thread.
LEMMA DoRegistered ==
  ASSUME NEW s, NEW calls, Do(s, calls), covered' = covered,
         Registered(ser) => Registered(s), RegistryOK
  PROVE  RegistryOK'
BY DEF Do, RegistryOK, Registered

\* An error changes the styles only.
LEMMA AbortRegistered ==
  ASSUME CallsOK, NEW kind, Abort(kind), covered' = covered, RegistryOK
  PROVE  RegistryOK'
<1>1. ser \in Serializers
  BY DEF CallsOK, Resting
<1>2. ser'.names = ser.names /\ ser'.anchors = ser.anchors /\ ser'.pending = ser.pending
  BY <1>1 DEF Abort, Serializers
<1> QED BY <1>2 DEF RegistryOK, Registered

\* A name that becomes pending pushes out none that was.
LEMMA AnchoredRegistered ==
  ASSUME NEW s \in Serializers, NEW name \in Names, Anchored(s, name), RegistryOK,
         s.anchors = ser.anchors,
         \A p \in DOMAIN s.names :
           (p \in DOMAIN ser.names /\ s.names[p] = ser.names[p]) \/ s.names[p] = name
  PROVE  RegistryOK'
<1> PICK t : t = [s EXCEPT !.pending = name]
  OBVIOUS
<1>1. t.names = s.names /\ t.anchors = ser.anchors /\ t.pending = name
  BY DEF Serializers
<1>2. ser' = t
  BY DEF Anchored, Do
<1>3. name # NoAnchor
  BY SerializerAssumption
<1>4. ASSUME ~covered' PROVE Registered(t)
  <2>1. ~covered /\ ser.pending = NoAnchor
    BY <1>4 DEF Anchored
  <2>2. \A p \in DOMAIN ser.names : ser.names[p] # NoAnchor /\ ser.names[p] \in ser.anchors
    BY <2>1 DEF RegistryOK, Registered
  <2> QED BY <1>1, <1>3, <2>2 DEF Registered
<1> QED BY <1>2, <1>4 DEF RegistryOK, Registered

LEMMA AliasedRegistered ==
  ASSUME CallsOK, RegistryOK, NEW name \in Names, Aliased(name)
  PROVE  RegistryOK'
<1>1. covered' = covered
  BY DEF Aliased, Straight
<1>2. CASE ser.check /\ name \notin ser.anchors
  BY <1>1, <1>2, AbortRegistered DEF Aliased
<1>3. CASE ~(ser.check /\ name \notin ser.anchors)
  <2>1. Do(EmitAlias(ser, name), Returned)
    BY <1>3 DEF Aliased
  <2>2. Registered(ser) => Registered(EmitAlias(ser, name))
    BY <1>3, EmitAliasRegistered DEF CallsOK
  <2> QED BY <1>1, <2>1, <2>2, DoRegistered
<1> QED BY <1>2, <1>3

LEMMA RegistryStep ==
  ASSUME CallsOK, RegistryOK, Next
  PROVE  RegistryOK'
<1>1. Resting(ser) /\ ser \in Serializers
  BY DEF CallsOK, Resting
<1>2. ASSUME NEW s, NEW calls, Do(s, calls), covered' = covered,
             s = ser
               \/ s \in {EmitScalar(ser), EmitSequenceStart(ser), EmitMappingStart(ser),
                         EmitSequenceEnd(ser), EmitMappingEnd(ser)}
      PROVE  RegistryOK'
  <2>1. Registered(ser) => Registered(s)
    BY <1>1, <1>2, EmitScalarRegistered, EmitSequenceStartRegistered,
       EmitMappingStartRegistered, EmitEndsRegistered
  <2> QED BY <1>2, <2>1, DoRegistered
<1>3. ASSUME NEW tag \in Tags \cup {TagText}, Registered(ser)
      PROVE  Registered(FoundTag(tag))
  BY <1>1, <1>3 DEF FoundTag, Serializers, Registered
<1>4. ASSUME NEW one \in BOOLEAN, Registered(ser)
      PROVE  Registered(MapBegun(one))
  <2>1. Resting(EmitMappingStart(ser)) /\ Registered(EmitMappingStart(ser))
    BY <1>1, <1>4, EmitMappingStartRests, EmitMappingStartRegistered
  <2> QED BY <1>1, <1>4, <2>1, StateRegistered DEF MapBegun, States
<1>5. ASSUME Registered(ser)
      PROVE  Registered(MapEnded)
  <2> PICK s : s = IF ser.state = "CheckForTag" THEN EmitMappingStart(ser) ELSE ser
    OBVIOUS
  <2> PICK t : t = IF s.state = "AlreadyTagged" THEN s ELSE EmitMappingEnd(s)
    OBVIOUS
  <2>1. MapEnded = [t EXCEPT !.state = "NothingInParticular"]
    BY DEF MapEnded
  <2>2. Resting(s) /\ Registered(s)
    BY <1>1, <1>5, EmitMappingStartRests, EmitMappingStartRegistered
  <2>3. Resting(t) /\ Registered(t)
    BY <2>2, EmitMappingEndRests, EmitEndsRegistered
  <2> QED BY <2>1, <2>3, StateRegistered DEF States
<1>6. CASE SerializeValue
  BY <1>6 DEF SerializeValue, Straight, RegistryOK, Registered
<1>7. CASE SerializeScalar
  BY <1>2, <1>7 DEF SerializeScalar, Straight
<1>8. CASE CollectStr
  <2> PICK s : s = IF LooksForTag THEN FoundTag(TagText) ELSE EmitScalar(ser)
    OBVIOUS
  <2>1. Do(s, Returned) /\ covered' = covered
    BY <1>8 DEF CollectStr
  <2>2. Registered(ser) => Registered(s)
    BY <1>1, <1>3, EmitScalarRegistered
  <2> QED BY <2>1, <2>2, DoRegistered
<1>9. CASE SerializeSeq
  BY <1>2, <1>9 DEF SerializeSeq, Straight
<1>10. CASE SerializeMap
  <2>1. PICK one \in BOOLEAN :
          Do(MapBegun(one), Instead([Frame("map") EXCEPT !.one = one])) /\ covered' = covered
    BY <1>10 DEF SerializeMap
  <2> QED BY <1>4, <2>1, DoRegistered
<1>11. CASE SerializeTagged
  <2>1. PICK tag \in Tags :
          /\ Do(MapBegun(TRUE), Instead([Frame("map") EXCEPT !.one = TRUE, !.tag = tag]))
          /\ covered' = covered
    BY <1>11 DEF SerializeTagged
  <2> QED BY <1>4, <2>1, DoRegistered
<1>12. CASE SerializeStruct
  BY <1>2, <1>12 DEF SerializeStruct, Straight
<1>13. CASE SerializeNewtypeVariant \/ SerializeTupleVariant \/ SerializeStructVariant
  <2> PICK m : m = EmitMappingStart(ser)
    OBVIOUS
  <2> PICK k : k = EmitScalar(m)
    OBVIOUS
  <2>1. PICK s, calls : Do(s, calls) /\ covered' = covered
                        /\ s \in {k, EmitSequenceStart(k), EmitMappingStart(k)}
    BY <1>13 DEF SerializeNewtypeVariant, SerializeTupleVariant, SerializeStructVariant, Straight
  <2>2. Resting(m) /\ Resting(k)
    BY <1>1, EmitMappingStartRests, EmitScalarRests
  <2>3. Registered(ser) => Registered(k)
    BY <1>1, <2>2, EmitMappingStartRegistered, EmitScalarRegistered
  <2>4. Registered(ser) => Registered(s)
    BY <2>1, <2>2, <2>3, EmitSequenceStartRegistered, EmitMappingStartRegistered
  <2> QED BY <2>1, <2>4, DoRegistered
<1>14. CASE SerializeAnchor
  <2>1. PICK name \in Anchors : Anchored(ser, name)
    BY <1>14 DEF SerializeAnchor
  <2> QED BY <1>1, <2>1, AnchoredRegistered DEF Names
<1>15. CASE SerializeAlias
  BY <1>15, AliasedRegistered DEF SerializeAlias, Names
<1>16. CASE SerializeRc
  <2>1. PICK p \in Pointers :
          IF p \in DOMAIN ser.names
            THEN Aliased(ser.names[p])
            ELSE /\ ser.counter < Len(AnchorName)
                 /\ LET name == AnchorName[ser.counter + 1]
                    IN  Anchored([ser EXCEPT !.counter = @ + 1,
                                             !.names = [q \in DOMAIN @ \cup {p} |->
                                                          IF q = p THEN name ELSE @[q]]],
                                 name)
    BY <1>16 DEF SerializeRc
  <2>2. PICK P \in SUBSET Pointers : ser.names \in [P -> Names]
    BY <1>1 DEF Serializers
  <2>3. CASE p \in DOMAIN ser.names
    BY <2>1, <2>2, <2>3, AliasedRegistered
  <2>4. CASE p \notin DOMAIN ser.names
    <3> PICK name : name = AnchorName[ser.counter + 1]
      OBVIOUS
    <3> PICK names : names = [q \in DOMAIN ser.names \cup {p} |->
                                IF q = p THEN name ELSE ser.names[q]]
      OBVIOUS
    <3> PICK s : s = [ser EXCEPT !.counter = @ + 1, !.names = names]
      OBVIOUS
    <3>1. ser.counter < Len(AnchorName) /\ Anchored(s, name)
      BY <2>1, <2>4
    <3>2. ser.counter + 1 \in DOMAIN AnchorName
      BY <1>1, <3>1, SerializerAssumption DEF Serializers
    <3>3. name \in Names
      BY <3>2 DEF Names
    <3>4. P \cup {p} \in SUBSET Pointers /\ names \in [P \cup {p} -> Names]
      BY <2>2, <3>3
    <3>5. names \in UNION { [Q -> Names] : Q \in SUBSET Pointers }
      BY <3>4
    <3>6. ser.counter + 1 \in Nat
      BY <1>1 DEF Serializers
    <3>7. s \in Serializers
      BY <1>1, <3>5, <3>6, RegistryRests DEF Resting
    <3>8. s.anchors = ser.anchors /\ s.names = names
      BY <1>1 DEF Serializers
    <3>9. \A q \in DOMAIN s.names :
            (q \in DOMAIN ser.names /\ s.names[q] = ser.names[q]) \/ s.names[q] = name
      BY <3>8
    <3> QED BY <3>1, <3>3, <3>7, <3>8, <3>9, AnchoredRegistered
  <2> QED BY <2>3, <2>4
<1>17. CASE SerializeFlow
  <2> PICK flowSeq, flowMap : flowSeq = [ser EXCEPT !.flowSeq = TRUE]
                              /\ flowMap = [ser EXCEPT !.flowMap = TRUE]
    OBVIOUS
  <2>1. PICK s, calls :
          s \in {flowSeq, flowMap} /\ Do(s, calls) /\ covered' = covered
    BY <1>17 DEF SerializeFlow, Straight
  <2>2. Registered(ser) => Registered(s)
    BY <1>1, <2>1 DEF Serializers, Registered
  <2> QED BY <2>1, <2>2, DoRegistered
<1>18. CASE Fail
  BY <1>18, AbortRegistered DEF Fail, Straight
<1>19. CASE NextElement \/ NextField \/ NextValue
  BY <1>2, <1>19 DEF NextElement, NextField, NextValue, Straight
<1>20. CASE NextKey
  <2>1. PICK s, calls :
          s \in {ser, FlushMappingStart(ser)} /\ Do(s, calls) /\ covered' = covered
    BY <1>20 DEF NextKey, Straight
  <2>2. Registered(ser) => Registered(s)
    BY <1>1, <2>1, FlushRegistered
  <2> QED BY <2>1, <2>2, DoRegistered
<1>21. CASE TagKey
  <2>1. PICK f : Do(FoundTag(Top.tag), Instead(f)) /\ covered' = covered
    BY <1>21 DEF TagKey
  <2>2. Registered(ser) => Registered(FoundTag(Top.tag))
    BY <1>1 DEF FoundTag, Serializers, Registered
  <2> QED BY <2>1, <2>2, DoRegistered
<1>22. CASE EndEntry
  <2>1. PICK s, calls :
          s \in {ser, [ser EXCEPT !.state = "AlreadyTagged"]}
          /\ Do(s, calls) /\ covered' = covered
    BY <1>22 DEF EndEntry, Straight
  <2>2. Registered(ser) => Registered(s)
    BY <1>1, <2>1, StateRegistered DEF States
  <2> QED BY <2>1, <2>2, DoRegistered
<1>23. CASE EndSeq \/ EndStruct \/ EndVariant
  <2> PICK q, m : q = EmitSequenceEnd(ser) /\ m = EmitMappingEnd(ser)
    OBVIOUS
  <2>1. PICK s, calls :
          s \in {q, m, EmitMappingEnd(q), EmitMappingEnd(m)}
          /\ Do(s, calls) /\ covered' = covered
    BY <1>23 DEF EndSeq, EndStruct, EndVariant, Straight
  <2>2. Resting(q) /\ Resting(m)
    BY <1>1, EmitSequenceEndRests, EmitMappingEndRests
  <2>3. Registered(ser) => Registered(s)
    BY <1>1, <2>1, <2>2, EmitEndsRegistered
  <2> QED BY <2>1, <2>3, DoRegistered
<1>24. CASE EndMap
  <2>1. Do(MapEnded, Returned) /\ covered' = covered
    BY <1>24 DEF EndMap, Straight
  <2> QED BY <1>5, <2>1, DoRegistered
<1>25. CASE EndAnchor
  BY <1>2, <1>25 DEF EndAnchor, Straight
<1>26. CASE EndFlow
  BY <1>2, <1>26, AbortRegistered DEF EndFlow, Straight
<1> QED
  BY <1>6, <1>7, <1>8, <1>9, <1>10, <1>11, <1>12, <1>13, <1>14, <1>15, <1>16, <1>17, <1>18,
     <1>19, <1>20, <1>21, <1>22, <1>23, <1>24, <1>25, <1>26 DEF Next

-----------------------------------------------------------------------------
(* What the emitter expects, level by level.                               *)

LEMMA LevelsCount ==
  ASSUME NEW s, Sound(s)
  PROVE  /\ s \in Serializers /\ s.depth \in Nat
         /\ Levels(s) \in Seq(Slots) /\ Len(Levels(s)) = s.depth
         /\ \A k \in 1 .. s.depth : Levels(s)[k] = s.open[k + 1] /\ s.open[k + 1] \in Slots
         /\ s.depth # 0 => s.open # <<>> /\ Len(s.open) = s.depth + 1
         /\ s.depth = 0 => s.open = <<>>
<1>1. s \in Serializers /\ s.depth \in Nat
  BY DEF Sound, Resting, Serializers
<1>2. Levels(s) \in Seq(Slots) /\ Len(Levels(s)) = s.depth
  BY <1>1 DEF Sound, Levels
<1>3. \A k \in 1 .. s.depth : Levels(s)[k] = s.open[k + 1] /\ Levels(s)[k] \in Slots
  BY <1>1, <1>2 DEF Levels
<1>4. Len(s.open) \in Nat
  BY <1>1 DEF Serializers
<1>5. s.depth # 0 => s.open # <<>> /\ Len(s.open) = s.depth + 1
  BY <1>1, <1>4 DEF Sound, Resting
<1>6. s.depth = 0 => s.open = <<>>
  BY DEF Sound, Resting
<1> QED BY <1>1, <1>2, <1>3, <1>5, <1>6

LEMMA SequenceOfItems ==
  ASSUME NEW S, NEW q \in Seq(S)
  PROVE  q = [k \in 1 .. Len(q) |-> q[k]]
OBVIOUS

LEMMA FlipLevels ==
  ASSUME NEW L \in Seq(Slots)
  PROVE  Flip(L) \in Seq(Slots) /\ Len(Flip(L)) = Len(L)
<1>1. Len(L) \in Nat /\ \A k \in 1 .. Len(L) : L[k] \in Slots
  OBVIOUS
<1>2. \A k \in 1 .. Len(L) : Turned(L[k]) \in Slots
  BY <1>1 DEF Turned, Slots
<1>3. Flip(L) \in [1 .. Len(L) -> Slots]
  BY <1>1, <1>2 DEF Flip
<1> QED BY <1>1, <1>3

\* A node may always begin.
LEMMA NodeBegins ==
  ASSUME NEW s, Sound(s)
  PROVE  LET u == ValueStart(s)
         IN  /\ u \in Serializers /\ ~u.failed /\ u.depth = s.depth + 1
             /\ u.open = IF s.open = <<>> THEN <<"root">> ELSE s.open
             /\ Expecting(u, {"root", "item", "key", "value"})
             /\ SameBut(s, u) /\ SameStyles(s, u)
<1> PICK u : u = ValueStart(s)
  OBVIOUS
<1>1. s \in Serializers /\ ~s.failed /\ s.depth \in Nat
  BY LevelsCount DEF Sound
<1>2. Within(u) /\ SameBut(s, u)
  BY ValueStartWithin DEF Sound
<1>3. u \in Serializers
  BY <1>2 DEF Within
<1>4. CASE s.depth = 0
  <2>1. s.open = <<>>
    BY <1>4, LevelsCount
  <2>2. u = [[s EXCEPT !.open = <<"root">>, !.out = <<>>] EXCEPT !.depth = @ + 1]
    BY <1>1, <1>4, <2>1 DEF ValueStart, EmitDocumentStart
  <2>3. /\ ~u.failed /\ u.depth = s.depth + 1 /\ u.open = <<"root">>
        /\ SameStyles(s, u)
    BY <1>1, <2>2 DEF Serializers, SameStyles
  <2>4. Expecting(u, {"root", "item", "key", "value"})
    BY <2>3 DEF Expecting, LastOf
  <2> QED BY <1>2, <1>3, <2>1, <2>3, <2>4
<1>5. CASE s.depth # 0
  <2>1. u = [s EXCEPT !.depth = @ + 1]
    BY <1>1, <1>5 DEF ValueStart
  <2>2. ~u.failed /\ u.depth = s.depth + 1 /\ u.open = s.open /\ SameStyles(s, u)
    BY <1>1, <2>1 DEF Serializers, SameStyles
  <2>3. s.open # <<>> /\ Len(s.open) = s.depth + 1 /\ s.open[s.depth + 1] \in Slots
    BY <1>1, <1>5, LevelsCount
  <2>4. Expecting(u, {"root", "item", "key", "value"})
    BY <2>2, <2>3 DEF Expecting, LastOf, Slots
  <2> QED BY <1>2, <1>3, <2>2, <2>3, <2>4
<1> QED BY <1>4, <1>5

\* The levels after a node, before it is counted down.
LEMMA NodeTurns ==
  ASSUME NEW s, Sound(s)
  PROVE  LET open == AfterNode(IF s.open = <<>> THEN <<"root">> ELSE s.open)
         IN  /\ open \in Seq(Expectations) /\ Len(open) = s.depth + 1 /\ open[1] = "done"
             /\ \A k \in 1 .. s.depth : open[k + 1] = Flip(Levels(s))[k]
<1> PICK below : below = IF s.open = <<>> THEN <<"root">> ELSE s.open
  OBVIOUS
<1> PICK open : open = AfterNode(below)
  OBVIOUS
<1>1. s.depth \in Nat /\ s \in Serializers
  BY LevelsCount
<1>2. CASE s.depth = 0
  <2>1. below = <<"root">>
    BY <1>2, LevelsCount
  <2>2. below \in Seq(Expectations) /\ below # <<>> /\ Len(below) = 1 /\ below[1] = "root"
    <3>1. "root" \in Expectations
      BY DEF Expectations
    <3> QED BY ONLY <2>1, <3>1
  <2>3. open \in Seq(Expectations) /\ Len(open) = 1
    BY <2>2, AfterNodeLevels
  <2>4. open[1] = "done"
    BY <2>2 DEF AfterNode
  <2> QED BY <1>2, <2>3, <2>4
<1>3. CASE s.depth # 0
  <2>1. below = s.open /\ below # <<>> /\ Len(below) = s.depth + 1 /\ below[1] = "done"
    BY <1>3, LevelsCount DEF Sound
  <2>2. below \in Seq(Expectations)
    BY <1>1, <2>1 DEF Serializers
  <2>3. open \in Seq(Expectations) /\ Len(open) = s.depth + 1
    BY <2>1, <2>2, AfterNodeLevels
  <2> PICK L : L = Levels(s)
    OBVIOUS
  <2>4. L \in Seq(Slots) /\ Len(L) = s.depth
        /\ \A k \in 1 .. s.depth : below[k + 1] = L[k] /\ L[k] \in Slots
    BY <2>1, LevelsCount
  <2>5. \A k \in 1 .. s.depth :
          open[k + 1] = IF k < s.depth THEN below[k + 1] ELSE Turned(below[k + 1])
    <3>1. ASSUME NEW k \in 1 .. s.depth
          PROVE  open[k + 1] = IF k < s.depth THEN below[k + 1] ELSE Turned(below[k + 1])
      <4>1. k + 1 \in 1 .. Len(below) /\ (k + 1 = Len(below) <=> ~(k < s.depth))
        BY <1>1, <2>1
      <4>2. DOMAIN below = 1 .. Len(below)
        BY ONLY <2>2
      <4>3. below[k + 1] \in Slots
        BY <2>4
      <4>4. CASE k < s.depth
        BY <4>1, <4>2, <4>4 DEF AfterNode
      <4>5. CASE ~(k < s.depth)
        BY <4>1, <4>2, <4>3, <4>5 DEF AfterNode, Turned, Slots
      <4> QED BY <4>4, <4>5
    <3> QED BY <3>1
  <2>6. open[1] = "done"
    BY <1>1, <1>3, <2>1, <2>2 DEF AfterNode
  <2>7. \A k \in 1 .. s.depth : open[k + 1] = Flip(L)[k]
    BY <2>4, <2>5 DEF Flip
  <2> QED BY <2>3, <2>6, <2>7
<1> QED BY <1>2, <1>3

\* A node that is complete is counted down, and the document ends with its root.
LEMMA NodeEnds ==
  ASSUME NEW v, Within(v), ~v.failed, v.open[1] = "done", NEW L \in Seq(Slots),
         v.depth = Len(L) + 1, \A k \in 1 .. Len(L) : v.open[k + 1] = L[k]
  PROVE  /\ Effect(v, ValueEnd(v), L, v.state)
         /\ L = <<>> => ValueEnd(v).names = NoNames
<1> PICK t : t = [v EXCEPT !.depth = @ - 1]
  OBVIOUS
<1> PICK r : r = ValueEnd(v)
  OBVIOUS
<1>1. v \in Serializers /\ v.open # <<>> /\ v.depth = Len(v.open) /\ Len(L) \in Nat
  BY DEF Within
<1>2. Resting(r)
  BY ValueEndRests
<1>3. t.depth = Len(L) /\ t.open = v.open /\ ~t.failed /\ t.state = v.state /\ SameStyles(v, t)
  BY <1>1 DEF Serializers, SameStyles
<1>4. CASE L = <<>>
  <2> PICK u : u = EmitDocumentEnd(t)
    OBVIOUS
  <2>1. t.depth = 0 /\ Len(t.open) = 1 /\ t.open[1] = "done"
    <3>1. Len(L) = 0
      BY <1>4
    <3>2. v.depth = 1 /\ v.open[1] = "done"
      BY <3>1
    <3> QED BY ONLY <1>1, <1>3, <3>1, <3>2
  <2>2. Expecting(t, {"done"})
    BY <1>1, <1>3, <2>1 DEF Expecting, LastOf
  <2>3. u = [t EXCEPT !.open = <<>>]
    BY <1>3, <2>2 DEF EmitDocumentEnd
  <2>4. r = Reset(u)
    <3>1. ~u.failed
      BY <1>1, <1>3, <2>3 DEF Serializers
    <3> QED BY <2>1, <3>1 DEF ValueEnd
  <2>5. /\ r.open = <<>> /\ r.depth = 0 /\ ~r.failed /\ r.state = v.state /\ SameStyles(v, r)
        /\ r.names = NoNames
    BY <1>1, <1>3, <1>4, <2>1, <2>3, <2>4 DEF Reset, Serializers, SameStyles
  <2>6. Levels(r) = L
    <3>1. Levels(r) = [k \in 1 .. 0 |-> r.open[k + 1]]
      BY <2>5 DEF Levels
    <3> QED BY <1>4, <3>1
  <2>7. Sound(r)
    BY <1>2, <2>5, <2>6 DEF Sound
  <2> QED BY <2>5, <2>6, <2>7 DEF Effect, SameStyles
<1>5. CASE L # <<>>
  <2>1. t.depth # 0
    BY <1>3, <1>5
  <2>2. r = t
    BY <2>1 DEF ValueEnd
  <2>3. Levels(r) = L
    <3>1. Levels(r) = [k \in 1 .. Len(L) |-> v.open[k + 1]]
      BY <1>3, <2>2 DEF Levels
    <3>2. Levels(r) = [k \in 1 .. Len(L) |-> L[k]]
      BY <3>1
    <3> QED BY <3>2
  <2>4. Sound(r)
    BY <1>2, <1>3, <2>2, <2>3 DEF Sound
  <2> QED BY <1>3, <1>5, <2>2, <2>3, <2>4 DEF Effect, SameStyles
<1> QED BY <1>4, <1>5

LEMMA StartEffect ==
  ASSUME NEW s, Sound(s), NEW type \in {"SequenceStart", "MappingStart"}
  PROVE  Effect(s, Taken(EmitStart(ValueStart(s), NodeEvent(s, type))),
                Append(Flip(Levels(s)), Opened(type)), "NothingInParticular")
<1> PICK e : e = NodeEvent(s, type)
  OBVIOUS
<1> PICK u : u = ValueStart(s)
  OBVIOUS
<1> PICK t : t = Taken(EmitStart(u, e))
  OBVIOUS
<1> PICK L : L = Levels(s)
  OBVIOUS
<1> PICK below : below = AfterNode(u.open)
  OBVIOUS
<1> PICK slot \in Slots : slot = Opened(type)
  BY DEF Opened, Slots
<1>1. Resting(t)
  BY CollectionRests DEF Sound
<1>2. e.type = type
  BY NodeEvents, LevelsCount
<1>3. /\ u \in Serializers /\ ~u.failed /\ u.depth = s.depth + 1
      /\ Expecting(u, {"root", "item", "key", "value"}) /\ SameStyles(s, u)
  BY NodeBegins
<1>4. /\ below \in Seq(Expectations) /\ Len(below) = s.depth + 1 /\ below[1] = "done"
      /\ \A k \in 1 .. s.depth : below[k + 1] = Flip(L)[k]
  BY NodeBegins, NodeTurns
<1>5. L \in Seq(Slots) /\ Len(L) = s.depth /\ s.depth \in Nat
  BY LevelsCount
<1>6. Flip(L) \in Seq(Slots) /\ Len(Flip(L)) = s.depth
  BY <1>5, FlipLevels
<1>7. EmitStart(u, e) = [u EXCEPT !.open = Append(below, slot), !.out = Append(@, e)]
  BY <1>2, <1>3 DEF EmitStart, Given, Opened
<1>8. /\ t.open = Append(below, slot) /\ t.depth = s.depth + 1 /\ ~t.failed
      /\ t.state = "NothingInParticular" /\ SameStyles(s, t)
  BY <1>3, <1>7 DEF Taken, Serializers, SameStyles
<1>9. Append(Flip(L), slot) \in Seq(Slots) /\ Len(Append(Flip(L), slot)) = s.depth + 1
  BY <1>6
<1>10. \A k \in 1 .. s.depth + 1 : t.open[k + 1] = Append(Flip(L), slot)[k]
  <2>1. \A k \in 1 .. s.depth : t.open[k + 1] = below[k + 1]
    <3>1. \A j \in 1 .. Len(below) : Append(below, slot)[j] = below[j]
      BY <1>4
    <3>2. \A k \in 1 .. s.depth : k + 1 \in 1 .. Len(below)
      BY ONLY <1>4, <1>5
    <3> QED BY ONLY <1>8, <3>1, <3>2
  <2>2. \A k \in 1 .. s.depth : Append(Flip(L), slot)[k] = Flip(L)[k]
    BY <1>5, <1>6
  <2>3. t.open[s.depth + 1 + 1] = slot /\ Append(Flip(L), slot)[s.depth + 1] = slot
    BY <1>4, <1>5, <1>6, <1>8
  <2>4. \A k \in 1 .. s.depth + 1 : k \in 1 .. s.depth \/ k = s.depth + 1
    BY <1>5
  <2> QED BY <1>4, <2>1, <2>2, <2>3, <2>4
<1>11. Levels(t) = Append(Flip(L), slot)
  <2>1. Levels(t) = [k \in 1 .. s.depth + 1 |-> Append(Flip(L), slot)[k]]
    BY <1>8, <1>10 DEF Levels
  <2> QED BY <1>9, <2>1, SequenceOfItems
<1>12. t.open[1] = "done"
  BY <1>4, <1>5, <1>8
<1>13. Sound(t)
  BY <1>1, <1>8, <1>9, <1>11, <1>12 DEF Sound
<1> QED BY <1>8, <1>11, <1>13 DEF Effect, SameStyles

\* A scalar or an alias turns its level.
LEMMA LeafTurns ==
  ASSUME NEW s, Sound(s), NEW e
  PROVE  LET v == EmitLeaf(ValueStart(s), e)
         IN  /\ ~v.failed /\ v.depth = Len(Flip(Levels(s))) + 1 /\ v.open[1] = "done"
             /\ \A k \in 1 .. Len(Flip(Levels(s))) : v.open[k + 1] = Flip(Levels(s))[k]
             /\ v.state = s.state /\ SameStyles(s, v)
<1> PICK u : u = ValueStart(s)
  OBVIOUS
<1> PICK v : v = EmitLeaf(u, e)
  OBVIOUS
<1>1. /\ u \in Serializers /\ ~u.failed /\ u.depth = s.depth + 1
      /\ Expecting(u, {"root", "item", "key", "value"}) /\ SameBut(s, u) /\ SameStyles(s, u)
  BY NodeBegins
<1>2. v = [u EXCEPT !.open = AfterNode(u.open), !.out = Append(@, e)]
  BY <1>1 DEF EmitLeaf, Given
<1>3. /\ ~v.failed /\ v.depth = s.depth + 1 /\ v.open = AfterNode(u.open)
      /\ v.state = s.state /\ SameStyles(s, v)
  BY <1>1, <1>2 DEF Serializers, SameBut, SameStyles
<1>4. Len(Flip(Levels(s))) = s.depth
  BY LevelsCount, FlipLevels
<1> QED BY <1>3, <1>4, NodeBegins, NodeTurns

LEMMA ScalarEffect ==
  ASSUME NEW s, Sound(s)
  PROVE  LET t == ValueEnd(Taken(EmitLeaf(ValueStart(s), NodeEvent(s, "Scalar"))))
         IN  /\ Effect(s, t, Flip(Levels(s)), "NothingInParticular")
             /\ Flip(Levels(s)) = <<>> => t.names = NoNames
<1> PICK e : e = NodeEvent(s, "Scalar")
  OBVIOUS
<1> PICK u : u = ValueStart(s)
  OBVIOUS
<1> PICK v : v = EmitLeaf(u, e)
  OBVIOUS
<1> PICK w : w = Taken(v)
  OBVIOUS
<1> PICK L : L = Flip(Levels(s))
  OBVIOUS
<1>1. e \in Events /\ e.type = "Scalar" /\ e.anchor = s.pending
  BY NodeEvents, LevelsCount
<1>2. Within(u) /\ SameBut(s, u)
  BY ValueStartWithin DEF Sound
<1>3. Within(v) /\ Emitted(u, v, e)
  BY <1>1, <1>2, LeafWithin DEF Allowed
<1>4. Carries(v)
  BY <1>1, <1>2, <1>3 DEF Carries, Emitted, SameBut
<1>5. Within(w)
  BY <1>3, <1>4, TakenRests
<1>6. /\ ~v.failed /\ v.depth = Len(L) + 1 /\ v.open[1] = "done"
      /\ \A k \in 1 .. Len(L) : v.open[k + 1] = L[k]
      /\ SameStyles(s, v)
  BY LeafTurns
<1>7. /\ ~w.failed /\ w.depth = v.depth /\ w.open = v.open
      /\ w.state = "NothingInParticular" /\ SameStyles(s, w)
  BY <1>3, <1>6 DEF Taken, Within, Serializers, SameStyles
<1>8. L \in Seq(Slots)
  BY LevelsCount, FlipLevels
<1>9. Effect(w, ValueEnd(w), L, w.state) /\ (L = <<>> => ValueEnd(w).names = NoNames)
  BY <1>5, <1>6, <1>7, <1>8, NodeEnds
<1> QED BY <1>7, <1>9 DEF Effect, SameStyles

LEMMA AliasEffect ==
  ASSUME NEW s, Sound(s), NEW name \in Names, s.check => name \in s.anchors
  PROVE  LET t == ValueEnd(EmitLeaf(ValueStart(s), [Event("Alias") EXCEPT !.anchor = name]))
         IN  /\ Effect(s, t, Flip(Levels(s)), s.state)
             /\ Flip(Levels(s)) = <<>> => t.names = NoNames
<1> PICK e : e = [Event("Alias") EXCEPT !.anchor = name]
  OBVIOUS
<1> PICK u : u = ValueStart(s)
  OBVIOUS
<1> PICK v : v = EmitLeaf(u, e)
  OBVIOUS
<1> PICK L : L = Flip(Levels(s))
  OBVIOUS
<1>1. e \in Events /\ e.anchor = name
  BY DEF Event, Events
<1>2. Within(u) /\ SameBut(s, u)
  BY ValueStartWithin DEF Sound
<1>3. Allowed(u, e)
  BY <1>1, <1>2 DEF Allowed, SameBut
<1>4. Within(v)
  BY <1>1, <1>2, <1>3, LeafWithin
<1>5. /\ ~v.failed /\ v.depth = Len(L) + 1 /\ v.open[1] = "done"
      /\ \A k \in 1 .. Len(L) : v.open[k + 1] = L[k]
      /\ v.state = s.state /\ SameStyles(s, v)
  BY LeafTurns
<1>6. L \in Seq(Slots)
  BY LevelsCount, FlipLevels
<1>7. Effect(v, ValueEnd(v), L, v.state) /\ (L = <<>> => ValueEnd(v).names = NoNames)
  BY <1>4, <1>5, <1>6, NodeEnds
<1> QED BY <1>5, <1>7 DEF Effect, SameStyles

\* The end of a collection closes its level.
LEMMA EndEffect ==
  ASSUME NEW s, Sound(s), NEW type \in {"SequenceEnd", "MappingEnd"},
         NEW L \in Seq(Slots), NEW slot, Levels(s) = Append(L, slot),
         slot = IF type = "SequenceEnd" THEN "item" ELSE "key"
  PROVE  LET t == ValueEnd(EmitEnd(s, Event(type)))
         IN  /\ Effect(s, t, L, s.state)
             /\ L = <<>> => t.names = NoNames
<1> PICK e : e = Event(type)
  OBVIOUS
<1> PICK v : v = EmitEnd(s, e)
  OBVIOUS
<1>1. Within(v) /\ SameBut(s, v)
  BY EndWithin DEF Sound
<1>2. /\ s \in Serializers /\ ~s.failed /\ s.depth = Len(L) + 1 /\ Len(L) \in Nat
      /\ Len(s.open) = Len(L) + 2 /\ s.open # <<>> /\ s.open[1] = "done"
      /\ \A k \in 1 .. Len(L) : s.open[k + 1] = L[k]
      /\ s.open[Len(L) + 2] = slot
  <2>1. Len(Append(L, slot)) = Len(L) + 1 /\ Append(L, slot)[Len(L) + 1] = slot
        /\ (\A k \in 1 .. Len(L) : Append(L, slot)[k] = L[k]) /\ Len(L) \in Nat
    OBVIOUS
  <2>2. s.depth = Len(L) + 1 /\ s.depth # 0
    BY <2>1, LevelsCount
  <2>3. /\ s \in Serializers /\ ~s.failed /\ Len(s.open) = Len(L) + 2 /\ s.open # <<>>
        /\ s.open[1] = "done"
    <3>1. s \in Serializers /\ Len(s.open) = s.depth + 1 /\ s.open # <<>>
      BY <2>2, LevelsCount
    <3>2. ~s.failed /\ s.open[1] = "done"
      BY <3>1 DEF Sound
    <3> QED BY ONLY <2>1, <2>2, <3>1, <3>2
  <2>4. \A k \in 1 .. Len(L) + 1 : s.open[k + 1] = Append(L, slot)[k]
    BY <2>2, LevelsCount
  <2>5. s.open[Len(L) + 1 + 1] = slot
    BY <2>1, <2>4
  <2>6. \A k \in 1 .. Len(L) : s.open[k + 1] = L[k]
    BY <2>1, <2>4
  <2> QED BY <2>1, <2>2, <2>3, <2>5, <2>6
<1>3. e.type = type
  BY DEF Event
<1>4. v = [s EXCEPT !.open = ButLast(s.open), !.out = Append(@, e)]
  BY <1>2, <1>3 DEF EmitEnd, Expecting, LastOf, Given
<1>5. /\ ~v.failed /\ v.depth = Len(L) + 1 /\ v.open = ButLast(s.open)
      /\ v.state = s.state /\ SameStyles(s, v)
  BY <1>2, <1>4 DEF Serializers, SameStyles
<1>6. v.open = [k \in 1 .. Len(L) + 1 |-> s.open[k]]
  BY <1>2, <1>5 DEF ButLast
<1>7. v.open[1] = "done" /\ \A k \in 1 .. Len(L) : v.open[k + 1] = L[k]
  BY <1>2, <1>6
<1>8. Effect(v, ValueEnd(v), L, v.state) /\ (L = <<>> => ValueEnd(v).names = NoNames)
  BY <1>1, <1>5, <1>7, NodeEnds
<1> QED BY <1>5, <1>8 DEF Effect, SameStyles

\* Mappings, and what their flush does.
LEMMA MappingEffect ==
  ASSUME NEW s, Sound(s)
  PROVE  Effect(s, MappingStart(s), Append(Flip(Levels(s)), "key"), "NothingInParticular")
<1> PICK t : t = Taken(EmitStart(ValueStart(s), NodeEvent(s, "MappingStart")))
  OBVIOUS
<1> PICK u : u = [t EXCEPT !.flowMap = FALSE]
  OBVIOUS
<1>1. Effect(s, t, Append(Flip(Levels(s)), "key"), "NothingInParticular")
  BY StartEffect DEF Opened
<1>2. t \in Serializers
  BY <1>1 DEF Effect, Sound, Resting
<1>3. /\ SameDocument(t, u) /\ u.state = t.state /\ u.flowSeq = t.flowSeq /\ ~u.flowMap
      /\ u \in Serializers
  BY <1>2 DEF Serializers, SameDocument
<1>4. Resting(u)
  BY <1>1, <1>3, Restated DEF Effect, Sound
<1>5. Sound(u) /\ Levels(u) = Levels(t)
  BY <1>1, <1>3, <1>4 DEF Effect, Sound, SameDocument, Levels
<1>6. MappingStart(s) = u
  BY DEF MappingStart
<1> QED BY <1>1, <1>3, <1>5, <1>6 DEF Effect

LEMMA StateEffect ==
  ASSUME NEW s, Sound(s), NEW state \in States
  PROVE  Effect(s, [s EXCEPT !.state = state], Levels(s), state)
<1> PICK t : t = [s EXCEPT !.state = state]
  OBVIOUS
<1>1. s \in Serializers
  BY LevelsCount
<1>2. SameDocument(s, t) /\ SameStyles(s, t) /\ t.state = state
  BY <1>1 DEF Serializers, SameDocument, SameStyles
<1>3. Resting(t)
  BY StateRests DEF Sound
<1>4. Sound(t) /\ Levels(t) = Levels(s)
  BY <1>2, <1>3 DEF Sound, SameDocument, Levels
<1> QED BY <1>2, <1>4 DEF Effect, SameStyles

LEMMA FlushEffect ==
  ASSUME NEW s, Sound(s)
  PROVE  LET t == FlushMappingStart(s)
         IN  /\ s.state = "CheckForTag" =>
                  Effect(s, t, Append(Flip(Levels(s)), "key"), "NothingInParticular")
             /\ s.state = "CheckForDuplicateTag" =>
                  Effect(s, t, Levels(s), "NothingInParticular")
             /\ s.state \notin {"CheckForTag", "CheckForDuplicateTag"} => t = s
<1> PICK r : r = [s EXCEPT !.state = "NothingInParticular"]
  OBVIOUS
<1>1. Effect(s, r, Levels(s), "NothingInParticular")
  BY StateEffect DEF States
<1>2. Effect(r, MappingStart(r), Append(Flip(Levels(s)), "key"), "NothingInParticular")
  BY <1>1, MappingEffect DEF Effect
<1> QED BY <1>1, <1>2 DEF FlushMappingStart, Effect

-----------------------------------------------------------------------------
(* The calls in progress and the levels that they have opened.             *)

LEMMA AppendIndex ==
  ASSUME NEW r \in Seq(Frames), NEW f \in Frames, NEW n \in Nat, Len(r) = n
  PROVE  /\ Append(r, f) \in Seq(Frames) /\ Len(Append(r, f)) = n + 1 /\ Append(r, f) # <<>>
         /\ Append(r, f)[n + 1] = f /\ LastOf(Append(r, f)) = f
         /\ \A i \in 1 .. n : Append(r, f)[i] = r[i]
BY DEF LastOf

LEMMA HeadFacts ==
  ASSUME NEW c, NEW h, NEW m, Heads(c, h, m), NEW n, Len(c) = n, NEW i \in 0 .. n
  PROVE  /\ m[i] \in 0 .. i
         /\ \A j \in m[i] + 1 .. i : c[j].kind \in Transparent
         /\ m[i] > 0 => c[m[i]].kind \notin Transparent
         /\ h[m[i] + 1] = h[i + 1]
BY DEF Heads

LEMMA HeightFacts ==
  ASSUME NEW L, NEW c, NEW h, Heights(L, c, h), NEW n \in Nat, Len(c) = n
  PROVE  /\ h[n + 1] = Len(L) /\ \A i \in 1 .. n + 1 : h[i] \in Nat
         /\ \A i, j \in 1 .. n + 1 : i <= j => h[i] <= h[j]
BY DEF Heights

\* One more call, on a level of its own or not.
LEMMA PushHeads ==
  ASSUME NEW r \in Seq(Frames), NEW n \in Nat, Len(r) = n,
         NEW h, NEW m, Heads(r, h, m),
         NEW f \in Frames, NEW hi \in Nat, f.kind \in Transparent => hi = h[n + 1],
         NEW h1, h1[n + 2] = hi, \A i \in 1 .. n + 1 : h1[i] = h[i],
         NEW m1, \A i \in 0 .. n : m1[i] = m[i],
         m1[n + 1] = IF f.kind \in Transparent THEN m[n] ELSE n + 1
  PROVE  Heads(Append(r, f), h1, m1)
<1> PICK k : k = m[n]
  OBVIOUS
<1> PICK c : c = Append(r, f)
  OBVIOUS
<1>1. /\ k \in 0 .. n
      /\ \A j \in k + 1 .. n : r[j].kind \in Transparent
      /\ k > 0 => r[k].kind \notin Transparent
      /\ h[k + 1] = h[n + 1]
  <2>1. n \in 0 .. n
    OBVIOUS
  <2> QED BY ONLY k = m[n], Len(r) = n, Heads(r, h, m), <2>1, HeadFacts
<1>2. /\ Len(c) = n + 1 /\ c[n + 1] = f
      /\ \A i \in 1 .. n : c[i] = r[i]
  BY ONLY r \in Seq(Frames), f \in Frames, n \in Nat, Len(r) = n, c = Append(r, f), AppendIndex
<1>3. \A i \in 0 .. n : i + 1 \in 1 .. n + 1
  OBVIOUS
<1>4. \A i \in 0 .. n : h1[i + 1] = h[i + 1] /\ m1[i] = m[i]
  BY ONLY <1>3, \A i \in 1 .. n + 1 : h1[i] = h[i], \A i \in 0 .. n : m1[i] = m[i]
<1>5. ASSUME NEW i \in 0 .. n
      PROVE  /\ m1[i] \in 0 .. i
             /\ \A j \in m1[i] + 1 .. i : c[j].kind \in Transparent
             /\ m1[i] > 0 => c[m1[i]].kind \notin Transparent
             /\ h1[m1[i] + 1] = h1[i + 1]
  <2> PICK g : g = m[i]
    OBVIOUS
  <2>1. /\ g \in 0 .. i
        /\ \A j \in g + 1 .. i : r[j].kind \in Transparent
        /\ g > 0 => r[g].kind \notin Transparent
        /\ h[g + 1] = h[i + 1]
    BY ONLY g = m[i], Len(r) = n, Heads(r, h, m), i \in 0 .. n, HeadFacts
  <2>2. g \in 0 .. n /\ (g > 0 => g \in 1 .. n) /\ \A j \in g + 1 .. i : j \in 1 .. n
    BY ONLY <2>1, i \in 0 .. n, n \in Nat
  <2>3. m1[i] = g /\ h1[g + 1] = h[g + 1] /\ h1[i + 1] = h[i + 1]
    BY <1>4, <2>2
  <2> QED BY ONLY <1>2, <2>1, <2>2, <2>3
<1>6. /\ m1[n + 1] \in 0 .. n + 1
      /\ \A j \in m1[n + 1] + 1 .. n + 1 : c[j].kind \in Transparent
      /\ m1[n + 1] > 0 => c[m1[n + 1]].kind \notin Transparent
      /\ h1[m1[n + 1] + 1] = h1[n + 2]
  <2>1. CASE f.kind \in Transparent
    <3>1. m1[n + 1] = k /\ h1[n + 2] = h[n + 1]
      BY <2>1
    <3>2. h1[k + 1] = h[k + 1]
      BY ONLY <1>1, <1>4
    <3>3. (\A j \in k + 1 .. n + 1 : j = n + 1 \/ j \in k + 1 .. n) /\ (k > 0 => k \in 1 .. n)
          /\ (\A j \in k + 1 .. n : j \in 1 .. n) /\ k \in 0 .. n + 1
      BY ONLY <1>1, n \in Nat
    <3>4. \A j \in k + 1 .. n + 1 : c[j].kind \in Transparent
      BY ONLY <1>1, <1>2, <2>1, <3>3
    <3> QED BY ONLY <1>1, <1>2, <3>1, <3>2, <3>3, <3>4
  <2>2. CASE f.kind \notin Transparent
    <3>1. m1[n + 1] = n + 1 /\ n + 1 \in 0 .. n + 1 /\ n + 1 + 1 = n + 2
      BY <2>2
    <3> QED BY ONLY n \in Nat, <1>2, <2>2, <3>1
  <2> QED BY <2>1, <2>2
<1>7. n + 1 + 1 = n + 2 /\ \A i \in 0 .. n + 1 : i = n + 1 \/ i \in 0 .. n
  OBVIOUS
<1>8. \A i \in 0 .. n + 1 :
        /\ m1[i] \in 0 .. i
        /\ \A j \in m1[i] + 1 .. i : c[j].kind \in Transparent
        /\ m1[i] > 0 => c[m1[i]].kind \notin Transparent
        /\ h1[m1[i] + 1] = h1[i + 1]
  BY ONLY <1>5, <1>6, <1>7
<1> QED BY ONLY <1>2, <1>8, c = Append(r, f) DEF Heads

LEMMA PushHeights ==
  ASSUME NEW r \in Seq(Frames), NEW n \in Nat, Len(r) = n,
         NEW L, NEW h, Heights(L, r, h), NEW f \in Frames,
         NEW L1, NEW hi \in Nat, Len(L1) = hi, Len(L) <= hi,
         NEW h1, h1[n + 2] = hi, \A i \in 1 .. n + 1 : h1[i] = h[i]
  PROVE  Heights(L1, Append(r, f), h1)
<1>1. /\ h[n + 1] = Len(L) /\ \A i \in 1 .. n + 1 : h[i] \in Nat
      /\ \A i, j \in 1 .. n + 1 : i <= j => h[i] <= h[j]
  BY ONLY n \in Nat, Len(r) = n, Heights(L, r, h), HeightFacts
<1>2. ASSUME NEW i \in 1 .. n + 2, NEW j \in 1 .. n + 2, i <= j
      PROVE  h1[i] <= h1[j]
  <2>1. CASE j \in 1 .. n + 1
    <3>1. i \in 1 .. n + 1
      BY <1>2, <2>1
    <3> QED BY ONLY <1>1, <1>2, <2>1, <3>1, \A l \in 1 .. n + 1 : h1[l] = h[l]
  <2>2. CASE j = n + 2 /\ i \in 1 .. n + 1
    <3>1. n + 1 \in 1 .. n + 1 /\ i <= n + 1 /\ i \in Nat /\ n + 1 \in Nat
      BY <2>2
    <3>2. h[i] <= h[n + 1]
      BY ONLY <1>1, <2>2, <3>1
    <3>3. h1[i] = h[i] /\ h[i] \in Nat
      BY <1>1, <2>2, <3>1
    <3> QED BY <1>1, <2>2, <3>2, <3>3
  <2>3. CASE j = n + 2 /\ i = n + 2
    BY <2>3
  <2>4. j = n + 2 \/ j \in 1 .. n + 1
    OBVIOUS
  <2>5. i = n + 2 \/ i \in 1 .. n + 1
    OBVIOUS
  <2> QED BY <2>1, <2>2, <2>3, <2>4, <2>5
<1>4. \A i \in 1 .. n + 2 : h1[i] \in Nat
  <2>1. \A i \in 1 .. n + 2 : i = n + 2 \/ i \in 1 .. n + 1
    OBVIOUS
  <2> QED BY <1>1, <2>1
<1>3. Len(Append(r, f)) = n + 1 /\ n + 1 + 1 = n + 2
  BY ONLY r \in Seq(Frames), f \in Frames, n \in Nat, Len(r) = n, AppendIndex
<1> QED BY ONLY <1>2, <1>3, <1>4, h1[n + 2] = hi, Len(L1) = hi DEF Heights

\* The levels of a call are the same in other levels that agree on them.
LEMMA PlacedSame ==
  ASSUME NEW f \in Frames, NEW L, NEW lo \in Nat, NEW hi \in Nat, NEW stage,
         Placed(f, L, lo, hi, stage), CallOK(f),
         NEW L1, \A k \in 1 .. hi : L1[k] = L[k]
  PROVE  Placed(f, L1, lo, hi, stage)
<1>1. f.ends = 2 => f.kind \notin Transparent /\ f.kind # "map"
  BY DEF CallOK, Transparent
<1>2. f.ends = 2 => lo + 1 \in 1 .. hi
  BY <1>1 DEF Placed
<1>3. lo < hi => hi \in 1 .. hi
  OBVIOUS
<1> QED BY <1>2, <1>3 DEF Placed

LEMMA BaseFacts ==
  ASSUME NEW L, NEW c, NEW h, NEW m, NEW stage, Base(L, c, h, m, stage), NEW n, Len(c) = n
  PROVE  /\ Heights(L, c, h) /\ Heads(c, h, m)
         /\ \A i \in 1 .. n :
              /\ CallOK(c[i])
              /\ Placed(c[i], L, h[i], h[i + 1], StageAt(h[i + 1], Len(L), stage))
              /\ Pending(c[i]) /\ h[i] = h[i + 1] => i = m[n]
BY DEF Base

LEMMA PushBase ==
  ASSUME NEW r \in Seq(Frames), NEW n \in Nat, Len(r) = n,
         NEW L, NEW h, NEW m, NEW stage, Base(L, r, h, m, stage),
         NEW f, CallOK(f), NEW L1, NEW lo \in Nat, lo = Len(L), NEW hi \in Nat, hi = Len(L1),
         lo <= hi, \A k \in 1 .. lo : L1[k] = L[k],
         NEW stage1, lo < hi => stage = "given", lo = hi => stage1 = stage,
         Placed(f, L1, lo, hi, stage1),
         f.kind \in Transparent \/ ~(m[n] > 0 /\ Pending(r[m[n]]) /\ h[m[n]] = h[m[n] + 1])
  PROVE  \E h1, m1 :
           /\ Base(L1, Append(r, f), h1, m1, stage1)
           /\ h1[n + 2] = hi /\ h1[n + 1] = lo /\ \A i \in 1 .. n + 1 : h1[i] = h[i]
           /\ m1[n + 1] = IF f.kind \in Transparent THEN m[n] ELSE n + 1
<1> PICK h1 : h1 = [i \in Nat |-> IF i = n + 2 THEN hi ELSE h[i]]
  OBVIOUS
<1> PICK m1 : m1 = [i \in Nat |-> IF i = n + 1
                                   THEN (IF f.kind \in Transparent THEN m[n] ELSE n + 1)
                                   ELSE m[i]]
  OBVIOUS
<1> PICK c : c = Append(r, f)
  OBVIOUS
<1>1. /\ Heights(L, r, h) /\ Heads(r, h, m)
      /\ \A i \in 1 .. n :
           /\ CallOK(r[i])
           /\ Placed(r[i], L, h[i], h[i + 1], StageAt(h[i + 1], Len(L), stage))
           /\ Pending(r[i]) /\ h[i] = h[i + 1] => i = m[n]
  BY ONLY Len(r) = n, Base(L, r, h, m, stage) DEF Base
<1>2. /\ h[n + 1] = lo /\ \A i \in 1 .. n + 1 : h[i] \in Nat
      /\ \A i, j \in 1 .. n + 1 : i <= j => h[i] <= h[j]
  BY ONLY n \in Nat, Len(r) = n, <1>1, lo = Len(L), HeightFacts
<1>3. f \in Frames
  BY DEF CallOK
<1>4. /\ c \in Seq(Frames) /\ Len(c) = n + 1 /\ c[n + 1] = f
      /\ \A i \in 1 .. n : c[i] = r[i]
  BY ONLY r \in Seq(Frames), <1>3, n \in Nat, Len(r) = n, c = Append(r, f), AppendIndex
<1>5. h1[n + 2] = hi /\ \A i \in 1 .. n + 1 : h1[i] = h[i]
  OBVIOUS
<1>6. /\ m1[n + 1] = IF f.kind \in Transparent THEN m[n] ELSE n + 1
      /\ \A i \in 0 .. n : m1[i] = m[i]
  OBVIOUS
<1>7. f.kind \in Transparent => hi = h[n + 1]
  BY <1>2 DEF Placed
<1>8. Heights(L1, c, h1)
  BY ONLY <1>1, <1>3, <1>5, r \in Seq(Frames), n \in Nat, Len(r) = n, hi \in Nat,
          hi = Len(L1), lo <= hi, lo = Len(L), c = Append(r, f), PushHeights
<1>9. Heads(c, h1, m1)
  BY ONLY <1>1, <1>3, <1>5, <1>6, <1>7, r \in Seq(Frames), n \in Nat, Len(r) = n, hi \in Nat,
          c = Append(r, f), PushHeads
<1>10. ASSUME NEW i \in 1 .. n
       PROVE  /\ CallOK(c[i])
              /\ Placed(c[i], L1, h1[i], h1[i + 1], StageAt(h1[i + 1], hi, stage1))
              /\ Pending(c[i]) /\ h1[i] = h1[i + 1] => i = m1[n + 1]
  <2> PICK low : low = h[i]
    OBVIOUS
  <2> PICK high : high = h[i + 1]
    OBVIOUS
  <2>1. i \in 1 .. n + 1 /\ i + 1 \in 1 .. n + 1 /\ n + 1 \in 1 .. n + 1 /\ i + 1 <= n + 1
        /\ i <= i + 1
    OBVIOUS
  <2>2. low \in Nat /\ high \in Nat /\ low <= high /\ high <= lo
    BY ONLY <1>2, <2>1, low = h[i], high = h[i + 1]
  <2>3. c[i] = r[i] /\ h1[i] = low /\ h1[i + 1] = high
    BY ONLY <1>4, <1>5, <2>1, i \in 1 .. n, low = h[i], high = h[i + 1]
  <2>4. /\ CallOK(r[i])
        /\ Placed(r[i], L, low, high, StageAt(high, lo, stage))
        /\ Pending(r[i]) /\ low = high => i = m[n]
    BY ONLY <1>1, i \in 1 .. n, lo = Len(L), low = h[i], high = h[i + 1]
  <2>5. StageAt(high, lo, stage) = StageAt(high, hi, stage1)
    BY <2>2 DEF StageAt
  <2>6. \A k \in 1 .. high : L1[k] = L[k]
    BY <2>2
  <2>7. r[i] \in Frames
    BY <2>4 DEF CallOK
  <2>8. Placed(r[i], L1, low, high, StageAt(high, hi, stage1))
    BY ONLY <2>2, <2>4, <2>5, <2>6, <2>7, PlacedSame
  <2>9. Pending(r[i]) /\ low = high => f.kind \in Transparent
    <3>1. i > 0
      OBVIOUS
    <3> QED BY ONLY <2>4, <3>1, low = h[i], high = h[i + 1],
          f.kind \in Transparent \/ ~(m[n] > 0 /\ Pending(r[m[n]]) /\ h[m[n]] = h[m[n] + 1])
  <2> QED BY <1>6, <2>3, <2>4, <2>8, <2>9
<1>11. /\ CallOK(f)
       /\ Placed(f, L1, h1[n + 1], h1[n + 2], StageAt(h1[n + 2], hi, stage1))
       /\ Pending(f) /\ h1[n + 1] = h1[n + 2] => n + 1 = m1[n + 1]
  <2>1. h1[n + 1] = lo /\ h1[n + 2] = hi /\ StageAt(hi, hi, stage1) = stage1
    BY <1>2, <1>5 DEF StageAt
  <2>2. Pending(f) => f.kind \notin Transparent
    BY DEF Pending, Transparent
  <2> QED BY <1>6, <2>1, <2>2
<1>12. (\A i \in 1 .. n + 1 : i = n + 1 \/ i \in 1 .. n) /\ n + 1 + 1 = n + 2
  OBVIOUS
<1>13. \A i \in 1 .. n + 1 :
         /\ CallOK(c[i])
         /\ Placed(c[i], L1, h1[i], h1[i + 1], StageAt(h1[i + 1], hi, stage1))
         /\ Pending(c[i]) /\ h1[i] = h1[i + 1] => i = m1[n + 1]
  BY ONLY <1>4, <1>10, <1>11, <1>12
<1>14. Base(L1, c, h1, m1, stage1)
  BY ONLY <1>4, <1>8, <1>9, <1>13, hi = Len(L1) DEF Base
<1>15. h1[n + 1] = lo
  BY <1>2, <1>5
<1> QED BY ONLY <1>5, <1>6, <1>14, <1>15, c = Append(r, f)

\* The innermost call, and the calls without it.
LEMMA PopBase ==
  ASSUME NEW r \in Seq(Frames), NEW n \in Nat, Len(r) = n, NEW f \in Frames,
         NEW L, NEW h, NEW m, NEW stage, Base(L, Append(r, f), h, m, stage)
  PROVE  /\ CallOK(f) /\ Placed(f, L, h[n + 1], h[n + 2], stage)
         /\ h[n + 1] \in Nat /\ h[n + 2] = Len(L) /\ Len(L) \in Nat /\ h[n + 1] <= Len(L)
         /\ m[n] \in 0 .. n /\ (m[n] > 0 => r[m[n]].kind \notin Transparent)
         /\ h[m[n] + 1] = h[n + 1]
         /\ m[n + 1] = IF f.kind \in Transparent THEN m[n] ELSE n + 1
         /\ f.kind \in Transparent \/ ~(m[n] > 0 /\ Pending(r[m[n]]) /\ h[m[n]] = h[m[n] + 1])
         /\ \A L0 : Len(L0) = h[n + 1] /\ (\A k \in 1 .. h[n + 1] : L0[k] = L[k])
                      => Base(L0, r, h, m, StageAt(h[n + 1], Len(L), stage))
<1> PICK c : c = Append(r, f)
  OBVIOUS
<1> PICK lo : lo = h[n + 1]
  OBVIOUS
<1> PICK hi : hi = Len(L)
  OBVIOUS
<1> PICK k : k = m[n]
  OBVIOUS
<1>1. /\ c \in Seq(Frames) /\ Len(c) = n + 1 /\ c[n + 1] = f
      /\ \A i \in 1 .. n : c[i] = r[i]
  BY ONLY r \in Seq(Frames), f \in Frames, n \in Nat, Len(r) = n, c = Append(r, f), AppendIndex
<1>2. Base(L, c, h, m, stage)
  BY ONLY Base(L, Append(r, f), h, m, stage), c = Append(r, f)
<1>3. /\ Heights(L, c, h) /\ Heads(c, h, m)
      /\ \A i \in 1 .. n + 1 :
           /\ CallOK(c[i])
           /\ Placed(c[i], L, h[i], h[i + 1], StageAt(h[i + 1], hi, stage))
           /\ Pending(c[i]) /\ h[i] = h[i + 1] => i = m[n + 1]
  <2>1. Len(c) = n + 1
    BY <1>1
  <2> QED BY ONLY <1>2, <2>1, hi = Len(L) DEF Base
<1>4. n + 1 \in Nat /\ n + 1 + 1 = n + 2
  OBVIOUS
<1>5. /\ h[n + 1 + 1] = hi /\ \A i \in 1 .. n + 1 + 1 : h[i] \in Nat
      /\ \A i, j \in 1 .. n + 1 + 1 : i <= j => h[i] <= h[j]
  BY ONLY <1>1, <1>3, <1>4, hi = Len(L), HeightFacts
<1>6. /\ h[n + 2] = hi /\ \A i \in 1 .. n + 2 : h[i] \in Nat
      /\ \A i, j \in 1 .. n + 2 : i <= j => h[i] <= h[j]
  BY ONLY <1>4, <1>5
<1>7. n + 1 \in 1 .. n + 2 /\ n + 2 \in 1 .. n + 2 /\ n + 1 <= n + 2 /\ n + 1 \in 1 .. n + 1
      /\ n \in 0 .. n + 1 /\ n + 1 \in 0 .. n + 1
  OBVIOUS
<1>8. lo \in Nat /\ hi \in Nat /\ lo <= hi
  BY ONLY <1>6, <1>7, lo = h[n + 1]
<1>9. CallOK(f) /\ Placed(f, L, lo, hi, stage)
      /\ (Pending(f) /\ lo = hi => n + 1 = m[n + 1])
  <2>1. CallOK(f) /\ Placed(f, L, lo, hi, StageAt(hi, hi, stage))
        /\ (Pending(f) /\ lo = hi => n + 1 = m[n + 1])
    BY ONLY <1>1, <1>3, <1>4, <1>6, <1>7, lo = h[n + 1]
  <2>2. StageAt(hi, hi, stage) = stage
    BY <1>8 DEF StageAt
  <2> QED BY <2>1, <2>2
<1>10. /\ k \in 0 .. n
       /\ \A j \in k + 1 .. n : c[j].kind \in Transparent
       /\ k > 0 => c[k].kind \notin Transparent
       /\ h[k + 1] = lo
  <2>1. Len(c) = n + 1 /\ Heads(c, h, m) /\ n \in 0 .. n + 1
    BY <1>1, <1>3, <1>7
  <2>2. /\ m[n] \in 0 .. n
        /\ \A j \in m[n] + 1 .. n : c[j].kind \in Transparent
        /\ m[n] > 0 => c[m[n]].kind \notin Transparent
        /\ h[m[n] + 1] = h[n + 1]
    BY ONLY <2>1, HeadFacts
  <2> QED BY ONLY <2>2, k = m[n], lo = h[n + 1]
<1>11. /\ m[n + 1] \in 0 .. n + 1
       /\ \A j \in m[n + 1] + 1 .. n + 1 : c[j].kind \in Transparent
       /\ m[n + 1] > 0 => c[m[n + 1]].kind \notin Transparent
  BY ONLY <1>1, <1>3, <1>7, HeadFacts
<1>12. k > 0 => c[k] = r[k] /\ k \in 1 .. n
  BY <1>1, <1>10
<1>13. m[n + 1] = IF f.kind \in Transparent THEN k ELSE n + 1
  <2> PICK g : g = m[n + 1]
    OBVIOUS
  <2>1. /\ g \in 0 .. n + 1
        /\ \A j \in g + 1 .. n + 1 : c[j].kind \in Transparent
        /\ g > 0 => c[g].kind \notin Transparent
    BY ONLY <1>11, g = m[n + 1]
  <2>2. CASE f.kind \notin Transparent
    <3>1. n + 1 \notin g + 1 .. n + 1
      BY ONLY <1>1, <2>1, <2>2
    <3>2. g = n + 1
      BY ONLY <2>1, <3>1, n \in Nat
    <3> QED BY <2>2, <3>2
  <2>3. CASE f.kind \in Transparent
    <3>1. g # n + 1
      <4>1. n + 1 > 0
        OBVIOUS
      <4> QED BY ONLY <1>1, <2>1, <2>3, <4>1
    <3>2. g \in 0 .. n
      BY ONLY <2>1, <3>1, n \in Nat
    <3>3. ~(k < g)
      <4>1. ASSUME k < g PROVE g \in k + 1 .. n /\ g > 0
        BY ONLY <3>2, <1>10, <4>1, n \in Nat
      <4> QED BY ONLY <1>10, <2>1, <4>1
    <3>4. ~(g < k)
      <4>1. ASSUME g < k PROVE k \in g + 1 .. n + 1 /\ k > 0
        BY ONLY <3>2, <1>10, <4>1, n \in Nat
      <4> QED BY ONLY <1>10, <2>1, <4>1
    <3>5. g = k
      BY ONLY <3>2, <3>3, <3>4, <1>10, n \in Nat
    <3> QED BY <2>3, <3>5
  <2> QED BY <2>2, <2>3
<1>14. f.kind \in Transparent \/ ~(k > 0 /\ Pending(r[k]) /\ h[k] = h[k + 1])
  <2>1. ASSUME f.kind \notin Transparent, k > 0, Pending(r[k]), h[k] = h[k + 1]
        PROVE  FALSE
    <3>1. k \in 1 .. n + 1 /\ k # n + 1
      BY ONLY <1>10, <2>1, n \in Nat
    <3> QED BY <1>3, <1>12, <1>13, <2>1, <3>1
  <2> QED BY <2>1
<1>15. ASSUME NEW L0, Len(L0) = lo, \A j \in 1 .. lo : L0[j] = L[j]
       PROVE  Base(L0, r, h, m, StageAt(lo, hi, stage))
  <2>1. Heights(L0, r, h)
    <3>1. \A i \in 1 .. n + 1 : i \in 1 .. n + 2
      OBVIOUS
    <3> QED BY ONLY <1>6, <1>15, <3>1, Len(r) = n, lo = h[n + 1] DEF Heights
  <2>2. Heads(r, h, m)
    <3>1. ASSUME NEW i \in 0 .. n
          PROVE  /\ m[i] \in 0 .. i
                 /\ \A j \in m[i] + 1 .. i : r[j].kind \in Transparent
                 /\ m[i] > 0 => r[m[i]].kind \notin Transparent
                 /\ h[m[i] + 1] = h[i + 1]
      <4> PICK g : g = m[i]
        OBVIOUS
      <4>1. i \in 0 .. n + 1
        OBVIOUS
      <4>2. /\ g \in 0 .. i
            /\ \A j \in g + 1 .. i : c[j].kind \in Transparent
            /\ g > 0 => c[g].kind \notin Transparent
            /\ h[g + 1] = h[i + 1]
        BY ONLY <1>1, <1>3, <4>1, g = m[i], HeadFacts
      <4>3. (g > 0 => g \in 1 .. n) /\ \A j \in g + 1 .. i : j \in 1 .. n
        BY ONLY <4>2, i \in 0 .. n, n \in Nat
      <4> QED BY ONLY <1>1, <4>2, <4>3, g = m[i]
    <3> QED BY ONLY <3>1, Len(r) = n DEF Heads
  <2>3. ASSUME NEW i \in 1 .. n
        PROVE  /\ CallOK(r[i])
               /\ Placed(r[i], L0, h[i], h[i + 1],
                         StageAt(h[i + 1], lo, StageAt(lo, hi, stage)))
               /\ Pending(r[i]) /\ h[i] = h[i + 1] => i = m[n]
    <3> PICK low : low = h[i]
      OBVIOUS
    <3> PICK high : high = h[i + 1]
      OBVIOUS
    <3>1. i \in 1 .. n + 1 /\ i + 1 \in 1 .. n + 2 /\ i \in 1 .. n + 2 /\ i + 1 <= n + 1
          /\ i # n + 1
      OBVIOUS
    <3>2. low \in Nat /\ high \in Nat /\ high <= lo
      BY ONLY <1>6, <1>7, <3>1, low = h[i], high = h[i + 1], lo = h[n + 1]
    <3>3. /\ CallOK(r[i])
          /\ Placed(r[i], L, low, high, StageAt(high, hi, stage))
          /\ Pending(r[i]) /\ low = high => i = m[n + 1]
      BY ONLY <1>1, <1>3, <3>1, i \in 1 .. n, low = h[i], high = h[i + 1]
    <3>4. StageAt(high, hi, stage) = StageAt(high, lo, StageAt(lo, hi, stage))
      BY <1>8, <3>2 DEF StageAt
    <3>5. \A j \in 1 .. high : L0[j] = L[j]
      BY <1>8, <1>15, <3>2
    <3>6. r[i] \in Frames
      BY <3>3 DEF CallOK
    <3>7. Placed(r[i], L0, low, high, StageAt(high, lo, StageAt(lo, hi, stage)))
      BY ONLY <3>2, <3>3, <3>4, <3>5, <3>6, PlacedSame
    <3>8. Pending(r[i]) /\ low = high => i = k
      BY <1>13, <3>1, <3>3
    <3> QED BY ONLY <3>3, <3>7, <3>8, low = h[i], high = h[i + 1], k = m[n]
  <2> QED BY ONLY <1>15, <2>1, <2>2, <2>3, Len(r) = n DEF Base
<1> QED BY ONLY <1>6, <1>8, <1>9, <1>10, <1>12, <1>13, <1>14, <1>15, k = m[n], lo = h[n + 1], hi = Len(L)

LEMMA ChangeBase ==
  ASSUME NEW r, NEW n, NEW f, NEW L, NEW h, NEW m, NEW stage, NEW g, NEW L1, NEW lo, NEW hi,
         NEW stage1, Changes(r, n, f, L, h, m, stage, g, L1, lo, hi, stage1)
  PROVE  \E h1, m1 :
           /\ Base(L1, Append(r, g), h1, m1, stage1)
           /\ h1[n + 2] = hi /\ h1[n + 1] = lo /\ \A i \in 1 .. n + 1 : h1[i] = h[i]
           /\ m1[n + 1] = IF g.kind \in Transparent THEN m[n] ELSE n + 1
<1> PICK S : S = {L[k] : k \in 1 .. lo}
  OBVIOUS
<1> PICK L0 : L0 = [k \in 1 .. lo |-> L[k]]
  OBVIOUS
<1> PICK st : st = StageAt(lo, Len(L), stage)
  OBVIOUS
<1>1. /\ r \in Seq(Frames) /\ n \in Nat /\ Len(r) = n /\ f \in Frames
      /\ Base(L, Append(r, f), h, m, stage)
      /\ CallOK(g) /\ lo = h[n + 1] /\ hi \in Nat /\ hi = Len(L1) /\ lo <= hi
      /\ \A k \in 1 .. lo : L1[k] = L[k]
      /\ Placed(g, L1, lo, hi, stage1)
  BY DEF Changes
<1>2. /\ lo < hi => st = "given"
      /\ lo = hi => stage1 = st
      /\ \/ g.kind \in Transparent
         \/ f.kind \notin Transparent
         \/ ~(m[n] > 0 /\ Pending(r[m[n]]) /\ h[m[n]] = h[m[n] + 1])
  BY DEF Changes
<1>3. /\ lo \in Nat
      /\ f.kind \in Transparent \/ ~(m[n] > 0 /\ Pending(r[m[n]]) /\ h[m[n]] = h[m[n] + 1])
  BY ONLY <1>1, PopBase
<1>4. Len(L0) = lo /\ \A k \in 1 .. lo : L0[k] = L[k]
  <2>1. \A k \in 1 .. lo : L[k] \in S
    OBVIOUS
  <2>2. L0 \in [1 .. lo -> S]
    BY ONLY <2>1, L0 = [k \in 1 .. lo |-> L[k]]
  <2>3. Len(L0) = lo
    BY ONLY <1>3, <2>2
  <2> QED BY ONLY <2>3, L0 = [k \in 1 .. lo |-> L[k]]
<1>5. Base(L0, r, h, m, st)
  <2>1. \A l : Len(l) = lo /\ (\A k \in 1 .. lo : l[k] = L[k]) => Base(l, r, h, m, st)
    BY ONLY <1>1, st = StageAt(lo, Len(L), stage), PopBase
  <2> QED BY ONLY <1>4, <2>1
<1>6. \A k \in 1 .. lo : L1[k] = L0[k]
  BY ONLY <1>1, <1>4
<1>7. g.kind \in Transparent \/ ~(m[n] > 0 /\ Pending(r[m[n]]) /\ h[m[n]] = h[m[n] + 1])
  BY ONLY <1>2, <1>3
<1>8. /\ r \in Seq(Frames) /\ n \in Nat /\ Len(r) = n /\ CallOK(g) /\ hi \in Nat /\ hi = Len(L1)
      /\ lo <= hi /\ Placed(g, L1, lo, hi, stage1) /\ lo \in Nat /\ lo = Len(L0)
      /\ lo < hi => st = "given"
      /\ lo = hi => stage1 = st
  BY ONLY <1>1, <1>2, <1>3, <1>4
<1> QED BY ONLY <1>5, <1>6, <1>7, <1>8, PushBase

\* A node turns the level that it is in.
LEMMA PlacedTurned ==
  ASSUME NEW f \in Frames, CallOK(f), NEW L \in Seq(Slots), NEW lo \in Nat, NEW hi \in Nat,
         hi = Len(L), lo <= hi, Placed(f, L, lo, hi, "asked"), lo < hi => f.step \in Inner
  PROVE  Placed(f, Flip(L), lo, hi, "given")
<1>1. CASE lo = hi
  <2>1. f.ends # 2
    BY <1>1 DEF Placed, CallOK, Transparent
  <2> QED BY <1>1, <2>1 DEF Placed
<1>2. CASE lo < hi
  <2> PICK x : x = L[hi]
    OBVIOUS
  <2>1. /\ Flip(L)[hi] = Turned(x)
        /\ \A k \in 1 .. hi : k < hi => Flip(L)[k] = L[k]
    BY <1>2 DEF Flip
  <2>2. x = Slot(f, "asked")
    BY <1>2 DEF Placed
  <2>3. Turned(x) = Slot(f, "given")
    BY <1>2, <2>2 DEF Turned, Slot, Inner
  <2>4. f.ends = 2 => lo + 1 < hi /\ lo + 1 \in 1 .. hi
    BY <1>2 DEF Placed, CallOK, Transparent
  <2> QED BY <1>2, <2>1, <2>3, <2>4 DEF Placed
<1> QED BY <1>1, <1>2

LEMMA TurnBase ==
  ASSUME NEW c \in Seq(Frames), NEW n \in Nat, Len(c) = n, NEW L \in Seq(Slots), NEW h, NEW m,
         Base(L, c, h, m, "asked"), \A i \in 1 .. n : h[i] < h[i + 1] => c[i].step \in Inner
  PROVE  Base(Flip(L), c, h, m, "given")
<1> PICK top : top = Len(L)
  OBVIOUS
<1>1. /\ Heights(L, c, h) /\ Heads(c, h, m)
      /\ \A i \in 1 .. n :
           /\ CallOK(c[i])
           /\ Placed(c[i], L, h[i], h[i + 1], StageAt(h[i + 1], top, "asked"))
           /\ Pending(c[i]) /\ h[i] = h[i + 1] => i = m[n]
  BY ONLY Len(c) = n, Base(L, c, h, m, "asked"), top = Len(L) DEF Base
<1>2. /\ h[n + 1] = top /\ \A i \in 1 .. n + 1 : h[i] \in Nat
      /\ \A i, j \in 1 .. n + 1 : i <= j => h[i] <= h[j]
  BY ONLY n \in Nat, Len(c) = n, <1>1, top = Len(L), HeightFacts
<1>3. top \in Nat /\ Len(Flip(L)) = top
  BY FlipLevels
<1>4. Heights(Flip(L), c, h)
  BY ONLY <1>1, <1>3, top = Len(L) DEF Heights
<1>5. ASSUME NEW i \in 1 .. n
      PROVE  Placed(c[i], Flip(L), h[i], h[i + 1], StageAt(h[i + 1], top, "given"))
  <2> PICK low : low = h[i]
    OBVIOUS
  <2> PICK high : high = h[i + 1]
    OBVIOUS
  <2>1. i \in 1 .. n + 1 /\ i + 1 \in 1 .. n + 1 /\ n + 1 \in 1 .. n + 1 /\ i + 1 <= n + 1
        /\ i <= i + 1
    OBVIOUS
  <2>2. low \in Nat /\ high \in Nat /\ low <= high /\ high <= top
    BY ONLY <1>2, <2>1, low = h[i], high = h[i + 1]
  <2>3. CallOK(c[i]) /\ Placed(c[i], L, low, high, StageAt(high, top, "asked"))
        /\ (low < high => c[i].step \in Inner)
    BY <1>1
  <2>4. c[i] \in Frames
    BY <2>3 DEF CallOK
  <2>5. CASE high < top
    <3>1. \A k \in 1 .. high : Flip(L)[k] = L[k]
      BY <1>3, <2>2, <2>5 DEF Flip
    <3>2. StageAt(high, top, "asked") = StageAt(high, top, "given")
      BY <2>5 DEF StageAt
    <3>3. Placed(c[i], Flip(L), low, high, StageAt(high, top, "given"))
      BY ONLY <2>2, <2>3, <2>4, <3>1, <3>2, PlacedSame
    <3> QED BY <3>3
  <2>6. CASE high = top
    <3>1. StageAt(high, top, "asked") = "asked" /\ StageAt(high, top, "given") = "given"
      BY <1>3, <2>6 DEF StageAt
    <3>2. Placed(c[i], Flip(L), low, high, "given")
      BY ONLY <2>2, <2>3, <2>4, <2>6, <3>1, L \in Seq(Slots), top = Len(L), PlacedTurned
    <3> QED BY <3>1, <3>2
  <2> QED BY <1>3, <2>2, <2>5, <2>6
<1> QED BY ONLY Len(c) = n, <1>1, <1>3, <1>4, <1>5 DEF Base

LEMMA BeginBase ==
  ASSUME NEW c, NEW n, NEW L, NEW h, NEW m, NEW k, NEW stage1, Begins(c, n, L, h, m, k, stage1)
  PROVE  \E h1 : /\ Base(Append(L, "key"), c, h1, m, stage1)
                 /\ k > 0 => h1[k] < h1[k + 1] /\ h1[1] = h[1]
<1>1. /\ c \in Seq(Frames) /\ n \in Nat /\ Len(c) = n /\ L \in Seq(Slots)
      /\ Base(L, c, h, m, "given") /\ k = m[n]
  BY DEF Begins
<1>2. Len(c) = n
  BY <1>1
<1>3. Base(L, c, h, m, "given")
  BY <1>1
<1> PICK top : top = Len(L)
  OBVIOUS
<1> PICK L1 : L1 = Append(L, "key")
  OBVIOUS
<1> PICK h1 : h1 = [i \in Nat |-> IF i > k THEN h[i] + 1 ELSE h[i]]
  OBVIOUS
<1>4. k > 0 => /\ c[k].kind = "map" /\ h[k] = h[k + 1]
               /\ c[k].step = "open" \/ (c[k].step = "key" /\ stage1 = "asked")
  BY DEF Begins
<1>5. /\ Heights(L, c, h) /\ Heads(c, h, m)
      /\ \A i \in 1 .. n :
           /\ CallOK(c[i])
           /\ Placed(c[i], L, h[i], h[i + 1], StageAt(h[i + 1], top, "given"))
           /\ Pending(c[i]) /\ h[i] = h[i + 1] => i = m[n]
  BY ONLY <1>2, <1>3, top = Len(L), BaseFacts
<1>6. /\ h[n + 1] = top /\ \A i \in 1 .. n + 1 : h[i] \in Nat
      /\ \A i, j \in 1 .. n + 1 : i <= j => h[i] <= h[j]
  BY ONLY <1>1, <1>5, top = Len(L), HeightFacts
<1>7. /\ top \in Nat /\ Len(L1) = top + 1 /\ L1[top + 1] = "key"
      /\ \A i \in 1 .. top : L1[i] = L[i]
  OBVIOUS
<1>8. /\ k \in 0 .. n
      /\ \A j \in k + 1 .. n : c[j].kind \in Transparent
      /\ k > 0 => c[k].kind \notin Transparent
      /\ h[k + 1] = top
  <2>1. n \in 0 .. n
    BY <1>1
  <2>2. /\ m[n] \in 0 .. n
        /\ \A j \in m[n] + 1 .. n : c[j].kind \in Transparent
        /\ m[n] > 0 => c[m[n]].kind \notin Transparent
        /\ h[m[n] + 1] = h[n + 1]
    BY ONLY <1>5, <2>1, <1>1, HeadFacts
  <2> QED BY ONLY <1>6, <2>2, <1>1
<1>9. \A i \in 1 .. n + 1 : h1[i] = IF i > k THEN h[i] + 1 ELSE h[i]
  OBVIOUS
<1>10. Heights(L1, c, h1)
  <2>1. \A i \in 1 .. n + 1 : h1[i] \in Nat
    BY ONLY <1>6, <1>9
  <2>2. n + 1 \in 1 .. n + 1 /\ n + 1 > k
    BY ONLY <1>8, <1>1
  <2>3. h1[n + 1] = Len(L1)
    BY <1>6, <1>7, <1>9, <2>2
  <2>4. ASSUME NEW i \in 1 .. n + 1, NEW j \in 1 .. n + 1, i <= j
        PROVE  h1[i] <= h1[j]
    <3>1. h[i] <= h[j] /\ h[i] \in Nat /\ h[j] \in Nat
      BY ONLY <1>6, <2>4
    <3>2. i > k => j > k
      BY ONLY <1>8, <2>4, <1>1
    <3> QED BY ONLY <1>9, <2>4, <3>1, <3>2
  <2> QED BY ONLY <2>1, <2>3, <2>4, <1>1 DEF Heights
<1>11. ASSUME NEW i \in 0 .. n
      PROVE  /\ m[i] \in 0 .. i
             /\ \A j \in m[i] + 1 .. i : c[j].kind \in Transparent
             /\ m[i] > 0 => c[m[i]].kind \notin Transparent
             /\ h1[m[i] + 1] = h1[i + 1]
  <2> PICK g : g = m[i]
    OBVIOUS
  <2>1. /\ g \in 0 .. i
        /\ \A j \in g + 1 .. i : c[j].kind \in Transparent
        /\ g > 0 => c[g].kind \notin Transparent
        /\ h[g + 1] = h[i + 1]
    BY ONLY <1>5, g = m[i], <1>2, i \in 0 .. n, HeadFacts
  <2>2. i >= k => g >= k
    <3>1. ASSUME i >= k, g < k PROVE FALSE
      <4>1. k \in g + 1 .. i /\ k > 0
        BY ONLY <1>8, <2>1, <3>1, <1>1, i \in 0 .. n
      <4> QED BY ONLY <1>8, <2>1, <4>1
    <3> QED BY ONLY <1>8, <2>1, <3>1, <1>1, i \in 0 .. n
  <2>3. g + 1 \in 1 .. n + 1 /\ i + 1 \in 1 .. n + 1 /\ (g + 1 > k <=> i + 1 > k)
    BY ONLY <1>8, <2>1, <2>2, <1>1, i \in 0 .. n
  <2>4. h1[g + 1] = h1[i + 1]
    BY ONLY <1>9, <2>1, <2>3
  <2> QED BY ONLY <2>1, <2>4, g = m[i]
<1>12. Heads(c, h1, m)
  BY ONLY <1>11, <1>1 DEF Heads
<1>13. ASSUME NEW i \in 1 .. n
      PROVE  /\ Placed(c[i], L1, h1[i], h1[i + 1], StageAt(h1[i + 1], top + 1, stage1))
             /\ Pending(c[i]) /\ h1[i] = h1[i + 1] => i = k
  <2> PICK low : low = h[i]
    OBVIOUS
  <2> PICK high : high = h[i + 1]
    OBVIOUS
  <2> PICK f : f = c[i]
    OBVIOUS
  <2>1. i \in 1 .. n + 1 /\ i + 1 \in 1 .. n + 1 /\ n + 1 \in 1 .. n + 1 /\ i + 1 <= n + 1
        /\ i <= i + 1 /\ i \in Nat
    BY <1>1
  <2>2. low \in Nat /\ high \in Nat /\ low <= high /\ high <= top
    BY ONLY <1>6, <2>1, low = h[i], high = h[i + 1]
  <2>3. /\ CallOK(f) /\ Placed(f, L, low, high, StageAt(high, top, "given"))
        /\ Pending(f) /\ low = high => i = k
    BY ONLY <1>5, i \in 1 .. n, low = h[i], high = h[i + 1], f = c[i], <1>1
  <2>4. f \in Frames
    BY <2>3 DEF CallOK
  <2>5. CASE i < k
    <3>1. h1[i] = low /\ h1[i + 1] = high
      BY ONLY <1>8, <1>9, <2>1, <2>5, low = h[i], high = h[i + 1], <1>1
    <3>2. StageAt(high, top, "given") = StageAt(high, top + 1, stage1)
      BY <1>7, <2>2 DEF StageAt
    <3>3. \A j \in 1 .. high : L1[j] = L[j]
      BY <1>7, <2>2
    <3>4. Placed(f, L1, low, high, StageAt(high, top + 1, stage1))
      BY ONLY <2>2, <2>3, <2>4, <3>2, <3>3, PlacedSame
    <3> QED BY <2>3, <3>1, <3>4
  <2>6. CASE i = k
    <3>1. h[k + 1] = top /\ h[k] = top /\ k > 0
      BY ONLY <1>8, <2>1, <2>6, i \in 1 .. n, <1>4
    <3>2. h1[i] = top /\ h1[i + 1] = top + 1
      BY ONLY <1>7, <1>8, <1>9, <2>1, <2>6, <3>1, <1>1
    <3>3. f.kind = "map" /\ (f.step = "open" \/ (f.step = "key" /\ stage1 = "asked"))
      BY ONLY <1>4, <2>6, <3>1, f = c[i]
    <3>4. f.ends = 1
      BY <2>3, <3>3 DEF CallOK, Frames
    <3>5. StageAt(top + 1, top + 1, stage1) = stage1
      BY <1>7 DEF StageAt
    <3>8. Marked(f) => f.floor = top
      BY <2>3, <2>6, <3>1 DEF Placed
    <3>6. Placed(f, L1, top, top + 1, stage1)
      BY <1>7, <3>3, <3>4, <3>8 DEF Placed, Slot, Transparent
    <3>7. top # top + 1
      BY <1>7
    <3> QED BY <3>2, <3>5, <3>6, <3>7
  <2>7. CASE i > k
    <3>1. i \in k + 1 .. n
      BY ONLY <1>8, <2>7, <1>1, i \in 1 .. n
    <3>2. f.kind \in Transparent
      BY <1>8, <3>1
    <3>3. low = high
      BY <3>2, <2>3 DEF Placed
    <3>4. i + 1 > k
      BY ONLY <1>8, <2>1, <2>7, <1>1
    <3>5. h1[i] = low + 1 /\ h1[i + 1] = low + 1
      BY ONLY <1>9, <2>1, <2>7, <3>3, <3>4, low = h[i], high = h[i + 1]
    <3>6. f.ends # 2 /\ f.kind # "map"
      BY <2>3, <3>2 DEF CallOK, Transparent
    <3>9. ~Marked(f)
      <4>1. \A j \in k + 1 .. n : ~Marked(c[j])
        BY DEF Begins
      <4> QED BY <3>1, <4>1
    <3>7. \A st : Placed(f, L1, low + 1, low + 1, st)
      BY <2>2, <3>2, <3>6, <3>9 DEF Placed
    <3>8. ~Pending(f)
      BY <3>6 DEF Pending
    <3> QED BY <3>5, <3>7, <3>8
  <2>8. i < k \/ i = k \/ i > k
    BY ONLY <1>8, <2>1, <1>1
  <2> QED BY ONLY <2>5, <2>6, <2>7, <2>8
<1>14. Base(L1, c, h1, m, stage1)
  <2>1. \A i \in 1 .. n : CallOK(c[i])
    BY <1>5
  <2> QED BY ONLY <1>1, <1>7, <1>10, <1>12, <1>13, <2>1 DEF Base
<1>15. k > 0 => h1[k] < h1[k + 1] /\ h1[1] = h[1]
  <2>1. ASSUME k > 0 PROVE h1[k] < h1[k + 1] /\ h1[1] = h[1]
    <3>1. k \in 1 .. n + 1 /\ k + 1 \in 1 .. n + 1 /\ 1 \in 1 .. n + 1 /\ ~(1 > k) /\ k + 1 > k
          /\ ~(k > k)
      BY ONLY <1>8, <2>1, <1>1
    <3>2. h1[k] = h[k] /\ h1[k + 1] = h[k] + 1 /\ h1[1] = h[1] /\ h[k] \in Nat
      BY ONLY <1>6, <1>9, <2>1, <3>1, <1>4
    <3> QED BY <3>2
  <2> QED BY <2>1
<1> QED BY ONLY <1>14, <1>15, L1 = Append(L, "key")

\* Calls that are all wrappers have no levels.
LEMMA StageFree ==
  ASSUME NEW c, NEW n \in Nat, Len(c) = n, NEW L, NEW h, NEW m, NEW stage,
         Base(L, c, h, m, stage), m[n] = 0, NEW stage1
  PROVE  Base(L, c, h, m, stage1)
<1>1. /\ Heights(L, c, h) /\ Heads(c, h, m)
      /\ \A i \in 1 .. n :
           /\ CallOK(c[i])
           /\ Placed(c[i], L, h[i], h[i + 1], StageAt(h[i + 1], Len(L), stage))
           /\ Pending(c[i]) /\ h[i] = h[i + 1] => i = m[n]
  BY ONLY Len(c) = n, Base(L, c, h, m, stage) DEF Base
<1>2. \A j \in 1 .. n : c[j].kind \in Transparent
  <2>1. n \in 0 .. n
    OBVIOUS
  <2>2. \A j \in m[n] + 1 .. n : c[j].kind \in Transparent
    BY ONLY <1>1, <2>1, Len(c) = n, HeadFacts
  <2>3. m[n] + 1 = 1
    OBVIOUS
  <2> QED BY ONLY <2>2, <2>3
<1>3. \A i \in 1 .. n + 1 : h[i] \in Nat
  BY ONLY n \in Nat, Len(c) = n, <1>1, HeightFacts
<1>4. ASSUME NEW i \in 1 .. n
      PROVE  Placed(c[i], L, h[i], h[i + 1], StageAt(h[i + 1], Len(L), stage1))
  <2>1. Placed(c[i], L, h[i], h[i + 1], StageAt(h[i + 1], Len(L), stage)) /\ c[i].kind \in Transparent
    BY <1>1, <1>2
  <2>2. h[i] = h[i + 1] /\ h[i] \in Nat
    BY <1>3, <2>1 DEF Placed
  <2> QED BY <2>1, <2>2 DEF Placed
<1> QED BY ONLY <1>1, <1>4, Len(c) = n DEF Base

LEMMA CallsAsking ==
  ASSUME NEW r \in Seq(Frames), NEW n \in Nat, Len(r) = n, NEW f \in Frames
  PROVE  Asking(Append(r, f)) <=> f.kind = "node"
<1>1. Append(r, f) # <<>> /\ LastOf(Append(r, f)) = f
  BY AppendIndex
<1> QED BY <1>1 DEF Asking

LEMMA FitsFacts ==
  ASSUME NEW r \in Seq(Frames), NEW n \in Nat, Len(r) = n, NEW f \in Frames,
         NEW L, NEW state, NEW names, NEW errs, Fits(L, state, names, Append(r, f), errs)
  PROVE  /\ CallOK(f) /\ f.step \notin Inner
         /\ \A i \in 1 .. n : CallOK(r[i]) /\ r[i].step \in Inner /\ r[i] \in Frames
         /\ \E h, m, stage :
              /\ Base(L, Append(r, f), h, m, stage)
              /\ Runs(state, r, f, h, n, m[n], stage)
              /\ Clean(L, state, names, f, errs, h, m[n], stage)
<1> PICK c : c = Append(r, f)
  OBVIOUS
<1>1. /\ c \in Seq(Frames) /\ Len(c) = n + 1 /\ c[n + 1] = f /\ LastOf(c) = f
      /\ \A i \in 1 .. n : c[i] = r[i]
  BY ONLY r \in Seq(Frames), f \in Frames, n \in Nat, Len(r) = n, c = Append(r, f), AppendIndex
<1>2. PICK h, m : /\ Base(L, c, h, m, Stage(c, h, m[Len(c)]))
                  /\ Status(L, state, names, c, h, m[Len(c)], errs)
  BY DEF Fits
<1> PICK stage : stage = Stage(c, h, m[n + 1])
  OBVIOUS
<1> PICK k : k = m[n]
  OBVIOUS
<1>3. Base(L, c, h, m, stage) /\ Status(L, state, names, c, h, m[n + 1], errs)
  BY ONLY <1>1, <1>2, stage = Stage(c, h, m[n + 1])
<1>4. Base(L, Append(r, f), h, m, stage)
  BY ONLY <1>3, c = Append(r, f)
<1>5. CallOK(f) /\ \A i \in 1 .. n : CallOK(r[i]) /\ r[i] \in Frames
  <2>1. \A i \in 1 .. n + 1 : CallOK(c[i])
    BY ONLY <1>1, <1>3, BaseFacts
  <2>2. n + 1 \in 1 .. n + 1 /\ \A i \in 1 .. n : i \in 1 .. n + 1
    OBVIOUS
  <2> QED BY ONLY <1>1, <2>1, <2>2 DEF CallOK
<1>6. f.step \notin Inner /\ \A i \in 1 .. n : r[i].step \in Inner
  <2>1. \A i \in 1 .. n + 1 : i < n + 1 <=> c[i].step \in Inner
    BY <1>1 DEF Fits, Steps
  <2>2. n + 1 \in 1 .. n + 1 /\ ~(n + 1 < n + 1) /\ \A i \in 1 .. n : i \in 1 .. n + 1 /\ i < n + 1
    OBVIOUS
  <2> QED BY ONLY <1>1, <2>1, <2>2
<1>7. /\ m[n + 1] = IF f.kind \in Transparent THEN k ELSE n + 1
      /\ k \in 0 .. n
  BY ONLY r \in Seq(Frames), n \in Nat, Len(r) = n, f \in Frames, <1>4, k = m[n], PopBase
<1>8. Asking(c) <=> f.kind = "node"
  BY CallsAsking
<1>9. n + 1 + 1 = n + 2 /\ n + 1 # 0 /\ n + 1 > 0 /\ (k = 0 \/ (k \in 1 .. n /\ k > 0))
  BY <1>7
<1>10. Runs(state, r, f, h, n, k, stage) /\ Clean(L, state, names, f, errs, h, k, stage)
  <2>1. CASE f.kind \in Transparent
    <3>1. m[n + 1] = k /\ (k # 0 => c[k] = r[k])
      BY ONLY <1>1, <1>7, <1>9, <2>1
    <3>2. IF k = 0 THEN state # "AlreadyTagged" ELSE HeadState(state, r[k], f, h[k], h[k + 1])
      BY ONLY <1>1, <1>3, <3>1 DEF Status, StateOK
    <3>3. Emitting(c, h, k) <=> (f.kind = "node" \/ (k > 0 /\ h[k] = h[k + 1] /\ Undecided(r[k])))
      BY ONLY <1>8, <1>9, <3>1 DEF Emitting
    <3>4. stage = IF Emitting(c, h, k) THEN "asked" ELSE "given"
      BY ONLY <3>1, stage = Stage(c, h, m[n + 1]) DEF Stage
    <3>5. Clean(L, state, names, f, errs, h, k, stage)
      BY ONLY <1>3, <3>1, <3>4 DEF Status, Clean
    <3> QED BY ONLY <2>1, <3>2, <3>3, <3>4, <3>5 DEF Runs
  <2>2. CASE f.kind \notin Transparent
    <3>1. m[n + 1] = n + 1 /\ f.kind # "node"
      BY <1>7, <2>2 DEF Transparent
    <3>2. HeadState(state, f, f, h[n + 1], h[n + 2])
      BY ONLY <1>1, <1>3, <1>9, <3>1 DEF Status, StateOK
    <3>3. Emitting(c, h, n + 1) <=> (h[n + 1] = h[n + 2] /\ Undecided(f))
      BY ONLY <1>1, <1>8, <1>9, <3>1 DEF Emitting
    <3>4. stage = IF Emitting(c, h, n + 1) THEN "asked" ELSE "given"
      BY ONLY <3>1, stage = Stage(c, h, m[n + 1]) DEF Stage
    <3>5. Clean(L, state, names, f, errs, h, k, stage)
      BY ONLY <1>3, <2>2, <3>1, <3>4 DEF Status, Clean
    <3> QED BY ONLY <2>2, <3>2, <3>3, <3>4, <3>5 DEF Runs
  <2> QED BY <2>1, <2>2
<1> QED BY ONLY <1>4, <1>5, <1>6, <1>10, k = m[n]

LEMMA FitsIntro ==
  ASSUME NEW r \in Seq(Frames), NEW n \in Nat, Len(r) = n, NEW f, CallOK(f), f.step \notin Inner,
         \A i \in 1 .. n : r[i].step \in Inner,
         NEW L, NEW state, NEW names, NEW errs, NEW h, NEW m, NEW stage,
         Base(L, Append(r, f), h, m, stage),
         NEW k \in 0 .. n, m[n + 1] = IF f.kind \in Transparent THEN k ELSE n + 1,
         Runs(state, r, f, h, n, k, stage), Clean(L, state, names, f, errs, h, k, stage)
  PROVE  Fits(L, state, names, Append(r, f), errs)
<1> PICK c : c = Append(r, f)
  OBVIOUS
<1>1. f \in Frames
  BY DEF CallOK
<1>2. /\ c \in Seq(Frames) /\ Len(c) = n + 1 /\ c[n + 1] = f /\ LastOf(c) = f
      /\ \A i \in 1 .. n : c[i] = r[i]
  BY ONLY r \in Seq(Frames), <1>1, n \in Nat, Len(r) = n, c = Append(r, f), AppendIndex
<1>3. Steps(c)
  <2>1. \A i \in 1 .. n + 1 : i = n + 1 \/ (i \in 1 .. n /\ i < n + 1)
    OBVIOUS
  <2>2. ~(n + 1 < n + 1)
    OBVIOUS
  <2>3. \A i \in 1 .. n + 1 : i < n + 1 <=> c[i].step \in Inner
    BY <1>2, <2>1, <2>2
  <2> QED BY ONLY <1>2, <2>3 DEF Steps
<1>4. Asking(c) <=> f.kind = "node"
  BY <1>1, CallsAsking
<1>5. n + 1 + 1 = n + 2 /\ n + 1 # 0 /\ n + 1 > 0 /\ (k = 0 \/ (k \in 1 .. n /\ k > 0))
  OBVIOUS
<1>6. stage = Stage(c, h, m[n + 1]) /\ Status(L, state, names, c, h, m[n + 1], errs)
  <2>1. CASE f.kind \in Transparent
    <3>1. m[n + 1] = k /\ (k # 0 => c[k] = r[k])
      BY <1>2, <1>5, <2>1
    <3>2. /\ IF k = 0 THEN state # "AlreadyTagged"
                     ELSE HeadState(state, r[k], f, h[k], h[k + 1])
          /\ stage = IF f.kind = "node" \/ (k > 0 /\ h[k] = h[k + 1] /\ Undecided(r[k]))
                      THEN "asked" ELSE "given"
      BY ONLY <2>1, Runs(state, r, f, h, n, k, stage) DEF Runs
    <3>3. Emitting(c, h, k) <=> (f.kind = "node" \/ (k > 0 /\ h[k] = h[k + 1] /\ Undecided(r[k])))
      BY ONLY <1>4, <1>5, <3>1 DEF Emitting
    <3>4. stage = IF Emitting(c, h, k) THEN "asked" ELSE "given"
      BY ONLY <3>2, <3>3
    <3>5. StateOK(state, c, h, k)
      BY ONLY <1>2, <3>1, <3>2 DEF StateOK
    <3>6. Status(L, state, names, c, h, k, errs)
      BY ONLY <2>1, <3>4, <3>5, Clean(L, state, names, f, errs, h, k, stage) DEF Clean, Status
    <3> QED BY ONLY <3>1, <3>4, <3>6 DEF Stage
  <2>2. CASE f.kind \notin Transparent
    <3>1. m[n + 1] = n + 1 /\ f.kind # "node"
      BY <2>2 DEF Transparent
    <3>2. /\ HeadState(state, f, f, h[n + 1], h[n + 2])
          /\ stage = IF h[n + 1] = h[n + 2] /\ Undecided(f) THEN "asked" ELSE "given"
      BY ONLY <2>2, Runs(state, r, f, h, n, k, stage) DEF Runs
    <3>3. Emitting(c, h, n + 1) <=> (h[n + 1] = h[n + 2] /\ Undecided(f))
      BY ONLY <1>2, <1>4, <1>5, <3>1 DEF Emitting
    <3>4. stage = IF Emitting(c, h, n + 1) THEN "asked" ELSE "given"
      BY ONLY <3>2, <3>3
    <3>5. StateOK(state, c, h, n + 1)
      BY ONLY <1>2, <1>5, <3>2 DEF StateOK
    <3>6. Status(L, state, names, c, h, n + 1, errs)
      BY ONLY <1>5, <3>4, <3>5, Clean(L, state, names, f, errs, h, k, stage) DEF Clean, Status
    <3> QED BY ONLY <3>1, <3>4, <3>6 DEF Stage
  <2> QED BY <2>1, <2>2
<1>7. Base(L, c, h, m, Stage(c, h, m[Len(c)])) /\ Status(L, state, names, c, h, m[Len(c)], errs)
  BY ONLY <1>2, <1>6, c = Append(r, f), Base(L, Append(r, f), h, m, stage)
<1>8. Fits(L, state, names, c, errs)
  BY ONLY <1>2, <1>3, <1>7 DEF Fits
<1> QED BY ONLY <1>8, c = Append(r, f)

LEMMA AdvancedCalls ==
  ASSUME NEW f \in Frames, CallOK(f), f.step \in Inner
  PROVE  LET g == Advanced(f)
         IN  /\ CallOK(g) /\ g.step \notin Inner /\ f.kind # "node"
             /\ g.kind = f.kind /\ g.ends = f.ends /\ g.one = f.one /\ g.tagged = f.tagged
             /\ g.entry = f.entry /\ g.begun = f.begun
             /\ g.tag = f.tag /\ g.late = f.late /\ g.floor = f.floor
             /\ f.kind \notin Transparent => Slot(g, "given") = Slot(f, "given")
             /\ f.kind = "map" => g.step = IF f.step = "key" THEN "keyed" ELSE "valued"
<1> PICK step : step = IF f.kind = "map" THEN (IF f.step = "key" THEN "keyed" ELSE "valued")
                       ELSE IF f.kind \in {"seq", "struct"} THEN "open" ELSE "done"
  OBVIOUS
<1> PICK g : g = Advanced(f)
  OBVIOUS
<1>1. g = [f EXCEPT !.step = step]
  BY DEF Advanced
<1>2. step \in {"open", "keyed", "valued", "done"}
  OBVIOUS
<1>3. /\ g \in Frames /\ g.step = step
      /\ g.kind = f.kind /\ g.ends = f.ends /\ g.one = f.one /\ g.tagged = f.tagged
      /\ g.entry = f.entry /\ g.begun = f.begun
      /\ g.tag = f.tag /\ g.late = f.late /\ g.floor = f.floor
  BY <1>1, <1>2 DEF Frames
<1>4. f.kind # "node"
  BY DEF CallOK, StepsOf, Inner
<1>5. step \in StepsOf(f.kind)
  <2>1. CASE f.kind \in {"map", "seq", "struct"}
    BY <2>1 DEF StepsOf
  <2>2. CASE f.kind \notin {"map", "seq", "struct"}
    BY <1>4, <2>2 DEF StepsOf
  <2> QED BY <2>1, <2>2
<1>6. CallOK(g)
  <2>1. f.kind = "map" /\ f.one => ~f.begun
    BY DEF CallOK, Inner
  <2> QED BY <1>3, <1>5, <2>1 DEF CallOK
<1>7. f.kind \notin Transparent => Slot(g, "given") = Slot(f, "given")
  BY <1>3, <1>4 DEF Slot, CallOK, StepsOf, Inner, Transparent, Frames
<1> QED BY <1>2, <1>3, <1>4, <1>6, <1>7 DEF Inner

\* A call that has no level of its own is a map of one entry, or a wrapper.
LEMMA NoLevels ==
  ASSUME NEW f, CallOK(f), NEW L, NEW lo, NEW hi \in Nat, NEW stage, Placed(f, L, lo, hi, stage),
         f.kind \notin Transparent, lo = hi
  PROVE  f.kind = "map" /\ f.one /\ (f.step \in Inner => (Undecided(f) <=> f.step = "key"))
<1>1. f.kind = "map" /\ f.one
  BY DEF Placed, CallOK, Frames
<1> QED BY <1>1 DEF CallOK, Inner, Undecided

\* The head of calls and the levels before and in it.
LEMMA HeadPlaced ==
  ASSUME NEW c, NEW n \in Nat, Len(c) = n, NEW L, NEW h, NEW m, NEW stage,
         Base(L, c, h, m, stage), NEW k \in 1 .. n
  PROVE  /\ h[k] \in Nat /\ h[k + 1] \in Nat /\ h[k] <= h[k + 1] /\ CallOK(c[k])
         /\ Placed(c[k], L, h[k], h[k + 1], StageAt(h[k + 1], Len(L), stage))
<1>1. /\ Heights(L, c, h)
      /\ \A i \in 1 .. n :
           /\ CallOK(c[i])
           /\ Placed(c[i], L, h[i], h[i + 1], StageAt(h[i + 1], Len(L), stage))
  BY ONLY Len(c) = n, Base(L, c, h, m, stage) DEF Base
<1>2. /\ \A i \in 1 .. n + 1 : h[i] \in Nat
      /\ \A i, j \in 1 .. n + 1 : i <= j => h[i] <= h[j]
  BY ONLY n \in Nat, Len(c) = n, <1>1, HeightFacts
<1>3. k \in 1 .. n + 1 /\ k + 1 \in 1 .. n + 1 /\ k <= k + 1
  OBVIOUS
<1> QED BY ONLY <1>1, <1>2, <1>3, k \in 1 .. n

LEMMA LastCall ==
  ASSUME NEW r \in Seq(Frames), NEW p \in Nat, Len(r) = p + 1
  PROVE  /\ ButLast(r) \in Seq(Frames) /\ r[p + 1] \in Frames
         /\ r = Append(ButLast(r), r[p + 1]) /\ Len(ButLast(r)) = p
         /\ \A i \in 1 .. p : ButLast(r)[i] = r[i]
<1> PICK b : b = [i \in 1 .. p |-> r[i]]
  OBVIOUS
<1> PICK f : f = r[p + 1]
  OBVIOUS
<1>1. f \in Frames /\ \A i \in 1 .. p : r[i] \in Frames
  OBVIOUS
<1>2. b \in [1 .. p -> Frames]
  BY <1>1
<1>3. b \in Seq(Frames) /\ Len(b) = p
  BY <1>2
<1>4. b = ButLast(r)
  BY DEF ButLast
<1>5. r = Append(b, f)
  BY <1>1, <1>3
<1> QED BY <1>1, <1>3, <1>4, <1>5

LEMMA AnsweredLast ==
  ASSUME NEW r \in Seq(Frames), NEW p \in Nat, Len(r) = p + 1
  PROVE  Answered(r) = Append(ButLast(r), Advanced(r[p + 1]))
<1> PICK b : b = [i \in 1 .. p |-> r[i]]
  OBVIOUS
<1> PICK g : g = Advanced(r[p + 1])
  OBVIOUS
<1>1. \A i \in 1 .. p : r[i] \in Frames
  OBVIOUS
<1>2. b \in [1 .. p -> Frames]
  BY <1>1
<1>3. b \in Seq(Frames) /\ Len(b) = p
  BY <1>2
<1>4. b = ButLast(r)
  BY DEF ButLast
<1>5. [r EXCEPT ![p + 1] = g] = Append(b, g)
  BY <1>3
<1>6. r # <<>>
  OBVIOUS
<1>7. Answered(r) = [r EXCEPT ![p + 1] = g]
  BY <1>6 DEF Answered
<1> QED BY <1>4, <1>5, <1>7

\* When a value is complete, the call that waits for it goes on.
LEMMA Answer ==
  ASSUME NEW r \in Seq(Frames), NEW n \in Nat, Len(r) = n, \A i \in 1 .. n : r[i].step \in Inner,
         NEW L \in Seq(Slots), NEW h, NEW m, NEW stage, Base(L, r, h, m, stage),
         NEW k, k = m[n], NEW state, NEW names, NEW errs,
         Complete(L, state, names, r, errs, h, k, stage)
  PROVE  Fits(L, state, names, Answered(r), errs)
<1>1. CASE n = 0
  <2>1. r = <<>> /\ Answered(r) = <<>> /\ Steps(r)
    BY <1>1 DEF Answered, Steps
  <2>2. Heads(r, h, m) /\ 0 \in 0 .. n
    BY ONLY <1>1, Len(r) = n, Base(L, r, h, m, stage), BaseFacts
  <2>3. k \in 0 .. 0
    BY ONLY <1>1, <2>2, Len(r) = n, k = m[n], HeadFacts
  <2>4. k = 0
    BY <2>3
  <2>5. stage = "given" /\ Stage(r, h, 0) = "given"
    BY <2>1, <2>4 DEF Complete, Stage, Emitting, Asking
  <2>6. Status(L, state, names, r, h, k, errs)
    BY <2>1, <2>4, <2>5 DEF Complete, Status, StateOK, Stage
  <2>7. m[Len(r)] = 0
    BY <2>4
  <2>8. Base(L, r, h, m, Stage(r, h, m[Len(r)])) /\ Status(L, state, names, r, h, m[Len(r)], errs)
    BY ONLY <2>4, <2>5, <2>6, <2>7, Base(L, r, h, m, stage)
  <2> QED BY ONLY <2>1, <2>8, r \in Seq(Frames) DEF Fits
<1>2. CASE n # 0
  <2> PICK p \in Nat : n = p + 1
    BY <1>2
  <2> PICK b : b = ButLast(r)
    OBVIOUS
  <2> PICK f : f = r[p + 1]
    OBVIOUS
  <2>1. /\ b \in Seq(Frames) /\ f \in Frames
        /\ r = Append(b, f) /\ Len(b) = p /\ f = r[p + 1]
        /\ \A i \in 1 .. p : b[i] = r[i]
    BY ONLY r \in Seq(Frames), p \in Nat, Len(r) = n, n = p + 1, b = ButLast(r), f = r[p + 1],
            LastCall
  <2> PICK g : g = Advanced(f)
    OBVIOUS
  <2>2. Answered(r) = Append(b, g)
    BY ONLY r \in Seq(Frames), p \in Nat, Len(r) = n, n = p + 1, b = ButLast(r), f = r[p + 1],
            g = Advanced(f), AnsweredLast
  <2> PICK lo : lo = h[p + 1]
    OBVIOUS
  <2> PICK hi : hi = Len(L)
    OBVIOUS
  <2>3. Base(L, Append(b, f), h, m, stage)
    BY ONLY <2>1, Base(L, r, h, m, stage)
  <2>4. /\ CallOK(f) /\ Placed(f, L, lo, hi, stage)
        /\ lo \in Nat /\ h[p + 2] = hi /\ hi \in Nat /\ lo <= hi
        /\ m[p] \in 0 .. p
        /\ k = IF f.kind \in Transparent THEN m[p] ELSE p + 1
    BY ONLY <2>1, <2>3, p \in Nat, n = p + 1, k = m[n], lo = h[p + 1], hi = Len(L), PopBase
  <2>5. f.step \in Inner /\ \A i \in 1 .. p : b[i].step \in Inner
    <3>1. p + 1 \in 1 .. n /\ \A i \in 1 .. p : i \in 1 .. n
      OBVIOUS
    <3> QED BY ONLY <2>1, <3>1, \A i \in 1 .. n : r[i].step \in Inner
  <2>6. /\ CallOK(g) /\ g.step \notin Inner /\ f.kind # "node"
        /\ g.kind = f.kind /\ g.ends = f.ends /\ g.one = f.one /\ g.tagged = f.tagged
        /\ g.entry = f.entry /\ g.begun = f.begun
        /\ g.tag = f.tag /\ g.late = f.late /\ g.floor = f.floor
        /\ f.kind \notin Transparent => Slot(g, "given") = Slot(f, "given")
        /\ f.kind = "map" => g.step = IF f.step = "key" THEN "keyed" ELSE "valued"
    BY ONLY <2>4, <2>5, f \in Frames, g = Advanced(f), AdvancedCalls
  <2>7. lo < hi => stage = "given" /\ f.kind \notin Transparent
    <3>1. ASSUME lo < hi PROVE f.kind \notin Transparent
      BY <2>4, <3>1 DEF Placed
    <3>2. ASSUME lo < hi PROVE stage = "given"
      <4>1. k = p + 1 /\ h[k] # h[k + 1]
        BY <2>4, <3>1, <3>2
      <4> QED BY <4>1 DEF Complete
    <3> QED BY <3>1, <3>2
  <2>8. Placed(g, L, lo, hi, stage)
    <3>1. lo < hi => Slot(g, stage) = Slot(f, stage)
      BY <2>6, <2>7
    <3>2. g.kind = "map" /\ g.step \in {"value", "valued"} => f.step = "value"
      BY <2>5, <2>6 DEF Inner
    <3>3. Marked(g) => g.floor = lo
      BY <2>4, <2>6 DEF Placed, Marked
    <3> QED BY <2>4, <2>6, <3>1, <3>2, <3>3 DEF Placed
  <2>9. StageAt(lo, hi, stage) = IF lo < hi THEN "given" ELSE stage
    BY DEF StageAt
  <2>10. \/ g.kind \in Transparent \/ f.kind \notin Transparent
    BY <2>6
  <2>11. PICK h1, m1 :
           /\ Base(L, Append(b, g), h1, m1, stage)
           /\ h1[p + 2] = hi /\ h1[p + 1] = lo /\ \A i \in 1 .. p + 1 : h1[i] = h[i]
           /\ m1[p + 1] = IF g.kind \in Transparent THEN m[p] ELSE p + 1
    <3>1. /\ lo < hi => StageAt(lo, Len(L), stage) = "given"
          /\ lo = hi => stage = StageAt(lo, Len(L), stage)
      BY <2>4, <2>9
    <3>2. b \in Seq(Frames) /\ p \in Nat /\ Len(b) = p /\ f \in Frames
          /\ Base(L, Append(b, f), h, m, stage) /\ CallOK(g) /\ lo = h[p + 1]
          /\ hi \in Nat /\ hi = Len(L) /\ lo <= hi /\ Placed(g, L, lo, hi, stage)
      BY <2>1, <2>3, <2>4, <2>6, <2>8
    <3>3. Changes(b, p, f, L, h, m, stage, g, L, lo, hi, stage)
      BY ONLY <2>10, <3>1, <3>2 DEF Changes
    <3> QED BY ONLY <3>3, ChangeBase
  <2>12. m1[p + 1] = k /\ h1[p + 2] = h[p + 2] /\ 1 \in 1 .. p + 1
    BY <2>4, <2>6, <2>11
  <2>13. k > 0 => h1[k] = h[k] /\ h1[k + 1] = h[k + 1]
    <3>1. k > 0 => k \in 1 .. p + 1 /\ (k = p + 1 \/ k + 1 \in 1 .. p + 1)
      BY <2>4
    <3>2. p + 1 + 1 = p + 2
      OBVIOUS
    <3> QED BY ONLY <2>11, <2>12, <3>1, <3>2
  <2>14. k > 0 => /\ h[k] \in Nat /\ h[k + 1] \in Nat /\ h[k] <= h[k + 1] /\ CallOK(r[k])
                  /\ Placed(r[k], L, h[k], h[k + 1], StageAt(h[k + 1], Len(L), stage))
    <3>1. k > 0 => k \in 1 .. n
      BY <2>4
    <3> QED BY ONLY n \in Nat, Len(r) = n, Base(L, r, h, m, stage), <3>1, HeadPlaced
  <2>15. k > 0 => r[k].step \in Inner /\ r[k].kind \notin Transparent
    <3>1. n \in 0 .. n /\ Heads(r, h, m)
      BY ONLY n \in Nat, Len(r) = n, Base(L, r, h, m, stage), BaseFacts
    <3>2. k > 0 => r[k].kind \notin Transparent
      BY ONLY <3>1, Len(r) = n, k = m[n], HeadFacts
    <3>3. k > 0 => k \in 1 .. n
      BY <2>4
    <3> QED BY <3>2, <3>3
  <2>16. k > 0 /\ h[k] = h[k + 1] => r[k].kind = "map" /\ (Undecided(r[k]) <=> r[k].step = "key")
    BY <2>14, <2>15, NoLevels
  <2>17. Clean(L, state, names, g, errs, h1, m[p], stage)
    <3>1. h1[1] = h[1]
      BY ONLY <2>11, <2>12
    <3>2. g.kind \in Transparent /\ m[p] = 0 => k = 0
      BY <2>4, <2>6
    <3> QED BY <3>1, <3>2 DEF Clean, Complete
  <2>18. Runs(state, b, g, h1, p, m[p], stage)
    <3>1. CASE g.kind \in Transparent
      <4>1. k = m[p] /\ g.kind # "node" /\ (k > 0 => b[k] = r[k])
        BY <2>1, <2>4, <2>6, <3>1
      <4>2. k # 0 => HeadState(state, b[k], g, h1[k], h1[k + 1])
        <5>1. ASSUME k # 0 PROVE HeadState(state, b[k], g, h1[k], h1[k + 1])
          <6>1. k > 0 /\ h1[k] = h[k] /\ h1[k + 1] = h[k + 1] /\ b[k] = r[k]
            BY <2>4, <2>13, <4>1, <5>1
          <6>2. CASE h[k] < h[k + 1]
            <7>1. state = "NothingInParticular"
              BY <5>1, <6>2 DEF Complete
            <7> QED BY <6>1, <6>2, <7>1 DEF HeadState, OpenState
          <6>3. CASE ~(h[k] < h[k + 1])
            <7>1. \/ r[k].step = "value" /\ state \in {"FoundTag", "NothingInParticular"}
                  \/ r[k].step = "key" /\ r[k].entry /\ state = "FoundTag"
              BY <5>1, <6>3 DEF Complete
            <7>2. TagState(state, r[k], g)
              BY <4>1, <7>1 DEF TagState
            <7> QED BY <6>1, <6>3, <7>2 DEF HeadState
          <6> QED BY <6>2, <6>3
        <5> QED BY <5>1
      <4>3. k = 0 => state # "AlreadyTagged"
        BY DEF Complete
      <4>4. stage = IF k > 0 /\ h[k] = h[k + 1] /\ Undecided(r[k]) THEN "asked" ELSE "given"
        BY <2>16 DEF Complete
      <4>5. stage = IF k > 0 /\ h1[k] = h1[k + 1] /\ Undecided(b[k]) THEN "asked" ELSE "given"
        BY ONLY <2>13, <4>1, <4>4
      <4> QED BY ONLY <3>1, <4>1, <4>2, <4>3, <4>5 DEF Runs
    <3>2. CASE g.kind \notin Transparent
      <4>1. k = p + 1 /\ k # 0 /\ k > 0 /\ r[k] = f /\ h[k] = lo /\ h[k + 1] = hi
        <5>1. k = p + 1 /\ p + 1 + 1 = p + 2
          BY <2>4, <2>6, <3>2
        <5>2. p + 1 > 0 /\ p + 1 # 0
          OBVIOUS
        <5> QED BY ONLY <2>1, <2>4, <5>1, <5>2, lo = h[p + 1]
      <4>2. HeadState(state, g, g, lo, hi)
        <5>1. CASE lo < hi
          <6>1. state = "NothingInParticular"
            BY <4>1, <5>1 DEF Complete
          <6> QED BY <5>1, <6>1 DEF HeadState, OpenState
        <5>2. CASE ~(lo < hi)
          <6>1. \/ f.step = "value" /\ state \in {"FoundTag", "NothingInParticular"}
                \/ f.step = "key" /\ f.entry /\ state = "FoundTag"
            BY <4>1, <5>2 DEF Complete
          <6>2. f.kind = "map"
            BY <2>4, <2>16, <4>1, <5>2
          <6>3. TagState(state, g, g)
            BY <2>6, <6>1, <6>2 DEF TagState
          <6> QED BY <5>2, <6>3 DEF HeadState
        <5> QED BY <5>1, <5>2
      <4>3. lo = hi => (Undecided(g) <=> f.step = "key")
        <5>1. ASSUME lo = hi PROVE Undecided(g) <=> f.step = "key"
          <6>1. f.kind = "map" /\ (Undecided(f) <=> f.step = "key")
            BY <2>16, <4>1, <5>1
          <6> QED BY <2>6, <6>1 DEF Undecided
        <5> QED BY <5>1
      <4>4. stage = IF lo = hi /\ Undecided(g) THEN "asked" ELSE "given"
        BY <4>1, <4>3 DEF Complete
      <4> QED BY ONLY <2>11, <3>2, <4>2, <4>4 DEF Runs
    <3> QED BY <3>1, <3>2
  <2>19. /\ b \in Seq(Frames) /\ p \in Nat /\ Len(b) = p /\ CallOK(g) /\ g.step \notin Inner
         /\ \A i \in 1 .. p : b[i].step \in Inner
         /\ Base(L, Append(b, g), h1, m1, stage) /\ m[p] \in 0 .. p
         /\ m1[p + 1] = IF g.kind \in Transparent THEN m[p] ELSE p + 1
    BY <2>1, <2>4, <2>5, <2>6, <2>11
  <2>20. Fits(L, state, names, Append(b, g), errs)
    BY ONLY <2>17, <2>18, <2>19, FitsIntro
  <2> QED BY <2>2, <2>20
<1> QED BY <1>1, <1>2

\* The head of the calls r below f waits for a value.
LEMMA HeadWaits ==
  ASSUME NEW r \in Seq(Frames), NEW n \in Nat, Len(r) = n, NEW f \in Frames,
         \A i \in 1 .. n : r[i].step \in Inner,
         NEW L, NEW h, NEW m, NEW stage, Base(L, Append(r, f), h, m, stage), NEW k, k = m[n]
  PROVE  /\ k \in 0 .. n
         /\ k > 0 => /\ h[k] \in Nat /\ h[k + 1] \in Nat /\ h[k] <= h[k + 1]
                     /\ r[k].step \in Inner /\ CallOK(r[k])
                     /\ h[k] = h[k + 1] =>
                          r[k].kind = "map" /\ (Undecided(r[k]) <=> r[k].step = "key")
<1> PICK c : c = Append(r, f)
  OBVIOUS
<1>1. k \in 0 .. n /\ (k > 0 => r[k].kind \notin Transparent)
  BY ONLY r \in Seq(Frames), n \in Nat, Len(r) = n, f \in Frames, k = m[n],
          Base(L, Append(r, f), h, m, stage), PopBase
<1>2. /\ Len(c) = n + 1 /\ n + 1 \in Nat
      /\ \A i \in 1 .. n : c[i] = r[i]
  BY ONLY r \in Seq(Frames), f \in Frames, n \in Nat, Len(r) = n, c = Append(r, f), AppendIndex
<1>3. ASSUME k > 0
      PROVE  /\ h[k] \in Nat /\ h[k + 1] \in Nat /\ h[k] <= h[k + 1]
             /\ r[k].step \in Inner /\ CallOK(r[k])
             /\ h[k] = h[k + 1] =>
                  r[k].kind = "map" /\ (Undecided(r[k]) <=> r[k].step = "key")
  <2>1. k \in 1 .. n /\ k \in 1 .. n + 1
    BY ONLY <1>1, <1>3, n \in Nat
  <2>2. Base(L, c, h, m, stage)
    BY ONLY c = Append(r, f), Base(L, Append(r, f), h, m, stage)
  <2>3. /\ h[k] \in Nat /\ h[k + 1] \in Nat /\ h[k] <= h[k + 1] /\ CallOK(c[k])
        /\ Placed(c[k], L, h[k], h[k + 1], StageAt(h[k + 1], Len(L), stage))
    BY ONLY <1>2, <2>1, <2>2, HeadPlaced
  <2>4. c[k] = r[k] /\ r[k].step \in Inner
    BY <1>2, <2>1
  <2>5. h[k] = h[k + 1] => r[k].kind = "map" /\ (Undecided(r[k]) <=> r[k].step = "key")
    BY <1>1, <1>3, <2>3, <2>4, NoLevels
  <2> QED BY <2>3, <2>4, <2>5
<1> QED BY <1>1, <1>3

\* The node of a scalar or of an alias.
LEMMA AnswerLeaf ==
  ASSUME NEW r \in Seq(Frames), NEW f \in Frames, f.kind = "node", NEW L \in Seq(Slots),
         NEW state, NEW names, NEW errs, Fits(L, state, names, Append(r, f), errs),
         state \notin {"CheckForTag", "CheckForDuplicateTag"},
         NEW state1 \in {"NothingInParticular", state},
         NEW names1, Flip(L) = <<>> => names1 = NoNames
  PROVE  Fits(Flip(L), state1, names1, Answered(r), errs)
<1> PICK n \in Nat : Len(r) = n
  OBVIOUS
<1>1. /\ CallOK(f)
      /\ \A i \in 1 .. n : CallOK(r[i]) /\ r[i].step \in Inner /\ r[i] \in Frames
  BY ONLY r \in Seq(Frames), n \in Nat, Len(r) = n, f \in Frames,
          Fits(L, state, names, Append(r, f), errs), FitsFacts
<1>2. PICK h, m, stage :
        /\ Base(L, Append(r, f), h, m, stage)
        /\ Runs(state, r, f, h, n, m[n], stage)
        /\ Clean(L, state, names, f, errs, h, m[n], stage)
  BY ONLY r \in Seq(Frames), n \in Nat, Len(r) = n, f \in Frames,
          Fits(L, state, names, Append(r, f), errs), FitsFacts
<1> PICK k : k = m[n]
  OBVIOUS
<1> PICK c : c = Append(r, f)
  OBVIOUS
<1> PICK F : F = Flip(L)
  OBVIOUS
<1>3. f.kind \in Transparent
  BY DEF Transparent
<1>4. /\ stage = "asked"
      /\ k = 0 => state # "AlreadyTagged"
      /\ k # 0 => HeadState(state, r[k], f, h[k], h[k + 1])
  BY <1>2, <1>3 DEF Runs
<1>5. /\ k \in 0 .. n
      /\ k > 0 => /\ h[k] \in Nat /\ h[k + 1] \in Nat /\ h[k] <= h[k + 1]
                  /\ r[k].step \in Inner /\ CallOK(r[k])
                  /\ h[k] = h[k + 1] =>
                       r[k].kind = "map" /\ (Undecided(r[k]) <=> r[k].step = "key")
  BY ONLY r \in Seq(Frames), n \in Nat, Len(r) = n, f \in Frames, <1>1, <1>2, k = m[n], HeadWaits
<1>6. /\ c \in Seq(Frames) /\ Len(c) = n + 1 /\ c[n + 1] = f /\ n + 1 \in Nat
      /\ \A i \in 1 .. n : c[i] = r[i]
  BY ONLY r \in Seq(Frames), f \in Frames, n \in Nat, Len(r) = n, c = Append(r, f), AppendIndex
<1>7. /\ h[n + 1] \in Nat /\ h[n + 2] = Len(L) /\ Len(L) \in Nat
      /\ Placed(f, L, h[n + 1], h[n + 2], stage)
  BY ONLY r \in Seq(Frames), n \in Nat, Len(r) = n, f \in Frames, <1>2, PopBase
<1>8. h[n + 1] = Len(L) /\ h[n + 2] = Len(L)
  BY <1>3, <1>7 DEF Placed
<1>9. Base(F, c, h, m, "given")
  <2>1. \A i \in 1 .. n + 1 : h[i] < h[i + 1] => c[i].step \in Inner
    <3>1. (\A i \in 1 .. n + 1 : i = n + 1 \/ i \in 1 .. n) /\ n + 1 + 1 = n + 2
      OBVIOUS
    <3>2. ~(h[n + 1] < h[n + 2])
      BY <1>7, <1>8
    <3> QED BY ONLY <1>1, <1>6, <3>1, <3>2
  <2>2. Base(L, c, h, m, "asked")
    BY ONLY <1>2, <1>4, c = Append(r, f)
  <2> QED BY ONLY <1>6, <2>1, <2>2, L \in Seq(Slots), F = Flip(L), TurnBase
<1>10. Len(F) = Len(L) /\ F \in Seq(Slots)
  BY FlipLevels
<1>11. Base(F, r, h, m, "given")
  <2>1. Base(F, Append(r, f), h, m, "given")
    BY ONLY <1>9, c = Append(r, f)
  <2>2. \A L0 : Len(L0) = h[n + 1] /\ (\A j \in 1 .. h[n + 1] : L0[j] = F[j])
           => Base(L0, r, h, m, StageAt(h[n + 1], Len(F), "given"))
    BY ONLY r \in Seq(Frames), n \in Nat, Len(r) = n, f \in Frames, <2>1, PopBase
  <2>3. StageAt(h[n + 1], Len(F), "given") = "given"
    BY DEF StageAt
  <2>4. Len(F) = h[n + 1] /\ \A j \in 1 .. h[n + 1] : F[j] = F[j]
    BY <1>8, <1>10
  <2> QED BY ONLY <2>2, <2>3, <2>4
<1>12. Complete(F, state1, names1, r, errs, h, k, "given")
  <2>1. k # 0 /\ ~(h[k] < h[k + 1]) =>
          r[k].step = "value" /\ state1 \in {"FoundTag", "NothingInParticular"}
    BY <1>4, <1>5 DEF HeadState, TagState, Inner
  <2>2. k # 0 /\ h[k] < h[k + 1] => state1 = "NothingInParticular"
    BY <1>4 DEF HeadState, OpenState
  <2>3. ~(k > 0 /\ h[k] = h[k + 1] /\ r[k].step = "key")
    BY <1>5, <2>1
  <2>4. k = 0 => state1 # "AlreadyTagged"
    BY <1>4
  <2>5. errs = {} => /\ h[1] = 0
                     /\ k = 0 => state1 = "NothingInParticular"
                     /\ F = <<>> => names1 = NoNames
    BY <1>2, <1>3 DEF Clean
  <2> QED BY ONLY <2>1, <2>2, <2>3, <2>4, <2>5 DEF Complete
<1>13. Fits(F, state1, names1, Answered(r), errs)
  BY ONLY r \in Seq(Frames), n \in Nat, Len(r) = n, <1>1, <1>10, <1>11, <1>12, k = m[n], Answer
<1> QED BY ONLY <1>13, F = Flip(L)

\* A wrapper returns, or a text is found to be a tag: there is no node.
LEMMA AnswerNothing ==
  ASSUME NEW r \in Seq(Frames), NEW f \in Frames, f.kind \in Transparent, NEW L \in Seq(Slots),
         NEW state, NEW names, NEW errs, Fits(L, state, names, Append(r, f), errs),
         f.kind = "node" => state = "CheckForTag",
         NEW state1, state1 = IF f.kind = "node" THEN "FoundTag" ELSE state
  PROVE  Fits(L, state1, names, Answered(r), errs)
<1> PICK n \in Nat : Len(r) = n
  OBVIOUS
<1>1. /\ CallOK(f)
      /\ \A i \in 1 .. n : CallOK(r[i]) /\ r[i].step \in Inner /\ r[i] \in Frames
  BY ONLY r \in Seq(Frames), n \in Nat, Len(r) = n, f \in Frames,
          Fits(L, state, names, Append(r, f), errs), FitsFacts
<1>2. PICK h, m, stage :
        /\ Base(L, Append(r, f), h, m, stage)
        /\ Runs(state, r, f, h, n, m[n], stage)
        /\ Clean(L, state, names, f, errs, h, m[n], stage)
  BY ONLY r \in Seq(Frames), n \in Nat, Len(r) = n, f \in Frames,
          Fits(L, state, names, Append(r, f), errs), FitsFacts
<1> PICK k : k = m[n]
  OBVIOUS
<1>3. /\ stage = IF f.kind = "node" \/ (k > 0 /\ h[k] = h[k + 1] /\ Undecided(r[k]))
                   THEN "asked" ELSE "given"
      /\ k = 0 => state # "AlreadyTagged"
      /\ k # 0 => HeadState(state, r[k], f, h[k], h[k + 1])
  BY <1>2 DEF Runs
<1>4. /\ k \in 0 .. n
      /\ k > 0 => /\ h[k] \in Nat /\ h[k + 1] \in Nat /\ h[k] <= h[k + 1]
                  /\ r[k].step \in Inner /\ CallOK(r[k])
                  /\ h[k] = h[k + 1] =>
                       r[k].kind = "map" /\ (Undecided(r[k]) <=> r[k].step = "key")
  BY ONLY r \in Seq(Frames), n \in Nat, Len(r) = n, f \in Frames, <1>1, <1>2, k = m[n], HeadWaits
<1>5. /\ h[n + 1] \in Nat /\ h[n + 2] = Len(L) /\ Len(L) \in Nat
      /\ Placed(f, L, h[n + 1], h[n + 2], stage)
      /\ \A L0 : Len(L0) = h[n + 1] /\ (\A j \in 1 .. h[n + 1] : L0[j] = L[j])
           => Base(L0, r, h, m, StageAt(h[n + 1], Len(L), stage))
  BY ONLY r \in Seq(Frames), n \in Nat, Len(r) = n, f \in Frames, <1>2, PopBase
<1>6. h[n + 1] = Len(L)
  BY <1>5 DEF Placed
<1>7. StageAt(h[n + 1], Len(L), stage) = stage
  BY <1>5, <1>6 DEF StageAt
<1>8. Base(L, r, h, m, stage)
  <2>1. Len(L) = h[n + 1] /\ \A j \in 1 .. h[n + 1] : L[j] = L[j]
    BY <1>6
  <2> QED BY ONLY <1>5, <1>7, <2>1
<1> PICK stage1 : stage1 = IF k > 0 /\ h[k] = h[k + 1] /\ r[k].step = "key" THEN "asked" ELSE "given"
  OBVIOUS
<1>9. /\ k # 0 /\ h[k] < h[k + 1] => f.kind # "node" /\ state = "NothingInParticular"
      /\ k # 0 /\ ~(h[k] < h[k + 1]) =>
           \/ r[k].step = "value" /\ f.kind # "node" /\ state \in {"FoundTag", "NothingInParticular"}
           \/ r[k].step = "key" /\ r[k].entry /\ state1 = "FoundTag"
  <2>1. CASE k # 0 /\ h[k] < h[k + 1]
    <3>1. OpenState(state, r[k], f) /\ r[k].step # "open"
      BY <1>3, <1>4, <2>1 DEF HeadState, Inner
    <3> QED BY <2>1, <3>1 DEF OpenState
  <2>2. CASE k # 0 /\ ~(h[k] < h[k + 1])
    <3>1. TagState(state, r[k], f) /\ r[k].step \in Inner
      BY <1>3, <1>4, <2>2 DEF HeadState
    <3> QED BY <2>2, <3>1 DEF TagState, Inner
  <2> QED BY <2>1, <2>2
<1>10. k # 0 => stage1 = stage
  <2>1. ASSUME k # 0 PROVE stage1 = stage
    <3>1. k > 0
      BY <1>4, <2>1
    <3>2. CASE h[k] = h[k + 1]
      <4>1. ~(h[k] < h[k + 1])
        BY <1>4, <3>1, <3>2
      <4>2. f.kind = "node" => r[k].step = "key"
        BY <1>9, <2>1, <4>1
      <4> QED BY <1>3, <1>4, <3>1, <3>2, <4>2
    <3>3. CASE h[k] # h[k + 1]
      <4>1. h[k] < h[k + 1]
        BY <1>4, <3>1, <3>3
      <4>2. f.kind # "node"
        BY <1>9, <2>1, <4>1
      <4> QED BY <1>3, <3>3, <4>2
    <3> QED BY <3>2, <3>3
  <2> QED BY <2>1
<1>11. Base(L, r, h, m, stage1)
  <2>1. CASE k = 0
    BY ONLY <1>8, <2>1, n \in Nat, Len(r) = n, k = m[n], StageFree
  <2>2. CASE k # 0
    BY ONLY <1>8, <1>10, <2>2
  <2> QED BY <2>1, <2>2
<1>12. Complete(L, state1, names, r, errs, h, k, stage1)
  <2>1. k = 0 => state1 # "AlreadyTagged"
    BY <1>3
  <2>2. k # 0 /\ h[k] < h[k + 1] => state1 = "NothingInParticular"
    BY <1>9
  <2>3. k # 0 /\ ~(h[k] < h[k + 1]) =>
          \/ r[k].step = "value" /\ state1 \in {"FoundTag", "NothingInParticular"}
          \/ r[k].step = "key" /\ r[k].entry /\ state1 = "FoundTag"
    BY <1>9
  <2>4. ASSUME errs = {}
        PROVE  /\ h[1] = 0
               /\ k = 0 => state1 = "NothingInParticular"
               /\ L = <<>> /\ stage1 = "given" => names = NoNames
    <3>1. /\ h[1] = 0
          /\ k = 0 => state = "NothingInParticular"
          /\ L = <<>> /\ stage = "given" => names = NoNames
      BY <1>2, <2>4 DEF Clean
    <3>2. k = 0 => f.kind # "node"
      BY <3>1
    <3>3. k = 0 => stage = "given" /\ state1 = state
      BY <1>3, <3>2
    <3> QED BY <1>10, <3>1, <3>3
  <2> QED BY ONLY <2>1, <2>2, <2>3, <2>4,
        stage1 = IF k > 0 /\ h[k] = h[k + 1] /\ r[k].step = "key" THEN "asked" ELSE "given"
        DEF Complete
<1> QED BY ONLY r \in Seq(Frames), n \in Nat, Len(r) = n, <1>1, L \in Seq(Slots), <1>11, <1>12,
          k = m[n], Answer


\* Where the innermost call f is, called in r: its head is k, its levels begin after lo.
At(r, n, f, L, state, names, errs, h, m, k, lo, stage) ==
  /\ CallOK(f) /\ f.step \notin Inner /\ \A i \in 1 .. n : CallOK(r[i]) /\ r[i].step \in Inner
  /\ Base(L, Append(r, f), h, m, stage)
  /\ k = m[n] /\ k \in 0 .. n
  /\ Runs(state, r, f, h, n, k, stage)
  /\ Clean(L, state, names, f, errs, h, k, stage)
  /\ k > 0 => /\ h[k] \in Nat /\ h[k + 1] \in Nat /\ h[k] <= h[k + 1]
              /\ r[k].step \in Inner /\ CallOK(r[k])
              /\ h[k] = h[k + 1] => r[k].kind = "map" /\ (Undecided(r[k]) <=> r[k].step = "key")
  /\ lo = h[n + 1] /\ lo \in Nat /\ h[n + 2] = Len(L) /\ Len(L) \in Nat /\ lo <= Len(L)
  /\ Placed(f, L, lo, Len(L), stage)
  /\ f.kind \in Transparent \/ ~(k > 0 /\ Pending(r[k]) /\ h[k] = h[k + 1])

LEMMA FitsAt ==
  ASSUME NEW r \in Seq(Frames), NEW n \in Nat, Len(r) = n, NEW f \in Frames,
         NEW L, NEW state, NEW names, NEW errs, Fits(L, state, names, Append(r, f), errs)
  PROVE  \E h, m, k, lo, stage : At(r, n, f, L, state, names, errs, h, m, k, lo, stage)
<1>1. /\ CallOK(f) /\ f.step \notin Inner
      /\ \A i \in 1 .. n : CallOK(r[i]) /\ r[i].step \in Inner
  BY ONLY r \in Seq(Frames), n \in Nat, Len(r) = n, f \in Frames,
          Fits(L, state, names, Append(r, f), errs), FitsFacts
<1>2. PICK h, m, stage :
        /\ Base(L, Append(r, f), h, m, stage)
        /\ Runs(state, r, f, h, n, m[n], stage)
        /\ Clean(L, state, names, f, errs, h, m[n], stage)
  BY ONLY r \in Seq(Frames), n \in Nat, Len(r) = n, f \in Frames,
          Fits(L, state, names, Append(r, f), errs), FitsFacts
<1> PICK k : k = m[n]
  OBVIOUS
<1> PICK lo : lo = h[n + 1]
  OBVIOUS
<1>3. /\ k \in 0 .. n
      /\ k > 0 => /\ h[k] \in Nat /\ h[k + 1] \in Nat /\ h[k] <= h[k + 1]
                  /\ r[k].step \in Inner /\ CallOK(r[k])
                  /\ h[k] = h[k + 1] =>
                       r[k].kind = "map" /\ (Undecided(r[k]) <=> r[k].step = "key")
  BY ONLY r \in Seq(Frames), n \in Nat, Len(r) = n, f \in Frames, <1>1, <1>2, k = m[n], HeadWaits
<1>4. /\ Placed(f, L, h[n + 1], h[n + 2], stage)
      /\ h[n + 1] \in Nat /\ h[n + 2] = Len(L) /\ Len(L) \in Nat /\ h[n + 1] <= Len(L)
      /\ f.kind \in Transparent \/ ~(m[n] > 0 /\ Pending(r[m[n]]) /\ h[m[n]] = h[m[n] + 1])
  BY ONLY r \in Seq(Frames), n \in Nat, Len(r) = n, f \in Frames, <1>2, PopBase
<1>5. Placed(f, L, lo, Len(L), stage)
  BY ONLY <1>4, lo = h[n + 1]
<1>6. At(r, n, f, L, state, names, errs, h, m, k, lo, stage)
  BY ONLY <1>1, <1>2, <1>3, <1>4, <1>5, k = m[n], lo = h[n + 1] DEF At
<1> QED BY <1>6

\* Another innermost call runs.
LEMMA ChangeFits ==
  ASSUME NEW r, NEW n, NEW f, NEW L, NEW h, NEW m, NEW stage, NEW g, NEW L1, NEW lo, NEW hi,
         NEW stage1, Changes(r, n, f, L, h, m, stage, g, L1, lo, hi, stage1),
         \A i \in 1 .. n : r[i].step \in Inner, g.step \notin Inner, g.kind \notin Transparent,
         NEW state1, NEW names1, NEW errs, HeadState(state1, g, g, lo, hi),
         stage1 = IF lo = hi /\ Undecided(g) THEN "asked" ELSE "given",
         errs = {} => h[1] = 0 /\ (L1 = <<>> /\ stage1 = "given" => names1 = NoNames)
  PROVE  Fits(L1, state1, names1, Append(r, g), errs)
<1>1. PICK h1, m1 :
        /\ Base(L1, Append(r, g), h1, m1, stage1)
        /\ h1[n + 2] = hi /\ h1[n + 1] = lo /\ \A i \in 1 .. n + 1 : h1[i] = h[i]
        /\ m1[n + 1] = IF g.kind \in Transparent THEN m[n] ELSE n + 1
  BY ONLY Changes(r, n, f, L, h, m, stage, g, L1, lo, hi, stage1), ChangeBase
<1>2. r \in Seq(Frames) /\ n \in Nat /\ Len(r) = n /\ CallOK(g)
  BY ONLY Changes(r, n, f, L, h, m, stage, g, L1, lo, hi, stage1) DEF Changes
<1>3. 1 \in 1 .. n + 1 /\ 0 \in 0 .. n
  BY <1>2
<1>4. Runs(state1, r, g, h1, n, 0, stage1)
  BY ONLY <1>1, g.kind \notin Transparent, HeadState(state1, g, g, lo, hi),
          stage1 = IF lo = hi /\ Undecided(g) THEN "asked" ELSE "given" DEF Runs
<1>5. Clean(L1, state1, names1, g, errs, h1, 0, stage1)
  BY ONLY <1>1, <1>3, g.kind \notin Transparent,
          errs = {} => h[1] = 0 /\ (L1 = <<>> /\ stage1 = "given" => names1 = NoNames) DEF Clean
<1>6. m1[n + 1] = IF g.kind \in Transparent THEN 0 ELSE n + 1
  BY <1>1
<1> QED BY ONLY <1>1, <1>2, <1>3, <1>4, <1>5, <1>6, g.step \notin Inner,
          \A i \in 1 .. n : r[i].step \in Inner, FitsIntro

\* A value is about to serialize itself in g, which takes the place of f.
LEMMA NestFits ==
  ASSUME NEW r, NEW n, NEW f, NEW L, NEW h, NEW m, NEW stage, NEW g, NEW L1, NEW lo, NEW hi,
         Changes(r, n, f, L, h, m, stage, g, L1, lo, hi, "asked"), NEW k \in 0 .. n, k = m[n],
         \A i \in 1 .. n : r[i].step \in Inner, g.step \in Inner,
         NEW state1, NEW names1, NEW errs, NEW nd, CallOK(nd), nd.kind = "node",
         IF g.kind \notin Transparent THEN HeadState(state1, g, nd, lo, hi)
         ELSE IF k = 0 THEN state1 # "AlreadyTagged"
         ELSE HeadState(state1, r[k], nd, h[k], h[k + 1]),
         errs = {} => /\ h[1] = 0
                      /\ g.kind \in Transparent /\ k = 0 => state1 = "NothingInParticular"
  PROVE  Fits(L1, state1, names1, Append(Append(r, g), nd), errs)
<1>1. PICK h1, m1 :
        /\ Base(L1, Append(r, g), h1, m1, "asked")
        /\ h1[n + 2] = hi /\ h1[n + 1] = lo /\ \A i \in 1 .. n + 1 : h1[i] = h[i]
        /\ m1[n + 1] = IF g.kind \in Transparent THEN m[n] ELSE n + 1
  BY ONLY Changes(r, n, f, L, h, m, stage, g, L1, lo, hi, "asked"), ChangeBase
<1>2. r \in Seq(Frames) /\ n \in Nat /\ Len(r) = n /\ CallOK(g) /\ g \in Frames
      /\ hi \in Nat /\ hi = Len(L1)
  BY DEF Changes, CallOK
<1> PICK c : c = Append(r, g)
  OBVIOUS
<1> PICK p : p = n + 1
  OBVIOUS
<1>3. /\ c \in Seq(Frames) /\ Len(c) = p /\ c[p] = g /\ p \in Nat
      /\ \A i \in 1 .. n : c[i] = r[i]
  <2>1. n + 1 \in Nat
    BY <1>2
  <2> QED BY ONLY <1>2, <2>1, p = n + 1, c = Append(r, g), AppendIndex
<1>4. nd.kind \in Transparent /\ nd.step \notin Inner /\ nd.kind = "node"
  BY DEF CallOK, StepsOf, Transparent, Inner
<1>5. n + 2 = p + 1 /\ 1 \in 1 .. n + 1 /\ (\A i \in 1 .. p : i = p \/ i \in 1 .. n)
      /\ (k > 0 => k \in 1 .. n /\ k \in 1 .. n + 1 /\ k + 1 \in 1 .. n + 1)
      /\ p \in 0 .. p /\ k \in 0 .. p /\ p > 0 /\ p # 0 /\ (k = 0 \/ k > 0)
  BY <1>2
<1> PICK q : q = IF g.kind \in Transparent THEN k ELSE p
  OBVIOUS
<1>6. Placed(nd, L1, hi, hi, "asked")
  BY <1>2, <1>4 DEF Placed, CallOK, Transparent, Marked
<1>7. \E h2, m2 :
        /\ Base(L1, Append(c, nd), h2, m2, "asked")
        /\ h2[p + 2] = hi /\ h2[p + 1] = hi /\ \A i \in 1 .. p + 1 : h2[i] = h1[i]
        /\ m2[p + 1] = IF nd.kind \in Transparent THEN m1[p] ELSE p + 1
  <2>1. Base(L1, c, h1, m1, "asked") /\ \A j \in 1 .. hi : L1[j] = L1[j]
    BY <1>1
  <2>2. hi <= hi /\ (hi < hi => "asked" = "given") /\ (hi = hi => "asked" = "asked")
    BY <1>2
  <2>3. \/ nd.kind \in Transparent
        \/ ~(m1[p] > 0 /\ Pending(c[m1[p]]) /\ h1[m1[p]] = h1[m1[p] + 1])
    BY <1>4
  <2>4. hi \in Nat /\ hi = Len(L1) /\ c \in Seq(Frames) /\ p \in Nat /\ Len(c) = p
    BY <1>2, <1>3
  <2> QED BY ONLY <1>6, <2>1, <2>2, <2>3, <2>4, CallOK(nd), PushBase
<1>8. PICK h2, m2 :
        /\ Base(L1, Append(c, nd), h2, m2, "asked")
        /\ \A i \in 1 .. p + 1 : h2[i] = h1[i]
        /\ m2[p + 1] = IF nd.kind \in Transparent THEN m1[p] ELSE p + 1
  BY ONLY <1>7
<1>9. q \in 0 .. p /\ m2[p + 1] = IF nd.kind \in Transparent THEN q ELSE p + 1
  BY ONLY <1>1, <1>4, <1>5, <1>8, p = n + 1, k = m[n], q = IF g.kind \in Transparent THEN k ELSE p
<1>10. /\ \A i \in 1 .. n + 1 : i \in 1 .. p + 1 /\ h2[i] = h[i]
       /\ h2[p] = lo /\ h2[p + 1] = hi
  <2>1. (\A i \in 1 .. n + 1 : i \in 1 .. p + 1) /\ p \in 1 .. p + 1 /\ p + 1 \in 1 .. p + 1
    BY <1>2
  <2> QED BY ONLY <1>1, <1>5, <1>8, <2>1, p = n + 1
<1>11. Runs(state1, c, nd, h2, p, q, "asked")
  <2>1. CASE g.kind \in Transparent
    <3>1. q = k /\ (k # 0 => c[k] = r[k] /\ h2[k] = h[k] /\ h2[k + 1] = h[k + 1])
      BY <1>3, <1>5, <1>10, <2>1
    <3> QED BY <1>4, <2>1, <3>1 DEF Runs
  <2>2. CASE g.kind \notin Transparent
    <3>1. q = p /\ c[p] = g /\ h2[p] = lo /\ h2[p + 1] = hi /\ p # 0
      BY <1>3, <1>5, <1>10, <2>2
    <3>2. HeadState(state1, g, nd, lo, hi)
      BY <2>2
    <3> QED BY ONLY <1>4, <3>1, <3>2 DEF Runs
  <2> QED BY <2>1, <2>2
<1>12. Clean(L1, state1, names1, nd, errs, h2, q, "asked")
  BY <1>5, <1>10 DEF Clean
<1>13. \A i \in 1 .. p : c[i].step \in Inner
  BY <1>3, <1>5
<1> QED BY ONLY <1>3, <1>4, <1>8, <1>9, <1>11, <1>12, <1>13, CallOK(nd), c = Append(r, g), FitsIntro

\* Levels without, and with, the innermost.
LEMMA LevelsBefore ==
  ASSUME NEW L \in Seq(Slots), NEW lo \in Nat, lo <= Len(L)
  PROVE  \E L1 \in Seq(Slots) : Len(L1) = lo /\ \A j \in 1 .. lo : L1[j] = L[j]
<1> PICK L1 : L1 = [j \in 1 .. lo |-> L[j]]
  OBVIOUS
<1>1. \A j \in 1 .. lo : L[j] \in Slots
  OBVIOUS
<1>2. L1 \in [1 .. lo -> Slots]
  BY ONLY <1>1, L1 = [j \in 1 .. lo |-> L[j]]
<1>3. L1 \in Seq(Slots) /\ Len(L1) = lo
  BY ONLY <1>2, lo \in Nat
<1> QED BY <1>3

LEMMA LevelAfter ==
  ASSUME NEW L \in Seq(Slots), NEW slot \in Slots, NEW lo \in Nat, Len(L) = lo
  PROVE  /\ Append(L, slot) \in Seq(Slots) /\ Len(Append(L, slot)) = lo + 1
         /\ Append(L, slot)[lo + 1] = slot /\ \A j \in 1 .. lo : Append(L, slot)[j] = L[j]
OBVIOUS

LEMMA SameLevels ==
  ASSUME NEW L \in Seq(Slots), NEW L1 \in Seq(Slots), NEW lo \in Nat, NEW slot \in Slots,
         Len(L1) = lo, Len(L) = lo + 1, L[lo + 1] = slot, \A j \in 1 .. lo : L1[j] = L[j]
  PROVE  L = Append(L1, slot)
<1> PICK A : A = Append(L1, slot)
  OBVIOUS
<1>1. /\ A \in Seq(Slots) /\ Len(A) = lo + 1
      /\ A[lo + 1] = slot /\ \A j \in 1 .. lo : A[j] = L1[j]
  BY ONLY L1 \in Seq(Slots), slot \in Slots, lo \in Nat, Len(L1) = lo, A = Append(L1, slot),
          LevelAfter
<1>2. \A j \in 1 .. lo + 1 : j = lo + 1 \/ j \in 1 .. lo
  OBVIOUS
<1>3. \A j \in 1 .. lo + 1 : A[j] = L[j]
  BY ONLY <1>1, <1>2, L[lo + 1] = slot, \A j \in 1 .. lo : L1[j] = L[j]
<1>4. A = [j \in 1 .. lo + 1 |-> A[j]] /\ L = [j \in 1 .. lo + 1 |-> L[j]]
  BY ONLY <1>1, L \in Seq(Slots), Len(L) = lo + 1, SequenceOfItems
<1>5. A = L
  BY ONLY <1>3, <1>4
<1> QED BY ONLY <1>5, A = Append(L1, slot)

\* A collection ends.  That of a tag has no level of its own.
LEMMA AnswerEnd ==
  ASSUME NEW r \in Seq(Frames), NEW f \in Frames, f.kind \notin Transparent,
         f.kind = "map" => f.step = "open" /\ (f.one => f.begun), NEW L \in Seq(Slots),
         NEW state, NEW names, NEW errs, Fits(L, state, names, Append(r, f), errs)
  PROVE  \/ /\ state = "AlreadyTagged" /\ f.kind = "map"
            /\ Fits(L, "NothingInParticular", names, Answered(r), errs)
         \/ /\ \/ state = "NothingInParticular"
               \/ state = "CheckForDuplicateTag" /\ f.kind = "map"
            /\ \E L1 \in Seq(Slots) :
                 /\ L = Append(IF f.ends = 2 THEN Append(L1, "key") ELSE L1, Slot(f, "given"))
                 /\ \A names1 : (L1 = <<>> => names1 = NoNames) =>
                      Fits(L1, "NothingInParticular", names1, Answered(r), errs)
<1> PICK n \in Nat : Len(r) = n
  OBVIOUS
<1>1. PICK h, m, k, lo, stage : At(r, n, f, L, state, names, errs, h, m, k, lo, stage)
  BY ONLY r \in Seq(Frames), n \in Nat, Len(r) = n, f \in Frames,
          Fits(L, state, names, Append(r, f), errs), FitsAt
<1> PICK hi : hi = Len(L)
  OBVIOUS
<1>2. /\ CallOK(f) /\ f.step \notin Inner /\ (\A i \in 1 .. n : r[i].step \in Inner)
      /\ Base(L, Append(r, f), h, m, stage) /\ k = m[n] /\ k \in 0 .. n
      /\ lo \in Nat /\ hi \in Nat /\ lo <= hi /\ Placed(f, L, lo, hi, stage) /\ lo = h[n + 1]
  BY <1>1 DEF At
<1>3. HeadState(state, f, f, lo, hi)
      /\ stage = IF lo = hi /\ Undecided(f) THEN "asked" ELSE "given"
  BY <1>1 DEF At, Runs
<1>4. errs = {} => h[1] = 0 /\ (L = <<>> /\ stage = "given" => names = NoNames)
  BY <1>1 DEF At, Clean
<1>5. \A L0 : Len(L0) = lo /\ (\A j \in 1 .. lo : L0[j] = L[j])
           => Base(L0, r, h, m, StageAt(lo, hi, stage))
  BY ONLY r \in Seq(Frames), n \in Nat, Len(r) = n, f \in Frames, <1>2, hi = Len(L), PopBase
<1>6. k > 0 /\ ~(h[k] < h[k + 1]) => r[k].step = "value"
  <2>1. ASSUME k > 0, ~(h[k] < h[k + 1]) PROVE r[k].step = "value"
    <3>1. h[k] = h[k + 1] /\ r[k].kind = "map" /\ r[k].step \in Inner /\ ~Pending(r[k])
      BY <1>1, <2>1 DEF At
    <3> QED BY <3>1 DEF Inner, Pending
  <2> QED BY <2>1
<1>7. k # 0 <=> k > 0
  BY <1>2
<1>8. h[k] = h[k + 1] /\ k > 0 => ~(h[k] < h[k + 1])
  BY <1>1 DEF At
<1>9. ASSUME NEW L0 \in Seq(Slots), NEW names0,
             Base(L0, r, h, m, "given"), errs = {} /\ L0 = <<>> => names0 = NoNames
      PROVE  Fits(L0, "NothingInParticular", names0, Answered(r), errs)
  <2>1. Complete(L0, "NothingInParticular", names0, r, errs, h, k, "given")
    BY <1>4, <1>6, <1>7, <1>8, <1>9 DEF Complete
  <2> QED BY ONLY r \in Seq(Frames), n \in Nat, Len(r) = n, <1>2, <1>9, <2>1, Answer
<1>10. CASE lo = hi
  <2>1. f.kind = "map" /\ f.one /\ f.step = "open" /\ f.begun
    BY <1>2, <1>10, NoLevels
  <2>2. state = "AlreadyTagged" /\ stage = "given"
    BY <1>2, <1>3, <1>10, <2>1 DEF HeadState, TagState, Undecided
  <2>3. Base(L, r, h, m, "given")
    <3>1. StageAt(lo, hi, stage) = "given"
      BY <2>2 DEF StageAt
    <3>2. Len(L) = lo /\ \A j \in 1 .. lo : L[j] = L[j]
      BY <1>10
    <3> QED BY ONLY <1>5, <3>1, <3>2
  <2> QED BY <1>4, <1>9, <2>1, <2>2, <2>3
<1>11. CASE lo # hi
  <2>1. lo < hi /\ hi = lo + f.ends /\ L[hi] = Slot(f, stage)
        /\ (f.ends = 2 => L[lo + 1] = "key")
    BY <1>2, <1>11 DEF Placed
  <2>2. stage = "given" /\ OpenState(state, f, f)
    BY <1>3, <2>1 DEF HeadState
  <2>3. state = "NothingInParticular" \/ (state = "CheckForDuplicateTag" /\ f.kind = "map")
    BY <2>2 DEF OpenState, Undecided
  <2> PICK slot : slot = Slot(f, "given")
    OBVIOUS
  <2>4. PICK L1 \in Seq(Slots) : Len(L1) = lo /\ \A j \in 1 .. lo : L1[j] = L[j]
    BY ONLY <1>2, L \in Seq(Slots), hi = Len(L), LevelsBefore
  <2>8. slot \in Slots /\ "key" \in Slots
    BY DEF Slot, Slots
  <2>5. L = Append(IF f.ends = 2 THEN Append(L1, "key") ELSE L1, slot)
    <3>1. CASE f.ends = 2
      <4> PICK L2 : L2 = Append(L1, "key")
        OBVIOUS
      <4> PICK l : l = lo + 1
        OBVIOUS
      <4>1. Len(L) = l + 1 /\ L[l] = "key" /\ L[l + 1] = slot /\ l \in Nat
        <5>1. L[hi] = slot
          BY ONLY <2>1, <2>2, slot = Slot(f, "given")
        <5>2. hi = l + 1
          BY ONLY <1>2, <2>1, <3>1, l = lo + 1
        <5> QED BY ONLY <1>2, <2>1, <3>1, <5>1, <5>2, l = lo + 1, hi = Len(L)
      <4>2. L2 \in Seq(Slots) /\ Len(L2) = l /\ L2[l] = "key" /\ \A j \in 1 .. lo : L2[j] = L1[j]
        BY ONLY <1>2, <2>4, <2>8, L1 \in Seq(Slots), l = lo + 1, L2 = Append(L1, "key"), LevelAfter
      <4>3. \A j \in 1 .. l : j = l \/ j \in 1 .. lo
        BY <1>2
      <4>4. \A j \in 1 .. l : L2[j] = L[j]
        BY ONLY <2>4, <4>1, <4>2, <4>3
      <4>5. L = Append(L2, slot)
        BY ONLY <2>8, <4>1, <4>2, <4>4, L \in Seq(Slots), SameLevels
      <4> QED BY <3>1, <4>5
    <3>2. CASE f.ends # 2
      <4>1. Len(L) = lo + 1 /\ L[lo + 1] = slot
        BY <1>2, <2>1, <2>2, <3>2 DEF Frames
      <4>2. L = Append(L1, slot)
        BY ONLY <1>2, <2>4, <2>8, <4>1, L \in Seq(Slots), L1 \in Seq(Slots), SameLevels
      <4> QED BY <3>2, <4>2
    <3> QED BY <3>1, <3>2
  <2>6. Base(L1, r, h, m, "given")
    <3>1. StageAt(lo, hi, stage) = "given"
      BY <2>1 DEF StageAt
    <3> QED BY ONLY <1>5, <2>4, <3>1
  <2>7. \A names1 : (L1 = <<>> => names1 = NoNames) =>
          Fits(L1, "NothingInParticular", names1, Answered(r), errs)
    BY <1>9, <2>4, <2>6
  <2> QED BY <2>3, <2>4, <2>5, <2>7
<1> QED BY <1>10, <1>11

\* In a value that is about to serialize itself, a tag that is looked for is that
\* of a map whose key the value is.
LEMMA NodeState ==
  ASSUME NEW r, NEW n, NEW f, f.kind = "node", NEW L, NEW state, NEW names, NEW errs,
         NEW h, NEW m, NEW k, NEW lo, NEW stage,
         At(r, n, f, L, state, names, errs, h, m, k, lo, stage)
  PROVE  /\ stage = "asked" /\ lo = Len(L) /\ state # "AlreadyTagged"
         /\ k # 0 => HeadState(state, r[k], f, h[k], h[k + 1])
         /\ k > 0 /\ h[k] = h[k + 1] /\ Pending(r[k]) => state = "CheckForTag"
<1>1. f.kind \in Transparent
  BY DEF Transparent
<1>2. stage = "asked" /\ lo = Len(L)
  BY <1>1 DEF At, Runs, Placed
<1>3. /\ k = 0 => state # "AlreadyTagged"
      /\ k # 0 => HeadState(state, r[k], f, h[k], h[k + 1])
  BY <1>1 DEF At, Runs
<1>4. ASSUME k # 0
      PROVE  /\ state # "AlreadyTagged"
             /\ h[k] = h[k + 1] /\ Pending(r[k]) => state = "CheckForTag"
  <2>1. k > 0
    BY <1>4 DEF At
  <2>2. r[k].step \in Inner /\ h[k] \in Nat /\ h[k + 1] \in Nat
    BY <2>1 DEF At
  <2>3. state # "AlreadyTagged"
    BY <1>3, <1>4, <2>2 DEF HeadState, OpenState, TagState, Inner
  <2>4. h[k] = h[k + 1] /\ Pending(r[k]) => state = "CheckForTag"
    BY <1>3, <1>4, <2>2 DEF HeadState, TagState, Pending
  <2> QED BY <2>3, <2>4
<1>5. k > 0 => k # 0
  BY DEF At
<1> QED BY <1>2, <1>3, <1>4, <1>5

\* The levels after a value has begun to serialize itself as a collection.
LEMMA Start ==
  ASSUME NEW r \in Seq(Frames), NEW f \in Frames, f.kind = "node", NEW L \in Seq(Slots),
         NEW state, NEW names, NEW errs, Fits(L, state, names, Append(r, f), errs),
         state \notin {"CheckForTag", "CheckForDuplicateTag"},
         NEW g, CallOK(g), g.kind \notin Transparent, g.step \in {"open", "done"},
         Marked(g) => g.floor = Len(L), NEW state1,
         \/ state1 = "NothingInParticular"
         \/ state1 = "CheckForDuplicateTag" /\ Undecided(g) /\ g.step = "open",
         NEW L1 \in Seq(Slots),
         L1 = Append(IF g.ends = 2 THEN Append(Flip(L), "key") ELSE Flip(L), Slot(g, "given")),
         NEW names1
  PROVE  Fits(L1, state1, names1, Append(r, g), errs)
<1> PICK n \in Nat : Len(r) = n
  OBVIOUS
<1>1. PICK h, m, k, lo, stage : At(r, n, f, L, state, names, errs, h, m, k, lo, stage)
  BY ONLY r \in Seq(Frames), n \in Nat, Len(r) = n, f \in Frames,
          Fits(L, state, names, Append(r, f), errs), FitsAt
<1>2. /\ stage = "asked" /\ lo = Len(L)
      /\ k > 0 /\ h[k] = h[k + 1] /\ Pending(r[k]) => state = "CheckForTag"
  BY ONLY f.kind = "node", <1>1, NodeState
<1>3. /\ (\A i \in 1 .. n : r[i].step \in Inner)
      /\ Base(L, Append(r, f), h, m, "asked") /\ k = m[n] /\ k \in 0 .. n
      /\ lo \in Nat /\ lo = h[n + 1] /\ h[n + 2] = lo
  BY <1>1, <1>2 DEF At
<1>4. errs = {} => h[1] = 0
  BY <1>1 DEF At, Clean
<1> PICK F : F = Flip(L)
  OBVIOUS
<1> PICK c : c = Append(r, f)
  OBVIOUS
<1> PICK hi : hi = lo + g.ends
  OBVIOUS
<1>5. F \in Seq(Slots) /\ Len(F) = lo
  BY <1>2, FlipLevels
<1>6. Base(F, c, h, m, "given")
  <2>1. /\ c \in Seq(Frames) /\ Len(c) = n + 1 /\ c[n + 1] = f /\ n + 1 \in Nat
        /\ \A i \in 1 .. n : c[i] = r[i]
    BY ONLY r \in Seq(Frames), f \in Frames, n \in Nat, Len(r) = n, c = Append(r, f), AppendIndex
  <2>2. \A i \in 1 .. n + 1 : h[i] < h[i + 1] => c[i].step \in Inner
    <3>1. (\A i \in 1 .. n + 1 : i = n + 1 \/ i \in 1 .. n) /\ n + 1 + 1 = n + 2
      OBVIOUS
    <3>2. ~(h[n + 1] < h[n + 2])
      BY <1>3
    <3> QED BY ONLY <1>3, <2>1, <3>1, <3>2
  <2>3. Base(L, c, h, m, "asked")
    BY ONLY <1>3, c = Append(r, f)
  <2> QED BY ONLY <2>1, <2>2, <2>3, L \in Seq(Slots), F = Flip(L), TurnBase
<1>7. g.ends \in {1, 2} /\ lo < hi /\ hi \in Nat
  <2>1. g.ends \in {1, 2}
    BY ONLY CallOK(g) DEF CallOK, Frames
  <2> QED BY ONLY <1>3, <2>1, hi = lo + g.ends
<1>8. /\ Len(L1) = hi /\ L1[hi] = Slot(g, "given") /\ (\A j \in 1 .. lo : L1[j] = F[j])
      /\ g.ends = 2 => L1[lo + 1] = "key"
  <2> PICK slot : slot = Slot(g, "given")
    OBVIOUS
  <2>1. slot \in Slots /\ "key" \in Slots
    BY DEF Slot, Slots
  <2>2. CASE g.ends = 2
    <3> PICK L2 : L2 = Append(F, "key")
      OBVIOUS
    <3> PICK l : l = lo + 1
      OBVIOUS
    <3>1. /\ L2 \in Seq(Slots) /\ Len(L2) = l /\ L2[l] = "key"
          /\ \A j \in 1 .. lo : L2[j] = F[j]
      BY ONLY <1>3, <1>5, <2>1, L2 = Append(F, "key"), l = lo + 1, LevelAfter
    <3>2. L1 = Append(L2, slot) /\ hi = l + 1 /\ l \in Nat
      <4>1. hi = l + 1 /\ l \in Nat
        <5>1. lo \in Nat /\ hi = lo + 2
          BY <1>3, <2>2
        <5> QED BY ONLY <5>1, l = lo + 1
      <4>2. L1 = Append(L2, slot)
        BY ONLY <2>2, slot = Slot(g, "given"), F = Flip(L), L2 = Append(F, "key"),
             L1 = Append(IF g.ends = 2 THEN Append(Flip(L), "key") ELSE Flip(L), Slot(g, "given"))
      <4> QED BY <4>1, <4>2
    <3>3. /\ Len(L1) = hi /\ L1[hi] = slot /\ (\A j \in 1 .. l : L1[j] = L2[j])
      BY ONLY <2>1, <3>1, <3>2, LevelAfter
    <3>4. l \in 1 .. l /\ \A j \in 1 .. lo : j \in 1 .. l
      <4>1. lo \in Nat /\ l = lo + 1
        BY <1>3
      <4> QED BY ONLY <4>1
    <3>5. L1[lo + 1] = "key" /\ \A j \in 1 .. lo : L1[j] = F[j]
      BY ONLY <3>1, <3>3, <3>4, l = lo + 1
    <3> QED BY ONLY <3>3, <3>5, slot = Slot(g, "given")
  <2>3. CASE g.ends # 2
    <3>1. L1 = Append(F, slot) /\ hi = lo + 1
      <4>1. g.ends = 1
        BY ONLY <1>7, <2>3
      <4>2. hi = lo + 1
        BY ONLY <4>1, hi = lo + g.ends
      <4>3. L1 = Append(F, slot)
        BY ONLY <2>3, slot = Slot(g, "given"), F = Flip(L),
             L1 = Append(IF g.ends = 2 THEN Append(Flip(L), "key") ELSE Flip(L), Slot(g, "given"))
      <4> QED BY <4>2, <4>3
    <3>2. /\ Len(L1) = hi /\ L1[hi] = slot /\ (\A j \in 1 .. lo : L1[j] = F[j])
      BY ONLY <1>3, <1>5, <2>1, <3>1, LevelAfter
    <3> QED BY <2>3, <3>2
  <2> QED BY <2>2, <2>3
<1>9. Placed(g, L1, lo, hi, "given")
  <2>1. g.kind = "map" => g.step \notin {"value", "valued"}
    OBVIOUS
  <2>2. Marked(g) => g.floor = lo
    BY <1>2
  <2> QED BY <1>8, <2>1, <2>2 DEF Placed
<1>10. ~(k > 0 /\ Pending(r[k]) /\ h[k] = h[k + 1])
  BY <1>2
<1>11. Changes(r, n, f, F, h, m, "given", g, L1, lo, hi, "given")
  <2>1. Base(F, Append(r, f), h, m, "given")
    BY ONLY <1>6, c = Append(r, f)
  <2>2. StageAt(lo, Len(F), "given") = "given"
    BY DEF StageAt
  <2>3. lo <= hi
    BY <1>3, <1>7
  <2>4. ~(m[n] > 0 /\ Pending(r[m[n]]) /\ h[m[n]] = h[m[n] + 1])
    BY ONLY <1>3, <1>10
  <2> QED BY ONLY r \in Seq(Frames), n \in Nat, Len(r) = n, f \in Frames, CallOK(g), <1>3, <1>7,
            <1>8, <1>9, <2>1, <2>2, <2>3, <2>4 DEF Changes
<1>12. HeadState(state1, g, g, lo, hi)
  BY <1>7 DEF HeadState, OpenState
<1>13. "given" = IF lo = hi /\ Undecided(g) THEN "asked" ELSE "given"
  BY <1>3, <1>7
<1>14. g.step \notin Inner
  BY DEF Inner
<1>15. errs = {} => h[1] = 0 /\ (L1 = <<>> /\ "given" = "given" => names1 = NoNames)
  <2>1. L1 # <<>>
    BY <1>3, <1>7, <1>8
  <2> QED BY <1>4, <2>1
<1> QED BY ONLY <1>3, <1>11, <1>12, <1>13, <1>14, <1>15, g.kind \notin Transparent, ChangeFits

\* A call goes on to a value in it: g is f in its next step.
LEMMA Descend ==
  ASSUME NEW r \in Seq(Frames), NEW f \in Frames, f.kind \notin Transparent, NEW L \in Seq(Slots),
         NEW state, NEW names, NEW errs, Fits(L, state, names, Append(r, f), errs),
         NEW g, CallOK(g), g.step \in Inner, g.kind = f.kind, g.ends = f.ends, g.one = f.one,
         g.tag = f.tag, g.floor = f.floor,
         f.kind = "map" =>
           /\ g.begun = f.begun
           /\ \/ /\ f.step = "open" /\ g.step = "key"
                 /\ f.one => ~f.begun
                 /\ state = "CheckForTag" => g.entry
              \/ /\ f.step = "keyed" /\ g.step = "value"
                 /\ g.tagged <=> f.entry /\ state = "FoundTag",
         NEW L1, L1 = IF f.kind \in {"struct", "variant"} THEN Flip(L) ELSE L,
         NEW nd, CallOK(nd), nd.kind = "node", NEW names1
  PROVE  Fits(L1, state, names1, Append(Append(r, g), nd), errs)
<1> PICK n \in Nat : Len(r) = n
  OBVIOUS
<1>1. PICK h, m, k, lo, stage : At(r, n, f, L, state, names, errs, h, m, k, lo, stage)
  BY ONLY r \in Seq(Frames), n \in Nat, Len(r) = n, f \in Frames,
          Fits(L, state, names, Append(r, f), errs), FitsAt
<1> PICK hi : hi = Len(L)
  OBVIOUS
<1>2. /\ CallOK(f) /\ f.step \notin Inner /\ (\A i \in 1 .. n : r[i].step \in Inner)
      /\ Base(L, Append(r, f), h, m, stage) /\ k = m[n] /\ k \in 0 .. n
      /\ lo \in Nat /\ hi \in Nat /\ lo <= hi /\ Placed(f, L, lo, hi, stage) /\ lo = h[n + 1]
  BY <1>1 DEF At
<1>3. HeadState(state, f, f, lo, hi)
      /\ stage = IF lo = hi /\ Undecided(f) THEN "asked" ELSE "given"
  BY <1>1 DEF At, Runs
<1>4. errs = {} => h[1] = 0
  BY <1>1 DEF At, Clean
<1>5. lo = hi => f.kind = "map" /\ f.one
  BY <1>2, NoLevels
<1>6. lo = hi => stage = "asked"
  <2>1. ASSUME lo = hi PROVE Undecided(f)
    <3>1. f.kind = "map" /\ f.one /\ ~f.begun
      BY <1>2, <1>5, <2>1 DEF CallOK
    <3> QED BY <3>1 DEF Undecided
  <2> QED BY <1>3, <2>1
<1>7. Len(L1) = hi /\ (\A j \in 1 .. lo : L1[j] = L[j] \/ lo = hi)
      /\ (lo < hi => L1[hi] = IF f.kind \in {"struct", "variant"} THEN Turned(L[hi]) ELSE L[hi])
      /\ \A j \in 1 .. hi : j < hi => L1[j] = L[j]
  <2>1. CASE f.kind \in {"struct", "variant"}
    <3>1. L1 = Flip(L)
      BY <2>1
    <3>2. Len(L1) = hi
      BY ONLY <3>1, L \in Seq(Slots), hi = Len(L), FlipLevels
    <3>3. \A j \in 1 .. hi : L1[j] = IF j < hi THEN L[j] ELSE Turned(L[j])
      BY ONLY <3>1, hi = Len(L) DEF Flip
    <3>4. (\A j \in 1 .. lo : lo < hi => j \in 1 .. hi /\ j < hi) /\ (lo < hi => hi \in 1 .. hi /\ ~(hi < hi))
          /\ (lo < hi \/ lo = hi)
      BY ONLY <1>2
    <3> QED BY <2>1, <3>2, <3>3, <3>4
  <2>2. CASE f.kind \notin {"struct", "variant"}
    <3>1. L1 = L
      BY <2>2
    <3> QED BY ONLY <2>2, <3>1, hi = Len(L)
  <2> QED BY <2>1, <2>2
<1>8. lo = hi => L1 = L
  BY <1>5
<1>9. \A j \in 1 .. lo : L1[j] = L[j]
  BY ONLY <1>7, <1>8
<1>10. Placed(g, L1, lo, hi, "asked")
  <2>1. IF g.kind \in Transparent THEN hi = lo
        ELSE hi = lo + g.ends \/ (hi = lo /\ g.kind = "map" /\ g.one)
    BY <1>2 DEF Placed
  <2>2. ASSUME lo < hi PROVE L1[hi] = Slot(g, "asked")
    <3>1. L[hi] = Slot(f, "given") /\ lo # hi
      BY <1>2, <1>3, <2>2 DEF Placed
    <3>2. CASE f.kind = "seq"
      BY <1>7, <2>2, <3>1, <3>2 DEF Slot
    <3>3. CASE f.kind \in {"struct", "variant"}
      <4>1. L[hi] = "key" /\ g.step = "value"
        <5>1. f.step \in {"open", "done"} /\ g.step = "value"
          BY <1>2, <3>3 DEF CallOK, StepsOf, Inner
        <5> QED BY <3>1, <3>3, <5>1 DEF Slot
      <4>2. L1[hi] = "value"
        BY <1>7, <2>2, <3>3, <4>1 DEF Turned
      <4> QED BY <3>3, <4>1, <4>2 DEF Slot
    <3>4. CASE f.kind = "map"
      BY <1>7, <2>2, <3>1, <3>4 DEF Slot
    <3>5. f.kind \in {"seq", "struct", "variant", "map"}
      BY DEF Frames, Transparent
    <3> QED BY <3>2, <3>3, <3>4, <3>5
  <2>3. g.ends = 2 => L1[lo + 1] = "key"
    <3>1. ASSUME g.ends = 2 PROVE L1[lo + 1] = "key"
      <4>1. f.kind # "map" /\ L[lo + 1] = "key" /\ hi = lo + 2
        BY <1>2, <3>1 DEF Placed, CallOK
      <4>2. lo + 1 \in 1 .. hi /\ lo + 1 < hi
        BY ONLY <1>2, <4>1
      <4> QED BY ONLY <1>7, <4>1, <4>2
    <3> QED BY <3>1
  <2>4. g.kind = "map" /\ g.step \in {"value", "valued"} => (g.tagged <=> lo = hi)
    <3>1. ASSUME g.kind = "map", g.step = "value" PROVE g.tagged <=> lo = hi
      <4>1. f.step = "keyed" /\ (g.tagged <=> f.entry /\ state = "FoundTag")
        BY <3>1
      <4>2. lo = hi => f.entry /\ state = "FoundTag"
        BY <1>2, <1>3, <4>1 DEF HeadState, TagState
      <4>3. lo < hi => state # "FoundTag"
        BY <1>3 DEF HeadState, OpenState
      <4>4. lo < hi \/ lo = hi
        BY <1>2
      <4> QED BY <1>2, <4>1, <4>2, <4>3, <4>4
    <3>2. g.step # "valued"
      BY DEF Inner
    <3> QED BY <3>1, <3>2
  <2>5. Marked(g) => g.floor = lo
    BY <1>2 DEF Placed, Marked, Transparent
  <2> QED BY ONLY <2>1, <2>2, <2>3, <2>4, <2>5 DEF Placed
<1>11. Changes(r, n, f, L, h, m, stage, g, L1, lo, hi, "asked")
  <2>1. /\ lo < hi => StageAt(lo, Len(L), stage) = "given"
        /\ lo = hi => "asked" = StageAt(lo, Len(L), stage)
    BY <1>2, <1>6 DEF StageAt
  <2> QED BY ONLY r \in Seq(Frames), n \in Nat, Len(r) = n, f \in Frames, CallOK(g), <1>2, <1>7, <1>9,
            <1>10, <2>1, f.kind \notin Transparent DEF Changes
<1>12. HeadState(state, g, nd, lo, hi)
  <2>1. CASE lo < hi
    <3>1. OpenState(state, f, f) /\ f.kind # "node"
      BY <1>3, <2>1 DEF HeadState, Transparent
    <3>2. OpenState(state, g, nd)
      BY <3>1 DEF OpenState, Undecided
    <3> QED BY <2>1, <3>2 DEF HeadState
  <2>2. CASE ~(lo < hi)
    <3>1. TagState(state, f, f) /\ f.kind = "map" /\ f.one
      BY <1>2, <1>3, <1>5, <2>2 DEF HeadState
    <3>2. TagState(state, g, nd)
      BY <3>1 DEF TagState
    <3> QED BY <2>2, <3>2 DEF HeadState
  <2> QED BY <2>1, <2>2
<1> QED BY ONLY <1>2, <1>4, <1>11, <1>12, g.step \in Inner, g.kind = f.kind, f.kind \notin Transparent,
          CallOK(nd), nd.kind = "node", NestFits

\* A wrapper passes the value in it on.
LEMMA Wrap ==
  ASSUME NEW r \in Seq(Frames), NEW f \in Frames, f.kind = "node", NEW L \in Seq(Slots),
         NEW state, NEW names, NEW errs, Fits(L, state, names, Append(r, f), errs),
         NEW g, CallOK(g), g.step \in Inner, g.kind \in Transparent,
         Marked(g) => g.floor = Len(L),
         NEW nd, CallOK(nd), nd.kind = "node", NEW names1
  PROVE  Fits(L, state, names1, Append(Append(r, g), nd), errs)
<1> PICK n \in Nat : Len(r) = n
  OBVIOUS
<1>1. PICK h, m, k, lo, stage : At(r, n, f, L, state, names, errs, h, m, k, lo, stage)
  BY ONLY r \in Seq(Frames), n \in Nat, Len(r) = n, f \in Frames,
          Fits(L, state, names, Append(r, f), errs), FitsAt
<1>2. /\ stage = "asked" /\ lo = Len(L) /\ state # "AlreadyTagged"
      /\ k # 0 => HeadState(state, r[k], f, h[k], h[k + 1])
  BY ONLY f.kind = "node", <1>1, NodeState
<1>3. /\ (\A i \in 1 .. n : r[i].step \in Inner)
      /\ Base(L, Append(r, f), h, m, "asked") /\ k = m[n] /\ k \in 0 .. n
      /\ lo \in Nat /\ lo = h[n + 1]
  BY <1>1, <1>2 DEF At
<1>4. errs = {} => h[1] = 0 /\ (k = 0 => state = "NothingInParticular")
  BY <1>1 DEF At, Clean, Transparent
<1>5. Placed(g, L, lo, lo, "asked")
  BY <1>2, <1>3 DEF Placed, CallOK, Transparent
<1>6. Changes(r, n, f, L, h, m, "asked", g, L, lo, lo, "asked")
  <2>1. /\ lo < lo => StageAt(lo, Len(L), "asked") = "given"
        /\ lo = lo => "asked" = StageAt(lo, Len(L), "asked")
        /\ lo <= lo
    BY <1>2, <1>3 DEF StageAt
  <2> QED BY ONLY r \in Seq(Frames), n \in Nat, Len(r) = n, f \in Frames, CallOK(g), <1>2, <1>3,
            <1>5, <2>1, g.kind \in Transparent DEF Changes
<1>7. k # 0 => HeadState(state, r[k], nd, h[k], h[k + 1])
  <2>1. k # 0 => HeadState(state, r[k], f, h[k], h[k + 1])
    BY <1>2
  <2> QED BY ONLY <2>1, f.kind = "node", nd.kind = "node" DEF HeadState, OpenState, TagState
<1> QED BY ONLY <1>2, <1>3, <1>4, <1>6, <1>7, g.step \in Inner, g.kind \in Transparent,
          CallOK(nd), nd.kind = "node", NestFits

\* A map of one entry begins, which may be a tag.
LEMMA MaybeTag ==
  ASSUME NEW r \in Seq(Frames), NEW f \in Frames, f.kind = "node", NEW L \in Seq(Slots),
         NEW state, NEW names, NEW errs, Fits(L, state, names, Append(r, f), errs),
         state # "CheckForTag",
         NEW g, CallOK(g), g.kind = "map", g.one, g.step = "open", ~g.begun,
         Marked(g) => g.floor = Len(L)
  PROVE  Fits(L, "CheckForTag", names, Append(r, g), errs)
<1> PICK n \in Nat : Len(r) = n
  OBVIOUS
<1>1. PICK h, m, k, lo, stage : At(r, n, f, L, state, names, errs, h, m, k, lo, stage)
  BY ONLY r \in Seq(Frames), n \in Nat, Len(r) = n, f \in Frames,
          Fits(L, state, names, Append(r, f), errs), FitsAt
<1>2. /\ stage = "asked" /\ lo = Len(L)
      /\ ~(k > 0 /\ Pending(r[k]) /\ h[k] = h[k + 1])
  BY ONLY f.kind = "node", <1>1, NodeState, state # "CheckForTag"
<1>3. /\ (\A i \in 1 .. n : r[i].step \in Inner)
      /\ Base(L, Append(r, f), h, m, "asked") /\ k = m[n] /\ k \in 0 .. n
      /\ lo \in Nat /\ lo = h[n + 1]
  BY <1>1, <1>2 DEF At
<1>4. errs = {} => h[1] = 0
  BY <1>1 DEF At, Clean
<1>5. Placed(g, L, lo, lo, "asked") /\ g.kind \notin Transparent /\ g.step \notin Inner
  BY <1>2, <1>3 DEF Placed, CallOK, Transparent, Inner
<1>6. Changes(r, n, f, L, h, m, "asked", g, L, lo, lo, "asked")
  <2>1. /\ lo < lo => StageAt(lo, Len(L), "asked") = "given"
        /\ lo = lo => "asked" = StageAt(lo, Len(L), "asked")
        /\ lo <= lo
    BY <1>2, <1>3 DEF StageAt
  <2>2. ~(m[n] > 0 /\ Pending(r[m[n]]) /\ h[m[n]] = h[m[n] + 1])
    BY ONLY <1>2, <1>3
  <2> QED BY ONLY r \in Seq(Frames), n \in Nat, Len(r) = n, f \in Frames, CallOK(g), <1>2, <1>3,
            <1>5, <2>1, <2>2 DEF Changes
<1>7. HeadState("CheckForTag", g, g, lo, lo) /\ Undecided(g)
  BY <1>3 DEF HeadState, TagState, Undecided
<1>8. "asked" = IF lo = lo /\ Undecided(g) THEN "asked" ELSE "given"
  BY <1>7
<1>9. errs = {} => h[1] = 0 /\ (L = <<>> /\ "asked" = "given" => names = NoNames)
  BY <1>4
<1> QED BY ONLY <1>3, <1>5, <1>6, <1>7, <1>8, <1>9, ChangeFits

\* The key of a tagged value is its tag; an entry of a map is complete.
LEMMA EntryGoesOn ==
  ASSUME NEW r \in Seq(Frames), NEW f \in Frames, f.kind = "map", NEW L \in Seq(Slots),
         NEW state, NEW names, NEW errs, Fits(L, state, names, Append(r, f), errs),
         NEW g, CallOK(g), g.kind = "map", g.ends = f.ends, g.one = f.one,
         g.tag = f.tag, g.floor = f.floor,
         NEW state1,
         \/ /\ f.step = "open" /\ ~f.begun /\ state = "CheckForTag"
            /\ g.step = "keyed" /\ ~g.begun /\ g.entry /\ state1 = "FoundTag"
         \/ /\ f.step = "valued" /\ g.step = "open" /\ g.begun
            /\ state1 = IF f.tagged THEN "AlreadyTagged" ELSE state
  PROVE  Fits(L, state1, names, Append(r, g), errs)
<1> PICK n \in Nat : Len(r) = n
  OBVIOUS
<1>1. PICK h, m, k, lo, stage : At(r, n, f, L, state, names, errs, h, m, k, lo, stage)
  BY ONLY r \in Seq(Frames), n \in Nat, Len(r) = n, f \in Frames,
          Fits(L, state, names, Append(r, f), errs), FitsAt
<1> PICK hi : hi = Len(L)
  OBVIOUS
<1>0. f.kind \notin Transparent /\ g.kind \notin Transparent
  BY DEF Transparent
<1>2. /\ CallOK(f) /\ (\A i \in 1 .. n : r[i].step \in Inner)
      /\ Base(L, Append(r, f), h, m, stage)
      /\ lo \in Nat /\ hi \in Nat /\ lo <= hi /\ Placed(f, L, lo, hi, stage) /\ lo = h[n + 1]
  BY <1>1 DEF At
<1>3. HeadState(state, f, f, lo, hi)
      /\ stage = IF lo = hi /\ Undecided(f) THEN "asked" ELSE "given"
  BY <1>0, <1>1 DEF At, Runs
<1>4. errs = {} => h[1] = 0 /\ (L = <<>> /\ stage = "given" => names = NoNames)
  BY <1>1 DEF At, Clean
<1>5. /\ Undecided(f) <=> Undecided(g)
      /\ f.step = "open" => lo = hi
  <2>1. f.step = "open" => lo = hi
    BY <1>2, <1>3 DEF HeadState, OpenState
  <2> QED BY <2>1 DEF Undecided
<1>6. Placed(g, L, lo, hi, stage)
  BY <1>0, <1>2, <1>5 DEF Placed, Slot, CallOK, Marked
<1>7. Changes(r, n, f, L, h, m, stage, g, L, lo, hi, stage)
  <2>1. /\ lo < hi => StageAt(lo, Len(L), stage) = "given"
        /\ lo = hi => stage = StageAt(lo, Len(L), stage)
    BY <1>2 DEF StageAt
  <2> QED BY ONLY r \in Seq(Frames), n \in Nat, Len(r) = n, f \in Frames, CallOK(g), <1>0, <1>2,
            <1>6, <2>1, hi = Len(L) DEF Changes
<1>8. HeadState(state1, g, g, lo, hi)
  <2>1. CASE f.step = "open"
    <3>1. TagState(state1, g, g) /\ ~(lo < hi)
      BY <1>2, <1>5, <2>1 DEF TagState
    <3> QED BY <3>1 DEF HeadState
  <2>2. CASE f.step = "valued" /\ lo < hi
    <3>1. ~f.tagged /\ state1 = state
      BY <1>2, <2>2 DEF Placed
    <3>2. state = "NothingInParticular"
      BY <1>3, <2>2 DEF HeadState, OpenState, Undecided
    <3> QED BY <2>2, <3>1, <3>2 DEF HeadState, OpenState
  <2>3. CASE f.step = "valued" /\ ~(lo < hi)
    <3>1. f.tagged
      BY <1>2, <2>3 DEF Placed
    <3>2. TagState(state1, g, g)
      BY <2>3, <3>1 DEF TagState
    <3> QED BY <2>3, <3>2 DEF HeadState
  <2> QED BY <2>1, <2>2, <2>3
<1>9. stage = IF lo = hi /\ Undecided(g) THEN "asked" ELSE "given"
  BY <1>3, <1>5
<1>10. g.step \notin Inner
  BY DEF Inner
<1> QED BY ONLY <1>0, <1>2, <1>4, <1>7, <1>8, <1>9, <1>10, ChangeFits

\* The start of a mapping that was put off is flushed: the levels are those after it.
LEMMA FlushFits ==
  ASSUME NEW r \in Seq(Frames), NEW f \in Frames, NEW L \in Seq(Slots),
         f.kind = "node" \/ (f.kind = "map" /\ f.step = "open" /\ ~f.begun),
         NEW state, NEW names, NEW errs, Fits(L, state, names, Append(r, f), errs),
         Early(state, Append(r, f))
  PROVE  /\ state = "CheckForTag" => \A names1 :
              Fits(Append(Flip(L), "key"), "NothingInParticular", names1, Append(r, f), errs)
         /\ state = "CheckForDuplicateTag" =>
              Fits(L, "NothingInParticular", names, Append(r, f), errs)
<1> PICK n \in Nat : Len(r) = n
  OBVIOUS
<1>1. PICK h, m, k, lo, stage : At(r, n, f, L, state, names, errs, h, m, k, lo, stage)
  BY ONLY r \in Seq(Frames), n \in Nat, Len(r) = n, f \in Frames,
          Fits(L, state, names, Append(r, f), errs), FitsAt
<1> PICK c : c = Append(r, f)
  OBVIOUS
<1> PICK hi : hi = Len(L)
  OBVIOUS
<1>2. /\ CallOK(f) /\ f.step \notin Inner /\ (\A i \in 1 .. n : r[i].step \in Inner)
      /\ Base(L, c, h, m, stage) /\ k = m[n] /\ k \in 0 .. n
      /\ lo \in Nat /\ hi \in Nat /\ lo <= hi /\ Placed(f, L, lo, hi, stage)
      /\ lo = h[n + 1] /\ h[n + 2] = hi
  BY <1>1 DEF At
<1>3. /\ c \in Seq(Frames) /\ Len(c) = n + 1 /\ c[n + 1] = f /\ n + 1 \in Nat
      /\ \A i \in 1 .. n : c[i] = r[i]
  BY ONLY r \in Seq(Frames), f \in Frames, n \in Nat, Len(r) = n, c = Append(r, f), AppendIndex
<1>4. m[n + 1] = IF f.kind \in Transparent THEN k ELSE n + 1
  BY ONLY r \in Seq(Frames), f \in Frames, n \in Nat, Len(r) = n, <1>2, c = Append(r, f), PopBase
<1>5. f.kind = "node" => f.kind \in Transparent
  BY DEF Transparent
<1>6. f.kind = "map" => f.kind \notin Transparent
  BY DEF Transparent
<1>7. /\ f.kind = "node" =>
           /\ stage = "asked" /\ lo = hi
           /\ k # 0 => HeadState(state, r[k], f, h[k], h[k + 1])
      /\ f.kind = "map" =>
           /\ HeadState(state, f, f, lo, hi)
           /\ stage = IF lo = hi /\ Undecided(f) THEN "asked" ELSE "given"
  <2>1. CASE f.kind = "node"
    BY <1>1, <2>1, NodeState
  <2>2. CASE f.kind = "map"
    <3>1. Runs(state, r, f, h, n, k, stage) /\ h[n + 2] = hi /\ h[n + 1] = lo
      BY <1>1, <1>2 DEF At
    <3> QED BY <1>6, <2>2, <3>1 DEF Runs
  <2> QED BY <2>1, <2>2
<1>8. Clean(L, state, names, f, errs, h, k, stage)
  BY <1>1 DEF At
<1>9. k > 0 => r[k].step = "key" \/ r[k].step = "value"
  BY <1>1 DEF At, Inner
<1>10. k = 0 \/ k > 0
  BY <1>2
<1>11. ASSUME state = "CheckForTag", NEW names1
       PROVE  Fits(Append(Flip(L), "key"), "NothingInParticular", names1, c, errs)
  <2> PICK F : F = Flip(L)
    OBVIOUS
  <2> PICK p : p = m[n + 1]
    OBVIOUS
  <2> PICK stage1 : stage1 = IF f.kind = "node" THEN "asked" ELSE "given"
    OBVIOUS
  <2>1. lo = hi /\ stage = "asked"
    <3>1. CASE f.kind = "map"
      <4>1. lo = hi
        BY <1>2, <1>7, <1>11, <3>1 DEF HeadState, OpenState
      <4>2. Undecided(f)
        BY <3>1 DEF Undecided
      <4> QED BY <1>7, <3>1, <4>1, <4>2
    <3> QED BY <1>7, <3>1
  <2>2. Base(F, c, h, m, "given")
    <3>1. \A i \in 1 .. n + 1 : h[i] < h[i + 1] => c[i].step \in Inner
      <4>1. (\A i \in 1 .. n + 1 : i = n + 1 \/ i \in 1 .. n) /\ n + 1 + 1 = n + 2
        OBVIOUS
      <4>2. ~(h[n + 1] < h[n + 2])
        BY <1>2, <2>1
      <4> QED BY ONLY <1>2, <1>3, <4>1, <4>2
    <3>2. Base(L, c, h, m, "asked")
      BY ONLY <1>2, <2>1
    <3> QED BY ONLY <1>3, <3>1, <3>2, L \in Seq(Slots), F = Flip(L), TurnBase
  <2>3. F \in Seq(Slots)
    BY FlipLevels
  <2>4. p > 0 => /\ c[p].kind = "map" /\ h[p] = h[p + 1]
                 /\ c[p].step = "open" \/ (c[p].step = "key" /\ stage1 = "asked")
    <3>1. CASE f.kind = "node"
      <4>1. ASSUME p > 0
            PROVE  c[p].kind = "map" /\ h[p] = h[p + 1] /\ c[p].step = "key" /\ stage1 = "asked"
        <5>1. p = k /\ k > 0 /\ k # 0 /\ k \in 1 .. n /\ stage1 = "asked"
          BY <1>2, <1>4, <1>5, <3>1, <4>1
        <5>2. /\ h[k] \in Nat /\ h[k + 1] \in Nat /\ h[k] <= h[k + 1]
              /\ h[k] = h[k + 1] => r[k].kind = "map"
          BY <1>1, <5>1 DEF At
        <5>3. ~(h[k] < h[k + 1]) /\ r[k].step = "key"
          BY <1>7, <1>9, <1>11, <3>1, <5>1 DEF HeadState, OpenState, TagState
        <5>4. h[k] = h[k + 1]
          BY <5>2, <5>3
        <5> QED BY ONLY <1>3, <5>1, <5>2, <5>3, <5>4
      <4> QED BY <4>1
    <3>2. CASE f.kind = "map"
      <4>1. p = n + 1 /\ n + 1 + 1 = n + 2
        BY <1>4, <1>6, <3>2
      <4> QED BY <1>2, <1>3, <2>1, <3>2, <4>1
    <3> QED BY <3>1, <3>2
  <2>5. PICK h1 : /\ Base(Append(F, "key"), c, h1, m, stage1)
                  /\ p > 0 => h1[p] < h1[p + 1] /\ h1[1] = h[1]
    <3> PICK q : q = n + 1
      OBVIOUS
    <3>1. c \in Seq(Frames) /\ Len(c) = q /\ q \in Nat /\ p = m[q]
      BY <1>3
    <3>3. \A j \in p + 1 .. q : ~Marked(c[j])
      <4>1. Heads(c, h, m) /\ q \in 0 .. q
        BY ONLY <1>2, <3>1, BaseFacts
      <4>2. p \in 0 .. q /\ \A j \in p + 1 .. q : c[j].kind \in Transparent
        BY ONLY <3>1, <4>1, HeadFacts
      <4>3. CASE f.kind = "node"
        <5>1. Asking(c)
          BY <1>3, <4>3 DEF Asking, LastOf
        <5>2. \A j \in 1 .. q : (\A l \in j .. q : c[l].kind \in Transparent) => ~Marked(c[j])
          BY <1>11, <3>1, <5>1 DEF Early
        <5>3. \A j \in p + 1 .. q : j \in 1 .. q /\ \A l \in j .. q : l \in p + 1 .. q
          BY ONLY <3>1, <4>2
        <5> QED BY ONLY <4>2, <5>2, <5>3
      <4>4. CASE f.kind = "map"
        <5>1. p = q
          BY <1>4, <1>6, <4>4
        <5> QED BY ONLY <3>1, <5>1
      <4> QED BY <4>3, <4>4
    <3>2. Begins(c, q, F, h, m, p, stage1)
      BY ONLY <2>2, <2>3, <2>4, <3>1, <3>3 DEF Begins
    <3> QED BY ONLY <3>2, BeginBase
  <2> PICK L1 : L1 = Append(F, "key")
    OBVIOUS
  <2>6. L1 # <<>>
    BY ONLY <2>3, L1 = Append(F, "key")
  <2>7. Runs("NothingInParticular", r, f, h1, n, k, stage1)
    <3>1. CASE f.kind = "node"
      <4>1. k # 0 => h1[k] < h1[k + 1]
        BY <1>4, <1>5, <1>10, <2>5, <3>1
      <4>2. k # 0 => HeadState("NothingInParticular", r[k], f, h1[k], h1[k + 1])
        BY ONLY <4>1 DEF HeadState, OpenState
      <4> QED BY <1>5, <3>1, <4>2 DEF Runs
    <3>2. CASE f.kind = "map"
      <4>1. h1[n + 1] < h1[n + 2] /\ stage1 = "given"
        <5>1. p = n + 1 /\ n + 1 + 1 = n + 2 /\ p > 0
          BY <1>4, <1>6, <3>2
        <5> QED BY ONLY <2>5, <3>2, <5>1, stage1 = IF f.kind = "node" THEN "asked" ELSE "given"
      <4>2. HeadState("NothingInParticular", f, f, h1[n + 1], h1[n + 2])
        BY ONLY <4>1 DEF HeadState, OpenState
      <4>3. h1[n + 1] # h1[n + 2]
        <5>1. h1[n + 1] \in Nat /\ h1[n + 2] \in Nat
          <6>1. Heights(L1, c, h1)
            BY ONLY <2>5, L1 = Append(F, "key") DEF Base
          <6>2. \A i \in 1 .. n + 1 + 1 : h1[i] \in Nat
            BY ONLY <1>3, <6>1, HeightFacts
          <6>3. n + 1 \in 1 .. n + 1 + 1 /\ n + 2 \in 1 .. n + 1 + 1
            OBVIOUS
          <6> QED BY ONLY <6>2, <6>3
        <5> QED BY ONLY <4>1, <5>1
      <4> QED BY ONLY <1>6, <3>2, <4>1, <4>2, <4>3 DEF Runs
    <3> QED BY <3>1, <3>2
  <2>8. Clean(L1, "NothingInParticular", names1, f, errs, h1, k, stage1)
    <3>1. ASSUME errs = {} PROVE h1[1] = 0
      <4>1. h[1] = 0 /\ ~(f.kind \in Transparent /\ k = 0)
        BY <1>8, <1>11, <3>1 DEF Clean
      <4>2. p > 0
        BY <1>4, <1>10, <4>1
      <4> QED BY ONLY <2>5, <4>1, <4>2
    <3> QED BY <2>6, <3>1 DEF Clean
  <2>9. Base(L1, Append(r, f), h1, m, stage1)
    BY ONLY <2>5, L1 = Append(F, "key"), c = Append(r, f)
  <2>10. Fits(L1, "NothingInParticular", names1, Append(r, f), errs)
    BY ONLY r \in Seq(Frames), n \in Nat, Len(r) = n, <1>2, <1>4, <2>7, <2>8, <2>9, FitsIntro
  <2> QED BY ONLY <2>10, L1 = Append(F, "key"), F = Flip(L), c = Append(r, f)
<1>12. ASSUME state = "CheckForDuplicateTag"
       PROVE  Fits(L, "NothingInParticular", names, c, errs)
  <2>1. Runs("NothingInParticular", r, f, h, n, k, stage)
    <3>1. CASE f.kind = "node"
      <4>1. k # 0 => HeadState("NothingInParticular", r[k], f, h[k], h[k + 1])
        <5>1. k # 0 => h[k] < h[k + 1]
          BY <1>7, <1>12, <3>1 DEF HeadState, TagState
        <5> QED BY ONLY <5>1 DEF HeadState, OpenState
      <4> QED BY <1>5, <1>7, <3>1, <4>1 DEF Runs
    <3>2. CASE f.kind = "map"
      <4>1. lo < hi
        BY <1>7, <1>12, <3>2 DEF HeadState, TagState
      <4>2. HeadState("NothingInParticular", f, f, lo, hi)
        BY ONLY <4>1 DEF HeadState, OpenState
      <4> QED BY ONLY <1>2, <1>6, <1>7, <3>2, <4>2 DEF Runs
    <3> QED BY <3>1, <3>2
  <2>2. Clean(L, "NothingInParticular", names, f, errs, h, k, stage)
    BY <1>8 DEF Clean
  <2>3. Base(L, Append(r, f), h, m, stage)
    BY ONLY <1>2, c = Append(r, f)
  <2>4. Fits(L, "NothingInParticular", names, Append(r, f), errs)
    BY ONLY r \in Seq(Frames), n \in Nat, Len(r) = n, <1>2, <1>4, <2>1, <2>2, <2>3, FitsIntro
  <2> QED BY ONLY <2>4, c = Append(r, f)
<1> QED BY ONLY <1>11, <1>12, c = Append(r, f)

\* The caller serializes a value.
LEMMA CallerFits ==
  ASSUME NEW L \in Seq(Slots), NEW state, NEW names, NEW errs, Fits(L, state, names, <<>>, errs),
         NEW nd, CallOK(nd), nd.kind = "node"
  PROVE  Fits(L, state, names, <<nd>>, errs)
<1> PICK c : c = <<>>
  OBVIOUS
<1> PICK n : n = 0
  OBVIOUS
<1>1. c \in Seq(Frames) /\ Len(c) = n /\ n \in Nat
  OBVIOUS
<1>2. PICK h, m : /\ Base(L, c, h, m, Stage(c, h, m[n]))
                  /\ Status(L, state, names, c, h, m[n], errs)
  <2>1. Fits(L, state, names, c, errs)
    OBVIOUS
  <2> QED BY ONLY <1>1, <2>1 DEF Fits
<1>3. m[n] = 0
  <2>1. Heads(c, h, m) /\ n \in 0 .. n
    BY <1>1, <1>2, BaseFacts
  <2>2. m[n] \in 0 .. n
    BY ONLY <1>1, <2>1, HeadFacts
  <2> QED BY <2>2
<1>4. Base(L, c, h, m, "asked")
  BY ONLY <1>1, <1>2, <1>3, StageFree
<1> PICK lo : lo = Len(L)
  OBVIOUS
<1>5. lo \in Nat /\ lo <= lo /\ ~(lo < lo)
  OBVIOUS
<1>6. nd.kind \in Transparent /\ nd.step \notin Inner /\ nd \in Frames
  BY DEF CallOK, StepsOf, Transparent, Inner
<1>7. Placed(nd, L, lo, lo, "asked")
  BY <1>5, <1>6 DEF Placed, CallOK, Transparent, Marked
<1>8. PICK h1, m1 :
        /\ Base(L, Append(c, nd), h1, m1, "asked")
        /\ \A i \in 1 .. n + 1 : h1[i] = h[i]
        /\ m1[n + 1] = IF nd.kind \in Transparent THEN m[n] ELSE n + 1
  <2>1. (\A k \in 1 .. lo : L[k] = L[k]) /\ (lo < lo => "asked" = "given") /\ (lo = lo => "asked" = "asked")
    BY <1>5
  <2>2. nd.kind \in Transparent \/ ~(m[n] > 0 /\ Pending(c[m[n]]) /\ h[m[n]] = h[m[n] + 1])
    BY <1>6
  <2>3. \E h1, m1 :
          /\ Base(L, Append(c, nd), h1, m1, "asked")
          /\ h1[n + 2] = lo /\ h1[n + 1] = lo /\ \A i \in 1 .. n + 1 : h1[i] = h[i]
          /\ m1[n + 1] = IF nd.kind \in Transparent THEN m[n] ELSE n + 1
    BY ONLY <1>1, <1>4, <1>5, <1>7, <2>1, <2>2, CallOK(nd), lo = Len(L), PushBase
  <2> QED BY ONLY <2>3
<1>9. state # "AlreadyTagged" /\ (errs = {} => h[1] = 0 /\ state = "NothingInParticular")
  BY <1>2, <1>3 DEF Status, StateOK
<1>10. Runs(state, c, nd, h1, n, 0, "asked")
  BY <1>9 DEF Runs, Transparent
<1>11. Clean(L, state, names, nd, errs, h1, 0, "asked")
  <2>1. h1[1] = h[1]
    <3>1. 1 \in 1 .. n + 1
      OBVIOUS
    <3> QED BY ONLY <1>8, <3>1
  <2> QED BY <1>9, <2>1 DEF Clean
<1>12. 0 \in 0 .. n /\ (\A i \in 1 .. n : c[i].step \in Inner)
       /\ m1[n + 1] = IF nd.kind \in Transparent THEN 0 ELSE n + 1
  BY <1>3, <1>8
<1>13. Fits(L, state, names, Append(c, nd), errs)
  BY ONLY <1>1, <1>6, <1>8, <1>10, <1>11, <1>12, CallOK(nd), FitsIntro
<1>14. Append(c, nd) = <<nd>>
  OBVIOUS
<1> QED BY <1>13, <1>14

\* Without calls nothing is open at first; nothing but the levels is known after an
\* error of what the calls that it leaves were at.
LEMMA NoCalls ==
  ASSUME NEW L \in Seq(Slots), NEW state, state # "AlreadyTagged", NEW names, NEW errs,
         errs # {} \/ (L = <<>> /\ state = "NothingInParticular" /\ names = NoNames)
  PROVE  Fits(L, state, names, <<>>, errs)
<1> PICK h : h = [i \in {1} |-> Len(L)]
  OBVIOUS
<1> PICK m : m = [i \in {0} |-> 0]
  OBVIOUS
<1> PICK c : c = <<>>
  OBVIOUS
<1>1. c \in Seq(Frames) /\ Len(c) = 0 /\ Steps(c)
  BY DEF Steps
<1>2. h[1] = Len(L) /\ Len(L) \in Nat /\ m[0] = 0 /\ (L = <<>> => h[1] = 0)
  OBVIOUS
<1>3. Heights(L, c, h)
  <2>1. (\A i \in 1 .. 0 + 1 : i = 1) /\ 0 + 1 = 1
    OBVIOUS
  <2> QED BY <1>1, <1>2, <2>1 DEF Heights
<1>4. Heads(c, h, m)
  <2>1. \A i \in 0 .. 0 : i = 0
    OBVIOUS
  <2> QED BY <1>1, <1>2, <2>1 DEF Heads
<1>5. \A stage : Base(L, c, h, m, stage)
  BY <1>1, <1>3, <1>4 DEF Base
<1>6. Status(L, state, names, c, h, 0, errs)
  BY <1>2 DEF Status, StateOK
<1>7. Fits(L, state, names, c, errs)
  BY ONLY <1>1, <1>2, <1>5, <1>6 DEF Fits
<1> QED BY <1>7

-----------------------------------------------------------------------------
(* The serializer and the calls.                                           *)

LEMMA AppendHas ==
  ASSUME NEW r \in Seq(Frames), NEW f \in Frames, NEW kind
  PROVE  Has(Append(r, f), kind) <=> Has(r, kind) \/ f.kind = kind
<1> PICK n \in Nat : Len(r) = n
  OBVIOUS
<1> PICK c : c = Append(r, f)
  OBVIOUS
<1>1. Len(c) = n + 1 /\ c[n + 1] = f /\ \A i \in 1 .. n : c[i] = r[i]
  OBVIOUS
<1>2. /\ n + 1 \in 1 .. n + 1 /\ \A i \in 1 .. n : i \in 1 .. n + 1
      /\ \A i \in 1 .. n + 1 : i = n + 1 \/ i \in 1 .. n
  OBVIOUS
<1> QED BY ONLY <1>1, <1>2, Len(r) = n, c = Append(r, f) DEF Has

LEMMA AnsweredHas ==
  ASSUME NEW r \in Seq(Frames), NEW kind
  PROVE  Has(Answered(r), kind) <=> Has(r, kind)
<1>1. CASE r = <<>>
  BY <1>1 DEF Answered
<1>2. CASE r # <<>>
  <2> PICK p \in Nat : Len(r) = p + 1
    <3>1. Len(r) - 1 \in Nat /\ Len(r) = Len(r) - 1 + 1
      BY <1>2
    <3> QED BY <3>1
  <2> PICK f \in Frames : f = r[p + 1]
    BY LastCall
  <2> PICK b \in Seq(Frames) : b = ButLast(r)
    BY LastCall
  <2>1. r = Append(b, f) /\ Answered(r) = Append(b, Advanced(f))
    BY LastCall, AnsweredLast
  <2>2. Advanced(f) \in Frames /\ Advanced(f).kind = f.kind
    <3> PICK step : step = IF f.kind = "map" THEN (IF f.step = "key" THEN "keyed" ELSE "valued")
                           ELSE IF f.kind \in {"seq", "struct"} THEN "open" ELSE "done"
      OBVIOUS
    <3>1. step \in {"open", "keyed", "valued", "done"}
      OBVIOUS
    <3>2. Advanced(f) = [f EXCEPT !.step = step]
      BY DEF Advanced
    <3> QED BY ONLY <3>1, <3>2, f \in Frames DEF Frames
  <2>3. Has(Append(b, f), kind) <=> Has(Append(b, Advanced(f)), kind)
    BY ONLY b \in Seq(Frames), f \in Frames, <2>2, AppendHas
  <2> QED BY <2>1, <2>3
<1> QED BY <1>1, <1>2

\* The calls that an innermost call without a style leaves behind.
LEMMA CallsCover ==
  ASSUME NEW r \in Seq(Frames), NEW f \in Frames, f.kind \notin {"flowSeq", "flowMap"},
         NEW g \in Frames, NEW nd \in Frames
  PROVE  /\ Covers(Append(r, f), Answered(r))
         /\ Covers(Append(r, f), Append(r, g))
         /\ Covers(Append(r, f), Append(Append(r, g), nd))
<1>1. Append(r, g) \in Seq(Frames)
  OBVIOUS
<1> QED BY <1>1, AppendHas, AnsweredHas DEF Covers

\* A method that has the effect that the calls account for.
LEMMA WholeAgain ==
  ASSUME NEW s, NEW c, NEW errs, Whole(s, c, errs), NEW L, NEW state, NEW t, Effect(s, t, L, state),
         NEW d, Fits(L, state, t.names, d, errs), Covers(c, d)
  PROVE  Whole(t, d, errs)
BY DEF Whole, Effect, Styled, Covers

LEMMA EffectAgain ==
  ASSUME NEW s, NEW u, NEW L, NEW state, Effect(s, u, L, state),
         NEW t, NEW L1, NEW state1, Effect(u, t, L1, state1)
  PROVE  Effect(s, t, L1, state1)
BY DEF Effect

\* The levels of a mapping before and after its key.
LEMMA FlipAppend ==
  ASSUME NEW L \in Seq(Slots), NEW slot \in Slots
  PROVE  /\ Flip(Append(L, slot)) = Append(L, Turned(slot))
         /\ Append(L, slot) \in Seq(Slots) /\ Append(L, slot) # <<>>
<1> PICK n \in Nat : Len(L) = n
  OBVIOUS
<1> PICK turned \in Slots : turned = Turned(slot)
  BY DEF Turned, Slots
<1> PICK A : A = Append(L, slot)
  OBVIOUS
<1> PICK F : F = Flip(A)
  OBVIOUS
<1>1. A \in Seq(Slots) /\ Len(A) = n + 1 /\ A[n + 1] = slot /\ \A j \in 1 .. n : A[j] = L[j]
  BY LevelAfter
<1>2. F \in Seq(Slots) /\ Len(F) = n + 1
  BY <1>1, FlipLevels
<1>3. \A k \in 1 .. n + 1 : F[k] = IF k < n + 1 THEN A[k] ELSE Turned(A[k])
  BY <1>1 DEF Flip
<1>4. n + 1 \in 1 .. n + 1 /\ ~(n + 1 < n + 1) /\ \A j \in 1 .. n : j \in 1 .. n + 1 /\ j < n + 1
  OBVIOUS
<1>5. F[n + 1] = turned /\ \A j \in 1 .. n : L[j] = F[j]
  BY ONLY <1>1, <1>3, <1>4, turned = Turned(slot)
<1>6. F = Append(L, turned)
  BY ONLY <1>2, <1>5, L \in Seq(Slots), turned \in Slots, n \in Nat, Len(L) = n, SameLevels
<1>7. A # <<>>
  OBVIOUS
<1> QED BY <1>1, <1>6, <1>7

\* The start of a mapping that was put off is flushed.
LEMMA FlushWhole ==
  ASSUME NEW r \in Seq(Frames), NEW f \in Frames,
         f.kind = "node" \/ (f.kind = "map" /\ f.step = "open" /\ ~f.begun),
         NEW s, NEW errs, Whole(s, Append(r, f), errs), Early(s.state, Append(r, f))
  PROVE  LET t == FlushMappingStart(s)
         IN  /\ Whole(t, Append(r, f), errs) /\ Effect(s, t, Levels(t), t.state)
             /\ t.state \notin {"CheckForTag", "CheckForDuplicateTag"}
<1> PICK t : t = FlushMappingStart(s)
  OBVIOUS
<1> PICK c : c = Append(r, f)
  OBVIOUS
<1>1. Sound(s) /\ Fits(Levels(s), s.state, s.names, c, errs)
  BY DEF Whole
<1>2. Levels(s) \in Seq(Slots)
  BY <1>1 DEF Sound
<1>3. Covers(c, c)
  BY DEF Covers
<1>4. CASE s.state = "CheckForTag"
  <2>1. Effect(s, t, Append(Flip(Levels(s)), "key"), "NothingInParticular")
    BY <1>1, <1>4, FlushEffect
  <2>2. Fits(Append(Flip(Levels(s)), "key"), "NothingInParticular", t.names, c, errs)
    BY <1>1, <1>2, <1>4, FlushFits
  <2>3. Whole(t, c, errs)
    BY <1>3, <2>1, <2>2, WholeAgain
  <2> QED BY <2>1, <2>3 DEF Effect
<1>5. CASE s.state = "CheckForDuplicateTag"
  <2>1. Effect(s, t, Levels(s), "NothingInParticular")
    BY <1>1, <1>5, FlushEffect
  <2>2. t.names = s.names
    BY <1>1, <1>5, LevelsCount DEF FlushMappingStart, Serializers
  <2>3. Fits(Levels(s), "NothingInParticular", t.names, c, errs)
    BY <1>1, <1>2, <1>5, <2>2, FlushFits
  <2>4. Whole(t, c, errs)
    BY <1>3, <2>1, <2>3, WholeAgain
  <2> QED BY <2>1, <2>4 DEF Effect
<1>6. CASE s.state \notin {"CheckForTag", "CheckForDuplicateTag"}
  <2>1. t = s
    BY <1>1, <1>6, FlushEffect
  <2>2. Effect(s, t, Levels(t), t.state)
    BY <1>1, <2>1 DEF Effect
  <2> QED BY <1>6, <2>1, <2>2
<1> QED BY <1>4, <1>5, <1>6

\* What is known of the search for tags from the innermost call.
LEMMA CallState ==
  ASSUME NEW r \in Seq(Frames), NEW f \in Frames, NEW L, NEW state, NEW names, NEW errs,
         Fits(L, state, names, Append(r, f), errs)
  PROVE  /\ f.kind \in Transparent => state # "AlreadyTagged"
         /\ f.kind \in {"seq", "struct", "variant"} => state = "NothingInParticular"
         /\ f.kind = "map" /\ f.begun => state \notin {"CheckForTag", "CheckForDuplicateTag"}
         /\ CallOK(f)
<1> PICK n \in Nat : Len(r) = n
  OBVIOUS
<1>1. PICK h, m, k, lo, stage : At(r, n, f, L, state, names, errs, h, m, k, lo, stage)
  BY ONLY r \in Seq(Frames), n \in Nat, Len(r) = n, f \in Frames,
          Fits(L, state, names, Append(r, f), errs), FitsAt
<1>2. /\ CallOK(f) /\ f.step \notin Inner /\ Runs(state, r, f, h, n, k, stage)
      /\ k > 0 => r[k].step \in Inner
      /\ lo = h[n + 1] /\ lo \in Nat /\ h[n + 2] = Len(L) /\ lo <= Len(L) /\ Len(L) \in Nat
      /\ Placed(f, L, lo, Len(L), stage) /\ k \in 0 .. n
  BY <1>1 DEF At
<1>3. f.kind \in Transparent => state # "AlreadyTagged"
  BY <1>2 DEF Runs, HeadState, OpenState, TagState, Inner
<1>4. f.kind \notin Transparent => HeadState(state, f, f, lo, Len(L))
  BY <1>2 DEF Runs
<1>5. f.kind \in {"seq", "struct", "variant"} => state = "NothingInParticular"
  <2>1. SUFFICES ASSUME f.kind \in {"seq", "struct", "variant"}
                 PROVE  state = "NothingInParticular"
    OBVIOUS
  <2>2. f.kind \notin Transparent /\ f.kind # "map"
    BY <2>1 DEF Transparent
  <2>3. f.ends \in {1, 2}
    BY DEF Frames
  <2>4. lo < Len(L)
    BY <1>2, <2>2, <2>3 DEF Placed
  <2>5. OpenState(state, f, f)
    BY <1>4, <2>2, <2>4 DEF HeadState
  <2> QED BY <2>2, <2>5 DEF OpenState, Undecided
<1>6. f.kind = "map" /\ f.begun => state \notin {"CheckForTag", "CheckForDuplicateTag"}
  <2>1. SUFFICES ASSUME f.kind = "map", f.begun
                 PROVE  state \notin {"CheckForTag", "CheckForDuplicateTag"}
    OBVIOUS
  <2>2. HeadState(state, f, f, lo, Len(L)) /\ f.step \notin Inner
    BY <1>2, <1>4, <2>1 DEF Transparent
  <2> QED BY <2>1, <2>2 DEF HeadState, OpenState, TagState, Undecided, Inner
<1> QED BY <1>2, <1>3, <1>5, <1>6

\* What concerns neither the document nor the state.
LEMMA OtherEffect ==
  ASSUME NEW s, Sound(s), NEW t \in Serializers, SameDocument(s, t), SameStyles(s, t)
  PROVE  Effect(s, t, Levels(s), t.state)
<1>1. Resting(t)
  BY Restated DEF Sound
<1>2. Sound(t) /\ Levels(t) = Levels(s)
  BY <1>1 DEF Sound, SameDocument, Levels
<1> QED BY <1>2 DEF Effect, SameStyles

LEMMA SequenceEffect ==
  ASSUME NEW s, Sound(s)
  PROVE  LET t == Taken(EmitStart(ValueStart(s), NodeEvent(s, "SequenceStart")))
         IN  Effect(s, [t EXCEPT !.flowSeq = FALSE], Append(Flip(Levels(s)), "item"),
                    "NothingInParticular")
<1> PICK t : t = Taken(EmitStart(ValueStart(s), NodeEvent(s, "SequenceStart")))
  OBVIOUS
<1> PICK u : u = [t EXCEPT !.flowSeq = FALSE]
  OBVIOUS
<1>1. Effect(s, t, Append(Flip(Levels(s)), "item"), "NothingInParticular")
  BY StartEffect DEF Opened
<1>2. t \in Serializers
  BY <1>1 DEF Effect, Sound, Resting
<1>3. /\ SameDocument(t, u) /\ u.state = t.state /\ u.flowMap = t.flowMap /\ ~u.flowSeq
      /\ u \in Serializers
  BY <1>2 DEF Serializers, SameDocument
<1>4. Resting(u)
  BY <1>1, <1>3, Restated DEF Effect, Sound
<1>5. Sound(u) /\ Levels(u) = Levels(t)
  BY <1>1, <1>3, <1>4 DEF Effect, Sound, SameDocument, Levels
<1> QED BY <1>1, <1>3, <1>5 DEF Effect

\* What a ready serializer does when the start that was put off is flushed.
LEMMA ReadyFlush ==
  ASSUME NEW s, NEW r, NEW f, NEW errs, Ready(s, r, f, errs)
  PROVE  LET t == FlushMappingStart(s)
         IN  /\ Ready(t, r, f, errs) /\ Sound(t) /\ Levels(t) \in Seq(Slots)
             /\ Effect(s, t, Levels(t), t.state)
             /\ Fits(Levels(t), t.state, t.names, Append(r, f), errs)
             /\ t.state \notin {"CheckForTag", "CheckForDuplicateTag"}
<1> PICK t : t = FlushMappingStart(s)
  OBVIOUS
<1>1. /\ Whole(t, Append(r, f), errs) /\ Effect(s, t, Levels(t), t.state)
      /\ t.state \notin {"CheckForTag", "CheckForDuplicateTag"}
  BY FlushWhole DEF Ready
<1>2. Early(t.state, Append(r, f))
  BY <1>1 DEF Early
<1> QED BY <1>1, <1>2 DEF Ready, Whole, Sound

\* A scalar is the whole value.
LEMMA ScalarWhole ==
  ASSUME NEW s, NEW r, NEW f, NEW errs, Ready(s, r, f, errs)
  PROVE  Whole(EmitScalar(s), Answered(r), errs)
<1> PICK t : t = FlushMappingStart(s)
  OBVIOUS
<1> PICK u : u = EmitScalar(s)
  OBVIOUS
<1>1. /\ Ready(t, r, f, errs) /\ Sound(t) /\ Levels(t) \in Seq(Slots)
      /\ Fits(Levels(t), t.state, t.names, Append(r, f), errs)
      /\ t.state \notin {"CheckForTag", "CheckForDuplicateTag"}
  BY ReadyFlush
<1>2. u = ValueEnd(Taken(EmitLeaf(ValueStart(t), NodeEvent(t, "Scalar"))))
  BY DEF EmitScalar
<1>3. /\ Effect(t, u, Flip(Levels(t)), "NothingInParticular")
      /\ Flip(Levels(t)) = <<>> => u.names = NoNames
  BY <1>1, <1>2, ScalarEffect
<1>4. r \in Seq(Frames) /\ f \in Frames /\ f.kind = "node"
  BY DEF Ready
<1>5. Fits(Flip(Levels(t)), "NothingInParticular", u.names, Answered(r), errs)
  BY <1>1, <1>3, <1>4, AnswerLeaf
<1>6. Covers(Append(r, f), Answered(r))
  BY <1>4, CallsCover
<1>7. Whole(t, Append(r, f), errs)
  BY <1>1 DEF Ready
<1> QED BY <1>3, <1>5, <1>6, <1>7, WholeAgain

\* An alias is, too.
LEMMA AliasWhole ==
  ASSUME NEW s, NEW r, NEW f, NEW errs, Ready(s, r, f, errs), NEW name \in Names,
         s.check => name \in s.anchors
  PROVE  Whole(EmitAlias(s, name), Answered(r), errs)
<1> PICK t : t = FlushMappingStart(s)
  OBVIOUS
<1> PICK u : u = EmitAlias(s, name)
  OBVIOUS
<1>1. /\ Ready(t, r, f, errs) /\ Sound(t) /\ Levels(t) \in Seq(Slots)
      /\ Fits(Levels(t), t.state, t.names, Append(r, f), errs)
      /\ t.state \notin {"CheckForTag", "CheckForDuplicateTag"}
  BY ReadyFlush
<1>2. u = ValueEnd(EmitLeaf(ValueStart(t), [Event("Alias") EXCEPT !.anchor = name]))
  BY DEF EmitAlias
<1>3. t.check => name \in t.anchors
  <2>1. Keeps(s, t)
    BY FlushRests DEF Ready, Whole, Sound
  <2> QED BY <2>1 DEF Keeps
<1>4. /\ Effect(t, u, Flip(Levels(t)), t.state)
      /\ Flip(Levels(t)) = <<>> => u.names = NoNames
  BY <1>1, <1>2, <1>3, AliasEffect
<1>5. r \in Seq(Frames) /\ f \in Frames /\ f.kind = "node"
  BY DEF Ready
<1>6. Fits(Flip(Levels(t)), t.state, u.names, Answered(r), errs)
  BY <1>1, <1>4, <1>5, AnswerLeaf
<1>7. Covers(Append(r, f), Answered(r))
  BY <1>5, CallsCover
<1>8. Whole(t, Append(r, f), errs)
  BY <1>1 DEF Ready
<1> QED BY <1>4, <1>6, <1>7, <1>8, WholeAgain

\* A value begins to serialize itself as a collection of one level, or of two.
LEMMA StartWhole ==
  ASSUME NEW s, NEW r, NEW f, NEW errs, Ready(s, r, f, errs), NEW g, Begun(g),
         NEW t, t = FlushMappingStart(s), Marked(g) => g.floor = t.depth, NEW L,
         L = Append(IF g.ends = 2 THEN Append(Flip(Levels(t)), "key") ELSE Flip(Levels(t)),
                    Slot(g, "given")),
         NEW u, NEW state, Effect(t, u, L, state),
         \/ state = "NothingInParticular"
         \/ state = "CheckForDuplicateTag" /\ Undecided(g) /\ g.step = "open"
  PROVE  Whole(u, Append(r, g), errs)
<1>1. /\ Ready(t, r, f, errs) /\ Sound(t) /\ Levels(t) \in Seq(Slots)
      /\ Fits(Levels(t), t.state, t.names, Append(r, f), errs)
      /\ t.state \notin {"CheckForTag", "CheckForDuplicateTag"}
  BY ReadyFlush
<1>2. r \in Seq(Frames) /\ f \in Frames /\ f.kind = "node" /\ g \in Frames
  BY DEF Ready, Begun, CallOK
<1>3. CallOK(g) /\ g.kind \notin Transparent /\ g.step \in {"open", "done"}
  BY DEF Begun
<1>4. L \in Seq(Slots)
  BY DEF Effect, Sound
<1> PICK L0 \in Seq(Slots) : L0 = Levels(t)
  BY <1>1
<1> PICK state0 : state0 = t.state
  OBVIOUS
<1> PICK names0 : names0 = t.names
  OBVIOUS
<1> PICK names1 : names1 = u.names
  OBVIOUS
<1>5. /\ Fits(L0, state0, names0, Append(r, f), errs)
      /\ state0 \notin {"CheckForTag", "CheckForDuplicateTag"}
      /\ L = Append(IF g.ends = 2 THEN Append(Flip(L0), "key") ELSE Flip(L0), Slot(g, "given"))
  BY <1>1
<1>9. Marked(g) => g.floor = Len(L0)
  BY <1>1, LevelsCount
<1>6. Fits(L, state, names1, Append(r, g), errs)
  <2>1. \/ state = "NothingInParticular"
        \/ state = "CheckForDuplicateTag" /\ Undecided(g) /\ g.step = "open"
    OBVIOUS
  <2> QED BY ONLY <1>2, <1>3, <1>4, <1>5, <1>9, <2>1, L0 \in Seq(Slots), Start
<1>7. Covers(Append(r, f), Append(r, g))
  BY <1>2, CallsCover
<1>8. Whole(t, Append(r, f), errs)
  BY <1>1 DEF Ready
<1> QED BY <1>6, <1>7, <1>8, WholeAgain

\* Mappings, sequences, and the variants that are a collection in a mapping.
LEMMA MappingBegins ==
  ASSUME NEW s, NEW r, NEW f, NEW errs, Ready(s, r, f, errs), NEW g, Begun(g),
         g.kind # "seq", g.ends = 1, Marked(g) => g.floor = FlushMappingStart(s).depth
  PROVE  /\ Whole(EmitMappingStart(s), Append(r, g), errs)
         /\ Effect(FlushMappingStart(s), EmitMappingStart(s),
                   Append(Flip(Levels(FlushMappingStart(s))), "key"), "NothingInParticular")
<1> PICK t : t = FlushMappingStart(s)
  OBVIOUS
<1>1. Sound(t) /\ Levels(t) \in Seq(Slots)
  BY ReadyFlush
<1>2. Slot(g, "given") = "key"
  BY DEF Begun, Slot
<1>3. Effect(t, EmitMappingStart(s), Append(Flip(Levels(t)), "key"), "NothingInParticular")
  BY <1>1, MappingEffect DEF EmitMappingStart
<1> PICK L : L = Append(Flip(Levels(t)), "key")
  OBVIOUS
<1>4. L = Append(IF g.ends = 2 THEN Append(Flip(Levels(t)), "key") ELSE Flip(Levels(t)),
                 Slot(g, "given"))
  BY <1>2
<1>6. Marked(g) => g.floor = t.depth
  OBVIOUS
<1>5. Whole(EmitMappingStart(s), Append(r, g), errs)
  BY ONLY <1>3, <1>4, <1>6, Ready(s, r, f, errs), Begun(g), t = FlushMappingStart(s),
          L = Append(Flip(Levels(t)), "key"), StartWhole
<1> QED BY <1>3, <1>5

LEMMA SequenceBegins ==
  ASSUME NEW s, NEW r, NEW f, NEW errs, Ready(s, r, f, errs), NEW g, Begun(g),
         g.kind = "seq", g.ends = 1
  PROVE  Whole(EmitSequenceStart(s), Append(r, g), errs)
<1> PICK t : t = FlushMappingStart(s)
  OBVIOUS
<1>1. Sound(t) /\ Levels(t) \in Seq(Slots)
  BY ReadyFlush
<1>2. Slot(g, "given") = "item"
  BY DEF Slot
<1>3. Effect(t, EmitSequenceStart(s), Append(Flip(Levels(t)), "item"), "NothingInParticular")
  BY <1>1, SequenceEffect DEF EmitSequenceStart
<1> PICK L : L = Append(Flip(Levels(t)), "item")
  OBVIOUS
<1>4. L = Append(IF g.ends = 2 THEN Append(Flip(Levels(t)), "key") ELSE Flip(Levels(t)),
                 Slot(g, "given"))
  BY <1>2
<1>5. Marked(g) => g.floor = t.depth
  BY DEF Marked
<1> QED
  BY ONLY <1>3, <1>4, <1>5, Ready(s, r, f, errs), Begun(g), t = FlushMappingStart(s),
          L = Append(Flip(Levels(t)), "item"), StartWhole

\* The mapping of a variant and the name in it.
LEMMA VariantEffect ==
  ASSUME NEW s, NEW r, NEW f, NEW errs, Ready(s, r, f, errs)
  PROVE  LET t == FlushMappingStart(s)
             v == EmitScalar(EmitMappingStart(s))
         IN  /\ Sound(t) /\ Levels(t) \in Seq(Slots)
             /\ Effect(t, v, Append(Flip(Levels(t)), "value"), "NothingInParticular")
             /\ FlushMappingStart(v) = v
<1> PICK t : t = FlushMappingStart(s)
  OBVIOUS
<1> PICK u : u = EmitMappingStart(s)
  OBVIOUS
<1> PICK v : v = EmitScalar(u)
  OBVIOUS
<1> PICK L : L = Flip(Levels(t))
  OBVIOUS
<1>1. Sound(t) /\ Levels(t) \in Seq(Slots) /\ L \in Seq(Slots)
  BY ReadyFlush, FlipLevels
<1>2. Effect(t, u, Append(L, "key"), "NothingInParticular")
  BY <1>1, MappingEffect DEF EmitMappingStart
<1>3. Sound(u) /\ Levels(u) = Append(L, "key") /\ u.state = "NothingInParticular"
  BY <1>2 DEF Effect
<1>4. FlushMappingStart(u) = u
  BY <1>3 DEF FlushMappingStart
<1>5. v = ValueEnd(Taken(EmitLeaf(ValueStart(u), NodeEvent(u, "Scalar"))))
  BY <1>4 DEF EmitScalar
<1>6. Effect(u, v, Flip(Append(L, "key")), "NothingInParticular")
  BY <1>3, <1>5, ScalarEffect
<1>7. Flip(Append(L, "key")) = Append(L, "value")
  BY <1>1, FlipAppend DEF Slots, Turned
<1>8. Effect(t, v, Append(L, "value"), "NothingInParticular")
  BY <1>2, <1>6, <1>7, EffectAgain
<1>9. FlushMappingStart(v) = v
  BY <1>8 DEF FlushMappingStart, Effect
<1> QED BY <1>1, <1>8, <1>9

LEMMA TupleVariantBegins ==
  ASSUME NEW s, NEW r, NEW f, NEW errs, Ready(s, r, f, errs), NEW g, Begun(g),
         g.kind = "seq", g.ends = 2
  PROVE  Whole(EmitSequenceStart(EmitScalar(EmitMappingStart(s))), Append(r, g), errs)
<1> PICK t : t = FlushMappingStart(s)
  OBVIOUS
<1> PICK v : v = EmitScalar(EmitMappingStart(s))
  OBVIOUS
<1> PICK u : u = EmitSequenceStart(v)
  OBVIOUS
<1> PICK F : F = Flip(Levels(t))
  OBVIOUS
<1>1. /\ Sound(t) /\ Levels(t) \in Seq(Slots) /\ F \in Seq(Slots)
      /\ Effect(t, v, Append(F, "value"), "NothingInParticular")
      /\ FlushMappingStart(v) = v
  BY VariantEffect, FlipLevels
<1>2. Sound(v) /\ Levels(v) = Append(F, "value")
  BY <1>1 DEF Effect
<1>3. Effect(v, u, Append(Flip(Levels(v)), "item"), "NothingInParticular")
  BY <1>1, <1>2, SequenceEffect DEF EmitSequenceStart
<1>4. Flip(Levels(v)) = Append(F, "key")
  BY <1>1, <1>2, FlipAppend DEF Slots, Turned
<1> PICK L : L = Append(Append(F, "key"), "item")
  OBVIOUS
<1>5. Effect(t, u, L, "NothingInParticular")
  BY <1>1, <1>3, <1>4, EffectAgain
<1>6. Slot(g, "given") = "item"
  BY DEF Slot
<1>7. L = Append(IF g.ends = 2 THEN Append(Flip(Levels(t)), "key") ELSE Flip(Levels(t)),
                 Slot(g, "given"))
  BY <1>6
<1>8. Marked(g) => g.floor = t.depth
  BY DEF Marked
<1> QED BY ONLY <1>5, <1>7, <1>8, Ready(s, r, f, errs), Begun(g), t = FlushMappingStart(s),
          u = EmitSequenceStart(v), v = EmitScalar(EmitMappingStart(s)), StartWhole

LEMMA StructVariantBegins ==
  ASSUME NEW s, NEW r, NEW f, NEW errs, Ready(s, r, f, errs), NEW g, Begun(g),
         g.kind = "struct", g.ends = 2
  PROVE  Whole(EmitMappingStart(EmitScalar(EmitMappingStart(s))), Append(r, g), errs)
<1> PICK t : t = FlushMappingStart(s)
  OBVIOUS
<1> PICK v : v = EmitScalar(EmitMappingStart(s))
  OBVIOUS
<1> PICK u : u = EmitMappingStart(v)
  OBVIOUS
<1> PICK F : F = Flip(Levels(t))
  OBVIOUS
<1>1. /\ Sound(t) /\ Levels(t) \in Seq(Slots) /\ F \in Seq(Slots)
      /\ Effect(t, v, Append(F, "value"), "NothingInParticular")
      /\ FlushMappingStart(v) = v
  BY VariantEffect, FlipLevels
<1>2. Sound(v) /\ Levels(v) = Append(F, "value")
  BY <1>1 DEF Effect
<1>3. Effect(v, u, Append(Flip(Levels(v)), "key"), "NothingInParticular")
  BY <1>1, <1>2, MappingEffect DEF EmitMappingStart
<1>4. Flip(Levels(v)) = Append(F, "key")
  BY <1>1, <1>2, FlipAppend DEF Slots, Turned
<1> PICK L : L = Append(Append(F, "key"), "key")
  OBVIOUS
<1>5. Effect(t, u, L, "NothingInParticular")
  BY <1>1, <1>3, <1>4, EffectAgain
<1>6. Slot(g, "given") = "key"
  BY DEF Begun, Slot
<1>7. L = Append(IF g.ends = 2 THEN Append(Flip(Levels(t)), "key") ELSE Flip(Levels(t)),
                 Slot(g, "given"))
  BY <1>6
<1>8. Marked(g) => g.floor = t.depth
  BY DEF Marked
<1> QED BY ONLY <1>5, <1>7, <1>8, Ready(s, r, f, errs), Begun(g), t = FlushMappingStart(s),
          u = EmitMappingStart(v), v = EmitScalar(EmitMappingStart(s)), StartWhole

\* A map of one entry begins, after a tag or not.
LEMMA TaggedMapBegins ==
  ASSUME NEW s, NEW r, NEW f, NEW errs, Ready(s, r, f, errs),
         s.state = "FoundTag",
         NEW g, Begun(g), g.kind = "map", g.ends = 1, g.step = "open", ~g.begun,
         Marked(g) => g.floor = s.depth
  PROVE  Whole([EmitMappingStart(s) EXCEPT !.state = "CheckForDuplicateTag"], Append(r, g), errs)
<1> PICK t : t = FlushMappingStart(s)
  OBVIOUS
<1> PICK u : u = EmitMappingStart(s)
  OBVIOUS
<1> PICK v : v = [u EXCEPT !.state = "CheckForDuplicateTag"]
  OBVIOUS
<1> PICK L : L = Append(Flip(Levels(t)), "key")
  OBVIOUS
<1>6. t = s
  BY DEF FlushMappingStart
<1>7. Marked(g) => g.floor = t.depth
  BY <1>6
<1>1. Effect(t, u, L, "NothingInParticular")
  BY <1>7, MappingBegins
<1>2. Effect(u, v, L, "CheckForDuplicateTag")
  BY <1>1, StateEffect DEF Effect, States
<1>3. Effect(t, v, L, "CheckForDuplicateTag")
  BY <1>1, <1>2, EffectAgain
<1>4. Slot(g, "given") = "key" /\ Undecided(g) /\ g.step = "open"
  BY DEF Slot, Undecided
<1>5. L = Append(IF g.ends = 2 THEN Append(Flip(Levels(t)), "key") ELSE Flip(Levels(t)),
                 Slot(g, "given"))
  BY <1>4
<1> QED BY ONLY <1>3, <1>4, <1>5, <1>7, Ready(s, r, f, errs), Begun(g), t = FlushMappingStart(s),
          v = [u EXCEPT !.state = "CheckForDuplicateTag"], u = EmitMappingStart(s), StartWhole

LEMMA MapMayBeTag ==
  ASSUME NEW s, NEW r, NEW f, NEW errs, Ready(s, r, f, errs), s.state # "CheckForTag",
         NEW g, CallOK(g), g.kind = "map", g.one, g.step = "open", ~g.begun,
         Marked(g) => g.floor = s.depth
  PROVE  Whole([s EXCEPT !.state = "CheckForTag"], Append(r, g), errs)
<1> PICK t : t = [s EXCEPT !.state = "CheckForTag"]
  OBVIOUS
<1>1. /\ Sound(s) /\ Levels(s) \in Seq(Slots) /\ Fits(Levels(s), s.state, s.names, Append(r, f), errs)
      /\ r \in Seq(Frames) /\ f \in Frames /\ f.kind = "node" /\ Whole(s, Append(r, f), errs)
  BY DEF Ready, Whole, Sound
<1>2. Effect(s, t, Levels(s), "CheckForTag")
  BY <1>1, StateEffect DEF States
<1>3. t.names = s.names
  BY <1>1, LevelsCount DEF Serializers
<1>6. Marked(g) => g.floor = Len(Levels(s))
  BY <1>1, LevelsCount
<1>4. Fits(Levels(s), "CheckForTag", t.names, Append(r, g), errs)
  BY <1>1, <1>3, <1>6, MaybeTag
<1>5. Covers(Append(r, f), Append(r, g))
  BY <1>1, CallsCover DEF CallOK
<1> QED BY <1>1, <1>2, <1>4, <1>5, WholeAgain

\* A wrapper is entered.
LEMMA WrapWhole ==
  ASSUME NEW s, NEW r, NEW f, NEW errs, Ready(s, r, f, errs),
         NEW g, CallOK(g), g.step \in Inner, g.kind \in Transparent,
         Marked(g) => g.floor = s.depth,
         NEW nd, CallOK(nd), nd.kind = "node",
         NEW t, Sound(t), Levels(t) = Levels(s), t.state = s.state,
         t.flowSeq => s.flowSeq \/ g.kind = "flowSeq",
         t.flowMap => s.flowMap \/ g.kind = "flowMap"
  PROVE  Whole(t, Append(Append(r, g), nd), errs)
<1>1. /\ Levels(s) \in Seq(Slots) /\ Fits(Levels(s), s.state, s.names, Append(r, f), errs)
      /\ r \in Seq(Frames) /\ f \in Frames /\ f.kind = "node"
      /\ Styled(s, Append(r, f)) /\ g \in Frames /\ nd \in Frames
  BY DEF Ready, Whole, Sound, CallOK
<1>6. Marked(g) => g.floor = Len(Levels(s))
  BY LevelsCount DEF Ready, Whole
<1>2. Fits(Levels(t), t.state, t.names, Append(Append(r, g), nd), errs)
  BY <1>1, <1>6, Wrap
<1>3. Append(r, g) \in Seq(Frames)
  BY <1>1
<1>4. \A kind \in {"flowSeq", "flowMap"} :
        Has(Append(Append(r, g), nd), kind) <=> Has(Append(r, f), kind) \/ g.kind = kind
  <2>1. SUFFICES ASSUME NEW kind \in {"flowSeq", "flowMap"}
                 PROVE  Has(Append(Append(r, g), nd), kind) <=>
                          Has(Append(r, f), kind) \/ g.kind = kind
    OBVIOUS
  <2>2. Has(Append(Append(r, g), nd), kind) <=> Has(Append(r, g), kind) \/ nd.kind = kind
    BY ONLY <1>1, <1>3, AppendHas
  <2>3. Has(Append(r, g), kind) <=> Has(r, kind) \/ g.kind = kind
    BY ONLY <1>1, AppendHas
  <2>4. Has(Append(r, f), kind) <=> Has(r, kind) \/ f.kind = kind
    BY ONLY <1>1, AppendHas
  <2>5. nd.kind # kind /\ f.kind # kind
    BY <1>1
  <2> QED BY <2>2, <2>3, <2>4, <2>5
<1>5. Styled(t, Append(Append(r, g), nd))
  BY <1>1, <1>4 DEF Styled
<1> QED BY <1>2, <1>5 DEF Whole

LEMMA RunningFits ==
  ASSUME NEW s, NEW r, NEW f, NEW errs, Running(s, r, f, errs)
  PROVE  /\ Sound(s) /\ Levels(s) \in Seq(Slots)
         /\ Fits(Levels(s), s.state, s.names, Append(r, f), errs)
         /\ r \in Seq(Frames) /\ f \in Frames /\ f.kind \notin Transparent
         /\ f.kind \notin {"flowSeq", "flowMap"} /\ Whole(s, Append(r, f), errs)
         /\ f.kind \in {"seq", "struct", "variant"} =>
              s.state = "NothingInParticular" /\ FlushMappingStart(s) = s
BY CallState DEF Running, Whole, Sound, Transparent, FlushMappingStart

\* A sequence goes on to an item, a map to a key or a value.
LEMMA ItemWhole ==
  ASSUME NEW s, NEW r, NEW f, NEW errs, Running(s, r, f, errs), f.kind \in {"seq", "map"},
         NEW g, CallOK(g), g.step \in Inner, g.kind = f.kind, g.ends = f.ends, g.one = f.one,
         g.tag = f.tag, g.floor = f.floor,
         f.kind = "map" =>
           /\ g.begun = f.begun
           /\ \/ /\ f.step = "open" /\ g.step = "key"
                 /\ f.one => ~f.begun
                 /\ s.state = "CheckForTag" => g.entry
              \/ /\ f.step = "keyed" /\ g.step = "value"
                 /\ g.tagged <=> f.entry /\ s.state = "FoundTag",
         NEW nd, CallOK(nd), nd.kind = "node"
  PROVE  Whole(s, Append(Append(r, g), nd), errs)
<1> PICK L \in Seq(Slots) : L = Levels(s)
  BY RunningFits
<1> PICK state : state = s.state
  OBVIOUS
<1> PICK names : names = s.names
  OBVIOUS
<1>1. /\ Sound(s) /\ Fits(L, state, names, Append(r, f), errs)
      /\ r \in Seq(Frames) /\ f \in Frames /\ f.kind \notin Transparent
      /\ f.kind \notin {"flowSeq", "flowMap"} /\ Whole(s, Append(r, f), errs)
  BY RunningFits
<1>2. L = IF f.kind \in {"struct", "variant"} THEN Flip(L) ELSE L
  OBVIOUS
<1>3. f.kind = "map" =>
        /\ g.begun = f.begun
        /\ \/ /\ f.step = "open" /\ g.step = "key"
              /\ f.one => ~f.begun
              /\ state = "CheckForTag" => g.entry
           \/ /\ f.step = "keyed" /\ g.step = "value"
              /\ g.tagged <=> f.entry /\ state = "FoundTag"
  OBVIOUS
<1>4. /\ CallOK(g) /\ g.step \in Inner /\ g.kind = f.kind /\ g.ends = f.ends /\ g.one = f.one
      /\ g.tag = f.tag /\ g.floor = f.floor
      /\ CallOK(nd) /\ nd.kind = "node" /\ g \in Frames /\ nd \in Frames
  BY DEF CallOK
<1>5. Fits(L, state, names, Append(Append(r, g), nd), errs)
  BY ONLY <1>1, <1>2, <1>3, <1>4, L \in Seq(Slots), Descend
<1>6. Covers(Append(r, f), Append(Append(r, g), nd))
  BY <1>1, <1>4, CallsCover
<1>7. Effect(s, s, L, state)
  BY <1>1 DEF Effect
<1> QED BY <1>1, <1>5, <1>6, <1>7, WholeAgain

\* A struct goes on to its next field, a variant to its value.
LEMMA FieldWhole ==
  ASSUME NEW s, NEW r, NEW f, NEW errs, Running(s, r, f, errs), f.kind \in {"struct", "variant"},
         NEW g, CallOK(g), g.step \in Inner, g.kind = f.kind, g.ends = f.ends, g.one = f.one,
         g.tag = f.tag, g.floor = f.floor,
         NEW nd, CallOK(nd), nd.kind = "node"
  PROVE  Whole(EmitScalar(s), Append(Append(r, g), nd), errs)
<1> PICK L \in Seq(Slots) : L = Levels(s)
  BY RunningFits
<1> PICK u : u = EmitScalar(s)
  OBVIOUS
<1> PICK state : state = s.state
  OBVIOUS
<1> PICK names : names = s.names
  OBVIOUS
<1> PICK names1 : names1 = u.names
  OBVIOUS
<1> PICK L1 : L1 = Flip(L)
  OBVIOUS
<1>1. /\ Sound(s) /\ Fits(L, state, names, Append(r, f), errs)
      /\ r \in Seq(Frames) /\ f \in Frames /\ f.kind \notin Transparent
      /\ f.kind \notin {"flowSeq", "flowMap"} /\ Whole(s, Append(r, f), errs)
      /\ state = "NothingInParticular" /\ FlushMappingStart(s) = s
  BY RunningFits
<1>2. Effect(s, u, L1, "NothingInParticular")
  BY <1>1, ScalarEffect DEF EmitScalar
<1>3. L1 = (IF f.kind \in {"struct", "variant"} THEN Flip(L) ELSE L) /\ f.kind # "map"
  OBVIOUS
<1>4. /\ CallOK(g) /\ g.step \in Inner /\ g.kind = f.kind /\ g.ends = f.ends /\ g.one = f.one
      /\ g.tag = f.tag /\ g.floor = f.floor
      /\ CallOK(nd) /\ nd.kind = "node" /\ g \in Frames /\ nd \in Frames
  BY DEF CallOK
<1>5. Fits(L1, state, names1, Append(Append(r, g), nd), errs)
  BY ONLY <1>1, <1>3, <1>4, L \in Seq(Slots), Descend
<1>6. Covers(Append(r, f), Append(Append(r, g), nd))
  BY <1>1, <1>4, CallsCover
<1> QED BY <1>1, <1>2, <1>5, <1>6, WholeAgain

\* An entry of a map goes on to its next call.
LEMMA EntryWhole ==
  ASSUME NEW s, NEW r, NEW f, NEW errs, Running(s, r, f, errs), f.kind = "map",
         NEW g, CallOK(g), g.kind = "map", g.ends = f.ends, g.one = f.one,
         g.tag = f.tag, g.floor = f.floor,
         NEW t, NEW state1, Effect(s, t, Levels(s), state1), t.names = s.names,
         \/ /\ f.step = "open" /\ ~f.begun /\ s.state = "CheckForTag"
            /\ g.step = "keyed" /\ ~g.begun /\ g.entry /\ state1 = "FoundTag"
         \/ /\ f.step = "valued" /\ g.step = "open" /\ g.begun
            /\ state1 = IF f.tagged THEN "AlreadyTagged" ELSE s.state
  PROVE  Whole(t, Append(r, g), errs)
<1> PICK L \in Seq(Slots) : L = Levels(s)
  BY RunningFits
<1> PICK state : state = s.state
  OBVIOUS
<1> PICK names : names = s.names
  OBVIOUS
<1>1. /\ Sound(s) /\ Fits(L, state, names, Append(r, f), errs)
      /\ r \in Seq(Frames) /\ f \in Frames
      /\ f.kind \notin {"flowSeq", "flowMap"} /\ Whole(s, Append(r, f), errs)
  BY RunningFits
<1>2. \/ /\ f.step = "open" /\ ~f.begun /\ state = "CheckForTag"
         /\ g.step = "keyed" /\ ~g.begun /\ g.entry /\ state1 = "FoundTag"
      \/ /\ f.step = "valued" /\ g.step = "open" /\ g.begun
         /\ state1 = IF f.tagged THEN "AlreadyTagged" ELSE state
  OBVIOUS
<1>3. /\ CallOK(g) /\ g.kind = "map" /\ g.ends = f.ends /\ g.one = f.one /\ f.kind = "map"
      /\ g.tag = f.tag /\ g.floor = f.floor /\ g \in Frames
  BY DEF CallOK
<1>4. Fits(L, state1, names, Append(r, g), errs)
  BY ONLY <1>1, <1>2, <1>3, L \in Seq(Slots), EntryGoesOn
<1>5. Covers(Append(r, f), Append(r, g))
  BY <1>1, <1>3, CallsCover
<1> QED BY <1>1, <1>4, <1>5, WholeAgain

\* The end of a collection, and of the mapping around it.
LEMMA EndWhole ==
  ASSUME NEW s, NEW r, NEW f, NEW errs, Running(s, r, f, errs),
         f.kind \in {"seq", "struct", "variant"}, f.step \in {"open", "done"},
         NEW t, t = IF f.kind = "seq" THEN EmitSequenceEnd(s) ELSE EmitMappingEnd(s)
  PROVE  Whole(IF f.ends = 2 THEN EmitMappingEnd(t) ELSE t, Answered(r), errs)
<1>1. /\ Sound(s) /\ Levels(s) \in Seq(Slots)
      /\ Fits(Levels(s), s.state, s.names, Append(r, f), errs)
      /\ r \in Seq(Frames) /\ f \in Frames /\ f.kind \notin Transparent /\ f.kind # "map"
      /\ f.kind \notin {"flowSeq", "flowMap"} /\ Whole(s, Append(r, f), errs)
      /\ s.state = "NothingInParticular"
  BY RunningFits
<1>2. \E L1 \in Seq(Slots) :
        /\ Levels(s) = Append(IF f.ends = 2 THEN Append(L1, "key") ELSE L1, Slot(f, "given"))
        /\ \A names1 : (L1 = <<>> => names1 = NoNames) =>
             Fits(L1, "NothingInParticular", names1, Answered(r), errs)
  BY <1>1, AnswerEnd
<1>3. PICK L1 \in Seq(Slots) :
        /\ Levels(s) = Append(IF f.ends = 2 THEN Append(L1, "key") ELSE L1, Slot(f, "given"))
        /\ \A names1 : (L1 = <<>> => names1 = NoNames) =>
             Fits(L1, "NothingInParticular", names1, Answered(r), errs)
  BY <1>2
<1> PICK type \in {"SequenceEnd", "MappingEnd"} :
      type = IF f.kind = "seq" THEN "SequenceEnd" ELSE "MappingEnd"
  OBVIOUS
<1> PICK slot : slot = IF type = "SequenceEnd" THEN "item" ELSE "key"
  OBVIOUS
<1>4. slot = Slot(f, "given")
  BY DEF Slot
<1>5. t = ValueEnd(EmitEnd(s, Event(type)))
  BY DEF EmitSequenceEnd, EmitMappingEnd
<1> PICK L2 : L2 = IF f.ends = 2 THEN Append(L1, "key") ELSE L1
  OBVIOUS
<1>6. L2 \in Seq(Slots)
  BY FlipAppend DEF Slots
<1>7. Effect(s, t, L2, s.state) /\ (L2 = <<>> => t.names = NoNames)
  BY <1>1, <1>3, <1>4, <1>5, <1>6, EndEffect
<1>8. Covers(Append(r, f), Answered(r))
  BY <1>1, CallsCover
<1>9. CASE f.ends = 2
  <2> PICK u : u = EmitMappingEnd(t)
    OBVIOUS
  <2>1. Sound(t) /\ Levels(t) = Append(L1, "key") /\ t.state = "NothingInParticular"
    BY <1>1, <1>7, <1>9 DEF Effect
  <2>2. Effect(t, u, L1, "NothingInParticular") /\ (L1 = <<>> => u.names = NoNames)
    BY <2>1, EndEffect DEF EmitMappingEnd
  <2>3. Fits(L1, "NothingInParticular", u.names, Answered(r), errs)
    BY <1>3, <2>2
  <2>4. Effect(s, u, L1, "NothingInParticular")
    BY <1>7, <2>2, EffectAgain
  <2> QED BY <1>1, <1>8, <1>9, <2>3, <2>4, WholeAgain
<1>10. CASE f.ends # 2
  <2>1. Effect(s, t, L1, "NothingInParticular") /\ (L1 = <<>> => t.names = NoNames)
    BY <1>1, <1>7, <1>10
  <2>2. Fits(L1, "NothingInParticular", t.names, Answered(r), errs)
    BY <1>3, <2>1
  <2> QED BY <1>1, <1>8, <1>10, <2>1, <2>2, WholeAgain
<1> QED BY <1>9, <1>10

\* The end of a map, which a tag does not have.
LEMMA MapEndWhole ==
  ASSUME NEW r, NEW f, Running(ser, r, f, errors), f.kind = "map", f.step = "open",
         f.one => f.begun
  PROVE  Whole(MapEnded, Answered(r), errors)
<1> PICK L \in Seq(Slots) : L = Levels(ser)
  BY RunningFits
<1>1. /\ Sound(ser) /\ Fits(L, ser.state, ser.names, Append(r, f), errors)
      /\ r \in Seq(Frames) /\ f \in Frames /\ f.kind \notin Transparent
      /\ f.kind \notin {"flowSeq", "flowMap"} /\ Whole(ser, Append(r, f), errors)
  BY RunningFits
<1>2. f.ends # 2
  BY <1>1, CallState DEF CallOK
<1>3. Slot(f, "given") = "key"
  BY DEF Slot
<1>4. Covers(Append(r, f), Answered(r))
  BY <1>1, CallsCover
<1> PICK u : u = MapEnded
  OBVIOUS
<1>5. \/ /\ ser.state = "AlreadyTagged" /\ f.kind = "map"
         /\ Fits(L, "NothingInParticular", ser.names, Answered(r), errors)
      \/ /\ \/ ser.state = "NothingInParticular"
            \/ ser.state = "CheckForDuplicateTag" /\ f.kind = "map"
         /\ \E L1 \in Seq(Slots) :
              /\ L = Append(IF f.ends = 2 THEN Append(L1, "key") ELSE L1, Slot(f, "given"))
              /\ \A names1 : (L1 = <<>> => names1 = NoNames) =>
                   Fits(L1, "NothingInParticular", names1, Answered(r), errors)
  <2> PICK state : state = ser.state
    OBVIOUS
  <2> PICK names : names = ser.names
    OBVIOUS
  <2> PICK errs : errs = errors
    OBVIOUS
  <2>1. Fits(L, state, names, Append(r, f), errs)
    BY <1>1
  <2>2. f.kind = "map" => f.step = "open" /\ (f.one => f.begun)
    OBVIOUS
  <2>3. r \in Seq(Frames) /\ f \in Frames /\ f.kind \notin Transparent
    BY <1>1
  <2>4. \/ /\ state = "AlreadyTagged" /\ f.kind = "map"
           /\ Fits(L, "NothingInParticular", names, Answered(r), errs)
        \/ /\ \/ state = "NothingInParticular"
              \/ state = "CheckForDuplicateTag" /\ f.kind = "map"
           /\ \E L1 \in Seq(Slots) :
                /\ L = Append(IF f.ends = 2 THEN Append(L1, "key") ELSE L1, Slot(f, "given"))
                /\ \A names1 : (L1 = <<>> => names1 = NoNames) =>
                     Fits(L1, "NothingInParticular", names1, Answered(r), errs)
    BY ONLY <2>1, <2>2, <2>3, L \in Seq(Slots), AnswerEnd
  <2> QED BY <2>4
<1>6. CASE /\ ser.state = "AlreadyTagged"
           /\ Fits(L, "NothingInParticular", ser.names, Answered(r), errors)
  <2>1. u = [ser EXCEPT !.state = "NothingInParticular"]
    BY <1>6 DEF MapEnded
  <2>2. Effect(ser, u, L, "NothingInParticular")
    BY <1>1, <2>1, StateEffect DEF States
  <2>3. u.names = ser.names
    BY <1>1, <2>1, LevelsCount DEF Serializers
  <2> QED BY <1>1, <1>4, <1>6, <2>2, <2>3, WholeAgain
<1>7. ASSUME ser.state \in {"NothingInParticular", "CheckForDuplicateTag"},
             NEW L1 \in Seq(Slots), L = Append(L1, "key"),
             \A names1 : (L1 = <<>> => names1 = NoNames) =>
               Fits(L1, "NothingInParticular", names1, Answered(r), errors)
      PROVE  Whole(u, Answered(r), errors)
  <2> PICK t : t = EmitMappingEnd(ser)
    OBVIOUS
  <2>1. u = [t EXCEPT !.state = "NothingInParticular"]
    BY <1>7 DEF MapEnded
  <2>2. Effect(ser, t, L1, ser.state) /\ (L1 = <<>> => t.names = NoNames)
    BY <1>1, <1>7, EndEffect DEF EmitMappingEnd
  <2>3. Sound(t) /\ Levels(t) = L1
    BY <2>2 DEF Effect
  <2>4. Effect(t, u, L1, "NothingInParticular")
    BY <2>1, <2>3, StateEffect DEF States
  <2>5. u.names = t.names
    BY <2>1, <2>3, LevelsCount DEF Serializers
  <2>6. Effect(ser, u, L1, "NothingInParticular")
    BY <2>2, <2>4, EffectAgain
  <2>7. Fits(L1, "NothingInParticular", u.names, Answered(r), errors)
    BY <1>7, <2>2, <2>5
  <2> QED BY <1>1, <1>4, <2>6, <2>7, WholeAgain
<1> QED BY <1>2, <1>3, <1>5, <1>6, <1>7

\* What a method does, and what an error does.
LEMMA DoWhole ==
  ASSUME NEW s, NEW calls, Whole(s, calls, errors), Do(s, calls)
  PROVE  Whole(ser, stack, errors)'
<1>1. ~s.failed
  BY DEF Whole, Sound
<1>2. ser' = s /\ stack' = calls /\ errors' = errors
  BY <1>1 DEF Do
<1> QED BY <1>2

LEMMA AbortWhole ==
  ASSUME Sound(ser), ser.state # "AlreadyTagged", NEW kind, Abort(kind)
  PROVE  Whole(ser, stack, errors)'
<1> PICK t : t = [ser EXCEPT !.flowSeq = FALSE, !.flowMap = FALSE]
  OBVIOUS
<1> PICK errs : errs = errors \cup {kind}
  OBVIOUS
<1>1. ser' = t /\ stack' = <<>> /\ errors' = errs
  BY DEF Abort
<1>2. /\ t \in Serializers /\ SameDocument(ser, t) /\ t.state = ser.state
      /\ ~t.flowSeq /\ ~t.flowMap
  <2>1. ser \in Serializers
    BY LevelsCount
  <2> QED BY ONLY <2>1, t = [ser EXCEPT !.flowSeq = FALSE, !.flowMap = FALSE]
          DEF Serializers, SameDocument
<1>3. Resting(t)
  BY <1>2, Restated DEF Sound
<1>4. Sound(t) /\ Levels(t) \in Seq(Slots)
  BY <1>2, <1>3 DEF Sound, SameDocument, Levels
<1>5. errs # {}
  OBVIOUS
<1>6. Fits(Levels(t), t.state, t.names, <<>>, errs)
  BY <1>2, <1>4, <1>5, NoCalls
<1>7. Whole(t, <<>>, errs)
  BY <1>2, <1>4, <1>6 DEF Whole, Styled
<1> QED BY <1>1, <1>7

-----------------------------------------------------------------------------
(* The levels and the calls, step by step.                                 *)

\* The innermost call.
LEMMA InnermostCall ==
  ASSUME CallsOK, stack # <<>>
  PROVE  LET r == ButLast(stack)
         IN  /\ r \in Seq(Frames) /\ Top \in Frames /\ stack = Append(r, Top)
             /\ Returned = Answered(r)
             /\ \A g : Instead(g) = Append(r, g)
             /\ \A g : Inside(g) = Append(Append(r, g), Frame("node"))
<1>1. stack \in Seq(Frames)
  BY DEF CallsOK
<1> PICK p \in Nat : Len(stack) = p + 1
  <2>1. Len(stack) - 1 \in Nat /\ Len(stack) = Len(stack) - 1 + 1
    BY <1>1
  <2> QED BY <2>1
<1>2. Top = stack[p + 1]
  BY DEF Top, LastOf
<1>3. /\ ButLast(stack) \in Seq(Frames) /\ stack[p + 1] \in Frames
      /\ stack = Append(ButLast(stack), stack[p + 1])
  BY ONLY <1>1, p \in Nat, Len(stack) = p + 1, LastCall
<1>4. Returned = Answered(ButLast(stack))
  BY DEF Returned, Answered
<1> QED BY <1>2, <1>3, <1>4 DEF Instead, Inside

\* A call that begins.
LEMMA NewCall ==
  ASSUME CallsOK, NEW kind \in Kinds
  PROVE  LET g == Frame(kind)
         IN  /\ g \in Frames /\ g.kind = kind /\ g.step = "open" /\ g.ends = 1
             /\ ~g.one /\ ~g.begun /\ g.tag = NoTag /\ g.floor = ser.depth
             /\ kind \in {"node", "seq", "map", "struct"} => CallOK(g)
<1> PICK g : g = Frame(kind)
  OBVIOUS
<1>1. g \in Frames
  BY FrameTypes
<1>2. /\ g.kind = kind /\ g.step = "open" /\ g.ends = 1 /\ ~g.one /\ ~g.begun
      /\ g.tag = NoTag /\ g.floor = ser.depth
  BY DEF Frame
<1>3. kind \in {"node", "seq", "map", "struct"} => "open" \in StepsOf(kind)
  BY DEF StepsOf
<1> QED BY <1>1, <1>2, <1>3 DEF CallOK

\* A call in another step.
LEMMA NextCall ==
  ASSUME NEW f, CallOK(f), NEW step \in StepsOf(f.kind),
         f.kind = "map" /\ f.one /\ step # "open" => ~f.begun
  PROVE  LET g == [f EXCEPT !.step = step]
         IN  /\ CallOK(g) /\ g.step = step /\ g.kind = f.kind /\ g.ends = f.ends
             /\ g.one = f.one /\ g.begun = f.begun /\ g.tagged = f.tagged /\ g.entry = f.entry
             /\ g.tag = f.tag /\ g.floor = f.floor
<1> PICK g : g = [f EXCEPT !.step = step]
  OBVIOUS
<1>1. f \in Frames /\ step \in {"open", "key", "keyed", "value", "valued", "done"}
  BY DEF CallOK, StepsOf
<1>2. /\ g \in Frames /\ g.step = step /\ g.kind = f.kind /\ g.ends = f.ends
      /\ g.one = f.one /\ g.begun = f.begun /\ g.tagged = f.tagged /\ g.entry = f.entry
      /\ g.tag = f.tag /\ g.floor = f.floor
  BY ONLY <1>1, g = [f EXCEPT !.step = step] DEF Frames
<1> QED BY <1>2 DEF CallOK

\* The name of a value is pending for what is in it.
LEMMA AnchoredWhole ==
  ASSUME CallsOK, NEW r, NEW f, Ready(ser, r, f, errors), stack # <<>>, r = ButLast(stack),
         NEW s, s \in Serializers, SameDocument(ser, s), SameStyles(ser, s), s.state = ser.state,
         NEW name \in Names, Anchored(s, name)
  PROVE  Whole(ser, stack, errors)'
<1> PICK t : t = [s EXCEPT !.pending = name]
  OBVIOUS
<1> PICK g0 \in Frames : g0 = Frame("anchor")
  BY NewCall DEF Kinds
<1> PICK late \in BOOLEAN : late = (ser.state = "CheckForTag")
  OBVIOUS
<1> PICK g : g = [g0 EXCEPT !.step = "value", !.name = name, !.late = late]
  OBVIOUS
<1> PICK nd : nd = Frame("node")
  OBVIOUS
<1>1. CallOK(nd) /\ nd.kind = "node"
  BY NewCall DEF Kinds
<1>2. g0.kind = "anchor" /\ g0.ends = 1 /\ g0.floor = ser.depth
  BY NewCall DEF Kinds
<1>3. /\ g \in Frames /\ g.kind = "anchor" /\ g.step = "value" /\ g.ends = 1
      /\ g.floor = ser.depth
  BY ONLY <1>2, g0 \in Frames, name \in Names, late \in BOOLEAN,
          g = [g0 EXCEPT !.step = "value", !.name = name, !.late = late] DEF Frames
<1>4. CallOK(g) /\ g.step \in Inner /\ g.kind \in Transparent
  BY <1>3 DEF CallOK, StepsOf, Inner, Transparent
<1>5. /\ t \in Serializers /\ SameDocument(s, t) /\ SameStyles(s, t) /\ t.state = s.state
  BY ONLY s \in Serializers, name \in Names, t = [s EXCEPT !.pending = name]
     DEF Serializers, SameDocument, SameStyles
<1>6. SameDocument(ser, t) /\ SameStyles(ser, t) /\ t.state = ser.state
  BY <1>5 DEF SameDocument, SameStyles
<1>7. Sound(ser)
  BY DEF Ready, Whole
<1>8. Sound(t) /\ Levels(t) = Levels(ser) /\ t.flowSeq = ser.flowSeq /\ t.flowMap = ser.flowMap
  BY <1>5, <1>6, <1>7, OtherEffect DEF Effect, SameStyles
<1>9. Whole(t, Append(Append(r, g), nd), errors)
  BY <1>1, <1>3, <1>4, <1>6, <1>8, WrapWhole
<1>10. Do(t, Append(Append(r, g), nd))
  BY InnermostCall DEF Anchored
<1> QED BY <1>9, <1>10, DoWhole

LEMMA AliasedWhole ==
  ASSUME CallsOK, NEW r, NEW f, Ready(ser, r, f, errors), stack # <<>>, r = ButLast(stack),
         NEW name \in Names, Aliased(name)
  PROVE  Whole(ser, stack, errors)'
<1>1. CASE ser.check /\ name \notin ser.anchors
  <2>1. Sound(ser) /\ ser.state # "AlreadyTagged"
    BY CallState DEF Ready, Whole, Transparent
  <2>2. Abort("anchor")
    BY <1>1 DEF Aliased
  <2> QED BY <2>1, <2>2, AbortWhole
<1>2. CASE ~(ser.check /\ name \notin ser.anchors)
  <2>1. Whole(EmitAlias(ser, name), Answered(r), errors)
    BY <1>2, AliasWhole
  <2>2. Do(EmitAlias(ser, name), Answered(r))
    BY <1>2, InnermostCall DEF Aliased
  <2> QED BY <2>1, <2>2, DoWhole
<1> QED BY <1>1, <1>2

\* No step of the caller or of a value leaves the calls without their levels.
LEMMA ShapeStep ==
  ASSUME CallsOK, Histories, ShapeOK, Next, ~twisted'
  PROVE  Whole(ser, stack, errors)'
<1>1. ~twisted
  BY DEF Histories, Next, Straight, SerializeValue, SerializeScalar, CollectStr,
    SerializeSeq, SerializeMap, SerializeTagged, SerializeStruct, SerializeNewtypeVariant,
    SerializeTupleVariant, SerializeStructVariant, SerializeAnchor, SerializeAlias,
    SerializeRc, SerializeFlow, Fail, NextElement, NextField, NextKey, TagKey, NextValue,
    EndEntry, EndSeq, EndStruct, EndMap, EndVariant, EndAnchor, EndFlow, Anchored, Aliased
<1>2. Whole(ser, stack, errors) /\ Early(ser.state, stack)
  BY <1>1 DEF ShapeOK
<1> PICK r : r = ButLast(stack)
  OBVIOUS
<1> PICK f : f = Top
  OBVIOUS
<1> PICK nd : nd = Frame("node")
  OBVIOUS
<1>3. CallOK(nd) /\ nd.kind = "node"
  BY NewCall DEF Kinds
<1>4. stack # <<>> =>
        /\ r \in Seq(Frames) /\ f \in Frames /\ stack = Append(r, f)
        /\ Returned = Answered(r)
        /\ \A g : Instead(g) = Append(r, g)
        /\ \A g : Inside(g) = Append(Append(r, g), nd)
  BY InnermostCall
<1>5. Sound(ser) /\ Levels(ser) \in Seq(Slots) /\ ser \in Serializers
  BY <1>2, LevelsCount DEF Whole
<1>6. stack # <<>> => CallOK(f)
  BY <1>2, <1>4, CallState DEF Whole
<1>7. In("node", "open") => stack # <<>> /\ Ready(ser, r, f, errors)
  BY <1>2, <1>4 DEF In, Ready
<1>8. stack # <<>> /\ f.kind \notin Transparent => Running(ser, r, f, errors)
  BY <1>2, <1>4 DEF Running
<1>9. "node" \in Kinds /\ "seq" \in Kinds /\ "map" \in Kinds /\ "struct" \in Kinds
      /\ "variant" \in Kinds /\ "flowSeq" \in Kinds /\ "flowMap" \in Kinds
  BY DEF Kinds
<1>10. ASSUME SerializeValue PROVE Whole(ser, stack, errors)'
  <2>1. ser' = ser /\ errors' = errors /\ stack' = <<nd>> /\ stack = <<>>
    BY <1>10 DEF SerializeValue
  <2>2. Fits(Levels(ser), ser.state, ser.names, <<nd>>, errors)
    BY <1>2, <1>3, <1>5, <2>1, CallerFits DEF Whole
  <2>3. Styled(ser, <<nd>>)
    BY <1>2, <2>1 DEF Whole, Styled, Has
  <2>4. Whole(ser, <<nd>>, errors)
    BY <1>5, <2>2, <2>3 DEF Whole
  <2> QED BY <2>1, <2>4
<1>11. ASSUME SerializeScalar PROVE Whole(ser, stack, errors)'
  <2>1. Ready(ser, r, f, errors) /\ Do(EmitScalar(ser), Answered(r))
    BY <1>4, <1>7, <1>11 DEF SerializeScalar, Asked
  <2> QED BY <2>1, ScalarWhole, DoWhole
<1>12. ASSUME CollectStr PROVE Whole(ser, stack, errors)'
  <2>1. /\ Ready(ser, r, f, errors) /\ stack # <<>>
        /\ Do(IF LooksForTag THEN FoundTag(TagText) ELSE EmitScalar(ser), Answered(r))
        /\ ser.state # "CheckForDuplicateTag"
    BY <1>4, <1>7, <1>12 DEF CollectStr, Asked
  <2>2. CASE LooksForTag
    <3> PICK t : t = FoundTag(TagText)
      OBVIOUS
    <3>1. ser.state = "CheckForTag"
      BY <2>1, <2>2 DEF LooksForTag
    <3>2. /\ t \in Serializers /\ SameDocument(ser, t) /\ SameStyles(ser, t)
          /\ t.state = "FoundTag" /\ t.names = ser.names
      BY <1>5 DEF FoundTag, Serializers, SameDocument, SameStyles, States
    <3>3. Effect(ser, t, Levels(ser), "FoundTag")
      BY <1>5, <3>2, OtherEffect
    <3>4. /\ r \in Seq(Frames) /\ f \in Frames /\ f.kind = "node" /\ f.kind \in Transparent
          /\ f.kind \notin {"flowSeq", "flowMap"}
          /\ Fits(Levels(ser), ser.state, ser.names, Append(r, f), errors)
          /\ Whole(ser, Append(r, f), errors)
      BY <2>1 DEF Ready, Whole, Transparent
    <3>5. Fits(Levels(ser), "FoundTag", t.names, Answered(r), errors)
      BY <1>5, <3>1, <3>2, <3>4, AnswerNothing
    <3>6. Covers(Append(r, f), Answered(r))
      BY <3>4, CallsCover
    <3>7. Whole(t, Answered(r), errors)
      BY <3>3, <3>4, <3>5, <3>6, WholeAgain
    <3> QED BY <2>1, <2>2, <3>7, DoWhole
  <2>3. CASE ~LooksForTag
    BY <2>1, <2>3, ScalarWhole, DoWhole
  <2> QED BY <2>2, <2>3
<1>13. ASSUME SerializeSeq PROVE Whole(ser, stack, errors)'
  <2> PICK g : g = Frame("seq")
    OBVIOUS
  <2>1. Ready(ser, r, f, errors) /\ Do(EmitSequenceStart(ser), Append(r, g))
    BY <1>4, <1>7, <1>13 DEF SerializeSeq, Asked
  <2>2. Begun(g) /\ g.kind = "seq" /\ g.ends = 1
    BY <1>9, NewCall DEF Begun, Transparent
  <2> QED BY <2>1, <2>2, SequenceBegins, DoWhole
<1>14. ASSUME NEW one \in BOOLEAN, NEW g, CallOK(g), g.kind = "map", g.step = "open", ~g.begun,
              g.one = one, one => ser.state # "CheckForTag",
              one \/ ~Marked(g), Marked(g) => g.floor = ser.depth,
              Ready(ser, r, f, errors), Do(MapBegun(one), Append(r, g))
       PROVE  Whole(ser, stack, errors)'
  <2>1. g.ends = 1
    BY <1>14 DEF CallOK, Frames
  <2>2. Begun(g)
    BY <1>14 DEF Begun, Transparent
  <2>3. CASE ~one
    <3>2. ~Marked(g) /\ g.kind # "seq"
      BY <1>14, <2>3
    <3>1. Whole(EmitMappingStart(ser), Append(r, g), errors)
      BY ONLY <1>14, <2>1, <2>2, <3>2, MappingBegins
    <3> QED BY <1>14, <2>3, <3>1, DoWhole DEF MapBegun
  <2>4. CASE one /\ ser.state = "FoundTag"
    <3>1. Whole([EmitMappingStart(ser) EXCEPT !.state = "CheckForDuplicateTag"], Append(r, g), errors)
      BY <1>14, <2>1, <2>2, <2>4, TaggedMapBegins
    <3> QED BY <1>14, <2>4, <3>1, DoWhole DEF MapBegun
  <2>5. CASE one /\ ser.state # "FoundTag"
    <3>1. Whole([ser EXCEPT !.state = "CheckForTag"], Append(r, g), errors)
      BY <1>14, <2>5, MapMayBeTag
    <3> QED BY <1>14, <2>5, <3>1, DoWhole DEF MapBegun
  <2> QED BY <2>3, <2>4, <2>5
<1>15. ASSUME SerializeMap PROVE Whole(ser, stack, errors)'
  <2>1. PICK one \in BOOLEAN :
          /\ In("node", "open")
          /\ Do(MapBegun(one), Instead([Frame("map") EXCEPT !.one = one]))
          /\ twisted' = (twisted \/ (one /\ ser.state = "CheckForTag"))
    BY <1>15 DEF SerializeMap, Asked
  <2> PICK g0 \in Frames : g0 = Frame("map")
    BY <1>9, NewCall
  <2> PICK g : g = [g0 EXCEPT !.one = one]
    OBVIOUS
  <2>2. g0.kind = "map" /\ g0.step = "open" /\ g0.ends = 1 /\ ~g0.begun /\ g0.tag = NoTag
    BY <1>9, NewCall
  <2>3. /\ g \in Frames /\ g.kind = "map" /\ g.step = "open" /\ g.ends = 1 /\ ~g.begun
        /\ g.one = one /\ g.tag = NoTag
    BY ONLY <2>2, g0 \in Frames, one \in BOOLEAN, g = [g0 EXCEPT !.one = one] DEF Frames
  <2>4. CallOK(g) /\ ~Marked(g)
    BY <2>3 DEF CallOK, StepsOf, Marked
  <2>5. one => ser.state # "CheckForTag"
    BY <2>1
  <2>6. Ready(ser, r, f, errors) /\ Do(MapBegun(one), Append(r, g))
    BY <1>4, <1>7, <2>1
  <2> QED BY <1>14, <2>3, <2>4, <2>5, <2>6
<1>16. ASSUME SerializeTagged PROVE Whole(ser, stack, errors)'
  <2>1. PICK tag \in Tags :
          /\ In("node", "open")
          /\ Do(MapBegun(TRUE), Instead([Frame("map") EXCEPT !.one = TRUE, !.tag = tag]))
          /\ twisted' = (twisted \/ ser.state = "CheckForTag")
    BY <1>16 DEF SerializeTagged, Asked
  <2> PICK g0 \in Frames : g0 = Frame("map")
    BY <1>9, NewCall
  <2> PICK g : g = [g0 EXCEPT !.one = TRUE, !.tag = tag]
    OBVIOUS
  <2>2. /\ g0.kind = "map" /\ g0.step = "open" /\ g0.ends = 1 /\ ~g0.begun
        /\ g0.floor = ser.depth
    BY <1>9, NewCall
  <2>3. /\ g \in Frames /\ g.kind = "map" /\ g.step = "open" /\ g.ends = 1 /\ ~g.begun
        /\ g.one = TRUE /\ g.floor = ser.depth
    BY ONLY <2>2, g0 \in Frames, tag \in Tags, g = [g0 EXCEPT !.one = TRUE, !.tag = tag] DEF Frames
  <2>4. CallOK(g)
    BY <2>3 DEF CallOK, StepsOf
  <2>5. ser.state # "CheckForTag"
    BY <2>1
  <2>6. Ready(ser, r, f, errors) /\ Do(MapBegun(TRUE), Append(r, g))
    BY <1>4, <1>7, <2>1
  <2> QED BY <1>14, <2>3, <2>4, <2>5, <2>6
<1>17. ASSUME SerializeStruct PROVE Whole(ser, stack, errors)'
  <2> PICK g : g = Frame("struct")
    OBVIOUS
  <2>1. Ready(ser, r, f, errors) /\ Do(EmitMappingStart(ser), Append(r, g))
    BY <1>4, <1>7, <1>17 DEF SerializeStruct, Asked
  <2>2. Begun(g) /\ g.kind # "seq" /\ g.ends = 1 /\ ~Marked(g)
    BY <1>9, NewCall DEF Begun, Transparent, Marked
  <2> QED BY <2>1, <2>2, MappingBegins, DoWhole
<1>18. ASSUME SerializeNewtypeVariant PROVE Whole(ser, stack, errors)'
  <2> PICK g0 \in Frames : g0 = Frame("variant")
    BY <1>9, NewCall
  <2> PICK g : g = [g0 EXCEPT !.step = "value"]
    OBVIOUS
  <2> PICK g1 : g1 = [g0 EXCEPT !.step = "done"]
    OBVIOUS
  <2>1. /\ Ready(ser, r, f, errors)
        /\ Do(EmitScalar(EmitMappingStart(ser)), Append(Append(r, g), nd))
    BY <1>4, <1>7, <1>18 DEF SerializeNewtypeVariant, Asked
  <2>2. g0.kind = "variant" /\ g0.ends = 1 /\ ~g0.one
    BY <1>9, NewCall
  <2>3. /\ g \in Frames /\ g.kind = "variant" /\ g.ends = 1 /\ ~g.one /\ g.step = "value"
        /\ g.tag = g0.tag /\ g.floor = g0.floor
    BY ONLY <2>2, g0 \in Frames, g = [g0 EXCEPT !.step = "value"] DEF Frames
  <2>4. /\ g1 \in Frames /\ g1.kind = "variant" /\ g1.ends = 1 /\ ~g1.one /\ g1.step = "done"
        /\ g1.tag = g0.tag /\ g1.floor = g0.floor
    BY ONLY <2>2, g0 \in Frames, g1 = [g0 EXCEPT !.step = "done"] DEF Frames
  <2>5. CallOK(g) /\ g.step \in Inner /\ Begun(g1) /\ g1.kind \notin Transparent
    BY <2>3, <2>4 DEF CallOK, StepsOf, Begun, Transparent, Inner
  <2>6. Whole(EmitMappingStart(ser), Append(r, g1), errors)
    <3>1. ~Marked(g1)
      BY <2>4 DEF Marked
    <3> QED BY <2>1, <2>4, <2>5, <3>1, MappingBegins
  <2>7. Running(EmitMappingStart(ser), r, g1, errors)
    BY <2>1, <2>4, <2>5, <2>6 DEF Running, Ready
  <2>8. g.one = g1.one /\ g.tag = g1.tag /\ g.floor = g1.floor
    <3>1. g.one \in BOOLEAN /\ g1.one \in BOOLEAN
      BY <2>3, <2>4 DEF Frames
    <3>2. g.one = g1.one
      BY <2>3, <2>4, <3>1
    <3>3. g.tag = g1.tag /\ g.floor = g1.floor
      BY ONLY <2>3, <2>4
    <3> QED BY <3>2, <3>3
  <2>9. Whole(EmitScalar(EmitMappingStart(ser)), Append(Append(r, g), nd), errors)
    <3>1. /\ g1.kind \in {"struct", "variant"} /\ CallOK(g) /\ g.step \in Inner
          /\ g.kind = g1.kind /\ g.ends = g1.ends
      BY ONLY <2>3, <2>4, <2>5
    <3> QED BY ONLY <1>3, <2>7, <2>8, <3>1, FieldWhole
  <2> QED BY <2>1, <2>9, DoWhole
<1>19. ASSUME SerializeTupleVariant PROVE Whole(ser, stack, errors)'
  <2> PICK g0 \in Frames : g0 = Frame("seq")
    BY <1>9, NewCall
  <2> PICK g : g = [g0 EXCEPT !.ends = 2]
    OBVIOUS
  <2>1. /\ Ready(ser, r, f, errors)
        /\ Do(EmitSequenceStart(EmitScalar(EmitMappingStart(ser))), Append(r, g))
    BY <1>4, <1>7, <1>19 DEF SerializeTupleVariant, Asked
  <2>2. g0.kind = "seq" /\ g0.step = "open"
    BY <1>9, NewCall
  <2>3. g \in Frames /\ g.kind = "seq" /\ g.ends = 2 /\ g.step = "open"
    BY ONLY <2>2, g0 \in Frames, g = [g0 EXCEPT !.ends = 2] DEF Frames
  <2>4. Begun(g)
    BY <2>3 DEF CallOK, StepsOf, Begun, Transparent
  <2> QED BY <2>1, <2>3, <2>4, TupleVariantBegins, DoWhole
<1>20. ASSUME SerializeStructVariant PROVE Whole(ser, stack, errors)'
  <2> PICK g0 \in Frames : g0 = Frame("struct")
    BY <1>9, NewCall
  <2> PICK g : g = [g0 EXCEPT !.ends = 2]
    OBVIOUS
  <2>1. /\ Ready(ser, r, f, errors)
        /\ Do(EmitMappingStart(EmitScalar(EmitMappingStart(ser))), Append(r, g))
    BY <1>4, <1>7, <1>20 DEF SerializeStructVariant, Asked
  <2>2. g0.kind = "struct" /\ g0.step = "open"
    BY <1>9, NewCall
  <2>3. g \in Frames /\ g.kind = "struct" /\ g.ends = 2 /\ g.step = "open"
    BY ONLY <2>2, g0 \in Frames, g = [g0 EXCEPT !.ends = 2] DEF Frames
  <2>4. Begun(g)
    BY <2>3 DEF CallOK, StepsOf, Begun, Transparent
  <2> QED BY <2>1, <2>3, <2>4, StructVariantBegins, DoWhole
<1>21. ASSUME SerializeAnchor PROVE Whole(ser, stack, errors)'
  <2>1. PICK name \in Anchors : Anchored(ser, name) /\ Ready(ser, r, f, errors) /\ stack # <<>>
    BY <1>7, <1>21 DEF SerializeAnchor, Asked
  <2>2. SameDocument(ser, ser) /\ SameStyles(ser, ser) /\ name \in Names
    BY DEF SameDocument, SameStyles, Names
  <2> QED BY <1>5, <2>1, <2>2, AnchoredWhole
<1>22. ASSUME SerializeAlias PROVE Whole(ser, stack, errors)'
  <2>1. PICK name \in Anchors : Aliased(name) /\ Ready(ser, r, f, errors) /\ stack # <<>>
    BY <1>7, <1>22 DEF SerializeAlias, Asked
  <2> QED BY <2>1, AliasedWhole DEF Names
<1>23. ASSUME SerializeRc PROVE Whole(ser, stack, errors)'
  <2>1. PICK p \in Pointers :
          IF p \in DOMAIN ser.names
            THEN Aliased(ser.names[p])
            ELSE /\ ser.counter < Len(AnchorName)
                 /\ LET name == AnchorName[ser.counter + 1]
                    IN  Anchored([ser EXCEPT !.counter = @ + 1,
                                             !.names = [q \in DOMAIN @ \cup {p} |->
                                                          IF q = p THEN name ELSE @[q]]],
                                 name)
    BY <1>23 DEF SerializeRc
  <2>2. Ready(ser, r, f, errors) /\ stack # <<>>
    BY <1>7, <1>23 DEF SerializeRc, Asked
  <2>3. PICK P \in SUBSET Pointers : ser.names \in [P -> Names]
    BY <1>5 DEF Serializers
  <2>4. CASE p \in DOMAIN ser.names
    <3>1. ser.names[p] \in Names
      BY <2>3, <2>4
    <3> QED BY <2>1, <2>2, <2>4, <3>1, AliasedWhole
  <2>5. CASE p \notin DOMAIN ser.names
    <3> PICK name : name = AnchorName[ser.counter + 1]
      OBVIOUS
    <3> PICK names : names = [q \in DOMAIN ser.names \cup {p} |->
                                IF q = p THEN name ELSE ser.names[q]]
      OBVIOUS
    <3> PICK counter : counter = ser.counter + 1
      OBVIOUS
    <3> PICK s : s = [ser EXCEPT !.counter = counter, !.names = names]
      OBVIOUS
    <3>1. ser.counter < Len(AnchorName) /\ Anchored(s, name)
      BY <2>1, <2>5
    <3>2. ser.counter + 1 \in DOMAIN AnchorName
      BY <1>5, <3>1, SerializerAssumption DEF Serializers
    <3>3. name \in Names
      BY <3>2 DEF Names
    <3>4. P \cup {p} \in SUBSET Pointers /\ names \in [P \cup {p} -> Names]
      BY <2>3, <3>3
    <3>5. names \in UNION { [Q -> Names] : Q \in SUBSET Pointers }
      BY <3>4
    <3>6. counter \in Nat
      BY <1>5 DEF Serializers
    <3>7. s \in Serializers
      BY ONLY <1>5, <3>5, <3>6, s = [ser EXCEPT !.counter = counter, !.names = names]
         DEF Serializers
    <3>8. SameDocument(ser, s) /\ SameStyles(ser, s) /\ s.state = ser.state
      BY <1>5 DEF Serializers, SameDocument, SameStyles
    <3> QED BY <2>2, <3>1, <3>3, <3>7, <3>8, AnchoredWhole
  <2> QED BY <2>4, <2>5
<1>24. ASSUME SerializeFlow PROVE Whole(ser, stack, errors)'
  <2>1. PICK kind \in {"flowSeq", "flowMap"} :
          /\ In("node", "open")
          /\ Do(IF kind = "flowSeq" THEN [ser EXCEPT !.flowSeq = TRUE]
                                    ELSE [ser EXCEPT !.flowMap = TRUE],
                Inside([Frame(kind) EXCEPT !.step = "value"]))
    BY <1>24 DEF SerializeFlow, Asked
  <2> PICK t : t = IF kind = "flowSeq" THEN [ser EXCEPT !.flowSeq = TRUE]
                                       ELSE [ser EXCEPT !.flowMap = TRUE]
    OBVIOUS
  <2> PICK g0 \in Frames : g0 = Frame(kind)
    BY <1>9, NewCall
  <2> PICK g : g = [g0 EXCEPT !.step = "value"]
    OBVIOUS
  <2>2. Ready(ser, r, f, errors) /\ Do(t, Append(Append(r, g), nd))
    BY <1>4, <1>7, <2>1
  <2>3. g0.kind = kind /\ g0.ends = 1
    BY <1>9, NewCall
  <2>4. g \in Frames /\ g.kind = kind /\ g.ends = 1 /\ g.step = "value"
    BY ONLY <2>3, g0 \in Frames, g = [g0 EXCEPT !.step = "value"] DEF Frames
  <2>5. CallOK(g) /\ g.step \in Inner /\ g.kind \in Transparent /\ ~Marked(g)
    BY <2>4 DEF CallOK, StepsOf, Inner, Transparent, Marked
  <2>6. /\ t \in Serializers /\ SameDocument(ser, t) /\ t.state = ser.state
        /\ t.flowSeq => ser.flowSeq \/ kind = "flowSeq"
        /\ t.flowMap => ser.flowMap \/ kind = "flowMap"
    BY ONLY <1>5, t = IF kind = "flowSeq" THEN [ser EXCEPT !.flowSeq = TRUE]
                                          ELSE [ser EXCEPT !.flowMap = TRUE],
            kind \in {"flowSeq", "flowMap"}
       DEF Serializers, SameDocument
  <2>7. Resting(t)
    BY <1>5, <2>6, Restated DEF Sound
  <2>8. Sound(t) /\ Levels(t) = Levels(ser)
    BY <1>5, <2>6, <2>7 DEF Sound, SameDocument, Levels
  <2>9. Whole(t, Append(Append(r, g), nd), errors)
    BY <1>3, <2>2, <2>4, <2>5, <2>6, <2>8, WrapWhole
  <2> QED BY <2>2, <2>9, DoWhole
<1>25. ASSUME Fail PROVE Whole(ser, stack, errors)'
  <2>1. Ready(ser, r, f, errors) /\ Abort("serialize")
    BY <1>7, <1>25 DEF Fail
  <2>2. ser.state # "AlreadyTagged"
    BY <2>1, CallState DEF Ready, Whole, Transparent
  <2> QED BY <1>5, <2>1, <2>2, AbortWhole
<1>26. ASSUME NextElement PROVE Whole(ser, stack, errors)'
  <2> PICK g : g = [f EXCEPT !.step = "value"]
    OBVIOUS
  <2>1. /\ stack # <<>> /\ f.kind = "seq"
        /\ Do(ser, Append(Append(r, g), nd))
    BY <1>4, <1>26 DEF NextElement, In
  <2>2. Running(ser, r, f, errors) /\ CallOK(f) /\ "value" \in StepsOf(f.kind)
    BY <1>6, <1>8, <2>1 DEF Transparent, StepsOf
  <2>3. /\ CallOK(g) /\ g.step = "value" /\ g.kind = f.kind /\ g.ends = f.ends /\ g.one = f.one
        /\ g.tag = f.tag /\ g.floor = f.floor
    BY <2>1, <2>2, NextCall
  <2>4. Whole(ser, Append(Append(r, g), nd), errors)
    BY <1>3, <2>1, <2>2, <2>3, ItemWhole DEF Inner
  <2> QED BY <2>1, <2>4, DoWhole
<1>27. ASSUME NextField PROVE Whole(ser, stack, errors)'
  <2> PICK g : g = [f EXCEPT !.step = "value"]
    OBVIOUS
  <2>1. /\ stack # <<>> /\ f.kind = "struct"
        /\ Do(EmitScalar(ser), Append(Append(r, g), nd))
    BY <1>4, <1>27 DEF NextField, In
  <2>2. Running(ser, r, f, errors) /\ CallOK(f) /\ "value" \in StepsOf(f.kind)
    BY <1>6, <1>8, <2>1 DEF Transparent, StepsOf
  <2>3. /\ CallOK(g) /\ g.step = "value" /\ g.kind = f.kind /\ g.ends = f.ends /\ g.one = f.one
        /\ g.tag = f.tag /\ g.floor = f.floor
    BY <2>1, <2>2, NextCall
  <2>4. Whole(EmitScalar(ser), Append(Append(r, g), nd), errors)
    BY <1>3, <2>1, <2>2, <2>3, FieldWhole DEF Inner
  <2> QED BY <2>1, <2>4, DoWhole
<1>28. ASSUME NextKey PROVE Whole(ser, stack, errors)'
  <2>1. PICK entry \in BOOLEAN :
          /\ In("map", "open")
          /\ Top.one => ~Top.begun
          /\ Do(IF entry THEN ser ELSE FlushMappingStart(ser),
                Inside([Top EXCEPT !.step = "key", !.entry = entry]))
    BY <1>28 DEF NextKey
  <2> PICK t : t = IF entry THEN ser ELSE FlushMappingStart(ser)
    OBVIOUS
  <2> PICK g : g = [f EXCEPT !.step = "key", !.entry = entry]
    OBVIOUS
  <2>2. /\ stack # <<>> /\ f.kind = "map" /\ f.step = "open" /\ (f.one => ~f.begun)
        /\ f \in Frames /\ Do(t, Append(Append(r, g), nd))
    BY <1>4, <2>1 DEF In
  <2>3. Running(ser, r, f, errors) /\ CallOK(f)
    BY <1>6, <1>8, <2>2 DEF Transparent
  <2>4. /\ g \in Frames /\ g.step = "key" /\ g.kind = f.kind /\ g.ends = f.ends
        /\ g.one = f.one /\ g.tag = f.tag /\ g.floor = f.floor /\ g.begun = f.begun /\ g.entry = entry
    BY ONLY <2>2, entry \in BOOLEAN, g = [f EXCEPT !.step = "key", !.entry = entry] DEF Frames
  <2>5. CallOK(g) /\ g.step \in Inner
    BY <2>2, <2>3, <2>4 DEF CallOK, StepsOf, Inner
  <2>6. Whole(t, Append(r, f), errors) /\ (t.state = "CheckForTag" => entry)
    <3>1. Whole(ser, Append(r, f), errors)
      BY <2>3 DEF Running
    <3>2. CASE entry
      BY <3>1, <3>2
    <3>3. CASE ~entry /\ f.begun
      <4>1. ser.state \notin {"CheckForTag", "CheckForDuplicateTag"}
        BY <2>2, <2>3, <3>1, <3>3, CallState DEF Running, Whole
      <4>2. t = ser
        BY <3>3, <4>1 DEF FlushMappingStart
      <4> QED BY <3>1, <4>1, <4>2
    <3>4. CASE ~entry /\ ~f.begun
      <4>1. r \in Seq(Frames)
        BY <2>3 DEF Running
      <4>2. /\ Whole(FlushMappingStart(ser), Append(r, f), errors)
            /\ FlushMappingStart(ser).state \notin {"CheckForTag", "CheckForDuplicateTag"}
        <5>1. Early(ser.state, Append(r, f))
          BY <1>2, <1>4, <2>2
        <5> QED BY <2>2, <3>1, <3>4, <4>1, <5>1, FlushWhole
      <4> QED BY <3>4, <4>2
    <3> QED BY <3>2, <3>3, <3>4
  <2>7. Running(t, r, f, errors)
    BY <2>3, <2>6 DEF Running
  <2>8. f.kind = "map" =>
          /\ g.begun = f.begun
          /\ \/ /\ f.step = "open" /\ g.step = "key"
                /\ f.one => ~f.begun
                /\ t.state = "CheckForTag" => g.entry
             \/ /\ f.step = "keyed" /\ g.step = "value"
                /\ g.tagged <=> f.entry /\ t.state = "FoundTag"
    BY <2>2, <2>4, <2>6
  <2>9. Whole(t, Append(Append(r, g), nd), errors)
    BY ONLY <1>3, <2>2, <2>4, <2>5, <2>7, <2>8, ItemWhole
  <2> QED BY <2>2, <2>9, DoWhole
<1>29. ASSUME TagKey PROVE Whole(ser, stack, errors)'
  <2> PICK g : g = [f EXCEPT !.step = "keyed", !.entry = TRUE]
    OBVIOUS
  <2> PICK t : t = FoundTag(f.tag)
    OBVIOUS
  <2>1. /\ stack # <<>> /\ f.kind = "map" /\ f.step = "open" /\ ~f.begun /\ f \in Frames
        /\ f.tag # NoTag /\ Do(t, Append(r, g)) /\ ser.state = "CheckForTag"
    BY <1>1, <1>4, <1>29 DEF TagKey, In, LooksForTag
  <2>2. Running(ser, r, f, errors) /\ CallOK(f)
    BY <1>6, <1>8, <2>1 DEF Transparent
  <2>3. /\ g \in Frames /\ g.step = "keyed" /\ g.kind = f.kind /\ g.ends = f.ends
        /\ g.one = f.one /\ g.tag = f.tag /\ g.floor = f.floor /\ g.begun = f.begun /\ g.entry = TRUE
    BY ONLY <2>1, g = [f EXCEPT !.step = "keyed", !.entry = TRUE] DEF Frames
  <2>4. CallOK(g)
    BY <2>1, <2>2, <2>3 DEF CallOK, StepsOf
  <2>5. f.tag \in Tags \cup {TagText, NoTag}
    BY <2>1 DEF Frames
  <2>6. /\ t \in Serializers /\ SameDocument(ser, t) /\ SameStyles(ser, t)
        /\ t.state = "FoundTag" /\ t.names = ser.names
    BY <1>5, <2>5 DEF FoundTag, Serializers, SameDocument, SameStyles, States
  <2>7. Effect(ser, t, Levels(ser), "FoundTag")
    BY <1>5, <2>6, OtherEffect
  <2>8. \/ /\ f.step = "open" /\ ~f.begun /\ ser.state = "CheckForTag"
           /\ g.step = "keyed" /\ ~g.begun /\ g.entry /\ "FoundTag" = "FoundTag"
        \/ /\ f.step = "valued" /\ g.step = "open" /\ g.begun
           /\ "FoundTag" = IF f.tagged THEN "AlreadyTagged" ELSE ser.state
    BY <2>1, <2>3
  <2>9. /\ Running(ser, r, f, errors) /\ f.kind = "map" /\ CallOK(g) /\ g.kind = "map"
        /\ g.ends = f.ends /\ g.one = f.one /\ g.tag = f.tag /\ g.floor = f.floor
        /\ t.names = ser.names
    BY <2>1, <2>2, <2>3, <2>4, <2>6
  <2>10. Whole(t, Append(r, g), errors)
    BY ONLY <2>7, <2>8, <2>9, EntryWhole
  <2> QED BY <2>1, <2>10, DoWhole
<1>30. ASSUME NextValue PROVE Whole(ser, stack, errors)'
  <2> PICK tagged \in BOOLEAN : tagged = (f.entry /\ ser.state = "FoundTag")
    OBVIOUS
  <2> PICK g : g = [f EXCEPT !.step = "value", !.tagged = tagged]
    OBVIOUS
  <2>1. /\ stack # <<>> /\ f.kind = "map" /\ f.step = "keyed" /\ f \in Frames
        /\ Do(ser, Append(Append(r, g), nd))
    BY <1>4, <1>30 DEF NextValue, In
  <2>2. Running(ser, r, f, errors) /\ CallOK(f)
    BY <1>6, <1>8, <2>1 DEF Transparent
  <2>3. /\ g \in Frames /\ g.step = "value" /\ g.kind = f.kind /\ g.ends = f.ends
        /\ g.one = f.one /\ g.tag = f.tag /\ g.floor = f.floor /\ g.begun = f.begun /\ g.tagged = tagged
    BY ONLY <2>1, tagged \in BOOLEAN, g = [f EXCEPT !.step = "value", !.tagged = tagged] DEF Frames
  <2>4. CallOK(g) /\ g.step \in Inner
    BY <2>1, <2>2, <2>3 DEF CallOK, StepsOf, Inner
  <2>5. g.tagged <=> f.entry /\ ser.state = "FoundTag"
    BY <2>3
  <2>6. f.kind = "map" =>
          /\ g.begun = f.begun
          /\ \/ /\ f.step = "open" /\ g.step = "key"
                /\ f.one => ~f.begun
                /\ ser.state = "CheckForTag" => g.entry
             \/ /\ f.step = "keyed" /\ g.step = "value"
                /\ g.tagged <=> f.entry /\ ser.state = "FoundTag"
    BY <2>1, <2>3, <2>5
  <2>7. Whole(ser, Append(Append(r, g), nd), errors)
    BY ONLY <1>3, <2>1, <2>2, <2>3, <2>4, <2>6, ItemWhole
  <2> QED BY <2>1, <2>7, DoWhole
<1>31. ASSUME EndEntry PROVE Whole(ser, stack, errors)'
  <2> PICK state : state = IF f.tagged THEN "AlreadyTagged" ELSE ser.state
    OBVIOUS
  <2> PICK t : t = IF f.tagged THEN [ser EXCEPT !.state = "AlreadyTagged"] ELSE ser
    OBVIOUS
  <2> PICK g : g = [f EXCEPT !.step = "open", !.begun = TRUE]
    OBVIOUS
  <2>1. /\ stack # <<>> /\ f.kind = "map" /\ f.step = "valued" /\ f \in Frames
        /\ Do(t, Append(r, g))
    BY <1>4, <1>31 DEF EndEntry, In
  <2>2. Running(ser, r, f, errors) /\ CallOK(f)
    BY <1>6, <1>8, <2>1 DEF Transparent
  <2>3. /\ g \in Frames /\ g.step = "open" /\ g.kind = f.kind /\ g.ends = f.ends
        /\ g.one = f.one /\ g.tag = f.tag /\ g.floor = f.floor /\ g.begun = TRUE
    BY ONLY <2>1, g = [f EXCEPT !.step = "open", !.begun = TRUE] DEF Frames
  <2>4. CallOK(g)
    BY <2>1, <2>2, <2>3 DEF CallOK, StepsOf
  <2>5. Effect(ser, t, Levels(ser), state) /\ t.names = ser.names
    <3>1. CASE f.tagged
      BY <1>5, <3>1, StateEffect DEF States, Serializers
    <3>2. CASE ~f.tagged
      BY <1>5, <3>2 DEF Effect
    <3> QED BY <3>1, <3>2
  <2>6. \/ /\ f.step = "open" /\ ~f.begun /\ ser.state = "CheckForTag"
           /\ g.step = "keyed" /\ ~g.begun /\ g.entry /\ state = "FoundTag"
        \/ /\ f.step = "valued" /\ g.step = "open" /\ g.begun
           /\ state = IF f.tagged THEN "AlreadyTagged" ELSE ser.state
    BY ONLY <2>1, <2>3, state = IF f.tagged THEN "AlreadyTagged" ELSE ser.state
  <2>7. /\ f.kind = "map" /\ g.kind = "map" /\ g.ends = f.ends /\ g.one = f.one
        /\ g.tag = f.tag /\ g.floor = f.floor
    BY ONLY <2>1, <2>3
  <2>8. Whole(t, Append(r, g), errors)
    BY ONLY <2>2, <2>4, <2>5, <2>6, <2>7, EntryWhole
  <2> QED BY <2>1, <2>8, DoWhole
<1>32. ASSUME EndSeq PROVE Whole(ser, stack, errors)'
  <2>1. /\ stack # <<>> /\ f.kind = "seq" /\ f.step = "open"
        /\ Do(IF f.ends = 2 THEN EmitMappingEnd(EmitSequenceEnd(ser)) ELSE EmitSequenceEnd(ser),
              Answered(r))
    BY <1>4, <1>32 DEF EndSeq, In
  <2>2. Running(ser, r, f, errors)
    BY <1>8, <2>1 DEF Transparent
  <2> PICK t : t = EmitSequenceEnd(ser)
    OBVIOUS
  <2>3. t = IF f.kind = "seq" THEN EmitSequenceEnd(ser) ELSE EmitMappingEnd(ser)
    BY <2>1
  <2>4. Whole(IF f.ends = 2 THEN EmitMappingEnd(t) ELSE t, Answered(r), errors)
    BY <2>1, <2>2, <2>3, EndWhole
  <2> QED BY <2>1, <2>4, DoWhole
<1>33. ASSUME NEW kind \in {"struct", "variant"}, stack # <<>>, f.kind = kind,
              f.step \in {"open", "done"},
              Do(IF f.ends = 2 THEN EmitMappingEnd(EmitMappingEnd(ser)) ELSE EmitMappingEnd(ser),
                 Answered(r))
       PROVE  Whole(ser, stack, errors)'
  <2>1. Running(ser, r, f, errors)
    BY <1>8, <1>33 DEF Transparent
  <2> PICK t : t = EmitMappingEnd(ser)
    OBVIOUS
  <2>2. t = IF f.kind = "seq" THEN EmitSequenceEnd(ser) ELSE EmitMappingEnd(ser)
    BY <1>33
  <2>3. Whole(IF f.ends = 2 THEN EmitMappingEnd(t) ELSE t, Answered(r), errors)
    BY <1>33, <2>1, <2>2, EndWhole
  <2> QED BY <1>33, <2>3, DoWhole
<1>34. ASSUME EndStruct PROVE Whole(ser, stack, errors)'
  <2>1. /\ stack # <<>> /\ f.kind = "struct" /\ f.step = "open"
        /\ Do(IF f.ends = 2 THEN EmitMappingEnd(EmitMappingEnd(ser)) ELSE EmitMappingEnd(ser),
              Answered(r))
    BY <1>4, <1>34 DEF EndStruct, In
  <2> QED BY <1>33, <2>1
<1>35. ASSUME EndVariant PROVE Whole(ser, stack, errors)'
  <2>1. /\ stack # <<>> /\ f.kind = "variant" /\ f.step = "done"
        /\ Do(EmitMappingEnd(ser), Answered(r))
    BY <1>4, <1>35 DEF EndVariant, In
  <2>2. f.ends # 2
    BY <1>6, <2>1 DEF CallOK
  <2> QED BY <1>33, <2>1, <2>2
<1>36. ASSUME EndMap PROVE Whole(ser, stack, errors)'
  <2>1. /\ stack # <<>> /\ f.kind = "map" /\ f.step = "open" /\ (f.one => f.begun)
        /\ Do(MapEnded, Answered(r))
    BY <1>4, <1>36 DEF EndMap, In
  <2>2. Running(ser, r, f, errors)
    BY <1>8, <2>1 DEF Transparent
  <2> QED BY <2>1, <2>2, MapEndWhole, DoWhole
<1>37. ASSUME stack # <<>>, f.kind \in {"anchor", "flowSeq", "flowMap"},
              f.kind = "flowSeq" => ~ser.flowSeq, f.kind = "flowMap" => ~ser.flowMap,
              Do(ser, Answered(r))
       PROVE  Whole(ser, stack, errors)'
  <2>1. /\ r \in Seq(Frames) /\ f \in Frames /\ f.kind \in Transparent /\ f.kind # "node"
        /\ Fits(Levels(ser), ser.state, ser.names, Append(r, f), errors)
        /\ Styled(ser, Append(r, f))
    BY <1>2, <1>4, <1>37 DEF Whole, Transparent
  <2>2. Fits(Levels(ser), ser.state, ser.names, Answered(r), errors)
    BY <1>5, <2>1, AnswerNothing
  <2>3. \A kind : Has(Append(r, f), kind) => Has(Answered(r), kind) \/ f.kind = kind
    BY <2>1, AppendHas, AnsweredHas
  <2>4. Styled(ser, Answered(r))
    BY <1>37, <2>1, <2>3 DEF Styled
  <2>5. Whole(ser, Answered(r), errors)
    BY <1>5, <2>2, <2>4 DEF Whole
  <2> QED BY <1>37, <2>5, DoWhole
<1>38. ASSUME EndAnchor PROVE Whole(ser, stack, errors)'
  BY <1>4, <1>37, <1>38 DEF EndAnchor, In
<1>39. ASSUME EndFlow PROVE Whole(ser, stack, errors)'
  <2>1. stack # <<>> /\ f.kind \in {"flowSeq", "flowMap"}
    BY <1>39 DEF EndFlow, In
  <2>2. CASE (f.kind = "flowSeq" /\ ser.flowSeq) \/ (f.kind = "flowMap" /\ ser.flowMap)
    <3>1. Abort("flow")
      BY <1>39, <2>2 DEF EndFlow
    <3>2. Fits(Levels(ser), ser.state, ser.names, Append(r, f), errors)
      BY <1>2, <1>4, <2>1 DEF Whole
    <3>3. ser.state # "AlreadyTagged"
      BY <1>4, <2>1, <3>2, CallState DEF Transparent
    <3> QED BY <1>5, <3>1, <3>3, AbortWhole
  <2>3. CASE ~((f.kind = "flowSeq" /\ ser.flowSeq) \/ (f.kind = "flowMap" /\ ser.flowMap))
    <3>1. Do(ser, Answered(r))
      BY <1>4, <1>39, <2>1, <2>3 DEF EndFlow
    <3> QED BY <1>37, <2>1, <2>3, <3>1
  <2> QED BY <2>2, <2>3
<1> QED
  BY <1>10, <1>11, <1>12, <1>13, <1>15, <1>16, <1>17, <1>18, <1>19, <1>20, <1>21, <1>22, <1>23,
     <1>24, <1>25, <1>26, <1>27, <1>28, <1>29, <1>30, <1>31, <1>32, <1>34, <1>35, <1>36,
     <1>38, <1>39 DEF Next

\* Where a key is that may still be a tag.
LEMMA EarlyCalls ==
  ASSUME NEW r \in Seq(Frames), NEW g \in Frames, NEW nd \in Frames, nd.kind = "node", NEW state,
         \/ g.kind \notin Transparent
         \/ /\ state = "CheckForTag" => ~Marked(g)
            /\ \E f \in Frames : f.kind = "node" /\ Early(state, Append(r, f))
  PROVE  Early(state, Append(Append(r, g), nd))
<1> PICK n \in Nat : Len(r) = n
  OBVIOUS
<1> PICK b : b = Append(r, g)
  OBVIOUS
<1> PICK c : c = Append(b, nd)
  OBVIOUS
<1> PICK p \in Nat : p = n + 1
  OBVIOUS
<1>1. b \in Seq(Frames) /\ Len(b) = p /\ b[p] = g /\ \A i \in 1 .. n : b[i] = r[i]
  BY ONLY r \in Seq(Frames), g \in Frames, n \in Nat, Len(r) = n, b = Append(r, g), p = n + 1,
          AppendIndex
<1>2. /\ Len(c) = p + 1 /\ c[p + 1] = nd /\ \A i \in 1 .. p : c[i] = b[i]
  BY ONLY <1>1, nd \in Frames, p \in Nat, c = Append(b, nd), AppendIndex
<1>3. /\ \A i \in 1 .. n : i \in 1 .. p /\ p \in i .. p + 1 /\ \A l \in i .. n : l \in i .. p + 1
      /\ p \in 1 .. p /\ \A i \in 1 .. p + 1 : i = p + 1 \/ i = p \/ i \in 1 .. n
      /\ \A i \in 1 .. n : \A l \in i .. p : l = p \/ (l \in 1 .. n /\ l \in i .. p + 1)
  BY ONLY n \in Nat, p = n + 1
<1>4. c[p] = g /\ \A i \in 1 .. n : c[i] = r[i]
  BY <1>1, <1>2, <1>3
<1>5. SUFFICES ASSUME state = "CheckForTag", NEW j \in 1 .. p + 1,
                      \A l \in j .. p + 1 : c[l].kind \in Transparent
               PROVE  ~Marked(c[j])
  BY <1>2 DEF Early
<1>6. CASE j = p + 1
  BY <1>2, <1>6 DEF Marked
<1>7. CASE j = p
  <2>1. c[p].kind \in Transparent
    BY <1>5, <1>7
  <2> QED BY <1>4, <1>5, <1>7, <2>1
<1>8. CASE j \in 1 .. n
  <2>1. g.kind \in Transparent
    BY <1>3, <1>4, <1>5, <1>8
  <2>2. PICK f \in Frames : f.kind = "node" /\ Early(state, Append(r, f))
    BY <2>1
  <2> PICK d : d = Append(r, f)
    OBVIOUS
  <2>3. /\ Len(d) = p /\ d[p] = f /\ LastOf(d) = f /\ d # <<>>
        /\ \A i \in 1 .. n : d[i] = r[i]
    BY ONLY r \in Seq(Frames), f \in Frames, n \in Nat, Len(r) = n, d = Append(r, f), p = n + 1,
            AppendIndex
  <2>4. ASSUME NEW l \in j .. p PROVE d[l].kind \in Transparent
    <3>1. CASE l = p
      BY <2>2, <2>3, <3>1 DEF Transparent
    <3>2. CASE l \in 1 .. n /\ l \in j .. p + 1
      BY <1>4, <1>5, <2>3, <3>2
    <3> QED BY <1>3, <1>8, <3>1, <3>2
  <2>5. Asking(d)
    BY <2>2, <2>3 DEF Asking
  <2>6. ~Marked(d[j])
    BY <1>3, <1>5, <1>8, <2>2, <2>3, <2>4, <2>5 DEF Early
  <2> QED BY <1>4, <1>8, <2>3, <2>6
<1> QED BY <1>3, <1>6, <1>7, <1>8

\* A call returns to one that waited, which is not a value.
LEMMA ReturnsTo ==
  ASSUME NEW s, NEW r \in Seq(Frames), NEW f \in Frames, NEW errs, Whole(s, Append(r, f), errs)
  PROVE  ~Asking(Answered(r))
<1> PICK n \in Nat : Len(r) = n
  OBVIOUS
<1> PICK L : L = Levels(s)
  OBVIOUS
<1>1. Fits(L, s.state, s.names, Append(r, f), errs)
  BY DEF Whole
<1>2. PICK h, m, k, lo, stage : At(r, n, f, L, s.state, s.names, errs, h, m, k, lo, stage)
  BY ONLY r \in Seq(Frames), n \in Nat, Len(r) = n, f \in Frames, <1>1, FitsAt
<1>3. CASE r = <<>>
  BY <1>3 DEF Answered, Asking
<1>4. CASE r # <<>>
  <2> PICK p \in Nat : n = p + 1
    <3>1. n - 1 \in Nat /\ n = n - 1 + 1
      BY <1>4
    <3> QED BY <3>1
  <2> PICK g \in Frames : g = r[p + 1]
    BY LastCall
  <2>1. ButLast(r) \in Seq(Frames) /\ Answered(r) = Append(ButLast(r), Advanced(g))
    BY LastCall, AnsweredLast
  <2>2. r[p + 1].step \in Inner /\ CallOK(r[p + 1])
    BY <1>2 DEF At
  <2>3. g.kind # "node"
    BY <2>2 DEF CallOK, StepsOf, Inner
  <2>4. Advanced(g) \in Frames /\ Advanced(g).kind = g.kind
    <3> PICK step : step = IF g.kind = "map" THEN (IF g.step = "key" THEN "keyed" ELSE "valued")
                           ELSE IF g.kind \in {"seq", "struct"} THEN "open" ELSE "done"
      OBVIOUS
    <3>1. step \in {"open", "keyed", "valued", "done"}
      OBVIOUS
    <3>2. Advanced(g) = [g EXCEPT !.step = step]
      BY DEF Advanced
    <3> QED BY ONLY <3>1, <3>2, g \in Frames DEF Frames
  <2>5. LastOf(Answered(r)) = Advanced(g)
    BY <2>1, <2>4, AppendIndex
  <2> QED BY <2>3, <2>4, <2>5 DEF Asking
<1> QED BY <1>3, <1>4

LEMMA EarlyStep ==
  ASSUME CallsOK, Histories, ShapeOK, Next, ~twisted'
  PROVE  Early(ser.state, stack)'
<1>1. ~twisted
  BY DEF Histories, Next, Straight, SerializeValue, SerializeScalar, CollectStr,
    SerializeSeq, SerializeMap, SerializeTagged, SerializeStruct, SerializeNewtypeVariant,
    SerializeTupleVariant, SerializeStructVariant, SerializeAnchor, SerializeAlias,
    SerializeRc, SerializeFlow, Fail, NextElement, NextField, NextKey, TagKey, NextValue,
    EndEntry, EndSeq, EndStruct, EndMap, EndVariant, EndAnchor, EndFlow, Anchored, Aliased
<1>2. Whole(ser, stack, errors) /\ Early(ser.state, stack)
  BY <1>1 DEF ShapeOK
<1> PICK r : r = ButLast(stack)
  OBVIOUS
<1> PICK f : f = Top
  OBVIOUS
<1> PICK nd : nd = Frame("node")
  OBVIOUS
<1> PICK state : state = ser.state'
  OBVIOUS
<1>3. nd \in Frames /\ nd.kind = "node"
  BY NewCall DEF Kinds
<1>4. stack # <<>> =>
        /\ r \in Seq(Frames) /\ f \in Frames /\ stack = Append(r, f)
        /\ Returned = Answered(r)
        /\ \A g : Instead(g) = Append(r, g)
        /\ \A g : Inside(g) = Append(Append(r, g), nd)
  BY InnermostCall
<1>5. SUFFICES Early(state, stack')
  OBVIOUS
<1>6. ASSUME stack' = <<>> PROVE Early(state, stack')
  BY <1>6 DEF Early, Asking
<1>7. ASSUME stack # <<>>, NEW s, Do(s, Returned) PROVE Early(state, stack')
  <2>1. ~Asking(Answered(r))
    BY <1>2, <1>4, <1>7, ReturnsTo
  <2>2. stack' = <<>> \/ stack' = Answered(r)
    BY <1>4, <1>7 DEF Do
  <2> QED BY <1>6, <2>1, <2>2 DEF Early
<1>8. ASSUME stack # <<>>, NEW s, NEW g \in Frames, g.kind # "node", Do(s, Instead(g))
      PROVE  Early(state, stack')
  <2>1. stack' = <<>> \/ stack' = Append(r, g)
    BY <1>4, <1>8 DEF Do
  <2>2. LastOf(Append(r, g)) = g
    BY <1>4, <1>8, AppendIndex
  <2> QED BY <1>6, <1>8, <2>1, <2>2 DEF Early, Asking
<1>9. ASSUME stack # <<>>, NEW s, NEW g \in Frames, g.kind \notin Transparent, Do(s, Inside(g))
      PROVE  Early(state, stack')
  <2>1. stack' = <<>> \/ stack' = Append(Append(r, g), nd)
    BY <1>4, <1>9 DEF Do
  <2>2. Early(state, Append(Append(r, g), nd))
    BY <1>3, <1>4, <1>9, EarlyCalls
  <2> QED BY <1>6, <2>1, <2>2
<1>10. ASSUME In("node", "open"), NEW s, s.state = ser.state, NEW g \in Frames,
              ser.state = "CheckForTag" => ~Marked(g), Do(s, Inside(g))
       PROVE  Early(state, stack')
  <2>1. stack # <<>> /\ f.kind = "node"
    BY <1>10 DEF In
  <2>2. /\ stack' = <<>> \/ stack' = Append(Append(r, g), nd)
        /\ state = ser.state
    BY <1>4, <1>10, <2>1 DEF Do
  <2>3. Early(state, Append(r, f)) /\ r \in Seq(Frames) /\ f \in Frames
    BY <1>2, <1>4, <2>1, <2>2
  <2>4. Early(state, Append(Append(r, g), nd))
    BY <1>3, <1>10, <2>1, <2>2, <2>3, EarlyCalls
  <2> QED BY <1>6, <2>2, <2>4
<1>11. "node" \in Kinds /\ "seq" \in Kinds /\ "map" \in Kinds /\ "struct" \in Kinds
       /\ "variant" \in Kinds /\ "anchor" \in Kinds /\ "flowSeq" \in Kinds /\ "flowMap" \in Kinds
  BY DEF Kinds
<1>12. ASSUME SerializeValue PROVE Early(state, stack')
  <2>1. stack' = <<nd>>
    BY <1>12 DEF SerializeValue
  <2>2. Len(<<nd>>) = 1 /\ <<nd>>[1] = nd
    OBVIOUS
  <2>3. ~Marked(nd)
    BY <1>3 DEF Marked
  <2>4. \A j \in 1 .. Len(<<nd>>) : <<nd>>[j] = nd
    BY <2>2
  <2> QED BY <2>1, <2>3, <2>4 DEF Early
<1>13. ASSUME NEW s, s.state = ser.state, NEW name, name \in Names, In("node", "open"),
              Anchored(s, name)
       PROVE  Early(state, stack')
  <2> PICK late \in BOOLEAN : late = (ser.state = "CheckForTag")
    OBVIOUS
  <2> PICK g0 \in Frames : g0 = Frame("anchor")
    BY <1>11, NewCall
  <2> PICK g : g = [g0 EXCEPT !.step = "value", !.name = name, !.late = late]
    OBVIOUS
  <2> PICK t : t = [s EXCEPT !.pending = name]
    OBVIOUS
  <2>1. Do(t, Inside(g))
    BY <1>13 DEF Anchored
  <2>2. g0.kind = "anchor"
    BY <1>11, NewCall
  <2>3. g \in Frames /\ g.kind = "anchor" /\ g.late = late
    BY ONLY <1>13, <2>2, g0 \in Frames, late \in BOOLEAN,
            g = [g0 EXCEPT !.step = "value", !.name = name, !.late = late] DEF Frames
  <2>4. ser.state = "CheckForTag" => ~Marked(g)
    BY <2>3 DEF Marked
  <2>5. [s EXCEPT !.pending = name].state = s.state
    OBVIOUS
  <2> QED BY <1>10, <1>13, <2>1, <2>3, <2>4, <2>5
<1>14. ASSUME NEW name, In("node", "open"), Aliased(name) PROVE Early(state, stack')
  <2>1. stack # <<>>
    BY <1>14 DEF In
  <2>2. stack' = <<>> \/ Do(EmitAlias(ser, name), Returned)
    BY <1>14 DEF Aliased, Abort
  <2> QED BY <1>6, <1>7, <2>1, <2>2
<1>15. ASSUME SerializeScalar \/ CollectStr PROVE Early(state, stack')
  BY <1>7, <1>15 DEF SerializeScalar, CollectStr, Asked, In
<1>16. ASSUME SerializeSeq PROVE Early(state, stack')
  <2>1. Frame("seq") \in Frames /\ Frame("seq").kind = "seq"
    BY <1>11, NewCall
  <2> QED BY <1>8, <1>16, <2>1 DEF SerializeSeq, Asked, In
<1>17. ASSUME SerializeStruct PROVE Early(state, stack')
  <2>1. Frame("struct") \in Frames /\ Frame("struct").kind = "struct"
    BY <1>11, NewCall
  <2> QED BY <1>8, <1>17, <2>1 DEF SerializeStruct, Asked, In
<1>18. ASSUME SerializeMap PROVE Early(state, stack')
  <2>1. PICK one \in BOOLEAN :
          In("node", "open") /\ Do(MapBegun(one), Instead([Frame("map") EXCEPT !.one = one]))
    BY <1>18 DEF SerializeMap, Asked
  <2> PICK g0 \in Frames : g0 = Frame("map") /\ g0.kind = "map"
    BY <1>11, NewCall
  <2> PICK g : g = [g0 EXCEPT !.one = one]
    OBVIOUS
  <2>2. g \in Frames /\ g.kind = "map"
    BY DEF Frames
  <2> QED BY <1>8, <2>1, <2>2 DEF In
<1>19. ASSUME SerializeTagged PROVE Early(state, stack')
  <2>1. PICK tag \in Tags : /\ In("node", "open")
                            /\ Do(MapBegun(TRUE), Instead([Frame("map") EXCEPT !.one = TRUE, !.tag = tag]))
    BY <1>19 DEF SerializeTagged, Asked
  <2> PICK g0 \in Frames : g0 = Frame("map") /\ g0.kind = "map"
    BY <1>11, NewCall
  <2> PICK g : g = [g0 EXCEPT !.one = TRUE, !.tag = tag]
    OBVIOUS
  <2>2. g \in Frames /\ g.kind = "map"
    BY DEF Frames
  <2> QED BY <1>8, <2>1, <2>2 DEF In
<1>20. ASSUME SerializeNewtypeVariant PROVE Early(state, stack')
  <2> PICK g0 \in Frames : g0 = Frame("variant") /\ g0.kind = "variant"
    BY <1>11, NewCall
  <2> PICK g : g = [g0 EXCEPT !.step = "value"]
    OBVIOUS
  <2>1. g \in Frames /\ g.kind \notin Transparent
    BY DEF Frames, Transparent
  <2> QED BY <1>9, <1>20, <2>1 DEF SerializeNewtypeVariant, Asked, In
<1>21. ASSUME SerializeTupleVariant PROVE Early(state, stack')
  <2> PICK g0 \in Frames : g0 = Frame("seq") /\ g0.kind = "seq"
    BY <1>11, NewCall
  <2> PICK g : g = [g0 EXCEPT !.ends = 2]
    OBVIOUS
  <2>1. g \in Frames /\ g.kind = "seq"
    BY DEF Frames
  <2> QED BY <1>8, <1>21, <2>1 DEF SerializeTupleVariant, Asked, In
<1>22. ASSUME SerializeStructVariant PROVE Early(state, stack')
  <2> PICK g0 \in Frames : g0 = Frame("struct") /\ g0.kind = "struct"
    BY <1>11, NewCall
  <2> PICK g : g = [g0 EXCEPT !.ends = 2]
    OBVIOUS
  <2>1. g \in Frames /\ g.kind = "struct"
    BY DEF Frames
  <2> QED BY <1>8, <1>22, <2>1 DEF SerializeStructVariant, Asked, In
<1>23. ASSUME SerializeAnchor PROVE Early(state, stack')
  BY <1>13, <1>23 DEF SerializeAnchor, Asked, Names
<1>24. ASSUME SerializeAlias PROVE Early(state, stack')
  BY <1>14, <1>24 DEF SerializeAlias, Asked
<1>25. ASSUME SerializeRc PROVE Early(state, stack')
  <2>1. In("node", "open")
    BY <1>25 DEF SerializeRc, Asked
  <2>2. PICK p \in Pointers :
          IF p \in DOMAIN ser.names
            THEN Aliased(ser.names[p])
            ELSE /\ ser.counter < Len(AnchorName)
                 /\ LET name == AnchorName[ser.counter + 1]
                    IN  Anchored([ser EXCEPT !.counter = @ + 1,
                                             !.names = [q \in DOMAIN @ \cup {p} |->
                                                          IF q = p THEN name ELSE @[q]]],
                                 name)
    BY <1>25 DEF SerializeRc
  <2>3. CASE p \in DOMAIN ser.names
    BY <1>14, <2>1, <2>2, <2>3
  <2>4. CASE p \notin DOMAIN ser.names
    <3> PICK name : name = AnchorName[ser.counter + 1]
      OBVIOUS
    <3> PICK names : names = [q \in DOMAIN ser.names \cup {p} |->
                                IF q = p THEN name ELSE ser.names[q]]
      OBVIOUS
    <3> PICK counter : counter = ser.counter + 1
      OBVIOUS
    <3> PICK s : s = [ser EXCEPT !.counter = counter, !.names = names]
      OBVIOUS
    <3>1. ser.counter < Len(AnchorName) /\ Anchored(s, name)
      BY <2>2, <2>4
    <3>2. ser \in Serializers
      BY DEF CallsOK, Resting
    <3>3. ser.counter + 1 \in DOMAIN AnchorName
      BY <3>1, <3>2, SerializerAssumption DEF Serializers
    <3>4. name \in Names
      BY <3>3 DEF Names
    <3>5. s.state = ser.state
      BY <3>2 DEF Serializers
    <3> QED BY <1>13, <2>1, <3>1, <3>4, <3>5
  <2> QED BY <2>3, <2>4
<1>26. ASSUME SerializeFlow PROVE Early(state, stack')
  <2>1. PICK kind \in {"flowSeq", "flowMap"} :
          /\ In("node", "open")
          /\ Do(IF kind = "flowSeq" THEN [ser EXCEPT !.flowSeq = TRUE]
                                    ELSE [ser EXCEPT !.flowMap = TRUE],
                Inside([Frame(kind) EXCEPT !.step = "value"]))
    BY <1>26 DEF SerializeFlow, Asked
  <2> PICK t : t = IF kind = "flowSeq" THEN [ser EXCEPT !.flowSeq = TRUE]
                                       ELSE [ser EXCEPT !.flowMap = TRUE]
    OBVIOUS
  <2> PICK g0 \in Frames : g0 = Frame(kind) /\ g0.kind = kind
    BY <1>11, NewCall
  <2> PICK g : g = [g0 EXCEPT !.step = "value"]
    OBVIOUS
  <2>2. g \in Frames /\ g.kind = kind
    BY DEF Frames
  <2>3. ~Marked(g) /\ t.state = ser.state
    BY <2>2 DEF Marked
  <2> QED BY <1>10, <2>1, <2>2, <2>3
<1>27. ASSUME Fail \/ EndFlow PROVE Early(state, stack')
  BY <1>6, <1>7, <1>27 DEF Fail, EndFlow, Abort, In
<1>29. ASSUME NextElement PROVE Early(state, stack')
  <2> PICK g : g = [f EXCEPT !.step = "value"]
    OBVIOUS
  <2>1. stack # <<>> /\ f.kind = "seq" /\ f \in Frames /\ Do(ser, Inside(g))
    BY <1>4, <1>29 DEF NextElement, In
  <2>2. g \in Frames /\ g.kind \notin Transparent
    BY <2>1 DEF Frames, Transparent
  <2> QED BY <1>9, <2>1, <2>2
<1>30. ASSUME NextField PROVE Early(state, stack')
  <2> PICK g : g = [f EXCEPT !.step = "value"]
    OBVIOUS
  <2>1. stack # <<>> /\ f.kind = "struct" /\ f \in Frames /\ Do(EmitScalar(ser), Inside(g))
    BY <1>4, <1>30 DEF NextField, In
  <2>2. g \in Frames /\ g.kind \notin Transparent
    BY <2>1 DEF Frames, Transparent
  <2> QED BY <1>9, <2>1, <2>2
<1>31. ASSUME NextKey PROVE Early(state, stack')
  <2>1. PICK entry \in BOOLEAN :
          /\ In("map", "open")
          /\ Do(IF entry THEN ser ELSE FlushMappingStart(ser),
                Inside([Top EXCEPT !.step = "key", !.entry = entry]))
    BY <1>31 DEF NextKey
  <2> PICK g : g = [f EXCEPT !.step = "key", !.entry = entry]
    OBVIOUS
  <2>2. stack # <<>> /\ f.kind = "map" /\ f \in Frames
    BY <1>4, <2>1 DEF In
  <2>3. g \in Frames /\ g.kind \notin Transparent
    BY <2>2 DEF Frames, Transparent
  <2> QED BY <1>9, <2>1, <2>2, <2>3
<1>32. ASSUME TagKey PROVE Early(state, stack')
  <2> PICK g : g = [f EXCEPT !.step = "keyed", !.entry = TRUE]
    OBVIOUS
  <2>1. stack # <<>> /\ f.kind = "map" /\ f \in Frames /\ Do(FoundTag(f.tag), Instead(g))
    BY <1>4, <1>32 DEF TagKey, In
  <2>2. g \in Frames /\ g.kind = "map"
    BY <2>1 DEF Frames
  <2> QED BY <1>8, <2>1, <2>2
<1>33. ASSUME NextValue PROVE Early(state, stack')
  <2> PICK tagged \in BOOLEAN : tagged = (f.entry /\ ser.state = "FoundTag")
    OBVIOUS
  <2> PICK g : g = [f EXCEPT !.step = "value", !.tagged = tagged]
    OBVIOUS
  <2>1. stack # <<>> /\ f.kind = "map" /\ f \in Frames /\ Do(ser, Inside(g))
    BY <1>4, <1>33 DEF NextValue, In
  <2>2. g \in Frames /\ g.kind \notin Transparent
    BY <2>1 DEF Frames, Transparent
  <2> QED BY <1>9, <2>1, <2>2
<1>34. ASSUME EndEntry PROVE Early(state, stack')
  <2> PICK g : g = [f EXCEPT !.step = "open", !.begun = TRUE]
    OBVIOUS
  <2>1. /\ stack # <<>> /\ f.kind = "map" /\ f \in Frames
        /\ Do(IF f.tagged THEN [ser EXCEPT !.state = "AlreadyTagged"] ELSE ser, Instead(g))
    BY <1>4, <1>34 DEF EndEntry, In
  <2>2. g \in Frames /\ g.kind = "map"
    BY <2>1 DEF Frames
  <2> QED BY <1>8, <2>1, <2>2
<1>35. ASSUME EndSeq \/ EndStruct \/ EndMap \/ EndVariant \/ EndAnchor PROVE Early(state, stack')
  BY <1>7, <1>35 DEF EndSeq, EndStruct, EndMap, EndVariant, EndAnchor, In
<1> QED
  BY <1>12, <1>15, <1>16, <1>17, <1>18, <1>19, <1>20, <1>21, <1>22, <1>23, <1>24, <1>25, <1>26,
     <1>27, <1>29, <1>30, <1>31, <1>32, <1>33, <1>34, <1>35 DEF Next

\* The caller has no calls in progress: the last value is a document.
LEMMA NoCallsLeft ==
  ASSUME NEW s, Whole(s, <<>>, {})
  PROVE  /\ s.open = <<>> /\ s.state = "NothingInParticular" /\ s.names = NoNames
         /\ ~s.flowSeq /\ ~s.flowMap
<1> PICK c : c = <<>>
  OBVIOUS
<1> PICK n : n = 0
  OBVIOUS
<1> PICK L : L = Levels(s)
  OBVIOUS
<1> PICK errs : errs = {}
  OBVIOUS
<1>1. c \in Seq(Frames) /\ Len(c) = n /\ n \in Nat
  OBVIOUS
<1>2. Sound(s) /\ Styled(s, c) /\ Fits(L, s.state, s.names, c, errs)
  BY DEF Whole
<1>3. PICK h, m : /\ Base(L, c, h, m, Stage(c, h, m[n]))
                  /\ Status(L, s.state, s.names, c, h, m[n], errs)
  BY ONLY <1>1, <1>2 DEF Fits
<1>4. Heights(L, c, h) /\ Heads(c, h, m)
  BY <1>1, <1>3, BaseFacts
<1>5. m[n] = 0
  <2>1. m[n] \in 0 .. n
    BY <1>1, <1>4, HeadFacts
  <2> QED BY <2>1
<1>6. h[1] = 0 /\ s.state = "NothingInParticular"
  BY <1>3, <1>5 DEF Status
<1>7. Len(L) = 0
  <2>1. n + 1 = 1
    OBVIOUS
  <2> QED BY <1>1, <1>4, <1>6, <2>1 DEF Heights
<1>8. s.depth = 0 /\ s.open = <<>> /\ L = <<>>
  BY <1>2, <1>7, LevelsCount
<1>9. s.names = NoNames
  BY <1>3, <1>5, <1>8 DEF Status, Emitting, Asking
<1>10. \A kind : ~Has(c, kind)
  BY DEF Has
<1> QED BY <1>2, <1>6, <1>8, <1>9, <1>10 DEF Styled

-----------------------------------------------------------------------------
(* Levels in the events.                                                   *)

LEMMA LevelTypes ==
  ASSUME NEW out, NEW i \in Nat, NEW k \in Nat
  PROVE  /\ IsFiniteSet(StartsOf(out, i, k)) /\ IsFiniteSet(EndsOf(out, i, k))
         /\ Cardinality(StartsOf(out, i, k)) \in Nat /\ Cardinality(EndsOf(out, i, k)) \in Nat
         /\ Level(out, i, k) \in Int
<1>1. IsFiniteSet(i .. k)
  BY FS_Interval
<1>2. StartsOf(out, i, k) \subseteq i .. k /\ EndsOf(out, i, k) \subseteq i .. k
  BY DEF StartsOf, EndsOf
<1>3. IsFiniteSet(StartsOf(out, i, k)) /\ IsFiniteSet(EndsOf(out, i, k))
  BY <1>1, <1>2, FS_Subset
<1>4. Cardinality(StartsOf(out, i, k)) \in Nat /\ Cardinality(EndsOf(out, i, k)) \in Nat
  BY <1>3, FS_CardinalityType
<1> QED BY <1>3, <1>4 DEF Level

\* No events open nothing.
LEMMA LevelOfNone ==
  ASSUME NEW out, NEW i \in Nat
  PROVE  Level(out, i + 1, i) = 0
<1>1. StartsOf(out, i + 1, i) = {} /\ EndsOf(out, i + 1, i) = {}
  BY DEF StartsOf, EndsOf
<1>2. Cardinality({}) = 0
  BY FS_EmptySet
<1> QED BY <1>1, <1>2 DEF Level

\* One more event.
LEMMA LevelOfAppend ==
  ASSUME NEW out \in Seq(Events), NEW n \in Nat, Len(out) = n, NEW e \in Events,
         NEW i \in 1 .. n + 1
  PROVE  /\ \A k \in i .. n : Level(Append(out, e), i, k) = Level(out, i, k)
         /\ Level(Append(out, e), i, n + 1) = Level(out, i, n) + Delta(e)
<1> PICK all : all = Append(out, e)
  OBVIOUS
<1> PICK p \in Nat : p = n + 1
  OBVIOUS
<1>1. all[p] = e /\ \A j \in 1 .. n : all[j] = out[j]
  OBVIOUS
<1>2. ASSUME NEW k \in Nat, k <= n
      PROVE  /\ StartsOf(all, i, k) = StartsOf(out, i, k)
             /\ EndsOf(all, i, k) = EndsOf(out, i, k)
  <2>1. \A j \in i .. k : j \in 1 .. n
    BY <1>2
  <2> QED BY ONLY <1>1, <2>1 DEF StartsOf, EndsOf
<1>3. \A k \in i .. n : Level(all, i, k) = Level(out, i, k)
  BY <1>2 DEF Level
<1>4. /\ \A j \in i .. p : j = p \/ j \in i .. n
      /\ \A j \in i .. n : j \in i .. p /\ j \in 1 .. n
      /\ p \in i .. p /\ p \notin i .. n
  OBVIOUS
<1>5. /\ StartsOf(all, i, p) = StartsOf(out, i, n) \cup (IF IsStart(e) THEN {p} ELSE {})
      /\ EndsOf(all, i, p) = EndsOf(out, i, n) \cup (IF IsEnd(e) THEN {p} ELSE {})
  BY ONLY <1>1, <1>4 DEF StartsOf, EndsOf
<1>6. p \notin StartsOf(out, i, n) /\ p \notin EndsOf(out, i, n)
  BY <1>4 DEF StartsOf, EndsOf
<1>7. /\ IsFiniteSet(StartsOf(out, i, n)) /\ IsFiniteSet(EndsOf(out, i, n))
      /\ Cardinality(StartsOf(out, i, n)) \in Nat /\ Cardinality(EndsOf(out, i, n)) \in Nat
  <2>1. i \in Nat
    OBVIOUS
  <2> QED BY <2>1, LevelTypes
<1>8. /\ Cardinality(StartsOf(all, i, p)) =
           Cardinality(StartsOf(out, i, n)) + (IF IsStart(e) THEN 1 ELSE 0)
      /\ Cardinality(EndsOf(all, i, p)) =
           Cardinality(EndsOf(out, i, n)) + (IF IsEnd(e) THEN 1 ELSE 0)
  <2>1. \A S : S \cup {} = S
    OBVIOUS
  <2>2. Cardinality(StartsOf(out, i, n) \cup {p}) = Cardinality(StartsOf(out, i, n)) + 1
    BY <1>6, <1>7, FS_AddElement
  <2>3. Cardinality(EndsOf(out, i, n) \cup {p}) = Cardinality(EndsOf(out, i, n)) + 1
    BY <1>6, <1>7, FS_AddElement
  <2>4. Cardinality(StartsOf(all, i, p)) =
          Cardinality(StartsOf(out, i, n)) + (IF IsStart(e) THEN 1 ELSE 0)
    <3>1. CASE IsStart(e)
      BY <1>5, <2>2, <3>1
    <3>2. CASE ~IsStart(e)
      <4>1. StartsOf(all, i, p) = StartsOf(out, i, n)
        BY <1>5, <2>1, <3>2
      <4> QED BY <1>7, <3>2, <4>1
    <3> QED BY <3>1, <3>2
  <2>5. Cardinality(EndsOf(all, i, p)) =
          Cardinality(EndsOf(out, i, n)) + (IF IsEnd(e) THEN 1 ELSE 0)
    <3>1. CASE IsEnd(e)
      BY <1>5, <2>3, <3>1
    <3>2. CASE ~IsEnd(e)
      <4>1. EndsOf(all, i, p) = EndsOf(out, i, n)
        BY <1>5, <2>1, <3>2
      <4> QED BY <1>7, <3>2, <4>1
    <3> QED BY <3>1, <3>2
  <2> QED BY <2>4, <2>5
<1>9. ~(IsStart(e) /\ IsEnd(e))
  BY DEF IsStart, IsEnd
<1>10. Level(all, i, p) = Level(out, i, n) + Delta(e)
  BY ONLY <1>7, <1>8, <1>9 DEF Level, Delta
<1> QED BY <1>3, <1>10

-----------------------------------------------------------------------------
(* The node of an anchor or a tag.                                         *)

\* What is known of a node depends on the document, the anchor and the tag.
LEMMA CameAgain ==
  ASSUME NEW s, NEW over, NEW f, Came(s, over, f),
         NEW t, t.out = s.out, t.depth = s.depth, NEW more, over => more,
         NEW g, g.kind = f.kind, g.floor = f.floor, g.start = f.start, g.name = f.name,
         g.tag = f.tag
  PROVE  Came(t, more, g)
BY DEF Came, Bears

\* One event more, in the node.
LEMMA CameMore ==
  ASSUME NEW s, s.out \in Seq(Events), s.depth \in Nat, NEW over, NEW f \in Frames,
         Came(s, over, f), f.floor < s.depth,
         NEW e \in Events, NEW t, t.out = Append(s.out, e), t.depth = s.depth + Delta(e)
  PROVE  Came(t, over, f)
<1> PICK n \in Nat : n = Len(s.out)
  OBVIOUS
<1> PICK i : i = f.start + 1
  OBVIOUS
<1>1. /\ i \in 1 .. n + 1 /\ i <= n /\ ~IsEnd(s.out[i]) /\ i \in Nat
      /\ \A k \in i .. n - 1 : Level(s.out, i, k) > 0
      /\ Level(s.out, i, n) = s.depth - f.floor
      /\ Bears(over, f, s.out[i])
  <2>1. f.start \in Nat
    BY DEF Frames
  <2>2. i <= n
    BY DEF Came
  <2> QED BY <2>1, <2>2 DEF Came
<1>2. /\ \A k \in i .. n : Level(t.out, i, k) = Level(s.out, i, k)
      /\ Level(t.out, i, n + 1) = Level(s.out, i, n) + Delta(e)
  BY <1>1, LevelOfAppend
<1>3. f.floor \in Nat /\ Delta(e) \in Int /\ s.depth - f.floor > 0
  BY DEF Frames, Delta
<1>4. Len(t.out) = n + 1 /\ t.out[i] = s.out[i] /\ i <= n + 1
  BY <1>1
<1>5. ASSUME NEW k \in i .. n PROVE Level(t.out, i, k) > 0
  <2>1. CASE k = n
    BY <1>1, <1>2, <1>3, <2>1
  <2>2. CASE k # n
    <3>1. k \in i .. n - 1
      BY <1>1, <2>2
    <3> QED BY <1>1, <1>2, <3>1
  <2> QED BY <2>1, <2>2
<1>6. Level(t.out, i, n + 1) = t.depth - f.floor
  BY ONLY <1>1, <1>2, <1>3, s.depth \in Nat, t.depth = s.depth + Delta(e)
<1>7. n + 1 - 1 = n
  OBVIOUS
<1> QED BY <1>1, <1>4, <1>5, <1>6, <1>7 DEF Came

\* The event of a node, in f or at its beginning.
LEMMA CameNode ==
  ASSUME NEW s, s.out \in Seq(Events), s.depth \in Nat, NEW over, NEW f \in Frames,
         Fair(s, over, f), NEW e \in Events, ~IsEnd(e), Due(s, over, f) => Bears(over, f, e),
         NEW t, t.out = Append(Written(s), e), t.depth = s.depth + Delta(e)
  PROVE  Done(t, over, f) /\ (IsStart(e) => f.floor < t.depth)
<1>1. f.floor \in Nat /\ f.start \in Nat /\ f.floor <= s.depth
  BY DEF Frames, Fair
<1>2. Delta(e) = IF IsStart(e) THEN 1 ELSE 0
  BY DEF Delta
<1>3. f.floor <= t.depth /\ (IsStart(e) => f.floor < t.depth)
  BY <1>1, <1>2
<1>4. CASE s.depth = f.floor
  <2> PICK w : w = Written(s)
    OBVIOUS
  <2>7. w \in Seq(Events)
    <3>1. <<>> \in Seq(Events)
      OBVIOUS
    <3> QED BY <3>1 DEF Written
  <2> PICK n \in Nat : n = Len(w)
    BY <2>7
  <2>1. f.start = n /\ Bears(over, f, e)
    BY <1>4 DEF Fair, MarkOK, Ahead
  <2>2. Len(t.out) = n + 1 /\ t.out[n + 1] = e
    BY <2>7
  <2>3. Level(t.out, n + 1, n + 1) = Delta(e)
    <3>1. n + 1 \in 1 .. n + 1
      OBVIOUS
    <3>2. Level(t.out, n + 1, n + 1) = Level(w, n + 1, n) + Delta(e)
      BY <2>7, <3>1, LevelOfAppend
    <3>3. Level(w, n + 1, n) = 0
      BY LevelOfNone
    <3> QED BY <1>2, <3>2, <3>3
  <2>4. t.depth - f.floor = Delta(e)
    BY <1>1, <1>2, <1>4
  <2>5. \A k \in n + 1 .. n + 1 - 1 : FALSE
    OBVIOUS
  <2>6. Came(t, over, f)
    BY <2>1, <2>2, <2>3, <2>4, <2>5 DEF Came
  <2> QED BY <1>3, <2>6 DEF Done
<1>5. CASE s.depth # f.floor
  <2>1. Came(s, over, f) /\ f.floor < s.depth
    BY <1>1, <1>5 DEF Fair, MarkOK
  <2>2. Written(s) = s.out
    BY <1>1, <2>1 DEF Written
  <2>3. Came(t, over, f)
    BY <2>1, <2>2, CameMore
  <2> QED BY <1>3, <2>3 DEF Done
<1> QED BY <1>4, <1>5

-----------------------------------------------------------------------------
(* What the methods of the serializer write.                               *)

LEMMA ValueEndWritten ==
  ASSUME NEW v \in Serializers
  PROVE  /\ ValueEnd(v).out = v.out /\ ValueEnd(v).pending = v.pending
         /\ ValueEnd(v).tag = v.tag
<1> PICK t : t = [v EXCEPT !.depth = @ - 1]
  OBVIOUS
<1> PICK u : u = EmitDocumentEnd(t)
  OBVIOUS
<1>1. t.out = v.out /\ t.pending = v.pending /\ t.tag = v.tag
  BY DEF Serializers
<1>2. u.out = t.out /\ u.pending = t.pending /\ u.tag = t.tag
  BY DEF EmitDocumentEnd, Refused, Serializers
<1>3. ValueEnd(v) = IF v.failed THEN v ELSE IF t.depth # 0 THEN t
                    ELSE IF u.failed THEN u ELSE Reset(u)
  BY DEF ValueEnd
<1>4. Reset(u).out = u.out /\ Reset(u).pending = u.pending /\ Reset(u).tag = u.tag
  BY DEF Reset, EmitDocumentEnd, Refused, Serializers
<1> QED BY <1>1, <1>2, <1>3, <1>4

LEMMA ValueStartWritten ==
  ASSUME NEW s, Sound(s)
  PROVE  /\ ValueStart(s).out = Written(s) /\ Written(s) \in Seq(Events)
         /\ s \in Serializers /\ s.depth \in Nat /\ s.out \in Seq(Events)
<1>1. s \in Serializers /\ ~s.failed /\ s.depth \in Nat
  BY LevelsCount DEF Sound
<1>2. s.out \in Seq(Events)
  BY <1>1 DEF Serializers
<1>3. CASE s.depth = 0
  <2>1. s.open = <<>>
    BY <1>3, LevelsCount
  <2>2. ValueStart(s) = [[s EXCEPT !.open = <<"root">>, !.out = <<>>] EXCEPT !.depth = @ + 1]
    BY <1>1, <1>3, <2>1 DEF ValueStart, EmitDocumentStart
  <2> QED BY <1>1, <1>2, <1>3, <2>2 DEF Serializers, Written
<1>4. CASE s.depth # 0
  <2>1. ValueStart(s) = [s EXCEPT !.depth = @ + 1]
    BY <1>1, <1>4 DEF ValueStart
  <2> QED BY <1>1, <1>2, <1>4, <2>1 DEF Serializers, Written
<1> QED BY <1>3, <1>4

\* A collection or a scalar takes what is due.
LEMMA DueTaken ==
  ASSUME NEW s, NEW over, NEW f, f.kind \in {"anchor", "map"}, Due(s, over, f), NEW type
  PROVE  Bears(over, f, NodeEvent(s, type))
BY DEF Due, Bears, NodeEvent

LEMMA StartWritten ==
  ASSUME NEW s, Sound(s), NEW type \in {"SequenceStart", "MappingStart"}
  PROVE  LET t == Taken(EmitStart(ValueStart(s), NodeEvent(s, type)))
         IN  /\ t \in Serializers
             /\ t.out = Append(Written(s), NodeEvent(s, type)) /\ t.depth = s.depth + 1
<1> PICK e : e = NodeEvent(s, type)
  OBVIOUS
<1> PICK u : u = ValueStart(s)
  OBVIOUS
<1> PICK t : t = Taken(EmitStart(u, e))
  OBVIOUS
<1>1. /\ u \in Serializers /\ ~u.failed /\ u.depth = s.depth + 1
      /\ Expecting(u, {"root", "item", "key", "value"})
  BY NodeBegins
<1>2. u.out = Written(s)
  BY ValueStartWritten
<1> PICK open : open = Append(AfterNode(u.open), IF e.type = "SequenceStart" THEN "item" ELSE "key")
  OBVIOUS
<1>3. EmitStart(u, e) = [u EXCEPT !.open = open, !.out = Append(@, e)]
  BY <1>1 DEF EmitStart, Given
<1>4. t.out = Append(u.out, e) /\ t.depth = u.depth
  BY <1>1, <1>3 DEF Taken, Serializers
<1>5. t \in Serializers
  BY StartEffect DEF Effect, Sound, Resting
<1> QED BY <1>1, <1>2, <1>4, <1>5

\* The flags of the styles aside.
LEMMA StartMark ==
  ASSUME NEW s, Sound(s), NEW over, NEW f \in Frames, f.kind \in {"anchor", "map"},
         Fair(s, over, f), NEW type \in {"SequenceStart", "MappingStart"},
         NEW t, t.out = Append(Written(s), NodeEvent(s, type)), t.depth = s.depth + 1
  PROVE  Done(t, over, f) /\ f.floor < t.depth
<1> PICK e : e = NodeEvent(s, type)
  OBVIOUS
<1>1. e \in Events /\ e.type = type
  BY NodeEvents, LevelsCount
<1>2. IsStart(e) /\ ~IsEnd(e) /\ Delta(e) = 1
  BY <1>1 DEF IsStart, IsEnd, Delta
<1>3. Due(s, over, f) => Bears(over, f, e)
  BY DueTaken
<1>4. s.depth \in Nat /\ s.out \in Seq(Events)
  BY ValueStartWritten
<1>5. t.out = Append(Written(s), e) /\ t.depth = s.depth + Delta(e)
  BY <1>2
<1> QED BY ONLY <1>1, <1>2, <1>3, <1>4, <1>5, f \in Frames, Fair(s, over, f), CameNode

LEMMA ScalarMark ==
  ASSUME NEW s, Sound(s), NEW over, NEW f \in Frames, f.kind \in {"anchor", "map"},
         Fair(s, over, f),
         NEW t, t = ValueEnd(Taken(EmitLeaf(ValueStart(s), NodeEvent(s, "Scalar"))))
  PROVE  Done(t, over, f) /\ t.depth = s.depth
<1> PICK e : e = NodeEvent(s, "Scalar")
  OBVIOUS
<1> PICK u : u = ValueStart(s)
  OBVIOUS
<1> PICK v : v = Taken(EmitLeaf(u, e))
  OBVIOUS
<1>1. e \in Events /\ e.type = "Scalar"
  BY NodeEvents, LevelsCount
<1>2. /\ u \in Serializers /\ ~u.failed
      /\ Expecting(u, {"root", "item", "key", "value"}) /\ u.out = Written(s)
  BY NodeBegins, ValueStartWritten
<1> PICK open : open = AfterNode(u.open)
  OBVIOUS
<1>3. EmitLeaf(u, e) = [u EXCEPT !.open = open, !.out = Append(@, e)]
  BY <1>2 DEF EmitLeaf, Given
<1>4. v.out = Append(Written(s), e)
  BY <1>2, <1>3 DEF Taken, Serializers
<1>5. Within(v)
  <2>1. Within(u) /\ SameBut(s, u)
    BY ValueStartWithin DEF Sound
  <2>2. e.anchor = s.pending
    BY NodeEvents, LevelsCount
  <2>3. Within(EmitLeaf(u, e)) /\ Emitted(u, EmitLeaf(u, e), e)
    BY <1>1, <2>1, LeafWithin DEF Allowed
  <2>4. Carries(EmitLeaf(u, e))
    BY <1>1, <2>1, <2>2, <2>3 DEF Carries, Emitted, SameBut
  <2> QED BY <2>3, <2>4, TakenRests
<1>6. t.out = v.out
  BY <1>5, ValueEndWritten DEF Within
<1>7. t.depth = s.depth
  <2>1. Effect(s, t, Flip(Levels(s)), "NothingInParticular")
    BY ScalarEffect
  <2>2. Levels(s) \in Seq(Slots) /\ Len(Levels(s)) = s.depth
    BY LevelsCount
  <2>3. Len(Flip(Levels(s))) = s.depth
    BY <2>2, FlipLevels
  <2> QED BY <2>1, <2>3, LevelsCount DEF Effect
<1>8. ~IsEnd(e) /\ Delta(e) = 0
  BY <1>1 DEF IsStart, IsEnd, Delta
<1>9. s.depth \in Nat /\ s.out \in Seq(Events)
  BY ValueStartWritten
<1>10. t.out = Append(Written(s), e) /\ t.depth = s.depth + Delta(e)
  <2>1. t.out = Append(Written(s), e)
    BY ONLY <1>4, <1>6
  <2>2. t.depth = s.depth + Delta(e)
    BY ONLY <1>7, <1>8, <1>9
  <2> QED BY <2>1, <2>2
<1>11. Due(s, over, f) => Bears(over, f, e)
  BY DueTaken
<1>12. Done(t, over, f)
  BY ONLY <1>1, <1>8, <1>9, <1>10, <1>11, f \in Frames, Fair(s, over, f), CameNode
<1> QED BY <1>7, <1>12

LEMMA AliasMark ==
  ASSUME NEW s, Sound(s), NEW over, NEW f \in Frames, Fair(s, over, f),
         NEW name \in Names, s.check => name \in s.anchors,
         NEW t, t = ValueEnd(EmitLeaf(ValueStart(s), [Event("Alias") EXCEPT !.anchor = name]))
  PROVE  Done(t, over, f) /\ t.depth = s.depth
<1> PICK e : e = [Event("Alias") EXCEPT !.anchor = name]
  OBVIOUS
<1> PICK u : u = ValueStart(s)
  OBVIOUS
<1> PICK v : v = EmitLeaf(u, e)
  OBVIOUS
<1>1. e \in Events /\ e.type = "Alias" /\ e.anchor = name
  BY DEF Event, Events
<1>2. /\ u \in Serializers /\ ~u.failed
      /\ Expecting(u, {"root", "item", "key", "value"}) /\ u.out = Written(s)
  BY NodeBegins, ValueStartWritten
<1> PICK open : open = AfterNode(u.open)
  OBVIOUS
<1>3. v = [u EXCEPT !.open = open, !.out = Append(@, e)]
  BY <1>2 DEF EmitLeaf, Given
<1>4. v.out = Append(Written(s), e)
  BY <1>2, <1>3 DEF Serializers
<1>5. Within(v)
  <2>1. Within(u) /\ SameBut(s, u)
    BY ValueStartWithin DEF Sound
  <2>2. Allowed(u, e)
    BY <1>1, <2>1 DEF Allowed, SameBut
  <2> QED BY <1>1, <2>1, <2>2, LeafWithin
<1>6. t.out = v.out
  BY <1>5, ValueEndWritten DEF Within
<1>7. t.depth = s.depth
  <2>1. Effect(s, t, Flip(Levels(s)), s.state)
    BY AliasEffect
  <2>2. Levels(s) \in Seq(Slots) /\ Len(Levels(s)) = s.depth
    BY LevelsCount
  <2>3. Len(Flip(Levels(s))) = s.depth
    BY <2>2, FlipLevels
  <2> QED BY <2>1, <2>3, LevelsCount DEF Effect
<1>8. ~IsEnd(e) /\ Delta(e) = 0
  BY <1>1 DEF IsStart, IsEnd, Delta
<1>9. s.depth \in Nat /\ s.out \in Seq(Events)
  BY ValueStartWritten
<1>10. t.out = Append(Written(s), e) /\ t.depth = s.depth + Delta(e)
  <2>1. t.out = Append(Written(s), e)
    BY ONLY <1>4, <1>6
  <2>2. t.depth = s.depth + Delta(e)
    BY ONLY <1>7, <1>8, <1>9
  <2> QED BY <2>1, <2>2
<1>11. Due(s, over, f) => Bears(over, f, e)
  BY <1>1 DEF Bears
<1>12. Done(t, over, f)
  BY ONLY <1>1, <1>8, <1>9, <1>10, <1>11, f \in Frames, Fair(s, over, f), CameNode
<1> QED BY <1>7, <1>12

\* The end of a collection in f.
LEMMA EndMark ==
  ASSUME NEW s, Sound(s), NEW over, NEW f \in Frames, Came(s, over, f), f.floor < s.depth,
         NEW type \in {"SequenceEnd", "MappingEnd"},
         NEW L \in Seq(Slots), NEW slot, Levels(s) = Append(L, slot),
         slot = IF type = "SequenceEnd" THEN "item" ELSE "key",
         NEW t, t = ValueEnd(EmitEnd(s, Event(type)))
  PROVE  Done(t, over, f) /\ t.depth = s.depth - 1
<1> PICK e : e = Event(type)
  OBVIOUS
<1> PICK v : v = EmitEnd(s, e)
  OBVIOUS
<1>1. Within(v)
  BY EndWithin DEF Sound
<1>2. /\ s \in Serializers /\ ~s.failed /\ s.depth = Len(L) + 1 /\ Len(L) \in Nat
      /\ s.open # <<>> /\ Len(s.open) = s.depth + 1 /\ s.open[s.depth + 1] = slot
  <2>1. Len(Append(L, slot)) = Len(L) + 1 /\ Append(L, slot)[Len(L) + 1] = slot /\ Len(L) \in Nat
    OBVIOUS
  <2>2. s.depth = Len(L) + 1 /\ s.depth # 0 /\ s.depth \in 1 .. s.depth
    BY <2>1, LevelsCount
  <2>3. s \in Serializers /\ Len(s.open) = s.depth + 1 /\ s.open # <<>> /\ ~s.failed
    BY <2>2, LevelsCount DEF Sound
  <2>4. s.open[s.depth + 1] = Levels(s)[s.depth]
    BY <2>2, LevelsCount
  <2> QED BY <2>1, <2>2, <2>3, <2>4
<1>3. e \in Events /\ e.type = type
  BY DEF Event, Events
<1>4. Expecting(s, IF e.type = "SequenceEnd" THEN {"item"} ELSE {"key"})
  BY <1>2, <1>3 DEF Expecting, LastOf
<1> PICK open : open = ButLast(s.open)
  OBVIOUS
<1>5. v = [s EXCEPT !.open = open, !.out = Append(@, e)]
  BY <1>2, <1>4 DEF EmitEnd, Given
<1>6. v.out = Append(s.out, e)
  BY <1>2, <1>5 DEF Serializers
<1>7. t.out = v.out
  BY <1>1, ValueEndWritten DEF Within
<1>8. t.depth = s.depth - 1
  <2>1. Effect(s, t, L, s.state)
    BY EndEffect
  <2>2. t.depth = Len(L)
    BY <2>1, LevelsCount DEF Effect
  <2> QED BY <1>2, <2>2
<1>9. Delta(e) = -1
  BY <1>3 DEF IsStart, IsEnd, Delta
<1>10. s.depth \in Nat /\ s.out \in Seq(Events)
  BY ValueStartWritten
<1>11. t.out = Append(s.out, e) /\ t.depth = s.depth + Delta(e)
  BY <1>6, <1>7, <1>8, <1>9, <1>10
<1>12. Came(t, over, f)
  BY ONLY <1>3, <1>10, <1>11, f \in Frames, Came(s, over, f), f.floor < s.depth, CameMore
<1>13. f.floor <= t.depth
  BY <1>8, <1>10 DEF Frames
<1> QED BY <1>8, <1>12, <1>13 DEF Done

-----------------------------------------------------------------------------
(* What the methods of the serializer do to the node of a watched call.    *)

LEMMA SameMark ==
  ASSUME NEW s, NEW over, NEW f, Fair(s, over, f),
         NEW t, t.out = s.out, t.depth = s.depth, NEW more, over => more,
         Due(s, over, f) => Due(t, more, f)
  PROVE  Fair(t, more, f)
<1>1. Came(s, over, f) => Came(t, more, f)
  BY CameAgain
<1>2. Ahead(s, f) => Ahead(t, f)
  BY DEF Ahead, Written
<1> QED BY <1>1, <1>2 DEF Fair, MarkOK

\* In a collection of its node.
LEMMA CameFair ==
  ASSUME NEW s, s.depth \in Nat, NEW over, NEW f \in Frames
  PROVE  /\ Came(s, over, f) /\ f.floor < s.depth => Fair(s, over, f)
         /\ Fair(s, over, f) /\ f.floor < s.depth => Came(s, over, f)
<1>1. f.floor \in Nat
  BY DEF Frames
<1> QED BY <1>1 DEF Fair, MarkOK

LEMMA FlushSound ==
  ASSUME NEW s, Sound(s)
  PROVE  Sound(FlushMappingStart(s)) /\ FlushMappingStart(s).depth \in Nat
<1>1. Sound(FlushMappingStart(s))
  BY FlushEffect DEF Effect
<1> QED BY <1>1, LevelsCount

\* The start of a mapping.
LEMMA MappingMark ==
  ASSUME NEW s, Sound(s), NEW over, NEW f \in Frames, f.kind \in {"anchor", "map"},
         Fair(s, over, f)
  PROVE  Came(MappingStart(s), over, f) /\ f.floor < MappingStart(s).depth
<1> PICK v : v = Taken(EmitStart(ValueStart(s), NodeEvent(s, "MappingStart")))
  OBVIOUS
<1> PICK t : t = [v EXCEPT !.flowMap = FALSE]
  OBVIOUS
<1>1. /\ v \in Serializers /\ v.out = Append(Written(s), NodeEvent(s, "MappingStart"))
      /\ v.depth = s.depth + 1
  BY StartWritten
<1>2. t.out = v.out /\ t.depth = v.depth
  BY <1>1 DEF Serializers
<1>3. Done(t, over, f) /\ f.floor < t.depth
  BY <1>1, <1>2, StartMark
<1>4. t = MappingStart(s)
  BY DEF MappingStart
<1> QED BY <1>3, <1>4 DEF Done

\* A mapping whose start was put off is a node of its own.
LEMMA FlushMark ==
  ASSUME NEW s, Sound(s), NEW over, NEW f \in Frames, f.kind \in {"anchor", "map"},
         Fair(s, over, f)
  PROVE  Fair(FlushMappingStart(s), over, f)
<1> PICK t : t = FlushMappingStart(s)
  OBVIOUS
<1> PICK q : q = [s EXCEPT !.state = "NothingInParticular"]
  OBVIOUS
<1>1. s \in Serializers
  BY LevelsCount
<1>2. q.out = s.out /\ q.depth = s.depth /\ q.pending = s.pending /\ q.state = "NothingInParticular"
  BY <1>1 DEF Serializers
<1>3. Sound(q)
  BY StateEffect DEF Effect, States
<1>4. s.state \in {"CheckForTag", "CheckForDuplicateTag"} => Fair(q, over, f)
  <2>1. SUFFICES ASSUME s.state # "FoundTag" PROVE Fair(q, over, f)
    OBVIOUS
  <2>2. Due(s, over, f) => Due(q, over, f)
    BY <1>2, <2>1 DEF Due
  <2>3. q.out = s.out /\ q.depth = s.depth /\ (over => over)
    BY <1>2
  <2> QED BY ONLY Fair(s, over, f), <2>2, <2>3, SameMark
<1>5. CASE s.state = "CheckForTag"
  <2>1. t = MappingStart(q)
    BY <1>5 DEF FlushMappingStart
  <2>2. Came(t, over, f) /\ f.floor < t.depth
    BY <1>3, <1>4, <1>5, <2>1, MappingMark
  <2>3. t.depth \in Nat
    BY FlushSound
  <2> QED BY <2>2, <2>3, CameFair
<1>6. CASE s.state = "CheckForDuplicateTag"
  <2>1. t = q
    BY <1>6 DEF FlushMappingStart
  <2> QED BY <1>4, <1>6, <2>1
<1>7. CASE s.state \notin {"CheckForTag", "CheckForDuplicateTag"}
  <2>1. t = s
    BY <1>7, FlushEffect
  <2> QED BY <2>1
<1> QED BY <1>5, <1>6, <1>7

LEMMA EmitMappingMark ==
  ASSUME NEW s, Sound(s), NEW over, NEW f \in Frames, f.kind \in {"anchor", "map"},
         Fair(s, over, f)
  PROVE  LET t == EmitMappingStart(s)
         IN  Came(t, over, f) /\ f.floor < t.depth
<1> PICK q : q = FlushMappingStart(s)
  OBVIOUS
<1>1. Sound(q) /\ Fair(q, over, f)
  BY FlushSound, FlushMark
<1> QED BY <1>1, MappingMark DEF EmitMappingStart

LEMMA EmitSequenceMark ==
  ASSUME NEW s, Sound(s), NEW over, NEW f \in Frames, f.kind \in {"anchor", "map"},
         Fair(s, over, f)
  PROVE  LET t == EmitSequenceStart(s)
         IN  Came(t, over, f) /\ f.floor < t.depth
<1> PICK q : q = FlushMappingStart(s)
  OBVIOUS
<1>1. Sound(q) /\ Fair(q, over, f)
  BY FlushSound, FlushMark
<1> PICK v : v = Taken(EmitStart(ValueStart(q), NodeEvent(q, "SequenceStart")))
  OBVIOUS
<1> PICK t : t = [v EXCEPT !.flowSeq = FALSE]
  OBVIOUS
<1>2. /\ v \in Serializers /\ v.out = Append(Written(q), NodeEvent(q, "SequenceStart"))
      /\ v.depth = q.depth + 1
  BY <1>1, StartWritten
<1>3. t.out = v.out /\ t.depth = v.depth
  BY <1>2 DEF Serializers
<1>4. Done(t, over, f) /\ f.floor < t.depth
  BY <1>1, <1>2, <1>3, StartMark
<1>5. t = EmitSequenceStart(s)
  BY DEF EmitSequenceStart
<1> QED BY <1>4, <1>5 DEF Done

LEMMA EmitScalarMark ==
  ASSUME NEW s, Sound(s), NEW over, NEW f \in Frames, f.kind \in {"anchor", "map"},
         Fair(s, over, f)
  PROVE  LET t == EmitScalar(s)
         IN  Came(t, over, f) /\ t.depth = FlushMappingStart(s).depth
<1> PICK q : q = FlushMappingStart(s)
  OBVIOUS
<1>1. Sound(q) /\ Fair(q, over, f)
  BY FlushSound, FlushMark
<1> PICK t : t = ValueEnd(Taken(EmitLeaf(ValueStart(q), NodeEvent(q, "Scalar"))))
  OBVIOUS
<1>2. Done(t, over, f) /\ t.depth = q.depth
  BY <1>1, ScalarMark
<1>3. t = EmitScalar(s)
  BY DEF EmitScalar
<1> QED BY <1>2, <1>3 DEF Done

LEMMA EmitAliasMark ==
  ASSUME NEW s, Sound(s), NEW over, NEW f \in Frames, f.kind \in {"anchor", "map"},
         Fair(s, over, f), NEW name \in Names, s.check => name \in s.anchors
  PROVE  Came(EmitAlias(s, name), over, f)
<1> PICK q : q = FlushMappingStart(s)
  OBVIOUS
<1>1. Sound(q) /\ Fair(q, over, f)
  BY FlushSound, FlushMark
<1>2. Keeps(s, q)
  BY FlushRests DEF Sound
<1>3. q.check => name \in q.anchors
  BY <1>2 DEF Keeps
<1> PICK t : t = ValueEnd(EmitLeaf(ValueStart(q), [Event("Alias") EXCEPT !.anchor = name]))
  OBVIOUS
<1>4. Done(t, over, f)
  BY <1>1, <1>3, AliasMark
<1>5. t = EmitAlias(s, name)
  BY DEF EmitAlias
<1> QED BY <1>4, <1>5 DEF Done

-----------------------------------------------------------------------------
(* The watched calls among those in progress.                              *)

LEMMA WatchedKinds ==
  ASSUME NEW r, Waiting(r), NEW i \in 1 .. Len(r)
  PROVE  r[i] \in Frames /\ (Watched(r[i]) => r[i].kind \in {"anchor", "map"})
BY DEF Waiting, Watched, CallOK

LEMMA WaitingTag ==
  ASSUME NEW r, Waiting(r), NEW i \in 1 .. Len(r), NEW t
  PROVE  TagOK(t, r[i])
BY DEF Waiting, TagOK

\* Another call in place of the innermost.
LEMMA MarksAppend ==
  ASSUME NEW r, Waiting(r), NEW n \in Nat, Len(r) = n, NEW g \in Frames, NEW t, NEW more,
         TagOK(t, g), Watched(g) => MarkOK(t, Asking(Append(r, g)), more, g),
         \A i \in 1 .. n : Watched(r[i]) => MarkOK(t, Sought(Append(r, g), t.state, i), more, r[i])
  PROVE  Marks(t, Append(r, g), more)
<1> PICK c : c = Append(r, g)
  OBVIOUS
<1>1. r \in Seq(Frames)
  BY DEF Waiting
<1>2. Len(c) = n + 1 /\ c[n + 1] = g /\ \A i \in 1 .. n : c[i] = r[i]
  BY <1>1, AppendIndex
<1>3. ASSUME NEW i \in 1 .. n + 1
      PROVE  TagOK(t, c[i]) /\ (Watched(c[i]) => MarkOK(t, Sought(c, t.state, i), more, c[i]))
  <2>1. CASE i = n + 1
    <3>1. ~Hunted(c, t.state, i)
      <4>1. \A k \in i + 1 .. Len(c) : FALSE
        BY <1>2, <2>1
      <4> QED BY <4>1 DEF Hunted
    <3>2. Sought(c, t.state, i) = Asking(c)
      BY <3>1 DEF Sought, Asking
    <3> QED BY <1>2, <2>1, <3>2
  <2>2. CASE i # n + 1
    <3>1. i \in 1 .. n
      BY <2>2
    <3>2. TagOK(t, r[i])
      BY <3>1, WaitingTag
    <3> QED BY <1>2, <3>1, <3>2
  <2> QED BY <2>1, <2>2
<1> QED BY <1>2, <1>3 DEF Marks

\* A value is about to serialize itself in g.
LEMMA MarksInside ==
  ASSUME NEW r, Waiting(r), NEW g, CallOK(g), g.step \in Inner,
         NEW nd, CallOK(nd), nd.kind = "node", NEW t, NEW more, AllFair(t, more, r),
         g.kind = "map" /\ g.tag # NoTag => g.step = "value" /\ g.tagged,
         Watched(g) => Fair(t, more, g)
  PROVE  Marks(t, Append(Append(r, g), nd), more)
<1> PICK n \in Nat : n = Len(r)
  BY DEF Waiting
<1> PICK p \in Nat : p = n + 1
  OBVIOUS
<1> PICK q : q = Append(r, g)
  OBVIOUS
<1>1. r \in Seq(Frames) /\ g \in Frames /\ nd \in Frames
  BY DEF Waiting, CallOK
<1>2. /\ q \in Seq(Frames) /\ Len(q) = p /\ q[p] = g
      /\ \A i \in 1 .. n : q[i] = r[i]
  BY <1>1, AppendIndex
<1>3. \A i \in 1 .. p : i = p \/ i \in 1 .. n
  OBVIOUS
<1>4. Waiting(q)
  BY <1>2, <1>3 DEF Waiting
<1>5. \A i \in 1 .. p : Watched(q[i]) => Fair(t, more, q[i])
  BY <1>2, <1>3 DEF AllFair
<1>6. Asking(Append(q, nd))
  BY <1>1, <1>2, CallsAsking
<1>7. \A i \in 1 .. p : Watched(q[i]) => MarkOK(t, Sought(Append(q, nd), t.state, i), more, q[i])
  BY <1>5, <1>6 DEF Sought, Fair, MarkOK
<1>8. TagOK(t, nd) /\ ~Watched(nd)
  BY DEF TagOK, Watched
<1> QED BY ONLY <1>1, <1>2, <1>4, <1>7, <1>8, p \in Nat, q = Append(r, g), MarksAppend

\* A collection runs whose node, if it is watched from below, has begun, or that may
\* be a tag.
LEMMA MarksInstead ==
  ASSUME NEW r, Waiting(r), NEW g \in Frames, g.kind \notin Transparent, ~Watched(g),
         NEW t, NEW more, TagOK(t, g),
         \/ AllCame(t, more, r) /\ AllBelow(t, r)
         \/ AllCame(t, more, r) /\ (Undecided(g) => t.state \notin {"CheckForTag", "FoundTag"})
         \/ AllFair(t, more, r) /\ Undecided(g) /\ t.state \in {"CheckForTag", "FoundTag"}
  PROVE  Marks(t, Append(r, g), more)
<1> PICK n \in Nat : n = Len(r)
  BY DEF Waiting
<1> PICK c : c = Append(r, g)
  OBVIOUS
<1>1. r \in Seq(Frames)
  BY DEF Waiting
<1>2. Len(c) = n + 1 /\ c[n + 1] = g /\ \A i \in 1 .. n : c[i] = r[i]
  BY <1>1, AppendIndex
<1>3. ~Asking(c)
  BY <1>1, CallsAsking DEF Transparent
<1>4. ASSUME NEW i \in 1 .. n
      PROVE  Hunted(c, t.state, i) <=> Undecided(g) /\ t.state \in {"CheckForTag", "FoundTag"}
  <2>1. ASSUME NEW k \in i + 1 .. n + 1, \A j \in k + 1 .. n + 1 : c[j].kind \in Transparent
        PROVE  k = n + 1
    <3>1. k # n + 1 => n + 1 \in k + 1 .. n + 1
      OBVIOUS
    <3> QED BY <1>2, <2>1, <3>1
  <2>2. n + 1 \in i + 1 .. n + 1 /\ \A j \in (n + 1) + 1 .. n + 1 : FALSE
    OBVIOUS
  <2> QED BY <1>2, <2>1, <2>2 DEF Hunted
<1>5. \A i \in 1 .. n : Watched(r[i]) => MarkOK(t, Sought(c, t.state, i), more, r[i])
  <2>1. CASE AllCame(t, more, r) /\ AllBelow(t, r)
    <3>1. ASSUME NEW i \in 1 .. n, Watched(r[i]) PROVE t.depth # r[i].floor
      <4>1. r[i].floor < t.depth /\ r[i].floor \in Nat
        BY <2>1, <3>1, WatchedKinds DEF AllBelow, Frames
      <4> QED BY <4>1
    <3> QED BY <2>1, <3>1 DEF AllCame, MarkOK
  <2>2. CASE AllCame(t, more, r) /\ (Undecided(g) => t.state \notin {"CheckForTag", "FoundTag"})
    BY <1>3, <1>4, <2>2 DEF AllCame, MarkOK, Sought
  <2>3. CASE AllFair(t, more, r) /\ Undecided(g) /\ t.state \in {"CheckForTag", "FoundTag"}
    BY <1>4, <2>3 DEF AllFair, Fair, MarkOK, Sought
  <2> QED BY <2>1, <2>2, <2>3
<1> QED BY <1>5, MarksAppend

\* The innermost of the waiting calls goes on.
LEMMA MarksReturn ==
  ASSUME NEW r, Waiting(r), NEW t, NEW more, ~Asking(Answered(r)),
         \A i \in 1 .. Len(r) : Watched(r[i]) => MarkOK(t, Hunted(r, t.state, i), more, r[i])
  PROVE  Marks(t, Answered(r), more)
<1>1. r \in Seq(Frames)
  BY DEF Waiting
<1>2. CASE r = <<>>
  BY <1>2 DEF Answered, Marks
<1>3. CASE r # <<>>
  <2> PICK p \in Nat : Len(r) = p + 1
    <3>1. Len(r) \in Nat /\ Len(r) # 0
      BY <1>1, <1>3
    <3>2. Len(r) - 1 \in Nat /\ Len(r) = (Len(r) - 1) + 1
      BY <3>1
    <3> QED BY <3>2
  <2> PICK n \in Nat : n = p + 1
    OBVIOUS
  <2> PICK f : f = r[n]
    OBVIOUS
  <2> PICK g : g = Advanced(f)
    OBVIOUS
  <2> PICK c : c = Answered(r)
    OBVIOUS
  <2>1. CallOK(f) /\ f.step \in Inner /\ f \in Frames
        /\ (f.kind = "map" /\ f.tag # NoTag => f.step = "value" /\ f.tagged)
    BY DEF Waiting, CallOK
  <2>2. /\ CallOK(g) /\ g.kind = f.kind /\ g.tagged = f.tagged /\ g.begun = f.begun /\ g.tag = f.tag
        /\ g.late = f.late /\ g.floor = f.floor /\ g.name = f.name /\ g.start = f.start
        /\ f.kind = "map" => g.step = IF f.step = "key" THEN "keyed" ELSE "valued"
    <3>1. g.name = f.name /\ g.start = f.start
      BY <2>1 DEF Advanced, Frames
    <3> QED BY <2>1, <3>1, AdvancedCalls
  <2>3. Len(c) = n /\ c[n] = g /\ \A i \in 1 .. p : c[i] = r[i]
    <3> PICK b : b = ButLast(r)
      OBVIOUS
    <3>1. b \in Seq(Frames) /\ Len(b) = p /\ \A i \in 1 .. p : b[i] = r[i]
      BY <1>1, LastCall
    <3>2. c = Append(b, g)
      BY <1>1, AnsweredLast
    <3>3. g \in Frames
      BY <2>2 DEF CallOK
    <3> QED BY <3>1, <3>2, <3>3, AppendIndex
  <2>4. Undecided(g) <=> Undecided(f)
    BY <2>1, <2>2 DEF Undecided, Inner
  <2>5. \A i \in 1 .. n : (Undecided(c[i]) <=> Undecided(r[i])) /\ c[i].kind = r[i].kind
    <3>1. \A i \in 1 .. n : i = n \/ i \in 1 .. p
      OBVIOUS
    <3> QED BY <2>2, <2>3, <2>4, <3>1
  <2>6. ASSUME NEW i \in 1 .. n PROVE Hunted(c, t.state, i) <=> Hunted(r, t.state, i)
    <3>1. \A k \in i + 1 .. n : k \in 1 .. n /\ \A j \in k + 1 .. n : j \in 1 .. n
      OBVIOUS
    <3>2. Len(r) = n /\ Len(c) = n
      BY <2>3
    <3> QED BY ONLY <2>5, <3>1, <3>2 DEF Hunted
  <2>7. ASSUME NEW i \in 1 .. n
        PROVE  TagOK(t, c[i]) /\ (Watched(c[i]) => MarkOK(t, Sought(c, t.state, i), more, c[i]))
    <3>1. Sought(c, t.state, i) <=> Hunted(r, t.state, i)
      BY <2>6 DEF Sought
    <3>2. CASE i = n
      <4>1. TagOK(t, g)
        BY <2>1, <2>2 DEF TagOK
      <4>2. Watched(g) => Watched(f)
        BY <2>1, <2>2 DEF Watched, Inner
      <4>3. Watched(f) => MarkOK(t, Hunted(r, t.state, i), more, f)
        BY <3>2
      <4>4. Came(t, more, f) => Came(t, more, g)
        <5>1. SUFFICES ASSUME Came(t, more, f) PROVE Came(t, more, g)
          OBVIOUS
        <5>2. t.out = t.out /\ t.depth = t.depth /\ (more => more)
          OBVIOUS
        <5> QED BY ONLY <2>2, <5>1, <5>2, CameAgain
      <4>5. (Ahead(t, f) => Ahead(t, g)) /\ (Due(t, more, f) => Due(t, more, g))
        BY <2>2 DEF Ahead, Due
      <4>6. MarkOK(t, Hunted(r, t.state, i), more, f) => MarkOK(t, Sought(c, t.state, i), more, g)
        BY <2>2, <3>1, <4>4, <4>5 DEF MarkOK
      <4> QED BY <2>3, <3>2, <4>1, <4>2, <4>3, <4>6
    <3>3. CASE i # n
      <4>1. i \in 1 .. p
        BY <3>3
      <4>2. TagOK(t, r[i])
        BY WaitingTag
      <4>3. c[i] = r[i]
        BY <2>3, <4>1
      <4>4. Watched(r[i]) => MarkOK(t, Hunted(r, t.state, i), more, r[i])
        OBVIOUS
      <4>5. MarkOK(t, Hunted(r, t.state, i), more, r[i]) => MarkOK(t, Sought(c, t.state, i), more, r[i])
        BY <3>1 DEF MarkOK
      <4> QED BY <4>2, <4>3, <4>4, <4>5
    <3> QED BY <3>2, <3>3
  <2> QED BY <2>3, <2>7 DEF Marks
<1> QED BY <1>2, <1>3

\* Nothing is looked for any more.
LEMMA MarksGone ==
  ASSUME NEW r, Waiting(r), NEW t, NEW more, ~Asking(Answered(r)), AllCame(t, more, r),
         \/ t.state \notin {"CheckForTag", "FoundTag"}
         \/ \A i \in 1 .. Len(r) : ~Hunted(r, t.state, i)
  PROVE  Marks(t, Answered(r), more)
<1>1. \A i \in 1 .. Len(r) : ~Hunted(r, t.state, i)
  BY DEF Hunted
<1>2. \A i \in 1 .. Len(r) : Watched(r[i]) => MarkOK(t, Hunted(r, t.state, i), more, r[i])
  BY <1>1 DEF MarkOK, AllCame
<1> QED BY <1>2, MarksReturn

\* There are no watched calls, or only a value.
LEMMA MarksFew ==
  ASSUME NEW t, NEW more, NEW nd \in Frames, nd.kind = "node"
  PROVE  Marks(t, <<>>, more) /\ Marks(t, <<nd>>, more)
<1>1. TagOK(t, nd) /\ ~Watched(nd)
  BY DEF TagOK, Watched
<1>2. Len(<<nd>>) = 1 /\ <<nd>>[1] = nd
  OBVIOUS
<1>3. \A i \in 1 .. 1 : i = 1
  OBVIOUS
<1> QED BY <1>1, <1>2, <1>3 DEF Marks

-----------------------------------------------------------------------------
(* What is known of the watched calls before a step.                       *)

LEMMA CallsPlaced ==
  ASSUME NEW s, NEW r \in Seq(Frames), NEW f \in Frames, NEW errs, Whole(s, Append(r, f), errs)
  PROVE  /\ Sound(s) /\ s.depth \in Nat /\ s.out \in Seq(Events)
         /\ CallOK(f) /\ f.step \notin Inner
         /\ \A i \in 1 .. Len(r) : CallOK(r[i]) /\ r[i].step \in Inner
         /\ \E lo : Places(s, r, f, lo)
<1> PICK n \in Nat : n = Len(r)
  OBVIOUS
<1> PICK L : L = Levels(s)
  OBVIOUS
<1> PICK c : c = Append(r, f)
  OBVIOUS
<1>1. Sound(s) /\ Fits(L, s.state, s.names, Append(r, f), errs)
  BY DEF Whole
<1>2. s.depth \in Nat /\ Len(L) = s.depth /\ s.out \in Seq(Events)
  BY <1>1, LevelsCount, ValueStartWritten
<1>3. PICK h, m, k, lo, stage : At(r, n, f, L, s.state, s.names, errs, h, m, k, lo, stage)
  BY <1>1, FitsAt
<1>4. /\ CallOK(f) /\ f.step \notin Inner /\ \A i \in 1 .. n : CallOK(r[i]) /\ r[i].step \in Inner
      /\ Base(L, c, h, m, stage) /\ lo = h[n + 1] /\ lo \in Nat /\ h[n + 2] = Len(L)
      /\ lo <= Len(L) /\ Placed(f, L, lo, Len(L), stage)
  BY ONLY <1>3, c = Append(r, f) DEF At
<1>5. f.kind \notin Transparent => HeadState(s.state, f, f, lo, Len(L))
  BY ONLY <1>3 DEF At, Runs
<1>6. Len(c) = n + 1 /\ \A i \in 1 .. n : c[i] = r[i]
  BY AppendIndex
<1>7. ASSUME NEW i \in 1 .. n, Watched(r[i]) PROVE r[i].floor <= lo
  <2>1. i \in 1 .. n + 1
    OBVIOUS
  <2>2. Placed(c[i], L, h[i], h[i + 1], StageAt(h[i + 1], Len(L), stage)) /\ Heights(L, c, h)
    BY <1>4, <1>6, <2>1, BaseFacts
  <2>3. Marked(r[i])
    BY <1>7 DEF Watched, Marked
  <2>4. r[i].floor = h[i]
    BY <1>6, <2>2, <2>3 DEF Placed
  <2>5. h[i] <= h[n + 1]
    <3>1. i \in 1 .. (n + 1) + 1 /\ n + 1 \in 1 .. (n + 1) + 1 /\ i <= n + 1
      OBVIOUS
    <3> QED BY ONLY <1>6, <2>2, <3>1 DEF Heights
  <2> QED BY <1>4, <2>4, <2>5
<1>8. Places(s, r, f, lo)
  <2>1. Marked(f) => f.floor = lo
    BY <1>4 DEF Placed
  <2>2. f.kind \in Transparent => lo = s.depth
    BY <1>2, <1>4 DEF Placed
  <2>3. f.kind \notin Transparent =>
          s.depth = lo + f.ends \/ (s.depth = lo /\ f.kind = "map" /\ f.one)
    BY <1>2, <1>4 DEF Placed
  <2>4. f.kind = "map" /\ f.step = "valued" => (f.tagged <=> lo = s.depth)
    BY <1>2, <1>4 DEF Placed
  <2> QED BY <1>2, <1>4, <1>5, <1>7, <2>1, <2>2, <2>3, <2>4 DEF Places
<1> QED BY <1>1, <1>2, <1>4, <1>8

LEMMA MarksOfCalls ==
  ASSUME NEW s, NEW r \in Seq(Frames), NEW f \in Frames, NEW errs, Whole(s, Append(r, f), errs),
         NEW over, Marks(s, Append(r, f), over)
  PROVE  /\ Waiting(r)
         /\ TagOK(s, f)
         /\ Watched(f) => MarkOK(s, f.kind = "node", over, f)
         /\ \A i \in 1 .. Len(r) : Watched(r[i]) =>
              MarkOK(s, Sought(Append(r, f), s.state, i), over, r[i])
<1> PICK n \in Nat : n = Len(r)
  OBVIOUS
<1> PICK c : c = Append(r, f)
  OBVIOUS
<1>1. Len(c) = n + 1 /\ c[n + 1] = f /\ \A i \in 1 .. n : c[i] = r[i]
  BY AppendIndex
<1>2. \A i \in 1 .. n : CallOK(r[i]) /\ r[i].step \in Inner
  BY CallsPlaced
<1>3. \A i \in 1 .. n + 1 : TagOK(s, c[i]) /\ (Watched(c[i]) => MarkOK(s, Sought(c, s.state, i), over, c[i]))
  BY <1>1 DEF Marks
<1>4. n + 1 \in 1 .. n + 1 /\ \A i \in 1 .. n : i \in 1 .. n + 1
  OBVIOUS
<1>5. \A i \in 1 .. n : TagOK(s, r[i]) /\ (Watched(r[i]) => MarkOK(s, Sought(c, s.state, i), over, r[i]))
  BY ONLY <1>1, <1>3, <1>4
<1>6. Waiting(r)
  BY <1>2, <1>5 DEF Waiting, TagOK, Inner
<1>7. TagOK(s, f) /\ (Watched(f) => MarkOK(s, Sought(c, s.state, n + 1), over, f))
  BY ONLY <1>1, <1>3, <1>4
<1>8. Sought(c, s.state, n + 1) <=> f.kind = "node"
  <2>1. \A k \in (n + 1) + 1 .. n + 1 : FALSE
    OBVIOUS
  <2>2. ~Hunted(c, s.state, n + 1)
    BY <1>1, <2>1 DEF Hunted
  <2> QED BY <2>2, CallsAsking DEF Sought
<1> QED BY <1>5, <1>6, <1>7, <1>8 DEF MarkOK

\* In a value that is about to serialize itself a node is still to come.
LEMMA NodeFair ==
  ASSUME NEW s, NEW r, NEW f, NEW errs, Ready(s, r, f, errs), NEW over,
         Marks(s, Append(r, f), over)
  PROVE  Waiting(r) /\ AllFair(s, over, r) /\ Sound(s) /\ s.depth \in Nat
<1>1. r \in Seq(Frames) /\ f \in Frames /\ f.kind = "node" /\ Whole(s, Append(r, f), errs)
  BY DEF Ready
<1>2. PICK lo : Places(s, r, f, lo)
  BY <1>1, CallsPlaced
<1>3. lo = s.depth
  BY <1>1, <1>2 DEF Places, Transparent
<1>4. Asking(Append(r, f))
  BY <1>1, CallsAsking
<1>5. ASSUME NEW i \in 1 .. Len(r), Watched(r[i]) PROVE Fair(s, over, r[i])
  <2>1. MarkOK(s, Sought(Append(r, f), s.state, i), over, r[i])
    BY <1>1, <1>5, MarksOfCalls
  <2>2. MarkOK(s, TRUE, over, r[i])
    BY <1>4, <2>1 DEF MarkOK, Sought
  <2>3. r[i].floor <= s.depth
    BY <1>2, <1>3, <1>5 DEF Places
  <2> QED BY <2>2, <2>3 DEF Fair
<1> QED BY <1>1, <1>5, CallsPlaced, MarksOfCalls DEF AllFair

\* The head of the calls below a value: a map that may be a tag, if a tag is looked for.
LEMMA NodeHead ==
  ASSUME NEW s, NEW r, NEW f, NEW errs, Ready(s, r, f, errs)
  PROVE  \E k \in 0 .. Len(r) :
           /\ \A j \in k + 1 .. Len(r) : r[j].kind \in Transparent
           /\ k > 0 => /\ r[k].kind \notin Transparent /\ r[k].step \in Inner
                       /\ s.state = "CheckForTag" => Undecided(r[k]) /\ r[k].step = "key"
                       /\ s.state = "FoundTag" => ~Undecided(r[k])
<1> PICK n \in Nat : n = Len(r)
  BY DEF Ready
<1> PICK L : L = Levels(s)
  OBVIOUS
<1> PICK c : c = Append(r, f)
  OBVIOUS
<1>1. /\ r \in Seq(Frames) /\ f \in Frames /\ f.kind = "node"
      /\ Fits(L, s.state, s.names, Append(r, f), errs)
  BY DEF Ready, Whole
<1>2. PICK h, m, k, lo, stage : At(r, n, f, L, s.state, s.names, errs, h, m, k, lo, stage)
  BY <1>1, FitsAt
<1>3. /\ Base(L, c, h, m, stage) /\ k = m[n] /\ k \in 0 .. n
      /\ k > 0 => /\ h[k] \in Nat /\ h[k + 1] \in Nat /\ h[k] <= h[k + 1]
                  /\ r[k].step \in Inner /\ CallOK(r[k])
                  /\ h[k] = h[k + 1] => r[k].kind = "map" /\ (Undecided(r[k]) <=> r[k].step = "key")
  BY ONLY <1>2, c = Append(r, f) DEF At
<1>4. k > 0 => HeadState(s.state, r[k], f, h[k], h[k + 1])
  BY <1>1, <1>2 DEF At, Runs, Transparent
<1>5. Len(c) = n + 1 /\ \A i \in 1 .. n : c[i] = r[i]
  BY <1>1, AppendIndex
<1>6. /\ \A j \in k + 1 .. n : c[j].kind \in Transparent
      /\ k > 0 => c[k].kind \notin Transparent
  <2>1. Heads(c, h, m)
    BY <1>3, <1>5, BaseFacts
  <2>2. n \in 0 .. n + 1
    OBVIOUS
  <2> QED BY <1>3, <1>5, <2>1, <2>2, HeadFacts
<1>7. /\ \A j \in k + 1 .. n : r[j].kind \in Transparent
      /\ k > 0 => r[k].kind \notin Transparent
  <2>1. \A j \in k + 1 .. n : j \in 1 .. n
    BY <1>3
  <2>2. k > 0 => k \in 1 .. n
    BY <1>3
  <2> QED BY <1>5, <1>6, <2>1, <2>2
<1>8. ASSUME k > 0
      PROVE  /\ s.state = "CheckForTag" => Undecided(r[k]) /\ r[k].step = "key"
             /\ s.state = "FoundTag" => ~Undecided(r[k])
  <2>1. CASE h[k] < h[k + 1]
    BY <1>4, <1>8, <2>1 DEF HeadState, OpenState
  <2>2. CASE ~(h[k] < h[k + 1])
    <3>1. h[k] = h[k + 1]
      BY <1>3, <1>8, <2>2
    <3>2. TagState(s.state, r[k], f)
      BY <1>4, <1>8, <2>2 DEF HeadState
    <3>3. /\ r[k].step \in {"key", "value"} /\ (Undecided(r[k]) <=> r[k].step = "key")
      BY <1>3, <1>8, <3>1 DEF Inner
    <3> QED BY ONLY <1>1, <3>2, <3>3 DEF TagState
  <2> QED BY <2>1, <2>2
<1> QED BY <1>3, <1>7, <1>8

\* A collection runs: if it may be a tag its node is still to come.
LEMMA RunningMarks ==
  ASSUME NEW s, NEW r, NEW f, NEW errs, Running(s, r, f, errs), NEW over,
         Marks(s, Append(r, f), over)
  PROVE  /\ Waiting(r) /\ Sound(s) /\ s.depth \in Nat /\ CallOK(f) /\ f.step \notin Inner
         /\ TagOK(s, f)
         /\ Undecided(f) => AllFair(s, over, r)
         /\ ~Undecided(f) => AllCame(s, over, r)
         /\ \E lo : /\ Places(s, r, f, lo)
                    /\ lo < s.depth => AllCame(s, over, r) /\ AllBelow(s, r)
<1> PICK n \in Nat : n = Len(r)
  BY DEF Running
<1> PICK c : c = Append(r, f)
  OBVIOUS
<1>1. r \in Seq(Frames) /\ f \in Frames /\ f.kind \notin Transparent /\ Whole(s, Append(r, f), errs)
  BY DEF Running
<1>2. Sound(s) /\ s.depth \in Nat /\ CallOK(f) /\ f.step \notin Inner
  BY <1>1, CallsPlaced
<1>3. PICK lo : Places(s, r, f, lo)
  BY <1>1, CallsPlaced
<1>4. /\ Waiting(r) /\ TagOK(s, f)
      /\ \A i \in 1 .. n : Watched(r[i]) => MarkOK(s, Sought(c, s.state, i), over, r[i])
  BY <1>1, MarksOfCalls
<1>5. ~Asking(c)
  BY <1>1, CallsAsking DEF Transparent
<1>6. Len(c) = n + 1 /\ c[n + 1] = f
  BY <1>1, AppendIndex
<1>7. ASSUME NEW i \in 1 .. n
      PROVE  Sought(c, s.state, i) <=> Undecided(f) /\ s.state \in {"CheckForTag", "FoundTag"}
  <2>1. ASSUME NEW k \in i + 1 .. n + 1, \A j \in k + 1 .. n + 1 : c[j].kind \in Transparent
        PROVE  k = n + 1
    <3>1. k # n + 1 => n + 1 \in k + 1 .. n + 1
      OBVIOUS
    <3> QED BY <1>1, <1>6, <2>1, <3>1
  <2>2. n + 1 \in i + 1 .. n + 1 /\ \A j \in (n + 1) + 1 .. n + 1 : FALSE
    OBVIOUS
  <2> QED BY <1>5, <1>6, <2>1, <2>2 DEF Hunted, Sought
<1>8. lo \in Nat /\ lo <= s.depth /\ \A i \in 1 .. n : Watched(r[i]) => r[i].floor <= lo
  BY <1>3 DEF Places
<1>9. ASSUME NEW i \in 1 .. n, Watched(r[i]), lo < s.depth
      PROVE  r[i].floor < s.depth /\ Came(s, over, r[i]) /\ Fair(s, over, r[i])
  <2>1. r[i].floor <= lo /\ r[i] \in Frames /\ r[i].floor \in Nat
    BY <1>4, <1>8, <1>9, WatchedKinds DEF Frames
  <2>2. r[i].floor < s.depth /\ r[i].floor # s.depth
    BY <1>2, <1>8, <1>9, <2>1
  <2>3. Came(s, over, r[i])
    BY <1>4, <1>9, <2>2 DEF MarkOK
  <2> QED BY <1>2, <2>1, <2>2, <2>3, CameFair
<1>10. lo < s.depth => AllCame(s, over, r) /\ AllBelow(s, r)
  BY <1>9 DEF AllCame, AllBelow
<1>11. ASSUME Undecided(f) PROVE AllFair(s, over, r)
  <2>1. CASE lo < s.depth
    BY <1>9, <2>1 DEF AllFair
  <2>2. CASE ~(lo < s.depth)
    <3>1. lo = s.depth
      BY <1>2, <1>8, <2>2
    <3>2. TagState(s.state, f, f)
      BY <1>1, <1>3, <2>2 DEF Places, HeadState
    <3>3. s.state \in {"CheckForTag", "FoundTag"}
      BY ONLY <1>2, <1>11, <3>2 DEF TagState, Undecided, Inner
    <3>4. ASSUME NEW i \in 1 .. n, Watched(r[i]) PROVE Fair(s, over, r[i])
      <4>1. MarkOK(s, TRUE, over, r[i])
        BY <1>4, <1>7, <1>11, <3>3, <3>4 DEF MarkOK
      <4> QED BY <1>8, <3>1, <3>4, <4>1 DEF Fair
    <3> QED BY <3>4 DEF AllFair
  <2> QED BY <2>1, <2>2
<1>12. ~Undecided(f) => AllCame(s, over, r)
  BY <1>4, <1>7 DEF AllCame, MarkOK
<1> QED BY <1>2, <1>3, <1>4, <1>10, <1>11, <1>12

\* A wrapper has nothing to say of the search for tags.
LEMMA WrapperMarks ==
  ASSUME NEW s, NEW r \in Seq(Frames), NEW f \in Frames, NEW errs, Whole(s, Append(r, f), errs),
         f.kind \in {"anchor", "flowSeq", "flowMap"}, NEW over, Marks(s, Append(r, f), over)
  PROVE  /\ Waiting(r)
         /\ \A i \in 1 .. Len(r) : Watched(r[i]) => MarkOK(s, Hunted(r, s.state, i), over, r[i])
<1> PICK n \in Nat : n = Len(r)
  OBVIOUS
<1> PICK c : c = Append(r, f)
  OBVIOUS
<1>1. /\ Waiting(r)
      /\ \A i \in 1 .. n : Watched(r[i]) => MarkOK(s, Sought(c, s.state, i), over, r[i])
  BY MarksOfCalls
<1>2. ~Asking(c) /\ ~Undecided(f) /\ f.kind \in Transparent
  BY CallsAsking DEF Undecided, Transparent
<1>3. Len(c) = n + 1 /\ c[n + 1] = f /\ \A i \in 1 .. n : c[i] = r[i]
  BY AppendIndex
<1>4. ASSUME NEW i \in 1 .. n PROVE Hunted(c, s.state, i) <=> Hunted(r, s.state, i)
  <2>1. ASSUME NEW k \in i + 1 .. n
        PROVE  /\ c[k] = r[k] /\ k \in i + 1 .. n + 1
               /\ (\A j \in k + 1 .. n + 1 : c[j].kind \in Transparent)
                    <=> (\A j \in k + 1 .. n : r[j].kind \in Transparent)
    <3>1. \A j \in k + 1 .. n + 1 : j = n + 1 \/ j \in k + 1 .. n
      OBVIOUS
    <3>2. \A j \in k + 1 .. n : j \in 1 .. n /\ j \in k + 1 .. n + 1
      OBVIOUS
    <3> QED BY <1>2, <1>3, <3>1, <3>2
  <2>2. \A k \in i + 1 .. n + 1 : k = n + 1 \/ k \in i + 1 .. n
    OBVIOUS
  <2> QED BY <1>2, <1>3, <2>1, <2>2 DEF Hunted
<1>5. \A i \in 1 .. n : Sought(c, s.state, i) <=> Hunted(r, s.state, i)
  BY <1>2, <1>4 DEF Sought
<1> QED BY <1>1, <1>5 DEF MarkOK

-----------------------------------------------------------------------------
(* What the methods do to all watched calls.                               *)

LEMMA AllCameSame ==
  ASSUME NEW r, NEW s, NEW over, AllCame(s, over, r),
         NEW t, t.out = s.out, t.depth = s.depth, NEW more, over => more
  PROVE  AllCame(t, more, r) /\ (AllBelow(s, r) => AllBelow(t, r))
<1>1. ASSUME NEW f, Came(s, over, f) PROVE Came(t, more, f)
  BY <1>1, CameAgain
<1> QED BY <1>1 DEF AllCame, AllBelow

LEMMA AllFairSame ==
  ASSUME NEW r, Waiting(r), NEW s, NEW over, AllFair(s, over, r),
         NEW t, t.out = s.out, t.depth = s.depth, NEW more, over => more,
         t.pending # s.pending /\ s.pending # NoAnchor => more,
         s.state # "FoundTag" \/ (t.state = s.state /\ t.tag = s.tag)
  PROVE  AllFair(t, more, r)
<1>1. ASSUME NEW i \in 1 .. Len(r), Watched(r[i]) PROVE Fair(t, more, r[i])
  <2> PICK f : f = r[i]
    OBVIOUS
  <2>1. Due(s, over, f) => Due(t, more, f)
    BY DEF Due
  <2>2. Fair(s, over, f)
    BY <1>1 DEF AllFair
  <2> QED BY <2>1, <2>2, SameMark
<1> QED BY <1>1 DEF AllFair

LEMMA AllCameFair ==
  ASSUME NEW r, Waiting(r), NEW s, s.depth \in Nat, NEW over, AllCame(s, over, r), AllBelow(s, r)
  PROVE  AllFair(s, over, r)
<1>1. ASSUME NEW i \in 1 .. Len(r), Watched(r[i]) PROVE Fair(s, over, r[i])
  <2>1. r[i] \in Frames /\ Came(s, over, r[i]) /\ r[i].floor < s.depth
    BY <1>1, WatchedKinds DEF AllCame, AllBelow
  <2> QED BY <2>1, CameFair
<1> QED BY <1>1 DEF AllFair

LEMMA AllFlush ==
  ASSUME NEW r, Waiting(r), NEW s, Sound(s), NEW over, AllFair(s, over, r)
  PROVE  AllFair(FlushMappingStart(s), over, r)
<1>1. ASSUME NEW i \in 1 .. Len(r), Watched(r[i])
      PROVE  Fair(FlushMappingStart(s), over, r[i])
  <2>1. r[i] \in Frames /\ r[i].kind \in {"anchor", "map"} /\ Fair(s, over, r[i])
    BY <1>1, WatchedKinds DEF AllFair
  <2> QED BY <2>1, FlushMark
<1> QED BY <1>1 DEF AllFair

LEMMA AllStart ==
  ASSUME NEW r, Waiting(r), NEW s, Sound(s), NEW over, AllFair(s, over, r),
         NEW t, t = EmitMappingStart(s) \/ t = EmitSequenceStart(s)
  PROVE  AllCame(t, over, r) /\ AllBelow(t, r)
<1>1. ASSUME NEW i \in 1 .. Len(r), Watched(r[i])
      PROVE  Came(t, over, r[i]) /\ r[i].floor < t.depth
  <2>1. r[i] \in Frames /\ r[i].kind \in {"anchor", "map"} /\ Fair(s, over, r[i])
    BY <1>1, WatchedKinds DEF AllFair
  <2> QED BY <2>1, EmitMappingMark, EmitSequenceMark
<1> QED BY <1>1 DEF AllCame, AllBelow

LEMMA AllScalar ==
  ASSUME NEW r, Waiting(r), NEW s, Sound(s), NEW over, AllFair(s, over, r)
  PROVE  /\ AllCame(EmitScalar(s), over, r)
         /\ AllBelow(s, r) /\ FlushMappingStart(s) = s => AllBelow(EmitScalar(s), r)
<1> PICK t : t = EmitScalar(s)
  OBVIOUS
<1>1. ASSUME NEW i \in 1 .. Len(r), Watched(r[i])
      PROVE  Came(t, over, r[i]) /\ t.depth = FlushMappingStart(s).depth
  <2>1. r[i] \in Frames /\ r[i].kind \in {"anchor", "map"} /\ Fair(s, over, r[i])
    BY <1>1, WatchedKinds DEF AllFair
  <2> QED BY <2>1, EmitScalarMark
<1> QED BY <1>1 DEF AllCame, AllBelow

LEMMA AllAlias ==
  ASSUME NEW r, Waiting(r), NEW s, Sound(s), NEW over, AllFair(s, over, r),
         NEW name \in Names, s.check => name \in s.anchors
  PROVE  AllCame(EmitAlias(s, name), over, r)
<1>1. ASSUME NEW i \in 1 .. Len(r), Watched(r[i]) PROVE Came(EmitAlias(s, name), over, r[i])
  <2>1. r[i] \in Frames /\ r[i].kind \in {"anchor", "map"} /\ Fair(s, over, r[i])
    BY <1>1, WatchedKinds DEF AllFair
  <2> QED BY <2>1, EmitAliasMark
<1> QED BY <1>1 DEF AllCame

LEMMA AllEnd ==
  ASSUME NEW r, Waiting(r), NEW s, Sound(s), NEW over, AllCame(s, over, r), AllBelow(s, r),
         NEW type \in {"SequenceEnd", "MappingEnd"},
         NEW L \in Seq(Slots), NEW slot, Levels(s) = Append(L, slot),
         slot = IF type = "SequenceEnd" THEN "item" ELSE "key",
         NEW t, t = ValueEnd(EmitEnd(s, Event(type)))
  PROVE  AllCame(t, over, r)
<1>1. ASSUME NEW i \in 1 .. Len(r), Watched(r[i]) PROVE Came(t, over, r[i])
  <2>1. r[i] \in Frames /\ Came(s, over, r[i]) /\ r[i].floor < s.depth
    BY <1>1, WatchedKinds DEF AllCame, AllBelow
  <2>2. Done(t, over, r[i])
    BY <2>1, EndMark
  <2> QED BY <2>2 DEF Done
<1> QED BY <1>1 DEF AllCame

-----------------------------------------------------------------------------
(* The watched calls after a step.                                         *)

\* A scalar or an alias is the node of the calls.
LEMMA ScalarMarks ==
  ASSUME NEW s, NEW r, NEW f, NEW errs, Ready(s, r, f, errs), NEW over,
         Marks(s, Append(r, f), over), ~Asking(Answered(r))
  PROVE  Marks(EmitScalar(s), Answered(r), over)
<1> PICK t : t = EmitScalar(s)
  OBVIOUS
<1> PICK q : q = FlushMappingStart(s)
  OBVIOUS
<1>1. Waiting(r) /\ AllFair(s, over, r) /\ Sound(s)
  BY NodeFair
<1>2. AllCame(t, over, r)
  BY <1>1, AllScalar
<1>3. t.state = "NothingInParticular"
  <2>1. Sound(q)
    BY <1>1, FlushSound
  <2>2. Effect(q, t, Flip(Levels(q)), "NothingInParticular")
    BY <2>1, ScalarEffect DEF EmitScalar
  <2> QED BY <2>2 DEF Effect
<1> QED BY <1>1, <1>2, <1>3, MarksGone

LEMMA AliasMarks ==
  ASSUME NEW s, NEW r, NEW f, NEW errs, Ready(s, r, f, errs), NEW over,
         Marks(s, Append(r, f), over), ~Asking(Answered(r)),
         NEW name \in Names, s.check => name \in s.anchors
  PROVE  Marks(EmitAlias(s, name), Answered(r), over)
<1> PICK t : t = EmitAlias(s, name)
  OBVIOUS
<1> PICK q : q = FlushMappingStart(s)
  OBVIOUS
<1>1. Waiting(r) /\ AllFair(s, over, r) /\ Sound(s)
  BY NodeFair
<1>2. AllCame(t, over, r)
  BY <1>1, AllAlias
<1>3. t.state = q.state /\ (q.state = "FoundTag" => s.state = "FoundTag") /\ q.state # "CheckForTag"
  <2>1. Sound(q) /\ Keeps(s, q)
    BY <1>1, FlushSound, FlushRests DEF Sound
  <2>2. Effect(q, t, Flip(Levels(q)), q.state)
    BY <2>1, AliasEffect DEF EmitAlias, Keeps
  <2>3. q.state \in {"NothingInParticular", s.state} /\ q.state # "CheckForTag"
    <3>1. CASE s.state = "CheckForTag"
      BY <1>1, <3>1, FlushEffect DEF Effect
    <3>2. CASE s.state = "CheckForDuplicateTag"
      BY <1>1, <3>2, FlushEffect DEF Effect
    <3>3. CASE s.state \notin {"CheckForTag", "CheckForDuplicateTag"}
      BY <1>1, <3>3, FlushEffect
    <3> QED BY <3>1, <3>2, <3>3
  <2> QED BY <2>2, <2>3 DEF Effect
<1>4. ASSUME t.state = "FoundTag", NEW i \in 1 .. Len(r), Hunted(r, t.state, i) PROVE FALSE
  <2>1. PICK k \in 0 .. Len(r) :
          /\ \A j \in k + 1 .. Len(r) : r[j].kind \in Transparent
          /\ k > 0 => r[k].kind \notin Transparent /\ ~Undecided(r[k])
    BY <1>3, <1>4, NodeHead
  <2>2. PICK l \in i + 1 .. Len(r) : /\ Undecided(r[l])
                                     /\ \A j \in l + 1 .. Len(r) : r[j].kind \in Transparent
    BY <1>4 DEF Hunted
  <2>3. r[l].kind \notin Transparent
    BY <2>2 DEF Undecided, Transparent
  <2>4. r \in Seq(Frames) /\ Len(r) \in Nat
    BY <1>1 DEF Waiting
  <2>5. ~(l \in k + 1 .. Len(r))
    BY <2>1, <2>3
  <2>6. l <= k
    BY <2>4, <2>5
  <2>7. l # k
    BY <2>1, <2>2, <2>4, <2>6
  <2>8. k \in l + 1 .. Len(r) /\ k > 0
    BY <2>4, <2>6, <2>7
  <2> QED BY <2>1, <2>2, <2>8
<1>5. t.state \notin {"CheckForTag", "FoundTag"} \/ \A i \in 1 .. Len(r) : ~Hunted(r, t.state, i)
  BY <1>3, <1>4
<1> QED BY <1>1, <1>2, <1>5, MarksGone

\* A text is the tag that is looked for.
LEMMA TextMarks ==
  ASSUME NEW s, NEW r, NEW f, NEW errs, Ready(s, r, f, errs), NEW over,
         Marks(s, Append(r, f), over), ~Asking(Answered(r)), s.state = "CheckForTag",
         NEW t, t.out = s.out, t.depth = s.depth, t.pending = s.pending, t.state = "FoundTag"
  PROVE  Marks(t, Answered(r), over)
<1> PICK n \in Nat : n = Len(r)
  BY DEF Ready
<1>1. Waiting(r) /\ AllFair(s, over, r) /\ r \in Seq(Frames) /\ f \in Frames /\ f.kind = "node"
  BY NodeFair DEF Ready
<1>2. AllFair(t, over, r)
  BY <1>1, AllFairSame
<1>3. PICK k \in 0 .. n :
        /\ \A j \in k + 1 .. n : r[j].kind \in Transparent
        /\ k > 0 => Undecided(r[k]) /\ r[k].step = "key"
  BY NodeHead
<1>4. ASSUME NEW i \in k + 1 .. n PROVE ~Watched(r[i])
  <2> PICK c : c = Append(r, f)
    OBVIOUS
  <2>1. Len(c) = n + 1 /\ c[n + 1] = f /\ \A j \in 1 .. n : c[j] = r[j]
    BY <1>1, AppendIndex
  <2>2. Early(s.state, c)
    BY DEF Ready
  <2>3. Asking(c)
    BY <1>1, CallsAsking
  <2>4. \A j \in i .. n + 1 : j = n + 1 \/ (j \in k + 1 .. n /\ j \in 1 .. n)
    OBVIOUS
  <2>5. \A j \in i .. n + 1 : c[j].kind \in Transparent
    BY <1>1, <1>3, <2>1, <2>4 DEF Transparent
  <2>6. i \in 1 .. n /\ i \in 1 .. n + 1
    OBVIOUS
  <2>7. ~Marked(c[i])
    BY <2>1, <2>2, <2>3, <2>5, <2>6 DEF Early
  <2> QED BY <2>1, <2>6, <2>7 DEF Marked, Watched
<1>5. k > 0 => ~Watched(r[k])
  BY <1>3 DEF Watched, Undecided
<1>6. ASSUME NEW i \in 1 .. n, Watched(r[i]) PROVE MarkOK(t, Hunted(r, t.state, i), over, r[i])
  <2>1. i # k /\ ~(i \in k + 1 .. n)
    BY <1>4, <1>5, <1>6
  <2>2. k > 0 /\ k \in i + 1 .. n
    BY <2>1
  <2>3. Hunted(r, t.state, i)
    BY <1>3, <2>2 DEF Hunted
  <2>4. MarkOK(t, TRUE, over, r[i])
    BY <1>2, <1>6 DEF AllFair, Fair
  <2> QED BY <2>3, <2>4 DEF MarkOK
<1> QED BY <1>1, <1>6, MarksReturn

\* A collection ends, and the mapping around it.
LEMMA EndMarks ==
  ASSUME NEW s, NEW r, NEW f, NEW errs, Running(s, r, f, errs), NEW over,
         Marks(s, Append(r, f), over), ~Asking(Answered(r)),
         f.kind \in {"seq", "struct", "variant"}, f.step \in {"open", "done"},
         NEW t, t = IF f.kind = "seq" THEN EmitSequenceEnd(s) ELSE EmitMappingEnd(s)
  PROVE  Marks(IF f.ends = 2 THEN EmitMappingEnd(t) ELSE t, Answered(r), over)
<1>1. /\ Sound(s) /\ Levels(s) \in Seq(Slots)
      /\ Fits(Levels(s), s.state, s.names, Append(r, f), errs)
      /\ r \in Seq(Frames) /\ f \in Frames /\ f.kind \notin Transparent /\ f.kind # "map"
      /\ s.state = "NothingInParticular"
  BY RunningFits
<1>2. \E L1 \in Seq(Slots) :
        /\ Levels(s) = Append(IF f.ends = 2 THEN Append(L1, "key") ELSE L1, Slot(f, "given"))
        /\ \A names1 : (L1 = <<>> => names1 = NoNames) =>
             Fits(L1, "NothingInParticular", names1, Answered(r), errs)
  BY <1>1, AnswerEnd
<1>3. PICK L1 \in Seq(Slots) :
        Levels(s) = Append(IF f.ends = 2 THEN Append(L1, "key") ELSE L1, Slot(f, "given"))
  BY <1>2
<1> PICK type \in {"SequenceEnd", "MappingEnd"} :
      type = IF f.kind = "seq" THEN "SequenceEnd" ELSE "MappingEnd"
  OBVIOUS
<1> PICK slot : slot = IF type = "SequenceEnd" THEN "item" ELSE "key"
  OBVIOUS
<1>4. slot = Slot(f, "given")
  BY DEF Slot
<1>5. t = ValueEnd(EmitEnd(s, Event(type)))
  BY DEF EmitSequenceEnd, EmitMappingEnd
<1> PICK L2 : L2 = IF f.ends = 2 THEN Append(L1, "key") ELSE L1
  OBVIOUS
<1>6. L2 \in Seq(Slots) /\ Levels(s) = Append(L2, slot)
  BY <1>3, <1>4, FlipAppend DEF Slots
<1>7. Effect(s, t, L2, s.state)
  BY <1>1, <1>5, <1>6, EndEffect
<1>8. Sound(t) /\ Levels(t) = L2 /\ t.state = "NothingInParticular"
  BY <1>1, <1>7 DEF Effect
<1>9. PICK lo : Places(s, r, f, lo) /\ (lo < s.depth => AllCame(s, over, r) /\ AllBelow(s, r))
  BY RunningMarks
<1>10. Waiting(r) /\ s.depth \in Nat
  BY RunningMarks
<1>11. /\ lo \in Nat /\ s.depth = lo + f.ends /\ f.ends \in {1, 2}
       /\ \A i \in 1 .. Len(r) : Watched(r[i]) => r[i].floor <= lo
  BY <1>1, <1>9 DEF Places, Frames
<1>12. AllCame(s, over, r) /\ AllBelow(s, r)
  BY <1>9, <1>10, <1>11
<1>13. AllCame(t, over, r)
  BY ONLY <1>1, <1>5, <1>6, <1>10, <1>12, type \in {"SequenceEnd", "MappingEnd"},
          slot = IF type = "SequenceEnd" THEN "item" ELSE "key", AllEnd
<1>14. CASE f.ends = 2
  <2> PICK u : u = EmitMappingEnd(t)
    OBVIOUS
  <2>1. Levels(t) = Append(L1, "key")
    BY <1>8, <1>14
  <2>2. t.depth = lo + 1
    <3>1. Len(Levels(t)) = t.depth /\ Len(Levels(s)) = s.depth
      BY <1>1, <1>8, LevelsCount
    <3>2. Len(Levels(s)) = Len(L2) + 1
      BY <1>6
    <3>3. Len(L2) \in Nat
      BY <1>6
    <3> QED BY <1>8, <1>11, <1>14, <3>1, <3>2, <3>3
  <2>3. AllBelow(t, r)
    <3>1. ASSUME NEW i \in 1 .. Len(r), Watched(r[i]) PROVE r[i].floor < t.depth
      <4>1. r[i].floor <= lo /\ r[i].floor \in Nat
        BY <1>10, <1>11, <3>1, WatchedKinds DEF Frames
      <4> QED BY <1>11, <2>2, <4>1
    <3> QED BY <3>1 DEF AllBelow
  <2>4. u = ValueEnd(EmitEnd(t, Event("MappingEnd")))
    BY DEF EmitMappingEnd
  <2>5. AllCame(u, over, r)
    BY <1>8, <1>10, <1>13, <2>1, <2>3, <2>4, AllEnd
  <2>6. u.state = "NothingInParticular"
    <3>1. Effect(t, u, L1, t.state)
      BY <1>8, <2>1, <2>4, EndEffect
    <3> QED BY <1>8, <3>1 DEF Effect
  <2> QED BY <1>10, <1>14, <2>5, <2>6, MarksGone
<1>15. CASE f.ends # 2
  BY <1>8, <1>10, <1>13, <1>15, MarksGone
<1> QED BY <1>14, <1>15

LEMMA MapEndMarks ==
  ASSUME NEW r, NEW f, Running(ser, r, f, errors), f.kind = "map", f.step = "open",
         f.one => f.begun, NEW over, Marks(ser, Append(r, f), over), ~Asking(Answered(r))
  PROVE  Marks(MapEnded, Answered(r), over)
<1> PICK L \in Seq(Slots) : L = Levels(ser)
  BY RunningFits
<1>1. /\ Sound(ser) /\ Fits(L, ser.state, ser.names, Append(r, f), errors)
      /\ r \in Seq(Frames) /\ f \in Frames /\ f.kind \notin Transparent
      /\ Whole(ser, Append(r, f), errors)
  BY RunningFits
<1>2. f.ends # 2 /\ Slot(f, "given") = "key"
  BY <1>1, CallState DEF CallOK, Slot
<1> PICK u : u = MapEnded
  OBVIOUS
<1>3. Waiting(r) /\ ser.depth \in Nat
  BY RunningMarks
<1>4. PICK lo : Places(ser, r, f, lo) /\ (lo < ser.depth => AllCame(ser, over, r) /\ AllBelow(ser, r))
  BY RunningMarks
<1>5. \/ ser.state = "AlreadyTagged"
      \/ /\ ser.state \in {"NothingInParticular", "CheckForDuplicateTag"}
         /\ \E L1 \in Seq(Slots) : L = Append(L1, "key")
  <2> PICK state : state = ser.state
    OBVIOUS
  <2> PICK names : names = ser.names
    OBVIOUS
  <2> PICK errs : errs = errors
    OBVIOUS
  <2>1. Fits(L, state, names, Append(r, f), errs)
    BY <1>1
  <2>2. f.kind = "map" => f.step = "open" /\ (f.one => f.begun)
    OBVIOUS
  <2>3. r \in Seq(Frames) /\ f \in Frames /\ f.kind \notin Transparent
    BY <1>1
  <2>4. \/ /\ state = "AlreadyTagged" /\ f.kind = "map"
           /\ Fits(L, "NothingInParticular", names, Answered(r), errs)
        \/ /\ \/ state = "NothingInParticular"
              \/ state = "CheckForDuplicateTag" /\ f.kind = "map"
           /\ \E L1 \in Seq(Slots) :
                /\ L = Append(IF f.ends = 2 THEN Append(L1, "key") ELSE L1, Slot(f, "given"))
                /\ \A names1 : (L1 = <<>> => names1 = NoNames) =>
                     Fits(L1, "NothingInParticular", names1, Answered(r), errs)
    BY ONLY <2>1, <2>2, <2>3, L \in Seq(Slots), AnswerEnd
  <2> QED BY <1>2, <2>4
<1>6. CASE ser.state = "AlreadyTagged"
  <2>1. u = [ser EXCEPT !.state = "NothingInParticular"]
    BY <1>6 DEF MapEnded
  <2>2. u.out = ser.out /\ u.depth = ser.depth /\ u.state = "NothingInParticular"
    BY <1>1, <2>1, LevelsCount DEF Serializers
  <2>3. AllCame(ser, over, r)
    <3>1. CASE Undecided(f)
      <4>1. ~(lo = ser.depth)
        <5>1. lo = ser.depth => TagState(ser.state, f, f) \/ lo < ser.depth
          BY <1>1, <1>4 DEF Places, HeadState
        <5>2. ~TagState(ser.state, f, f)
          BY <1>6, <3>1 DEF TagState, Undecided
        <5> QED BY <1>3, <5>1, <5>2
      <4>2. lo < ser.depth
        BY <1>3, <1>4, <4>1 DEF Places
      <4> QED BY <1>4, <4>2
    <3>2. CASE ~Undecided(f)
      BY <3>2, RunningMarks
    <3> QED BY <3>1, <3>2
  <2>4. AllCame(u, over, r)
    BY <2>2, <2>3, AllCameSame
  <2> QED BY <1>3, <2>2, <2>4, MarksGone
<1>7. ASSUME ser.state \in {"NothingInParticular", "CheckForDuplicateTag"},
             NEW L1 \in Seq(Slots), L = Append(L1, "key")
      PROVE  Marks(u, Answered(r), over)
  <2> PICK t : t = EmitMappingEnd(ser)
    OBVIOUS
  <2>1. u = [t EXCEPT !.state = "NothingInParticular"]
    BY <1>7 DEF MapEnded
  <2>2. t = ValueEnd(EmitEnd(ser, Event("MappingEnd")))
    BY DEF EmitMappingEnd
  <2>3. Sound(t)
    <3>1. Effect(ser, t, L1, ser.state)
      BY <1>1, <1>7, <2>2, EndEffect
    <3> QED BY <3>1 DEF Effect
  <2>4. u.out = t.out /\ u.depth = t.depth /\ u.state = "NothingInParticular"
    BY <2>1, <2>3, LevelsCount DEF Serializers
  <2>5. lo < ser.depth
    <3>1. ~(lo = ser.depth)
      <4>1. lo = ser.depth => TagState(ser.state, f, f) \/ lo < ser.depth
        BY <1>1, <1>4 DEF Places, HeadState
      <4>2. ~TagState(ser.state, f, f)
        BY <1>7 DEF TagState
      <4> QED BY <1>3, <4>1, <4>2
    <3> QED BY <1>3, <1>4, <3>1 DEF Places
  <2>6. AllCame(ser, over, r) /\ AllBelow(ser, r)
    BY <1>4, <2>5
  <2>7. AllCame(t, over, r)
    BY <1>1, <1>3, <1>7, <2>2, <2>6, AllEnd
  <2>8. AllCame(u, over, r)
    BY <2>4, <2>7, AllCameSame
  <2> QED BY <1>3, <2>4, <2>8, MarksGone
<1> QED BY <1>5, <1>6, <1>7

-----------------------------------------------------------------------------
(* The watched calls, step by step.                                        *)

\* The name and the value of a variant are nodes of the mapping that begins.
LEMMA VariantMarks ==
  ASSUME NEW s, NEW r, NEW f, NEW errs, Ready(s, r, f, errs), NEW over,
         Waiting(r), AllFair(s, over, r)
  PROVE  LET v == EmitScalar(EmitMappingStart(s)) IN Sound(v) /\ AllFair(v, over, r)
<1> PICK q : q = FlushMappingStart(s)
  OBVIOUS
<1> PICK u : u = EmitMappingStart(s)
  OBVIOUS
<1> PICK v : v = EmitScalar(u)
  OBVIOUS
<1>1. Sound(q) /\ Effect(q, v, Append(Flip(Levels(q)), "value"), "NothingInParticular") /\ Sound(s)
  BY VariantEffect DEF Ready, Whole
<1>2. Sound(u) /\ u.state = "NothingInParticular"
  <2>1. Effect(q, u, Append(Flip(Levels(q)), "key"), "NothingInParticular")
    BY <1>1, MappingEffect DEF EmitMappingStart
  <2> QED BY <2>1 DEF Effect
<1>3. AllCame(u, over, r) /\ AllBelow(u, r)
  BY <1>1, AllStart
<1>4. u.depth \in Nat
  BY <1>2, LevelsCount
<1>5. AllFair(u, over, r)
  BY <1>3, <1>4, AllCameFair
<1>6. FlushMappingStart(u) = u
  BY <1>2 DEF FlushMappingStart
<1>7. AllCame(v, over, r) /\ AllBelow(v, r)
  BY <1>2, <1>3, <1>5, <1>6, AllScalar
<1>8. Sound(v)
  BY <1>1 DEF Effect
<1>9. v.depth \in Nat
  BY <1>8, LevelsCount
<1>10. AllFair(v, over, r)
  BY <1>7, <1>9, AllCameFair
<1> QED BY <1>8, <1>10

\* A map begins, or may be a tag.
LEMMA MapMarks ==
  ASSUME CallsOK, NEW r, NEW f, Ready(ser, r, f, errors), NEW over, Waiting(r),
         AllFair(ser, over, r), NEW one \in BOOLEAN, one => ser.state # "CheckForTag",
         NEW g \in Frames, g.kind = "map", g.step = "open", ~g.begun,
         g.tag # NoTag => one /\ Ahead(ser, g)
  PROVE  Marks(MapBegun(one), Append(r, g), over)
<1> PICK t : t = MapBegun(one)
  OBVIOUS
<1> PICK u : u = EmitMappingStart(ser)
  OBVIOUS
<1>1. g.kind \notin Transparent /\ ~Watched(g) /\ Undecided(g)
  BY DEF Transparent, Watched, Undecided
<1>2. Sound(ser) /\ ser \in Serializers
  BY DEF Ready, Whole, CallsOK, Resting
<1>3. AllCame(u, over, r) /\ AllBelow(u, r)
  BY <1>2, AllStart
<1>4. CASE ~one
  <2>1. t = u /\ TagOK(t, g)
    BY <1>4 DEF MapBegun, TagOK
  <2> QED BY <1>1, <1>3, <2>1, MarksInstead
<1>5. CASE one /\ ser.state = "FoundTag"
  <2>1. t = [u EXCEPT !.state = "CheckForDuplicateTag"]
    BY <1>5 DEF MapBegun
  <2>2. Resting(u)
    BY EmitMappingStartRests DEF CallsOK
  <2>3. t.out = u.out /\ t.depth = u.depth /\ t.state = "CheckForDuplicateTag"
    BY <2>1, <2>2 DEF Resting, Serializers
  <2>4. AllCame(t, over, r) /\ AllBelow(t, r)
    BY <1>3, <2>3, AllCameSame
  <2>5. TagOK(t, g)
    BY <2>3 DEF TagOK
  <2> QED BY <1>1, <2>4, <2>5, MarksInstead
<1>6. CASE one /\ ser.state # "FoundTag"
  <2>1. t = [ser EXCEPT !.state = "CheckForTag"]
    BY <1>6 DEF MapBegun
  <2>2. t.out = ser.out /\ t.depth = ser.depth /\ t.pending = ser.pending /\ t.state = "CheckForTag"
    BY <1>2, <2>1 DEF Serializers
  <2>3. AllFair(t, over, r)
    <3>1. (over => over) /\ (t.pending # ser.pending /\ ser.pending # NoAnchor => over)
      BY <2>2
    <3>2. ser.state # "FoundTag" \/ (t.state = ser.state /\ t.tag = ser.tag)
      BY <1>6
    <3>3. Waiting(r) /\ AllFair(ser, over, r) /\ t.out = ser.out /\ t.depth = ser.depth
      BY <2>2
    <3> QED BY ONLY <3>1, <3>2, <3>3, AllFairSame
  <2>4. TagOK(t, g)
    BY <2>2 DEF TagOK, Ahead, Written
  <2> QED BY <1>1, <2>2, <2>3, <2>4, MarksInstead
<1> QED BY <1>4, <1>5, <1>6

\* What a method does to the watched calls.
LEMMA DoMarks ==
  ASSUME NEW s, NEW calls, NEW more, Do(s, calls), covered' = more, Marks(s, calls, more)
  PROVE  Marks(ser', stack', covered')
<1>1. Marks(s, <<>>, more)
  BY DEF Marks
<1> QED BY <1>1 DEF Do

LEMMA AbortMarks ==
  ASSUME NEW kind, Abort(kind)
  PROVE  Marks(ser', stack', covered')
<1>1. stack' = <<>>
  BY DEF Abort
<1>2. \A t, more : Marks(t, <<>>, more)
  BY DEF Marks
<1> QED BY <1>1, <1>2

\* The name of a value is pending for the node of it.
LEMMA AnchoredMarks ==
  ASSUME CallsOK, Histories, stack # <<>>, NEW r, Waiting(r), r = ButLast(stack),
         AllFair(ser, covered, r), NEW s, s \in Serializers, SameDocument(ser, s),
         s.state = ser.state, s.tag = ser.tag, s.pending = ser.pending,
         NEW name \in Names, Anchored(s, name)
  PROVE  Marks(ser', stack', covered')
<1> PICK t : t = [s EXCEPT !.pending = name]
  OBVIOUS
<1> PICK g0 \in Frames : g0 = Frame("anchor")
  BY NewCall DEF Kinds
<1> PICK late \in BOOLEAN : late = (ser.state = "CheckForTag")
  OBVIOUS
<1> PICK g : g = [g0 EXCEPT !.step = "value", !.name = name, !.late = late]
  OBVIOUS
<1> PICK nd : nd = Frame("node")
  OBVIOUS
<1> PICK more : more = (covered \/ ser.pending # NoAnchor)
  OBVIOUS
<1>1. CallOK(nd) /\ nd.kind = "node"
  BY NewCall DEF Kinds
<1>2. /\ g0.kind = "anchor" /\ g0.ends = 1
      /\ g0.floor = ser.depth /\ g0.start = IF ser.depth = 0 THEN 0 ELSE Len(ser.out)
  BY NewCall DEF Kinds, Frame
<1>3. /\ g \in Frames /\ g.kind = "anchor" /\ g.step = "value" /\ g.ends = 1
      /\ g.floor = g0.floor /\ g.start = g0.start /\ g.name = name
  BY ONLY <1>2, g0 \in Frames, name \in Names, late \in BOOLEAN,
          g = [g0 EXCEPT !.step = "value", !.name = name, !.late = late] DEF Frames
<1>4. CallOK(g) /\ g.step \in Inner
  BY <1>3 DEF CallOK, StepsOf, Inner
<1>5. /\ t.out = s.out /\ t.depth = s.depth /\ t.state = s.state /\ t.tag = s.tag
      /\ t.pending = name
  BY DEF Serializers
<1>6. /\ t.out = ser.out /\ t.depth = ser.depth /\ t.state = ser.state /\ t.tag = ser.tag
  BY <1>5 DEF SameDocument
<1>7. AllFair(t, more, r)
  <2>1. (covered => more) /\ (t.pending # ser.pending /\ ser.pending # NoAnchor => more)
    OBVIOUS
  <2>2. ser.state # "FoundTag" \/ (t.state = ser.state /\ t.tag = ser.tag)
    BY <1>6
  <2>3. Waiting(r) /\ AllFair(ser, covered, r) /\ t.out = ser.out /\ t.depth = ser.depth
    BY <1>6
  <2> QED BY ONLY <2>1, <2>2, <2>3, AllFairSame
<1>8. Fair(t, more, g)
  <2>1. Ahead(t, g)
    <3>1. Len(<<>>) = 0
      OBVIOUS
    <3> QED BY <1>2, <1>3, <1>6, <3>1 DEF Ahead, Written
  <2>2. Due(t, more, g)
    BY <1>3, <1>5, SerializerAssumption DEF Due
  <2>3. ser.depth \in Nat
    BY DEF CallsOK, Resting, Serializers
  <2> QED BY <1>2, <1>3, <1>6, <2>1, <2>2, <2>3 DEF Fair, MarkOK
<1>9. Marks(t, Append(Append(r, g), nd), more)
  BY <1>1, <1>3, <1>4, <1>7, <1>8, MarksInside
<1>10. Do(t, Append(Append(r, g), nd)) /\ covered' = more
  BY InnermostCall DEF Anchored
<1> QED BY <1>9, <1>10, DoMarks

\* No step leaves a watched call to a node without its anchor or its tag.
LEMMA MarksStep ==
  ASSUME CallsOK, Histories, ShapeOK, MarksOK, Next, ~twisted'
  PROVE  Marks(ser', stack', covered')
<1>1. ~twisted
  BY DEF Histories, Next, Straight, SerializeValue, SerializeScalar, CollectStr,
    SerializeSeq, SerializeMap, SerializeTagged, SerializeStruct, SerializeNewtypeVariant,
    SerializeTupleVariant, SerializeStructVariant, SerializeAnchor, SerializeAlias,
    SerializeRc, SerializeFlow, Fail, NextElement, NextField, NextKey, TagKey, NextValue,
    EndEntry, EndSeq, EndStruct, EndMap, EndVariant, EndAnchor, EndFlow, Anchored, Aliased
<1>2. Whole(ser, stack, errors) /\ Early(ser.state, stack) /\ Marks(ser, stack, covered)
  BY <1>1 DEF ShapeOK, MarksOK
<1> PICK r : r = ButLast(stack)
  OBVIOUS
<1> PICK f : f = Top
  OBVIOUS
<1> PICK nd : nd = Frame("node")
  OBVIOUS
<1>3. CallOK(nd) /\ nd.kind = "node" /\ nd \in Frames
  BY NewCall DEF Kinds, CallOK
<1>4. stack # <<>> =>
        /\ r \in Seq(Frames) /\ f \in Frames /\ stack = Append(r, f)
        /\ Returned = Answered(r)
        /\ \A g : Instead(g) = Append(r, g)
        /\ \A g : Inside(g) = Append(Append(r, g), nd)
  BY InnermostCall
<1>5. ser \in Serializers /\ Sound(ser)
  BY <1>2 DEF CallsOK, Resting, Whole
<1>6. stack # <<>> => /\ ~Asking(Answered(r)) /\ Marks(ser, Append(r, f), covered)
                      /\ Whole(ser, Append(r, f), errors)
  BY <1>2, <1>4, ReturnsTo
<1>7. In("node", "open") => /\ stack # <<>> /\ Ready(ser, r, f, errors)
                            /\ ~Asking(Answered(r)) /\ Marks(ser, Append(r, f), covered)
  BY <1>2, <1>4, <1>6 DEF In, Ready
<1>8. In("node", "open") => Waiting(r) /\ AllFair(ser, covered, r)
  BY <1>7, NodeFair
<1>9. stack # <<>> /\ f.kind \notin Transparent =>
        /\ Running(ser, r, f, errors) /\ ~Asking(Answered(r)) /\ Marks(ser, Append(r, f), covered)
  BY <1>2, <1>4, <1>6 DEF Running
<1>10. stack # <<>> /\ f.kind \notin Transparent =>
         /\ Waiting(r) /\ ser.depth \in Nat /\ CallOK(f) /\ TagOK(ser, f)
         /\ Undecided(f) => AllFair(ser, covered, r)
         /\ ~Undecided(f) => AllCame(ser, covered, r)
         /\ f.kind # "map" \/ ~f.one => AllCame(ser, covered, r) /\ AllBelow(ser, r)
  <2>1. SUFFICES ASSUME stack # <<>>, f.kind \notin Transparent
                 PROVE  /\ Waiting(r) /\ ser.depth \in Nat /\ CallOK(f) /\ TagOK(ser, f)
                        /\ Undecided(f) => AllFair(ser, covered, r)
                        /\ ~Undecided(f) => AllCame(ser, covered, r)
                        /\ f.kind # "map" \/ ~f.one =>
                             AllCame(ser, covered, r) /\ AllBelow(ser, r)
    OBVIOUS
  <2>2. Running(ser, r, f, errors) /\ Marks(ser, Append(r, f), covered)
    BY <1>9, <2>1
  <2>3. /\ Waiting(r) /\ ser.depth \in Nat /\ CallOK(f) /\ TagOK(ser, f)
        /\ Undecided(f) => AllFair(ser, covered, r)
        /\ ~Undecided(f) => AllCame(ser, covered, r)
        /\ \E lo : /\ Places(ser, r, f, lo)
                   /\ lo < ser.depth => AllCame(ser, covered, r) /\ AllBelow(ser, r)
    BY <2>2, RunningMarks
  <2>4. f.kind # "map" \/ ~f.one => AllCame(ser, covered, r) /\ AllBelow(ser, r)
    <3>1. SUFFICES ASSUME f.kind # "map" \/ ~f.one
                   PROVE  AllCame(ser, covered, r) /\ AllBelow(ser, r)
      OBVIOUS
    <3>2. PICK lo : /\ Places(ser, r, f, lo)
                    /\ lo < ser.depth => AllCame(ser, covered, r) /\ AllBelow(ser, r)
      BY <2>3
    <3>3. f.ends \in {1, 2} /\ lo \in Nat /\ ser.depth = lo + f.ends
      BY <1>4, <2>1, <3>1, <3>2 DEF Places, Frames
    <3> QED BY <3>2, <3>3
  <2> QED BY <2>3, <2>4
<1>11. "node" \in Kinds /\ "seq" \in Kinds /\ "map" \in Kinds /\ "struct" \in Kinds
       /\ "variant" \in Kinds /\ "flowSeq" \in Kinds /\ "flowMap" \in Kinds
  BY DEF Kinds
<1> DEFINE Goal == Marks(ser', stack', covered')
<1>12. ASSUME SerializeValue PROVE Goal
  <2>1. stack' = <<nd>>
    BY <1>12 DEF SerializeValue
  <2> QED BY <1>3, <2>1, MarksFew
<1>13. ASSUME SerializeScalar PROVE Goal
  <2>1. Do(EmitScalar(ser), Answered(r)) /\ covered' = covered /\ In("node", "open")
    BY <1>4, <1>7, <1>13 DEF SerializeScalar, Asked, Straight
  <2>2. Marks(EmitScalar(ser), Answered(r), covered)
    BY <1>7, <2>1, ScalarMarks
  <2> QED BY <2>1, <2>2, DoMarks
<1>14. ASSUME CollectStr PROVE Goal
  <2>1. /\ In("node", "open") /\ covered' = covered
        /\ Do(IF LooksForTag THEN FoundTag(TagText) ELSE EmitScalar(ser), Answered(r))
        /\ ser.state # "CheckForDuplicateTag"
    BY <1>4, <1>7, <1>14 DEF CollectStr, Asked
  <2>2. CASE LooksForTag
    <3> PICK t : t = FoundTag(TagText)
      OBVIOUS
    <3>1. ser.state = "CheckForTag"
      BY <2>1, <2>2 DEF LooksForTag
    <3>2. /\ t.out = ser.out /\ t.depth = ser.depth /\ t.pending = ser.pending
          /\ t.state = "FoundTag"
      BY <1>5 DEF FoundTag, Serializers
    <3>3. Marks(t, Answered(r), covered)
      BY <1>7, <2>1, <3>1, <3>2, TextMarks
    <3> QED BY <2>1, <2>2, <3>3, DoMarks
  <2>3. CASE ~LooksForTag
    <3>1. Marks(EmitScalar(ser), Answered(r), covered)
      BY <1>7, <2>1, ScalarMarks
    <3> QED BY <2>1, <2>3, <3>1, DoMarks
  <2> QED BY <2>2, <2>3
<1>15. ASSUME NEW t, NEW g \in Frames, g.kind \in {"seq", "struct"}, NEW s, Sound(s),
              Waiting(r), AllFair(s, covered, r), t = EmitMappingStart(s) \/ t = EmitSequenceStart(s),
              Do(t, Append(r, g)), covered' = covered
       PROVE  Goal
  <2>1. g.kind \notin Transparent /\ ~Watched(g) /\ TagOK(t, g)
    BY <1>15 DEF Transparent, Watched, TagOK
  <2>2. AllCame(t, covered, r) /\ AllBelow(t, r)
    BY <1>15, AllStart
  <2>3. Marks(t, Append(r, g), covered)
    BY <1>15, <2>1, <2>2, MarksInstead
  <2> QED BY <1>15, <2>3, DoMarks
<1>16. ASSUME SerializeSeq PROVE Goal
  <2>1. Frame("seq") \in Frames /\ Frame("seq").kind = "seq"
    BY <1>11, NewCall
  <2>2. /\ In("node", "open") /\ covered' = covered
        /\ Do(EmitSequenceStart(ser), Append(r, Frame("seq")))
    BY <1>4, <1>7, <1>16 DEF SerializeSeq, Asked, Straight
  <2> QED BY <1>5, <1>8, <1>15, <2>1, <2>2
<1>17. ASSUME SerializeStruct PROVE Goal
  <2>1. Frame("struct") \in Frames /\ Frame("struct").kind = "struct"
    BY <1>11, NewCall
  <2>2. /\ In("node", "open") /\ covered' = covered
        /\ Do(EmitMappingStart(ser), Append(r, Frame("struct")))
    BY <1>4, <1>7, <1>17 DEF SerializeStruct, Asked, Straight
  <2> QED BY <1>5, <1>8, <1>15, <2>1, <2>2
<1>18. ASSUME SerializeMap PROVE Goal
  <2>1. PICK one \in BOOLEAN :
          /\ In("node", "open")
          /\ Do(MapBegun(one), Instead([Frame("map") EXCEPT !.one = one]))
          /\ twisted' = (twisted \/ (one /\ ser.state = "CheckForTag"))
    BY <1>18 DEF SerializeMap, Asked
  <2> PICK g0 \in Frames : g0 = Frame("map")
    BY <1>11, NewCall
  <2> PICK g : g = [g0 EXCEPT !.one = one]
    OBVIOUS
  <2>2. g0.kind = "map" /\ g0.step = "open" /\ ~g0.begun /\ g0.tag = NoTag
    BY <1>11, NewCall
  <2>3. g \in Frames /\ g.kind = "map" /\ g.step = "open" /\ ~g.begun /\ g.tag = NoTag
    BY ONLY <2>2, g0 \in Frames, one \in BOOLEAN, g = [g0 EXCEPT !.one = one] DEF Frames
  <2>4. one => ser.state # "CheckForTag"
    BY <2>1
  <2>5. Do(MapBegun(one), Append(r, g)) /\ covered' = covered
    BY <1>4, <1>7, <1>18, <2>1 DEF SerializeMap
  <2>6. Marks(MapBegun(one), Append(r, g), covered)
    BY <1>7, <1>8, <2>1, <2>3, <2>4, MapMarks
  <2> QED BY <2>5, <2>6, DoMarks
<1>19. ASSUME SerializeTagged PROVE Goal
  <2>1. PICK tag \in Tags :
          /\ In("node", "open")
          /\ Do(MapBegun(TRUE), Instead([Frame("map") EXCEPT !.one = TRUE, !.tag = tag]))
          /\ twisted' = (twisted \/ ser.state = "CheckForTag")
    BY <1>19 DEF SerializeTagged, Asked
  <2> PICK g0 \in Frames : g0 = Frame("map")
    BY <1>11, NewCall
  <2> PICK g : g = [g0 EXCEPT !.one = TRUE, !.tag = tag]
    OBVIOUS
  <2>2. /\ g0.kind = "map" /\ g0.step = "open" /\ ~g0.begun
        /\ g0.floor = ser.depth /\ g0.start = IF ser.depth = 0 THEN 0 ELSE Len(ser.out)
    BY <1>11, NewCall DEF Frame
  <2>3. /\ g \in Frames /\ g.kind = "map" /\ g.step = "open" /\ ~g.begun
        /\ g.floor = g0.floor /\ g.start = g0.start
    BY ONLY <2>2, g0 \in Frames, tag \in Tags, g = [g0 EXCEPT !.one = TRUE, !.tag = tag] DEF Frames
  <2>4. Ahead(ser, g)
    <3>1. Len(<<>>) = 0
      OBVIOUS
    <3> QED BY <2>2, <2>3, <3>1 DEF Ahead, Written
  <2>5. ser.state # "CheckForTag"
    BY <2>1
  <2>6. Do(MapBegun(TRUE), Append(r, g)) /\ covered' = covered
    BY <1>4, <1>7, <1>19, <2>1 DEF SerializeTagged
  <2>7. Marks(MapBegun(TRUE), Append(r, g), covered)
    BY <1>7, <1>8, <2>1, <2>3, <2>4, <2>5, MapMarks
  <2> QED BY <2>6, <2>7, DoMarks
<1>20. ASSUME SerializeNewtypeVariant PROVE Goal
  <2> PICK v : v = EmitScalar(EmitMappingStart(ser))
    OBVIOUS
  <2> PICK g0 \in Frames : g0 = Frame("variant")
    BY <1>11, NewCall
  <2> PICK g : g = [g0 EXCEPT !.step = "value"]
    OBVIOUS
  <2>1. In("node", "open") /\ Do(v, Append(Append(r, g), nd)) /\ covered' = covered
    BY <1>4, <1>7, <1>20 DEF SerializeNewtypeVariant, Asked, Straight
  <2>2. g0.kind = "variant" /\ g0.ends = 1
    BY <1>11, NewCall
  <2>3. g \in Frames /\ g.kind = "variant" /\ g.step = "value" /\ g.ends = 1
    BY ONLY <2>2, g0 \in Frames, g = [g0 EXCEPT !.step = "value"] DEF Frames
  <2>4. CallOK(g) /\ g.step \in Inner /\ ~Watched(g) /\ g.kind # "map"
    BY <2>3 DEF CallOK, StepsOf, Inner, Watched
  <2>5. Waiting(r) /\ AllFair(v, covered, r)
    BY <1>7, <1>8, <2>1, VariantMarks
  <2>6. Marks(v, Append(Append(r, g), nd), covered)
    BY <1>3, <2>4, <2>5, MarksInside
  <2> QED BY <2>1, <2>6, DoMarks
<1>21. ASSUME SerializeTupleVariant PROVE Goal
  <2> PICK v : v = EmitScalar(EmitMappingStart(ser))
    OBVIOUS
  <2> PICK g0 \in Frames : g0 = Frame("seq") /\ g0.kind = "seq"
    BY <1>11, NewCall
  <2> PICK g : g = [g0 EXCEPT !.ends = 2]
    OBVIOUS
  <2>1. In("node", "open") /\ Do(EmitSequenceStart(v), Append(r, g)) /\ covered' = covered
    BY <1>4, <1>7, <1>21 DEF SerializeTupleVariant, Asked, Straight
  <2>2. g \in Frames /\ g.kind = "seq"
    BY ONLY g0 \in Frames, g0.kind = "seq", g = [g0 EXCEPT !.ends = 2] DEF Frames
  <2>3. Waiting(r) /\ Sound(v) /\ AllFair(v, covered, r)
    BY <1>7, <1>8, <2>1, VariantMarks
  <2> QED BY <1>15, <2>1, <2>2, <2>3
<1>22. ASSUME SerializeStructVariant PROVE Goal
  <2> PICK v : v = EmitScalar(EmitMappingStart(ser))
    OBVIOUS
  <2> PICK g0 \in Frames : g0 = Frame("struct") /\ g0.kind = "struct"
    BY <1>11, NewCall
  <2> PICK g : g = [g0 EXCEPT !.ends = 2]
    OBVIOUS
  <2>1. In("node", "open") /\ Do(EmitMappingStart(v), Append(r, g)) /\ covered' = covered
    BY <1>4, <1>7, <1>22 DEF SerializeStructVariant, Asked, Straight
  <2>2. g \in Frames /\ g.kind = "struct"
    BY ONLY g0 \in Frames, g0.kind = "struct", g = [g0 EXCEPT !.ends = 2] DEF Frames
  <2>3. Waiting(r) /\ Sound(v) /\ AllFair(v, covered, r)
    BY <1>7, <1>8, <2>1, VariantMarks
  <2> QED BY <1>15, <2>1, <2>2, <2>3
<1>23. ASSUME SerializeAnchor PROVE Goal
  <2>1. PICK name \in Anchors : Anchored(ser, name) /\ In("node", "open")
    BY <1>23 DEF SerializeAnchor, Asked
  <2>2. SameDocument(ser, ser) /\ name \in Names
    BY DEF SameDocument, Names
  <2> QED BY <1>5, <1>7, <1>8, <2>1, <2>2, AnchoredMarks
<1>24. ASSUME NEW name \in Names, Aliased(name), In("node", "open") PROVE Goal
  <2>1. CASE ser.check /\ name \notin ser.anchors
    <3>1. Abort("anchor")
      BY <1>24, <2>1 DEF Aliased
    <3> QED BY <3>1, AbortMarks
  <2>2. CASE ~(ser.check /\ name \notin ser.anchors)
    <3>1. Do(EmitAlias(ser, name), Answered(r)) /\ covered' = covered
      BY <1>4, <1>7, <1>24, <2>2 DEF Aliased, Straight
    <3>2. ser.check => name \in ser.anchors
      BY <2>2
    <3>3. Marks(EmitAlias(ser, name), Answered(r), covered)
      BY <1>7, <1>24, <3>2, AliasMarks
    <3> QED BY <3>1, <3>3, DoMarks
  <2> QED BY <2>1, <2>2
<1>25. ASSUME SerializeAlias PROVE Goal
  BY <1>24, <1>25 DEF SerializeAlias, Asked, Names
<1>26. ASSUME SerializeRc PROVE Goal
  <2>1. PICK p \in Pointers :
          IF p \in DOMAIN ser.names
            THEN Aliased(ser.names[p])
            ELSE /\ ser.counter < Len(AnchorName)
                 /\ LET name == AnchorName[ser.counter + 1]
                    IN  Anchored([ser EXCEPT !.counter = @ + 1,
                                             !.names = [q \in DOMAIN @ \cup {p} |->
                                                          IF q = p THEN name ELSE @[q]]],
                                 name)
    BY <1>26 DEF SerializeRc
  <2>2. In("node", "open")
    BY <1>26 DEF SerializeRc, Asked
  <2>3. PICK P \in SUBSET Pointers : ser.names \in [P -> Names]
    BY <1>5 DEF Serializers
  <2>4. CASE p \in DOMAIN ser.names
    <3>1. ser.names[p] \in Names
      BY <2>3, <2>4
    <3> QED BY <1>24, <2>1, <2>2, <2>4, <3>1
  <2>5. CASE p \notin DOMAIN ser.names
    <3> PICK name : name = AnchorName[ser.counter + 1]
      OBVIOUS
    <3> PICK names : names = [q \in DOMAIN ser.names \cup {p} |->
                                IF q = p THEN name ELSE ser.names[q]]
      OBVIOUS
    <3> PICK counter : counter = ser.counter + 1
      OBVIOUS
    <3> PICK s : s = [ser EXCEPT !.counter = counter, !.names = names]
      OBVIOUS
    <3>1. ser.counter < Len(AnchorName) /\ Anchored(s, name)
      BY <2>1, <2>5
    <3>2. ser.counter + 1 \in DOMAIN AnchorName
      BY <1>5, <3>1, SerializerAssumption DEF Serializers
    <3>3. name \in Names
      BY <3>2 DEF Names
    <3>4. P \cup {p} \in SUBSET Pointers /\ names \in [P \cup {p} -> Names]
      BY <2>3, <3>3
    <3>5. names \in UNION { [Q -> Names] : Q \in SUBSET Pointers }
      BY <3>4
    <3>6. counter \in Nat
      BY <1>5 DEF Serializers
    <3>7. s \in Serializers
      BY ONLY <1>5, <3>5, <3>6, s = [ser EXCEPT !.counter = counter, !.names = names]
         DEF Serializers
    <3>8. /\ SameDocument(ser, s) /\ s.state = ser.state /\ s.tag = ser.tag
          /\ s.pending = ser.pending
      BY <1>5 DEF Serializers, SameDocument
    <3>9. stack # <<>> /\ Waiting(r) /\ AllFair(ser, covered, r)
      BY <1>7, <1>8, <2>2
    <3> QED BY <3>1, <3>3, <3>7, <3>8, <3>9, AnchoredMarks
  <2> QED BY <2>4, <2>5
<1>27. ASSUME SerializeFlow PROVE Goal
  <2>1. PICK kind \in {"flowSeq", "flowMap"} :
          /\ In("node", "open")
          /\ Do(IF kind = "flowSeq" THEN [ser EXCEPT !.flowSeq = TRUE]
                                    ELSE [ser EXCEPT !.flowMap = TRUE],
                Inside([Frame(kind) EXCEPT !.step = "value"]))
    BY <1>27 DEF SerializeFlow, Asked
  <2> PICK t : t = IF kind = "flowSeq" THEN [ser EXCEPT !.flowSeq = TRUE]
                                       ELSE [ser EXCEPT !.flowMap = TRUE]
    OBVIOUS
  <2> PICK g0 \in Frames : g0 = Frame(kind)
    BY <1>11, NewCall
  <2> PICK g : g = [g0 EXCEPT !.step = "value"]
    OBVIOUS
  <2>2. Do(t, Append(Append(r, g), nd)) /\ covered' = covered
    BY <1>4, <1>7, <1>27, <2>1 DEF SerializeFlow, Straight
  <2>3. g0.kind = kind /\ g0.ends = 1
    BY <1>11, NewCall
  <2>4. g \in Frames /\ g.kind = kind /\ g.ends = 1 /\ g.step = "value"
    BY ONLY <2>3, g0 \in Frames, g = [g0 EXCEPT !.step = "value"] DEF Frames
  <2>5. CallOK(g) /\ g.step \in Inner /\ ~Watched(g) /\ g.kind # "map"
    BY <2>4 DEF CallOK, StepsOf, Inner, Watched
  <2>6. /\ t.out = ser.out /\ t.depth = ser.depth /\ t.state = ser.state /\ t.tag = ser.tag
        /\ t.pending = ser.pending
    BY ONLY <1>5, t = IF kind = "flowSeq" THEN [ser EXCEPT !.flowSeq = TRUE]
                                          ELSE [ser EXCEPT !.flowMap = TRUE]
       DEF Serializers
  <2>7. AllFair(t, covered, r)
    <3>1. (covered => covered) /\ (t.pending # ser.pending /\ ser.pending # NoAnchor => covered)
      BY <2>6
    <3>2. ser.state # "FoundTag" \/ (t.state = ser.state /\ t.tag = ser.tag)
      BY <2>6
    <3>3. Waiting(r) /\ AllFair(ser, covered, r) /\ t.out = ser.out /\ t.depth = ser.depth
      BY <1>8, <2>1, <2>6
    <3> QED BY ONLY <3>1, <3>2, <3>3, AllFairSame
  <2>8. Marks(t, Append(Append(r, g), nd), covered)
    BY <1>3, <1>8, <2>1, <2>5, <2>7, MarksInside
  <2> QED BY <2>2, <2>8, DoMarks
<1>28. ASSUME Fail PROVE Goal
  BY <1>28, AbortMarks DEF Fail
<1>29. ASSUME NextElement PROVE Goal
  <2> PICK g : g = [f EXCEPT !.step = "value"]
    OBVIOUS
  <2>1. /\ stack # <<>> /\ f.kind = "seq" /\ covered' = covered
        /\ Do(ser, Append(Append(r, g), nd))
    BY <1>4, <1>29 DEF NextElement, In, Straight
  <2>2. f.kind \notin Transparent /\ "value" \in StepsOf(f.kind)
    BY <2>1 DEF Transparent, StepsOf
  <2>3. CallOK(f) /\ Waiting(r) /\ AllFair(ser, covered, r)
    BY <1>10, <2>1, <2>2, AllCameFair
  <2>4. CallOK(g) /\ g.step \in Inner /\ g.kind = "seq"
    BY <2>1, <2>2, <2>3, NextCall DEF Inner
  <2>5. ~Watched(g)
    BY <2>4 DEF Watched
  <2>6. Marks(ser, Append(Append(r, g), nd), covered)
    BY <1>3, <2>3, <2>4, <2>5, MarksInside
  <2> QED BY <2>1, <2>6, DoMarks
<1>30. ASSUME NextField PROVE Goal
  <2> PICK g : g = [f EXCEPT !.step = "value"]
    OBVIOUS
  <2> PICK t : t = EmitScalar(ser)
    OBVIOUS
  <2>1. /\ stack # <<>> /\ f.kind = "struct" /\ covered' = covered
        /\ Do(t, Append(Append(r, g), nd))
    BY <1>4, <1>30 DEF NextField, In, Straight
  <2>2. f.kind \notin Transparent /\ "value" \in StepsOf(f.kind)
    BY <2>1 DEF Transparent, StepsOf
  <2>3. CallOK(f) /\ Waiting(r) /\ AllFair(ser, covered, r) /\ AllBelow(ser, r)
    BY <1>10, <2>1, <2>2, AllCameFair
  <2>4. CallOK(g) /\ g.step \in Inner /\ g.kind = "struct"
    BY <2>1, <2>2, <2>3, NextCall DEF Inner
  <2>5. ~Watched(g)
    BY <2>4 DEF Watched
  <2>6. Running(ser, r, f, errors) /\ FlushMappingStart(ser) = ser
    BY <1>9, <2>1, <2>2, RunningFits
  <2>7. AllCame(t, covered, r) /\ AllBelow(t, r)
    BY <1>5, <2>3, <2>6, AllScalar
  <2>8. t.depth \in Nat
    BY <1>5, EmitScalarRests DEF CallsOK, Resting, Serializers
  <2>9. AllFair(t, covered, r)
    BY <2>3, <2>7, <2>8, AllCameFair
  <2>10. Marks(t, Append(Append(r, g), nd), covered)
    BY <1>3, <2>3, <2>4, <2>5, <2>9, MarksInside
  <2> QED BY <2>1, <2>10, DoMarks
<1>31. ASSUME NextKey PROVE Goal
  <2>1. PICK entry \in BOOLEAN :
          /\ In("map", "open")
          /\ Top.tag = NoTag
          /\ Top.one => ~Top.begun
          /\ Do(IF entry THEN ser ELSE FlushMappingStart(ser),
                Inside([Top EXCEPT !.step = "key", !.entry = entry]))
    BY <1>31 DEF NextKey
  <2> PICK t : t = IF entry THEN ser ELSE FlushMappingStart(ser)
    OBVIOUS
  <2> PICK g : g = [f EXCEPT !.step = "key", !.entry = entry]
    OBVIOUS
  <2>2. /\ stack # <<>> /\ f.kind = "map" /\ f.step = "open" /\ (f.one => ~f.begun)
        /\ f \in Frames /\ f.tag = NoTag /\ Do(t, Append(Append(r, g), nd)) /\ covered' = covered
    BY <1>4, <1>31, <2>1 DEF In, NextKey, Straight
  <2>3. CallOK(f) /\ Waiting(r) /\ ser.depth \in Nat
    BY <1>10, <2>2 DEF Transparent
  <2>4. /\ g \in Frames /\ g.step = "key" /\ g.kind = f.kind /\ g.ends = f.ends
        /\ g.one = f.one /\ g.tag = f.tag /\ g.begun = f.begun
    BY ONLY <2>2, entry \in BOOLEAN, g = [f EXCEPT !.step = "key", !.entry = entry] DEF Frames
  <2>5. CallOK(g) /\ g.step \in Inner /\ ~Watched(g)
    BY <2>2, <2>3, <2>4 DEF CallOK, StepsOf, Inner, Watched
  <2>6. AllFair(ser, covered, r)
    <3>1. CASE ~f.begun
      <4>1. Undecided(f)
        BY <2>2, <3>1 DEF Undecided
      <4> QED BY <1>10, <2>2, <4>1 DEF Transparent
    <3>2. CASE f.begun
      <4>1. AllCame(ser, covered, r) /\ AllBelow(ser, r)
        BY <1>10, <2>2, <3>2 DEF Transparent
      <4> QED BY <2>3, <4>1, AllCameFair
    <3> QED BY <3>1, <3>2
  <2>7. AllFair(t, covered, r)
    BY <1>5, <2>3, <2>6, AllFlush
  <2>8. g.kind = "map" /\ g.tag # NoTag => g.step = "value" /\ g.tagged
    BY <2>2, <2>4
  <2>9. Marks(t, Append(Append(r, g), nd), covered)
    BY <1>3, <2>3, <2>5, <2>7, <2>8, MarksInside
  <2> QED BY <2>2, <2>9, DoMarks
<1>32. ASSUME TagKey PROVE Goal
  <2> PICK g : g = [f EXCEPT !.step = "keyed", !.entry = TRUE]
    OBVIOUS
  <2> PICK t : t = FoundTag(f.tag)
    OBVIOUS
  <2>1. /\ stack # <<>> /\ f.kind = "map" /\ f.step = "open" /\ ~f.begun /\ f \in Frames
        /\ f.tag # NoTag /\ Do(t, Append(r, g)) /\ ser.state = "CheckForTag" /\ covered' = covered
    BY <1>1, <1>4, <1>32 DEF TagKey, In, LooksForTag
  <2>2. CallOK(f) /\ Waiting(r) /\ TagOK(ser, f) /\ AllFair(ser, covered, r)
    <3>1. Undecided(f)
      BY <2>1 DEF Undecided
    <3> QED BY <1>10, <2>1, <3>1 DEF Transparent
  <2>3. /\ g \in Frames /\ g.step = "keyed" /\ g.kind = f.kind /\ g.begun = f.begun
        /\ g.tag = f.tag /\ g.floor = f.floor /\ g.start = f.start /\ g.entry = TRUE
    BY ONLY <2>1, g = [f EXCEPT !.step = "keyed", !.entry = TRUE] DEF Frames
  <2>4. /\ t.out = ser.out /\ t.depth = ser.depth /\ t.pending = ser.pending
        /\ t.state = "FoundTag" /\ t.tag = f.tag
    BY <1>5 DEF FoundTag, Serializers
  <2>5. AllFair(t, covered, r)
    <3>1. (covered => covered) /\ (t.pending # ser.pending /\ ser.pending # NoAnchor => covered)
      BY <2>4
    <3>2. ser.state # "FoundTag" \/ (t.state = ser.state /\ t.tag = ser.tag)
      BY <2>1
    <3>3. Waiting(r) /\ AllFair(ser, covered, r) /\ t.out = ser.out /\ t.depth = ser.depth
      BY <2>2, <2>4
    <3> QED BY ONLY <3>1, <3>2, <3>3, AllFairSame
  <2>6. TagOK(t, g)
    <3>1. Ahead(ser, f)
      BY <2>1, <2>2 DEF TagOK
    <3>2. Ahead(t, g)
      BY <2>3, <2>4, <3>1 DEF Ahead, Written
    <3> QED BY <2>3, <2>4, <3>2 DEF TagOK
  <2>7. g.kind \notin Transparent /\ ~Watched(g) /\ Undecided(g)
    BY <2>1, <2>3 DEF Transparent, Watched, Undecided
  <2>8. Marks(t, Append(r, g), covered)
    BY <2>2, <2>3, <2>4, <2>5, <2>6, <2>7, MarksInstead
  <2> QED BY <2>1, <2>8, DoMarks
<1>33. ASSUME NextValue PROVE Goal
  <2> PICK tagged \in BOOLEAN : tagged = (f.entry /\ ser.state = "FoundTag")
    OBVIOUS
  <2> PICK g : g = [f EXCEPT !.step = "value", !.tagged = tagged]
    OBVIOUS
  <2>1. /\ stack # <<>> /\ f.kind = "map" /\ f.step = "keyed" /\ f \in Frames
        /\ Do(ser, Append(Append(r, g), nd)) /\ covered' = covered
    BY <1>4, <1>33 DEF NextValue, In, Straight
  <2>2. CallOK(f) /\ Waiting(r) /\ TagOK(ser, f) /\ ser.depth \in Nat
    BY <1>10, <2>1 DEF Transparent
  <2>3. /\ g \in Frames /\ g.step = "value" /\ g.kind = f.kind /\ g.ends = f.ends
        /\ g.one = f.one /\ g.tag = f.tag /\ g.floor = f.floor /\ g.start = f.start
        /\ g.begun = f.begun /\ g.tagged = tagged
    BY ONLY <2>1, tagged \in BOOLEAN, g = [f EXCEPT !.step = "value", !.tagged = tagged] DEF Frames
  <2>4. CallOK(g) /\ g.step \in Inner
    BY <2>1, <2>2, <2>3 DEF CallOK, StepsOf, Inner
  <2>5. AllFair(ser, covered, r)
    <3>1. CASE ~f.begun
      <4>1. Undecided(f)
        BY <2>1, <3>1 DEF Undecided
      <4> QED BY <1>10, <2>1, <4>1 DEF Transparent
    <3>2. CASE f.begun
      <4>1. ~f.one
        BY <2>1, <2>2, <3>2 DEF CallOK
      <4>2. AllCame(ser, covered, r) /\ AllBelow(ser, r)
        BY <1>10, <2>1, <4>1 DEF Transparent
      <4> QED BY <2>2, <4>2, AllCameFair
    <3> QED BY <3>1, <3>2
  <2>6. f.tag # NoTag => f.entry /\ ser.state = "FoundTag" /\ ser.tag = f.tag /\ Ahead(ser, f)
    BY <2>1, <2>2 DEF TagOK
  <2>7. g.kind = "map" /\ g.tag # NoTag => g.step = "value" /\ g.tagged
    BY <2>3, <2>6
  <2>8. ASSUME Watched(g) PROVE Fair(ser, covered, g)
    <3>1. g.kind = "map" /\ f.tag # NoTag
      BY <2>1, <2>3, <2>8 DEF Watched
    <3>2. Ahead(ser, g) /\ Due(ser, covered, g)
      BY <2>3, <2>6, <3>1 DEF Ahead, Due
    <3>3. g.floor = ser.depth
      BY <3>2 DEF Ahead
    <3> QED BY <2>2, <3>2, <3>3 DEF Fair, MarkOK
  <2>9. Marks(ser, Append(Append(r, g), nd), covered)
    BY <1>3, <2>2, <2>4, <2>5, <2>7, <2>8, MarksInside
  <2> QED BY <2>1, <2>9, DoMarks
<1>34. ASSUME EndEntry PROVE Goal
  <2> PICK t : t = IF f.tagged THEN [ser EXCEPT !.state = "AlreadyTagged"] ELSE ser
    OBVIOUS
  <2> PICK g : g = [f EXCEPT !.step = "open", !.begun = TRUE]
    OBVIOUS
  <2>1. /\ stack # <<>> /\ f.kind = "map" /\ f.step = "valued" /\ f \in Frames
        /\ Do(t, Append(r, g)) /\ covered' = covered
    BY <1>4, <1>34 DEF EndEntry, In, Straight
  <2>2. Waiting(r) /\ TagOK(ser, f) /\ AllCame(ser, covered, r)
    <3>1. ~Undecided(f)
      BY <2>1 DEF Undecided
    <3> QED BY <1>10, <2>1, <3>1 DEF Transparent
  <2>3. /\ g \in Frames /\ g.step = "open" /\ g.kind = f.kind /\ g.tag = f.tag /\ g.begun = TRUE
    BY ONLY <2>1, g = [f EXCEPT !.step = "open", !.begun = TRUE] DEF Frames
  <2>4. t.out = ser.out /\ t.depth = ser.depth /\ (f.tagged => t.state = "AlreadyTagged")
    BY <1>5 DEF Serializers
  <2>5. AllCame(t, covered, r)
    <3>1. covered => covered
      OBVIOUS
    <3> QED BY ONLY <2>2, <2>4, <3>1, AllCameSame
  <2>6. TagOK(t, g)
    BY <2>1, <2>2, <2>3, <2>4 DEF TagOK
  <2>7. g.kind \notin Transparent /\ ~Watched(g) /\ ~Undecided(g)
    BY <2>1, <2>3 DEF Transparent, Watched, Undecided
  <2>8. Marks(t, Append(r, g), covered)
    BY <2>2, <2>3, <2>5, <2>6, <2>7, MarksInstead
  <2> QED BY <2>1, <2>8, DoMarks
<1>35. ASSUME stack # <<>>, f.kind \in {"seq", "struct", "variant"}, f.step \in {"open", "done"},
              NEW t, t = IF f.kind = "seq" THEN EmitSequenceEnd(ser) ELSE EmitMappingEnd(ser),
              Do(IF f.ends = 2 THEN EmitMappingEnd(t) ELSE t, Answered(r)), covered' = covered
       PROVE  Goal
  <2>1. f.kind \notin Transparent
    BY <1>35 DEF Transparent
  <2>2. Marks(IF f.ends = 2 THEN EmitMappingEnd(t) ELSE t, Answered(r), covered)
    BY <1>9, <1>35, <2>1, EndMarks
  <2> QED BY <1>35, <2>2, DoMarks
<1>36. ASSUME EndSeq PROVE Goal
  <2>1. /\ stack # <<>> /\ f.kind = "seq" /\ f.step = "open" /\ covered' = covered
        /\ Do(IF f.ends = 2 THEN EmitMappingEnd(EmitSequenceEnd(ser)) ELSE EmitSequenceEnd(ser),
              Answered(r))
    BY <1>4, <1>36 DEF EndSeq, In, Straight
  <2> QED BY <1>35, <2>1
<1>37. ASSUME EndStruct PROVE Goal
  <2>1. /\ stack # <<>> /\ f.kind = "struct" /\ f.step = "open" /\ covered' = covered
        /\ Do(IF f.ends = 2 THEN EmitMappingEnd(EmitMappingEnd(ser)) ELSE EmitMappingEnd(ser),
              Answered(r))
    BY <1>4, <1>37 DEF EndStruct, In, Straight
  <2> QED BY <1>35, <2>1
<1>38. ASSUME EndVariant PROVE Goal
  <2>1. /\ stack # <<>> /\ f.kind = "variant" /\ f.step = "done" /\ covered' = covered
        /\ Do(EmitMappingEnd(ser), Answered(r))
    BY <1>4, <1>38 DEF EndVariant, In, Straight
  <2>2. f.ends # 2
    BY <1>10, <2>1 DEF CallOK, Transparent
  <2> QED BY <1>35, <2>1, <2>2
<1>39. ASSUME EndMap PROVE Goal
  <2>1. /\ stack # <<>> /\ f.kind = "map" /\ f.step = "open" /\ (f.one => f.begun)
        /\ Do(MapEnded, Answered(r)) /\ covered' = covered
    BY <1>4, <1>39 DEF EndMap, In, Straight
  <2>2. /\ Running(ser, r, f, errors) /\ ~Asking(Answered(r))
        /\ Marks(ser, Append(r, f), covered)
    BY <1>9, <2>1 DEF Transparent
  <2>3. Marks(MapEnded, Answered(r), covered)
    BY <2>1, <2>2, MapEndMarks
  <2> QED BY <2>1, <2>3, DoMarks
<1>40. ASSUME stack # <<>>, f.kind \in {"anchor", "flowSeq", "flowMap"}, Do(ser, Answered(r)),
              covered' = covered
       PROVE  Goal
  <2>1. /\ Waiting(r)
        /\ \A i \in 1 .. Len(r) :
             Watched(r[i]) => MarkOK(ser, Hunted(r, ser.state, i), covered, r[i])
    BY <1>4, <1>6, <1>40, WrapperMarks
  <2>2. Marks(ser, Answered(r), covered)
    BY <1>6, <1>40, <2>1, MarksReturn
  <2> QED BY <1>40, <2>2, DoMarks
<1>41. ASSUME EndAnchor PROVE Goal
  BY <1>4, <1>40, <1>41 DEF EndAnchor, In, Straight
<1>42. ASSUME EndFlow PROVE Goal
  <2>1. stack # <<>> /\ f.kind \in {"flowSeq", "flowMap"} /\ covered' = covered
    BY <1>42 DEF EndFlow, In, Straight
  <2>2. Abort("flow") \/ Do(ser, Answered(r))
    BY <1>4, <1>42, <2>1 DEF EndFlow
  <2> QED BY <1>40, <2>1, <2>2, AbortMarks
<1> QED
  BY <1>12, <1>13, <1>14, <1>16, <1>17, <1>18, <1>19, <1>20, <1>21, <1>22, <1>23, <1>25, <1>26,
     <1>27, <1>28, <1>29, <1>30, <1>31, <1>32, <1>33, <1>34, <1>36, <1>37, <1>38, <1>39, <1>41,
     <1>42 DEF Next

-----------------------------------------------------------------------------
(* The theorems.                                                           *)

\* The inductive invariant: the serializer is at rest between calls.
LEMMA CallsInvariant == Spec => [](CallsOK /\ Histories)
<1>1. ASSUME Init PROVE CallsOK /\ Histories
  <2>1. PICK check \in Checks : ser = NewSerializer(check)
    BY <1>1 DEF Init
  <2>2. NoNames \in UNION { [P -> Names] : P \in SUBSET Pointers }
    <3>1. NoNames \in [{} -> Names]
      BY DEF NoNames
    <3> QED BY <3>1
  <2>3. check \in BOOLEAN /\ <<>> \in Seq(Expectations) /\ <<>> \in Seq(Events)
        /\ <<>> \in Seq(Frames)
    BY SerializerAssumption
  <2>4. ser \in Serializers
    BY <2>1, <2>2, <2>3 DEF NewSerializer, Serializers, States
  <2>5. ser.out = <<>> /\ ser.open = <<>> /\ ser.depth = 0 /\ ser.anchors = {}
    BY <2>1 DEF NewSerializer
  <2>6. Resting(ser)
    BY <2>4, <2>5 DEF Resting, AliasesSound, AnchorsSound, Rooted
  <2>7. CallsOK
    BY <1>1, <2>3, <2>6 DEF Init, CallsOK
  <2>8. Histories
    BY <1>1, SerializerAssumption DEF Init, Histories
  <2> QED BY <2>7, <2>8
<1>2. ASSUME CallsOK, Histories, [Next]_vars PROVE CallsOK' /\ Histories'
  <2>1. CASE Next
    BY <1>2, <2>1, CallsStep, HistoriesStep
  <2>2. CASE UNCHANGED vars
    BY <1>2, <2>2 DEF vars, CallsOK, Histories
  <2> QED BY <1>2, <2>1, <2>2
<1> QED BY <1>1, <1>2, PTL DEF Spec

\* The serializer, the calls and the errors have their types; the depth, which
\* value_end decrements, is never less than nothing.
THEOREM SerializerTypeCorrect == Spec => []SerializerTypeOK
<1>1. CallsOK /\ Histories => SerializerTypeOK
  BY DEF CallsOK, Histories, Resting, SerializerTypeOK, Failures
<1> QED BY <1>1, CallsInvariant, PTL

\* However values are nested and wherever they are abandoned, depth counts what is
\* open in the emitter: value_start and value_end meet at the root of a document.
THEOREM DepthCountsNesting == Spec => []DepthIsNesting
<1>1. CallsOK => DepthIsNesting
  BY DEF CallsOK, Resting, DepthIsNesting
<1> QED BY <1>1, CallsInvariant, PTL

\* emit_alias lets through no alias whose anchor is not in the document before it,
\* in whatever order documents end and values fail.
THEOREM CheckedAliasesFollow == Spec => []AliasesFollowAnchors
<1>1. CallsOK => AliasesFollowAnchors
  BY DEF CallsOK, Resting, AliasesSound, AliasesFollowAnchors
<1> QED BY <1>1, CallsInvariant, PTL

\* The registry of the thread and the anchors of the serializer agree: a name that
\* an Rc was given is in the document, or is pending for the next node of it,
\* whatever documents end or are abandoned, as long as no anchor covers another.
THEOREM RegistryKept == Spec => []RegistryAgrees
<1>1. ASSUME Init PROVE RegistryOK
  <2>1. ser.names = NoNames
    BY <1>1 DEF Init, NewSerializer
  <2> QED BY <2>1 DEF RegistryOK, Registered, NoNames
<1>2. ASSUME CallsOK, RegistryOK, [Next]_vars PROVE RegistryOK'
  <2>1. CASE Next
    BY <1>2, <2>1, RegistryStep
  <2>2. CASE UNCHANGED vars
    BY <1>2, <2>2 DEF vars, RegistryOK, Registered
  <2> QED BY <1>2, <2>1, <2>2
<1>3. RegistryOK => RegistryAgrees
  BY DEF RegistryOK, Registered, RegistryAgrees
<1> QED BY <1>1, <1>2, <1>3, CallsInvariant, PTL DEF Spec

\* The inductive invariant of the levels: the calls in progress account for what the
\* emitter expects.
LEMMA ShapeInvariant == Spec => []ShapeOK
<1>1. ASSUME Init, CallsOK PROVE ShapeOK
  <2>1. PICK check \in Checks : ser = NewSerializer(check)
    BY <1>1 DEF Init
  <2>2. /\ ser.open = <<>> /\ ser.depth = 0 /\ ~ser.failed /\ ser.state = "NothingInParticular"
        /\ ser.names = NoNames /\ ~ser.flowSeq /\ ~ser.flowMap
    BY <2>1 DEF NewSerializer
  <2> PICK L : L = Levels(ser)
    OBVIOUS
  <2>3. L = <<>> /\ L \in Seq(Slots)
    BY <2>2 DEF Levels
  <2>4. Sound(ser)
    BY <1>1, <2>2, <2>3 DEF Sound, CallsOK
  <2>5. Fits(L, ser.state, ser.names, <<>>, {})
    BY <2>2, <2>3, NoCalls
  <2>6. Whole(ser, <<>>, {})
    BY <2>2, <2>4, <2>5 DEF Whole, Styled
  <2>7. stack = <<>> /\ errors = {} /\ Early(ser.state, stack)
    BY <1>1 DEF Init, Early, Asking
  <2> QED BY <2>6, <2>7 DEF ShapeOK
<1>2. ASSUME CallsOK, Histories, ShapeOK, [Next]_vars PROVE ShapeOK'
  <2>1. CASE Next
    BY <1>2, <2>1, ShapeStep, EarlyStep DEF ShapeOK
  <2>2. CASE UNCHANGED vars
    <3>1. ser' = ser /\ stack' = stack /\ errors' = errors /\ twisted' = twisted
      BY <2>2 DEF vars
    <3> QED BY <1>2, <3>1 DEF ShapeOK, Whole, Early
  <2> QED BY <1>2, <2>1, <2>2
<1> QED BY <1>1, <1>2, CallsInvariant, PTL DEF Spec

\* Whatever serializes itself as whatever, wherever it fails and is abandoned, the
\* events that the methods of the serializer emit are well nested: libyaml's emitter
\* refuses none, unless a map took the place of a key.
THEOREM EmitterIsContent == Spec => []EmitterContent
<1>1. ShapeOK => EmitterContent
  BY DEF ShapeOK, Whole, Sound, EmitterContent
<1> QED BY <1>1, ShapeInvariant, PTL

\* When the caller's call returns, its value is a whole document: value_end has closed
\* and reset it, the search for tags is over, and FlowSeq and FlowMap have their styles
\* back.
THEOREM ValuesBecomeDocuments == Spec => []ValuesAreDocuments
<1>1. ASSUME ShapeOK PROVE ValuesAreDocuments
  <2>1. SUFFICES ASSUME stack = <<>>, errors = {}, ~twisted
                 PROVE  /\ ser.open = <<>>
                        /\ ser.state = "NothingInParticular"
                        /\ ~ser.flowSeq /\ ~ser.flowMap
                        /\ ser.names = NoNames
    BY DEF ValuesAreDocuments
  <2>2. Whole(ser, <<>>, {})
    BY <1>1, <2>1 DEF ShapeOK
  <2> QED BY <2>2, NoCallsLeft
<1> QED BY <1>1, ShapeInvariant, PTL

\* The inductive invariant of the nodes: those of anchors and tags are still to come, or
\* have them.
LEMMA MarksInvariant == Spec => []MarksOK
<1>1. ASSUME Init PROVE MarksOK
  <2>1. stack = <<>>
    BY <1>1 DEF Init
  <2> QED BY <2>1 DEF MarksOK, Marks
<1>2. ASSUME CallsOK, Histories, ShapeOK, MarksOK, [Next]_vars PROVE MarksOK'
  <2>1. CASE Next
    BY <1>2, <2>1, MarksStep DEF MarksOK
  <2>2. CASE UNCHANGED vars
    <3>1. ser' = ser /\ stack' = stack /\ covered' = covered /\ twisted' = twisted
      BY <2>2 DEF vars
    <3> QED BY <1>2, <3>1 DEF MarksOK
  <2> QED BY <1>2, <2>1, <2>2
<1> QED BY <1>1, <1>2, CallsInvariant, ShapeInvariant, PTL DEF Spec

\* A call whose node has come has one whole node, when the depth is that where it began.
LEMMA CameWhole ==
  ASSUME NEW f \in Frames, NEW over, ser.out \in Seq(Events), Came(ser, over, f),
         ser.depth = f.floor
  PROVE  LET i == f.start + 1
         IN  i <= Len(ser.out) /\ Bears(over, f, ser.out[i]) /\ WholeNode(ser.out, i)
<1> PICK i \in Nat : i = f.start + 1
  BY DEF Frames
<1> PICK n \in Nat : n = Len(ser.out)
  OBVIOUS
<1>1. /\ i <= n /\ ~IsEnd(ser.out[i]) /\ Bears(over, f, ser.out[i])
      /\ \A k \in i .. n - 1 : Level(ser.out, i, k) > 0
      /\ Level(ser.out, i, n) = ser.depth - f.floor
  BY DEF Came
<1>2. Level(ser.out, i, n) = 0
  BY <1>1 DEF Frames
<1>3. ASSUME NEW k \in i .. n PROVE Level(ser.out, i, k) = 0 <=> k = n
  <2>1. CASE k = n
    BY <1>2, <2>1
  <2>2. CASE k # n
    <3>1. k \in i .. n - 1
      BY <2>2
    <3>2. Level(ser.out, i, k) > 0 /\ ~(0 > 0)
      BY <1>1, <3>1
    <3> QED BY <2>2, <3>2
  <2> QED BY <2>1, <2>2
<1>4. WholeNode(ser.out, i)
  BY <1>1, <1>3 DEF WholeNode
<1> QED BY <1>1, <1>4

\* The innermost call, when it is one that waited for its node.
LEMMA CallMarked ==
  ASSUME CallsOK, ShapeOK, MarksOK, ~twisted, stack # <<>>,
         \/ Top.kind = "anchor" /\ ~Top.late
         \/ Top.kind = "map" /\ Top.tag # NoTag /\ Top.step = "valued"
  PROVE  LET i == Top.start + 1
         IN  /\ ser.depth = Top.floor
             /\ i <= Len(ser.out) /\ Bears(covered, Top, ser.out[i]) /\ WholeNode(ser.out, i)
<1> PICK r : r = ButLast(stack)
  OBVIOUS
<1> PICK f : f = Top
  OBVIOUS
<1>1. r \in Seq(Frames) /\ f \in Frames /\ stack = Append(r, f)
  BY InnermostCall
<1>2. Whole(ser, Append(r, f), errors) /\ Marks(ser, Append(r, f), covered)
  BY <1>1 DEF ShapeOK, MarksOK
<1>3. Watched(f) /\ Marked(f) /\ f.kind # "node"
  BY DEF Watched, Marked
<1>4. TagOK(ser, f) /\ MarkOK(ser, f.kind = "node", covered, f)
  BY <1>1, <1>2, <1>3, MarksOfCalls
<1>5. Came(ser, covered, f)
  BY <1>3, <1>4 DEF MarkOK
<1>6. PICK lo : Places(ser, r, f, lo)
  BY <1>1, <1>2, CallsPlaced
<1>7. ser.out \in Seq(Events)
  BY DEF CallsOK, Resting, Serializers
<1>8. f.kind = "map" => f.tagged
  BY <1>4 DEF TagOK
<1>9. ser.depth = f.floor
  BY <1>3, <1>6, <1>8 DEF Places, Transparent
<1> QED BY <1>1, <1>5, <1>7, <1>9, CameWhole

\* The anchor of a value that carries one, an RcAnchor or an ArcAnchor goes to the node
\* of that value: the value becomes one whole node, and the first event of it takes the
\* pending anchor, unless the value is an alias, an anchor covered another, or the value
\* is a key that may be a tag.
THEOREM AnchorsGoToTheirNodes == Spec => []AnchorsOnTheirNodes
<1>1. ASSUME CallsOK, ShapeOK, MarksOK PROVE AnchorsOnTheirNodes
  <2>1. SUFFICES ASSUME In("anchor", "done"), ~twisted, ~Top.late
                 PROVE  OneNodeWith(LAMBDA e : e.anchor = Top.name \/ e.type = "Alias" \/ covered)
    BY DEF AnchorsOnTheirNodes
  <2>2. /\ ser.depth = Top.floor /\ Top.start + 1 <= Len(ser.out)
        /\ Bears(covered, Top, ser.out[Top.start + 1]) /\ WholeNode(ser.out, Top.start + 1)
    BY <1>1, <2>1, CallMarked DEF In
  <2>3. Top.kind = "anchor"
    BY <2>1 DEF In
  <2>4. \/ ser.out[Top.start + 1].anchor = Top.name
        \/ ser.out[Top.start + 1].type = "Alias"
        \/ covered
    BY <2>2, <2>3 DEF Bears
  <2> QED BY <2>2, <2>4 DEF OneNodeWith
<1> QED BY <1>1, CallsInvariant, ShapeInvariant, MarksInvariant, PTL

\* The tag that TaggedValue gives as the key of a map goes to the node of its value: the
\* map leaves no level of its own, the value becomes one whole node, and take_tag gives the
\* tag to the first event of it, unless that is an alias.
THEOREM TagsGoToTheirNodes == Spec => []TagsOnTheirNodes
<1>1. ASSUME CallsOK, ShapeOK, MarksOK PROVE TagsOnTheirNodes
  <2>1. SUFFICES ASSUME In("map", "valued"), Top.tag # NoTag, ~twisted
                 PROVE  OneNodeWith(LAMBDA e : e.tag = Top.tag \/ e.type = "Alias")
    BY DEF TagsOnTheirNodes
  <2>2. /\ ser.depth = Top.floor /\ Top.start + 1 <= Len(ser.out)
        /\ Bears(covered, Top, ser.out[Top.start + 1]) /\ WholeNode(ser.out, Top.start + 1)
    BY <1>1, <2>1, CallMarked DEF In
  <2>3. Top.kind = "map"
    BY <2>1 DEF In
  <2>4. ser.out[Top.start + 1].tag = Top.tag \/ ser.out[Top.start + 1].type = "Alias"
    BY <2>2, <2>3 DEF Bears
  <2> QED BY <2>2, <2>4 DEF OneNodeWith
<1> QED BY <1>1, CallsInvariant, ShapeInvariant, MarksInvariant, PTL
=============================================================================

-------------------------- MODULE RegistriesProofs --------------------------
(***************************************************************************)
(* That aliases follow their anchors, for any number of serializers and    *)
(* pointers: as long as nothing strays, each registry is its serializer's, *)
(* and has the names that are written in the serializer's document.        *)
(***************************************************************************)
EXTENDS Registries, TLAPS

\* No two pointers of a registry have the same name, and the next is new.
Sound(registry) ==
  /\ registry \in Registry
  /\ \A p \in Pointers : registry.names[p] <= registry.counter
  /\ \A p, q \in Pointers :
       registry.names[p] # 0 /\ registry.names[p] = registry.names[q] => p = q

\* What is written in a document is what the registry knows.
Agrees(registry, anchors) ==
  \A p \in Pointers :
    anchors[p] = IF registry.names[p] = 0 THEN NoName ELSE NameOf(registry, p)

Typed ==
  /\ stack \in Seq(Registry)
  /\ live \in Seq(Serializers)
  /\ Len(stack) = Len(live)
  /\ written \in [Serializers -> [Pointers -> Names \cup {NoName}]]
  /\ wrong \in BOOLEAN
  /\ strayed \in BOOLEAN

Built ==
  /\ \A i \in 1 .. Len(stack) : Sound(stack[i])
  /\ \A i, j \in 1 .. Len(live) : live[i] = live[j] => i = j

Nested ==
  ~strayed =>
    /\ ~wrong
    /\ \A i \in 1 .. Len(live) :
         stack[i].generator = live[i] /\ Agrees(stack[i], written[live[i]])
    /\ \A s \in Serializers : ~IsLive(s) => written[s] = Nothing

RegistriesInv == Typed /\ Built /\ Nested

-----------------------------------------------------------------------------
(* Registries.                                                             *)

\* A new registry and an emptied one have no names.
LEMMA FreshIsSound ==
  ASSUME NEW s \in Serializers
  PROVE  Sound(NewRegistry(s)) /\ Agrees(NewRegistry(s), Nothing)
BY RegistriesAssumption DEF Sound, Agrees, NewRegistry, Registry, Unnamed, Nothing

LEMMA EmptiedIsSound ==
  ASSUME NEW r, Sound(r)
  PROVE  /\ Sound(Emptied(r))
         /\ Emptied(r).generator = r.generator
         /\ Agrees(Emptied(r), Nothing)
<1>1. r \in Registry /\ 0 \in 0 .. MaxNames
  BY RegistriesAssumption DEF Sound
<1>2. Unnamed \in [Pointers -> 0 .. MaxNames] /\ \A p \in Pointers : Unnamed[p] = 0
  BY <1>1 DEF Unnamed
<1>3. /\ Emptied(r) \in Registry
      /\ Emptied(r).generator = r.generator
      /\ Emptied(r).names = Unnamed
      /\ Emptied(r).counter = 0
  BY <1>1, <1>2 DEF Emptied, Registry
<1> QED
  BY <1>2, <1>3 DEF Sound, Agrees, Nothing

\* A pointer that had no name gets one that no other pointer has.
LEMMA NamingIsSound ==
  ASSUME NEW r, Sound(r), NEW p \in Pointers, r.names[p] = 0, r.counter < MaxNames
  PROVE  /\ Sound(Naming(r, p))
         /\ Naming(r, p).generator = r.generator
         /\ \A q \in Pointers :
              Naming(r, p).names[q] = IF q = p THEN r.counter + 1 ELSE r.names[q]
<1>1. r \in Registry /\ r.counter \in Nat /\ r.counter + 1 \in 1 .. MaxNames
  BY RegistriesAssumption DEF Sound, Registry
<1>2. /\ Naming(r, p).generator = r.generator
      /\ Naming(r, p).counter = r.counter + 1
      /\ Naming(r, p).names = [r.names EXCEPT ![p] = r.counter + 1]
  BY <1>1 DEF Naming, Registry
<1>3. Naming(r, p) \in Registry
  <2>1. [r.names EXCEPT ![p] = r.counter + 1] \in [Pointers -> 0 .. MaxNames]
    BY <1>1 DEF Registry
  <2> QED
    BY <1>1, <2>1 DEF Naming, Registry
<1>4. \A q \in Pointers : Naming(r, p).names[q] = IF q = p THEN r.counter + 1 ELSE r.names[q]
  BY <1>1, <1>2 DEF Registry
<1>5. \A q \in Pointers : r.names[q] \in Nat /\ r.names[q] <= r.counter
  BY <1>1 DEF Sound, Registry
<1> QED
  BY <1>1, <1>2, <1>3, <1>4, <1>5 DEF Sound

\* The registry on top, when there is one.
LEMMA TopOfStack ==
  ASSUME Typed, Built, stack # <<>>
  PROVE  /\ Len(stack) \in 1 .. Len(stack)
         /\ Sound(Top)
         /\ Top.generator \in Serializers
<1>1. Len(stack) \in 1 .. Len(stack)
  BY DEF Typed
<1> QED
  BY <1>1 DEF Built, Top, Sound, Registry

LEMMA LiveHasStack ==
  ASSUME Typed, NEW s, IsLive(s)
  PROVE  stack # <<>> /\ live # <<>>
BY DEF Typed, IsLive

\* Another registry on top, sound as the one before.
LEMMA AboveIsTyped ==
  ASSUME Typed, Built, stack # <<>>, NEW r, Sound(r), stack' = Above(r)
  PROVE  /\ stack' \in Seq(Registry)
         /\ Len(stack') = Len(stack)
         /\ \A i \in 1 .. Len(stack') : Sound(stack'[i])
         /\ \A i \in 1 .. Len(stack) :
              stack'[i] = IF i = Len(stack) THEN r ELSE stack[i]
BY DEF Typed, Built, Above, Sound

\* The newest of the serializers has the registry on top, and no other has.
LEMMA NewestHasTop ==
  ASSUME Typed, Built, Nested, ~strayed, NEW s \in Serializers, IsNewest(s)
  PROVE  /\ Top.generator = s
         /\ Agrees(Top, written[s])
         /\ \A i \in 1 .. Len(live) : i # Len(live) => live[i] # s
         /\ live[Len(live)] = s
<1>1. Len(live) \in 1 .. Len(live) /\ live[Len(live)] = s
  BY DEF Typed, IsNewest
<1> QED
  BY <1>1 DEF Typed, Built, Nested, Top

-----------------------------------------------------------------------------
(* Steps.                                                                  *)

LEMMA InitInv == RegistriesInit => RegistriesInv
<1> SUFFICES ASSUME RegistriesInit PROVE RegistriesInv
  OBVIOUS
<1>1. Typed
  <2>1. Nothing \in [Pointers -> Names \cup {NoName}]
    BY DEF Nothing
  <2>2. written \in [Serializers -> [Pointers -> Names \cup {NoName}]]
    BY <2>1 DEF RegistriesInit
  <2>3. stack \in Seq(Registry) /\ live \in Seq(Serializers) /\ Len(stack) = Len(live)
    BY DEF RegistriesInit
  <2> QED
    BY <2>2, <2>3 DEF RegistriesInit, Typed
<1>2. Built
  BY DEF RegistriesInit, Built
<1>3. Nested
  BY DEF RegistriesInit, Nested
<1> QED
  BY <1>1, <1>2, <1>3 DEF RegistriesInv

LEMMA BuildInv ==
  ASSUME RegistriesInv, NEW s \in Serializers, Build(s)
  PROVE  RegistriesInv'
<1> USE DEF RegistriesInv
<1> DEFINE n == Len(live)
<1>1. n \in Nat /\ Len(stack) = n
  BY DEF Typed
<1>2. Sound(NewRegistry(s)) /\ Agrees(NewRegistry(s), Nothing) /\ NewRegistry(s) \in Registry
  BY FreshIsSound DEF Sound
<1>3. /\ Len(stack') = n + 1 /\ Len(live') = n + 1
      /\ \A i \in 1 .. n + 1 : stack'[i] = IF i = n + 1 THEN NewRegistry(s) ELSE stack[i]
      /\ \A i \in 1 .. n + 1 : live'[i] = IF i = n + 1 THEN s ELSE live[i]
  BY <1>1 DEF Build, Typed
<1>4. Typed'
  <2>1. stack' \in Seq(Registry) /\ live' \in Seq(Serializers)
    BY <1>2 DEF Build, Typed
  <2> QED
    BY <2>1, <1>3 DEF Build, Typed
<1>5. Built'
  BY <1>1, <1>2, <1>3 DEF Built, Build, IsLive
<1>6. ASSUME ~strayed'
      PROVE  Nested'
  <2>1. ~strayed /\ ~wrong' /\ written' = written
    BY <1>6 DEF Build, Nested
  <2>2. written[s] = Nothing
    BY <2>1 DEF Build, Nested
  <2>3. ASSUME NEW i \in 1 .. Len(live')
        PROVE  stack'[i].generator = live'[i] /\ Agrees(stack'[i], written'[live'[i]])
    <3>1. CASE i = n + 1
      BY <3>1, <1>2, <1>3, <2>1, <2>2 DEF NewRegistry
    <3>2. CASE i # n + 1
      <4>1. i \in 1 .. n
        BY <3>2, <1>1, <1>3
      <4> QED
        BY <4>1, <3>2, <1>3, <2>1 DEF Nested
    <3> QED
      BY <3>1, <3>2
  <2>4. ASSUME NEW t \in Serializers, ~IsLive(t)'
        PROVE  written'[t] = Nothing
    <3>1. ~IsLive(t)
      BY <2>4, <1>1, <1>3 DEF IsLive
    <3> QED
      BY <3>1, <2>1 DEF Nested
  <2> QED
    BY <2>1, <2>3, <2>4 DEF Nested
<1>7. Nested'
  BY <1>6 DEF Nested
<1> QED
  BY <1>4, <1>5, <1>7

\* What changes the registry on top and what is written in one document, by a
\* serializer that is the newest unless something strays.
LEMMA ChangeInv ==
  ASSUME RegistriesInv, NEW s \in Serializers, IsLive(s), NEW r, Sound(r),
         r.generator = Top.generator, stack' = Above(r),
         NEW anchors \in [Pointers -> Names \cup {NoName}],
         written' = [written EXCEPT ![s] = anchors],
         IsNewest(s) /\ ~strayed => Agrees(r, anchors),
         strayed' = (strayed \/ ~IsNewest(s)),
         live' = live, wrong' = wrong
  PROVE  RegistriesInv'
<1> USE DEF RegistriesInv
<1>1. stack # <<>> /\ live # <<>>
  BY LiveHasStack
<1>2. /\ stack' \in Seq(Registry)
      /\ Len(stack') = Len(stack)
      /\ \A i \in 1 .. Len(stack') : Sound(stack'[i])
      /\ \A i \in 1 .. Len(stack) : stack'[i] = IF i = Len(stack) THEN r ELSE stack[i]
  BY <1>1, AboveIsTyped
<1>3. Typed'
  <2>1. strayed' \in BOOLEAN
    BY DEF Typed
  <2> QED
    BY <1>2, <2>1 DEF Typed
<1>4. Built'
  BY <1>2 DEF Built
<1>5. ASSUME ~strayed'
      PROVE  Nested'
  <2>1. ~strayed /\ IsNewest(s) /\ ~wrong'
    BY <1>5 DEF Nested
  <2>2. /\ Top.generator = s /\ live[Len(live)] = s
        /\ \A i \in 1 .. Len(live) : i # Len(live) => live[i] # s
    BY <2>1, NewestHasTop
  <2>3. written'[s] = anchors /\ \A t \in Serializers : t # s => written'[t] = written[t]
    BY DEF Typed
  <2>4. ASSUME NEW i \in 1 .. Len(live)
        PROVE  stack'[i].generator = live[i] /\ Agrees(stack'[i], written'[live[i]])
    <3>1. i \in 1 .. Len(stack) /\ Len(live) = Len(stack) /\ live[i] \in Serializers
      BY DEF Typed
    <3>2. CASE i = Len(live)
      BY <3>1, <3>2, <2>1, <2>2, <2>3, <1>2
    <3>3. CASE i # Len(live)
      <4>1. stack'[i] = stack[i] /\ written'[live[i]] = written[live[i]]
        BY <3>1, <3>3, <2>2, <2>3, <1>2
      <4> QED
        BY <4>1, <2>1 DEF Nested
    <3> QED
      BY <3>2, <3>3
  <2>5. ASSUME NEW t \in Serializers, ~IsLive(t)'
        PROVE  written'[t] = Nothing
    <3>1. ~IsLive(t)
      BY <2>5 DEF IsLive
    <3>2. t # s
      BY <3>1
    <3> QED
      BY <3>1, <3>2, <2>1, <2>3 DEF Nested
  <2> QED
    BY <2>1, <2>4, <2>5 DEF Nested
<1>6. Nested'
  BY <1>5 DEF Nested
<1> QED
  BY <1>3, <1>4, <1>6

LEMMA EndDocumentInv ==
  ASSUME RegistriesInv, NEW s \in Serializers, EndDocument(s)
  PROVE  RegistriesInv'
<1>1. IsLive(s) /\ stack # <<>>
  BY LiveHasStack DEF EndDocument, RegistriesInv
<1>2. Sound(Emptied(Top)) /\ Emptied(Top).generator = Top.generator /\ Agrees(Emptied(Top), Nothing)
  BY <1>1, TopOfStack, EmptiedIsSound DEF RegistriesInv
<1>3. Nothing \in [Pointers -> Names \cup {NoName}]
  BY DEF Nothing
<1> QED
  BY <1>1, <1>2, <1>3, ChangeInv DEF EndDocument

LEMMA DefineInv ==
  ASSUME RegistriesInv, NEW s \in Serializers, NEW p \in Pointers, Define(s, p)
  PROVE  RegistriesInv'
<1> DEFINE name == <<Top.generator, Top.counter + 1>>
<1> DEFINE anchors == [written[s] EXCEPT ![p] = name]
<1>1. IsLive(s) /\ stack # <<>>
  BY LiveHasStack DEF Define, RegistriesInv
<1>2. Sound(Top) /\ Top.generator \in Serializers
  BY <1>1, TopOfStack DEF RegistriesInv
<1>3. /\ Sound(Naming(Top, p))
      /\ Naming(Top, p).generator = Top.generator
      /\ \A q \in Pointers :
           Naming(Top, p).names[q] = IF q = p THEN Top.counter + 1 ELSE Top.names[q]
  BY <1>2, NamingIsSound DEF Define
<1>4. name \in Names /\ Top.counter + 1 # 0
  BY <1>2, RegistriesAssumption DEF Names, Sound, Registry, Define
<1>5. written[s] \in [Pointers -> Names \cup {NoName}]
  BY DEF RegistriesInv, Typed
<1>6. anchors \in [Pointers -> Names \cup {NoName}]
  BY <1>4, <1>5
<1>7. written' = [written EXCEPT ![s] = anchors]
  BY DEF Define
<1>8. ASSUME IsNewest(s), ~strayed
      PROVE  Agrees(Naming(Top, p), anchors)
  <2>1. Agrees(Top, written[s])
    BY <1>8, NewestHasTop DEF RegistriesInv
  <2>2. \A q \in Pointers : anchors[q] = IF q = p THEN name ELSE written[s][q]
    BY <1>5
  <2> HIDE DEF anchors
  <2> QED
    BY <2>1, <2>2, <1>3, <1>4 DEF Agrees, NameOf
<1> HIDE DEF anchors
<1> QED
  BY <1>1, <1>3, <1>6, <1>7, <1>8, ChangeInv DEF Define

\* An alias that the newest serializer writes is its pointer's anchor.
LEMMA WriteAliasInv ==
  ASSUME RegistriesInv, NEW s \in Serializers, NEW p \in Pointers, WriteAlias(s, p)
  PROVE  RegistriesInv'
<1>1. ~strayed' => ~strayed /\ written[s][p] = NameOf(Top, p)
  BY NewestHasTop DEF WriteAlias, RegistriesInv, Agrees
<1>2. ~strayed' => ~wrong'
  BY <1>1 DEF WriteAlias, RegistriesInv, Nested
<1>3. Typed'
  <2>1. wrong' \in BOOLEAN /\ strayed' \in BOOLEAN
    BY DEF WriteAlias, RegistriesInv, Typed
  <2> QED
    BY <2>1 DEF WriteAlias, RegistriesInv, Typed
<1>4. Built'
  BY DEF WriteAlias, RegistriesInv, Built
<1>5. Nested'
  BY <1>1, <1>2 DEF WriteAlias, RegistriesInv, Nested, IsLive
<1> QED
  BY <1>3, <1>4, <1>5 DEF RegistriesInv

LEMMA DropInv ==
  ASSUME RegistriesInv, NEW s \in Serializers, Drop(s)
  PROVE  RegistriesInv'
<1> USE DEF RegistriesInv
<1> DEFINE n == Len(live)
<1>1. PICK k \in 1 .. n : live[k] = s /\ live' = LiveWithout(k)
  BY DEF Drop
<1>2. n \in Nat /\ n >= 1 /\ Len(stack) = n
  BY <1>1 DEF Typed
<1>3. /\ live' \in Seq(Serializers) /\ Len(live') = n - 1
      /\ \A i \in 1 .. n - 1 : live'[i] = IF i < k THEN live[i] ELSE live[i + 1]
  <2>1. \A i \in 1 .. n - 1 : (IF i < k THEN live[i] ELSE live[i + 1]) \in Serializers
    BY <1>2 DEF Typed
  <2> QED
    BY <2>1, <1>1, <1>2 DEF LiveWithout
<1>4. /\ stack' \in Seq(Registry) /\ Len(stack') = n - 1
      /\ \A i \in 1 .. n - 1 : stack'[i] = stack[i]
  BY <1>2 DEF Drop, Typed
<1>5. written' \in [Serializers -> [Pointers -> Names \cup {NoName}]]
  BY DEF Drop, Typed, Nothing
<1>6. written'[s] = Nothing /\ \A t \in Serializers : t # s => written'[t] = written[t]
  BY DEF Drop, Typed
<1>7. Typed'
  <2>1. strayed' \in BOOLEAN /\ wrong' \in BOOLEAN
    BY DEF Drop, Typed
  <2> QED
    BY <2>1, <1>3, <1>4, <1>5 DEF Typed
<1>8. Built'
  <2>1. \A i \in 1 .. Len(stack') : Sound(stack'[i])
    BY <1>2, <1>4 DEF Built
  <2>2. ASSUME NEW i \in 1 .. Len(live'), NEW j \in 1 .. Len(live'), live'[i] = live'[j]
        PROVE  i = j
    BY <2>2, <1>2, <1>3 DEF Built
  <2> QED
    BY <2>1, <2>2 DEF Built
<1>9. ASSUME ~strayed'
      PROVE  Nested'
  <2>1. ~strayed /\ IsNewest(s) /\ ~wrong'
    BY <1>9 DEF Drop, Nested
  <2>2. live[n] = s /\ k = n
    BY <2>1, <1>1, <1>2, NewestHasTop
  <2>3. \A i \in 1 .. n - 1 : live'[i] = live[i] /\ live[i] # s /\ live[i] \in Serializers
    BY <2>1, <2>2, <1>2, <1>3, NewestHasTop DEF Typed
  <2>4. ASSUME NEW i \in 1 .. Len(live')
        PROVE  stack'[i].generator = live'[i] /\ Agrees(stack'[i], written'[live'[i]])
    <3>1. i \in 1 .. n - 1 /\ i \in 1 .. n
      BY <1>2, <1>3
    <3>2. /\ stack'[i] = stack[i] /\ live'[i] = live[i]
          /\ written'[live'[i]] = written[live[i]]
      BY <3>1, <1>4, <1>6, <2>3
    <3> QED
      BY <3>1, <3>2, <2>1 DEF Nested
  <2>5. ASSUME NEW t \in Serializers, ~IsLive(t)'
        PROVE  written'[t] = Nothing
    <3>1. CASE t = s
      BY <3>1, <1>6
    <3>2. CASE t # s
      <4>1. ~IsLive(t)
        <5> SUFFICES ASSUME NEW i \in 1 .. n, live[i] = t PROVE FALSE
          BY DEF IsLive
        <5>1. i \in 1 .. n - 1
          BY <3>2, <2>2, <1>2
        <5> QED
          BY <5>1, <2>3, <2>5, <1>3 DEF IsLive
      <4> QED
        BY <4>1, <3>2, <2>1, <1>6 DEF Nested
    <3> QED
      BY <3>1, <3>2
  <2> QED
    BY <2>1, <2>4, <2>5 DEF Nested
<1>10. Nested'
  BY <1>9 DEF Nested
<1> QED
  BY <1>7, <1>8, <1>10

LEMMA TakeNameInv ==
  ASSUME RegistriesInv, NEW p \in Pointers, TakeName(p)
  PROVE  RegistriesInv'
<1>1. Sound(Top) /\ stack # <<>>
  BY TopOfStack DEF TakeName, RegistriesInv
<1>2. Sound(Naming(Top, p))
  BY <1>1, NamingIsSound DEF TakeName
<1>3. /\ stack' \in Seq(Registry)
      /\ Len(stack') = Len(stack)
      /\ \A i \in 1 .. Len(stack') : Sound(stack'[i])
  BY <1>1, <1>2, AboveIsTyped DEF TakeName, RegistriesInv
<1> QED
  BY <1>3 DEF TakeName, RegistriesInv, Typed, Built, Nested

LEMMA NextInv == RegistriesInv /\ [RegistriesNext]_registryVars => RegistriesInv'
<1> SUFFICES ASSUME RegistriesInv, [RegistriesNext]_registryVars PROVE RegistriesInv'
  OBVIOUS
<1>1. ASSUME NEW s \in Serializers, Build(s) PROVE RegistriesInv'
  BY <1>1, BuildInv
<1>2. ASSUME NEW s \in Serializers, EndDocument(s) PROVE RegistriesInv'
  BY <1>2, EndDocumentInv
<1>3. ASSUME NEW s \in Serializers, Drop(s) PROVE RegistriesInv'
  BY <1>3, DropInv
<1>4. ASSUME NEW s \in Serializers, NEW p \in Pointers, Define(s, p) PROVE RegistriesInv'
  BY <1>4, DefineInv
<1>5. ASSUME NEW s \in Serializers, NEW p \in Pointers, WriteAlias(s, p) PROVE RegistriesInv'
  BY <1>5, WriteAliasInv
<1>6. ASSUME NEW p \in Pointers, TakeName(p) PROVE RegistriesInv'
  BY <1>6, TakeNameInv
<1>7. CASE UNCHANGED registryVars
  BY <1>7 DEF registryVars, RegistriesInv, Typed, Built, Nested, IsLive
<1> QED
  BY <1>1, <1>2, <1>3, <1>4, <1>5, <1>6, <1>7 DEF RegistriesNext

-----------------------------------------------------------------------------

\* What is written in a document is what one sound registry has, or nothing.
LEMMA InvImpliesProperty == RegistriesInv => AliasesFollowAnchors
<1> SUFFICES ASSUME RegistriesInv, ~strayed,
                    NEW s \in Serializers, NEW p \in Pointers, NEW q \in Pointers,
                    written[s][p] # NoName, written[s][p] = written[s][q]
             PROVE  p = q
  BY DEF AliasesFollowAnchors, RegistriesInv, Nested
<1>1. IsLive(s)
  BY DEF RegistriesInv, Nested, Nothing
<1>2. PICK i \in 1 .. Len(live) : live[i] = s
  BY <1>1 DEF IsLive
<1>3. Agrees(stack[i], written[s]) /\ Sound(stack[i])
  BY <1>2 DEF RegistriesInv, Typed, Built, Nested
<1>4. /\ stack[i].names[p] # 0 /\ stack[i].names[q] # 0
      /\ NameOf(stack[i], p) = NameOf(stack[i], q)
  BY <1>3 DEF Agrees
<1> QED
  BY <1>3, <1>4 DEF Sound, NameOf

\* However many serializers are alive, an alias stands for its pointer's anchor
\* in the same document and anchors are distinct, unless something strays.
THEOREM OwnRegistries == RegistriesSpec => []AliasesFollowAnchors
<1>1. RegistriesInit => RegistriesInv
  BY InitInv
<1>2. RegistriesInv /\ [RegistriesNext]_registryVars => RegistriesInv'
  BY NextInv
<1>3. RegistriesInv => AliasesFollowAnchors
  BY InvImpliesProperty
<1> QED
  BY <1>1, <1>2, <1>3, PTL DEF RegistriesSpec
=============================================================================

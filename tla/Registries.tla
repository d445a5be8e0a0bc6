----------------------------- MODULE Registries -----------------------------
(***************************************************************************)
(* The anchor registries of a thread (src/ser.rs): a stack, on which a     *)
(* serializer pushes one when it is built and from which it pops one when  *)
(* it is dropped.  Whoever serializes an RcAnchor or ArcAnchor, to_value   *)
(* included, uses the one on top, whichever serializer it is of.           *)
(*                                                                         *)
(* Any number of serializers may be alive.  A serializer strays from its   *)
(* place when it is not the newest and is used or dropped: serializers in  *)
(* scopes, as to_string has them, are nested and never do.                 *)
(***************************************************************************)
EXTENDS Naturals, Sequences

CONSTANTS
  Serializers,
  Pointers,   \* the addresses of Rc and Arc values
  NoName,
  MaxNames    \* bound: names that a registry gives

\* An anchor's name is told by the generator that made it, which is the one of
\* a serializer, and the index that it was given.
Names == Serializers \X (1 .. MaxNames)

ASSUME RegistriesAssumption ==
  /\ NoName \notin Names
  /\ MaxNames \in Nat

VARIABLES
  stack,    \* ANCHOR_REGISTRY
  live,     \* the serializers that are alive, in the order of their builds
  written,  \* history: by serializer, the anchors in its present document
  wrong,    \* history: an alias was written that is not its pointer's anchor
  strayed   \* history: a registry was used by another serializer's caller

registryVars == <<stack, live, written, wrong, strayed>>

Registry ==
  [generator : Serializers, names : [Pointers -> 0 .. MaxNames], counter : 0 .. MaxNames]

\* No pointer has a name.
Unnamed == [p \in Pointers |-> 0]
Nothing == [p \in Pointers |-> NoName]

\* AnchorRegistry::new
NewRegistry(s) == [generator |-> s, names |-> Unnamed, counter |-> 0]

\* A mutant of Emptied: the names stay.
EmptiedOfCounter(registry) == [registry EXCEPT !.counter = 0]

\* AnchorRegistry::reset
Emptied(registry) == [registry EXCEPT !.names = Unnamed, !.counter = 0]

Top == stack[Len(stack)]
Above(registry) == [stack EXCEPT ![Len(stack)] = registry]

\* The registry once it gave a name to a pointer that had none.
Naming(registry, p) ==
  [registry EXCEPT !.names[p] = registry.counter + 1, !.counter = registry.counter + 1]

NameOf(registry, p) == <<registry.generator, registry.names[p]>>

\* Those that are alive when the i-th is no longer.
LiveWithout(i) == [j \in 1 .. Len(live) - 1 |-> IF j < i THEN live[j] ELSE live[j + 1]]

IsLive(s) == \E i \in 1 .. Len(live) : live[i] = s
IsNewest(s) == live # <<>> /\ live[Len(live)] = s

-----------------------------------------------------------------------------

RegistriesInit ==
  /\ stack = <<>>
  /\ live = <<>>
  /\ written = [s \in Serializers |-> Nothing]
  /\ wrong = FALSE
  /\ strayed = FALSE

\* SerializerBuilder::build
Build(s) ==
  /\ ~IsLive(s)
  /\ stack' = Append(stack, NewRegistry(s))
  /\ live' = Append(live, s)
  /\ UNCHANGED <<written, wrong, strayed>>

\* anchor_action_for_key in a document of s: the first occurrence of a pointer
\* is written with an anchor,
Define(s, p) ==
  /\ IsLive(s)
  /\ Top.names[p] = 0
  /\ Top.counter < MaxNames
  /\ stack' = Above(Naming(Top, p))
  /\ written' = [written EXCEPT ![s][p] = <<Top.generator, Top.counter + 1>>]
  /\ strayed' = (strayed \/ ~IsNewest(s))
  /\ UNCHANGED <<live, wrong>>

\* others as an alias.
WriteAlias(s, p) ==
  /\ IsLive(s)
  /\ Top.names[p] # 0
  /\ wrong' = (wrong \/ written[s][p] # NameOf(Top, p))
  /\ strayed' = (strayed \/ ~IsNewest(s))
  /\ UNCHANGED <<stack, live, written>>

\* reset_document_state
EndDocument(s) ==
  /\ IsLive(s)
  /\ stack' = Above(Emptied(Top))
  /\ written' = [written EXCEPT ![s] = Nothing]
  /\ strayed' = (strayed \/ ~IsNewest(s))
  /\ UNCHANGED <<live, wrong>>

\* AnchorRegistryGuard::drop
Drop(s) ==
  /\ stack' = SubSeq(stack, 1, Len(stack) - 1)
  /\ \E i \in 1 .. Len(live) : live[i] = s /\ live' = LiveWithout(i)
  /\ written' = [written EXCEPT ![s] = Nothing]
  /\ strayed' = (strayed \/ ~IsNewest(s))
  /\ UNCHANGED wrong

\* to_value of a pointer that has no name yet, while a serializer is alive; it
\* needs no registry when none is.
TakeName(p) ==
  /\ stack # <<>>
  /\ Top.names[p] = 0
  /\ Top.counter < MaxNames
  /\ stack' = Above(Naming(Top, p))
  /\ strayed' = TRUE
  /\ UNCHANGED <<live, written, wrong>>

RegistriesNext ==
  \/ \E s \in Serializers :
       \/ Build(s)
       \/ EndDocument(s)
       \/ Drop(s)
       \/ \E p \in Pointers : Define(s, p) \/ WriteAlias(s, p)
  \/ \E p \in Pointers : TakeName(p)

RegistriesSpec == RegistriesInit /\ [][RegistriesNext]_registryVars

-----------------------------------------------------------------------------
(* What is checked.                                                        *)

\* As long as serializers are nested and to_value keeps out of them, an alias
\* stands for the anchor that its pointer has in the same document, and no two
\* pointers of a document have the same anchor.
AliasesFollowAnchors ==
  ~strayed =>
    /\ ~wrong
    /\ \A s \in Serializers, p, q \in Pointers :
         written[s][p] # NoName /\ written[s][p] = written[s][q] => p = q
=============================================================================

--------------------------- MODULE DocStreamProofs ---------------------------
(***************************************************************************)
(* Proofs about DocStream: the entry points drive the loader only as its   *)
(* specification allows, so that all that is proved of it holds for them;  *)
(* a success of from_str or from_str_multi covers the whole stream; and    *)
(* what the entry points answer, step by step, is what a DocIterator does. *)
(***************************************************************************)
EXTENDS DocStream, LoaderProofs

-----------------------------------------------------------------------------
(* The loader within the entry points.                                     *)

LEMMA StreamStepLoads == [StreamNext]_allVars => [Next]_vars
<1> SUFFICES ASSUME [StreamNext]_allVars PROVE [Next]_vars
  OBVIOUS
<1>1. CASE Refuse \/ FailAgain \/ NoDocument \/ GotDocument \/ DeserializeErr
             \/ SecondDocument
  BY <1>1 DEF Refuse, FailAgain, NoDocument, GotDocument, DeserializeErr, SecondDocument
<1>2. CASE Ask
  BY <1>2 DEF Ask, CallLoader, Next
<1>3. CASE LoaderStep
  BY <1>3 DEF LoaderStep, Next
<1>4. CASE DeserializeOk
  BY <1>4 DEF DeserializeOk, CallLoader, Next
<1>5. CASE Finished \/ UNCHANGED allVars
  BY <1>5 DEF Finished, allVars
<1> QED
  BY <1>1, <1>2, <1>3, <1>4, <1>5 DEF StreamNext

\* The entry points of src/de.rs do with the loader only what its own
\* specification allows: a call when no call is running, and its iterations.
THEOREM StreamDrivesLoader == StreamSpec => Spec
<1>1. StreamInit => Init
  BY DEF StreamInit
<1> QED
  BY <1>1, StreamStepLoads, PTL DEF StreamSpec, Spec

\* Hence what is proved of the documents of the loader holds of those that the
\* entry points get from it.
COROLLARY StreamDocuments ==
  StreamSpec => [](WholeDocuments /\ ErrorFreeEndsAtBoundary /\ AliasFindsDefinition)
BY StreamDrivesLoader, DocumentsAreWhole, DocumentsEndAtBoundaries,
   AliasesFindDefinitions, PTL

\* What the loader's own invariants give the arguments below.
LoaderInv == TypeInv /\ DocumentInv

LEMMA LoaderInvariant == StreamSpec => []LoaderInv
<1>1. Init => LoaderInv
  BY TypeInit, DocumentInvInit DEF LoaderInv
<1>2. LoaderInv /\ [Next]_vars => LoaderInv'
  BY TypeStep, DocumentInvStep DEF LoaderInv
<1> QED
  BY <1>1, <1>2, StreamDrivesLoader, PTL DEF Spec

-----------------------------------------------------------------------------
(* Type correctness.                                                       *)

EntryTypes ==
  /\ mode \in Modes
  /\ input \in Inputs
  /\ budget \in BOOLEAN
  /\ progress \in {"Input", "Iterable", "Fail"}
  /\ step \in {"ready", "loading", "document", "second", "done"}
  /\ item \in {"nothing", "Ok", "Err", "None"}
  /\ oks \in Nat
  /\ phantom \in BOOLEAN

LEMMA EntryTypesStep == TypeInv /\ EntryTypes /\ [StreamNext]_allVars => EntryTypes'
<1> SUFFICES ASSUME TypeInv, EntryTypes, [StreamNext]_allVars PROVE EntryTypes'
  OBVIOUS
<1> USE DEF EntryTypes
<1>1. CASE Refuse
  BY <1>1 DEF Refuse, fixed
<1>2. CASE FailAgain
  BY <1>2 DEF FailAgain, fixed
<1>3. CASE Ask
  BY <1>3 DEF Ask, fixed
<1>4. CASE LoaderStep
  BY <1>4 DEF LoaderStep, streamVars
<1>5. CASE NoDocument
  <2>1. mode \in {"iterate", "collect", "single"}
    BY StreamAssumption
  <2> QED
    BY <1>5, <2>1 DEF NoDocument, fixed
<1>6. CASE GotDocument
  BY <1>6 DEF GotDocument, fixed
<1>7. CASE DeserializeErr
  BY <1>7 DEF DeserializeErr, fixed
<1>8. CASE DeserializeOk
  <2>1. phantom' \in BOOLEAN
    <3>1. phantom' = (phantom \/ ~whole)
      BY <1>8, Zenon DEF DeserializeOk
    <3> QED
      BY <3>1, Zenon
  <2>2. oks' \in Nat
    BY <1>8 DEF DeserializeOk
  <2>3. UNCHANGED <<fixed, progress>>
    BY <1>8, Zenon DEF DeserializeOk
  <2>4. step' \in {"ready", "second"} /\ item' \in {"nothing", "Ok", item}
    BY <1>8, Zenon DEF DeserializeOk
  <2> QED
    BY <2>1, <2>2, <2>3, <2>4 DEF fixed
<1>9. CASE SecondDocument
  BY <1>9 DEF SecondDocument, fixed
<1>10. CASE Finished \/ UNCHANGED allVars
  BY <1>10 DEF Finished, allVars, streamVars
<1> QED
  BY <1>1, <1>2, <1>3, <1>4, <1>5, <1>6, <1>7, <1>8, <1>9, <1>10 DEF StreamNext

LEMMA EntryTypesInvariant == StreamSpec => []EntryTypes
<1>1. StreamInit => EntryTypes
  <2> SUFFICES ASSUME StreamInit PROVE EntryTypes
    OBVIOUS
  <2>1. mode \in Modes /\ input \in Inputs /\ budget \in BOOLEAN /\ phantom \in BOOLEAN
    BY Zenon DEF StreamInit
  <2>2. progress = "Input" /\ step = "ready" /\ item = "nothing" /\ oks = 0
    BY DEF StreamInit
  <2> QED
    BY <2>1, <2>2 DEF EntryTypes
<1> QED
  BY <1>1, EntryTypesStep, LoaderInvariant, PTL DEF StreamSpec, LoaderInv

\* The entry points, their iterator and the loader keep their types.
THEOREM StreamTypeCorrect == StreamSpec => []StreamTypeOK
<1>1. LoaderInv /\ EntryTypes => StreamTypeOK
  BY DEF LoaderInv, TypeInv, EntryTypes, StreamTypeOK
<1> QED
  BY <1>1, EntryTypesInvariant, LoaderInvariant, PTL

-----------------------------------------------------------------------------
(* The order of the calls.                                                 *)

\* What an iteration of the loader's loop does to the call and to the parser.
LEMMA LoadOrder ==
  ASSUME LoaderInv, Load, parser = "open", source.phase # "ended"
  PROVE  /\ call = "loading"
         /\ call' = "loading" => parser' = "open"
         /\ call' # "loading" => call' = "idle"
         /\ call' = "idle" => returned' \in {"some", "none"}
         /\ call' = "idle" /\ returned' = "none" => parser' = "none"
         /\ source'.phase = "ended" => parser' = "none"
         /\ whole' = whole
<1>0. source \in Source
  BY DEF LoaderInv, TypeInv, TypeOK
<1>1. ASSUME NEW failure \in {"scan", "read"}, ParseError(failure)
      PROVE  source'.phase = source.phase
  BY <1>0, <1>1 DEF ParseError, Source
<1>2. ASSUME NEW failure \in {"scan", "read"}, ParseError(failure)
      PROVE  /\ call = "loading" /\ call' = "idle" /\ whole' = whole
             /\ returned' = "some" \/ (returned' = "none" /\ parser' = "none")
  BY <1>2 DEF ParseError, ErrorArm, ReturnNone, ReturnDocument
<1>3. ASSUME NEW e \in Offered, ConvertError(e)
      PROVE  /\ call = "loading" /\ call' = "idle" /\ whole' = whole
             /\ returned' = "some" \/ (returned' = "none" /\ parser' = "none")
             /\ source'.phase # "ended"
  <2>1. e.type \in NodeTypes \cup {"Alias"} /\ source' = SourceAfter(e)
    BY <1>3 DEF ConvertError
  <2>2. source'.phase # "ended"
    BY <1>0, <2>1, NodeShape
  <2> QED
    BY <1>3, <2>2 DEF ConvertError, ErrorArm, ReturnNone, ReturnDocument
<1>4. ASSUME NEW e \in Offered, Skip(e)
      PROVE  /\ call = "loading" /\ call' = call /\ whole' = whole
             /\ parser' = parser
             /\ source'.phase # "ended"
  <2>1. e.type \in {"StreamStart", "DocumentStart"} /\ source' = SourceAfter(e)
    BY <1>4 DEF Skip, Take
  <2>2. source'.phase # "ended"
    BY <1>0, <2>1, FrameShape
  <2> QED
    BY <1>4, <2>2 DEF Skip, Take
<1>5. ASSUME NEW e \in Offered, EndStream(e)
      PROVE  /\ call = "loading" /\ call' = "idle" /\ whole' = whole
             /\ parser' = "none" /\ returned' \in {"some", "none"}
  BY <1>5 DEF EndStream, Take, ReturnNone, ReturnDocument
<1>6. ASSUME NEW e \in Offered, EndDocument(e)
      PROVE  /\ call = "loading" /\ call' = "idle" /\ whole' = whole
             /\ returned' = "some"
             /\ source'.phase # "ended"
  <2>1. e.type = "DocumentEnd" /\ source' = SourceAfter(e)
    BY <1>6 DEF EndDocument, Take
  <2>2. source'.phase # "ended"
    BY <1>0, <2>1, FrameShape
  <2> QED
    BY <1>6, <2>2 DEF EndDocument, Take, ReturnDocument
<1>7. ASSUME NEW e \in Offered, LoadAlias(e) \/ LoadNode(e) \/ LoadEnd(e)
      PROVE  /\ call = "loading" /\ call' = call /\ whole' = whole
             /\ parser' = parser
             /\ source'.phase # "ended"
  <2>1. /\ e.type \in NodeTypes \cup {"Alias", "SequenceEnd", "MappingEnd"}
        /\ source' = SourceAfter(e)
    BY <1>7 DEF LoadAlias, LoadNode, LoadEnd, Take
  <2>2. source'.phase # "ended"
    BY <1>0, <2>1, NodeShape
  <2> QED
    BY <1>7, <2>2 DEF LoadAlias, LoadNode, LoadEnd, Take
<1>8. ASSUME NEW e \in Offered, UnknownAlias(e)
      PROVE  /\ call = "loading" /\ call' = "idle" /\ whole' = whole
             /\ returned' = "some"
             /\ source'.phase # "ended"
  <2>1. e.type = "Alias" /\ source' = SourceAfter(e)
    BY <1>8 DEF UnknownAlias, Take
  <2>2. source'.phase # "ended"
    BY <1>0, <2>1, NodeShape
  <2> QED
    BY <1>8, <2>2 DEF UnknownAlias, Take, ReturnDocument
<1> QED
  BY <1>1, <1>2, <1>3, <1>4, <1>5, <1>6, <1>7, <1>8 DEF Load

\* What a call of the loader does to the call and to the parser.
LEMMA CallOrder ==
  ASSUME CallLoader, CallsInOrder
  PROVE  /\ call = "idle"
         /\ UNCHANGED <<source, parser>>
         /\ \/ call' = "loading" /\ parser = "open"
            \/ call' = "idle" /\ parser = "none" /\ returned' = "none"
<1>1. CASE CallExhausted
  BY <1>1 DEF CallExhausted
<1>2. CASE CallNextDocument
  BY <1>2, Zenon DEF CallNextDocument
<1> QED
  BY <1>1, <1>2 DEF CallLoader

LEMMA CallsInOrderStep ==
  LoaderInv /\ EntryTypes /\ CallsInOrder /\ [StreamNext]_allVars => CallsInOrder'
<1> SUFFICES ASSUME LoaderInv, EntryTypes, CallsInOrder, [StreamNext]_allVars
             PROVE  CallsInOrder'
  OBVIOUS
<1>1. ASSUME UNCHANGED vars, call = "idle", step' = "document" => returned = "some"
      PROVE  CallsInOrder'
  BY <1>1 DEF CallsInOrder, vars
<1>2. CASE Refuse \/ FailAgain \/ NoDocument \/ GotDocument \/ DeserializeErr
             \/ SecondDocument
  <2>1. UNCHANGED vars /\ call = "idle"
    BY <1>2 DEF Refuse, FailAgain, NoDocument, GotDocument, DeserializeErr, SecondDocument,
         CallsInOrder
  <2>2. step' = "document" => returned = "some"
    BY <1>2 DEF Refuse, FailAgain, NoDocument, GotDocument, DeserializeErr, SecondDocument
  <2> QED
    BY <1>1, <2>1, <2>2
<1>3. ASSUME CallLoader, step' \in {"loading", "second"}
      PROVE  CallsInOrder'
  BY <1>3, CallOrder DEF CallsInOrder
<1>4. CASE Ask
  BY <1>3, <1>4 DEF Ask
<1>5. CASE LoaderStep
  <2>1. Load /\ step \in {"loading", "second"} /\ step' = step
    BY <1>5 DEF LoaderStep, streamVars
  <2>2. call = "loading"
    BY <2>1 DEF Load, ParseError, ConvertError, Skip, EndStream, EndDocument, LoadAlias,
         UnknownAlias, LoadNode, LoadEnd, Take
  <2>3. parser = "open" /\ source.phase # "ended"
    BY <2>2 DEF CallsInOrder
  <2> QED
    BY <2>1, <2>3, LoadOrder DEF CallsInOrder
<1>6. CASE DeserializeOk
  <2>1. CASE mode = "single"
    BY <1>3, <1>6, <2>1 DEF DeserializeOk
  <2>2. CASE mode # "single"
    <3>1. UNCHANGED vars /\ step = "document" /\ step' = "ready"
      BY <1>6, <2>2, Zenon DEF DeserializeOk
    <3> QED
      BY <1>1, <3>1 DEF CallsInOrder
  <2> QED
    BY <2>1, <2>2
<1>7. CASE Finished \/ UNCHANGED allVars
  BY <1>7 DEF Finished, allVars, vars, streamVars, CallsInOrder
<1> QED
  BY <1>2, <1>4, <1>5, <1>6, <1>7 DEF StreamNext

LEMMA ItemsInOrderStep ==
  /\ LoaderInv /\ EntryTypes /\ CallsInOrder /\ ItemsInOrder /\ [StreamNext]_allVars
  => ItemsInOrder'
<1> SUFFICES ASSUME LoaderInv, EntryTypes, CallsInOrder, ItemsInOrder, [StreamNext]_allVars
             PROVE  ItemsInOrder'
  OBVIOUS
<1>1. CASE Refuse \/ FailAgain
  BY <1>1 DEF Refuse, FailAgain, fixed, vars, ItemsInOrder
<1>2. CASE Ask
  BY <1>2, CallOrder DEF Ask, fixed, ItemsInOrder
<1>3. CASE LoaderStep
  <2>1. Load /\ UNCHANGED streamVars
    BY <1>3 DEF LoaderStep
  <2>2. call = "loading"
    BY <2>1 DEF Load, ParseError, ConvertError, Skip, EndStream, EndDocument, LoadAlias,
         UnknownAlias, LoadNode, LoadEnd, Take
  <2>3. parser = "open"
    BY <2>2 DEF CallsInOrder
  <2> QED
    BY <2>1, <2>3 DEF streamVars, ItemsInOrder
<1>4. CASE NoDocument
  <2>1. mode \in {"iterate", "collect", "single"}
    BY StreamAssumption DEF EntryTypes
  <2>2. /\ UNCHANGED <<vars, mode, progress>>
        /\ step = "loading" /\ call = "idle" /\ returned = "none"
        /\ item' = "None" => mode = "iterate"
        /\ step' = IF mode = "iterate" THEN "ready" ELSE "done"
    BY <1>4, <2>1 DEF NoDocument, fixed
  <2>3. parser = "none" /\ progress = "Iterable"
    BY <2>2 DEF CallsInOrder, ItemsInOrder
  <2> QED
    BY <2>2, <2>3 DEF vars, ItemsInOrder
<1>5. CASE GotDocument
  BY <1>5 DEF GotDocument, fixed, vars, ItemsInOrder
<1>6. CASE DeserializeErr
  BY <1>6 DEF DeserializeErr, fixed, vars, ItemsInOrder
<1>7. CASE DeserializeOk
  <2>1. /\ step = "document"
        /\ UNCHANGED <<mode, progress>>
    BY <1>7, Zenon DEF DeserializeOk, fixed
  <2>2. CASE mode = "single"
    <3>1. step' = "second" /\ item' = item /\ CallLoader
      BY <1>7, <2>2, Zenon DEF DeserializeOk
    <3>2. UNCHANGED parser
      BY <3>1, CallOrder
    <3> QED
      BY <2>1, <2>2, <3>1, <3>2 DEF ItemsInOrder
  <2>3. CASE mode # "single"
    <3>1. step' = "ready" /\ item' = IF mode = "iterate" THEN "Ok" ELSE "nothing"
      BY <1>7, <2>3, Zenon DEF DeserializeOk
    <3> QED
      BY <2>1, <2>3, <3>1 DEF ItemsInOrder
  <2> QED
    BY <2>2, <2>3
<1>8. CASE SecondDocument
  BY <1>8 DEF SecondDocument, fixed, vars, ItemsInOrder
<1>9. CASE Finished \/ UNCHANGED allVars
  BY <1>9 DEF Finished, allVars, vars, streamVars, ItemsInOrder
<1> QED
  BY <1>1, <1>2, <1>3, <1>4, <1>5, <1>6, <1>7, <1>8, <1>9 DEF StreamNext

OrderInv == LoaderInv /\ EntryTypes /\ CallsInOrder /\ ItemsInOrder

LEMMA OrderInvariant == StreamSpec => []OrderInv
<1>1. StreamInit => CallsInOrder /\ ItemsInOrder
  BY DEF StreamInit, Init, CallsInOrder, ItemsInOrder
<1>2. LoaderInv /\ EntryTypes /\ CallsInOrder /\ ItemsInOrder /\ [StreamNext]_allVars
        => CallsInOrder' /\ ItemsInOrder'
  BY CallsInOrderStep, ItemsInOrderStep
<1> QED
  BY <1>1, <1>2, LoaderInvariant, EntryTypesInvariant, PTL DEF StreamSpec, OrderInv

-----------------------------------------------------------------------------
(* The refinement: step by step, the entry points answer as a DocIterator. *)

LEMMA StepIsIteratorStep == OrderInv /\ [StreamNext]_allVars => [Items!Next]_(Items!vars)
<1> SUFFICES ASSUME OrderInv, [StreamNext]_allVars PROVE [Items!Next]_(Items!vars)
  OBVIOUS
<1> USE DEF Items!vars
<1>1. ItemsInOrder /\ CallsInOrder /\ EntryTypes
  BY DEF OrderInv
<1>2. CASE Refuse
  BY <1>1, <1>2 DEF Refuse, fixed, ItemsInOrder, Items!Next, Items!Refuse
<1>3. CASE FailAgain
  BY <1>1, <1>3 DEF FailAgain, fixed, Items!Next, Items!Refuse
<1>4. CASE Ask
  BY <1>1, <1>4 DEF Ask, fixed
<1>5. CASE LoaderStep
  BY <1>5 DEF LoaderStep, streamVars
<1>6. CASE NoDocument
  <2>1. mode \in {"iterate", "collect", "single"} /\ progress = "Iterable"
    BY <1>1, <1>6, StreamAssumption DEF EntryTypes, NoDocument, ItemsInOrder
  <2>2. progress' = progress
    BY <1>6 DEF NoDocument
  <2> QED
    BY <1>1, <1>6, <2>1, <2>2 DEF NoDocument, EntryTypes, Items!Next, Items!Exhaust
<1>7. CASE GotDocument
  BY <1>7 DEF GotDocument, fixed
<1>8. CASE DeserializeErr
  <2>1. progress = "Iterable" /\ item # "None"
    BY <1>1, <1>8 DEF DeserializeErr, ItemsInOrder
  <2> QED
    BY <1>8, <2>1 DEF DeserializeErr, Items!Next, Items!Yield, Items!Exhaust
<1>9. CASE DeserializeOk
  <2>1. /\ step = "document"
        /\ progress' = progress
    BY <1>9, Zenon DEF DeserializeOk
  <2>2. progress = "Iterable" /\ item # "None"
    BY <1>1, <2>1 DEF ItemsInOrder
  <2>3. CASE mode = "single"
    <3>1. step' = "second" /\ item' = item
      BY <1>9, <2>3, Zenon DEF DeserializeOk
    <3> QED
      BY <2>1, <2>2, <3>1
  <2>4. CASE mode # "single"
    <3>1. step' = "ready" /\ item' = IF mode = "iterate" THEN "Ok" ELSE "nothing"
      BY <1>9, <2>4, Zenon DEF DeserializeOk
    <3>2. mode # "iterate" => item = "nothing"
      BY <1>1, <2>1 DEF ItemsInOrder
    <3> QED
      BY <2>1, <2>2, <3>1, <3>2 DEF Items!Next, Items!Yield
  <2> QED
    BY <2>3, <2>4
<1>10. CASE SecondDocument
  <2>1. progress = "Iterable" /\ item # "None"
    BY <1>1, <1>10 DEF SecondDocument, ItemsInOrder
  <2> QED
    BY <1>10, <2>1 DEF SecondDocument, Items!Next, Items!Exhaust
<1>11. CASE Finished \/ UNCHANGED allVars
  BY <1>11 DEF Finished, allVars, streamVars
<1> QED
  BY <1>2, <1>3, <1>4, <1>5, <1>6, <1>7, <1>8, <1>9, <1>10, <1>11 DEF StreamNext

\* The safety part of ImplementsIterator: whatever the loader does, the items
\* are values and errors until the end, after which there is none; a stream
\* that could not be opened yields its error and nothing else.
THEOREM StreamIsIterator == StreamSpec => Items!Safety
<1>1. StreamInit => Items!Init
  BY DEF StreamInit, Items!Init
<1> QED
  BY <1>1, StepIsIteratorStep, OrderInvariant, PTL DEF StreamSpec, Items!Safety

-----------------------------------------------------------------------------
(* What a success covers.  NothingSkipped counts the values against the    *)
(* documents libyaml has begun, for the functions that stop at the first   *)
(* error; each kind of step has a lemma.                                   *)

\* An error of the parser: a document that carries it, or the end of the
\* stream between two documents.
LEMMA ErrorCounts ==
  ASSUME OrderInv, RunningCounts, call = "loading", NEW kind \in {"Parse", "Convert"},
         ErrorArm(kind), oks' = oks,
         seen \/ (source'.failed # "no" /\ UNCHANGED <<source.phase, source.docs>>)
  PROVE  call' = "idle" /\ ReturnedCounts'
<1>1. document \in Document /\ source \in Source /\ source.phase # "ended"
  BY DEF OrderInv, LoaderInv, TypeInv, TypeOK, CallsInOrder
<1>2. call' = "idle"
  BY DEF ErrorArm, ReturnNone, ReturnDocument
<1>3. CASE seen
  <2>1. returned' = "some" /\ document'.error # "none"
    BY <1>1, <1>3 DEF ErrorArm, ReturnDocument, Document
  <2> QED
    BY <1>2, <2>1 DEF ReturnedCounts
<1>4. CASE ~seen
  <2>1. returned' = "none"
    BY <1>4 DEF ErrorArm, ReturnNone
  <2>2. AllDelivered'
    BY <1>1, <1>4 DEF RunningCounts, AllDelivered, Delivered
  <2> QED
    BY <1>2, <2>1, <2>2 DEF ReturnedCounts
<1> QED
  BY <1>3, <1>4

\* An iteration of the loader's loop keeps the count.
LEMMA LoadCounts ==
  ASSUME OrderInv, RunningCounts, whole, call = "loading", Load, oks' = oks
  PROVE  \/ call' = "loading" /\ RunningCounts'
         \/ call' = "idle" /\ ReturnedCounts'
<1>1. /\ source \in Source
      /\ document \in Document
      /\ parser = "open"
      /\ source.phase # "ended"
      /\ source.docs \in Nat
      /\ oks \in Nat
  BY DEF OrderInv, LoaderInv, TypeInv, TypeOK, CallsInOrder, EntryTypes, Source
<1>2. ASSUME NEW failure \in {"scan", "read"}, ParseError(failure)
      PROVE  call' = "idle" /\ ReturnedCounts'
  <2>1. source'.failed # "no" /\ UNCHANGED <<source.phase, source.docs>>
    BY <1>1, <1>2 DEF ParseError, Source
  <2> QED
    BY <1>2, <2>1, ErrorCounts DEF ParseError
<1>3. ASSUME NEW e \in Offered, ConvertError(e)
      PROVE  call' = "idle" /\ ReturnedCounts'
  <2>1. source.phase = "root"
    BY <1>1, <1>3, NodeShape DEF ConvertError
  <2>2. seen
    BY <2>1 DEF RunningCounts
  <2> QED
    BY <1>3, <2>2, ErrorCounts DEF ConvertError
<1>4. ASSUME NEW e \in Offered, Skip(e)
      PROVE  call' = "loading" /\ RunningCounts'
  <2>1. /\ e.type \in {"StreamStart", "DocumentStart"}
        /\ source' = SourceAfter(e)
        /\ call' = call /\ first' = first /\ seen' = TRUE
    BY <1>4 DEF Skip, Take
  <2>2. CASE e.type = "StreamStart"
    <3>1. source.phase = "new" /\ source'.phase = "stream" /\ source'.docs = source.docs
      BY <1>1, <2>1, <2>2, FrameShape
    <3> QED
      BY <2>1, <3>1 DEF RunningCounts
  <2>3. CASE e.type = "DocumentStart"
    <3>1. /\ source.phase = "stream"
          /\ source'.phase = "root"
          /\ source'.docs = source.docs + 1
      BY <1>1, <2>1, <2>3, FrameShape
    <3> QED
      BY <2>1, <3>1 DEF RunningCounts
  <2> QED
    BY <2>1, <2>2, <2>3
<1>5. ASSUME NEW e \in Offered, EndStream(e)
      PROVE  call' = "idle" /\ ReturnedCounts'
  <2>1. /\ e.type = "StreamEnd"
        /\ source' = SourceAfter(e)
        /\ call' = "idle"
    BY <1>5 DEF EndStream, Take, ReturnNone, ReturnDocument
  <2>2. /\ source.phase = "stream"
        /\ source'.phase = "ended"
        /\ source'.docs = source.docs
    BY <1>1, <2>1, FrameShape
  <2>3. oks = source.docs
    BY <2>2 DEF RunningCounts
  <2>4. CASE first
    <3>1. source.docs = 0
      BY <2>2, <2>4 DEF OrderInv, LoaderInv, DocumentInv, CallFresh
    <3>2. oks' + 1 = Delivered' /\ returned' = "some"
      BY <1>1, <1>5, <2>2, <2>3, <2>4, <3>1 DEF Delivered, EndStream, ReturnDocument
    <3> QED
      BY <2>1, <2>2, <3>2 DEF ReturnedCounts
  <2>5. CASE ~first
    <3>1. oks > 0
      BY <2>5 DEF RunningCounts
    <3>2. oks' = Delivered' /\ returned' = "none"
      BY <1>1, <1>5, <2>2, <2>3, <2>5, <3>1 DEF Delivered, EndStream, ReturnNone
    <3> QED
      BY <2>1, <2>2, <3>2 DEF ReturnedCounts, AllDelivered
  <2> QED
    BY <2>4, <2>5
<1>6. ASSUME NEW e \in Offered, EndDocument(e)
      PROVE  call' = "idle" /\ ReturnedCounts'
  <2>1. /\ e.type = "DocumentEnd"
        /\ source' = SourceAfter(e)
        /\ call' = "idle" /\ returned' = "some"
        /\ parser' = parser
    BY <1>6 DEF EndDocument, Take, ReturnDocument
  <2>2. /\ source.phase = "close"
        /\ source'.phase = "stream"
        /\ source'.docs = source.docs
    BY <1>1, <2>1, FrameShape
  <2>3. oks' + 1 = Delivered'
    BY <2>2 DEF RunningCounts, Delivered
  <2> QED
    BY <1>1, <2>1, <2>3 DEF ReturnedCounts
<1>7. ASSUME NEW e \in Offered, LoadAlias(e) \/ LoadNode(e) \/ LoadEnd(e)
      PROVE  call' = "loading" /\ RunningCounts'
  <2>1. /\ e.type \in NodeTypes \cup {"Alias", "SequenceEnd", "MappingEnd"}
        /\ source' = SourceAfter(e)
        /\ call' = call /\ first' = first /\ seen' = TRUE
    BY <1>7 DEF LoadAlias, LoadNode, LoadEnd, Take
  <2>2. /\ source.phase = "root"
        /\ source'.phase \in {"root", "close"}
        /\ source'.docs = source.docs
    BY <1>1, <2>1, NodeShape
  <2> QED
    BY <2>1, <2>2 DEF RunningCounts
<1>8. ASSUME NEW e \in Offered, UnknownAlias(e)
      PROVE  call' = "idle" /\ ReturnedCounts'
  BY <1>1, <1>8 DEF UnknownAlias, ReturnDocument, ReturnedCounts, Document
<1> QED
  BY <1>2, <1>3, <1>4, <1>5, <1>6, <1>7, <1>8 DEF Load

\* A call of the loader between two documents, with everything delivered.
LEMMA CallCounts ==
  ASSUME OrderInv, CallLoader, whole, oks' \in Nat,
         source.phase \in {"new", "stream", "ended"},
         parser = "none" => source.phase = "ended",
         oks' = Delivered,
         documentCount # 0 => oks' > 0
  PROVE  /\ whole'
         /\ \/ call' = "loading" /\ RunningCounts'
            \/ call' = "idle" /\ returned' = "none" /\ AllDelivered'
<1>1. CASE CallExhausted
  <2>1. /\ call' = "idle" /\ returned' = "none"
        /\ source' = source /\ whole' = whole
        /\ source.phase = "ended"
    BY <1>1 DEF CallExhausted
  <2> QED
    BY <2>1 DEF AllDelivered, Delivered
<1>2. CASE CallNextDocument
  <2>1. /\ call' = "loading" /\ parser = "open" /\ source' = source /\ seen' = FALSE
        /\ whole' = (source.phase \in {"new", "stream"})
        /\ first' = (documentCount = 0)
    BY <1>2, Zenon DEF CallNextDocument
  <2>2. source.phase \in {"new", "stream"}
    BY <2>1 DEF OrderInv, CallsInOrder
  <2>3. whole'
    BY <2>1, <2>2, Zenon
  <2>4. ~first' => documentCount # 0
    BY <2>1, Zenon
  <2>5. RunningCounts'
    BY <2>1, <2>2, <2>4 DEF RunningCounts, Delivered
  <2> QED
    BY <2>1, <2>3, <2>5
<1> QED
  BY <1>1, <1>2 DEF CallLoader

LEMMA NothingSkippedStep ==
  OrderInv /\ NothingSkipped /\ [StreamNext]_allVars => NothingSkipped'
<1> SUFFICES ASSUME OrderInv, NothingSkipped, [StreamNext]_allVars
             PROVE  NothingSkipped'
  OBVIOUS
<1>0. mode' = mode
  <2>1. CASE DeserializeOk
    BY <2>1, Zenon DEF DeserializeOk, fixed
  <2>2. CASE LoaderStep \/ Finished \/ UNCHANGED allVars
    BY <2>2 DEF LoaderStep, Finished, streamVars, allVars
  <2>3. CASE Refuse \/ FailAgain \/ Ask
    BY <2>3 DEF Refuse, FailAgain, Ask, fixed
  <2>4. CASE NoDocument \/ GotDocument \/ DeserializeErr \/ SecondDocument
    BY <2>4 DEF NoDocument, GotDocument, DeserializeErr, SecondDocument, fixed
  <2> QED
    BY <2>1, <2>2, <2>3, <2>4 DEF StreamNext
<1> SUFFICES ASSUME mode # "iterate" PROVE NothingSkipped'
  BY <1>0 DEF NothingSkipped
<1>1. /\ mode \in {"collect", "single"}
      /\ oks \in Nat
      /\ CallsInOrder /\ ItemsInOrder
      /\ step # "done" => item = "nothing" /\ progress # "Fail"
      /\ whole /\ ~phantom
  BY StreamAssumption DEF OrderInv, EntryTypes, ItemsInOrder, NothingSkipped
<1>2. ASSUME UNCHANGED vars
      PROVE  /\ Delivered' = Delivered
             /\ oks' = oks => /\ AllDelivered' <=> AllDelivered
                              /\ RunningCounts' <=> RunningCounts
                              /\ ReturnedCounts' <=> ReturnedCounts
  BY <1>2 DEF vars, locals, Delivered, AllDelivered, RunningCounts, ReturnedCounts
<1>3. CASE Refuse \/ DeserializeErr
  <2>1. UNCHANGED <<vars, mode, oks, phantom>> /\ step' = "done" /\ item' = "Err"
    BY <1>1, <1>3 DEF Refuse, DeserializeErr, fixed
  <2>2. call = "idle"
    BY <1>1, <1>3 DEF Refuse, DeserializeErr, CallsInOrder
  <2> QED
    BY <1>1, <1>2, <2>1, <2>2 DEF vars, locals, NothingSkipped
<1>4. CASE FailAgain
  BY <1>1, <1>4 DEF FailAgain
<1>5. CASE Ask
  <2>1. /\ CallLoader /\ step = "ready" /\ step' = "loading"
        /\ UNCHANGED <<mode, item, oks, phantom>>
    BY <1>5 DEF Ask, fixed
  <2>2. /\ source.phase \in {"new", "stream", "ended"}
        /\ parser = "none" => source.phase = "ended"
        /\ oks' = Delivered
        /\ documentCount # 0 => oks' > 0
        /\ mode = "single" => oks = 0
    BY <2>1 DEF NothingSkipped
  <2>3. /\ whole'
        /\ \/ call' = "loading" /\ RunningCounts'
           \/ call' = "idle" /\ returned' = "none" /\ AllDelivered'
    BY <1>1, <2>1, <2>2, CallCounts
  <2> QED
    BY <1>1, <2>1, <2>2, <2>3 DEF NothingSkipped, ReturnedCounts
<1>6. CASE LoaderStep
  <2>1. Load /\ step \in {"loading", "second"} /\ UNCHANGED streamVars
    BY <1>6 DEF LoaderStep
  <2>2. call = "loading"
    BY <2>1 DEF Load, ParseError, ConvertError, Skip, EndStream, EndDocument, LoadAlias,
         UnknownAlias, LoadNode, LoadEnd, Take
  <2>3. RunningCounts
    BY <2>2 DEF NothingSkipped
  <2>4. \/ call' = "loading" /\ RunningCounts'
        \/ call' = "idle" /\ ReturnedCounts'
    BY <1>1, <2>1, <2>2, <2>3, LoadCounts DEF streamVars
  <2>5. whole' = whole
    BY <1>1, <2>1, <2>2, LoadOrder DEF OrderInv, CallsInOrder
  <2> QED
    BY <1>1, <2>1, <2>4, <2>5 DEF streamVars, NothingSkipped
<1>7. CASE NoDocument
  <2>1. /\ UNCHANGED <<vars, mode, oks, phantom>>
        /\ step = "loading" /\ step' = "done"
        /\ call = "idle" /\ returned = "none"
        /\ item' = "Ok" => mode = "collect"
    BY <1>1, <1>7 DEF NoDocument, fixed
  <2>2. AllDelivered
    BY <2>1 DEF NothingSkipped, ReturnedCounts
  <2> QED
    BY <1>1, <1>2, <2>1, <2>2 DEF vars, locals, NothingSkipped
<1>8. CASE GotDocument
  <2>1. /\ UNCHANGED <<vars, mode, item, oks, phantom>>
        /\ step = "loading" /\ step' = "document"
        /\ call = "idle"
    BY <1>8 DEF GotDocument, fixed
  <2>2. ReturnedCounts
    BY <2>1 DEF NothingSkipped
  <2> QED
    BY <1>1, <1>2, <2>1, <2>2 DEF vars, locals, NothingSkipped
<1>9. CASE DeserializeOk
  <2>1. /\ step = "document"
        /\ document.error = "none"
        /\ oks' = oks + 1
        /\ UNCHANGED mode
    BY <1>9, Zenon DEF DeserializeOk, fixed
  <2>2. ~phantom'
    BY <1>1, <1>9, Zenon DEF DeserializeOk
  <2>3. call = "idle" /\ returned = "some"
    BY <1>1, <2>1 DEF CallsInOrder
  <2>4. /\ oks' = Delivered
        /\ parser = "none" => source.phase = "ended"
        /\ mode = "single" => oks' = 1
    BY <2>1, <2>3 DEF NothingSkipped, ReturnedCounts
  <2>5. source.phase \in {"stream", "ended"}
    BY <2>1, <2>3 DEF OrderInv, LoaderInv, DocumentInv, ErrorFreeEndsAtBoundary, Returned
  <2>6. oks' \in Nat /\ oks' > 0
    BY <1>1, <2>1
  <2>7. CASE mode = "single"
    <3>1. CallLoader /\ step' = "second" /\ item' = item
      BY <1>9, <2>7, Zenon DEF DeserializeOk
    <3>2. /\ whole'
          /\ \/ call' = "loading" /\ RunningCounts'
             \/ call' = "idle" /\ returned' = "none" /\ AllDelivered'
      BY <1>1, <2>4, <2>5, <2>6, <3>1, CallCounts
    <3> QED
      BY <1>1, <2>1, <2>2, <2>4, <3>1, <3>2 DEF NothingSkipped, ReturnedCounts
  <2>8. CASE mode # "single"
    <3>1. UNCHANGED vars /\ step' = "ready" /\ item' = "nothing"
      BY <1>1, <1>9, <2>8 DEF DeserializeOk
    <3>2. Delivered' = Delivered
      BY <1>2, <3>1
    <3> QED
      BY <1>1, <2>1, <2>2, <2>3, <2>4, <2>5, <2>6, <2>8, <3>1, <3>2
         DEF vars, locals, NothingSkipped
  <2> QED
    BY <2>7, <2>8
<1>10. CASE SecondDocument
  <2>1. /\ UNCHANGED <<vars, mode, oks, phantom>>
        /\ step = "second" /\ step' = "done"
        /\ call = "idle"
        /\ item' = "Ok" => returned = "none"
    BY <1>10 DEF SecondDocument, fixed
  <2>2. /\ returned = "none" => AllDelivered
        /\ mode = "single" => oks = 1
    BY <2>1 DEF NothingSkipped, ReturnedCounts
  <2> QED
    BY <1>1, <1>2, <2>1, <2>2 DEF vars, locals, NothingSkipped
<1>11. CASE Finished \/ UNCHANGED allVars
  <2>1. UNCHANGED <<vars, streamVars>>
    BY <1>11 DEF Finished, allVars
  <2> QED
    BY <1>2, <2>1 DEF vars, locals, streamVars, NothingSkipped
<1> QED
  BY <1>3, <1>4, <1>5, <1>6, <1>7, <1>8, <1>9, <1>10, <1>11 DEF StreamNext

LEMMA NothingSkippedInvariant == StreamSpec => []NothingSkipped
<1>1. StreamInit => NothingSkipped
  BY DEF StreamInit, Init, NothingSkipped, Delivered
<1> QED
  BY <1>1, NothingSkippedStep, OrderInvariant, PTL DEF StreamSpec

\* A success of from_str, or of from_str_multi and its siblings, is one of the
\* whole stream: as many values as documents libyaml began, one for a stream
\* without any, and nothing left unread but what lies behind an error met
\* between two documents.
THEOREM SuccessesCoverStreams == StreamSpec => []SuccessCoversStream
<1>1. NothingSkipped => SuccessCoversStream
  BY DEF NothingSkipped, SuccessCoversStream, Succeeded, AllDelivered, Delivered
<1> QED
  BY <1>1, NothingSkippedInvariant, PTL

\* Neither ever makes a value of the tail that a failed document leaves behind.
THEOREM SuccessesAreOfWholeDocuments == StreamSpec => []SuccessOfWholeDocuments
<1>1. NothingSkipped => SuccessOfWholeDocuments
  BY DEF NothingSkipped, SuccessOfWholeDocuments
<1> QED
  BY <1>1, NothingSkippedInvariant, PTL
=============================================================================

------------------------------ MODULE DocStream ------------------------------
(***************************************************************************)
(* The entry points of src/de.rs over one input: Deserializer with its     *)
(* Progress, its Iterator, Deserializer::de for a single document,         *)
(* StreamDeserializer and the from_*_multi functions.  The loader is       *)
(* module Loader, stepped here by the entry point that holds it.           *)
(*                                                                         *)
(* A user of the library is in one of three modes:                         *)
(*   "iterate"  for item in StreamDeserializer, whatever the items are     *)
(*   "collect"  from_str_multi and its siblings: collect() into a Result,  *)
(*              which stops at the first error                             *)
(*   "single"   T::deserialize(Deserializer), from_str and its siblings    *)
(* What the visitor makes of a document (EventDe models that) is a choice  *)
(* here, within what the document's events allow.                          *)
(***************************************************************************)
EXTENDS Loader

CONSTANTS
  Inputs,  \* the inputs in use, a subset of {"Str", "Slice", "Read"}
  Modes    \* the modes in use

ASSUME StreamAssumption ==
  /\ Inputs \subseteq {"Str", "Slice", "Read"}
  /\ Modes \subseteq {"iterate", "collect", "single"}

VARIABLES
  mode, input,
  budget,    \* whether DeserializerOptions::budget is set
  progress,  \* Progress: the untouched "Input", "Iterable" or "Fail"
  \* what the entry point does: it is "ready" for the next call, waits for the
  \* loader ("loading", or "second" for de's second call), holds a "document",
  \* or is "done"
  step,
  item,      \* what the last call of the iterator, or de, answered
  oks,       \* the values delivered so far
  phantom    \* history: a value was made of the tail of a document

streamVars == <<mode, input, budget, progress, step, item, oks, phantom>>
allVars == <<vars, streamVars>>

StreamInit ==
  /\ Init
  /\ mode \in Modes
  /\ input \in Inputs
  /\ budget \in BOOLEAN
  /\ progress = "Input"
  /\ step = "ready"
  /\ item = "nothing"
  /\ oks = 0
  /\ phantom = FALSE

fixed == <<mode, input, budget>>

\* check_yaml_budget looks at a text only: always at a Str, at a Slice if it is
\* UTF-8, never at a Read.
Screened == budget /\ input # "Read"

\* Loader::new refuses the input: over budget, or the pre-scan fails.  The
\* iterator remembers and yields the error; de returns it.
Refuse ==
  /\ step = "ready"
  /\ progress = "Input"
  /\ Screened
  /\ progress' = "Fail"
  /\ item' = "Err"
  /\ step' = IF mode = "iterate" THEN "ready" ELSE "done"
  /\ UNCHANGED <<vars, fixed, oks, phantom>>

\* The iterator of a Fail yields its error again.
FailAgain ==
  /\ step = "ready"
  /\ progress = "Fail"
  /\ item' = "Err"
  /\ UNCHANGED <<vars, fixed, progress, step, oks, phantom>>

CallLoader == CallNextDocument \/ CallExhausted

\* Loader::new accepts the input, or had; the loader is asked for a document.
Ask ==
  /\ step = "ready"
  /\ progress \in {"Input", "Iterable"}
  /\ CallLoader
  /\ progress' = "Iterable"
  /\ step' = "loading"
  /\ UNCHANGED <<fixed, item, oks, phantom>>

\* One iteration of the loader's loop.
LoaderStep ==
  /\ step \in {"loading", "second"}
  /\ Load
  /\ input # "Read" => source'.failed # "read"
  /\ UNCHANGED streamVars

\* The loader is exhausted: the iterator ends, a collection is complete, and
\* de fails with EndOfStream.
NoDocument ==
  /\ step = "loading"
  /\ call = "idle"
  /\ returned = "none"
  /\ item' = CASE mode = "iterate" -> "None" [] mode = "collect" -> "Ok"
               [] mode = "single" -> "Err"
  /\ step' = IF mode = "iterate" THEN "ready" ELSE "done"
  /\ UNCHANGED <<vars, fixed, progress, oks, phantom>>

GotDocument ==
  /\ step = "loading"
  /\ call = "idle"
  /\ returned = "some"
  /\ step' = "document"
  /\ UNCHANGED <<vars, fixed, progress, item, oks, phantom>>

\* The events begin with a whole node or are the Void of an empty stream: the
\* least that any visitor needs.
Readable ==
  /\ document.events # <<>>
  /\ document.events[1].type \notin {"SequenceEnd", "MappingEnd"}
  /\ \E k \in 1 .. Len(document.events) : Cardinality(Starts(k)) = Cardinality(Ends(k))

\* A mutant of DeserializeErr: from_*_multi keeps what can be read.
DeserializeErrSkipped ==
  /\ step = "document"
  /\ item' = "Err"
  /\ step' = IF mode = "single" THEN "done" ELSE "ready"
  /\ UNCHANGED <<vars, fixed, progress, oks, phantom>>

\* The visitor fails, or it succeeds but the document carries an error.
DeserializeErr ==
  /\ step = "document"
  /\ item' = "Err"
  /\ step' = IF mode = "iterate" THEN "ready" ELSE "done"
  /\ UNCHANGED <<vars, fixed, progress, oks, phantom>>

\* The visitor succeeds on a document without an error: that is the item, but
\* de looks for a second document first.
DeserializeOk ==
  /\ step = "document"
  /\ Readable
  /\ document.error = "none"
  /\ oks' = oks + 1
  /\ phantom' = (phantom \/ ~whole)
  /\ IF mode = "single"
       THEN /\ CallLoader
            /\ step' = "second"
            /\ UNCHANGED item
       ELSE /\ step' = "ready"
            /\ item' = IF mode = "iterate" THEN "Ok" ELSE "nothing"
            /\ UNCHANGED vars
  /\ UNCHANGED <<fixed, progress>>

\* A mutant of SecondDocument: the answer of the loader is not looked at.
SecondDocumentIgnored ==
  /\ step = "second"
  /\ call = "idle"
  /\ item' = "Ok"
  /\ step' = "done"
  /\ UNCHANGED <<vars, fixed, progress, oks, phantom>>

\* de returns its value if there is no second document, else
\* MoreThanOneDocument.
SecondDocument ==
  /\ step = "second"
  /\ call = "idle"
  /\ item' = IF returned = "none" THEN "Ok" ELSE "Err"
  /\ step' = "done"
  /\ UNCHANGED <<vars, fixed, progress, oks, phantom>>

\* The function has returned and nobody calls it again.
Finished == step = "done" /\ UNCHANGED allVars

StreamNext ==
  \/ Refuse
  \/ FailAgain
  \/ Ask
  \/ LoaderStep
  \/ NoDocument
  \/ GotDocument
  \/ DeserializeErr
  \/ DeserializeOk
  \/ SecondDocument
  \/ Finished

\* The functions run to their end, and whoever iterates goes on asking.
StreamSpec == StreamInit /\ [][StreamNext]_allVars /\ WF_allVars(StreamNext)

-----------------------------------------------------------------------------
(* What is checked.                                                        *)

\* The type invariant of the entry points.
StreamTypeOK ==
  /\ TypeOK
  /\ mode \in Modes
  /\ input \in Inputs
  /\ budget \in BOOLEAN
  /\ progress \in {"Input", "Iterable", "Fail"}
  /\ step \in {"ready", "loading", "document", "second", "done"}
  /\ item \in {"nothing", "Ok", "Err", "None"}
  /\ oks \in Nat
  /\ phantom \in BOOLEAN

Succeeded == mode # "iterate" /\ item = "Ok"

\* from_str and from_str_multi succeed only on the whole stream: the values
\* are as many as the documents libyaml began (one for a stream without any),
\* and what was not read lies behind an error met between two documents.
SuccessCoversStream ==
  Succeeded =>
    /\ source.phase \in {"new", "stream", "ended"}
    /\ source.phase # "ended" => source.failed # "no"
    /\ oks = IF source.phase = "ended" /\ source.docs = 0 THEN 1 ELSE source.docs
    /\ mode = "single" => oks = 1

\* Neither makes a value of the tail that a failed document leaves behind.
SuccessOfWholeDocuments == mode # "iterate" => ~phantom

\* The iterator is a DocIterator, and so is a function that collects or reads
\* one value: it is asked again and again until it returns, which it does.
Items ==
  INSTANCE DocIterator WITH
    stage <- IF progress = "Fail" THEN "failed"
             ELSE IF step = "done" \/ item = "None" THEN "exhausted"
             ELSE IF item = "nothing" THEN "fresh" ELSE "open",
    item <- IF step = "done" /\ progress # "Fail" THEN "None" ELSE item
ImplementsIterator == Items!Spec

\* The inductive invariants behind these.  Every entry point calls the loader
\* only when it has answered, and an exhausted loader stays so.
CallsInOrder ==
  /\ step \in {"ready", "document", "done"} => call = "idle"
  /\ step = "document" => returned = "some"
  /\ call = "loading" => parser = "open"
  /\ source.phase = "ended" => parser = "none"
  /\ call = "idle" /\ returned = "none" => parser = "none"

\* What an item says of the loader: an iteration that has ended is at an
\* exhausted loader.
ItemsInOrder ==
  /\ progress = "Input" => item = "nothing" /\ step = "ready"
  /\ step \in {"loading", "document", "second"} => progress = "Iterable"
  /\ mode # "iterate" /\ step # "done" => item = "nothing" /\ progress # "Fail"
  /\ item = "None" =>
       /\ parser = "none"
       /\ step \in {"ready", "loading"}
       /\ step = "loading" => returned = "none"

\* The values that the documents begun so far must have become.
Delivered == IF source.phase = "ended" /\ source.docs = 0 THEN 1 ELSE source.docs

\* The loader has nothing more to give, and all it gave was delivered.
AllDelivered ==
  /\ source.phase \in {"new", "stream", "ended"}
  /\ source.phase # "ended" => source.failed # "no"
  /\ oks = Delivered

\* While a call runs, each document but the one in progress is a value.
RunningCounts ==
  /\ source.phase \in {"new", "stream"} => oks = source.docs
  /\ source.phase \in {"root", "close"} => oks + 1 = source.docs
  /\ ~seen => source.phase \in {"new", "stream"}
  /\ ~first => oks > 0

\* When it has returned, all are, or all but the one it returned.
ReturnedCounts ==
  /\ returned = "none" => AllDelivered
  /\ returned = "some" /\ document.error = "none" =>
       /\ oks + 1 = Delivered
       /\ parser = "none" => source.phase = "ended"

\* The functions that stop at the first error count like this.
NothingSkipped ==
  mode # "iterate" =>
    /\ whole /\ ~phantom
    /\ step = "ready" =>
         /\ source.phase \in {"new", "stream", "ended"}
         /\ parser = "none" => source.phase = "ended"
         /\ oks = Delivered
         /\ documentCount # 0 => oks > 0
    /\ call = "loading" => RunningCounts
    /\ call = "idle" /\ step \in {"loading", "document", "second"} => ReturnedCounts
    /\ item = "Ok" => step = "done" /\ AllDelivered
    /\ mode = "single" =>
         /\ step \in {"ready", "loading", "document"} => oks = 0
         /\ step = "second" \/ item = "Ok" => oks = 1

\* An error of the reader is reported: nothing succeeds, and no iteration ends
\* as if the text had (the test read_error_is_propagated of
\* src/libyaml/parser.rs holds of the parser).
ReadErrorsPropagate ==
  /\ Succeeded => source.failed # "read"
  /\ item = "None" => source.failed # "read"
=============================================================================

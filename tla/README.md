# Specifications of serde-yaml-gtc

TLA+ models of the library in `src/src`, the TLC runs that check them on small
instances, and proofs, checked by TLAPS, of theorems that hold for every value of the
constants. `PROJECT.json` lists components, runs, mutants, hazards and theorems, and
maps every definition that models code to its lines.

## 1. The system

The library reads YAML into Rust values and writes Rust values as YAML, through serde.

Reading:

    text ─► budget pre-scan (budget.rs, parser saphyr)          may refuse the text
         └► libyaml parser (libyaml/parser.rs)  ─events─► Loader (loader.rs)
                                                            │ documents: events with
                                                            │ marks, alias map, error
                                                            ▼
            Deserializer / StreamDeserializer (de.rs)  ─►  DeserializerFromEvents
                                                            │ serde calls
                                                            ▼
                                       user's type, or Value (value/…), on which
                                       apply_merge and resolve_aliases may be called

Writing:

    user's type or Value ─serde calls─► Serializer (ser.rs) ─events─► Emitter
    (libyaml/emitter.rs) ─bytes─► io::Write; RcAnchor/ArcAnchor/… ask the registries of
    the thread (ANCHOR_REGISTRY) whether they define an anchor or emit an alias

Nothing here runs in threads of its own. What makes the library hard to test is its
protocols: streams of events cut into documents by calls that can be stopped in the
middle by an error; callers that go on after an error; two counters that are meant to
agree; budgets at their limits; state that serde's call-backs leave behind in a serializer;
and a thread-local stack that assumes that serializers are nested.

| Component | State | Operations | Interacts with |
|---|---|---|---|
| Budget pre-scan, `budget.rs` | nine counters, nesting depth, set of anchors | `check_yaml_budget` | called by `Loader::new` on text, not on readers |
| Parser wrapper, `libyaml/parser.rs` | libyaml's parser, a pinned reader and its error | `next` | the loader pulls it; libyaml repeats its errors, not those of `convert_event` |
| Loader, `loader.rs` | the parser until it is dropped, the number of documents | `new`, `next_document` | the two iterators and `Deserializer::de` |
| Entry points, `de.rs` | `Progress`: input, loader, document, error | `from_*`, `from_*_multi`, iteration, `de` | the loader; a document goes to the event deserializer |
| Event deserializer, `de.rs` | position, jump count, remaining depth, shared `enum_depth`, keys seen | one method per serde type | serde visitors, call-backs into `SeqAccess`, `MapAccess`, `EnumAccess` |
| Values, `value/`, `mapping.rs` | a tree; an identity per mapping | `from_str_value_preserve`, `apply_merge`, `resolve_aliases`, indexing | `Mapping`, which refuses duplicate keys where it is read |
| `value::Serializer` and `Deserializer for Value` | `SerializeMap`: one of three states | `to_value`, `from_value`, `T::deserialize(&value)` | user's types; the registry of the thread, if a serializer is alive |
| Serializer, `ser.rs` | state, depth, pending anchor, tag stack, styles, registries of the thread | one method per serde type | the emitter; the `RcAnchor` family |
| Emitter wrapper, `libyaml/emitter.rs` | libyaml's emitter, the writer's error | `emit`, `into_inner` | the serializer |

### What makes each part correct

* **Budget**: a text that is accepted is within every limit; the reported breach is the
  first one; nothing wraps; the depth never goes below zero.
* **Loader**: documents are whole; alias ids lead to the definition that the name had at
  the alias; errors are neither lost nor repeated for ever; the loader can be exhausted.
* **Entry points**: a function that succeeds has read the whole stream; the iterator
  keeps its contract (end is final, an unreadable input stays an error).
* **Event deserializer**: the calls that check the recursion limit nest no deeper than it,
  and alias expansion is bounded; a call consumes exactly one node; duplicates are treated
  as the strategy says; a node that carries a tag is read as its enum wherever it stands.
* **Values**: a value is the document it was read from; merge keys take precedence by
  place; aliases resolve to a copy; both ways to a `Value` make the same one; duplicate
  keys are refused whichever way they are written; what `to_value` makes of a datum is
  read back as that datum.
* **Serializer**: the events are well nested whatever serde calls; an alias is emitted
  only after its anchor and in the same document; an error or an abandoned call leaves
  no trace in the next document, nor in another serializer's.

## 2. Plan

Order of importance: what the text of others reaches first, first. Each module is
written so that it can be proved about: constants with assumptions, one action per
operation, no recursive operator.

| Step | Module | What | Composes | Theorems |
|---|---|---|---|---|
| done | `Loader` | next_document and libyaml's streams | | types; alias ids in bounds; aliases find definitions; documents are whole and end at boundaries |
| done | `DocIterator` | abstract: what iterating promises | | |
| done | `DocStream` | entry points | `Loader`, implements `DocIterator` | types; the loader's theorems carry over; a success covers the stream; every step is the iterator's |
| done | `Budget` | the pre-scan | | types; accepted is within; ratio; breach is first |
| done | `EventDe` | the event deserializer over the loader's documents: recursion limit, jumps, `enum_depth`, duplicate keys | documents as `Loader` makes them | types; checked depth bounded; work bounded; one node is read; tags; keys; recursion errors |
| done | `Serializer` | serializer, its registry, anchors, tags | emitter as an external acceptor of well-nested events | types; depth is nesting; no alias without an anchor; the registry agrees; events are well nested; values are documents; anchors and tags go to their nodes |
| done | `Value`, `EventTree`, `ParseValue` | trees; which events are a node; `parse_value`, the recursion of `from_str_value_preserve` | documents as `Loader` makes them | types; no pair is lost; aliases resolve; values are their documents; failures have reasons |
| done | `ValueOps`, `ReadValue` | `resolve_aliases`, `apply_merge`, and reading a `Value` both ways | `ParseValue` | |
| done | `ValueMap`, `SerializeMap` | a map that is serialized into a `Value` | | pairs are kept; tagged values stand alone |
| done | `ValueSer`, `ValueDe`, `ValueRefDe`, `ValueSerde` | `to_value`, `from_value` and reading by reference, for data of all kinds of types | `ValueMap` | |
| done | `ValueUse` | a `Value` in use, made by either of the two above | `ValueSerde`, `SerializeMap` | |
| done | `Registries` | several serializers on one thread, and the stack they share | | aliases follow anchors while serializers are nested |
| then | `Emitter` | the write handler and its sticky error | `Serializer` | |

`ValueOps`, `ReadValue`, `ValueUse` and `ValueSer` to `ValueSerde` go through trees with
RECURSIVE operators and are left to TLC; `ParseValue`, `ValueMap`, `SerializeMap` and
`Registries` are written without any, so that they can be proved about.

## 3. The modules

### Loader

`source` is libyaml: a generator of every well-nested stream of events over the names
`Anchors`, which may fail before any event. It is external, and modelled by what the
loader relies on: `ParseError` is a failure in libyaml (scanner, parser, or the read
handler), after which libyaml answers every call with an error; `ConvertError` is a
failure of `convert_event`, which happens after libyaml has consumed the event. Marks,
tags, styles and the bytes of scalars are left out: the loader copies them.

| Model | Code |
|---|---|
| `parser`, `documentCount` | `Loader::parser` (an `Option`), `Loader::document_count` |
| `first`, `anchors`, `document` | the locals of `next_document` |
| `seen` | the local that decides what an error means |
| `call` | whether a call is in progress |
| `CallExhausted`, `CallNextDocument` | the head of `next_document` |
| `ErrorArm` | the arm of `Err` |
| `Skip`, `EndStream`, `EndDocument`, `LoadAlias`, `UnknownAlias`, `LoadNode`, `LoadEnd` | the arms of the match |
| `whole`, and the name kept in an alias event | history, read by properties only |

Positions are 0-based in `document`, as in the code, and 1-based in TLA+ sequences:
`Target` adds one.

### DocStream and DocIterator

`DocStream` steps the loader from the entry point that holds it: `mode` says whether that
is a `for` loop over `StreamDeserializer`, a `from_*_multi` function (which stops at the
first error) or a `from_*` function (`Deserializer::de`). The visitor is the user's: it
may fail on any document and may succeed on any document that holds a node. `DocIterator`
is the abstract specification of the iterator: values and errors until it is exhausted for
good, or an error for ever when the input cannot be opened. `DocStream` is shown to
implement it by the refinement mapping `Items`.

### Budget

`check_yaml_budget` counts the events of a second parser, saphyr. The model assumes
nothing of saphyr: any sequence of events, balanced or not, with a failure after any of
them. `Checks` is the order in which an arm of the match compares counters, `Breach` stops
at the first excess and leaves the rest of the arm undone. `usize` has `MaxUsize` as its
largest value; the saturating addition and the multiplication that wraps are modelled at
that width.

### EventDe

The deserializer of events is a recursion of methods, visitors and access objects. The model
is the same recursion with an explicit stack: a frame is a call on one node, its `wants` is
the method that was called, and which node is asked to be what next is chosen from
`Requests`, as serde leaves it to the user's types. `Visitors` are the sets of requests that
the types in use may make; a behaviour picks one of them together with its options.
Documents are those that the loader makes: well nested or cut off by an error, with alias
ids that lead to the starts of nodes (`LoaderProofs`), be it a node that is still open, and
with ends that are of the kind of the collection they end (`EndsMatch`, libyaml's doing).

| Model | Code |
|---|---|
| `pos` | `pos` of the innermost `DeserializerFromEvents`; those of its callers are the same place, or are kept in the frame of a jump |
| `remaining`, `de` of a frame | `remaining_depth` of each `DeserializerFromEvents`; `CallFresh` and `FollowAlias` make a new one, keys and options share the caller's |
| `jumpcount`, `enumDepth` | the counters that all of them share |
| `keys` | `MapAccess::seen` |
| `FollowAlias`, `JumpBack` | `jump`, and the return from the call on the deserializer it made |
| `ReadSequence`, `ReadMapping`, `NextElement`, `NextKey`, `NextValue`, `EndCollection` | `visit_sequence`, `visit_mapping`, `SeqAccess`, `MapAccess`, `end_sequence`, `end_mapping` |
| `ReadTag`, `OpenVariant`, `EndVariant` | `EnumAccess` over a tag, and over a mapping of one entry |
| `Ignore`, `SkipPair` | `ignore_any` |
| `Refuse` | every error that is not told apart: of a visitor, of a type, of the end of the events |
| `start`, `depth`, `enums`, `given`, `reads` | history, read by properties only |

A visitor is taken to keep serde's contract: it passes errors on, asks for a value after
every key, and reads the variant it is given. What remains to it is what to ask for, and to
fail. A mutable borrow in the code is a frame in the model: only the innermost call runs.

### Serializer

A value serializes itself by calling methods of the serializer, which call back other
values. The model has these calls on an explicit stack, as `EventDe` has: a `node` is a
value about to choose one of the `Methods`, other frames are the compound serializers and
the wrappers (`anchor`, `flowSeq`, `flowMap`) that wait for a value in them. The caller
serializes values one after the other with one serializer and goes on after an error, as
`Serializer`'s documentation lets it; an error leaves all calls at once.

libyaml's emitter is external: an acceptor of well-nested events that keeps what it expects
at each level (`open`) and the nodes of the current document (`out`). The real one looks
up to three events ahead before it complains; the model's complains at once.

| Model | Code |
|---|---|
| `ser.depth`, `.state`, `.tag`, `.pending`, `.anchors` | `Serializer::depth`, `state` and the tag in it, `pending_anchor`, `anchors` |
| `ser.flowSeq`, `.flowMap` | `next_sequence_style`, `next_mapping_style` |
| `ser.names`, `.counter`; `AnchorName` | the `AnchorRegistry` of the serializer, and `anchor_name_fn` |
| `ser.open`, `.out`, `.failed` | the emitter |
| `ValueStart`, `ValueEnd`, `FlushMappingStart`, `Emit…` | the methods of those names |
| `SerializeScalar` … `SerializeFlow` | the methods of `ser::Serializer`; `SerializeRc` is `serialize_anchor_value`, `SerializeTagged` is `TaggedValue::serialize` |
| `NextElement` … `EndFlow` | the methods of the compound serializers, and what follows a call-back |
| `Fail` | every error of a `Serialize`, the refusals of `AnchorHelper` and `AliasHelper` included |
| `twisted`, `covered`, `floor`, `start` and `late` of a frame | history, read by properties only |

A map with a length of one has one entry, as serde asks; a map of another length may have
any number. `twisted` and `covered` mark the two known divergences below, so that the
properties say what holds apart from them. `floor` and `start` are the depth and the number
of events of the document when a call began, `late` is an anchor that was given while the
start of its mapping was put off: `AnchorsOnTheirNodes` and `TagsOnTheirNodes` say with them
that the events since then are one node, complete at the same depth, with the anchor or tag
on its first event.

### Value, EventTree, ParseValue

A value is a tree of nodes with a kind, a text, an anchor and entries; the pairs of a
mapping are in the order of its `IndexMap`, elements have `NoKey` in the place of a key.
Which number, boolean or string a text is, is left to the constant `NonStrings`.

`parse_value` reads the first document into a `Value`, anchors and aliases kept. Its
recursion is a stack of frames, one for each collection that is not complete. A frame has
the pairs so far (`elements`, `mapping`), the key that waits for its value (the local
`key`) and the keys of `first_marks` (`seen`). `Return` is a return of `parse_value` into
the loop of the call around it, the duplicate check of that loop included.

`EventTree` says of a document's events which of them are one node (`OneNode`), which nodes
are directly in a collection (`Children`) and which of those are keys, by counting the
starts and ends between two positions. `ParseAssumption` says with it what `parse_value`
may rely on: libyaml's events are well nested (`WellNested`, from the source of `Loader`),
and a document without an error is one node (`Whole`, which `DocumentsAreWhole` proves of
the loader). TLC evaluates it for every document of the run.

`ReadsItsDocument` is what `parse_value` promises, without a recursive operator: there is
a set of readings, "the events i to j are the value v", each of which is made of others
about shorter parts, and one of them is of the whole document and the value returned. Since
the parts get shorter, the events determine the value.

### ValueOps and ReadValue

| Model | Code |
|---|---|
| `Anchored`, `Definition` | `collect_anchors` and its map: the last insertion counts |
| `Resolve`, `Cloned`, `Stripped` | `resolve`, the clone it puts in an alias's place, `strip_anchors` |
| `Identified`, `id` of a mapping | `Mapping::id`, a fresh one from a counter at each `new` and `clone`; here the place in the tree where that happened |
| `MergeLoop`, `ExpandMergeKey`, `Merged`, `MergeElement` | `apply_merge`: its stack of nodes, `visited`, and the match on the value under `<<` |
| `SwapRemove`, `OrInsert` | `Mapping::remove`, `Entry::or_insert` |
| `ReadNode`, `ReadPairs`, `ReadElements` | `Value::deserialize` over `DeserializerFromEvents`: `ValueVisitor`, `MapAccess` with its strategy, and the visitor of `Mapping` |
| `Parse`, `CallResolve`, `CallMerge` of `ReadValue` | `from_str_value_preserve`, then `resolve_aliases` and `apply_merge` in any order; `from_str_value` is one of each |
| `Read` of `ReadValue` | `from_str` with `T = Value`, and `StreamDeserializer` with options |

Operations that may fail return the value as it then is and the error: both work in place.

### ValueMap and SerializeMap

`ValueMap` has the three states of `value::ser::SerializeMap` and its methods as operators
from a state to the next one and an error; `SerializeMap` is whoever calls them, in any
order and again after errors. `ValueSer` uses the same operators for the calls that
serde's own maps make.

`ValueUse` puts them next to the readers below: a `Value` is made by `to_value`, is given,
or is what `end` of a map filled by hand returned, and is then read. Its action `FillMap` is
`MapNext` with more said about the `Value`, so that the theorems about `MapSpec` speak of
its maps as well.

### ValueSer, ValueDe, ValueRefDe and ValueSerde

A type says which method of a serializer or deserializer its implementation calls; a datum
is a tree of the same shape. `ValueSer` is `to_value`, one case for each method of
`value::Serializer`. `ValueDe` and `ValueRefDe` are the two implementations of
`Deserializer` in `value/de.rs`, by value and by reference: each method as the call of the
visitor that it makes, or a refusal. `ValueSerde` has the visitors (those of `serde`, of
what it derives, and of `Value` itself, the first two external), and a state machine of
three calls: `to_value`, `deserialize` (by reference) and `from_value`.

### Registries

The thread-local stack `ANCHOR_REGISTRY` with any number of serializers, which are built,
used and dropped in any order. `to_value` of an `RcAnchor` while a serializer is alive is
`TakeName`: it takes a name that no document defines. `strayed` is history: whether a
serializer that is not the newest was used or dropped, or `to_value` took a name. It does
not happen to serializers in nested scopes. `Serializer` has one registry and looks at what
a single serializer makes of it; `Registries` leaves that out and has several.

## 4. The runs

| Run | Question | Bounds, and why they are enough |
|---|---|---|
| `MCDocStream` | Are documents whole, does an error-free call end at a boundary, does success mean that the whole stream was read, does an alias find its definition, does the iterator implement `DocIterator` and end? | all three modes, both inputs, two documents and four nodes in them, failures of each kind everywhere. One anchor name: enough to define it twice and alias it before and after; several names are the business of the theorem `AliasesFindDefinitions`. Scalars and mappings: `LoadNode` and `LoadEnd` do for sequences what they do for mappings |
| `MCDocStreamReadError` | (violated) are reader errors reported? | two documents |
| `MCBudget` | Is what is accepted within the budget, is the first breach reported? | five events, budgets tight in several limits at once, `usize` of three bits |
| `MCEventDe` | Do the calls that check the depth stay within the limit, and the work? Does each call read one node, is a tag used once, is each enum closed, is the recursion limit reported where it is, does the visitor get the keys that the strategy leaves? | documents of six events with two collections, a value and an alias, cyclic ones and documents cut off anywhere included, limits of one and two levels, two jumps or as many as events, visitors that ask for anything, newtypes, enums or to ignore a node; and documents of five events with tags and nulls, two or three pairs with keys of two texts and an alias, nested mappings as values, three strategies, with and without a limit, visitors that leave tags to `deserialize_any` |
| `MCEventDeTagLost` | (violated) does `deserialize_any` see every tag? | the second of these families |
| `MCEventDeEnumNest` | (violated) is `recursion_limit` the largest depth of an enum? | the first of these families, a limit of one level |
| `MCReadValue` | Is a value its document? Are aliases copies, merges by precedence, duplicates treated as the strategy says? Do the two ways agree? | lists of two nodes out of some thirty and of three out of ten, with anchors and aliases on themselves, on each other and in keys, tags and every kind of duplicate key; two anchored sources with every form of merge key, in a mapping with pairs before and behind it; every document broken off anywhere; two calls, in either order |
| `MCReadValueLastWins` | (violated) does a `Value` take the last of two equal keys under `LastWins`? | as `MCReadValue` |
| `MCSerializer` | Do depth, anchors, registry and emitter agree across documents and errors? Do anchors and tags get to their nodes? | four nodes and entries in all documents together, each in any of the fifteen methods, aliases checked or not: two documents of two nodes, or a value three levels deep under an anchor, a tag or a style |
| `MCSerializerClones` | (violated) are clones of an `Rc` aliases? | two pointers, six nodes |
| `MCRegistries` | Do serializers of one thread keep out of each other's anchors? | two serializers, three pointers and names, without a bound on steps: serializers are built again after they are dropped |
| `MCValueSerde` | Does a datum survive `to_value` and back? Do the two deserializers agree? Does a map keep its pairs, and when is it a tag? | every kind of type, in one and two wrappings, with the texts that matter (empty, with a bang, beyond 64 bits); some thousand values against thirty types; maps filled by four calls, with three keys of which two are tags, and failing keys and values: CheckForTag to Tagged to Untagged and one more |

Runs whose system stops turn the deadlock check off: `check_yaml_budget` returns, so do the
call on a document's root and `parse_value`, and nodes to serialize, calls of a user and
calls of a map run out. Every frame of `EventDe` counts the enums it goes through up
to `MaxEnums`: a visitor could ask for an enum at the same tag for ever. In `DocStream` a
function that has returned is the explicit stutter `Finished`; whoever iterates can always
call again.

**Fairness.** `StreamSpec` says that the entry points run to their end and that whoever
iterates goes on, as `for` does. All of it is sequential code with no wait in it. Nothing
is assumed of libyaml but a finite stream; in particular, no error has to happen. That the
iterator then ends rests on the loader dropping its parser after an error: the mutant of
`ImplementsIterator` is a loader that keeps it and returns libyaml's error for ever.

**Findings.** The five runs that end in a violation are divergences of the code from what
the repository says of it; `PROJECT.json` quotes the lines. Smaller ones that the models
show as well, without a run of their own:

Reading streams and documents:

* After an error that libyaml does not repeat (an unknown anchor, an event that does not
  convert) the parser stays in the middle of the document, and the next item of
  `StreamDeserializer` is made of the rest of it (`loader.rs:134`, against `de.rs:2390`).
  `SuccessOfWholeDocuments` says that `from_*` and `from_*_multi` never do that.
* `from_multiple` makes a value of a stream without documents, which `de.rs:2415` says are
  ignored.
* With `alias_anchor_min_aliases = 0` a text without anchors breaches the ratio without a
  single alias (`budget.rs:348`, against `budget.rs:59`), and the report of a breach found
  in the loop says 0 anchors (`budget.rs:344`, against `budget.rs:162`).
* An alias after a second override leads to an earlier definition than the last one:
  `anchors.len()` (`loader.rs:143`) lags behind `aliases`, so that `&x [&x 1, &x 2, *x]`
  reads the alias as 1, against "Map from alias id to index in events" (`loader.rs:22`).
* Keys share the mapping's deserializer (`de.rs:1059`), so that a key that is a collection
  takes a level of `remaining_depth` away for good: a flat mapping with as many such keys
  as the limit runs into it, against "Maximum depth" (`de.rs:77`).
* A key written as an alias is never a duplicate for `MapAccess` (`de.rs:1056`, against
  `de.rs:41`); `MapAccess` compares the texts of scalars, so that `{1: a, "1": b}` is one
  (`de.rs:1056`).
* `parse_value` (`de.rs:860`) has no `recursion_check` either: `MCEventDeEnumNest` has the
  enums written as mappings (`de.rs:2180`), which nest to any depth. `CheckedDepthBounded`
  speaks of the calls that do have one.
* A repeated key that is an alias is not left out under `FirstWins`, but refused by the
  visitor of `Mapping` (`mapping.rs:864`), as all repeated keys are under `LastWins`
  (`MCReadValueLastWins`). `DuplicatesByStrategy` has documents without aliases there.

Values:

* A mapping that a merge brings in with a merge key of its own keeps it: the loop goes on
  with the values of a mapping, not with the mapping (`value/mod.rs:792`), against
  "YAML merge keys are resolved automatically" in the documentation of `from_str`.
* `resolve_aliases` goes into values of mappings only; an alias that is a key stays
  (`resolve_aliases.rs:77`), and so does an anchor in a key of a copy.
* The map of anchors has the last definition of a name, also for the aliases before it
  (`resolve_aliases.rs:24`), whereas `from_str` finds the one in force (`loader.rs:143`).
* After an error `apply_merge` has removed the merge key already (`value/mod.rs:762`): the
  same call then succeeds, without the merge.
* Keys are equal with their anchors: `&x a` and `a` are two keys to `parse_value` and one
  key to `from_str`.
* `parse_value` does not look at tags, and reads an empty plain scalar as an empty string
  (`de.rs:1295`); `from_str` reads a null.
* Apart from these (`Comparable`), `from_str_value` and `from_str` agree.
* What `to_value` and `from_value` do not give back, which `RoundTrip` has exactly: an
  optional that holds what looks like a null; integers that 64 bits cannot hold, which
  become strings; tuple variants without fields; variants that hold something and whose
  name is empty or starts with a bang; maps of one pair whose key is shown as a tag, which
  become tagged values; values with anchors and aliases, as `value::Serializer` does not
  know the newtypes that carry them (`value/ser.rs:196`): an anchored value becomes a pair
  and an alias a string.
* `serialize_entry` of a tagged value loses its first value if the second pair fails
  (`value/ser.rs:830`), which is the exception `lost` of `MapKeepsPairs`; and a key without
  a value is dropped by `end` without an error.

Serializing:

* A value that fails leaves depth, state and pending anchor as they are, and the next value
  of the same serializer becomes a part of the document that was abandoned.
* A `TaggedValue` directly in a `TaggedValue` takes over the state of the outer one
  (`ser.rs:1013`), and the anchor of a one-entry mapping's key is given to the mapping,
  whose start comes when its key is emitted.
* An alias under an anchor leaves the anchor pending for the next node (`ser.rs:623`).
* A map of one entry, or a `TaggedValue`, that is the key of a map of one entry takes over
  its `CheckForTag` (`ser.rs:1173`): the start of the outer mapping is never emitted, its end
  is refused, and serialization fails although no `Serialize` did (`ser.rs:1836`).
* Two serializers that are alive at once use the registry of the newer one, generator
  included, and dropping either pops the newer's (`ser.rs:162`, `ser.rs:144`), against
  "the anchor name generator used by the serializer" (`ser.rs:436`). `to_value` within the
  `Serialize` of another serializer's value takes names from its registry. Both are what
  `strayed` excludes.
* An `Rc` is known by its address (`ser.rs:94`): one that was dropped within a document can
  make another value an alias of it. No model frees a pointer.

## 5. The proofs

| Theorem | Module | Says, for all constants |
|---|---|---|
| `TypeCorrect` | `LoaderProofs` | the state of loader and parser is well-typed |
| `AliasesStayInBounds` | `LoaderProofs` | an alias id indexes the alias map, which leads back to an anchored node |
| `AliasesFindDefinitions` | `LoaderProofs` | an alias leads to the definition in force if nothing was overridden before it |
| `DocumentsAreWhole` | `LoaderProofs` | a document without an error is one node and its end mark, or the Void of an empty stream |
| `DocumentsEndAtBoundaries` | `LoaderProofs` | after it, libyaml is between two documents |
| `StreamDrivesLoader` | `DocStreamProofs` | in the composition the loader keeps its specification, so all of the above holds |
| `StreamDocuments` | `DocStreamProofs` | the documents that the entry points get are whole, end at boundaries, and their aliases lead to the definitions in force |
| `StreamTypeCorrect` | `DocStreamProofs` | the entry points are well-typed |
| `SuccessesCoverStreams` | `DocStreamProofs` | a success has as many values as the stream has documents, and leaves only what is behind an error between documents |
| `SuccessesAreOfWholeDocuments` | `DocStreamProofs` | no success holds a value made of the rest of a failed document |
| `StreamIsIterator` | `DocStreamProofs` | every behaviour is one of `DocIterator`, liveness apart |
| `BudgetTypeCorrect` | `BudgetProofs` | the counters are well-typed, the depth is never negative |
| `AcceptedWithinBudget` | `BudgetProofs` | accepted streams respect every limit |
| `AcceptedRespectsRatio` | `BudgetProofs` | and the ratio, even where its product wraps |
| `ReportsFirstBreach` | `BudgetProofs` | the reported limit is the first that the events exceed |
| `EventDeTypeCorrect` | `EventDeProofs` | every call has a deserializer that still exists, and no caller a newer one than its callee |
| `CheckedNestingBounded` | `EventDeProofs` | sequences and mappings read as such, and newtypes, are nested no deeper than `recursion_limit`, through aliases and tags too; the mappings of enums, which make no check, are not counted |
| `WorkIsBounded` | `EventDeProofs` | the events read are at most one document's per jump, and jumps are limited |
| `ReadsWholeNodes` | `EventDeProofs` | a call that returns has read exactly its node |
| `EnumsAreClosed`, `TagsAreUsedOnce` | `EventDeProofs` | unless visitors ask for enums themselves, `enum_depth` is given back and a tag is used once |
| `KeysAreGiven` | `EventDeProofs` | a mapping gives its visitor the keys that the strategy leaves over |
| `RecursionErrorsAreDeep` | `EventDeProofs` | with plain keys and without newtypes, the error of the limit comes at the limit |
| `SerializerTypeCorrect` | `SerializerProofs` | the serializer, its calls and the registry are well-typed, depth is never negative |
| `DepthCountsNesting` | `SerializerProofs` | depth counts the open collections, and is zero exactly between documents |
| `CheckedAliasesFollow` | `SerializerProofs` | a checked alias follows its anchor in its document |
| `RegistryKept` | `SerializerProofs` | what the registry knows is in the document or pending, unless an anchor was covered |
| `EmitterIsContent` | `SerializerProofs` | the emitter refuses no event, unless a map took a key's place |
| `ValuesBecomeDocuments` | `SerializerProofs` | a value that was serialized is a document, and leaves nothing behind |
| `AnchorsGoToTheirNodes` | `SerializerProofs` | a value under an anchor becomes one whole node, which takes the anchor, but for aliases, anchors of its own and keys put off |
| `TagsGoToTheirNodes` | `SerializerProofs` | a tagged value becomes one whole node, which takes the tag, but for aliases |
| `ParseTypes` | `ParseValueProofs` | `parse_value` stays within the events and is well-typed |
| `NoPairIsLost` | `ParseValueProofs` | no pair of a mapping overwrites another, in any call in progress |
| `AliasesAlwaysResolve` | `ParseValueProofs` | given the loader's alias ids, `UnresolvedAlias` cannot happen |
| `ValuesAreTheirDocuments` | `ParseValueProofs` | what `parse_value` returns is the value of its document, every event read once and in its place |
| `FailuresHaveReasons` | `ParseValueProofs` | it fails only on a document cut off or on a key that is there twice; no end comes unexpectedly |
| `PairsAreKept` | `SerializeMapProofs` | a map keeps the pairs that it accepted, each key's last value |
| `TaggedAlone` | `SerializeMapProofs` | a tagged value stands for the only pair |
| `OwnRegistries` | `RegistriesProofs` | aliases follow anchors, and anchors are distinct, however many serializers are nested |

Assumptions are those of the constants (`ConstantsAssumption`, `BudgetAssumption`,
`EventDeAssumption`, `SerializerAssumption`, `ParseAssumption`, `MapAssumption`,
`RegistriesAssumption`), and, for the alias theorems, that there are finitely many names.
Three properties of `EventDe` are about visitors that do not ask for enums or newtypes;
their paragraphs say why.

*Loader.* `AliasesInBounds` is not inductive: an alias takes its id from `anchors`, so
`NamesInBounds` bounds those ids by the length of `aliases` and `AliasMapSound` says where
each entry of `aliases` leads. The id given to a node is the *number of names*; that it is
a valid index needs that there are at most as many names as definitions, which is a conjunct
of `NamesInBounds`; that it is the index of the definition just pushed needs that there
are exactly as many, `CountsAgree`, true until the first override. `IdsFindDefinition` is
the invariant that follows for the names.

That documents are whole is about the loader and libyaml together: `EventsFollowStack` has the
events of a call in step with libyaml's stack of open collections. Within the root as many
starts have no end as collections are open, and no shorter prefix is balanced; after it
there is one node. `CallFresh` is what a running call knows of the rest: that it has not
failed, and that an empty stack means that nothing was collected. The lemmas that count
starts and ends of an appended event carry both through the arms of the match.

*Entry points.* `StreamStepLoads` says that every step of `DocStream` is one of the loader
or leaves it alone, by which the loader's theorems hold in the composition. `CallsInOrder` and
`ItemsInOrder` say who may be asked what in which step of an entry point; with them each
action maps to the action of `DocIterator`, or to a stutter. A success covers the stream
because of `NothingSkipped`, which compares the number of values with that of documents at
every point of a call: one less while a document is loaded (`RunningCounts`), none or one
less once the loader has returned (`ReturnedCounts`). It speaks of the functions that stop
at the first error; whoever iterates on after one gets the rest of a document.

*Budget.* The counters agree with amounts computed from the history of events
(`CountsStep`); what is accepted was within all limits at each event, and the depth after
each prefix is the difference of starts and ends. The ratio follows because reducing
modulo the width of `usize` can only make the product smaller, and so the check stricter.
A reported breach is the first because the counters were within the limits before its event
(`NoExcess`), and the arm of that event has not gone on after it.

*Event deserializer.* `Sound` (its part `Bounded`) has of each frame that its depth and the depth that
remains to *its* deserializer stay within the limit, and is inductive together with
`Stacked`: deserializers grow with the stack, so that those that a return drops belong to no
frame left. The lemmas `Shortened`, `Pushed`, `Widened`, `Narrowed` and `Lowered` are the
five changes that a stack and its depths undergo; every action is a composition of them.
`NestInv` compares that depth, a history of the checks, with what is seen to be open: the
frames of sequences and mappings up to a call are no more than the checks it has passed.
That ignoring a node leaves the position a natural number needs that a set of naturals has
a least element, `LeastElement`, which follows from the well-foundedness of `<`.

`WorkBounded` needs to know what the callers of an alias may still read when a jump returns.
`Owes` is that amount for one call, and `Affordable` says that there are amounts, growing with
the stack, that cover what all calls owe (`Covers`) and that with the events read and the
rest of the document stay within one document for each jump and one more. The amounts are
a sequence that is asserted to exist, not a recursive sum: a push appends to it, a return
drops its last.

`NodeInv` says where each call stands: a caller's callee is at a position that is a child's
of the caller's node (`Within`: inside it, one level down, no end in between), or at the
target of its alias. That the innermost call then returns behind its own node, and behind no
other, are lemmas about the difference of starts and ends between two positions (`Level`)
and about the first end of a node.

`TagInv`: `enum_depth` is 0 or 1, it is 1 only from a tag to the first scalar or end of what
is under it, and then an enum in progress accounts for it. This is so for visitors that
leave tags to `deserialize_any`, `"enum" \notin Requests`, which is the antecedent of
`EnumsClosed` and `TagUsedOnce`. A type that asks for an enum itself may ask again for the
content of one, at the same tag: `enum_depth` is then 2 while one scalar takes one away, and
TLC finds both properties violated at once without that antecedent.

`KeyInv`: a mapping that waits for a key has an even number of children behind it, one that
waits for a value an odd one, its visitor was given the wanted keys among them, and
`MapAccess::seen` holds the texts of their scalars. That a mapping's end is not taken for a
sequence's, and its children for another's, is `EndsMatch`. It holds for every strategy and
whatever visitors ask for.

`DeepInv`: what a call's deserializer has left and the depth of the call are the limit,
exactly, where `CheckedDepthBounded` has that they are at most that. It fails where
`recursion_check` is called on the caller's own deserializer: for newtypes and for keys that
are collections, both of which `RecursionErrorIsDeep` excludes (`"newtype" \notin Requests`,
`PlainKeys`). A newtype that is a key, say, lowers the depth of the mapping that it is in.
It needs `KeyInv` to know that what is read as a key is one.

*Serializer.* The inductive invariant is a module of its own, `SerializerInvariant`: `CallsOK`
and `Histories`, then `RegistryOK`, `ShapeOK` and `MarksOK`, each proved with the help of those
before it. Between two calls the serializer is `Resting`; from `value_start` to
`value_end` of a leaf, or to its event of a collection, it is `Within` a node, with one
more counted. Each method is a path between the two (`ValueStartWithin`, `LeafWithin`,
`StartRests`, `EndWithin`, `ValueEndRests`). That an alias follows its anchor needs that every
name in `anchors` is in the document, `AnchorsSound`, and that a pending name is taken
only once its node was emitted (`Carries`); that nothing of it survives a document's end
is what `Reset` is for. `Rooted` says that the lowest level is the root of the document,
without which the end of a collection could close it. A name goes from pending to the
anchors of the document with the node that takes it, so that the registry stays in one of
the two (`Registered`); an anchor that covers a pending one is what `covered` is about.

That the emitter refuses nothing is an invariant of the whole stack of calls. `Levels` are
what the emitter expects at each open level, and `Fits` says that the calls account for them:
there are heights and states for the calls, from the caller's up, such that each call's
compound serializer stands at its level and expects there what the call is about to emit;
the state machine for tags (`CheckForTag`, `FoundTag`) is what the innermost calls
have left open. The invariant gives way only when a map takes the state of a mapping whose
key it is (`twisted`), and an error may leave any levels, but whole ones. `ValuesAreDocuments`
is what remains of `Fits` when no call is left and nothing has failed.

That anchors and tags get to their nodes rests on `Fits` and on the history of each call. A
call is `Marked` if it answers for a mark: an anchor that is not `late`, or the map of a
tagged value. `Placed` has of such a call that its `floor` is the level at which `Fits` puts
it, so that what it serializes begins and ends there. `Early` has of the key of a one-entry
map, while it may still be a tag, that it is not the node of a marked call: the start of the
mapping, which is then put off, would be emitted in the place of that node. `Marks` is the
invariant on top of both. Each call that is `Watched` either waits for its node, with
nothing written since it began (`Ahead`) and the anchor pending or the tag found (`Due`), or
its node has begun with the mark and no shorter part of the events since is balanced
(`Came`); which of the two is told by the depth and by whether a node is `Sought`: a value is about to
serialize itself, or the search for a tag is still open. `TagOK` follows the map of a tagged value
until its tag is found. A node may begin in a call that is `Fair`, at no lesser depth than
its floor, and leaves it `Done`. How an event changes the difference of starts and ends is
counted with `Level`, on cardinalities of sets of positions, as no recursion could be. When
a call returns at its floor, the level is zero for the first time, and what it wrote is one
whole node (`CameWhole`). Without the floors this is not inductive: that a node ends where
its call began could not be told from its ending inside another.

*parse_value.* `ParseAssumption` has of documents what `AliasesStayInBounds` and
`DocumentsAreWhole` prove of the loader, and that libyaml nests its events. The keys of a
frame are those of its pairs and the one that waits, and `first_marks` is the same set
(`FrameOK`); that `NoKey` is no key, without which a key that waits could not be told from
none, is the strengthening. A complete node is never `NoKey`, because every return makes one
of another kind.

`ReadInv` says what the calls in progress have read, the last two theorems rest on it. There
is a set of readings that is closed, each made of others in it, and the calls have begun at
places `at` of the document, the k-th one k collections deep (`CallsRead`). What a frame
has is read from behind its start up to the place where the next call begins
(`FrameReads`): its elements or pairs lie side by side, a key that waits lies behind them,
the number of its `Children` so far is even exactly when none waits, and every key in
`first_marks` has a reading at a place where the document has a key of this mapping.
A node that is complete is one more reading, made of those in the set
(`OneMoreReading`), so that no induction over the value is needed: each step adds one level.
An end comes at the depth of the innermost call and its collection is then one node, so that
`WellNested` says which end it is, and that no key waits (`EndIsAwaited`): the arms of
`parse_value` for other ends, and `EndOfStream`, are out of reach. Two values that are equal
while the first is a scalar come from the same scalar, or an alias of it
(`SameValueSameScalar`), which is the reason for a `DuplicateKey`.

*SerializeMap.* The invariant knows of each state what it carries (`StateOK`): a
`CheckForTag` has accepted nothing, a `Tagged` exactly one pair. `AreThose`, that the pairs
of the map are those accepted with each key's last value, is kept by `Insert`
(one lemma for a new key, one for one that is there) and by the passage from a tagged value
to the pair it stands for.

*Registries.* While nothing has strayed, stack and serializers alive have the same length
and order, the registry of each has its generator, and its names are those written in its
document (`Agrees`). That two pointers of one registry have different names (`Sound`) holds
whatever strays, and that they have in the document follows.

**Only model-checked**: the liveness of `ImplementsIterator`, because it rests on fairness,
which TLAPS does not reason about here; and what `ReadValue` and `ValueSerde` say
(`ValueIsDocument`, `DuplicatesByStrategy`, `AliasesAreCopies`, `MergeByPrecedence`,
`PathsAgree`, `RoundTrip`, `OwnedAndBorrowedAgree`), because it is about recursive operators
over trees, whose induction is beyond the provers. `ValueIsDocument` writes the value out as
events again, recursively; `ReadsItsDocument` is the same claim without recursion, and
proved.

## 6. What is not modelled

The components table of `PROJECT.json` says so part by part. Inside the modules:

* `YamlEvent::Void` in the loader: libyaml's wrapper never returns it for a text that
  starts a stream.
* The overflow check of `alias_limit` in `de`: it fails like any error of the visitor.
* `Progress::Iterable` and `Progress::Document` given to a single deserialization: they
  differ from the modelled cases only in where the document comes from.
* What scalars are resolved to: `parse_bool`, `visit_int`, `parse_f64` and `Number` are
  functions of the characters of one string, without state or order.
* The arms of `parse_value` for `FirstWins` and `LastWins`: its only caller uses the default
  options.
* In `ValueOps`, the limits of alias jumps and of depth, which `EventDe` has: an alias to a
  node that is still open fails at once.
* In `ValueSer` and its readers: `IgnoredAny`, errors of deserializing a prefix of a
  sequence, and which number type holds a number within 64 bits.
* In `Serializer`: texts and styles of scalars, writers that fail, `into_inner`; in
  `Registries`, what is written between anchors.
* `Mapping`'s other wrappers of `IndexMap`, `Value`'s indexing, comparison and conversions:
  functions of one value, and no more than calls of the standard library's.
* Marks, messages and paths of errors.

------------------------- MODULE SerializerInvariant -------------------------
(***************************************************************************)
(* The inductive invariant of Serializer, from which SerializerProofs      *)
(* proves its properties: CallsOK and Histories, RegistryOK, ShapeOK and   *)
(* MarksOK, and the notions that they and their lemmas are made of.        *)
(*                                                                         *)
(* Between two calls the serializer is `Resting`; when value_start has     *)
(* counted a node that is not complete yet it is `Within`.  `Fits` says    *)
(* which levels, which state and which names belong to which calls.        *)
(* `Marks` says of every anchor and tag in progress that its node is still *)
(* to come, and will take it, or has begun with it.                        *)
(***************************************************************************)
EXTENDS Serializer

-----------------------------------------------------------------------------
(* The serializer and its document, between two calls.                     *)

-----------------------------------------------------------------------------
(* The serializer and its document, between two calls.                     *)

\* The lowest level of an open document is its root.
Rooted(s) == s.open # <<>> => s.open[1] \in {"root", "done"}

\* Every alias that was checked comes after its anchor.
AliasesSound(s) ==
  s.check =>
    \A i \in 1 .. Len(s.out) :
      s.out[i].type = "Alias" => \E j \in 1 .. i - 1 :
        s.out[j].type # "Alias" /\ s.out[j].anchor = s.out[i].anchor

\* The anchors that aliases are checked against are in the document.
Defines(s, name) ==
  \E j \in 1 .. Len(s.out) : s.out[j].type # "Alias" /\ s.out[j].anchor = name
AnchorsSound(s) ==
  /\ s.open = <<>> => s.anchors = {}
  /\ \A name \in s.anchors : Defines(s, name)

Resting(s) ==
  /\ s \in Serializers
  /\ AliasesSound(s)
  /\ ~s.failed => /\ s.depth = 0 <=> s.open = <<>>
                  /\ s.open # <<>> => s.depth = Len(s.open) - 1
                  /\ Rooted(s)
                  /\ AnchorsSound(s)

Within(s) ==
  /\ s \in Serializers
  /\ AliasesSound(s)
  /\ ~s.failed => /\ s.open # <<>> /\ s.depth = Len(s.open)
                  /\ Rooted(s)
                  /\ AnchorsSound(s)

\* What emitting an event leaves alone.
SameBut(s, t) ==
  /\ t.state = s.state /\ t.tag = s.tag /\ t.pending = s.pending /\ t.anchors = s.anchors
  /\ t.names = s.names /\ t.check = s.check

\* What an event that is emitted does: the document has it, or the emitter fails.
Emitted(s, t, e) ==
  /\ SameBut(s, t)
  /\ e.type # "Alias" /\ ~t.failed => t.open # <<>> /\ Defines(t, e.anchor)

\* The names of aliases are checked, by emit_alias.
Allowed(s, e) == e.type = "Alias" /\ s.check => e.anchor \in s.anchors

\* A serializer is at rest, or within a node, as its document, depth and
\* anchors say.
SameDocument(s, t) ==
  /\ t.open = s.open /\ t.out = s.out /\ t.depth = s.depth /\ t.anchors = s.anchors
  /\ t.check = s.check /\ t.failed = s.failed

\* What is allowed of s is allowed of t.
Keeps(s, t) == t.check = s.check /\ s.anchors \subseteq t.anchors

\* Where a pending anchor is in the document it may be taken.
Carries(t) ==
  ~t.failed => t.open # <<>> /\ (t.pending # NoAnchor => Defines(t, t.pending))

\* The names that are registered are in the document, or pending for a node of it.
Registered(s) ==
  \A p \in DOMAIN s.names :
    s.names[p] # NoAnchor /\ s.names[p] \in s.anchors \cup {s.pending}

Kinds == {"node", "seq", "map", "struct", "variant", "anchor", "flowSeq", "flowMap"}
Failures == {"serialize", "anchor", "flow", "emitter"}

\* What every step keeps of the serializer, its calls and its errors.
CallsOK == Resting(ser) /\ stack \in Seq(Frames) /\ errors \subseteq Failures

\* The histories and the bound.
Histories == left \in Nat /\ twisted \in BOOLEAN /\ covered \in BOOLEAN

\* Unless an anchor was covered, all that is registered is or will be in the
\* document.
RegistryOK == ~covered => Registered(ser)

-----------------------------------------------------------------------------
(* The levels that are open, and the calls that account for them.  The     *)
(* root is done with as soon as a collection is open in it; `Levels` are   *)
(* those above it.                                                         *)
(*                                                                         *)
(* h[i] levels were open before the call i, and h[i + 1] are open in it.   *)
(* A map of one entry has opened none as long as it may be a tag, and none *)
(* at all when it is one.  m[i] is the innermost of the calls 1 .. i that  *)
(* is more than a wrapper of another value, or 0: it is the one that is    *)
(* concerned by the state of the search for tags.                          *)

Slots == {"item", "key", "value"}
Levels(s) == [k \in 1 .. s.depth |-> s.open[k + 1]]

\* A serializer at rest whose emitter has not failed, and will not fail for a node.
Sound(s) ==
  /\ Resting(s)
  /\ ~s.failed
  /\ s.open # <<>> => s.open[1] = "done"
  /\ Levels(s) \in Seq(Slots)

\* What a node does to the level it is in.
Turned(slot) == IF slot = "key" THEN "value" ELSE IF slot = "value" THEN "key" ELSE slot
Flip(L) == [k \in 1 .. Len(L) |-> IF k < Len(L) THEN L[k] ELSE Turned(L[k])]

\* What only the methods of FlowSeq and FlowMap set.
SameStyles(s, t) == t.flowSeq = s.flowSeq /\ t.flowMap = s.flowMap

\* A method leaves these levels and this state; it sets no style.
Effect(s, t, L, state) ==
  /\ Sound(t) /\ Levels(t) = L /\ t.state = state
  /\ t.flowSeq => s.flowSeq
  /\ t.flowMap => s.flowMap

\* A collection opens a level.
Opened(type) == IF type = "SequenceStart" THEN "item" ELSE "key"

Transparent == {"node", "anchor", "flowSeq", "flowMap"}
Inner == {"key", "value"}
StepsOf(kind) ==
  IF kind = "node" THEN {"open"}
  ELSE IF kind \in {"seq", "struct"} THEN {"open", "value"}
  ELSE IF kind = "map" THEN {"open", "key", "keyed", "value", "valued"}
  ELSE {"value", "done"}

CallOK(f) ==
  /\ f \in Frames
  /\ f.step \in StepsOf(f.kind)
  /\ f.ends = 2 => f.kind \in {"seq", "struct"}
  /\ f.kind = "map" /\ f.one /\ f.step # "open" => ~f.begun

\* A call waits for a value in it, unless it is the innermost one.
Steps(c) == \A i \in 1 .. Len(c) : i < Len(c) <=> c[i].step \in Inner

\* The innermost level of a call, before and after the node that it waits for.
Slot(f, stage) ==
  IF f.kind = "seq" THEN "item"
  ELSE IF \/ f.step \in {"open", "done", "valued"}
          \/ f.step = "key" /\ stage = "asked"
          \/ f.step = "value" /\ stage = "given"
    THEN "key" ELSE "value"

\* A map that may be a tag, and the key that may be it.
Undecided(f) == f.kind = "map" /\ ~f.begun /\ f.step \in {"open", "key", "keyed"}
Pending(f) == f.kind = "map" /\ f.step = "key"

\* Calls that answer for what becomes of an anchor or a tag: they know the depth
\* at which they began.
Marked(f) == (f.kind = "anchor" /\ ~f.late) \/ (f.kind = "map" /\ f.tag # NoTag)

\* The levels lo + 1 .. hi are those of f.
Placed(f, L, lo, hi, stage) ==
  /\ IF f.kind \in Transparent THEN hi = lo
     ELSE hi = lo + f.ends \/ (hi = lo /\ f.kind = "map" /\ f.one)
  /\ lo < hi => L[hi] = Slot(f, stage)
  /\ f.ends = 2 => L[lo + 1] = "key"
  /\ f.kind = "map" /\ f.step \in {"value", "valued"} => (f.tagged <=> lo = hi)
  /\ Marked(f) => f.floor = lo

Heights(L, c, h) ==
  /\ \A i \in 1 .. Len(c) + 1 : h[i] \in Nat
  /\ h[Len(c) + 1] = Len(L)
  /\ \A i, j \in 1 .. Len(c) + 1 : i <= j => h[i] <= h[j]

Heads(c, h, m) ==
  \A i \in 0 .. Len(c) :
    /\ m[i] \in 0 .. i
    /\ \A j \in m[i] + 1 .. i : c[j].kind \in Transparent
    /\ m[i] > 0 => c[m[i]].kind \notin Transparent
    /\ h[m[i] + 1] = h[i + 1]

\* The stage of a call of which the levels are not the innermost is "given".
StageAt(hi, top, stage) == IF hi < top THEN "given" ELSE stage

\* The levels are those of the calls.
Base(L, c, h, m, stage) ==
  /\ Heights(L, c, h)
  /\ Heads(c, h, m)
  /\ \A i \in 1 .. Len(c) :
       /\ CallOK(c[i])
       /\ Placed(c[i], L, h[i], h[i + 1], StageAt(h[i + 1], Len(L), stage))
       /\ Pending(c[i]) /\ h[i] = h[i + 1] => i = m[Len(c)]

\* The state when f may be a tag or is one, and when it is none.
TagState(state, f, top) ==
  \/ f.step = "open" /\ f.begun /\ state = "AlreadyTagged"
  \/ f.step = "open" /\ ~f.begun /\ state = "CheckForTag"
  \/ f.step = "key" /\ f.entry /\ top.kind = "node" /\ state = "CheckForTag"
  \/ f.step = "key" /\ f.entry /\ top.kind # "node" /\ state = "FoundTag"
  \/ f.step = "keyed" /\ f.entry /\ state = "FoundTag"
  \/ f.step \in {"value", "valued"} /\ state = "FoundTag"
  \/ f.step \in {"value", "valued"} /\ top.kind # "node" /\ state = "NothingInParticular"

OpenState(state, f, top) ==
  \/ state = "NothingInParticular"
  \/ /\ state = "CheckForDuplicateTag"
     /\ Undecided(f)
     /\ f.step = "open" \/ top.kind = "node"

HeadState(state, f, top, lo, hi) ==
  IF lo < hi THEN OpenState(state, f, top) ELSE TagState(state, f, top)

StateOK(state, c, h, k) ==
  IF k = 0 THEN state # "AlreadyTagged"
  ELSE HeadState(state, c[k], LastOf(c), h[k], h[k + 1])

\* The node that the levels wait for is still to come.
Asking(c) == c # <<>> /\ LastOf(c).kind = "node"

\* A key that may still be a tag is not the node of an anchor, except of a late one.
Early(state, c) ==
  state = "CheckForTag" /\ Asking(c) =>
    \A j \in 1 .. Len(c) : (\A l \in j .. Len(c) : c[l].kind \in Transparent) => ~Marked(c[j])

Emitting(c, h, k) == Asking(c) \/ (k > 0 /\ h[k] = h[k + 1] /\ Undecided(c[k]))
Stage(c, h, k) == IF Emitting(c, h, k) THEN "asked" ELSE "given"

\* As long as there was no error, nothing is open but for the calls.
Status(L, state, names, c, h, k, errs) ==
  /\ StateOK(state, c, h, k)
  /\ errs = {} => /\ h[1] = 0
                  /\ k = 0 => state = "NothingInParticular"
                  /\ L = <<>> /\ ~Emitting(c, h, k) => names = NoNames

\* The levels, the state and the names fit the calls, the innermost of which runs.
Fits(L, state, names, c, errs) ==
  /\ c \in Seq(Frames)
  /\ Steps(c)
  /\ \E h, m : /\ Base(L, c, h, m, Stage(c, h, m[Len(c)]))
               /\ Status(L, state, names, c, h, m[Len(c)], errs)

\* Another innermost call, with other levels of its own.
Changes(r, n, f, L, h, m, stage, g, L1, lo, hi, stage1) ==
  /\ r \in Seq(Frames) /\ n \in Nat /\ Len(r) = n /\ f \in Frames
  /\ Base(L, Append(r, f), h, m, stage)
  /\ CallOK(g) /\ lo = h[n + 1] /\ hi \in Nat /\ hi = Len(L1) /\ lo <= hi
  /\ \A k \in 1 .. lo : L1[k] = L[k]
  /\ lo < hi => StageAt(lo, Len(L), stage) = "given"
  /\ lo = hi => stage1 = StageAt(lo, Len(L), stage)
  /\ Placed(g, L1, lo, hi, stage1)
  /\ \/ g.kind \in Transparent
     \/ f.kind \notin Transparent
     \/ ~(m[n] > 0 /\ Pending(r[m[n]]) /\ h[m[n]] = h[m[n] + 1])

\* The head of the calls begins its mapping after all.
Begins(c, n, L, h, m, k, stage1) ==
  /\ c \in Seq(Frames) /\ n \in Nat /\ Len(c) = n /\ L \in Seq(Slots)
  /\ Base(L, c, h, m, "given")
  /\ k = m[n]
  /\ k > 0 => /\ c[k].kind = "map" /\ h[k] = h[k + 1]
              /\ c[k].step = "open" \/ (c[k].step = "key" /\ stage1 = "asked")
  /\ \A j \in k + 1 .. n : ~Marked(c[j])

\* The state and the stage while f runs, called in r, of which the head is k.
Runs(state, r, f, h, n, k, stage) ==
  IF f.kind \in Transparent
    THEN /\ IF k = 0 THEN state # "AlreadyTagged"
                     ELSE HeadState(state, r[k], f, h[k], h[k + 1])
         /\ stage = IF f.kind = "node" \/ (k > 0 /\ h[k] = h[k + 1] /\ Undecided(r[k]))
                      THEN "asked" ELSE "given"
    ELSE /\ HeadState(state, f, f, h[n + 1], h[n + 2])
         /\ stage = IF h[n + 1] = h[n + 2] /\ Undecided(f) THEN "asked" ELSE "given"

Clean(L, state, names, f, errs, h, k, stage) ==
  errs = {} => /\ h[1] = 0
               /\ f.kind \in Transparent /\ k = 0 => state = "NothingInParticular"
               /\ L = <<>> /\ stage = "given" => names = NoNames

\* The calls after the value that the innermost of them waits for.
Answered(c) == IF c = <<>> THEN <<>> ELSE [c EXCEPT ![Len(c)] = Advanced(@)]

\* The value that the calls r, of which the head is k, wait for is complete.
Complete(L, state, names, r, errs, h, k, stage) ==
  /\ IF k = 0 THEN state # "AlreadyTagged"
     ELSE IF h[k] < h[k + 1] THEN state = "NothingInParticular"
     ELSE \/ r[k].step = "value" /\ state \in {"FoundTag", "NothingInParticular"}
          \/ r[k].step = "key" /\ r[k].entry /\ state = "FoundTag"
  /\ stage = IF k > 0 /\ h[k] = h[k + 1] /\ r[k].step = "key" THEN "asked" ELSE "given"
  /\ errs = {} => /\ h[1] = 0
                  /\ k = 0 => state = "NothingInParticular"
                  /\ L = <<>> /\ stage = "given" => names = NoNames

\* A style that is set is that of a FlowSeq or FlowMap in progress.
Has(c, kind) == \E i \in 1 .. Len(c) : c[i].kind = kind
Styled(s, c) == (s.flowSeq => Has(c, "flowSeq")) /\ (s.flowMap => Has(c, "flowMap"))

\* The styles that c accounts for are those that d does.
Covers(c, d) == \A kind \in {"flowSeq", "flowMap"} : Has(c, kind) => Has(d, kind)

\* A serializer that the calls c account for.
Whole(s, c, errs) ==
  Sound(s) /\ Fits(Levels(s), s.state, s.names, c, errs) /\ Styled(s, c)

\* A value is about to serialize itself, called in r.
Ready(s, r, f, errs) ==
  /\ r \in Seq(Frames) /\ f \in Frames /\ f.kind = "node"
  /\ Whole(s, Append(r, f), errs)
  /\ Early(s.state, Append(r, f))

\* A call that begins with a collection.
Begun(g) == CallOK(g) /\ g.kind \notin Transparent /\ g.step \in {"open", "done"}

\* A collection runs, called in r.
Running(s, r, f, errs) ==
  /\ r \in Seq(Frames) /\ f \in Frames /\ f.kind \notin Transparent
  /\ Whole(s, Append(r, f), errs)

\* Unless a map took the place of a key, the calls account for the serializer.
ShapeOK == ~twisted => Whole(ser, stack, errors) /\ Early(ser.state, stack)

-----------------------------------------------------------------------------
(* The node of an anchor or a tag.  Such a call is watched, once its name  *)
(* is pending or its tag is found; the node is still to come (`Ahead` and  *)
(* `Due`), or has begun (`Came`).                                          *)

Delta(e) == IF IsStart(e) THEN 1 ELSE IF IsEnd(e) THEN -1 ELSE 0

Watched(f) ==
  \/ f.kind = "anchor" /\ ~f.late
  \/ f.kind = "map" /\ f.tag # NoTag /\ f.step \in {"value", "valued"}

\* The events that the next one is appended to.
Written(s) == IF s.depth = 0 THEN <<>> ELSE s.out

\* The next node is the first one of f.
Ahead(s, f) == s.depth = f.floor /\ f.start = Len(Written(s))

\* The next node takes the anchor, or the tag, of f.
Due(s, over, f) ==
  IF f.kind = "anchor" THEN f.name # NoAnchor /\ (over \/ s.pending = f.name)
  ELSE s.state = "FoundTag" /\ s.tag = f.tag

\* The event has them, unless it is an alias.
Bears(over, f, e) ==
  e.type = "Alias" \/ IF f.kind = "anchor" THEN over \/ e.anchor = f.name ELSE e.tag = f.tag

\* The events since f began are one node that has them, as far as it was written.
Came(s, over, f) ==
  LET i == f.start + 1
  IN  /\ i <= Len(s.out)
      /\ ~IsEnd(s.out[i])
      /\ \A k \in i .. Len(s.out) - 1 : Level(s.out, i, k) > 0
      /\ Level(s.out, i, Len(s.out)) = s.depth - f.floor
      /\ Bears(over, f, s.out[i])

\* While its node is sought it is still to come, and from then on it has begun.
MarkOK(s, sought, over, f) ==
  IF s.depth = f.floor /\ sought THEN Ahead(s, f) /\ Due(s, over, f) ELSE Came(s, over, f)

\* A node may begin in f.
Fair(s, over, f) == f.floor <= s.depth /\ MarkOK(s, TRUE, over, f)

\* A node has come in f.
Done(s, over, f) == f.floor <= s.depth /\ Came(s, over, f)

\* The map that may be a tag is above i, and its node is still to come.
Hunted(c, state, i) ==
  /\ state \in {"CheckForTag", "FoundTag"}
  /\ \E k \in i + 1 .. Len(c) : /\ Undecided(c[k])
                                /\ \A j \in k + 1 .. Len(c) : c[j].kind \in Transparent

Sought(c, state, i) == Asking(c) \/ Hunted(c, state, i)

\* A TaggedValue goes from the search for its tag to its value.
TagOK(s, f) ==
  f.kind = "map" /\ f.tag # NoTag =>
    /\ f.step # "key"
    /\ f.step = "open" /\ s.state = "CheckForTag" => Ahead(s, f)
    /\ f.step = "keyed" => f.entry /\ s.state = "FoundTag" /\ s.tag = f.tag /\ Ahead(s, f)
    /\ f.step \in {"value", "valued"} => f.tagged

\* Every call is in its place between its anchor or tag and the node of its value.
Marks(s, c, over) ==
  \A i \in 1 .. Len(c) :
    /\ TagOK(s, c[i])
    /\ Watched(c[i]) => MarkOK(s, Sought(c, s.state, i), over, c[i])

\* Calls that wait for a value, and the watched ones among them.
Waiting(r) ==
  /\ r \in Seq(Frames)
  /\ \A i \in 1 .. Len(r) : /\ CallOK(r[i]) /\ r[i].step \in Inner
                            /\ r[i].kind = "map" /\ r[i].tag # NoTag =>
                                 r[i].step = "value" /\ r[i].tagged
AllFair(s, over, r) == \A i \in 1 .. Len(r) : Watched(r[i]) => Fair(s, over, r[i])
AllCame(s, over, r) == \A i \in 1 .. Len(r) : Watched(r[i]) => Came(s, over, r[i])
AllBelow(s, r) == \A i \in 1 .. Len(r) : Watched(r[i]) => r[i].floor < s.depth

\* The levels before the innermost call f begin after lo, where f began.
Places(s, r, f, lo) ==
  /\ lo \in Nat /\ lo <= s.depth
  /\ \A i \in 1 .. Len(r) : Watched(r[i]) => r[i].floor <= lo
  /\ Marked(f) => f.floor = lo
  /\ f.kind \in Transparent => lo = s.depth
  /\ f.kind \notin Transparent =>
       /\ HeadState(s.state, f, f, lo, s.depth)
       /\ s.depth = lo + f.ends \/ (s.depth = lo /\ f.kind = "map" /\ f.one)
  /\ f.kind = "map" /\ f.step = "valued" => (f.tagged <=> lo = s.depth)

\* Unless a map took the place of a key, the watched calls have their anchors and tags.
MarksOK == ~twisted => Marks(ser, stack, covered)
=============================================================================

---------------------------- MODULE EventDeProofs ----------------------------
(***************************************************************************)
(* Proofs about EventDe, for every set of documents, requests and limits.  *)
(* In this order: its types; that what checks recursion_limit is nested no *)
(* deeper than it; that the events read are bounded; that a call reads its *)
(* own node and no more; that tags are used once; that a mapping gives the *)
(* keys it should; and where the recursion limit is reported.              *)
(*                                                                         *)
(* `Inv` is the invariant of the types and the depth.  NestInv, WorkInv,   *)
(* NodeInv, TagInv, KeyInv and DeepInv are invariants on top of it, one    *)
(* for each of the others; TagInv and KeyInv need NodeInv, and DeepInv     *)
(* needs KeyInv.                                                           *)
(***************************************************************************)
EXTENDS EventDe, FiniteSetTheorems, SequenceTheorems, TLAPS

-----------------------------------------------------------------------------
(* Nodes have a first end.                                                 *)

\* Every nonempty set of naturals has a least element.
LEMMA LeastElement ==
  ASSUME NEW T \in SUBSET Nat, T # {}
  PROVE  \E q \in T : \A r \in T : q <= r
<1> DEFINE Less == { ss \in Nat \X Nat : ss[1] < ss[2] }
<1>1. IsWellFoundedOn(Less, Nat)
  BY NatLessThanWellFounded DEF OpToRel
<1>2. PICK q \in T : \A r \in T : ~ (<<r, q>> \in Less)
  <2> HIDE DEF Less
  <2> QED
    BY <1>1, WFMin
<1>3. \A r \in T : <<r, q>> \in Nat \X Nat
  OBVIOUS
<1>4. \A r \in T : ~(r < q)
  BY <1>2, <1>3
<1> QED
  BY <1>4

\* A node that is whole is over after its start, inside the document.
LEMMA AfterType ==
  ASSUME NEW p \in Nat, Whole(p), document.events \in Seq(Events)
  PROVE  After(p) \in Nat /\ After(p) >= p + 1
<1>1. NodeEnds(p) \subseteq p + 1 .. Len(document.events)
  BY DEF NodeEnds
<1>2. PICK q \in NodeEnds(p) : \A r \in NodeEnds(p) : q <= r
  BY <1>1, LeastElement DEF Whole
<1>3. After(p) \in NodeEnds(p)
  BY <1>2 DEF After
<1> QED
  BY <1>1, <1>3

\* The scalars and ends in an interval are finitely many.
LEMMA LeavesType ==
  ASSUME NEW p \in Nat, NEW q \in Nat
  PROVE  Leaves(p, q) \in Nat
<1>1. IsFiniteSet(p + 1 .. q)
  BY FS_Interval
<1> QED
  BY <1>1, FS_Subset, FS_CardinalityType DEF Leaves

-----------------------------------------------------------------------------
(* The stack s of calls and the depths r that remain to the                *)
(* DeserializerFromEvents they work on.                                    *)

Stacked(s, r) ==
  /\ s \in Seq(Frames)
  /\ r \in Seq(0 .. 255)
  /\ \A i \in 1 .. Len(s) : s[i].de \in 1 .. Len(r)
  /\ \A i, j \in 1 .. Len(s) : i <= j => s[i].de <= s[j].de

\* No call is deeper than the limit, and none can become so with what remains.
Bounded(s, r, limit) ==
  limit > 0 => \A i \in 1 .. Len(s) : s[i].depth + r[s[i].de] <= limit

Sound(s, r, limit) == Stacked(s, r) /\ Bounded(s, r, limit)

Last(s) == s[Len(s)]
Rest(s) == SubSeq(s, 1, Len(s) - 1)

\* The first n elements of a sequence.
LEMMA PrefixProperties ==
  ASSUME NEW S, NEW t \in Seq(S), NEW n \in 0 .. Len(t)
  PROVE  /\ SubSeq(t, 1, n) \in Seq(S)
         /\ Len(SubSeq(t, 1, n)) = n
         /\ \A i \in 1 .. n : SubSeq(t, 1, n)[i] = t[i]
<1>1. n \in Int /\ 1 \in Int /\ \A i \in 1 .. n : t[i] \in S
  OBVIOUS
<1>2. /\ SubSeq(t, 1, n) \in Seq(S)
      /\ Len(SubSeq(t, 1, n)) = IF 1 <= n THEN n - 1 + 1 ELSE 0
      /\ \A i \in 1 .. n - 1 + 1 : SubSeq(t, 1, n)[i] = t[1 + i - 1]
  BY <1>1, SubSeqProperties
<1>3. n - 1 + 1 = n /\ \A i \in 1 .. n : 1 + i - 1 = i
  OBVIOUS
<1> QED
  BY <1>2, <1>3

\* The fields of a frame.
LEMMA FrameType ==
  ASSUME NEW f \in Frames
  PROVE  /\ f.de \in Nat
         /\ f.depth \in Nat
BY DEF Frames

\* The innermost call is a frame.
LEMMA LastType ==
  ASSUME NEW s \in Seq(Frames), s # <<>>
  PROVE  /\ Last(s) \in Frames
         /\ Len(s) \in 1 .. Len(s)
BY DEF Last

\* Without the innermost call.
LEMMA Shortened ==
  ASSUME NEW s, NEW r, NEW limit \in Nat, Sound(s, r, limit), s # <<>>
  PROVE  /\ Sound(Rest(s), r, limit)
         /\ Len(Rest(s)) = Len(s) - 1
         /\ Rest(s) # <<>> => Last(Rest(s)).de <= Last(s).de
<1>1. s \in Seq(Frames) /\ Len(s) \in Nat \ {0}
  BY DEF Sound, Stacked
<1>2. /\ Rest(s) \in Seq(Frames)
      /\ Len(Rest(s)) = Len(s) - 1
      /\ \A i \in 1 .. Len(s) - 1 : Rest(s)[i] = s[i]
  <2>1. Len(s) - 1 \in 0 .. Len(s)
    BY <1>1
  <2> QED
    BY <1>1, <2>1, PrefixProperties DEF Rest
<1>3. Stacked(Rest(s), r)
  <2>1. \A i \in 1 .. Len(s) - 1 : i \in 1 .. Len(s)
    BY <1>1
  <2>2. \A i \in 1 .. Len(Rest(s)) : Rest(s)[i].de \in 1 .. Len(r)
    BY <1>2, <2>1 DEF Sound, Stacked
  <2>3. \A i, j \in 1 .. Len(Rest(s)) : i <= j => Rest(s)[i].de <= Rest(s)[j].de
    BY <1>2, <2>1 DEF Sound, Stacked
  <2> QED
    BY <1>2, <2>2, <2>3 DEF Sound, Stacked
<1>4. Bounded(Rest(s), r, limit)
  BY <1>1, <1>2 DEF Sound, Bounded
<1>5. Rest(s) # <<>> => Last(Rest(s)).de <= Last(s).de
  <2> SUFFICES ASSUME Rest(s) # <<>>
               PROVE  Last(Rest(s)).de <= Last(s).de
    OBVIOUS
  <2>1. Len(s) - 1 \in 1 .. Len(s) /\ Len(s) \in 1 .. Len(s)
    BY <1>1, <1>2
  <2>2. Last(Rest(s)) = s[Len(s) - 1]
    BY <1>2, <2>1 DEF Last
  <2> QED
    BY <2>1, <2>2 DEF Sound, Stacked, Last
<1> QED
  BY <1>2, <1>3, <1>4, <1>5 DEF Sound

\* A call more.
LEMMA Pushed ==
  ASSUME NEW s, NEW r, NEW limit \in Nat, Sound(s, r, limit),
         NEW f \in Frames, f.de \in 1 .. Len(r),
         s # <<>> => Last(s).de <= f.de,
         limit > 0 => f.depth + r[f.de] <= limit
  PROVE  Sound(Append(s, f), r, limit)
<1> DEFINE t == Append(s, f)
<1>1. s \in Seq(Frames) /\ r \in Seq(0 .. 255) /\ Len(s) \in Nat
  BY DEF Sound, Stacked
<1>2. /\ t \in Seq(Frames)
      /\ Len(t) = Len(s) + 1
      /\ \A i \in 1 .. Len(s) : t[i] = s[i]
      /\ t[Len(s) + 1] = f
  BY <1>1
<1> HIDE DEF t
<1>3. \A i \in 1 .. Len(t) : i \in 1 .. Len(s) \/ i = Len(s) + 1
  BY <1>1, <1>2
<1>4. \A i \in 1 .. Len(t) : t[i].de \in 1 .. Len(r)
  BY <1>2, <1>3 DEF Sound, Stacked
<1>5. \A i \in 1 .. Len(s) : s[i].de <= f.de
  <2> TAKE i \in 1 .. Len(s)
  <2>1. Len(s) \in 1 .. Len(s) /\ i <= Len(s)
    BY <1>1
  <2>2. s # <<>>
    BY <2>1
  <2>3. s[i].de <= s[Len(s)].de
    BY <2>1 DEF Sound, Stacked
  <2>4. s[Len(s)].de <= f.de
    BY <2>2 DEF Last
  <2>5. s[i].de \in Nat /\ s[Len(s)].de \in Nat /\ f.de \in Nat
    BY <1>1, <2>1, FrameType
  <2> QED
    BY <2>3, <2>4, <2>5
<1>6. \A i, j \in 1 .. Len(t) : i <= j => t[i].de <= t[j].de
  <2> SUFFICES ASSUME NEW i \in 1 .. Len(t), NEW j \in 1 .. Len(t), i <= j
               PROVE  t[i].de <= t[j].de
    OBVIOUS
  <2>1. CASE j \in 1 .. Len(s)
    <3>1. i \in 1 .. Len(s)
      BY <1>1, <2>1
    <3> QED
      BY <1>2, <2>1, <3>1 DEF Sound, Stacked
  <2>2. CASE j = Len(s) + 1 /\ i \in 1 .. Len(s)
    BY <1>2, <1>5, <2>2
  <2>3. CASE j = Len(s) + 1 /\ i = Len(s) + 1
    BY <1>2, <2>3, FrameType
  <2> QED
    BY <1>3, <2>1, <2>2, <2>3
<1>7. limit > 0 => \A i \in 1 .. Len(t) : t[i].depth + r[t[i].de] <= limit
  BY <1>2, <1>3 DEF Sound, Bounded
<1> QED
  BY <1>1, <1>2, <1>4, <1>6, <1>7 DEF Sound, Stacked, Bounded, t

\* A DeserializerFromEvents more.
LEMMA Widened ==
  ASSUME NEW s, NEW r, NEW limit \in Nat, Sound(s, r, limit), NEW n \in 0 .. 255
  PROVE  /\ Sound(s, Append(r, n), limit)
         /\ Len(Append(r, n)) = Len(r) + 1
         /\ \A k \in 1 .. Len(r) : Append(r, n)[k] = r[k]
         /\ Append(r, n)[Len(r) + 1] = n
<1> DEFINE w == Append(r, n)
<1>1. s \in Seq(Frames) /\ r \in Seq(0 .. 255) /\ Len(r) \in Nat
  BY DEF Sound, Stacked
<1>2. /\ w \in Seq(0 .. 255)
      /\ Len(w) = Len(r) + 1
      /\ \A k \in 1 .. Len(r) : w[k] = r[k]
      /\ w[Len(r) + 1] = n
  BY <1>1
<1> HIDE DEF w
<1>3. \A i \in 1 .. Len(s) : s[i].de \in 1 .. Len(r) /\ s[i].de \in 1 .. Len(w)
  BY <1>1, <1>2 DEF Sound, Stacked
<1>4. Stacked(s, w)
  BY <1>1, <1>2, <1>3 DEF Sound, Stacked
<1>5. Bounded(s, w, limit)
  BY <1>2, <1>3 DEF Sound, Bounded
<1> QED
  BY <1>2, <1>4, <1>5 DEF Sound, w

\* The newest DeserializerFromEvents are gone.
LEMMA Narrowed ==
  ASSUME NEW s, NEW r, NEW limit \in Nat, Sound(s, r, limit), s # <<>>
  PROVE  Sound(s, SubSeq(r, 1, Last(s).de), limit)
<1> DEFINE w == SubSeq(r, 1, Last(s).de)
<1>1. s \in Seq(Frames) /\ r \in Seq(0 .. 255) /\ Len(r) \in Nat
  BY DEF Sound, Stacked
<1>2. Last(s).de \in 1 .. Len(r)
  BY <1>1, LastType DEF Sound, Stacked, Last
<1>3. /\ w \in Seq(0 .. 255)
      /\ Len(w) = Last(s).de
      /\ \A k \in 1 .. Last(s).de : w[k] = r[k]
  <2>1. Last(s).de \in 0 .. Len(r)
    BY <1>1, <1>2
  <2> QED
    BY ONLY <1>1, <2>1, PrefixProperties, SMTT(30) DEF w
<1> HIDE DEF w
<1>4. \A i \in 1 .. Len(s) : s[i].de \in 1 .. Last(s).de
  <2> TAKE i \in 1 .. Len(s)
  <2>1. Len(s) \in 1 .. Len(s) /\ i <= Len(s)
    BY <1>1
  <2>2. s[i].de \in 1 .. Len(r) /\ s[i].de <= s[Len(s)].de
    BY <2>1 DEF Sound, Stacked
  <2> QED
    BY <1>2, <2>2 DEF Last
<1>5. Stacked(s, w)
  BY <1>1, <1>3, <1>4 DEF Sound, Stacked
<1>6. Bounded(s, w, limit)
  BY <1>3, <1>4 DEF Sound, Bounded
<1> QED
  BY <1>5, <1>6 DEF Sound, w

\* A byte that has been counted down, or not.
LEMMA ByteArithmetic ==
  \A a \in 0 .. 255 : \A b : b = a \/ (b = a - 1 /\ a > 0) => b <= a /\ b \in Nat /\ a \in Nat
OBVIOUS

\* A DeserializerFromEvents has one level less.
LEMMA Lowered ==
  ASSUME NEW s, NEW r, NEW limit \in Nat, Sound(s, r, limit),
         NEW k \in 1 .. Len(r), r[k] > 0
  PROVE  Sound(s, [r EXCEPT ![k] = @ - 1], limit)
<1> DEFINE w == [r EXCEPT ![k] = @ - 1]
<1>0. r[k] > 0
  OBVIOUS
<1>1. s \in Seq(Frames) /\ r \in Seq(0 .. 255) /\ Len(r) \in Nat
  BY DEF Sound, Stacked
<1>2. r[k] \in 0 .. 255 /\ r[k] - 1 \in 0 .. 255
  BY <1>1
<1>3. w \in Seq(0 .. 255) /\ Len(w) = Len(r)
  BY <1>1, <1>2, ExceptSeq
<1>4. \A j \in 1 .. Len(r) : w[j] <= r[j] /\ w[j] \in Nat /\ r[j] \in Nat
  <2> TAKE j \in 1 .. Len(r)
  <2>1. r[j] \in 0 .. 255
    BY <1>1, ElementOfSeq
  <2>2. w[j] = IF j = k THEN r[k] - 1 ELSE r[j]
    BY <1>1
  <2> HIDE DEF w
  <2>3. w[j] = r[j] \/ (w[j] = r[j] - 1 /\ r[j] > 0)
    BY ONLY <1>0, <2>2
  <2> QED
    BY ONLY <2>1, <2>3, ByteArithmetic
<1> HIDE DEF w
<1>5. Stacked(s, w)
  BY <1>1, <1>3 DEF Sound, Stacked
<1>6. Bounded(s, w, limit)
  <2> SUFFICES ASSUME limit > 0, NEW i \in 1 .. Len(s)
               PROVE  s[i].depth + w[s[i].de] <= limit
    BY DEF Bounded
  <2>1. s[i].de \in 1 .. Len(r) /\ s[i].depth + r[s[i].de] <= limit
    BY DEF Sound, Stacked, Bounded
  <2>2. s[i].depth \in Nat
    BY <1>1, FrameType
  <2> QED
    BY <1>4, <2>1, <2>2, SMTT(30)
<1> QED
  BY <1>5, <1>6 DEF Sound, w

-----------------------------------------------------------------------------
(* The changes that the actions make to the stack.                         *)

\* The invariant: the types, and the stack with its depths.
Inv ==
  /\ IsDocument(document)
  /\ options \in Options
  /\ pos \in Nat
  /\ Sound(stack, remaining, options.depthLimit)
  /\ jumpcount \in Nat
  /\ enumDepth \in Nat
  /\ outcome \in Outcomes
  /\ outcome = "running" => stack # <<>>
  /\ reads \in Nat

\* The invariant has the type invariant in it.
LEMMA InvIsChecked == Inv => EventDeTypeOK
BY DEF Inv, EventDeTypeOK, Sound, Stacked, Bounded

\* What the invariant says of the innermost call.
LEMMA TopType ==
  ASSUME Inv, stack # <<>>
  PROVE  /\ options.depthLimit \in 0 .. 255
         /\ options.depthLimit \in Nat
         /\ Top \in Frames
         /\ Top = Last(stack)
         /\ Below = Rest(stack)
         /\ Top.de \in 1 .. Len(remaining)
         /\ remaining[Top.de] \in 0 .. 255
         /\ Len(remaining) \in Nat
         /\ Top.depth \in Nat
         /\ Top.depth + remaining[Top.de] <= options.depthLimit \/ options.depthLimit = 0
<1>1. options.depthLimit \in 0 .. 255 /\ options.depthLimit \in Nat
  <2>1. options.depthLimit \in DepthLimits
    BY DEF Inv, Options
  <2>2. DepthLimits \subseteq 0 .. 255
    BY EventDeAssumption
  <2> QED
    BY <2>1, <2>2, ByteArithmetic
<1>2. stack \in Seq(Frames) /\ remaining \in Seq(0 .. 255)
  BY DEF Inv, Sound, Stacked
<1>3. Len(stack) \in 1 .. Len(stack) /\ Top \in Frames
  BY <1>2, LastType DEF Top, Last
<1>4. Top.de \in 1 .. Len(remaining)
  BY <1>3 DEF Inv, Sound, Stacked, Top
<1>5. remaining[Top.de] \in 0 .. 255 /\ Len(remaining) \in Nat
  <2>1. remaining[Top.de] \in 0 .. 255
    BY ONLY <1>2, <1>4, ElementOfSeq
  <2> QED
    BY <1>2, <2>1, LenProperties
<1>6. Top.depth + remaining[Top.de] <= options.depthLimit \/ options.depthLimit = 0
  BY <1>1, <1>3 DEF Inv, Sound, Bounded, Top
<1> QED
  BY <1>1, <1>3, <1>4, <1>5, <1>6, FrameType DEF Top, Last, Below, Rest

\* The stack without its innermost call.
LEMMA BelowSound ==
  ASSUME Inv, stack # <<>>
  PROVE  /\ Sound(Below, remaining, options.depthLimit)
         /\ Len(Below) = Len(stack) - 1
         /\ Below # <<>> => Last(Below).de <= Top.de
BY TopType, Shortened DEF Inv

\* The innermost call becomes another one, on the same DeserializerFromEvents.
LEMMA Replaced ==
  ASSUME Inv, stack # <<>>,
         NEW f \in Frames, f.de = Top.de, f.depth = Top.depth
  PROVE  Sound(Append(Below, f), remaining, options.depthLimit)
<1>1. f.de \in 1 .. Len(remaining)
  BY TopType
<1>2. options.depthLimit > 0 => f.depth + remaining[f.de] <= options.depthLimit
  BY TopType
<1> QED
  BY <1>1, <1>2, TopType, BelowSound, Pushed

\* The innermost call becomes another one, on a DeserializerFromEvents of its own.
LEMMA Moved ==
  ASSUME Inv, stack # <<>>,
         NEW f \in Frames, f.de = Len(remaining) + 1, f.depth = Top.depth
  PROVE  Sound(Append(Below, f), Append(remaining, remaining[Top.de]), options.depthLimit)
<1> DEFINE w == Append(remaining, remaining[Top.de])
<1>1. /\ Sound(Below, w, options.depthLimit)
      /\ Len(w) = Len(remaining) + 1
      /\ w[Len(remaining) + 1] = remaining[Top.de]
  <2>1. PICK n \in 0 .. 255 : n = remaining[Top.de]
    BY TopType
  <2>2. options.depthLimit \in Nat /\ Sound(Below, remaining, options.depthLimit)
    BY TopType, BelowSound
  <2>3. /\ Sound(Below, Append(remaining, n), options.depthLimit)
        /\ Len(Append(remaining, n)) = Len(remaining) + 1
        /\ Append(remaining, n)[Len(remaining) + 1] = n
    BY ONLY <2>2, Widened, SMTT(30)
  <2> QED
    BY ONLY <2>1, <2>3
<1> HIDE DEF w
<1>2. f.de \in 1 .. Len(w)
  BY <1>1, TopType
<1>3. Below # <<>> => Last(Below).de <= f.de
  <2> SUFFICES ASSUME Below # <<>>
               PROVE  Last(Below).de <= f.de
    OBVIOUS
  <2>1. Last(Below) \in Frames
    BY BelowSound, LastType DEF Sound, Stacked
  <2> QED
    BY <2>1, BelowSound, TopType, FrameType
<1>4. options.depthLimit > 0 => f.depth + w[f.de] <= options.depthLimit
  BY <1>1, TopType
<1> QED
  BY <1>1, <1>2, <1>3, <1>4, TopType, Pushed DEF w

\* The innermost call goes on as f and calls g on a new DeserializerFromEvents.
LEMMA Called ==
  ASSUME Inv, stack # <<>>,
         NEW f \in Frames, f.de = Top.de, f.depth = Top.depth,
         NEW g \in Frames, g.de = Len(remaining) + 1, g.depth = Top.depth
  PROVE  Sound(Append(Append(Below, f), g), Append(remaining, remaining[Top.de]),
               options.depthLimit)
<1> DEFINE w == Append(remaining, remaining[Top.de])
           t == Append(Below, f)
<1>1. /\ Sound(t, w, options.depthLimit)
      /\ Len(w) = Len(remaining) + 1
      /\ w[Len(remaining) + 1] = remaining[Top.de]
  <2>1. PICK n \in 0 .. 255 : n = remaining[Top.de]
    BY TopType
  <2>2. options.depthLimit \in Nat /\ Sound(t, remaining, options.depthLimit)
    BY TopType, Replaced
  <2> HIDE DEF t
  <2>3. /\ Sound(t, Append(remaining, n), options.depthLimit)
        /\ Len(Append(remaining, n)) = Len(remaining) + 1
        /\ Append(remaining, n)[Len(remaining) + 1] = n
    BY ONLY <2>2, Widened, SMTT(30)
  <2> QED
    BY ONLY <2>1, <2>3
<1>2. Last(t) = f
  BY BelowSound, TopType DEF Last, Sound, Stacked
<1> HIDE DEF w, t
<1>3. g.de \in 1 .. Len(w) /\ f.de <= g.de
  BY <1>1, TopType
<1>4. options.depthLimit > 0 => g.depth + w[g.de] <= options.depthLimit
  BY <1>1, TopType
<1> QED
  BY <1>1, <1>2, <1>3, <1>4, TopType, Pushed DEF w, t

\* The innermost call goes on as f and calls g on its DeserializerFromEvents.
LEMMA CalledHere ==
  ASSUME Inv, stack # <<>>,
         NEW f \in Frames, f.de = Top.de, f.depth = Top.depth,
         NEW g \in Frames, g.de = Top.de, g.depth = Top.depth
  PROVE  Sound(Append(Append(Below, f), g), remaining, options.depthLimit)
<1> DEFINE t == Append(Below, f)
<1>1. Sound(t, remaining, options.depthLimit)
  BY Replaced
<1>2. Last(t) = f
  BY BelowSound, TopType DEF Last, Sound, Stacked
<1> HIDE DEF t
<1>3. g.de \in 1 .. Len(remaining) /\ f.de <= g.de
  BY TopType
<1>4. options.depthLimit > 0 => g.depth + remaining[g.de] <= options.depthLimit
  BY TopType
<1> QED
  BY <1>1, <1>2, <1>3, <1>4, TopType, Pushed DEF t

\* The innermost call goes one level deeper.
LEMMA Deepened ==
  ASSUME Inv, stack # <<>>, ~Exhausted,
         NEW f \in Frames, f.de = Top.de, f.depth = Top.depth + 1
  PROVE  Sound(Append(Below, f), Descended, options.depthLimit)
<1>1. f.de \in 1 .. Len(remaining)
  BY TopType
<1>2. CASE options.depthLimit = 0
  <2>1. Descended = remaining
    BY <1>2 DEF Descended
  <2>2. ~(options.depthLimit > 0)
    BY <1>2
  <2> QED
    BY <1>1, <2>1, <2>2, TopType, BelowSound, Pushed
<1>3. CASE options.depthLimit # 0
  <2> DEFINE w == [remaining EXCEPT ![Top.de] = @ - 1]
  <2>1. Descended = w
    BY <1>3 DEF Descended
  <2>0. options.depthLimit > 0
    BY <1>3, TopType
  <2>2. remaining[Top.de] > 0
    <3>1. remaining[Top.de] # 0
      BY <2>0 DEF Exhausted
    <3>2. remaining[Top.de] \in 0 .. 255
      BY TopType
    <3> QED
      BY ONLY <3>1, <3>2, ByteArithmetic
  <2>3. Sound(Below, w, options.depthLimit)
    BY <2>2, TopType, BelowSound, Lowered
  <2>4. Len(w) = Len(remaining) /\ w[Top.de] = remaining[Top.de] - 1
    BY TopType DEF Inv, Sound, Stacked
  <2> HIDE DEF w
  <2>5. f.depth + w[f.de] <= options.depthLimit
    <3>1. /\ Top.depth \in Nat
          /\ remaining[Top.de] \in 0 .. 255
          /\ Top.depth + remaining[Top.de] <= options.depthLimit
      BY <1>3, TopType, SMTT(30)
    <3>2. PICK a \in Nat, b \in 0 .. 255, c \in Nat :
            a = Top.depth /\ b = remaining[Top.de] /\ c = options.depthLimit
      BY <3>1, TopType
    <3>3. f.depth + w[f.de] = a + 1 + (b - 1)
      BY <2>4, <3>2
    <3>4. a + 1 + (b - 1) <= c
      BY ONLY <3>1, <3>2
    <3> QED
      BY ONLY <3>2, <3>3, <3>4
  <2> QED
    BY <1>1, <2>1, <2>3, <2>4, <2>5, TopType, BelowSound, Pushed
<1> QED
  BY <1>2, <1>3

\* The innermost call returns.
LEMMA ReturnSound ==
  ASSUME Inv, outcome = "running", NEW p \in Nat, Return(p), UNCHANGED options
  PROVE  /\ pos' \in Nat
         /\ Sound(stack', remaining', options'.depthLimit)
         /\ outcome' \in Outcomes
         /\ outcome' = "running" => stack' # <<>>
<1>1. stack # <<>>
  BY DEF Inv
<1>2. CASE Below = <<>>
  <2>1. stack' = Below /\ remaining' = remaining /\ outcome' = "ok" /\ pos' = p
    BY <1>2 DEF Return
  <2> QED
    BY <1>1, <2>1, BelowSound DEF Outcomes
<1>3. CASE Below # <<>>
  <2>1. /\ stack' = Below
        /\ remaining' = SubSeq(remaining, 1, Last(Below).de)
        /\ outcome' = outcome
        /\ pos' = p
    BY <1>3 DEF Return, Last
  <2>2. Sound(Below, SubSeq(remaining, 1, Last(Below).de), options.depthLimit)
    BY <1>1, <1>3, BelowSound, TopType, Narrowed
  <2> QED
    BY <1>3, <2>1, <2>2 DEF Inv
<1> QED
  BY <1>2, <1>3

\* Reading keeps the types of what it counts.
LEMMA ReadType ==
  ASSUME Inv, NEW n \in Nat, NEW m \in Nat, Read(n, m)
  PROVE  reads' \in Nat /\ enumDepth' \in Nat
BY DEF Inv, Read, EnumDepthAfter

-----------------------------------------------------------------------------
(* The invariant is inductive.                                             *)

\* A call on a node is a frame, whatever the node is asked to be.
LEMMA NodeShape ==
  ASSUME NEW r \in AllRequests, NEW de \in Nat, NEW start \in Nat, NEW depth \in Nat
  PROVE  /\ Node(r, de, start, depth) \in Frames
         /\ Node(r, de, start, depth).de = de
         /\ Node(r, de, start, depth).depth = depth
<1>1. {} \in SUBSET Texts /\ {} \in SUBSET Nat
  OBVIOUS
<1> QED
  BY <1>1 DEF Node, Frames

\* What visitors ask for is one of the deserialize_* methods.
LEMMA RequestsKnown ==
  ASSUME Inv
  PROVE  Requests \subseteq AllRequests
BY EventDeAssumption DEF Inv, Options, Requests

\* A call on a node is a frame.
LEMMA NodeType ==
  ASSUME Inv, NEW r \in Requests, NEW de \in Nat, NEW start \in Nat, NEW depth \in Nat
  PROVE  /\ Node(r, de, start, depth) \in Frames
         /\ Node(r, de, start, depth).de = de
         /\ Node(r, de, start, depth).depth = depth
BY RequestsKnown, NodeShape

\* The event at hand, and where an alias leads.
LEMMA EvType ==
  ASSUME Inv, ~AtEnd
  PROVE  /\ Ev \in Events
         /\ Ev.type = "Alias" => document.aliases[Ev.id + 1] \in Nat
         /\ document.events \in Seq(Events)
<1>1. /\ document.events \in Seq(Events)
      /\ document.aliases \in Seq(Nat)
      /\ \A i \in 1 .. Len(document.events) :
           document.events[i].type = "Alias" => document.events[i].id < Len(document.aliases)
  BY DEF Inv, IsDocument
<1>2. pos + 1 \in 1 .. Len(document.events)
  BY <1>1 DEF Inv, AtEnd
<1>3. Ev \in Events
  BY ONLY <1>1, <1>2, ElementOfSeq DEF Ev
<1>4. Ev.type = "Alias" => document.aliases[Ev.id + 1] \in Nat
  <2> SUFFICES ASSUME Ev.type = "Alias"
               PROVE  document.aliases[Ev.id + 1] \in Nat
    OBVIOUS
  <2>1. Ev.id \in Nat
    BY <1>3 DEF Events
  <2>2. Ev.id < Len(document.aliases)
    BY <1>1, <1>2 DEF Ev
  <2>3. Ev.id + 1 \in 1 .. Len(document.aliases)
    BY <1>1, <2>1, <2>2
  <2> QED
    BY <1>1, <2>3, ElementOfSeq
<1> QED
  BY <1>1, <1>3, <1>4

\* An error keeps the invariant.
LEMMA FailInv ==
  ASSUME Inv, NEW error \in Outcomes \ {"running"}, Fail(error)
  PROVE  Inv'
BY DEF Inv, Fail, fixed, Sound, Stacked, Bounded, IsDocument

\* A return after n events of which m were scalars or ends keeps the invariant.
LEMMA ReturnInv ==
  ASSUME Inv, outcome = "running", NEW p \in Nat, Return(p),
         reads' \in Nat, enumDepth' \in Nat, UNCHANGED <<fixed, jumpcount>>
  PROVE  Inv'
<1>1. UNCHANGED options /\ document' = document /\ jumpcount' = jumpcount
  BY DEF fixed
<1> QED
  BY <1>1, ReturnSound DEF Inv, IsDocument

THEOREM EventDeInit == Init => Inv
<1> SUFFICES ASSUME Init
             PROVE  Inv
  OBVIOUS
<1>1. options.depthLimit \in DepthLimits /\ options.depthLimit \in 0 .. 255
  BY EventDeAssumption DEF Init, Options
<1>2. PICK r \in AllRequests : stack = <<Node(r, 1, 0, 0)>>
  BY EventDeAssumption DEF Init, Options, Requests
<1>3. stack \in Seq(Frames) /\ Len(stack) = 1 /\ stack # <<>>
  BY <1>2, NodeShape
<1>4. stack[1].de = 1 /\ stack[1].depth = 0
  BY <1>2, NodeShape
<1>5. remaining \in Seq(0 .. 255) /\ Len(remaining) = 1 /\ remaining[1] = options.depthLimit
  BY <1>1 DEF Init
<1>6. \A i \in 1 .. Len(stack) : i = 1
  BY <1>3
<1>7. Sound(stack, remaining, options.depthLimit)
  <2>1. Stacked(stack, remaining)
    BY <1>3, <1>4, <1>5, <1>6 DEF Stacked
  <2>2. PICK n \in 0 .. 255 : n = options.depthLimit
    BY <1>1
  <2>3. 0 + n <= n
    BY ONLY <2>2
  <2>4. \A i \in 1 .. Len(stack) :
          stack[i].depth = 0 /\ remaining[stack[i].de] = n
    BY <1>4, <1>5, <1>6, <2>2
  <2>5. Bounded(stack, remaining, options.depthLimit)
    BY <2>2, <2>3, <2>4 DEF Bounded
  <2> QED
    BY <2>1, <2>5 DEF Sound
<1> QED
  BY <1>3, <1>7, EventDeAssumption DEF Init, Inv, Outcomes

\* A step within the recursion keeps the invariant.
LEMMA StepInv ==
  ASSUME Inv, UNCHANGED <<fixed, outcome>>,
         pos' \in Nat, jumpcount' \in Nat, enumDepth' \in Nat, reads' \in Nat,
         Sound(stack', remaining', options.depthLimit), stack' # <<>>
  PROVE  Inv'
<1>1. document' = document /\ options' = options /\ outcome' = outcome
  BY DEF fixed
<1> QED
  BY <1>1 DEF Inv, IsDocument

\* A stack with a call on top is not empty.
LEMMA NotEmpty ==
  ASSUME NEW s \in Seq(Frames), NEW f \in Frames
  PROVE  Append(s, f) # <<>> /\ Append(s, f) \in Seq(Frames)
<1>1. Append(s, f) \in Seq(Frames) /\ Len(Append(s, f)) = Len(s) + 1 /\ Len(s) \in Nat
  OBVIOUS
<1>2. Len(Append(s, f)) # 0
  BY <1>1
<1> QED
  BY <1>1, <1>2

\* The innermost call, if any runs.
LEMMA Running ==
  ASSUME Inv, outcome = "running"
  PROVE  /\ stack # <<>>
         /\ Below \in Seq(Frames)
         /\ Top \in Frames
         /\ pos + 1 \in Nat
<1>1. stack # <<>>
  BY DEF Inv
<1>2. Below \in Seq(Frames)
  BY <1>1, BelowSound DEF Sound, Stacked
<1> QED
  BY <1>1, <1>2, TopType DEF Inv

\* Following an alias.
LEMMA FollowAliasInv ==
  ASSUME Inv, FollowAlias
  PROVE  Inv'
<1>1. outcome = "running" /\ stack # <<>> /\ ~AtEnd /\ Ev.type = "Alias"
  BY DEF FollowAlias, Reading, Inv
<1>2. CASE jumpcount + 1 > AliasLimit
  <2>1. Fail("RepetitionLimitExceeded")
    BY <1>2 DEF FollowAlias
  <2> QED
    BY <2>1, FailInv DEF Outcomes
<1>3. CASE ~(jumpcount + 1 > AliasLimit)
  <2> DEFINE f == [Top EXCEPT !.kind = "jump", !.saved = pos + 1]
             g == Node(Top.wants, Len(remaining) + 1, document.aliases[Ev.id + 1], Top.depth)
  <2>1. /\ jumpcount' = jumpcount + 1
        /\ pos' = document.aliases[Ev.id + 1]
        /\ remaining' = Append(remaining, remaining[Top.de])
        /\ stack' = Append(Append(Below, f), g)
        /\ Read(1, 0)
        /\ UNCHANGED <<fixed, outcome>>
    BY <1>3 DEF FollowAlias
  <2>2. f \in Frames /\ f.de = Top.de /\ f.depth = Top.depth
    <3>1. Top \in Frames /\ pos + 1 \in Nat
      BY <1>1, TopType DEF Inv
    <3> QED
      BY ONLY <3>1 DEF Frames, f
  <2>3. g \in Frames /\ g.de = Len(remaining) + 1 /\ g.depth = Top.depth
    <3>1. /\ Top.wants \in AllRequests
          /\ Len(remaining) + 1 \in Nat
          /\ document.aliases[Ev.id + 1] \in Nat
          /\ Top.depth \in Nat
      BY <1>1, TopType, EvType DEF Frames
    <3> QED
      BY <3>1 DEF Node, Frames
  <2> HIDE DEF f, g
  <2>4. Sound(stack', remaining', options.depthLimit)
    BY <1>1, <2>1, <2>2, <2>3, Called
  <2>5. stack' # <<>>
    BY <1>1, <2>1, <2>2, <2>3, Running, NotEmpty
  <2>6. reads' \in Nat /\ enumDepth' \in Nat
    BY <2>1, ReadType
  <2>7. pos' \in Nat /\ jumpcount' \in Nat
    BY <1>1, <2>1, EvType DEF Inv
  <2> QED
    BY <2>1, <2>4, <2>5, <2>6, <2>7, StepInv DEF fixed
<1> QED
  BY <1>2, <1>3

\* The target of an alias has been read.
LEMMA JumpBackInv ==
  ASSUME Inv, JumpBack
  PROVE  Inv'
<1>1. Top.saved \in Nat
  BY Running DEF JumpBack, Frames
<1>2. reads' \in Nat /\ enumDepth' \in Nat
  BY DEF JumpBack, Inv
<1> QED
  BY <1>1, <1>2, ReturnInv DEF JumpBack

\* One event is all there was to read.
LEMMA ReturnAfterOneInv ==
  ASSUME Inv, outcome = "running", Return(pos + 1), NEW m \in {0, 1}, Read(1, m),
         UNCHANGED <<fixed, jumpcount>>
  PROVE  Inv'
<1>1. reads' \in Nat /\ enumDepth' \in Nat
  BY ReadType
<1> QED
  BY <1>1, Running, ReturnInv

\* A scalar, the void, or the end of a collection.
LEMMA ReadOneInv ==
  ASSUME Inv, ReadScalar \/ ReadVoid \/ EndVariant \/ EndCollection
  PROVE  Inv'
<1>1. outcome = "running" /\ Return(pos + 1) /\ UNCHANGED <<fixed, jumpcount>>
  BY DEF ReadScalar, ReadVoid, EndVariant, EndCollection, Reading
<1>2. Read(1, 0) \/ Read(1, 1)
  BY DEF ReadScalar, ReadVoid, EndVariant, EndCollection
<1> QED
  BY <1>1, <1>2, ReturnAfterOneInv

\* A value under an option.
LEMMA ReadSomeInv ==
  ASSUME Inv, ReadSome
  PROVE  Inv'
<1>1. outcome = "running"
  BY DEF ReadSome, Reading
<1>2. PICK r \in Requests : stack' = Append(Below, [Top EXCEPT !.wants = r])
  BY DEF ReadSome
<1> DEFINE f == [Top EXCEPT !.wants = r]
<1>3. f \in Frames /\ f.de = Top.de /\ f.depth = Top.depth
  <2>1. r \in AllRequests
    BY RequestsKnown
  <2> QED
    BY <1>1, <2>1, Running DEF Frames
<1> HIDE DEF f
<1>4. Sound(Append(Below, f), remaining, options.depthLimit) /\ Append(Below, f) # <<>>
  BY <1>1, <1>3, Running, Replaced, NotEmpty
<1>5. Sound(stack', remaining', options.depthLimit) /\ stack' # <<>>
  BY <1>2, <1>4 DEF ReadSome, f
<1>6. /\ UNCHANGED <<fixed, outcome>>
      /\ pos' \in Nat /\ jumpcount' \in Nat /\ enumDepth' \in Nat /\ reads' \in Nat
  BY DEF ReadSome, Inv
<1> QED
  BY <1>5, <1>6, StepInv

\* A newtype: one level deeper, or the error of the recursion limit.
LEMMA ReadNewtypeInv ==
  ASSUME Inv, ReadNewtype
  PROVE  Inv'
<1>1. outcome = "running"
  BY DEF ReadNewtype, Reading
<1>2. CASE Exhausted
  <2>1. Fail("RecursionLimitExceeded")
    BY <1>2 DEF ReadNewtype
  <2> QED
    BY <2>1, FailInv DEF Outcomes
<1>3. CASE ~Exhausted
  <2>1. PICK r \in Requests :
          stack' = Append(Below, [Top EXCEPT !.wants = r, !.depth = @ + 1])
    BY <1>3 DEF ReadNewtype
  <2>2. /\ remaining' = Descended
        /\ UNCHANGED <<fixed, outcome>>
        /\ pos' \in Nat /\ jumpcount' \in Nat /\ enumDepth' \in Nat /\ reads' \in Nat
    BY <1>3 DEF ReadNewtype, Inv
  <2> DEFINE f == [Top EXCEPT !.wants = r, !.depth = @ + 1]
  <2>3. f \in Frames /\ f.de = Top.de /\ f.depth = Top.depth + 1
    <3>1. r \in AllRequests
      BY RequestsKnown
    <3>2. Top.depth + 1 \in Nat
      BY <1>1, Running, FrameType
    <3> QED
      BY <1>1, <3>1, <3>2, Running DEF Frames
  <2> HIDE DEF f
  <2>4. Sound(Append(Below, f), Descended, options.depthLimit) /\ Append(Below, f) # <<>>
    BY <1>1, <1>3, <2>3, Running, Deepened, NotEmpty
  <2>5. Sound(stack', remaining', options.depthLimit) /\ stack' # <<>>
    BY <2>1, <2>2, <2>4 DEF f
  <2> QED
    BY <2>2, <2>5, StepInv
<1> QED
  BY <1>2, <1>3

\* A collection begins.
LEMMA OpenInv ==
  ASSUME Inv, outcome = "running", NEW kind \in {"seq", "key"}, Open(kind)
  PROVE  Inv'
<1>1. CASE Exhausted
  <2>1. Fail("RecursionLimitExceeded")
    BY <1>1 DEF Open
  <2> QED
    BY <2>1, FailInv DEF Outcomes
<1>2. CASE ~Exhausted
  <2> DEFINE f == [Top EXCEPT !.kind = kind, !.depth = @ + 1]
  <2>1. /\ stack' = Append(Below, f)
        /\ remaining' = Descended
        /\ pos' = pos + 1
        /\ Read(1, 0)
        /\ UNCHANGED <<fixed, jumpcount, outcome>>
    BY <1>2 DEF Open
  <2>2. f \in Frames /\ f.de = Top.de /\ f.depth = Top.depth + 1
    <3>1. Top.depth + 1 \in Nat
      BY Running, FrameType
    <3> QED
      BY <3>1, Running DEF Frames
  <2> HIDE DEF f
  <2>3. Sound(stack', remaining', options.depthLimit) /\ stack' # <<>>
    BY <1>2, <2>1, <2>2, Running, Deepened, NotEmpty
  <2>4. pos' \in Nat /\ jumpcount' \in Nat /\ enumDepth' \in Nat /\ reads' \in Nat
    BY <2>1, ReadType, Running DEF Inv
  <2> QED
    BY <2>1, <2>3, <2>4, StepInv
<1> QED
  BY <1>1, <1>2

\* A sequence or a mapping begins.
LEMMA ReadCollectionInv ==
  ASSUME Inv, ReadSequence \/ ReadMapping
  PROVE  Inv'
BY OpenInv DEF ReadSequence, ReadMapping, Reading

\* A tag is used, and its node read anew.
LEMMA ReadTagInv ==
  ASSUME Inv, ReadTag
  PROVE  Inv'
<1>1. outcome = "running" /\ Top.enums < MaxEnums
  BY DEF ReadTag, Reading
<1>2. PICK r \in Requests :
        stack' = Append(Below, [Top EXCEPT !.wants = r, !.de = Len(remaining) + 1,
                                           !.enums = @ + 1])
  BY DEF ReadTag
<1> DEFINE f == [Top EXCEPT !.wants = r, !.de = Len(remaining) + 1, !.enums = @ + 1]
<1>3. f \in Frames /\ f.de = Len(remaining) + 1 /\ f.depth = Top.depth
  <2>1. r \in AllRequests
    BY RequestsKnown
  <2>2. Len(remaining) + 1 \in Nat
    BY <1>1, Running, TopType
  <2>3. Top \in Frames /\ Top.enums + 1 \in Nat
    BY <1>1, Running DEF Frames
  <2> QED
    BY <2>1, <2>2, <2>3 DEF Frames
<1> HIDE DEF f
<1>4. /\ Sound(Append(Below, f), Append(remaining, remaining[Top.de]), options.depthLimit)
      /\ Append(Below, f) # <<>>
  BY <1>1, <1>3, Running, Moved, NotEmpty
<1>5. Sound(stack', remaining', options.depthLimit) /\ stack' # <<>>
  BY <1>2, <1>4 DEF ReadTag, f
<1>6. /\ UNCHANGED <<fixed, outcome>>
      /\ pos' \in Nat /\ jumpcount' \in Nat /\ enumDepth' \in Nat /\ reads' \in Nat
  BY DEF ReadTag, Inv
<1> QED
  BY <1>5, <1>6, StepInv

\* The innermost call goes on as f and calls for the node at start.
LEMMA CallFreshSound ==
  ASSUME Inv, outcome = "running", NEW start \in Nat,
         NEW f \in Frames, f.de = Top.de, f.depth = Top.depth,
         CallFresh(f, start)
  PROVE  Sound(stack', remaining', options.depthLimit) /\ stack' # <<>>
<1>1. PICK r \in Requests :
        stack' = Append(Append(Below, f), Node(r, Len(remaining) + 1, start, f.depth))
  BY DEF CallFresh
<1> DEFINE g == Node(r, Len(remaining) + 1, start, f.depth)
<1>2. g \in Frames /\ g.de = Len(remaining) + 1 /\ g.depth = Top.depth
  <2>1. Len(remaining) + 1 \in Nat /\ f.depth \in Nat
    BY Running, TopType
  <2> QED
    BY <2>1, NodeType
<1> HIDE DEF g
<1>3. /\ Sound(Append(Append(Below, f), g), Append(remaining, remaining[Top.de]),
               options.depthLimit)
      /\ Append(Append(Below, f), g) # <<>>
  BY <1>2, Running, Called, NotEmpty
<1>4. remaining' = Append(remaining, remaining[Top.de])
  BY DEF CallFresh
<1> QED
  BY <1>1, <1>3, <1>4 DEF g

\* An enum written as a mapping.
LEMMA OpenVariantInv ==
  ASSUME Inv, OpenVariant
  PROVE  Inv'
<1>1. /\ outcome = "running"
      /\ pos' = pos + 2
      /\ enumDepth' = EnumDepthAfter(1) + 1
      /\ reads' = reads + 2
      /\ CallFresh([Top EXCEPT !.kind = "variant", !.enums = @ + 1], pos')
      /\ UNCHANGED <<fixed, jumpcount, outcome>>
  BY DEF OpenVariant, Reading
<1> DEFINE f == [Top EXCEPT !.kind = "variant", !.enums = @ + 1]
<1>2. f \in Frames /\ f.de = Top.de /\ f.depth = Top.depth
  <2>1. Top \in Frames /\ Top.enums + 1 \in Nat
    BY <1>1, Running DEF Frames
  <2> QED
    BY <2>1 DEF Frames
<1> HIDE DEF f
<1>3. pos' \in Nat /\ jumpcount' \in Nat /\ enumDepth' \in Nat /\ reads' \in Nat
  BY <1>1 DEF Inv, EnumDepthAfter
<1>4. Sound(stack', remaining', options.depthLimit) /\ stack' # <<>>
  <2>1. CallFresh(f, pos')
    BY <1>1 DEF f
  <2>2. PICK start \in Nat : start = pos'
    BY <1>3
  <2> QED
    BY <1>1, <1>2, <2>1, <2>2, CallFreshSound
<1> QED
  BY <1>1, <1>3, <1>4, StepInv

\* The next element of a sequence, and the value of a key.
LEMMA NextInv ==
  ASSUME Inv, NextElement \/ NextValue
  PROVE  Inv'
<1>1. /\ outcome = "running"
      /\ CallFresh(Top, pos) \/ CallFresh([Top EXCEPT !.kind = "key"], pos)
      /\ UNCHANGED <<fixed, pos, jumpcount, enumDepth, outcome, reads>>
  BY DEF NextElement, NextValue
<1> DEFINE f == [Top EXCEPT !.kind = "key"]
<1>2. f \in Frames /\ f.de = Top.de /\ f.depth = Top.depth /\ Top \in Frames
  BY <1>1, Running DEF Frames
<1>3. CallFresh(Top, pos) \/ CallFresh(f, pos)
  BY <1>1
<1> HIDE DEF f
<1>4. pos \in Nat /\ pos' \in Nat /\ jumpcount' \in Nat /\ enumDepth' \in Nat /\ reads' \in Nat
  BY <1>1 DEF Inv
<1>5. Sound(stack', remaining', options.depthLimit) /\ stack' # <<>>
  BY <1>1, <1>2, <1>3, <1>4, CallFreshSound
<1> QED
  BY <1>1, <1>4, <1>5, StepInv

\* The next key of a mapping.
LEMMA NextKeyInv ==
  ASSUME Inv, NextKey
  PROVE  Inv'
<1>1. outcome = "running" /\ ~AtEnd
  BY DEF NextKey, AtKey
<1> DEFINE f == [Top EXCEPT !.kind = "value", !.keys = @ \cup Remembered,
                            !.given = @ \cup {pos}]
<1>2. PICK r \in Requests :
        stack' = Append(Append(Below, f), Node(r, Top.de, pos, Top.depth))
  BY DEF NextKey
<1>3. f \in Frames /\ f.de = Top.de /\ f.depth = Top.depth
  <2>1. Remembered \subseteq Texts
    BY <1>1, EvType DEF Remembered, Events
  <2>2. Top \in Frames /\ pos \in Nat
    BY <1>1, Running DEF Inv
  <2>3. Top.keys \cup Remembered \in SUBSET Texts /\ Top.given \cup {pos} \in SUBSET Nat
    BY <2>1, <2>2 DEF Frames
  <2> QED
    BY <2>2, <2>3 DEF Frames
<1> HIDE DEF f
<1> DEFINE g == Node(r, Top.de, pos, Top.depth)
<1>4. g \in Frames /\ g.de = Top.de /\ g.depth = Top.depth
  <2>1. Top.de \in Nat /\ pos \in Nat /\ Top.depth \in Nat
    BY <1>1, Running, FrameType DEF Inv
  <2> QED
    BY <2>1, NodeType
<1> HIDE DEF g
<1>5. /\ Sound(Append(Append(Below, f), g), remaining, options.depthLimit)
      /\ Append(Append(Below, f), g) # <<>>
  BY <1>1, <1>3, <1>4, Running, CalledHere, NotEmpty
<1>6. /\ UNCHANGED <<fixed, outcome>> /\ remaining' = remaining
      /\ pos' \in Nat /\ jumpcount' \in Nat /\ enumDepth' \in Nat /\ reads' \in Nat
  BY DEF NextKey, Inv
<1>7. Sound(stack', remaining', options.depthLimit) /\ stack' # <<>>
  BY <1>2, <1>5, <1>6 DEF g
<1> QED
  BY <1>6, <1>7, StepInv

\* A node is passed over.
LEMMA IgnoreInv ==
  ASSUME Inv, Ignore
  PROVE  Inv'
<1>1. /\ outcome = "running" /\ ~AtEnd /\ Whole(pos)
      /\ Read(After(pos) - pos, Leaves(pos, After(pos)))
      /\ Return(After(pos))
      /\ UNCHANGED <<fixed, jumpcount>>
  BY DEF Ignore, Reading
<1>2. pos \in Nat /\ After(pos) \in Nat /\ After(pos) >= pos + 1
  BY <1>1, EvType, AfterType DEF Inv
<1>3. After(pos) - pos \in Nat /\ Leaves(pos, After(pos)) \in Nat
  <2>1. After(pos) - pos \in Nat
    BY ONLY <1>2
  <2> QED
    BY <1>2, <2>1, LeavesType
<1>4. reads' \in Nat /\ enumDepth' \in Nat
  BY <1>1, <1>3, ReadType
<1> QED
  BY <1>1, <1>2, <1>4, ReturnInv

\* The distance to a later position.
LEMMA Ahead == \A n, q \in Nat : q >= n + 1 + 1 => q - n \in Nat
OBVIOUS

\* A pair with a key that is a duplicate is passed over.
LEMMA SkipPairInv ==
  ASSUME Inv, SkipPair
  PROVE  Inv'
<1>1. /\ outcome = "running" /\ ~AtEnd /\ Whole(pos + 1)
      /\ pos' = After(pos + 1)
      /\ Read(pos' - pos, Leaves(pos, pos'))
      /\ UNCHANGED <<fixed, remaining, stack, jumpcount, outcome>>
  BY DEF SkipPair, AtKey
<1>2. pos \in Nat /\ pos' \in Nat /\ pos' >= pos + 1 + 1
  BY <1>1, EvType, AfterType DEF Inv
<1>3. pos' - pos \in Nat /\ Leaves(pos, pos') \in Nat
  <2>1. PICK n \in Nat, q \in Nat : n = pos /\ q = pos' /\ q >= n + 1 + 1
    BY <1>2
  <2>2. q - n \in Nat
    BY ONLY <2>1, Ahead
  <2> QED
    BY <1>2, <2>1, <2>2, LeavesType
<1>4. reads' \in Nat /\ enumDepth' \in Nat
  BY <1>1, <1>3, ReadType
<1>5. Sound(stack', remaining', options.depthLimit) /\ stack' # <<>> /\ jumpcount' \in Nat
  BY <1>1 DEF Inv
<1> QED
  BY <1>1, <1>2, <1>4, <1>5, StepInv

\* Every action keeps the invariant.
THEOREM EventDeStep == Inv /\ [Next]_vars => Inv'
<1> SUFFICES ASSUME Inv, [Next]_vars
             PROVE  Inv'
  OBVIOUS
<1>1. CASE FollowAlias
  BY <1>1, FollowAliasInv
<1>2. CASE JumpBack
  BY <1>2, JumpBackInv
<1>3. CASE ReadScalar \/ ReadVoid \/ EndVariant \/ EndCollection
  BY <1>3, ReadOneInv
<1>4. CASE ReadSome
  BY <1>4, ReadSomeInv
<1>5. CASE ReadNewtype
  BY <1>5, ReadNewtypeInv
<1>6. CASE ReadSequence \/ ReadMapping
  BY <1>6, ReadCollectionInv
<1>7. CASE ReadTag
  BY <1>7, ReadTagInv
<1>8. CASE OpenVariant
  BY <1>8, OpenVariantInv
<1>9. CASE Ignore
  BY <1>9, IgnoreInv
<1>10. CASE NextElement \/ NextValue
  BY <1>10, NextInv
<1>11. CASE NextKey
  BY <1>11, NextKeyInv
<1>12. CASE SkipPair
  BY <1>12, SkipPairInv
<1>13. CASE DuplicateIsError \/ Refuse
  BY <1>13, FailInv DEF DuplicateIsError, Refuse, Outcomes
<1>14. CASE UNCHANGED vars
  BY <1>14 DEF vars, Inv, IsDocument, Sound, Stacked, Bounded
<1> QED
  BY <1>1, <1>2, <1>3, <1>4, <1>5, <1>6, <1>7, <1>8, <1>9, <1>10, <1>11, <1>12,
     <1>13, <1>14 DEF Next

\* No call changes the options, nor what visitors ask for.
LEMMA RequestsKept ==
  ASSUME [Next]_vars
  PROVE  Requests' = Requests
<1>1. options' = options
  BY DEF Next, vars, fixed, Fail, Open, FollowAlias, JumpBack, ReadScalar, ReadVoid, ReadSome,
         ReadNewtype, ReadSequence, ReadMapping, ReadTag, OpenVariant, EndVariant, Ignore,
         NextElement, EndCollection, NextKey, DuplicateIsError, SkipPair, NextValue, Refuse
<1> QED
  BY <1>1 DEF Requests

\* The types: every call has a DeserializerFromEvents that still exists, and no
\* call has a newer one than the calls it made (the borrows of src/de.rs).
THEOREM EventDeTypeCorrect == Spec => []EventDeTypeOK
<1> QED
  BY InvIsChecked, EventDeInit, EventDeStep, PTL DEF Spec

-----------------------------------------------------------------------------
(* The collections that are open: each has lowered remaining_depth once, on *)
(* the DeserializerFromEvents of its call or on one that was made from it.  *)

IsOpen(f) == f.kind \in {"seq", "key", "value"}

\* The collections among the first i calls of s.
Opened(s, i) == { j \in 1 .. i : IsOpen(s[j]) }

\* No call has more of them around it, itself included, than its depth says.
Nests(s) == \A i \in 1 .. Len(s) : Cardinality(Opened(s, i)) <= s[i].depth

NestInv == Nests(stack)

\* They are finitely many, and one call more adds itself if it is one.
LEMMA OpenedType ==
  ASSUME NEW s, NEW i \in Nat
  PROVE  IsFiniteSet(Opened(s, i)) /\ Cardinality(Opened(s, i)) \in Nat
<1>1. IsFiniteSet(1 .. i)
  BY FS_Interval
<1>2. IsFiniteSet(Opened(s, i))
  BY <1>1, FS_Subset DEF Opened
<1> QED
  BY <1>2, FS_CardinalityType

LEMMA OpenedNext ==
  ASSUME NEW s, NEW i \in Nat
  PROVE  Cardinality(Opened(s, i + 1)) = IF IsOpen(s[i + 1]) THEN Cardinality(Opened(s, i)) + 1
                                                             ELSE Cardinality(Opened(s, i))
<1>1. \A j : j \in 1 .. i + 1 <=> (j \in 1 .. i \/ j = i + 1)
  OBVIOUS
<1>2. CASE IsOpen(s[i + 1])
  <2>1. Opened(s, i + 1) = Opened(s, i) \cup {i + 1}
    BY <1>1, <1>2 DEF Opened
  <2>2. i + 1 \notin Opened(s, i)
    BY DEF Opened
  <2> QED
    BY <1>2, <2>1, <2>2, OpenedType, FS_AddElement
<1>3. CASE ~IsOpen(s[i + 1])
  <2>1. Opened(s, i + 1) = Opened(s, i)
    BY <1>1, <1>3 DEF Opened
  <2> QED
    BY <1>3, <2>1
<1> QED
  BY <1>2, <1>3

\* Without the innermost call.
LEMMA NestsRest ==
  ASSUME NEW s \in Seq(Frames), s # <<>>, Nests(s)
  PROVE  /\ Nests(Rest(s))
         /\ Cardinality(Opened(Rest(s), Len(Rest(s)))) + (IF IsOpen(Last(s)) THEN 1 ELSE 0)
              <= Last(s).depth
<1>1. /\ Len(s) \in Nat \ {0} /\ Len(s) - 1 \in Nat /\ Len(s) - 1 + 1 = Len(s)
      /\ Len(s) - 1 \in 0 .. Len(s) /\ Len(s) \in 1 .. Len(s)
  OBVIOUS
<1>2. /\ Len(Rest(s)) = Len(s) - 1
      /\ \A i \in 1 .. Len(s) - 1 : Rest(s)[i] = s[i]
  BY <1>1, PrefixProperties DEF Rest
<1>3. \A i \in 0 .. Len(s) - 1 : Opened(Rest(s), i) = Opened(s, i)
  <2> TAKE i \in 0 .. Len(s) - 1
  <2>1. \A j \in 1 .. i : j \in 1 .. Len(s) - 1
    BY <1>1
  <2> QED
    BY <1>2, <2>1 DEF Opened
<1>4. Nests(Rest(s))
  <2> SUFFICES ASSUME NEW i \in 1 .. Len(Rest(s))
               PROVE  Cardinality(Opened(Rest(s), i)) <= Rest(s)[i].depth
    BY DEF Nests
  <2>1. i \in 1 .. Len(s) - 1 /\ i \in 0 .. Len(s) - 1 /\ i \in 1 .. Len(s)
    BY <1>1, <1>2
  <2> QED
    BY <1>2, <1>3, <2>1 DEF Nests
<1>5. Cardinality(Opened(s, Len(s))) <= Last(s).depth
  BY <1>1 DEF Nests, Last
<1>6. Cardinality(Opened(s, Len(s))) =
        IF IsOpen(Last(s)) THEN Cardinality(Opened(s, Len(s) - 1)) + 1
                           ELSE Cardinality(Opened(s, Len(s) - 1))
  <2>1. PICK n \in Nat : n = Len(s) - 1
    BY <1>1
  <2>2. n + 1 = Len(s)
    BY <1>1, <2>1
  <2> QED
    BY <2>1, <2>2, OpenedNext DEF Last
<1>7. Opened(Rest(s), Len(Rest(s))) = Opened(s, Len(s) - 1)
  <2>1. Len(s) - 1 \in 0 .. Len(s) - 1
    BY <1>1
  <2> QED
    BY <1>2, <1>3, <2>1
<1>8. Cardinality(Opened(s, Len(s) - 1)) \in Nat
  BY <1>1, OpenedType
<1> QED
  BY <1>4, <1>5, <1>6, <1>7, <1>8

\* A call more.
LEMMA NestsPush ==
  ASSUME NEW s \in Seq(Frames), Nests(s), NEW f \in Frames,
         Cardinality(Opened(s, Len(s))) + (IF IsOpen(f) THEN 1 ELSE 0) <= f.depth
  PROVE  Nests(Append(s, f))
<1> DEFINE t == Append(s, f)
<1>1. /\ Len(s) \in Nat
      /\ Len(t) = Len(s) + 1
      /\ \A i \in 1 .. Len(s) : t[i] = s[i]
      /\ t[Len(s) + 1] = f
  OBVIOUS
<1> HIDE DEF t
<1>2. \A i \in 0 .. Len(s) : Opened(t, i) = Opened(s, i)
  <2> TAKE i \in 0 .. Len(s)
  <2>1. \A j \in 1 .. i : j \in 1 .. Len(s)
    BY <1>1
  <2> QED
    BY <1>1, <2>1 DEF Opened
<1>3. Cardinality(Opened(t, Len(s) + 1)) <= f.depth
  <2>1. Len(s) \in 0 .. Len(s)
    BY <1>1
  <2>2. Opened(t, Len(s)) = Opened(s, Len(s)) /\ Cardinality(Opened(s, Len(s))) \in Nat
    BY <1>1, <1>2, <2>1, OpenedType
  <2>3. Cardinality(Opened(t, Len(s) + 1)) =
          IF IsOpen(f) THEN Cardinality(Opened(s, Len(s))) + 1
                       ELSE Cardinality(Opened(s, Len(s)))
    BY <1>1, <2>2, OpenedNext
  <2> QED
    BY <2>2, <2>3
<1>4. \A i \in 1 .. Len(t) : Cardinality(Opened(t, i)) <= t[i].depth
  <2> TAKE i \in 1 .. Len(t)
  <2>1. CASE i = Len(s) + 1
    BY <1>1, <1>3, <2>1
  <2>2. CASE i \in 1 .. Len(s)
    <3>1. i \in 0 .. Len(s)
      BY <1>1, <2>2
    <3> QED
      BY <1>1, <1>2, <2>2, <3>1 DEF Nests
  <2> QED
    BY <1>1, <2>1, <2>2
<1> QED
  BY <1>4 DEF Nests, t

\* The innermost call becomes f, one level deeper if that opens a collection.
LEMMA NestsReplace ==
  ASSUME NEW s \in Seq(Frames), s # <<>>, Nests(s), NEW f \in Frames,
         f.depth = Last(s).depth \/ f.depth = Last(s).depth + 1,
         IsOpen(f) => IsOpen(Last(s)) \/ f.depth = Last(s).depth + 1
  PROVE  Nests(Append(Rest(s), f))
<1>1. Rest(s) \in Seq(Frames) /\ Len(Rest(s)) \in Nat
  <2>1. Len(s) \in Nat /\ Len(s) - 1 \in 0 .. Len(s)
    OBVIOUS
  <2>2. Rest(s) \in Seq(Frames)
    BY <2>1, PrefixProperties DEF Rest
  <2> QED
    BY <2>2
<1>2. Last(s).depth \in Nat /\ f.depth \in Nat
  BY LastType, FrameType
<1>3. PICK n \in Nat : n = Cardinality(Opened(Rest(s), Len(Rest(s))))
  BY <1>1, OpenedType
<1>4. n + (IF IsOpen(Last(s)) THEN 1 ELSE 0) <= Last(s).depth
  BY <1>3, NestsRest
<1>5. n + (IF IsOpen(f) THEN 1 ELSE 0) <= f.depth
  <2>1. CASE IsOpen(Last(s))
    BY <1>2, <1>4, <2>1
  <2>2. CASE ~IsOpen(Last(s))
    BY <1>2, <1>4, <2>2
  <2> QED
    BY <2>1, <2>2
<1> QED
  BY <1>1, <1>3, <1>5, NestsRest, NestsPush

\* The innermost call goes on as f and calls g, which has opened nothing yet.
LEMMA NestsCall ==
  ASSUME NEW s \in Seq(Frames), s # <<>>, Nests(s), NEW f \in Frames, NEW g \in Frames,
         f.depth = Last(s).depth, IsOpen(f) => IsOpen(Last(s)),
         g.depth = Last(s).depth, ~IsOpen(g)
  PROVE  Nests(Append(Append(Rest(s), f), g))
<1> DEFINE t == Append(Rest(s), f)
<1>1. Nests(t)
  BY NestsReplace
<1>2. t \in Seq(Frames) /\ t # <<>> /\ Len(t) \in 1 .. Len(t) /\ t[Len(t)] = f
  <2>1. Len(s) \in Nat /\ Len(s) - 1 \in 0 .. Len(s)
    OBVIOUS
  <2>2. Rest(s) \in Seq(Frames)
    BY <2>1, PrefixProperties DEF Rest
  <2>3. Len(Rest(s)) \in Nat
    BY <2>2
  <2> QED
    BY <2>2, <2>3
<1> HIDE DEF t
<1>3. Cardinality(Opened(t, Len(t))) <= g.depth
  BY <1>1, <1>2 DEF Nests
<1>4. Cardinality(Opened(t, Len(t))) \in Nat
  BY <1>2, OpenedType
<1>5. Nests(Append(t, g))
  BY <1>1, <1>2, <1>3, <1>4, NestsPush
<1> QED
  BY <1>5 DEF t

\* The stack of the calls in progress.
LEMMA NestTypes ==
  ASSUME Inv
  PROVE  /\ stack \in Seq(Frames)
         /\ outcome = "running" => /\ stack # <<>>
                                   /\ Top = Last(stack)
                                   /\ Below = Rest(stack)
BY DEF Inv, Sound, Stacked, Top, Last, Below, Rest

\* The calls stay as they are, or the innermost returns.
LEMMA NestSame ==
  ASSUME NestInv, stack' = stack
  PROVE  NestInv'
BY DEF NestInv, Nests, Opened, IsOpen

LEMMA NestReturns ==
  ASSUME Inv, NestInv, outcome = "running", stack' = Below
  PROVE  NestInv'
<1>1. Nests(Below)
  BY NestTypes, NestsRest DEF NestInv
<1> QED
  BY <1>1 DEF NestInv, Nests, Opened, IsOpen

\* The innermost call becomes f.
LEMMA NestGoesOn ==
  ASSUME Inv, NestInv, outcome = "running", NEW f \in Frames,
         f.depth = Top.depth \/ f.depth = Top.depth + 1,
         IsOpen(f) => IsOpen(Top) \/ f.depth = Top.depth + 1,
         stack' = Append(Below, f)
  PROVE  NestInv'
<1>1. Nests(Append(Below, f))
  BY NestTypes, NestsReplace DEF NestInv
<1> QED
  BY <1>1 DEF NestInv, Nests, Opened, IsOpen

\* The innermost call goes on as f and calls g.
LEMMA NestCalls ==
  ASSUME Inv, NestInv, outcome = "running", NEW f \in Frames, NEW g \in Frames,
         f.depth = Top.depth, IsOpen(f) => IsOpen(Top),
         g.depth = Top.depth, ~IsOpen(g),
         stack' = Append(Append(Below, f), g)
  PROVE  NestInv'
<1>1. Nests(Append(Append(Below, f), g))
  BY NestTypes, NestsCall DEF NestInv
<1> QED
  BY <1>1 DEF NestInv, Nests, Opened, IsOpen

\* Following an alias: the target's call starts with the depth of the alias.
LEMMA FollowAliasNest ==
  ASSUME Inv, NestInv, FollowAlias
  PROVE  NestInv'
<1>1. outcome = "running" /\ stack # <<>> /\ ~AtEnd /\ Ev.type = "Alias"
  BY DEF FollowAlias, Reading, Inv
<1>2. CASE jumpcount + 1 > AliasLimit
  BY <1>2, NestSame DEF FollowAlias, Fail
<1>3. CASE ~(jumpcount + 1 > AliasLimit)
  <2> DEFINE f == [Top EXCEPT !.kind = "jump", !.saved = pos + 1]
             g == Node(Top.wants, Len(remaining) + 1, document.aliases[Ev.id + 1], Top.depth)
  <2>1. stack' = Append(Append(Below, f), g)
    BY <1>3 DEF FollowAlias
  <2>2. f \in Frames /\ f.depth = Top.depth /\ ~IsOpen(f)
    <3>1. Top \in Frames /\ pos + 1 \in Nat
      BY <1>1, Running
    <3> QED
      BY ONLY <3>1 DEF Frames, IsOpen
  <2>3. g \in Frames /\ g.depth = Top.depth /\ ~IsOpen(g)
    <3>1. /\ Top.wants \in AllRequests
          /\ Len(remaining) + 1 \in Nat
          /\ document.aliases[Ev.id + 1] \in Nat
          /\ Top.depth \in Nat
      BY <1>1, TopType, EvType DEF Frames
    <3>2. g \in Frames /\ g.depth = Top.depth
      BY <3>1, NodeShape
    <3> QED
      BY <3>2 DEF Node, IsOpen
  <2> HIDE DEF f, g
  <2> QED
    BY <1>1, <2>1, <2>2, <2>3, NestCalls
<1> QED
  BY <1>2, <1>3

\* An option, and a newtype, which is a level deeper and opens no collection.
LEMMA AsksAgainNest ==
  ASSUME Inv, NestInv, ReadSome \/ ReadNewtype
  PROVE  NestInv'
<1>1. outcome = "running" /\ Top \in Frames /\ Top.kind = "node" /\ Top.depth + 1 \in Nat
  <2>1. outcome = "running" /\ Top.kind = "node"
    BY DEF ReadSome, ReadNewtype, Reading
  <2> QED
    BY <2>1, Running, FrameType
<1>2. CASE ReadSome
  <2>1. PICK r \in AllRequests : stack' = Append(Below, [Top EXCEPT !.wants = r])
    BY <1>2, RequestsKnown DEF ReadSome
  <2> DEFINE f == [Top EXCEPT !.wants = r]
  <2>2. f \in Frames /\ f.depth = Top.depth /\ f.kind = "node"
    BY <1>1 DEF Frames
  <2>3. ~IsOpen(f) /\ stack' = Append(Below, f)
    BY <2>1, <2>2 DEF IsOpen
  <2> HIDE DEF f
  <2> QED
    BY <1>1, <2>2, <2>3, NestGoesOn
<1>3. CASE ReadNewtype /\ Exhausted
  BY <1>3, NestSame DEF ReadNewtype, Fail
<1>4. CASE ReadNewtype /\ ~Exhausted
  <2>1. PICK r \in AllRequests :
          stack' = Append(Below, [Top EXCEPT !.wants = r, !.depth = @ + 1])
    BY <1>4, RequestsKnown DEF ReadNewtype
  <2> DEFINE f == [Top EXCEPT !.wants = r, !.depth = @ + 1]
  <2>2. f \in Frames /\ f.depth = Top.depth + 1 /\ f.kind = "node"
    BY <1>1 DEF Frames
  <2>3. ~IsOpen(f) /\ stack' = Append(Below, f)
    BY <2>1, <2>2 DEF IsOpen
  <2> HIDE DEF f
  <2> QED
    BY <1>1, <2>2, <2>3, NestGoesOn
<1> QED
  BY <1>2, <1>3, <1>4

\* A sequence or a mapping: one more is open, one level deeper.
LEMMA OpenNest ==
  ASSUME Inv, NestInv, ReadSequence \/ ReadMapping
  PROVE  NestInv'
<1>1. outcome = "running" /\ Top \in Frames /\ Top.depth + 1 \in Nat
  <2>1. outcome = "running"
    BY DEF ReadSequence, ReadMapping, Reading
  <2> QED
    BY <2>1, Running, FrameType
<1>2. PICK kind \in {"seq", "key"} : Open(kind)
  BY DEF ReadSequence, ReadMapping
<1>3. CASE Exhausted
  BY <1>2, <1>3, NestSame DEF Open, Fail
<1>4. CASE ~Exhausted
  <2>1. stack' = Append(Below, [Top EXCEPT !.kind = kind, !.depth = @ + 1])
    BY <1>2, <1>4 DEF Open
  <2> DEFINE f == [Top EXCEPT !.kind = kind, !.depth = @ + 1]
  <2>2. f \in Frames /\ f.depth = Top.depth + 1
    BY <1>1 DEF Frames
  <2>3. stack' = Append(Below, f)
    BY <2>1
  <2> HIDE DEF f
  <2> QED
    BY <1>1, <2>2, <2>3, NestGoesOn
<1> QED
  BY <1>3, <1>4

\* A tag: the node is read anew, at the same depth.
LEMMA ReadTagNest ==
  ASSUME Inv, NestInv, ReadTag
  PROVE  NestInv'
<1>1. /\ outcome = "running" /\ Top \in Frames /\ Top.kind = "node"
      /\ Len(remaining) + 1 \in Nat /\ Top.enums + 1 \in Nat
  <2>1. outcome = "running" /\ Top.kind = "node"
    BY DEF ReadTag, Reading
  <2>2. Top \in Frames /\ Len(remaining) + 1 \in Nat
    BY <2>1, Running, TopType
  <2> QED
    BY <2>1, <2>2 DEF Frames
<1>2. PICK r \in AllRequests :
        stack' = Append(Below, [Top EXCEPT !.wants = r, !.de = Len(remaining) + 1,
                                           !.enums = @ + 1])
  BY RequestsKnown DEF ReadTag
<1> DEFINE f == [Top EXCEPT !.wants = r, !.de = Len(remaining) + 1, !.enums = @ + 1]
<1>3. f \in Frames /\ f.depth = Top.depth /\ f.kind = "node"
  BY <1>1 DEF Frames
<1>4. ~IsOpen(f) /\ stack' = Append(Below, f)
  BY <1>2, <1>3 DEF IsOpen
<1> HIDE DEF f
<1> QED
  BY <1>1, <1>3, <1>4, NestGoesOn

\* A call on a new DeserializerFromEvents.
LEMMA CallFreshNest ==
  ASSUME Inv, NestInv, outcome = "running", NEW f \in Frames, NEW start \in Nat,
         f.depth = Top.depth, IsOpen(f) => IsOpen(Top), CallFresh(f, start)
  PROVE  NestInv'
<1>1. PICK r \in Requests :
        stack' = Append(Append(Below, f), Node(r, Len(remaining) + 1, start, f.depth))
  BY DEF CallFresh
<1>2. Len(remaining) + 1 \in Nat /\ f.depth \in Nat
  BY Running, TopType, FrameType
<1>3. PICK g \in Frames : /\ g = Node(r, Len(remaining) + 1, start, f.depth)
                          /\ g.depth = Top.depth
  BY <1>2, NodeType
<1>4. ~IsOpen(g)
  BY <1>3 DEF Node, IsOpen
<1> QED
  BY <1>1, <1>3, <1>4, NestCalls

\* An enum written as a mapping, which counts for nothing; elements; values.
LEMMA OpenVariantNest ==
  ASSUME Inv, NestInv, OpenVariant
  PROVE  NestInv'
<1>1. /\ outcome = "running"
      /\ pos' = pos + 2
      /\ CallFresh([Top EXCEPT !.kind = "variant", !.enums = @ + 1], pos')
  BY DEF OpenVariant, Reading
<1>2. Top \in Frames /\ Top.enums + 1 \in Nat /\ pos + 2 \in Nat
  BY <1>1, Running DEF Frames, Inv
<1> DEFINE f == [Top EXCEPT !.kind = "variant", !.enums = @ + 1]
<1>3. f \in Frames /\ f.depth = Top.depth /\ f.kind = "variant"
  BY <1>2 DEF Frames
<1>4. PICK start \in Nat : start = pos'
  BY <1>1, <1>2
<1>5. ~IsOpen(f) /\ CallFresh(f, start)
  BY <1>1, <1>3, <1>4 DEF IsOpen
<1> HIDE DEF f
<1> QED
  BY <1>1, <1>3, <1>5, CallFreshNest

LEMMA NextNest ==
  ASSUME Inv, NestInv, NextElement \/ NextValue
  PROVE  NestInv'
<1>1. outcome = "running" /\ Top \in Frames /\ pos \in Nat
  <2>1. outcome = "running"
    BY DEF NextElement, NextValue
  <2> QED
    BY <2>1, Running DEF Inv
<1>2. CASE NextElement
  BY <1>1, <1>2, CallFreshNest DEF NextElement
<1>3. CASE NextValue
  <2>1. CallFresh([Top EXCEPT !.kind = "key"], pos) /\ IsOpen(Top)
    BY <1>3 DEF NextValue, IsOpen
  <2> DEFINE f == [Top EXCEPT !.kind = "key"]
  <2>2. f \in Frames /\ f.depth = Top.depth
    BY <1>1 DEF Frames
  <2>3. CallFresh(f, pos)
    BY <2>1
  <2> HIDE DEF f
  <2> QED
    BY <1>1, <2>1, <2>2, <2>3, CallFreshNest
<1> QED
  BY <1>2, <1>3

\* A key.
LEMMA NextKeyNest ==
  ASSUME Inv, NestInv, NextKey
  PROVE  NestInv'
<1>1. outcome = "running" /\ ~AtEnd /\ IsOpen(Top)
  BY DEF NextKey, AtKey, IsOpen
<1> DEFINE f == [Top EXCEPT !.kind = "value", !.keys = @ \cup Remembered,
                            !.given = @ \cup {pos}]
<1>2. PICK r \in Requests :
        stack' = Append(Append(Below, f), Node(r, Top.de, pos, Top.depth))
  BY DEF NextKey
<1>3. f \in Frames /\ f.depth = Top.depth
  <2>1. Remembered \subseteq Texts
    BY <1>1, EvType DEF Remembered, Events
  <2>2. Top \in Frames /\ pos \in Nat
    BY <1>1, Running DEF Inv
  <2>3. Top.keys \cup Remembered \in SUBSET Texts /\ Top.given \cup {pos} \in SUBSET Nat
    BY <2>1, <2>2 DEF Frames
  <2> QED
    BY <2>2, <2>3 DEF Frames
<1> HIDE DEF f
<1>4. PICK g \in Frames : g = Node(r, Top.de, pos, Top.depth) /\ g.depth = Top.depth
  <2>1. Top.de \in Nat /\ pos \in Nat /\ Top.depth \in Nat
    BY <1>1, Running, FrameType DEF Inv
  <2> QED
    BY <2>1, NodeType
<1>5. ~IsOpen(g)
  BY <1>4 DEF Node, IsOpen
<1> QED
  BY <1>1, <1>2, <1>3, <1>4, <1>5, NestCalls

\* Every step keeps it.
LEMMA NestStep == Inv /\ NestInv /\ [Next]_vars => NestInv'
<1> SUFFICES ASSUME Inv, NestInv, [Next]_vars
             PROVE  NestInv'
  OBVIOUS
<1>1. CASE FollowAlias
  BY <1>1, FollowAliasNest
<1>2. CASE JumpBack \/ ReadScalar \/ ReadVoid \/ EndVariant \/ EndCollection \/ Ignore
  <2>1. outcome = "running" /\ stack' = Below
    BY <1>2 DEF JumpBack, ReadScalar, ReadVoid, EndVariant, EndCollection, Ignore, Reading, Return
  <2> QED
    BY <2>1, NestReturns
<1>3. CASE ReadSome \/ ReadNewtype
  BY <1>3, AsksAgainNest
<1>4. CASE ReadSequence \/ ReadMapping
  BY <1>4, OpenNest
<1>5. CASE ReadTag
  BY <1>5, ReadTagNest
<1>6. CASE OpenVariant
  BY <1>6, OpenVariantNest
<1>7. CASE NextElement \/ NextValue
  BY <1>7, NextNest
<1>8. CASE NextKey
  BY <1>8, NextKeyNest
<1>9. CASE SkipPair \/ DuplicateIsError \/ Refuse \/ UNCHANGED vars
  <2>1. stack' = stack
    BY <1>9 DEF SkipPair, DuplicateIsError, Refuse, Fail, vars
  <2> QED
    BY <2>1, NestSame
<1> QED
  BY <1>1, <1>2, <1>3, <1>4, <1>5, <1>6, <1>7, <1>8, <1>9 DEF Next

LEMMA NestInit == Init => NestInv
<1> SUFFICES ASSUME Init
             PROVE  NestInv
  OBVIOUS
<1>1. Inv
  BY EventDeInit
<1>2. PICK r \in Requests : stack = <<Node(r, 1, 0, 0)>>
  BY DEF Init
<1>3. PICK f \in Frames : f = Node(r, 1, 0, 0) /\ f.depth = 0
  BY <1>1, NodeType
<1>4. ~IsOpen(f)
  BY <1>3 DEF Node, IsOpen
<1>5. Len(stack) = 1 /\ stack[1] = f
  BY <1>2, <1>3
<1>6. Opened(stack, 1) = {}
  BY <1>4, <1>5 DEF Opened
<1>7. \A i \in 1 .. Len(stack) : i = 1
  BY <1>5
<1> QED
  BY <1>3, <1>5, <1>6, <1>7, FS_EmptySet DEF NestInv, Nests

\* What the two invariants say of the calls that check the limit.
LEMMA NestShows ==
  ASSUME Inv, NestInv
  PROVE  CheckedDepthBounded
<1>1. \A i \in 1 .. Len(stack) : OpenCollections(i) <= stack[i].depth
  BY DEF NestInv, Nests, Opened, IsOpen, OpenCollections
<1>2. options.depthLimit > 0 =>
        \A i \in 1 .. Len(stack) : stack[i].depth + remaining[stack[i].de] <= options.depthLimit
  BY DEF Inv, Sound, Bounded
<1> QED
  BY <1>1, <1>2 DEF CheckedDepthBounded

\* recursion_check: whatever visitors ask for, through aliases and tags as well,
\* the sequences and mappings that visit_sequence and visit_mapping read, and
\* newtypes, are nested no deeper than recursion_limit.  (deserialize_enum makes
\* no check, and the mappings it reads are not counted.)
THEOREM CheckedNestingBounded == Spec => []CheckedDepthBounded
<1>1. Init => Inv /\ NestInv
  BY EventDeInit, NestInit
<1>2. Inv /\ NestInv /\ [Next]_vars => (Inv /\ NestInv)'
  BY EventDeStep, NestStep
<1>3. Inv /\ NestInv => CheckedDepthBounded
  BY NestShows
<1> QED
  BY <1>1, <1>2, <1>3, PTL DEF Spec

-----------------------------------------------------------------------------
(* The work that is left.  A jump that returns goes on after its alias, so  *)
(* what follows the aliases in progress is still to be read, once each.     *)

\* What the caller of an alias may still read of a document of l events.
Owes(f, l) == IF f.kind = "jump" THEN l - f.saved ELSE 0

\* w[i] is at least what the calls up to the i-th owe together.
Covers(w, s, l) ==
  /\ w \in Seq(Nat)
  /\ Len(w) = Len(s)
  /\ \A i \in 1 .. Len(s) : Owes(s[i], l) \in Nat /\ Owes(s[i], l) <= w[i]
  /\ \A i, j \in 1 .. Len(s) : i < j => w[i] + Owes(s[j], l) <= w[j]

\* The n events read, the rest of the document from position p on, and what the
\* calls owe are no more than total.
Affordable(s, p, n, l, total) ==
  /\ p <= l
  /\ \E w : Covers(w, s, l) /\ n + (l - p) + w[Len(s)] <= total

\* The innermost call is over.
LEMMA CoversRest ==
  ASSUME NEW s \in Seq(Frames), s # <<>>, NEW l \in Nat, NEW w, Covers(w, s, l)
  PROVE  \E v : /\ Covers(v, Rest(s), l)
                /\ Rest(s) # <<>> => v[Len(Rest(s))] + Owes(Last(s), l) <= w[Len(s)]
<1>1. Len(s) \in Nat \ {0} /\ w \in Seq(Nat) /\ Len(w) = Len(s)
  BY DEF Covers
<1>2. Len(s) - 1 \in 0 .. Len(s) /\ Len(s) - 1 \in 0 .. Len(w)
  BY <1>1
<1> DEFINE v == SubSeq(w, 1, Len(s) - 1)
<1>3. /\ Len(Rest(s)) = Len(s) - 1
      /\ \A i \in 1 .. Len(s) - 1 : Rest(s)[i] = s[i]
  BY <1>2, PrefixProperties DEF Rest
<1>4. /\ v \in Seq(Nat)
      /\ Len(v) = Len(s) - 1
      /\ \A i \in 1 .. Len(s) - 1 : v[i] = w[i]
  BY <1>1, <1>2, PrefixProperties
<1> HIDE DEF v
<1>5. \A i \in 1 .. Len(s) - 1 : i \in 1 .. Len(s)
  BY <1>1
<1>6. \A i \in 1 .. Len(Rest(s)) :
        Owes(Rest(s)[i], l) \in Nat /\ Owes(Rest(s)[i], l) <= v[i]
  <2> TAKE i \in 1 .. Len(Rest(s))
  <2>1. Rest(s)[i] = s[i] /\ v[i] = w[i] /\ i \in 1 .. Len(s)
    BY <1>3, <1>4, <1>5
  <2> QED
    BY <2>1 DEF Covers
<1>7. \A i, j \in 1 .. Len(Rest(s)) : i < j => v[i] + Owes(Rest(s)[j], l) <= v[j]
  <2> TAKE i, j \in 1 .. Len(Rest(s))
  <2>1. /\ Rest(s)[j] = s[j] /\ v[i] = w[i] /\ v[j] = w[j]
        /\ i \in 1 .. Len(s) /\ j \in 1 .. Len(s)
    BY <1>3, <1>4, <1>5
  <2> QED
    BY <2>1 DEF Covers
<1>8. Rest(s) # <<>> => v[Len(Rest(s))] + Owes(Last(s), l) <= w[Len(s)]
  <2> SUFFICES ASSUME Rest(s) # <<>>
               PROVE  v[Len(Rest(s))] + Owes(Last(s), l) <= w[Len(s)]
    OBVIOUS
  <2>1. Rest(s) \in Seq(Frames)
    BY <1>2, PrefixProperties DEF Rest
  <2>2. Len(s) - 1 \in 1 .. Len(s) /\ Len(s) \in 1 .. Len(s) /\ Len(s) - 1 < Len(s)
        /\ Len(s) - 1 \in 1 .. Len(s) - 1
    BY <1>1, <1>3, <2>1
  <2>3. w[Len(s) - 1] + Owes(s[Len(s)], l) <= w[Len(s)]
    BY <2>2 DEF Covers
  <2> QED
    BY <1>3, <1>4, <2>2, <2>3 DEF Last
<1>9. Covers(v, Rest(s), l)
  BY <1>3, <1>4, <1>6, <1>7 DEF Covers
<1> QED
  BY <1>8, <1>9

\* A call more, that owes what c allows.
LEMMA CoversMore ==
  ASSUME NEW s \in Seq(Frames), NEW l \in Nat, NEW w, Covers(w, s, l),
         NEW f \in Frames, NEW c \in Nat, Owes(f, l) \in Nat, Owes(f, l) <= c,
         s # <<>> => w[Len(s)] + Owes(f, l) <= c
  PROVE  Covers(Append(w, c), Append(s, f), l)
<1> DEFINE t == Append(s, f)
           v == Append(w, c)
<1>1. Len(s) \in Nat /\ w \in Seq(Nat) /\ Len(w) = Len(s)
  BY DEF Covers
<1>2. /\ Len(t) = Len(s) + 1
      /\ \A i \in 1 .. Len(s) : t[i] = s[i]
      /\ t[Len(s) + 1] = f
  BY <1>1
<1>3. /\ v \in Seq(Nat)
      /\ Len(v) = Len(s) + 1
      /\ \A i \in 1 .. Len(s) : v[i] = w[i]
      /\ v[Len(s) + 1] = c
  BY <1>1
<1> HIDE DEF t, v
<1>4. \A i \in 1 .. Len(t) : i \in 1 .. Len(s) \/ i = Len(s) + 1
  BY <1>1, <1>2
<1>5. \A i \in 1 .. Len(t) : Owes(t[i], l) \in Nat /\ Owes(t[i], l) <= v[i]
  BY <1>2, <1>3, <1>4 DEF Covers
<1>6. \A i \in 1 .. Len(s) : w[i] + Owes(f, l) <= c
  <2> TAKE i \in 1 .. Len(s)
  <2>1. s # <<>> /\ Len(s) \in 1 .. Len(s) /\ i <= Len(s)
    BY <1>1
  <2>2. /\ w[i] \in Nat /\ w[Len(s)] \in Nat
        /\ Owes(s[Len(s)], l) \in Nat
    BY <1>1, <2>1, ElementOfSeq DEF Covers
  <2>3. i < Len(s) => w[i] + Owes(s[Len(s)], l) <= w[Len(s)]
    BY <2>1 DEF Covers
  <2>4. w[i] <= w[Len(s)]
    BY <1>1, <2>1, <2>2, <2>3
  <2>5. w[Len(s)] + Owes(f, l) <= c
    BY <2>1
  <2> QED
    BY <2>2, <2>4, <2>5
<1>7. \A i, j \in 1 .. Len(t) : i < j => v[i] + Owes(t[j], l) <= v[j]
  <2> SUFFICES ASSUME NEW i \in 1 .. Len(t), NEW j \in 1 .. Len(t), i < j
               PROVE  v[i] + Owes(t[j], l) <= v[j]
    OBVIOUS
  <2>1. i \in 1 .. Len(s)
    BY <1>1, <1>2
  <2>2. CASE j \in 1 .. Len(s)
    BY <1>2, <1>3, <2>1, <2>2 DEF Covers
  <2>3. CASE j = Len(s) + 1
    BY <1>2, <1>3, <1>6, <2>1, <2>3
  <2> QED
    BY <1>4, <2>2, <2>3
<1>8. Covers(v, t, l)
  BY <1>1, <1>2, <1>3, <1>5, <1>7 DEF Covers
<1> QED
  BY <1>8 DEF t, v

\* The innermost call becomes f, which owes no more than what is no longer read.
LEMMA AffordReplace ==
  ASSUME NEW s \in Seq(Frames), s # <<>>, NEW f \in Frames,
         NEW p \in Nat, NEW n \in Nat, NEW l \in Nat, NEW total \in Nat,
         Affordable(s, p, n, l, total),
         Owes(f, l) \in Nat,
         NEW q \in Nat, q <= l, NEW m \in Nat, NEW sum \in Nat,
         m + (l - q) + Owes(f, l) + total <= n + (l - p) + sum
  PROVE  Affordable(Append(Rest(s), f), q, m, l, sum)
<1>1. PICK w : Covers(w, s, l) /\ n + (l - p) + w[Len(s)] <= total
  BY DEF Affordable
<1>2. p <= l
  BY DEF Affordable
<1>3. Rest(s) \in Seq(Frames) /\ Len(Rest(s)) = Len(s) - 1
  <2>1. Len(s) - 1 \in 0 .. Len(s)
    OBVIOUS
  <2> QED
    BY <2>1, PrefixProperties DEF Rest
<1>4. PICK v : /\ Covers(v, Rest(s), l)
               /\ Rest(s) # <<>> => v[Len(Rest(s))] + Owes(Last(s), l) <= w[Len(s)]
  BY <1>1, CoversRest
<1>5. Len(s) \in 1 .. Len(s) /\ w[Len(s)] \in Nat /\ Owes(Last(s), l) \in Nat
  <2>1. Len(s) \in 1 .. Len(s)
    OBVIOUS
  <2>2. w \in Seq(Nat) /\ Len(w) = Len(s) /\ Owes(s[Len(s)], l) \in Nat
    BY <1>1, <2>1 DEF Covers
  <2> QED
    BY <2>1, <2>2, ElementOfSeq DEF Last
<1>6. PICK c \in Nat : c = w[Len(s)] + Owes(f, l)
  BY <1>5
<1>7. Owes(f, l) <= c
  BY <1>5, <1>6
<1>8. Rest(s) # <<>> => v[Len(Rest(s))] + Owes(f, l) <= c
  <2> SUFFICES ASSUME Rest(s) # <<>>
               PROVE  v[Len(Rest(s))] + Owes(f, l) <= c
    OBVIOUS
  <2>1. v[Len(Rest(s))] + Owes(Last(s), l) <= w[Len(s)]
    BY <1>4
  <2>2. v[Len(Rest(s))] \in Nat
    <3>1. Len(v) = Len(Rest(s)) /\ v \in Seq(Nat) /\ Len(Rest(s)) \in 1 .. Len(Rest(s))
      BY <1>3, <1>4 DEF Covers
    <3> QED
      BY <3>1, ElementOfSeq
  <2>3. PICK a \in Nat, b \in Nat, d \in Nat, e \in Nat :
          a = v[Len(Rest(s))] /\ b = Owes(Last(s), l) /\ d = w[Len(s)] /\ e = Owes(f, l)
    BY <1>5, <2>2
  <2>4. a + b <= d => a + e <= d + e
    BY ONLY a \in Nat, b \in Nat, d \in Nat, e \in Nat
  <2> QED
    BY ONLY <1>6, <2>1, <2>3, <2>4
<1>9. Covers(Append(v, c), Append(Rest(s), f), l)
  BY <1>3, <1>4, <1>7, <1>8, CoversMore
<1>10. Append(v, c)[Len(Append(Rest(s), f))] = c
  <2>1. Len(v) = Len(Rest(s)) /\ v \in Seq(Nat)
    BY <1>4 DEF Covers
  <2>2. Len(Append(Rest(s), f)) = Len(v) + 1
    BY <1>3, <2>1
  <2>3. Append(v, c)[Len(v) + 1] = c
    BY <2>1
  <2> QED
    BY ONLY <2>2, <2>3
<1>11. m + (l - q) + c <= sum
  <2>1. PICK a \in Nat, b \in Nat : a = w[Len(s)] /\ b = Owes(f, l)
    BY <1>5
  <2>2. n + (l - p) + a <= total /\ m + (l - q) + b + total <= n + (l - p) + sum
    BY <1>1, <2>1
  <2>3. m + (l - q) + (a + b) <= sum
    BY ONLY <1>2, <2>2, p \in Nat, n \in Nat, l \in Nat, total \in Nat, q \in Nat,
       m \in Nat, sum \in Nat, a \in Nat, b \in Nat
  <2> QED
    BY <1>6, <2>1, <2>3
<1> QED
  BY <1>9, <1>10, <1>11 DEF Affordable

\* A call more, that owes nothing.
LEMMA AffordPush ==
  ASSUME NEW s \in Seq(Frames), s # <<>>, NEW g \in Frames, g.kind # "jump",
         NEW p \in Nat, NEW n \in Nat, NEW l \in Nat, NEW total \in Nat,
         Affordable(s, p, n, l, total)
  PROVE  Affordable(Append(s, g), p, n, l, total)
<1>1. PICK w : Covers(w, s, l) /\ n + (l - p) + w[Len(s)] <= total
  BY DEF Affordable
<1>2. Owes(g, l) = 0
  BY DEF Owes
<1>3. Len(s) \in 1 .. Len(s) /\ w \in Seq(Nat) /\ Len(w) = Len(s) /\ w[Len(s)] \in Nat
  BY <1>1, ElementOfSeq DEF Covers
<1>4. PICK c \in Nat : c = w[Len(s)]
  BY <1>3
<1>5. c + 0 <= c /\ 0 <= c /\ 0 \in Nat
  BY ONLY c \in Nat
<1>6. Covers(Append(w, c), Append(s, g), l)
  <2>1. Owes(g, l) \in Nat /\ Owes(g, l) <= c /\ w[Len(s)] + Owes(g, l) <= c
    BY <1>2, <1>4, <1>5
  <2> QED
    BY <1>1, <2>1, CoversMore
<1>7. Append(w, c)[Len(Append(s, g))] = c
  BY <1>3
<1> QED
  BY <1>1, <1>4, <1>6, <1>7 DEF Affordable

\* The innermost call returns, and what it owed may be read.
LEMMA AffordReturn ==
  ASSUME NEW s \in Seq(Frames), s # <<>>,
         NEW p \in Nat, NEW n \in Nat, NEW l \in Nat, NEW total \in Nat,
         Affordable(s, p, n, l, total),
         NEW q \in Nat, q <= l, NEW m \in Nat,
         m + (l - q) <= n + (l - p) + Owes(Last(s), l)
  PROVE  /\ m <= total
         /\ Rest(s) # <<>> => Affordable(Rest(s), q, m, l, total)
<1>1. PICK w : Covers(w, s, l) /\ n + (l - p) + w[Len(s)] <= total
  BY DEF Affordable
<1>2. p <= l
  BY DEF Affordable
<1>3. PICK v : /\ Covers(v, Rest(s), l)
               /\ Rest(s) # <<>> => v[Len(Rest(s))] + Owes(Last(s), l) <= w[Len(s)]
  BY <1>1, CoversRest
<1>4. Len(s) \in 1 .. Len(s) /\ w[Len(s)] \in Nat /\ Owes(Last(s), l) \in Nat
      /\ Owes(Last(s), l) <= w[Len(s)]
  BY <1>1, ElementOfSeq DEF Covers, Last
<1>5. PICK a \in Nat, b \in Nat : a = w[Len(s)] /\ b = Owes(Last(s), l) /\ b <= a
  BY <1>4
<1>6. n + (l - p) + a <= total /\ m + (l - q) <= n + (l - p) + b
  BY <1>1, <1>5
<1>7. m <= total
  BY ONLY <1>2, <1>5, <1>6, q <= l, p \in Nat, n \in Nat, l \in Nat, total \in Nat,
     q \in Nat, m \in Nat, a \in Nat, b \in Nat
<1>8. ASSUME Rest(s) # <<>>
      PROVE  Affordable(Rest(s), q, m, l, total)
  <2>1. Rest(s) \in Seq(Frames)
    <3>1. Len(s) - 1 \in 0 .. Len(s)
      OBVIOUS
    <3> QED
      BY <3>1, PrefixProperties DEF Rest
  <2>2. Len(v) = Len(Rest(s)) /\ v \in Seq(Nat) /\ Len(Rest(s)) \in 1 .. Len(Rest(s))
    BY <1>3, <1>8, <2>1 DEF Covers
  <2>3. PICK d \in Nat : d = v[Len(Rest(s))]
    BY <2>2, ElementOfSeq
  <2>4. d + b <= a
    BY <1>3, <1>5, <1>8, <2>3
  <2>5. m + (l - q) + d <= total
    BY ONLY <1>2, <1>6, <2>4, q <= l, p \in Nat, n \in Nat, l \in Nat, total \in Nat,
       q \in Nat, m \in Nat, a \in Nat, b \in Nat, d \in Nat
  <2> QED
    BY <1>3, <2>3, <2>5 DEF Affordable
<1> QED
  BY <1>7, <1>8

-----------------------------------------------------------------------------
(* The work of the calls.                                                  *)

Size == Len(document.events)
Total == (jumpcount + 1) * Size

WorkInv ==
  /\ jumpcount <= AliasLimit
  /\ reads <= Total
  /\ stack # <<>> => Affordable(stack, pos, reads, Size, Total)

\* One more pass over the document.
LEMMA TotalGrows == \A j, l \in Nat : (j + 1) * l \in Nat /\ (j + 1 + 1) * l = (j + 1) * l + l
OBVIOUS

\* What the invariants say where the work is counted.
LEMMA WorkTypes ==
  ASSUME Inv, WorkInv, outcome = "running"
  PROVE  /\ stack \in Seq(Frames) /\ stack # <<>> /\ Rest(stack) = Below /\ Last(stack) = Top
         /\ pos \in Nat /\ reads \in Nat /\ Size \in Nat /\ Total \in Nat
         /\ pos <= Size
         /\ Affordable(stack, pos, reads, Size, Total)
<1>1. stack \in Seq(Frames) /\ stack # <<>>
  BY DEF Inv, Sound, Stacked
<1>2. Size \in Nat
  BY DEF Inv, IsDocument, Size
<1>3. Total \in Nat
  BY <1>2, TotalGrows DEF Inv, Total
<1> QED
  BY <1>1, <1>2, <1>3 DEF Inv, WorkInv, Affordable, Rest, Below, Last, Top

\* An error, or a call that changes: the same document and the same work.
LEMMA WorkSame ==
  ASSUME WorkInv, UNCHANGED <<fixed, jumpcount>>
  PROVE  /\ jumpcount' <= AliasLimit'
         /\ Size' = Size /\ Total' = Total
BY DEF WorkInv, fixed, AliasLimit, Size, Total

LEMMA WorkFails ==
  ASSUME WorkInv, NEW error, Fail(error)
  PROVE  WorkInv'
<1>1. UNCHANGED <<fixed, jumpcount>> /\ stack' = stack /\ reads' = reads /\ pos' = pos
  BY DEF Fail
<1> QED
  BY <1>1, WorkSame DEF WorkInv

\* Returning at q after n more events, the caller going on there.
LEMMA WorkReturns ==
  ASSUME Inv, WorkInv, outcome = "running", NEW q \in Nat, q <= Size, Return(q),
         UNCHANGED <<fixed, jumpcount>>,
         reads' \in Nat, reads' + (Size - q) <= reads + (Size - pos) + Owes(Top, Size)
  PROVE  WorkInv'
<1>1. stack' = Below /\ pos' = q
  BY DEF Return
<1>2. PICK m \in Nat : m = reads'
  OBVIOUS
<1>3. m + (Size - q) <= reads + (Size - pos) + Owes(Last(stack), Size)
  BY <1>2, WorkTypes
<1>4. m <= Total /\ (Rest(stack) # <<>> => Affordable(Rest(stack), q, m, Size, Total))
  BY <1>3, WorkTypes, AffordReturn
<1> QED
  BY <1>1, <1>2, <1>4, WorkTypes, WorkSame DEF WorkInv

\* n events read from pos on.
LEMMA WorkAdvances ==
  ASSUME Inv, WorkInv, outcome = "running", NEW n \in Nat, NEW q \in Nat, q = pos + n, q <= Size,
         reads' = reads + n
  PROVE  /\ reads' \in Nat
         /\ reads' + (Size - q) = reads + (Size - pos)
BY WorkTypes

\* The innermost call becomes another one that owes nothing.
LEMMA WorkReplaced ==
  ASSUME Inv, WorkInv, outcome = "running", NEW f \in Frames, f.kind # "jump",
         NEW m \in Nat, NEW q \in Nat, q <= Size, m + (Size - q) = reads + (Size - pos)
  PROVE  /\ Append(Below, f) \in Seq(Frames) /\ Append(Below, f) # <<>>
         /\ m <= Total
         /\ Affordable(Append(Below, f), q, m, Size, Total)
<1>1. Owes(f, Size) = 0
  BY DEF Owes
<1>2. PICK a \in Nat, b \in Nat, c \in Nat, d \in Nat :
        a = reads /\ b = pos /\ c = Size /\ d = Total
  BY WorkTypes
<1>3. m + (c - q) + 0 + d <= a + (c - b) + d
  BY ONLY <1>2, m + (Size - q) = reads + (Size - pos), m \in Nat, q \in Nat
<1>4. Affordable(Append(Rest(stack), f), q, m, Size, Total)
  <2>1. m + (Size - q) + Owes(f, Size) + Total <= reads + (Size - pos) + Total
    BY ONLY <1>1, <1>2, <1>3
  <2>2. Owes(f, Size) \in Nat
    BY <1>1
  <2> QED
    BY <2>1, <2>2, WorkTypes, AffordReplace
<1>5. m <= Total
  <2>1. m + (Size - q) <= reads + (Size - pos) + Owes(Last(stack), Size)
    <3>1. Owes(Last(stack), Size) \in Nat
      <4>1. PICK w : Covers(w, stack, Size)
        BY WorkTypes DEF Affordable
      <4>2. Len(stack) \in 1 .. Len(stack)
        BY WorkTypes
      <4> QED
        BY <4>1, <4>2 DEF Covers, Last
    <3>2. PICK e \in Nat : e = Owes(Last(stack), Size)
      BY <3>1
    <3>3. m + (c - q) <= a + (c - b) + e
      BY ONLY <1>2, m + (Size - q) = reads + (Size - pos), m \in Nat, q \in Nat, e \in Nat
    <3> QED
      BY <1>2, <3>2, <3>3
  <2> QED
    BY <2>1, WorkTypes, AffordReturn
<1>6. Append(Below, f) \in Seq(Frames) /\ Append(Below, f) # <<>>
  BY Running, NotEmpty
<1> QED
  BY <1>4, <1>5, <1>6, WorkTypes

\* The innermost call goes on as f, or as f with another call on top.
LEMMA WorkGoesOn ==
  ASSUME Inv, WorkInv, outcome = "running", UNCHANGED <<fixed, jumpcount>>,
         NEW f \in Frames, f.kind # "jump", NEW g \in Frames, g.kind # "jump",
         stack' = Append(Below, f) \/ stack' = Append(Append(Below, f), g),
         NEW q \in Nat, q <= Size, pos' = q,
         reads' \in Nat, reads' + (Size - q) = reads + (Size - pos)
  PROVE  WorkInv'
<1>1. PICK m \in Nat : m = reads'
  OBVIOUS
<1>2. /\ Append(Below, f) \in Seq(Frames) /\ Append(Below, f) # <<>>
      /\ m <= Total
      /\ Affordable(Append(Below, f), q, m, Size, Total)
  BY <1>1, WorkReplaced
<1>3. PICK t \in Seq(Frames) : t = Append(Below, f)
  BY <1>2
<1>4. Affordable(Append(t, g), q, m, Size, Total)
  BY <1>2, <1>3, WorkTypes, AffordPush
<1>5. stack' = t \/ stack' = Append(t, g)
  BY <1>3
<1>6. Affordable(stack', q, m, Size, Total)
  BY <1>2, <1>3, <1>4, <1>5
<1> QED
  BY <1>1, <1>2, <1>6, WorkSame DEF WorkInv

\* A node that is whole is over after its start, inside the document.
LEMMA AfterInside ==
  ASSUME Inv, NEW p \in Nat, Whole(p)
  PROVE  After(p) \in p + 1 .. Size
<1>1. NodeEnds(p) \subseteq p + 1 .. Size
  BY DEF NodeEnds, Size
<1>2. PICK q \in NodeEnds(p) : \A r \in NodeEnds(p) : q <= r
  BY <1>1, LeastElement DEF Whole
<1>3. After(p) \in NodeEnds(p)
  BY <1>2 DEF After
<1> QED
  BY <1>1, <1>3

\* What the innermost call owes is a number.
LEMMA OwesType ==
  ASSUME Inv, WorkInv, outcome = "running"
  PROVE  Owes(Top, Size) \in Nat
<1>1. PICK w : Covers(w, stack, Size)
  BY WorkTypes DEF Affordable
<1>2. Len(stack) \in 1 .. Len(stack)
  BY WorkTypes
<1> QED
  BY <1>1, <1>2 DEF Covers, Top

\* An alias leads into the document, and the aliases are limited.
LEMMA AliasLeads ==
  ASSUME Inv, ~AtEnd, Ev.type = "Alias"
  PROVE  document.aliases[Ev.id + 1] \in Nat /\ document.aliases[Ev.id + 1] < Size
<1>1. /\ document.events \in Seq(Events)
      /\ document.aliases \in Seq(Nat)
      /\ pos + 1 \in 1 .. Len(document.events)
  BY DEF Inv, IsDocument, AtEnd
<1>2. Ev.id \in Nat
  BY EvType DEF Events
<1>3. Ev.id < Len(document.aliases)
  BY <1>1 DEF Ev, Inv, IsDocument
<1>4. Ev.id + 1 \in 1 .. Len(document.aliases)
  BY <1>1, <1>2, <1>3
<1>5. document.aliases[Ev.id + 1] < Len(document.events)
  BY <1>4 DEF Inv, IsDocument
<1> QED
  BY <1>5, EvType DEF Size

LEMMA AliasLimitType ==
  ASSUME Inv
  PROVE  AliasLimit \in Nat
<1>1. options.aliasLimit \in Nat
  BY EventDeAssumption DEF Inv, Options
<1>2. \A a, b \in Nat : a * b \in Nat
  OBVIOUS
<1>3. Len(document.events) \in Nat
  BY DEF Inv, IsDocument
<1> QED
  BY <1>1, <1>2, <1>3, EventDeAssumption DEF AliasLimit

\* Following an alias: the document may be read once more, and the rest of it
\* after the alias is owed.
LEMMA FollowAliasWork ==
  ASSUME Inv, WorkInv, FollowAlias
  PROVE  WorkInv'
<1>1. outcome = "running" /\ stack # <<>> /\ ~AtEnd /\ Ev.type = "Alias"
  BY DEF FollowAlias, Reading, Inv
<1>2. CASE jumpcount + 1 > AliasLimit
  <2>1. Fail("RepetitionLimitExceeded")
    BY <1>2 DEF FollowAlias
  <2> QED
    BY <2>1, WorkFails
<1>3. CASE ~(jumpcount + 1 > AliasLimit)
  <2> DEFINE f == [Top EXCEPT !.kind = "jump", !.saved = pos + 1]
             g == Node(Top.wants, Len(remaining) + 1, document.aliases[Ev.id + 1], Top.depth)
  <2>1. /\ jumpcount' = jumpcount + 1
        /\ pos' = document.aliases[Ev.id + 1]
        /\ stack' = Append(Append(Below, f), g)
        /\ reads' = reads + 1
        /\ UNCHANGED fixed
    BY <1>3 DEF FollowAlias, Read
  <2>2. f \in Frames /\ f.kind = "jump" /\ f.saved = pos + 1
    <3>1. Top \in Frames /\ pos + 1 \in Nat
      BY <1>1, TopType DEF Inv
    <3> QED
      BY ONLY <3>1 DEF Frames, f
  <2>3. g \in Frames /\ g.kind # "jump"
    <3>1. /\ Top.wants \in AllRequests
          /\ Len(remaining) + 1 \in Nat
          /\ document.aliases[Ev.id + 1] \in Nat
          /\ Top.depth \in Nat
      BY <1>1, TopType, EvType DEF Frames
    <3> QED
      BY <3>1 DEF Node, Frames
  <2> HIDE DEF f, g
  <2>4. document.aliases[Ev.id + 1] \in Nat /\ document.aliases[Ev.id + 1] < Size
    BY <1>1, AliasLeads
  <2>5. /\ pos < Size /\ pos \in Nat /\ Size \in Nat /\ reads \in Nat /\ Total \in Nat
        /\ jumpcount \in Nat
    BY <1>1, WorkTypes DEF AtEnd, Size, Inv
  <2>6. Size' = Size /\ Total' = Total + Size /\ AliasLimit' = AliasLimit
    <3>1. document' = document /\ options' = options
      BY <2>1 DEF fixed
    <3>2. Size' = Size /\ AliasLimit' = AliasLimit
      BY <3>1 DEF Size, AliasLimit
    <3>3. (jumpcount + 1 + 1) * Size = (jumpcount + 1) * Size + Size
      BY <2>5, TotalGrows
    <3> QED
      BY <2>1, <3>2, <3>3 DEF Total
  <2>7. PICK p \in Nat, l \in Nat, n \in Nat, total \in Nat, q \in Nat :
          /\ p = pos /\ l = Size /\ n = reads /\ total = Total
          /\ q = document.aliases[Ev.id + 1]
    BY <2>4, <2>5
  <2>8. PICK m \in Nat, sum \in Nat : m = n + 1 /\ sum = total + l
    BY ONLY n \in Nat, total \in Nat, l \in Nat
  <2>9. Owes(f, l) = l - (p + 1) /\ Owes(f, l) \in Nat
    BY <2>2, <2>5, <2>7 DEF Owes
  <2>10. m + (l - q) + Owes(f, l) + total <= n + (l - p) + sum
    <3>1. m + (l - q) + (l - (p + 1)) + total <= n + (l - p) + sum
      BY ONLY <2>8, m \in Nat, sum \in Nat, p \in Nat, l \in Nat, n \in Nat,
         total \in Nat, q \in Nat
    <3> QED
      BY ONLY <2>9, <3>1
  <2>11. q <= l
    BY <2>4, <2>7
  <2>12. Affordable(Append(Below, f), q, m, l, sum)
    <3>1. Affordable(stack, p, n, l, total)
      BY <1>1, <2>7, WorkTypes
    <3> QED
      BY <1>1, <2>2, <2>9, <2>10, <2>11, <3>1, WorkTypes, AffordReplace
  <2>13. PICK t \in Seq(Frames) : t = Append(Below, f) /\ t # <<>>
    BY <1>1, <2>2, Running, NotEmpty
  <2>14. Affordable(Append(t, g), q, m, l, sum)
    BY <2>3, <2>12, <2>13, AffordPush
  <2>15. m <= sum
    <3>1. n <= total
      BY <2>7 DEF WorkInv
    <3>2. p < l
      BY <2>5, <2>7
    <3> QED
      BY ONLY <2>8, <3>1, <3>2, m \in Nat, sum \in Nat, p \in Nat, l \in Nat, n \in Nat,
         total \in Nat
  <2>16. /\ reads' = m /\ Total' = sum /\ Size' = l /\ pos' = q /\ stack' = Append(t, g)
    BY <2>1, <2>6, <2>7, <2>8, <2>13
  <2>17. jumpcount' <= AliasLimit'
    <3>1. AliasLimit \in Nat
      BY AliasLimitType
    <3> QED
      BY <1>3, <2>1, <2>5, <2>6, <3>1
  <2> QED
    BY <2>14, <2>15, <2>16, <2>17 DEF WorkInv
<1> QED
  BY <1>2, <1>3

\* The target of an alias has been read.
LEMMA JumpBackWork ==
  ASSUME Inv, WorkInv, JumpBack
  PROVE  WorkInv'
<1>1. /\ outcome = "running" /\ Top.kind = "jump" /\ Return(Top.saved)
      /\ UNCHANGED <<fixed, jumpcount>> /\ reads' = reads
  BY DEF JumpBack
<1>2. Top.saved \in Nat
  BY <1>1, Running DEF Frames
<1>3. Owes(Top, Size) = Size - Top.saved /\ Owes(Top, Size) \in Nat
  BY <1>1, OwesType DEF Owes
<1>4. reads \in Nat /\ pos \in Nat /\ Size \in Nat /\ pos <= Size
  BY <1>1, WorkTypes
<1>5. Top.saved <= Size
  BY <1>2, <1>3, <1>4
<1>6. reads' + (Size - Top.saved) <= reads + (Size - pos) + Owes(Top, Size)
  BY <1>1, <1>2, <1>3, <1>4
<1> QED
  BY <1>1, <1>2, <1>4, <1>5, <1>6, WorkReturns

\* A call that reads on and returns.
LEMMA ReturnWork ==
  ASSUME Inv, WorkInv, outcome = "running", NEW n \in Nat, NEW q \in Nat, q = pos + n,
         q <= Size, reads' = reads + n, Return(q), UNCHANGED <<fixed, jumpcount>>
  PROVE  WorkInv'
<1>1. reads' \in Nat /\ reads' + (Size - q) = reads + (Size - pos)
  BY WorkAdvances
<1>2. reads' + (Size - q) <= reads + (Size - pos) + Owes(Top, Size)
  <2>1. PICK a \in Nat, b \in Nat, c \in Nat, d \in Nat :
          a = reads /\ b = pos /\ c = Size /\ d = Owes(Top, Size)
    BY WorkTypes, OwesType
  <2>2. a + (c - b) <= a + (c - b) + d
    BY ONLY a \in Nat, b \in Nat, c \in Nat, d \in Nat
  <2> QED
    BY <1>1, <2>1, <2>2
<1> QED
  BY <1>1, <1>2, WorkReturns

LEMMA ReadOneWork ==
  ASSUME Inv, WorkInv, ReadScalar \/ ReadVoid \/ EndVariant \/ EndCollection
  PROVE  WorkInv'
<1>1. outcome = "running" /\ ~AtEnd /\ Return(pos + 1) /\ UNCHANGED <<fixed, jumpcount>>
  BY DEF ReadScalar, ReadVoid, EndVariant, EndCollection, Reading
<1>2. reads' = reads + 1
  BY DEF ReadScalar, ReadVoid, EndVariant, EndCollection, Read
<1>3. pos + 1 <= Size /\ pos + 1 \in Nat
  BY <1>1, WorkTypes DEF AtEnd, Size
<1> QED
  BY <1>1, <1>2, <1>3, ReturnWork

\* A node is passed over.
LEMMA IgnoreWork ==
  ASSUME Inv, WorkInv, Ignore
  PROVE  WorkInv'
<1>1. /\ outcome = "running" /\ Whole(pos) /\ Return(After(pos))
      /\ reads' = reads + (After(pos) - pos)
      /\ UNCHANGED <<fixed, jumpcount>>
  BY DEF Ignore, Reading, Read
<1>2. pos \in Nat /\ After(pos) \in pos + 1 .. Size /\ Size \in Nat
  BY <1>1, WorkTypes, AfterInside
<1>3. PICK q \in Nat, n \in Nat : q = After(pos) /\ n = q - pos /\ q <= Size
  <2>1. PICK p \in Nat, l \in Nat : p = pos /\ l = Size
    BY <1>2
  <2>2. \A q \in p + 1 .. l : q \in Nat /\ q - p \in Nat /\ q <= l
    BY ONLY p \in Nat, l \in Nat
  <2> QED
    BY <1>2, <2>1, <2>2
<1>4. q = pos + n
  BY <1>2, <1>3
<1> QED
  BY <1>1, <1>3, <1>4, ReturnWork

\* The innermost call on top of the others.
LEMMA Regained ==
  ASSUME NEW s \in Seq(Frames), s # <<>>
  PROVE  s = Append(Rest(s), Last(s))
<1>1. Len(s) \in Nat \ {0} /\ Len(s) - 1 \in 0 .. Len(s)
  OBVIOUS
<1>2. /\ Rest(s) \in Seq(Frames) /\ Len(Rest(s)) = Len(s) - 1
      /\ \A i \in 1 .. Len(s) - 1 : Rest(s)[i] = s[i]
  BY <1>1, PrefixProperties DEF Rest
<1>3. Last(s) \in Frames
  BY <1>1 DEF Last
<1> PICK t : t = Append(Rest(s), Last(s))
  OBVIOUS
<1>4. /\ t \in Seq(Frames) /\ Len(t) = Len(s)
      /\ \A i \in 1 .. Len(s) - 1 : t[i] = s[i]
      /\ t[Len(s)] = s[Len(s)]
  BY <1>1, <1>2, <1>3 DEF Last
<1>5. \A i \in 1 .. Len(s) : t[i] = s[i]
  BY <1>1, <1>4
<1> QED
  BY <1>4, <1>5, SeqEqual

\* A pair with a key that is a duplicate is passed over.
LEMMA SkipPairWork ==
  ASSUME Inv, WorkInv, SkipPair
  PROVE  WorkInv'
<1>1. /\ outcome = "running" /\ Whole(pos + 1) /\ pos' = After(pos + 1)
      /\ reads' = reads + (pos' - pos)
      /\ UNCHANGED <<fixed, jumpcount>> /\ stack' = stack /\ Top.kind = "key"
  BY DEF SkipPair, AtKey, Read
<1>2. pos \in Nat /\ pos + 1 \in Nat /\ Size \in Nat
  BY <1>1, WorkTypes
<1>3. pos' \in pos + 1 + 1 .. Size
  BY <1>1, <1>2, AfterInside
<1>4. PICK q \in Nat, n \in Nat : q = pos' /\ n = q - pos /\ q <= Size
  <2>1. PICK p \in Nat, l \in Nat : p = pos /\ l = Size
    BY <1>2
  <2>2. \A q \in p + 1 + 1 .. l : q \in Nat /\ q - p \in Nat /\ q <= l
    BY ONLY p \in Nat, l \in Nat
  <2> QED
    BY <1>3, <2>1, <2>2
<1>5. q = pos + n /\ reads' = reads + n
  BY <1>1, <1>2, <1>4
<1>6. reads' \in Nat /\ reads' + (Size - q) = reads + (Size - pos)
  BY <1>1, <1>4, <1>5, WorkAdvances
<1>7. stack' = Append(Below, Top)
  <2>1. stack = Append(Rest(stack), Last(stack))
    BY WorkTypes, <1>1, Regained
  <2> QED
    BY <1>1, <2>1, WorkTypes
<1>8. Top \in Frames /\ Top.kind # "jump"
  BY <1>1, Running
<1> QED
  BY <1>1, <1>4, <1>6, <1>7, <1>8, WorkGoesOn

\* The calls that read nothing, and leave the innermost call as f.
LEMMA WorkStays ==
  ASSUME Inv, WorkInv, outcome = "running", UNCHANGED <<fixed, pos, jumpcount, reads>>,
         NEW f \in Frames, f.kind # "jump", NEW g \in Frames, g.kind # "jump",
         stack' = Append(Below, f) \/ stack' = Append(Append(Below, f), g)
  PROVE  WorkInv'
<1>1. pos \in Nat /\ pos <= Size /\ reads \in Nat /\ Size \in Nat
  BY WorkTypes
<1>2. PICK q \in Nat : q = pos
  BY <1>1
<1>3. /\ q <= Size /\ pos' = q /\ reads' \in Nat
      /\ reads' + (Size - q) = reads + (Size - pos)
  BY <1>1, <1>2
<1>4. UNCHANGED <<fixed, jumpcount>>
  OBVIOUS
<1> QED
  BY <1>3, <1>4, WorkGoesOn

LEMMA ReadSomeWork ==
  ASSUME Inv, WorkInv, ReadSome
  PROVE  WorkInv'
<1>1. outcome = "running" /\ UNCHANGED <<fixed, pos, jumpcount, reads>> /\ Top.kind = "node"
  BY DEF ReadSome, Reading
<1>2. PICK r \in Requests : stack' = Append(Below, [Top EXCEPT !.wants = r])
  BY DEF ReadSome
<1>3. [Top EXCEPT !.wants = r] \in Frames /\ [Top EXCEPT !.wants = r].kind # "jump"
  BY <1>1, RequestsKnown, Running DEF Frames
<1> QED
  BY <1>1, <1>2, <1>3, WorkStays

LEMMA ReadNewtypeWork ==
  ASSUME Inv, WorkInv, ReadNewtype
  PROVE  WorkInv'
<1>1. outcome = "running" /\ Top.kind = "node"
  BY DEF ReadNewtype, Reading
<1>2. CASE Exhausted
  BY <1>2, WorkFails DEF ReadNewtype
<1>3. CASE ~Exhausted
  <2>1. UNCHANGED <<fixed, pos, jumpcount, reads>>
    BY <1>3 DEF ReadNewtype
  <2>2. PICK r \in Requests :
          stack' = Append(Below, [Top EXCEPT !.wants = r, !.depth = @ + 1])
    BY <1>3 DEF ReadNewtype
  <2> DEFINE f == [Top EXCEPT !.wants = r, !.depth = @ + 1]
  <2>3. f \in Frames /\ f.kind # "jump"
    <3>1. r \in AllRequests
      BY RequestsKnown
    <3>2. Top \in Frames
      BY <1>1, Running
    <3>3. Top.depth + 1 \in Nat
      BY <3>2, FrameType
    <3> QED
      BY <1>1, <3>1, <3>2, <3>3 DEF Frames
  <2> QED
    BY <1>1, <2>1, <2>2, <2>3, WorkStays
<1> QED
  BY <1>2, <1>3

LEMMA OpenWork ==
  ASSUME Inv, WorkInv, ReadSequence \/ ReadMapping
  PROVE  WorkInv'
<1>1. outcome = "running" /\ ~AtEnd
  BY DEF ReadSequence, ReadMapping, Reading
<1>2. PICK kind \in {"seq", "key"} : Open(kind)
  BY DEF ReadSequence, ReadMapping
<1>3. CASE Exhausted
  BY <1>2, <1>3, WorkFails DEF Open
<1>4. CASE ~Exhausted
  <2> DEFINE f == [Top EXCEPT !.kind = kind, !.depth = @ + 1]
  <2>1. /\ stack' = Append(Below, f) /\ pos' = pos + 1 /\ reads' = reads + 1
        /\ UNCHANGED <<fixed, jumpcount>>
    BY <1>2, <1>4 DEF Open, Read
  <2>2. f \in Frames /\ f.kind # "jump"
    <3>1. Top \in Frames /\ Top.depth + 1 \in Nat
      BY <1>1, Running, FrameType
    <3> QED
      BY <1>2, <3>1 DEF Frames
  <2> HIDE DEF f
  <2>3. PICK q \in Nat : q = pos + 1 /\ q <= Size
    BY <1>1, WorkTypes DEF AtEnd, Size
  <2>4. reads' \in Nat /\ reads' + (Size - q) = reads + (Size - pos)
    <3>1. 1 \in Nat
      OBVIOUS
    <3> QED
      BY <1>1, <2>1, <2>3, <3>1, WorkAdvances
  <2> QED
    BY <1>1, <2>1, <2>2, <2>3, <2>4, WorkGoesOn
<1> QED
  BY <1>3, <1>4

LEMMA ReadTagWork ==
  ASSUME Inv, WorkInv, ReadTag
  PROVE  WorkInv'
<1>1. outcome = "running" /\ UNCHANGED <<fixed, pos, jumpcount, reads>> /\ Top.kind = "node"
  BY DEF ReadTag, Reading
<1>2. PICK r \in Requests :
        stack' = Append(Below, [Top EXCEPT !.wants = r, !.de = Len(remaining) + 1,
                                           !.enums = @ + 1])
  BY DEF ReadTag
<1> DEFINE f == [Top EXCEPT !.wants = r, !.de = Len(remaining) + 1, !.enums = @ + 1]
<1>3. f \in Frames /\ f.kind # "jump"
  <2>1. r \in AllRequests
    BY RequestsKnown
  <2>2. Len(remaining) + 1 \in Nat
    BY <1>1, Running, TopType
  <2>3. Top \in Frames /\ Top.enums + 1 \in Nat
    BY <1>1, Running DEF Frames
  <2> QED
    BY <1>1, <2>1, <2>2, <2>3 DEF Frames
<1> HIDE DEF f
<1>4. stack' = Append(Below, f)
  BY <1>2 DEF f
<1> QED
  BY <1>1, <1>3, <1>4, WorkStays

\* A call for a node on a new DeserializerFromEvents.
LEMMA FreshNode ==
  ASSUME Inv, outcome = "running", NEW f \in Frames, NEW start \in Nat, CallFresh(f, start)
  PROVE  \E g \in Frames : /\ g.kind = "node" /\ g.start = start
                           /\ g.enums = 0 /\ g.given = {} /\ g.keys = {}
                           /\ g.wants \in Requests
                           /\ g.de = Len(remaining) + 1 /\ g.depth = f.depth
                           /\ stack' = Append(Append(Below, f), g)
<1>1. PICK r \in Requests :
        stack' = Append(Append(Below, f), Node(r, Len(remaining) + 1, start, f.depth))
  BY DEF CallFresh
<1>2. Len(remaining) + 1 \in Nat /\ f.depth \in Nat
  BY Running, TopType, FrameType
<1> DEFINE g == Node(r, Len(remaining) + 1, start, f.depth)
<1>3. g \in Frames
  BY <1>2, NodeType
<1>4. /\ g.kind = "node" /\ g.start = start
      /\ g.enums = 0 /\ g.given = {} /\ g.keys = {} /\ g.wants \in Requests
      /\ g.de = Len(remaining) + 1 /\ g.depth = f.depth
  BY DEF Node
<1> HIDE DEF g
<1>5. stack' = Append(Append(Below, f), g)
  BY <1>1 DEF g
<1> QED
  BY <1>3, <1>4, <1>5

LEMMA OpenVariantWork ==
  ASSUME Inv, WorkInv, OpenVariant
  PROVE  WorkInv'
<1> DEFINE f == [Top EXCEPT !.kind = "variant", !.enums = @ + 1]
<1>1. /\ outcome = "running" /\ pos + 1 < Size
      /\ pos' = pos + 2 /\ reads' = reads + 2 /\ CallFresh(f, pos')
      /\ UNCHANGED <<fixed, jumpcount>>
  BY DEF OpenVariant, Reading, Size
<1>2. f \in Frames /\ f.kind # "jump"
  <2>1. Top \in Frames /\ Top.enums + 1 \in Nat
    BY <1>1, Running DEF Frames
  <2> QED
    BY <2>1 DEF Frames
<1> HIDE DEF f
<1>3. PICK q \in Nat : q = pos + 2 /\ q <= Size
  BY <1>1, WorkTypes
<1>4. reads' \in Nat /\ reads' + (Size - q) = reads + (Size - pos)
  <2>1. 2 \in Nat
    OBVIOUS
  <2> QED
    BY <1>1, <1>3, <2>1, WorkAdvances
<1>5. pos' = q /\ CallFresh(f, q)
  BY <1>1, <1>3
<1>6. PICK g \in Frames : g.kind = "node" /\ stack' = Append(Append(Below, f), g)
  BY <1>1, <1>2, <1>5, FreshNode
<1> QED
  BY <1>1, <1>2, <1>3, <1>4, <1>5, <1>6, WorkGoesOn

LEMMA NextWork ==
  ASSUME Inv, WorkInv, NextElement \/ NextValue
  PROVE  WorkInv'
<1>1. outcome = "running" /\ UNCHANGED <<fixed, pos, jumpcount, reads>>
  BY DEF NextElement, NextValue
<1>2. PICK f \in Frames : f.kind # "jump" /\ CallFresh(f, pos)
  <2>1. [Top EXCEPT !.kind = "key"] \in Frames /\ [Top EXCEPT !.kind = "key"].kind # "jump"
    BY <1>1, Running DEF Frames
  <2> QED
    BY <1>1, <2>1, Running DEF NextElement, NextValue
<1>3. PICK start \in Nat : start = pos
  BY DEF Inv
<1>4. CallFresh(f, start)
  BY <1>2, <1>3
<1>5. PICK g \in Frames : g.kind = "node" /\ stack' = Append(Append(Below, f), g)
  BY <1>1, <1>4, FreshNode
<1> QED
  BY <1>1, <1>2, <1>5, WorkStays

LEMMA NextKeyWork ==
  ASSUME Inv, WorkInv, NextKey
  PROVE  WorkInv'
<1>1. outcome = "running" /\ ~AtEnd /\ UNCHANGED <<fixed, pos, jumpcount, reads>>
  BY DEF NextKey, AtKey
<1> DEFINE f == [Top EXCEPT !.kind = "value", !.keys = @ \cup Remembered,
                            !.given = @ \cup {pos}]
<1>2. PICK r \in Requests :
        stack' = Append(Append(Below, f), Node(r, Top.de, pos, Top.depth))
  BY DEF NextKey
<1>3. f \in Frames /\ f.kind # "jump"
  <2>1. Remembered \subseteq Texts
    BY <1>1, EvType DEF Remembered, Events
  <2>2. Top \in Frames /\ pos \in Nat
    BY <1>1, Running DEF Inv
  <2>3. Top.keys \cup Remembered \in SUBSET Texts /\ Top.given \cup {pos} \in SUBSET Nat
    BY <2>1, <2>2 DEF Frames
  <2> QED
    BY <2>2, <2>3 DEF Frames
<1> DEFINE g == Node(r, Top.de, pos, Top.depth)
<1>4. g \in Frames /\ g.kind # "jump"
  <2>1. Top.de \in Nat /\ pos \in Nat /\ Top.depth \in Nat
    BY <1>1, Running, FrameType DEF Inv
  <2> QED
    BY <2>1, NodeType DEF Node
<1> HIDE DEF f, g
<1>5. stack' = Append(Append(Below, f), g)
  BY <1>2 DEF f, g
<1> QED
  BY <1>1, <1>3, <1>4, <1>5, WorkStays

\* Every action keeps to the work that is allowed.
LEMMA WorkStep == Inv /\ WorkInv /\ [Next]_vars => WorkInv'
<1> SUFFICES ASSUME Inv, WorkInv, [Next]_vars
             PROVE  WorkInv'
  OBVIOUS
<1>1. CASE FollowAlias
  BY <1>1, FollowAliasWork
<1>2. CASE JumpBack
  BY <1>2, JumpBackWork
<1>3. CASE ReadScalar \/ ReadVoid \/ EndVariant \/ EndCollection
  BY <1>3, ReadOneWork
<1>4. CASE ReadSome
  BY <1>4, ReadSomeWork
<1>5. CASE ReadNewtype
  BY <1>5, ReadNewtypeWork
<1>6. CASE ReadSequence \/ ReadMapping
  BY <1>6, OpenWork
<1>7. CASE ReadTag
  BY <1>7, ReadTagWork
<1>8. CASE OpenVariant
  BY <1>8, OpenVariantWork
<1>9. CASE Ignore
  BY <1>9, IgnoreWork
<1>10. CASE NextElement \/ NextValue
  BY <1>10, NextWork
<1>11. CASE NextKey
  BY <1>11, NextKeyWork
<1>12. CASE SkipPair
  BY <1>12, SkipPairWork
<1>13. CASE DuplicateIsError \/ Refuse
  BY <1>13, WorkFails DEF DuplicateIsError, Refuse
<1>14. CASE UNCHANGED vars
  <2>1. UNCHANGED <<fixed, jumpcount>> /\ stack' = stack /\ reads' = reads /\ pos' = pos
    BY <1>14 DEF vars, fixed
  <2> QED
    BY <2>1, WorkSame DEF WorkInv
<1> QED
  BY <1>1, <1>2, <1>3, <1>4, <1>5, <1>6, <1>7, <1>8, <1>9, <1>10, <1>11, <1>12,
     <1>13, <1>14 DEF Next

LEMMA WorkInit == Init => WorkInv
<1> SUFFICES ASSUME Init
             PROVE  WorkInv
  OBVIOUS
<1>1. Inv
  BY EventDeInit
<1>2. PICK r \in Requests : stack = <<Node(r, 1, 0, 0)>>
  BY DEF Init
<1>3. jumpcount = 0 /\ reads = 0 /\ pos = 0
  BY DEF Init
<1>4. AliasLimit \in Nat /\ Size \in Nat
  BY <1>1, AliasLimitType DEF Inv, IsDocument, Size
<1>5. Total = Size
  BY <1>3, <1>4 DEF Total
<1> DEFINE w == <<0>>
<1>6. w \in Seq(Nat) /\ Len(w) = 1 /\ w[1] = 0
  OBVIOUS
<1>7. Len(stack) = 1 /\ stack[1].kind = "node"
  BY <1>2 DEF Node
<1> HIDE DEF w
<1>8. Covers(w, stack, Size)
  <2>1. \A i \in 1 .. Len(stack) : i = 1
    BY <1>7
  <2>2. Owes(stack[1], Size) = 0
    BY <1>7 DEF Owes
  <2> QED
    BY <1>6, <1>7, <2>1, <2>2 DEF Covers
<1>9. reads + (Size - pos) + w[Len(stack)] <= Total
  BY <1>3, <1>4, <1>5, <1>6, <1>7
<1> QED
  BY <1>3, <1>4, <1>5, <1>8, <1>9 DEF WorkInv, Affordable

\* However often aliases repeat the document, the events read are at most those
\* of one document per jump, and the jumps are limited (jumpcount and
\* alias_limit).
THEOREM WorkIsBounded == Spec => []WorkBounded
<1>1. WorkInv => WorkBounded
  BY DEF WorkInv, WorkBounded, Total, Size
<1> QED
  BY <1>1, EventDeInit, EventDeStep, WorkInit, WorkStep, PTL DEF Spec

-----------------------------------------------------------------------------
(* Levels of a document: how many collections have begun, and not ended,    *)
(* between two of its positions.                                            *)

Chosen(T, p, q) == { i \in p + 1 .. q : document.events[i].type \in T }
Tally(T, p, q) == Cardinality(Chosen(T, p, q))
Level(p, q) == Tally(Starts, p, q) - Tally(Ends, p, q)
Kind(p) == document.events[p + 1].type

\* The events between two positions are counted.
LEMMA TallyType ==
  ASSUME NEW T, NEW p \in Nat, NEW q \in Nat
  PROVE  IsFiniteSet(Chosen(T, p, q)) /\ Tally(T, p, q) \in Nat
<1>1. IsFiniteSet(p + 1 .. q)
  BY FS_Interval
<1>2. IsFiniteSet(Chosen(T, p, q))
  BY <1>1, FS_Subset DEF Chosen
<1> QED
  BY <1>2, FS_CardinalityType DEF Tally

\* No events, one event more, and the events up to a position and from there on.
LEMMA TallyNone ==
  ASSUME NEW T, NEW p \in Nat
  PROVE  Tally(T, p, p) = 0
<1>1. Chosen(T, p, p) = {}
  BY DEF Chosen
<1> QED
  BY <1>1, FS_EmptySet DEF Tally

LEMMA TallyNext ==
  ASSUME NEW T, NEW p \in Nat, NEW q \in Nat, p <= q
  PROVE  Tally(T, p, q + 1) = IF Kind(q) \in T THEN Tally(T, p, q) + 1 ELSE Tally(T, p, q)
<1>1. \A i : i \in p + 1 .. q + 1 <=> (i \in p + 1 .. q \/ i = q + 1)
  OBVIOUS
<1>2. CASE Kind(q) \in T
  <2>1. Chosen(T, p, q + 1) = Chosen(T, p, q) \cup {q + 1}
    BY <1>1, <1>2 DEF Chosen, Kind
  <2>2. q + 1 \notin Chosen(T, p, q)
    BY DEF Chosen
  <2> QED
    BY <1>2, <2>1, <2>2, TallyType, FS_AddElement DEF Tally
<1>3. CASE Kind(q) \notin T
  <2>1. Chosen(T, p, q + 1) = Chosen(T, p, q)
    BY <1>1, <1>3 DEF Chosen, Kind
  <2> QED
    BY <1>3, <2>1 DEF Tally
<1> QED
  BY <1>2, <1>3

LEMMA TallySplit ==
  ASSUME NEW T, NEW p \in Nat, NEW m \in Nat, NEW q \in Nat, p <= m, m <= q
  PROVE  Tally(T, p, q) = Tally(T, p, m) + Tally(T, m, q)
<1>1. \A i : i \in p + 1 .. q <=> (i \in p + 1 .. m \/ i \in m + 1 .. q)
  OBVIOUS
<1>2. \A i : ~(i \in p + 1 .. m /\ i \in m + 1 .. q)
  OBVIOUS
<1>3. Chosen(T, p, q) = Chosen(T, p, m) \cup Chosen(T, m, q)
  BY <1>1 DEF Chosen
<1>4. Chosen(T, p, m) \cap Chosen(T, m, q) = {}
  BY <1>2 DEF Chosen
<1>5. /\ IsFiniteSet(Chosen(T, p, m)) /\ Tally(T, p, m) \in Nat
      /\ IsFiniteSet(Chosen(T, m, q)) /\ Tally(T, m, q) \in Nat
  BY TallyType
<1>6. Tally(T, p, q) = Tally(T, p, m) + Tally(T, m, q) - Cardinality({})
  BY <1>3, <1>4, <1>5, FS_Union DEF Tally
<1> QED
  BY <1>5, <1>6, FS_EmptySet

LEMMA LevelType ==
  ASSUME NEW p \in Nat, NEW q \in Nat
  PROVE  Level(p, q) \in Int
BY TallyType DEF Level

LEMMA LevelNone ==
  ASSUME NEW p \in Nat
  PROVE  Level(p, p) = 0
BY TallyNone DEF Level

LEMMA LevelNext ==
  ASSUME NEW p \in Nat, NEW q \in Nat, p <= q
  PROVE  Level(p, q + 1) = IF Kind(q) \in Starts THEN Level(p, q) + 1
                           ELSE IF Kind(q) \in Ends THEN Level(p, q) - 1
                           ELSE Level(p, q)
<1>1. ~(Kind(q) \in Starts /\ Kind(q) \in Ends)
  BY DEF Starts, Ends
<1>2. PICK a \in Nat, b \in Nat : a = Tally(Starts, p, q) /\ b = Tally(Ends, p, q)
  BY TallyType
<1>3. /\ Tally(Starts, p, q + 1) = IF Kind(q) \in Starts THEN a + 1 ELSE a
      /\ Tally(Ends, p, q + 1) = IF Kind(q) \in Ends THEN b + 1 ELSE b
  BY <1>2, TallyNext
<1> QED
  BY <1>1, <1>2, <1>3 DEF Level

LEMMA LevelSplit ==
  ASSUME NEW p \in Nat, NEW m \in Nat, NEW q \in Nat, p <= m, m <= q
  PROVE  Level(p, q) = Level(p, m) + Level(m, q)
<1>1. PICK a \in Nat, b \in Nat, c \in Nat, d \in Nat :
        /\ a = Tally(Starts, p, m) /\ b = Tally(Ends, p, m)
        /\ c = Tally(Starts, m, q) /\ d = Tally(Ends, m, q)
  BY TallyType
<1>2. Tally(Starts, p, q) = a + c /\ Tally(Ends, p, q) = b + d
  BY <1>1, TallySplit
<1> QED
  BY <1>1, <1>2 DEF Level

-----------------------------------------------------------------------------
(* Nodes, and the positions inside of them.                                 *)

LEMMA NodeEndsLevel ==
  ASSUME NEW p \in Nat, NEW q \in Nat
  PROVE  q \in NodeEnds(p) <=> q \in p + 1 .. Size /\ Kind(p) \notin Ends /\ Level(p, q) = 0
<1>1. PICK a \in Nat, b \in Nat : a = Tally(Starts, p, q) /\ b = Tally(Ends, p, q)
  BY TallyType
<1>2. a = b <=> a - b = 0
  BY ONLY a \in Nat, b \in Nat
<1>3. Tally(Starts, p, q) = Tally(Ends, p, q) <=> Level(p, q) = 0
  BY <1>1, <1>2 DEF Level
<1> QED
  BY <1>3 DEF NodeEnds, Size, Kind, Tally, Chosen

\* The first of the ends is the end.
LEMMA FirstEnd ==
  ASSUME NEW p \in Nat, NEW e \in Nat, e \in NodeEnds(p), \A r \in NodeEnds(p) : e <= r
  PROVE  Whole(p) /\ After(p) = e
<1>1. NodeEnds(p) \subseteq Int
  BY DEF NodeEnds
<1>2. \A q \in NodeEnds(p) : (\A r \in NodeEnds(p) : q <= r) => q = e
  BY <1>1
<1>3. After(p) \in NodeEnds(p) /\ \A r \in NodeEnds(p) : After(p) <= r
  BY DEF After
<1> QED
  BY <1>2, <1>3 DEF Whole

\* Up to its end, a node is open.
LEMMA UpToEnd ==
  ASSUME NEW p \in Nat, Whole(p), document.events \in Seq(Events)
  PROVE  /\ After(p) \in p + 1 .. Size
         /\ Kind(p) \notin Ends
         /\ Level(p, After(p)) = 0
         /\ \A q \in p + 1 .. After(p) - 1 : Level(p, q) >= 1
<1>0. Size \in Nat
  BY DEF Size
<1>1. NodeEnds(p) \subseteq Nat
  BY <1>0 DEF NodeEnds, Size
<1>2. PICK e \in NodeEnds(p) : \A r \in NodeEnds(p) : e <= r
  BY <1>1, LeastElement DEF Whole
<1>3. e \in Nat /\ After(p) = e
  BY <1>1, <1>2, FirstEnd
<1>4. e \in p + 1 .. Size /\ Kind(p) \notin Ends /\ Level(p, e) = 0
  BY <1>2, <1>3, NodeEndsLevel
<1>5. ASSUME NEW q \in p + 1 .. e - 1, ~(Level(p, q) >= 1)
      PROVE  FALSE
  <2> DEFINE Low == { r \in Nat : r \in p + 1 .. e - 1 /\ ~(Level(p, r) >= 1) }
  <2>1. q \in Low
    BY <1>5
  <2>2. Low \in SUBSET Nat /\ Low # {}
    BY <2>1
  <2>3. PICK r \in Low : \A x \in Low : r <= x
    BY <2>2, LeastElement
  <2>4. r \in Nat /\ r \in p + 1 .. e - 1 /\ ~(Level(p, r) >= 1)
    BY <2>3
  <2>5. PICK o \in Nat : r = o + 1 /\ p <= o
    BY <2>4
  <2>6. o = p \/ Level(p, o) >= 1
    <3> SUFFICES ASSUME o # p, ~(Level(p, o) >= 1)
                 PROVE  FALSE
      OBVIOUS
    <3>1. o \in p + 1 .. e - 1
      BY <1>3, <2>4, <2>5
    <3>2. o \in Low
      BY <3>1
    <3> QED
      BY <2>3, <2>5, <3>2
  <2>7. Level(p, o) \in Int /\ Level(p, r) \in Int
    BY <2>4, <2>5, LevelType
  <2>8. Level(p, r) = IF Kind(o) \in Starts THEN Level(p, o) + 1
                      ELSE IF Kind(o) \in Ends THEN Level(p, o) - 1
                      ELSE Level(p, o)
    BY <2>5, LevelNext
  <2>9. Level(p, r) = 0
    <3>1. CASE o = p
      <4>1. Level(p, o) = 0
        BY <3>1, LevelNone
      <4> QED
        BY <1>4, <2>4, <2>7, <2>8, <3>1, <4>1
    <3>2. CASE Level(p, o) >= 1
      BY <2>4, <2>7, <2>8, <3>2
    <3> QED
      BY <2>6, <3>1, <3>2
  <2>10. r \in NodeEnds(p)
    <3>1. r \in p + 1 .. Size
      BY <1>0, <1>3, <1>4, <2>4
    <3> QED
      BY <1>4, <2>4, <2>9, <3>1, NodeEndsLevel
  <2> QED
    BY <1>2, <1>3, <2>4, <2>10
<1> QED
  BY <1>3, <1>4, <1>5

\* p is inside the collection that starts at s, and no node in it is open.
Within(s, p) ==
  /\ p \in s + 1 .. Size
  /\ Kind(s) \in Starts
  /\ \A q \in s + 1 .. p : Level(s, q) >= 1
  /\ Level(s, p) = 1

\* A collection begins.
LEMMA WithinStart ==
  ASSUME NEW p \in Nat, p < Size, Size \in Nat, Kind(p) \in Starts
  PROVE  Within(p, p + 1)
<1>1. Level(p, p + 1) = 1
  BY LevelNone, LevelNext
<1>2. \A q \in p + 1 .. p + 1 : q = p + 1
  OBVIOUS
<1>3. \A q \in p + 1 .. p + 1 : Level(p, q) >= 1
  BY <1>1, <1>2
<1> QED
  BY <1>1, <1>3 DEF Within

\* An event that is a node of its own.
LEMMA LeafEnd ==
  ASSUME NEW p \in Nat, p < Size, Size \in Nat, Kind(p) \notin Starts, Kind(p) \notin Ends
  PROVE  Whole(p) /\ After(p) = p + 1
<1>1. Level(p, p + 1) = 0
  BY LevelNone, LevelNext
<1>2. p + 1 \in NodeEnds(p)
  BY <1>1, NodeEndsLevel
<1>3. \A r \in NodeEnds(p) : p + 1 <= r
  BY DEF NodeEnds
<1> QED
  BY <1>2, <1>3, FirstEnd

\* The next node in the collection is over.
LEMMA WithinAfter ==
  ASSUME NEW s \in Nat, NEW c \in Nat, Within(s, c), Whole(c), document.events \in Seq(Events)
  PROVE  Within(s, After(c))
<1>1. PICK e \in Nat : e = After(c)
  BY UpToEnd DEF Size
<1>2. /\ e \in c + 1 .. Size /\ Level(c, e) = 0
      /\ \A q \in c + 1 .. e - 1 : Level(c, q) >= 1
  BY <1>1, UpToEnd
<1>3. s <= c /\ Level(s, c) = 1 /\ \A q \in s + 1 .. c : Level(s, q) >= 1
  BY DEF Within
<1>4. Level(s, e) = 1
  <2>1. c <= e
    BY <1>2
  <2>2. Level(s, e) = Level(s, c) + Level(c, e)
    BY <1>3, <2>1, LevelSplit
  <2> QED
    BY <1>2, <1>3, <2>2
<1>5. ASSUME NEW q \in s + 1 .. e
      PROVE  Level(s, q) >= 1
  <2>1. q \in Nat
    OBVIOUS
  <2>2. CASE q <= c
    BY <1>3, <2>1, <2>2
  <2>3. CASE q = e
    BY <1>4, <2>3
  <2>4. CASE q > c /\ q # e
    <3>1. q \in c + 1 .. e - 1 /\ c <= q
      BY <2>1, <2>4
    <3>2. Level(s, q) = Level(s, c) + Level(c, q)
      BY <1>3, <2>1, <3>1, LevelSplit
    <3>3. Level(c, q) >= 1 /\ Level(c, q) \in Int
      BY <1>2, <2>1, <3>1, LevelType
    <3> QED
      BY <1>3, <3>2, <3>3
  <2> QED
    BY <2>1, <2>2, <2>3, <2>4
<1>6. e \in s + 1 .. Size
  BY <1>2 DEF Within
<1> QED
  BY <1>1, <1>4, <1>5, <1>6 DEF Within

\* The collection ends.
LEMMA WithinEnd ==
  ASSUME NEW s \in Nat, NEW p \in Nat, Within(s, p), p < Size, Size \in Nat, Kind(p) \in Ends
  PROVE  Whole(s) /\ After(s) = p + 1
<1>1. Kind(s) \notin Ends /\ s <= p /\ Level(s, p) = 1
      /\ \A q \in s + 1 .. p : Level(s, q) >= 1
  BY DEF Within, Starts, Ends
<1>2. Kind(p) \notin Starts
  BY DEF Starts, Ends
<1>3. Level(s, p + 1) = 0
  BY <1>1, <1>2, LevelNext
<1>4. p + 1 \in NodeEnds(s)
  <2>1. p + 1 \in s + 1 .. Size /\ p + 1 \in Nat
    BY <1>1
  <2> QED
    BY <1>1, <1>3, <2>1, NodeEndsLevel
<1>5. \A r \in NodeEnds(s) : p + 1 <= r
  <2> SUFFICES ASSUME NEW r \in NodeEnds(s), ~(p + 1 <= r)
               PROVE  FALSE
    OBVIOUS
  <2>1. r \in Nat /\ r >= s + 1
    BY DEF NodeEnds
  <2>2. Level(s, r) = 0
    BY <2>1, NodeEndsLevel
  <2>3. r \in s + 1 .. p
    BY <2>1
  <2> QED
    BY <1>1, <2>2, <2>3
<1> QED
  BY <1>4, <1>5, FirstEnd

-----------------------------------------------------------------------------
(* Every call in progress is on a node, and its callers are inside theirs.  *)

\* The call f, or the one it has made, is at position p.
Reaches(f, p) ==
  IF f.kind = "node" THEN p = f.start
  ELSE IF f.kind = "jump" THEN /\ f.saved = f.start + 1
                               /\ f.start < Size
                               /\ Kind(f.start) = "Alias"
  ELSE Within(f.start, p)

Nested(s, p) ==
  /\ \A i \in 1 .. Len(s) - 1 : s[i].kind # "node" /\ Reaches(s[i], s[i + 1].start)
  /\ Reaches(Last(s), p)

NodeInv == stack # <<>> => Nested(stack, pos)

\* What OneNodeRead says of a step.
NodeRead == Len(stack') < Len(stack) => Whole(Top.start) /\ pos' = After(Top.start)

\* The innermost call goes on as f.
LEMMA NestedReplace ==
  ASSUME NEW s \in Seq(Frames), s # <<>>, NEW p, Nested(s, p),
         NEW f \in Frames, f.start = Last(s).start, NEW q, Reaches(f, q)
  PROVE  /\ Nested(Append(Rest(s), f), q)
         /\ Len(Append(Rest(s), f)) = Len(s)
         /\ Last(Append(Rest(s), f)) = f
<1>1. Len(s) \in Nat \ {0} /\ Len(s) - 1 \in 0 .. Len(s)
  OBVIOUS
<1>2. /\ Rest(s) \in Seq(Frames) /\ Len(Rest(s)) = Len(s) - 1
      /\ \A i \in 1 .. Len(s) - 1 : Rest(s)[i] = s[i]
  BY <1>1, PrefixProperties DEF Rest
<1> PICK t : t = Append(Rest(s), f)
  OBVIOUS
<1>3. /\ t \in Seq(Frames) /\ Len(t) = Len(s)
      /\ \A i \in 1 .. Len(s) - 1 : t[i] = s[i]
      /\ t[Len(s)] = f
  BY <1>1, <1>2
<1>4. ASSUME NEW i \in 1 .. Len(t) - 1
      PROVE  t[i].kind # "node" /\ Reaches(t[i], t[i + 1].start)
  <2>1. i \in 1 .. Len(s) - 1 /\ t[i] = s[i]
    BY <1>3
  <2>2. t[i + 1].start = s[i + 1].start
    <3>1. CASE i = Len(s) - 1
      BY <1>1, <1>3, <3>1 DEF Last
    <3>2. CASE i # Len(s) - 1
      <4>1. i + 1 \in 1 .. Len(s) - 1
        BY <1>1, <2>1, <3>2
      <4> QED
        BY <1>3, <4>1
    <3> QED
      BY <3>1, <3>2
  <2> QED
    BY <2>1, <2>2 DEF Nested
<1>5. Last(t) = f
  BY <1>3 DEF Last
<1> QED
  BY <1>3, <1>4, <1>5 DEF Nested

\* A call more, at the position its caller has reached.
LEMMA NestedPush ==
  ASSUME NEW s \in Seq(Frames), s # <<>>, NEW p, Nested(s, p), Last(s).kind # "node",
         NEW g \in Frames, g.start = p, NEW q, Reaches(g, q)
  PROVE  /\ Nested(Append(s, g), q)
         /\ Len(Append(s, g)) = Len(s) + 1
<1>1. Len(s) \in Nat \ {0}
  OBVIOUS
<1> PICK t : t = Append(s, g)
  OBVIOUS
<1>2. /\ Len(t) = Len(s) + 1
      /\ \A i \in 1 .. Len(s) : t[i] = s[i]
      /\ t[Len(s) + 1] = g
  BY <1>1
<1>3. ASSUME NEW i \in 1 .. Len(t) - 1
      PROVE  t[i].kind # "node" /\ Reaches(t[i], t[i + 1].start)
  <2>1. CASE i = Len(s)
    BY <1>1, <1>2, <2>1 DEF Nested, Last
  <2>2. CASE i # Len(s)
    <3>1. i \in 1 .. Len(s) - 1 /\ i \in 1 .. Len(s) /\ i + 1 \in 1 .. Len(s)
      BY <1>1, <1>2, <2>2
    <3> QED
      BY <1>2, <3>1 DEF Nested
  <2> QED
    BY <2>1, <2>2
<1>4. Last(t) = g
  BY <1>2 DEF Last
<1> QED
  BY <1>2, <1>3, <1>4 DEF Nested

\* The innermost call has read its node.
LEMMA NestedReturn ==
  ASSUME NEW s \in Seq(Frames), s # <<>>, NEW p, Nested(s, p),
         document.events \in Seq(Events), Whole(Last(s).start)
  PROVE  /\ Rest(s) # <<>> => Nested(Rest(s), After(Last(s).start))
         /\ Len(Rest(s)) < Len(s)
<1>1. Len(s) \in Nat \ {0} /\ Len(s) - 1 \in 0 .. Len(s)
  OBVIOUS
<1> PICK t : t = Rest(s)
  OBVIOUS
<1>2. /\ t \in Seq(Frames) /\ Len(t) = Len(s) - 1
      /\ \A i \in 1 .. Len(s) - 1 : t[i] = s[i]
  BY <1>1, PrefixProperties DEF Rest
<1>3. ASSUME t # <<>>
      PROVE  Nested(t, After(Last(s).start))
  <2>1. Len(t) \in 1 .. Len(s) - 1 /\ Len(t) + 1 = Len(s) /\ Len(t) \in 1 .. Len(t)
    BY <1>1, <1>2, <1>3
  <2>2. Last(t) \in Frames /\ Last(t) = s[Len(t)] /\ Last(s) \in Frames
    BY <1>1, <1>2, <2>1 DEF Last
  <2>3. Last(t).kind # "node" /\ Reaches(Last(t), Last(s).start)
    <3>1. s[Len(t)].kind # "node" /\ Reaches(s[Len(t)], s[Len(t) + 1].start)
      BY <2>1 DEF Nested
    <3> QED
      BY <2>1, <2>2, <3>1 DEF Last
  <2>4. Reaches(Last(t), After(Last(s).start))
    <3>1. CASE Last(t).kind = "jump"
      BY <2>3, <3>1 DEF Reaches
    <3>2. CASE Last(t).kind # "jump"
      <4>1. Within(Last(t).start, Last(s).start)
        BY <2>3, <3>2 DEF Reaches
      <4>2. Last(t).start \in Nat /\ Last(s).start \in Nat
        BY <2>2 DEF Frames
      <4>3. Within(Last(t).start, After(Last(s).start))
        BY <4>1, <4>2, WithinAfter
      <4> QED
        BY <2>3, <3>2, <4>3 DEF Reaches
    <3> QED
      BY <3>1, <3>2
  <2>5. ASSUME NEW i \in 1 .. Len(t) - 1
        PROVE  t[i].kind # "node" /\ Reaches(t[i], t[i + 1].start)
    <3>1. /\ i \in 1 .. Len(s) - 1 /\ i + 1 \in 1 .. Len(s) - 1
      BY <1>1, <1>2
    <3> QED
      BY <1>2, <3>1 DEF Nested
  <2> QED
    BY <2>4, <2>5 DEF Nested
<1> QED
  BY <1>1, <1>2, <1>3

\* What the invariants say while a call runs.
LEMMA NodeTypes ==
  ASSUME Inv, NodeInv, outcome = "running"
  PROVE  /\ stack \in Seq(Frames) /\ stack # <<>> /\ Rest(stack) = Below /\ Last(stack) = Top
         /\ Nested(stack, pos) /\ Reaches(Top, pos)
         /\ pos \in Nat /\ Size \in Nat /\ Top.start \in Nat
         /\ document.events \in Seq(Events)
         /\ ~AtEnd => pos < Size
         /\ Ev.type = Kind(pos)
<1>1. stack \in Seq(Frames) /\ stack # <<>>
  BY DEF Inv, Sound, Stacked
<1>2. document.events \in Seq(Events) /\ Size \in Nat
  BY DEF Inv, IsDocument, Size
<1>3. Top \in Frames
  BY Running
<1>4. Top.start \in Nat
  BY <1>3 DEF Frames
<1>5. ~AtEnd => pos < Size
  BY <1>2 DEF Inv, AtEnd, Size
<1>6. Nested(stack, pos) /\ Reaches(Top, pos)
  BY <1>1 DEF NodeInv, Nested, Last, Top
<1> QED
  BY <1>1, <1>2, <1>4, <1>5, <1>6 DEF Inv, Rest, Below, Last, Top, Ev, Kind

\* A step that leaves the document, and the calls s at p.
LEMMA NodesKept ==
  ASSUME UNCHANGED fixed, NEW s, NEW p, s = stack', p = pos', s # <<>> => Nested(s, p)
  PROVE  NodeInv'
<1>1. UNCHANGED document
  BY DEF fixed
<1>2. document' = document
  BY <1>1
<1>3. Size' = Size
  BY <1>2 DEF Size
<1>4. Nested(stack, pos)' <=> Nested(s, p)
  BY <1>2, <1>3 DEF Nested, Last, Reaches, Within, Kind, Level, Tally, Chosen
<1> QED
  BY <1>4 DEF NodeInv

LEMMA TrivialLess == \A n \in Nat : ~(n < n)
OBVIOUS

\* An error, and a step that changes no call.
LEMMA NodeSame ==
  ASSUME Inv, NodeInv, UNCHANGED <<fixed, stack, pos>>
  PROVE  NodeInv' /\ NodeRead
<1>1. NodeInv'
  <2>1. PICK s, p : s = stack /\ p = pos
    OBVIOUS
  <2>2. s # <<>> => Nested(s, p)
    BY <2>1 DEF NodeInv
  <2>3. UNCHANGED fixed /\ s = stack' /\ p = pos'
    BY <2>1
  <2> QED
    BY <2>2, <2>3, NodesKept
<1>2. NodeRead
  <2>1. stack' = stack
    OBVIOUS
  <2>2. ~(Len(stack) < Len(stack))
    <3>1. Len(stack) \in Nat
      BY DEF Inv, Sound, Stacked
    <3> QED
      BY <3>1, TrivialLess
  <2> QED
    BY <2>1, <2>2 DEF NodeRead
<1> QED
  BY <1>1, <1>2

\* The innermost call returns after its node.
LEMMA NodeReturns ==
  ASSUME Inv, NodeInv, outcome = "running", Whole(Top.start), NEW q, q = After(Top.start),
         Return(q), UNCHANGED fixed
  PROVE  NodeInv' /\ NodeRead
<1>1. stack' = Below /\ pos' = q
  BY DEF Return
<1>2. NodeRead
  BY <1>1 DEF NodeRead
<1>3. PICK s : s = Rest(stack)
  OBVIOUS
<1>4. s # <<>> => Nested(s, q)
  BY <1>3, NodeTypes, NestedReturn
<1>5. s = stack' /\ q = pos'
  BY <1>1, <1>3, NodeTypes
<1> QED
  BY <1>2, <1>4, <1>5, NodesKept

\* The innermost call goes on as f, at position q.
LEMMA NodeGoesOn ==
  ASSUME Inv, NodeInv, outcome = "running", UNCHANGED fixed,
         NEW f \in Frames, f.start = Top.start, NEW q, Reaches(f, q),
         stack' = Append(Below, f), pos' = q
  PROVE  NodeInv' /\ NodeRead
<1>1. PICK s : s = Append(Rest(stack), f)
  OBVIOUS
<1>2. Nested(s, q) /\ Len(s) = Len(stack)
  BY <1>1, NodeTypes, NestedReplace
<1>3. s = stack'
  BY <1>1, NodeTypes
<1>4. NodeRead
  <2>1. ~(Len(stack) < Len(stack))
    <3>1. Len(stack) \in Nat
      BY NodeTypes
    <3> QED
      BY <3>1, TrivialLess
  <2> QED
    BY <1>2, <1>3, <2>1 DEF NodeRead
<1> QED
  BY <1>2, <1>3, <1>4, NodesKept

\* The innermost call goes on as f, and calls g for the node at the position that
\* f has reached.
LEMMA NodeCalls ==
  ASSUME Inv, NodeInv, outcome = "running", UNCHANGED fixed,
         NEW f \in Frames, f.start = Top.start, f.kind # "node",
         NEW g \in Frames, g.kind = "node", NEW q, g.start = q, Reaches(f, q),
         stack' = Append(Append(Below, f), g), pos' = q
  PROVE  NodeInv' /\ NodeRead
<1>1. PICK t : t = Append(Rest(stack), f)
  OBVIOUS
<1>2. Nested(t, q) /\ Len(t) = Len(stack) /\ Last(t) = f
  BY <1>1, NodeTypes, NestedReplace
<1>3. t \in Seq(Frames) /\ t # <<>>
  BY <1>1, NodeTypes, Running, NotEmpty
<1>4. PICK s : s = Append(t, g)
  OBVIOUS
<1>5. Reaches(g, q)
  BY DEF Reaches
<1>6. Nested(s, q) /\ Len(s) = Len(t) + 1
  BY <1>2, <1>3, <1>4, <1>5, NestedPush
<1>7. s = stack'
  BY <1>1, <1>4, NodeTypes
<1>8. NodeRead
  <2>1. Len(stack) \in Nat
    BY NodeTypes
  <2>2. ~(Len(stack) + 1 < Len(stack))
    BY <2>1
  <2> QED
    BY <1>2, <1>6, <1>7, <2>2 DEF NodeRead
<1> QED
  BY <1>6, <1>7, <1>8, NodesKept

-----------------------------------------------------------------------------
(* Every action reads whole nodes.                                          *)

\* The call on a node is at its start.
LEMMA AtStart ==
  ASSUME Inv, NodeInv, outcome = "running", Top.kind = "node"
  PROVE  pos = Top.start
BY NodeTypes DEF Reaches

\* The call on a collection is inside of it.
LEMMA AtInside ==
  ASSUME Inv, NodeInv, outcome = "running", Top.kind \notin {"node", "jump"}
  PROVE  Within(Top.start, pos)
BY NodeTypes DEF Reaches

LEMMA FailsNode ==
  ASSUME Inv, NodeInv, NEW error, Fail(error)
  PROVE  NodeInv' /\ NodeRead
<1>1. UNCHANGED <<fixed, stack, pos>>
  BY DEF Fail
<1> QED
  BY <1>1, NodeSame

\* A scalar, an alias or the void is a node of one event.
LEMMA LeafReturns ==
  ASSUME Inv, NodeInv, outcome = "running", Top.kind = "node", ~AtEnd,
         Ev.type \notin Starts, Ev.type \notin Ends, Return(pos + 1), UNCHANGED fixed
  PROVE  NodeInv' /\ NodeRead
<1>1. pos = Top.start /\ pos < Size /\ Size \in Nat /\ pos \in Nat /\ Ev.type = Kind(pos)
  BY AtStart, NodeTypes
<1>2. Whole(pos) /\ After(pos) = pos + 1
  BY <1>1, LeafEnd
<1>3. Whole(Top.start) /\ pos + 1 = After(Top.start)
  BY <1>1, <1>2
<1> QED
  BY <1>3, NodeReturns

\* A collection ends.
LEMMA EndReturns ==
  ASSUME Inv, NodeInv, outcome = "running", Top.kind \notin {"node", "jump"}, ~AtEnd,
         Ev.type \in Ends, Return(pos + 1), UNCHANGED fixed
  PROVE  NodeInv' /\ NodeRead
<1>1. /\ pos < Size /\ Size \in Nat /\ pos \in Nat /\ Top.start \in Nat
      /\ Ev.type = Kind(pos)
  BY NodeTypes
<1>2. Whole(Top.start) /\ pos + 1 = After(Top.start)
  BY <1>1, AtInside, WithinEnd
<1> QED
  BY <1>2, NodeReturns

LEMMA ReadOneNode ==
  ASSUME Inv, NodeInv, ReadScalar \/ ReadVoid \/ EndVariant \/ EndCollection
  PROVE  NodeInv' /\ NodeRead
<1>1. outcome = "running" /\ ~AtEnd /\ Return(pos + 1) /\ UNCHANGED fixed
  BY DEF ReadScalar, ReadVoid, EndVariant, EndCollection, Reading
<1>2. CASE ReadScalar \/ ReadVoid
  <2>1. Top.kind = "node" /\ Ev.type \in {"Scalar", "Void"}
    BY <1>2 DEF ReadScalar, ReadVoid, Reading
  <2> QED
    BY <1>1, <2>1, LeafReturns DEF Starts, Ends
<1>3. CASE EndVariant \/ EndCollection
  <2>1. Top.kind \notin {"node", "jump"} /\ Ev.type \in Ends
    BY <1>3 DEF EndVariant, EndCollection, Ends
  <2> QED
    BY <1>1, <2>1, EndReturns
<1> QED
  BY <1>2, <1>3

LEMMA FollowAliasNode ==
  ASSUME Inv, NodeInv, FollowAlias
  PROVE  NodeInv' /\ NodeRead
<1>1. outcome = "running" /\ ~AtEnd /\ Ev.type = "Alias" /\ Top.kind = "node"
  BY DEF FollowAlias, Reading
<1>2. CASE jumpcount + 1 > AliasLimit
  <2>1. Fail("RepetitionLimitExceeded")
    BY <1>2 DEF FollowAlias
  <2> QED
    BY <2>1, FailsNode
<1>3. CASE ~(jumpcount + 1 > AliasLimit)
  <2> DEFINE f == [Top EXCEPT !.kind = "jump", !.saved = pos + 1]
             g == Node(Top.wants, Len(remaining) + 1, document.aliases[Ev.id + 1], Top.depth)
  <2>1. /\ pos' = document.aliases[Ev.id + 1]
        /\ stack' = Append(Append(Below, f), g)
        /\ UNCHANGED fixed
    BY <1>3 DEF FollowAlias
  <2>2. f \in Frames /\ f.kind = "jump" /\ f.saved = pos + 1 /\ f.start = Top.start
    <3>1. Top \in Frames /\ pos + 1 \in Nat
      BY <1>1, Running
    <3> QED
      BY ONLY <3>1 DEF Frames, f
  <2>3. g \in Frames /\ g.kind = "node" /\ g.start = document.aliases[Ev.id + 1]
    <3>1. /\ Top.wants \in AllRequests
          /\ Len(remaining) + 1 \in Nat
          /\ document.aliases[Ev.id + 1] \in Nat
          /\ Top.depth \in Nat
      BY <1>1, Running, TopType, EvType DEF Frames
    <3> QED
      BY <3>1 DEF Node, Frames
  <2> HIDE DEF f, g
  <2>4. pos = Top.start /\ pos < Size /\ Kind(pos) = "Alias"
    BY <1>1, AtStart, NodeTypes
  <2>5. PICK q : q = document.aliases[Ev.id + 1]
    OBVIOUS
  <2>6. Reaches(f, q)
    BY <2>2, <2>4 DEF Reaches
  <2> QED
    BY <1>1, <2>1, <2>2, <2>3, <2>5, <2>6, NodeCalls
<1> QED
  BY <1>2, <1>3

LEMMA JumpBackNode ==
  ASSUME Inv, NodeInv, JumpBack
  PROVE  NodeInv' /\ NodeRead
<1>1. outcome = "running" /\ Top.kind = "jump" /\ Return(Top.saved) /\ UNCHANGED fixed
  BY DEF JumpBack
<1>2. Top.saved = Top.start + 1 /\ Top.start < Size /\ Kind(Top.start) = "Alias"
  BY <1>1, NodeTypes DEF Reaches
<1>3. Whole(Top.start) /\ After(Top.start) = Top.start + 1
  <2>1. Top.start \in Nat /\ Size \in Nat
    BY <1>1, NodeTypes
  <2>2. Kind(Top.start) \notin Starts /\ Kind(Top.start) \notin Ends
    BY <1>2 DEF Starts, Ends
  <2> QED
    BY <1>2, <2>1, <2>2, LeafEnd
<1>4. Top.saved = After(Top.start)
  BY <1>2, <1>3
<1> QED
  BY <1>1, <1>3, <1>4, NodeReturns

LEMMA IgnoreNode ==
  ASSUME Inv, NodeInv, Ignore
  PROVE  NodeInv' /\ NodeRead
<1>1. /\ outcome = "running" /\ Top.kind = "node" /\ Whole(pos) /\ Return(After(pos))
      /\ UNCHANGED fixed
  BY DEF Ignore, Reading
<1>2. pos = Top.start
  BY <1>1, AtStart
<1>3. Whole(Top.start) /\ Return(After(Top.start))
  BY <1>1, <1>2
<1> QED
  BY <1>1, <1>3, NodeReturns

\* The call on a node asks for something else of it.
LEMMA NodeAsksAgain ==
  ASSUME Inv, NodeInv, outcome = "running", Top.kind = "node", UNCHANGED <<fixed, pos>>,
         NEW f \in Frames, f.start = Top.start, f.kind = "node", stack' = Append(Below, f)
  PROVE  NodeInv' /\ NodeRead
<1>1. Reaches(f, pos)
  BY AtStart DEF Reaches
<1>2. PICK q : q = pos
  OBVIOUS
<1>3. Reaches(f, q) /\ pos' = q /\ UNCHANGED fixed
  BY <1>1, <1>2
<1> QED
  BY <1>3, NodeGoesOn

LEMMA ReadSomeNode ==
  ASSUME Inv, NodeInv, ReadSome
  PROVE  NodeInv' /\ NodeRead
<1>1. outcome = "running" /\ UNCHANGED <<fixed, pos>> /\ Top.kind = "node"
  BY DEF ReadSome, Reading
<1>2. PICK r \in Requests : stack' = Append(Below, [Top EXCEPT !.wants = r])
  BY DEF ReadSome
<1> DEFINE f == [Top EXCEPT !.wants = r]
<1>3. f \in Frames /\ f.kind = "node" /\ f.start = Top.start
  BY <1>1, RequestsKnown, Running DEF Frames
<1> HIDE DEF f
<1>4. stack' = Append(Below, f)
  BY <1>2 DEF f
<1> QED
  BY <1>1, <1>3, <1>4, NodeAsksAgain

LEMMA ReadNewtypeNode ==
  ASSUME Inv, NodeInv, ReadNewtype
  PROVE  NodeInv' /\ NodeRead
<1>1. outcome = "running" /\ Top.kind = "node"
  BY DEF ReadNewtype, Reading
<1>2. CASE Exhausted
  BY <1>2, FailsNode DEF ReadNewtype
<1>3. CASE ~Exhausted
  <2>1. UNCHANGED <<fixed, pos>>
    BY <1>3 DEF ReadNewtype
  <2>2. PICK r \in Requests :
          stack' = Append(Below, [Top EXCEPT !.wants = r, !.depth = @ + 1])
    BY <1>3 DEF ReadNewtype
  <2> DEFINE f == [Top EXCEPT !.wants = r, !.depth = @ + 1]
  <2>3. f \in Frames /\ f.kind = "node" /\ f.start = Top.start
    <3>1. r \in AllRequests
      BY RequestsKnown
    <3>2. Top \in Frames
      BY <1>1, Running
    <3>3. Top.depth + 1 \in Nat
      BY <3>2, FrameType
    <3> QED
      BY <1>1, <3>1, <3>2, <3>3 DEF Frames
  <2> HIDE DEF f
  <2>4. stack' = Append(Below, f)
    BY <2>2 DEF f
  <2> QED
    BY <1>1, <2>1, <2>3, <2>4, NodeAsksAgain
<1> QED
  BY <1>2, <1>3

LEMMA ReadTagNode ==
  ASSUME Inv, NodeInv, ReadTag
  PROVE  NodeInv' /\ NodeRead
<1>1. outcome = "running" /\ UNCHANGED <<fixed, pos>> /\ Top.kind = "node"
  BY DEF ReadTag, Reading
<1>2. PICK r \in Requests :
        stack' = Append(Below, [Top EXCEPT !.wants = r, !.de = Len(remaining) + 1,
                                           !.enums = @ + 1])
  BY DEF ReadTag
<1> DEFINE f == [Top EXCEPT !.wants = r, !.de = Len(remaining) + 1, !.enums = @ + 1]
<1>3. f \in Frames /\ f.kind = "node" /\ f.start = Top.start
  <2>1. r \in AllRequests
    BY RequestsKnown
  <2>2. Len(remaining) + 1 \in Nat
    BY <1>1, Running, TopType
  <2>3. Top \in Frames /\ Top.enums + 1 \in Nat
    BY <1>1, Running DEF Frames
  <2> QED
    BY <1>1, <2>1, <2>2, <2>3 DEF Frames
<1> HIDE DEF f
<1>4. stack' = Append(Below, f)
  BY <1>2 DEF f
<1> QED
  BY <1>1, <1>3, <1>4, NodeAsksAgain

LEMMA OpenNode ==
  ASSUME Inv, NodeInv, ReadSequence \/ ReadMapping
  PROVE  NodeInv' /\ NodeRead
<1>1. outcome = "running" /\ ~AtEnd /\ Ev.type \in Starts /\ Top.kind = "node"
  BY DEF ReadSequence, ReadMapping, Reading, Starts
<1>2. PICK kind \in {"seq", "key"} : Open(kind)
  BY DEF ReadSequence, ReadMapping
<1>3. CASE Exhausted
  BY <1>2, <1>3, FailsNode DEF Open
<1>4. CASE ~Exhausted
  <2> DEFINE f == [Top EXCEPT !.kind = kind, !.depth = @ + 1]
  <2>1. stack' = Append(Below, f) /\ pos' = pos + 1 /\ UNCHANGED fixed
    BY <1>2, <1>4 DEF Open
  <2>2. f \in Frames /\ f.kind = kind /\ f.start = Top.start
    <3>1. Top \in Frames /\ Top.depth + 1 \in Nat
      BY <1>1, Running, FrameType
    <3> QED
      BY <1>2, <3>1 DEF Frames
  <2> HIDE DEF f
  <2>3. pos = Top.start /\ pos < Size /\ pos \in Nat /\ Size \in Nat /\ Kind(pos) \in Starts
    BY <1>1, AtStart, NodeTypes
  <2>4. Reaches(f, pos + 1)
    BY <1>2, <2>2, <2>3, WithinStart DEF Reaches
  <2>5. PICK q : q = pos + 1
    OBVIOUS
  <2>6. Reaches(f, q) /\ pos' = q
    BY <2>1, <2>4, <2>5
  <2> QED
    BY <1>1, <2>1, <2>2, <2>6, NodeGoesOn
<1> QED
  BY <1>3, <1>4

LEMMA OpenVariantNode ==
  ASSUME Inv, NodeInv, OpenVariant
  PROVE  NodeInv' /\ NodeRead
<1> DEFINE f == [Top EXCEPT !.kind = "variant", !.enums = @ + 1]
<1>1. /\ outcome = "running" /\ ~AtEnd /\ Ev.type = "MappingStart" /\ Top.kind = "node"
      /\ pos + 1 < Size /\ Kind(pos + 1) = "Scalar"
      /\ pos' = pos + 2 /\ CallFresh(f, pos') /\ UNCHANGED fixed
  <2>1. document.events[pos + 1 + 1] = document.events[pos + 2]
    <3>1. pos + 1 + 1 = pos + 2
      BY DEF Inv
    <3> QED
      BY <3>1
  <2> QED
    BY <2>1 DEF OpenVariant, Reading, Size, Kind
<1>2. f \in Frames /\ f.kind = "variant" /\ f.start = Top.start
  <2>1. Top \in Frames /\ Top.enums + 1 \in Nat
    BY <1>1, Running DEF Frames
  <2> QED
    BY <2>1 DEF Frames
<1> HIDE DEF f
<1>3. pos = Top.start /\ pos < Size /\ pos \in Nat /\ Size \in Nat /\ Kind(pos) \in Starts
      /\ document.events \in Seq(Events)
  BY <1>1, AtStart, NodeTypes DEF Starts
<1>4. Within(pos, pos + 1)
  BY <1>3, WithinStart
<1>5. Whole(pos + 1) /\ After(pos + 1) = pos + 1 + 1
  <2>1. Kind(pos + 1) \notin Starts /\ Kind(pos + 1) \notin Ends /\ pos + 1 \in Nat
    BY <1>1, <1>3 DEF Starts, Ends
  <2> QED
    BY <1>1, <1>3, <2>1, LeafEnd
<1>6. Within(pos, After(pos + 1))
  <2>1. pos + 1 \in Nat
    BY <1>3
  <2> QED
    BY <1>3, <1>4, <1>5, <2>1, WithinAfter
<1>7. PICK q \in Nat : q = pos + 2
  BY <1>3
<1>8. pos + 1 + 1 = q
  BY <1>3, <1>7
<1>9. Reaches(f, q)
  BY <1>2, <1>3, <1>5, <1>6, <1>8 DEF Reaches
<1>10. pos' = q /\ CallFresh(f, q)
  BY <1>1, <1>7
<1>11. PICK g \in Frames : /\ g.kind = "node" /\ g.start = q
                           /\ stack' = Append(Append(Below, f), g)
  BY <1>1, <1>2, <1>10, FreshNode
<1> QED
  BY <1>1, <1>2, <1>9, <1>10, <1>11, NodeCalls

\* A call on a collection calls for a node where it is.
LEMMA NextOneNode ==
  ASSUME Inv, NodeInv, outcome = "running", Top.kind \notin {"node", "jump"},
         UNCHANGED <<fixed, pos>>,
         NEW f \in Frames, f.start = Top.start, f.kind \notin {"node", "jump"},
         NEW g \in Frames, g.kind = "node", g.start = pos,
         stack' = Append(Append(Below, f), g)
  PROVE  NodeInv' /\ NodeRead
<1>1. Reaches(f, pos)
  BY AtInside DEF Reaches
<1>2. PICK q : q = pos
  OBVIOUS
<1>3. Reaches(f, q) /\ pos' = q /\ g.start = q /\ f.kind # "node" /\ UNCHANGED fixed
  BY <1>1, <1>2
<1> QED
  BY <1>3, NodeCalls

LEMMA NextNode ==
  ASSUME Inv, NodeInv, NextElement \/ NextValue
  PROVE  NodeInv' /\ NodeRead
<1>1. /\ outcome = "running" /\ UNCHANGED <<fixed, pos>>
      /\ Top.kind \notin {"node", "jump"}
  BY DEF NextElement, NextValue
<1>2. PICK f \in Frames : /\ f.start = Top.start /\ f.kind \notin {"node", "jump"}
                          /\ CallFresh(f, pos)
  <2>1. /\ [Top EXCEPT !.kind = "key"] \in Frames
        /\ [Top EXCEPT !.kind = "key"].kind = "key"
        /\ [Top EXCEPT !.kind = "key"].start = Top.start
    BY <1>1, Running DEF Frames
  <2> QED
    BY <1>1, <2>1, Running DEF NextElement, NextValue
<1>3. PICK start \in Nat : start = pos
  BY DEF Inv
<1>4. CallFresh(f, start)
  BY <1>2, <1>3
<1>5. PICK g \in Frames : /\ g.kind = "node" /\ g.start = start
                          /\ stack' = Append(Append(Below, f), g)
  BY <1>1, <1>4, FreshNode
<1> QED
  BY <1>1, <1>2, <1>3, <1>5, NextOneNode

LEMMA NextKeyNode ==
  ASSUME Inv, NodeInv, NextKey
  PROVE  NodeInv' /\ NodeRead
<1>1. outcome = "running" /\ ~AtEnd /\ UNCHANGED <<fixed, pos>> /\ Top.kind = "key"
  BY DEF NextKey, AtKey
<1> DEFINE f == [Top EXCEPT !.kind = "value", !.keys = @ \cup Remembered,
                            !.given = @ \cup {pos}]
<1>2. PICK r \in Requests :
        stack' = Append(Append(Below, f), Node(r, Top.de, pos, Top.depth))
  BY DEF NextKey
<1>3. f \in Frames /\ f.kind = "value" /\ f.start = Top.start
  <2>1. Remembered \subseteq Texts
    BY <1>1, EvType DEF Remembered, Events
  <2>2. Top \in Frames /\ pos \in Nat
    BY <1>1, Running DEF Inv
  <2>3. Top.keys \cup Remembered \in SUBSET Texts /\ Top.given \cup {pos} \in SUBSET Nat
    BY <2>1, <2>2 DEF Frames
  <2> QED
    BY <2>2, <2>3 DEF Frames
<1> DEFINE g == Node(r, Top.de, pos, Top.depth)
<1>4. g \in Frames /\ g.kind = "node" /\ g.start = pos
  <2>1. Top.de \in Nat /\ pos \in Nat /\ Top.depth \in Nat
    BY <1>1, Running, FrameType DEF Inv
  <2> QED
    BY <2>1, NodeType DEF Node
<1> HIDE DEF f, g
<1>5. stack' = Append(Append(Below, f), g)
  BY <1>2 DEF f, g
<1> QED
  BY <1>1, <1>3, <1>4, <1>5, NextOneNode

LEMMA SkipPairNode ==
  ASSUME Inv, NodeInv, SkipPair
  PROVE  NodeInv' /\ NodeRead
<1>1. /\ outcome = "running" /\ ~AtEnd /\ Top.kind = "key" /\ Ev.type = "Scalar"
      /\ Whole(pos + 1) /\ pos' = After(pos + 1)
      /\ UNCHANGED fixed /\ stack' = stack
  BY DEF SkipPair, AtKey, IsDuplicate
<1>2. /\ pos < Size /\ pos \in Nat /\ pos + 1 \in Nat /\ Size \in Nat /\ Top.start \in Nat
      /\ Kind(pos) \notin Starts /\ Kind(pos) \notin Ends
      /\ document.events \in Seq(Events)
  BY <1>1, NodeTypes DEF Starts, Ends
<1>3. Within(Top.start, pos)
  BY <1>1, AtInside
<1>4. Whole(pos) /\ After(pos) = pos + 1
  BY <1>2, LeafEnd
<1>5. Within(Top.start, pos + 1)
  BY <1>2, <1>3, <1>4, WithinAfter
<1>6. Within(Top.start, After(pos + 1))
  BY <1>1, <1>2, <1>5, WithinAfter
<1>7. PICK q : q = After(pos + 1)
  OBVIOUS
<1>8. Reaches(Top, q) /\ pos' = q
  BY <1>1, <1>6, <1>7 DEF Reaches
<1>9. stack' = Append(Below, Top) /\ Top \in Frames
  <2>1. stack = Append(Rest(stack), Last(stack))
    BY <1>1, NodeTypes, Regained
  <2> QED
    BY <1>1, <2>1, NodeTypes, Running
<1> QED
  BY <1>1, <1>8, <1>9, NodeGoesOn

\* Every step reads whole nodes.
LEMMA NodeStep == Inv /\ NodeInv /\ [Next]_vars => NodeInv' /\ NodeRead
<1> SUFFICES ASSUME Inv, NodeInv, [Next]_vars
             PROVE  NodeInv' /\ NodeRead
  OBVIOUS
<1>1. CASE FollowAlias
  BY <1>1, FollowAliasNode
<1>2. CASE JumpBack
  BY <1>2, JumpBackNode
<1>3. CASE ReadScalar \/ ReadVoid \/ EndVariant \/ EndCollection
  BY <1>3, ReadOneNode
<1>4. CASE ReadSome
  BY <1>4, ReadSomeNode
<1>5. CASE ReadNewtype
  BY <1>5, ReadNewtypeNode
<1>6. CASE ReadSequence \/ ReadMapping
  BY <1>6, OpenNode
<1>7. CASE ReadTag
  BY <1>7, ReadTagNode
<1>8. CASE OpenVariant
  BY <1>8, OpenVariantNode
<1>9. CASE Ignore
  BY <1>9, IgnoreNode
<1>10. CASE NextElement \/ NextValue
  BY <1>10, NextNode
<1>11. CASE NextKey
  BY <1>11, NextKeyNode
<1>12. CASE SkipPair
  BY <1>12, SkipPairNode
<1>13. CASE DuplicateIsError \/ Refuse
  BY <1>13, FailsNode DEF DuplicateIsError, Refuse
<1>14. CASE UNCHANGED vars
  BY <1>14, NodeSame DEF vars, fixed
<1> QED
  BY <1>1, <1>2, <1>3, <1>4, <1>5, <1>6, <1>7, <1>8, <1>9, <1>10, <1>11, <1>12,
     <1>13, <1>14 DEF Next

LEMMA NodeInit == Init => NodeInv
<1> SUFFICES ASSUME Init
             PROVE  NodeInv
  OBVIOUS
<1>1. PICK r \in Requests : stack = <<Node(r, 1, 0, 0)>>
  BY DEF Init
<1>2. Len(stack) = 1 /\ Last(stack).kind = "node" /\ Last(stack).start = 0 /\ pos = 0
  BY <1>1 DEF Node, Last, Init
<1>3. \A i \in 1 .. Len(stack) - 1 : FALSE
  BY <1>2
<1> QED
  BY <1>2, <1>3 DEF NodeInv, Nested, Reaches

\* Whatever a visitor asks of a node, a call that returns has read exactly that
\* node: the position is after its end, whether the node was read, ignored,
\* reached through an alias, or read as an enum.
THEOREM ReadsWholeNodes == Spec => OneNodeRead
<1>1. Inv /\ NodeInv /\ [Next]_vars =>
        [Len(stack') < Len(stack) => Whole(Top.start) /\ pos' = After(Top.start)]_vars
  BY NodeStep DEF NodeRead
<1>2. Inv /\ NodeInv /\ [Next]_vars => Inv' /\ NodeInv'
  BY EventDeStep, NodeStep
<1>3. Init => Inv /\ NodeInv
  BY EventDeInit, NodeInit
<1> QED
  BY <1>1, <1>2, <1>3, PTL DEF Spec, OneNodeRead

-----------------------------------------------------------------------------
(* Tags, for visitors that never ask for an enum: deserialize_any alone     *)
(* uses them, and enum_depth is 1 from a tag to the first scalar or end.    *)

\* What holds of the calls s when enum_depth is d: an enum in progress accounts
\* for it, an enum is a node of its own, never an alias, and no call asks for one.
TagsOf(s, d) ==
  /\ d \in {0, 1}
  /\ d = 1 => \E i \in 1 .. Len(s) : s[i].enums = 1
  /\ \A i \in 1 .. Len(s) :
       /\ s[i].enums \in {0, 1}
       /\ s[i].enums = 1 => Kind(s[i].start) \in NodeStarts
       /\ s[i].wants # "enum"
  /\ \A i \in 1 .. Len(s) - 1 : s[i].kind = "jump" => Kind(s[i + 1].start) \in NodeStarts

\* What holds of the innermost call f: the target of an alias has used enum_depth
\* up, and the content of an enum is read with it.
TagAt(f, d) ==
  /\ f.kind = "jump" => d = 0
  /\ f.kind = "node" /\ f.enums = 1 => d = 1

TagInv ==
  /\ stack = <<>> => enumDepth = 0
  /\ stack # <<>> => TagsOf(stack, enumDepth) /\ TagAt(Top, enumDepth)

\* The innermost call goes on as f.
LEMMA TagsReplace ==
  ASSUME NEW s \in Seq(Frames), s # <<>>, NEW d, TagsOf(s, d),
         NEW f \in Frames, f.start = Last(s).start, f.enums \in {0, 1}, f.wants # "enum",
         f.enums = 1 => Kind(f.start) \in NodeStarts,
         NEW e \in {0, 1}, e = 1 => f.enums = 1 \/ (d = 1 /\ f.enums = Last(s).enums)
  PROVE  /\ TagsOf(Append(Rest(s), f), e)
         /\ Last(Append(Rest(s), f)) = f
<1>1. Len(s) \in Nat \ {0} /\ Len(s) - 1 \in 0 .. Len(s)
  OBVIOUS
<1>2. /\ Rest(s) \in Seq(Frames) /\ Len(Rest(s)) = Len(s) - 1
      /\ \A i \in 1 .. Len(s) - 1 : Rest(s)[i] = s[i]
  BY <1>1, PrefixProperties DEF Rest
<1> PICK t : t = Append(Rest(s), f)
  OBVIOUS
<1>3. /\ t \in Seq(Frames) /\ Len(t) = Len(s)
      /\ \A i \in 1 .. Len(s) - 1 : t[i] = s[i]
      /\ t[Len(s)] = f
  BY <1>1, <1>2
<1>4. \A i \in 1 .. Len(s) : i \in 1 .. Len(s) - 1 \/ i = Len(s)
  BY <1>1
<1>5. ASSUME e = 1
      PROVE  \E i \in 1 .. Len(t) : t[i].enums = 1
  <2>1. CASE f.enums = 1
    <3>1. Len(s) \in 1 .. Len(t)
      BY <1>1, <1>3
    <3> QED
      BY <1>3, <2>1, <3>1
  <2>2. CASE d = 1 /\ f.enums = Last(s).enums
    <3>1. PICK i \in 1 .. Len(s) : s[i].enums = 1
      BY <2>2 DEF TagsOf
    <3>2. t[i].enums = 1
      BY <1>3, <1>4, <2>2, <3>1 DEF Last
    <3> QED
      BY <1>3, <3>1, <3>2
  <2> QED
    BY <1>5, <2>1, <2>2
<1>6. ASSUME NEW i \in 1 .. Len(t)
      PROVE  /\ t[i].enums \in {0, 1} /\ (t[i].enums = 1 => Kind(t[i].start) \in NodeStarts)
             /\ t[i].wants # "enum"
  <2>1. CASE i \in 1 .. Len(s) - 1
    <3>1. i \in 1 .. Len(s) /\ t[i] = s[i]
      BY <1>3, <2>1
    <3> QED
      BY <3>1 DEF TagsOf
  <2>2. CASE i = Len(s)
    BY <1>3, <2>2
  <2> QED
    BY <1>3, <1>4, <2>1, <2>2
<1>7. ASSUME NEW i \in 1 .. Len(t) - 1, t[i].kind = "jump"
      PROVE  Kind(t[i + 1].start) \in NodeStarts
  <2>1. i \in 1 .. Len(s) - 1 /\ t[i] = s[i]
    BY <1>3
  <2>2. Kind(s[i + 1].start) \in NodeStarts
    BY <1>7, <2>1 DEF TagsOf
  <2>3. t[i + 1].start = s[i + 1].start
    <3>1. CASE i = Len(s) - 1
      BY <1>1, <1>3, <3>1 DEF Last
    <3>2. CASE i # Len(s) - 1
      <4>1. i + 1 \in 1 .. Len(s) - 1
        BY <1>1, <2>1, <3>2
      <4> QED
        BY <1>3, <4>1
    <3> QED
      BY <3>1, <3>2
  <2> QED
    BY <2>2, <2>3
<1>8. Last(t) = f
  BY <1>3 DEF Last
<1> QED
  BY <1>5, <1>6, <1>7, <1>8 DEF TagsOf

\* A call more, that has used no tag.
LEMMA TagsPush ==
  ASSUME NEW s \in Seq(Frames), s # <<>>, NEW d, TagsOf(s, d),
         NEW g \in Frames, g.enums = 0, g.wants # "enum",
         Last(s).kind = "jump" => Kind(g.start) \in NodeStarts
  PROVE  TagsOf(Append(s, g), d)
<1>1. Len(s) \in Nat \ {0}
  OBVIOUS
<1> PICK t : t = Append(s, g)
  OBVIOUS
<1>2. /\ Len(t) = Len(s) + 1
      /\ \A i \in 1 .. Len(s) : t[i] = s[i]
      /\ t[Len(s) + 1] = g
  BY <1>1
<1>3. d = 1 => \E i \in 1 .. Len(t) : t[i].enums = 1
  <2> SUFFICES ASSUME d = 1
               PROVE  \E i \in 1 .. Len(t) : t[i].enums = 1
    OBVIOUS
  <2>1. PICK i \in 1 .. Len(s) : s[i].enums = 1
    BY DEF TagsOf
  <2>2. i \in 1 .. Len(t)
    BY <1>1, <1>2
  <2> QED
    BY <1>2, <2>1, <2>2
<1>4. ASSUME NEW i \in 1 .. Len(t)
      PROVE  /\ t[i].enums \in {0, 1} /\ (t[i].enums = 1 => Kind(t[i].start) \in NodeStarts)
             /\ t[i].wants # "enum"
  <2>1. i \in 1 .. Len(s) \/ i = Len(s) + 1
    BY <1>1, <1>2
  <2> QED
    BY <1>2, <2>1 DEF TagsOf
<1>5. ASSUME NEW i \in 1 .. Len(t) - 1, t[i].kind = "jump"
      PROVE  Kind(t[i + 1].start) \in NodeStarts
  <2>1. CASE i = Len(s)
    BY <1>1, <1>2, <1>5, <2>1 DEF Last
  <2>2. CASE i # Len(s)
    <3>1. i \in 1 .. Len(s) - 1 /\ i \in 1 .. Len(s) /\ i + 1 \in 1 .. Len(s)
      BY <1>1, <1>2, <2>2
    <3> QED
      BY <1>2, <1>5, <3>1 DEF TagsOf
  <2> QED
    BY <2>1, <2>2
<1> QED
  BY <1>3, <1>4, <1>5 DEF TagsOf

\* The innermost call is over, and if enum_depth still counts it was no enum.
LEMMA TagsReturn ==
  ASSUME NEW s \in Seq(Frames), s # <<>>, NEW d, TagsOf(s, d),
         NEW e \in {0, 1}, e = 1 => d = 1 /\ Last(s).enums = 0,
         Rest(s) # <<>>,
         Last(Rest(s)).kind # "node",
         e = 1 => Kind(Last(s).start) \notin NodeStarts
  PROVE  TagsOf(Rest(s), e) /\ TagAt(Last(Rest(s)), e)
<1>1. Len(s) \in Nat \ {0} /\ Len(s) - 1 \in 0 .. Len(s)
  OBVIOUS
<1> PICK t : t = Rest(s)
  OBVIOUS
<1>2. /\ t \in Seq(Frames) /\ Len(t) = Len(s) - 1
      /\ \A i \in 1 .. Len(s) - 1 : t[i] = s[i]
  BY <1>1, PrefixProperties DEF Rest
<1>3. \A i \in 1 .. Len(t) : i \in 1 .. Len(s) /\ i \in 1 .. Len(s) - 1
  BY <1>1, <1>2
<1>4. ASSUME e = 1
      PROVE  \E i \in 1 .. Len(t) : t[i].enums = 1
  <2>1. PICK i \in 1 .. Len(s) : s[i].enums = 1
    BY <1>4 DEF TagsOf
  <2>2. i # Len(s)
    BY <1>4, <2>1 DEF Last
  <2>3. i \in 1 .. Len(t) /\ i \in 1 .. Len(s) - 1
    BY <1>1, <1>2, <2>2
  <2> QED
    BY <1>2, <2>1, <2>3
<1>5. \A i \in 1 .. Len(t) :
        /\ t[i].enums \in {0, 1}
        /\ t[i].enums = 1 => Kind(t[i].start) \in NodeStarts
        /\ t[i].wants # "enum"
  BY <1>2, <1>3 DEF TagsOf
<1>6. ASSUME NEW i \in 1 .. Len(t) - 1, t[i].kind = "jump"
      PROVE  Kind(t[i + 1].start) \in NodeStarts
  <2>1. i \in 1 .. Len(s) - 1 /\ i + 1 \in 1 .. Len(s) - 1
    BY <1>1, <1>2
  <2> QED
    BY <1>2, <1>6, <2>1 DEF TagsOf
<1>7. TagAt(Last(t), e)
  <2> SUFFICES ASSUME Last(t).kind = "jump", e # 0
               PROVE  FALSE
    BY DEF TagAt
  <2>1. Len(t) \in 1 .. Len(s) - 1 /\ Len(t) + 1 = Len(s)
    BY <1>1, <1>2
  <2>2. Kind(s[Len(t) + 1].start) \in NodeStarts
    BY <1>2, <2>1 DEF TagsOf, Last
  <2> QED
    BY <2>1, <2>2 DEF Last
<1> QED
  BY <1>4, <1>5, <1>6, <1>7 DEF TagsOf

-----------------------------------------------------------------------------
(* Every action keeps to it.                                                *)

\* What the invariants say while a call runs.
LEMMA TagTypes ==
  ASSUME Inv, NodeInv, TagInv, outcome = "running"
  PROVE  /\ stack \in Seq(Frames) /\ stack # <<>> /\ Rest(stack) = Below /\ Last(stack) = Top
         /\ TagsOf(stack, enumDepth) /\ TagAt(Top, enumDepth)
         /\ enumDepth \in {0, 1} /\ Top.enums \in {0, 1}
         /\ Top.enums = 1 => Kind(Top.start) \in NodeStarts
         /\ Top.wants # "enum"
         /\ Below # <<>> => Last(Below).kind # "node"
         /\ Top \in Frames
<1>1. stack \in Seq(Frames) /\ stack # <<>> /\ Rest(stack) = Below /\ Last(stack) = Top
  BY NodeTypes
<1>2. TagsOf(stack, enumDepth) /\ TagAt(Top, enumDepth)
  BY <1>1 DEF TagInv
<1>3. Len(stack) \in Nat \ {0}
  BY <1>1
<1>4. /\ enumDepth \in {0, 1} /\ Top.enums \in {0, 1}
      /\ Top.enums = 1 => Kind(Top.start) \in NodeStarts
      /\ Top.wants # "enum"
  <2>1. Len(stack) \in 1 .. Len(stack)
    BY <1>3
  <2> QED
    BY <1>2, <2>1 DEF TagsOf, Top
<1>5. Below # <<>> => Last(Below).kind # "node"
  <2> SUFFICES ASSUME Below # <<>>
               PROVE  Last(Below).kind # "node"
    OBVIOUS
  <2>1. Len(stack) - 1 \in 0 .. Len(stack)
    BY <1>3
  <2>2. /\ Below \in Seq(Frames) /\ Len(Below) = Len(stack) - 1
        /\ \A i \in 1 .. Len(stack) - 1 : Below[i] = stack[i]
    BY <1>1, <2>1, PrefixProperties DEF Rest
  <2>3. Len(Below) \in 1 .. Len(stack) - 1
    BY <1>3, <2>2
  <2>4. stack[Len(Below)].kind # "node"
    BY <2>3, NodeTypes DEF Nested
  <2> QED
    BY <2>2, <2>3, <2>4 DEF Last
<1> QED
  BY <1>1, <1>2, <1>4, <1>5, Running

\* A step that leaves the document, and the calls s with enum_depth d.
LEMMA TagsKept ==
  ASSUME UNCHANGED fixed, NEW s, NEW d, s = stack', d = enumDepth',
         s = <<>> => d = 0,
         s # <<>> => TagsOf(s, d) /\ TagAt(Last(s), d)
  PROVE  TagInv'
<1>1. document' = document
  BY DEF fixed
<1>2. \A p : Kind(p)' = Kind(p)
  BY <1>1 DEF Kind
<1>3. TagsOf(stack, enumDepth)' <=> TagsOf(s, d)
  BY <1>1 DEF TagsOf, Kind
<1>4. TagAt(Top, enumDepth)' <=> TagAt(Last(s), d)
  BY DEF TagAt, Top, Last
<1> QED
  BY <1>3, <1>4 DEF TagInv

LEMMA TagSame ==
  ASSUME TagInv, UNCHANGED <<fixed, stack, enumDepth>>
  PROVE  TagInv'
<1>1. PICK s, d : s = stack /\ d = enumDepth
  OBVIOUS
<1>2. /\ s = <<>> => d = 0
      /\ s # <<>> => TagsOf(s, d) /\ TagAt(Last(s), d)
  BY <1>1 DEF TagInv, Top, Last
<1>3. UNCHANGED fixed /\ s = stack' /\ d = enumDepth'
  BY <1>1
<1> QED
  BY <1>2, <1>3, TagsKept

\* Once a scalar or an end has been read, enum_depth is 0.
LEMMA UsedUp ==
  ASSUME enumDepth \in {0, 1}, NEW m \in Nat
  PROVE  /\ EnumDepthAfter(m) \in {0, 1}
         /\ m > 0 => EnumDepthAfter(m) = 0
         /\ m = 0 => EnumDepthAfter(m) = enumDepth
         /\ EnumDepthAfter(m) = 1 => enumDepth = 1
BY DEF EnumDepthAfter

\* The innermost call returns with enum_depth at 0, or was on no node start.
LEMMA TagReturns ==
  ASSUME Inv, NodeInv, TagInv, outcome = "running", NEW q, Return(q), UNCHANGED fixed,
         NEW e \in {0, 1}, enumDepth' = e,
         e = 1 => enumDepth = 1 /\ Kind(Top.start) \notin NodeStarts
  PROVE  TagInv'
<1>1. PICK s : s = Rest(stack)
  OBVIOUS
<1>2. stack' = s
  BY <1>1, TagTypes DEF Return
<1>3. PICK d : d = enumDepth
  OBVIOUS
<1>4. e = 1 => d = 1 /\ Last(stack).enums = 0 /\ Kind(Last(stack).start) \notin NodeStarts
  BY <1>3, TagTypes
<1>5. ASSUME s # <<>>
      PROVE  TagsOf(s, e) /\ TagAt(Last(s), e)
  <2>1. TagsOf(stack, d) /\ stack \in Seq(Frames) /\ stack # <<>>
    BY <1>3, TagTypes
  <2>2. Rest(stack) # <<>> /\ Last(Rest(stack)).kind # "node"
    BY <1>1, <1>5, TagTypes
  <2> QED
    BY <1>1, <1>4, <2>1, <2>2, TagsReturn
<1>6. ASSUME s = <<>>, e = 1
      PROVE  FALSE
  <2>1. stack \in Seq(Frames) /\ stack # <<>>
    BY TagTypes
  <2>2. Len(stack) \in Nat \ {0} /\ Len(stack) - 1 \in 0 .. Len(stack)
    BY <2>1
  <2>3. Len(Rest(stack)) = Len(stack) - 1
    BY <2>1, <2>2, PrefixProperties DEF Rest
  <2>4. Len(stack) = 1
    BY <1>1, <1>6, <2>2, <2>3
  <2>5. TagsOf(stack, d) /\ d = 1
    BY <1>3, <1>4, <1>6, TagTypes
  <2>6. PICK i \in 1 .. Len(stack) : stack[i].enums = 1
    BY <2>5 DEF TagsOf
  <2>7. i = Len(stack)
    BY <2>4, <2>6
  <2> QED
    BY <1>4, <1>6, <2>6, <2>7 DEF Last
<1>7. s = <<>> => e = 0
  BY <1>6
<1> QED
  BY <1>2, <1>5, <1>7, TagsKept

\* The innermost call goes on as f.
LEMMA TagGoesOn ==
  ASSUME Inv, NodeInv, TagInv, outcome = "running", UNCHANGED fixed,
         NEW f \in Frames, f.start = Top.start, f.enums \in {0, 1}, f.wants # "enum",
         f.enums = 1 => Kind(f.start) \in NodeStarts,
         NEW e \in {0, 1}, enumDepth' = e,
         e = 1 => f.enums = 1 \/ (enumDepth = 1 /\ f.enums = Top.enums),
         TagAt(f, e), stack' = Append(Below, f)
  PROVE  TagInv'
<1>1. PICK s : s = Append(Rest(stack), f)
  OBVIOUS
<1>2. PICK d : d = enumDepth
  OBVIOUS
<1>3. e = 1 => f.enums = 1 \/ (d = 1 /\ f.enums = Last(stack).enums)
  BY <1>2, TagTypes
<1>4. TagsOf(stack, d) /\ stack \in Seq(Frames) /\ stack # <<>> /\ f.start = Last(stack).start
  BY <1>2, TagTypes
<1>5. TagsOf(s, e) /\ Last(s) = f
  BY <1>1, <1>3, <1>4, TagsReplace
<1>6. stack' = s /\ s # <<>>
  BY <1>1, TagTypes, Running, NotEmpty
<1> QED
  BY <1>5, <1>6, TagsKept

\* The innermost call goes on as f, and calls g.
LEMMA TagCalls ==
  ASSUME Inv, NodeInv, TagInv, outcome = "running", UNCHANGED <<fixed, enumDepth>>,
         NEW f \in Frames, f.start = Top.start, f.enums = Top.enums, f.wants # "enum",
         NEW g \in Frames, g.kind = "node", g.enums = 0, g.wants # "enum",
         f.kind = "jump" => Kind(g.start) \in NodeStarts,
         stack' = Append(Append(Below, f), g)
  PROVE  TagInv'
<1>1. PICK t : t = Append(Rest(stack), f)
  OBVIOUS
<1>2. PICK d \in {0, 1} : d = enumDepth
  BY TagTypes
<1>3. f.enums \in {0, 1} /\ (f.enums = 1 => Kind(f.start) \in NodeStarts)
  BY TagTypes
<1>4. d = 1 => f.enums = 1 \/ (d = 1 /\ f.enums = Last(stack).enums)
  BY TagTypes
<1>5. TagsOf(stack, d) /\ stack \in Seq(Frames) /\ stack # <<>> /\ f.start = Last(stack).start
  BY <1>2, TagTypes
<1>6. TagsOf(t, d) /\ Last(t) = f
  BY <1>1, <1>3, <1>4, <1>5, TagsReplace
<1>7. t \in Seq(Frames) /\ t # <<>>
  BY <1>1, TagTypes, Running, NotEmpty
<1>8. PICK s : s = Append(t, g)
  OBVIOUS
<1>9. TagsOf(s, d)
  BY <1>6, <1>7, <1>8, TagsPush
<1>10. Last(s) = g
  BY <1>7, <1>8 DEF Last
<1>11. TagAt(g, d)
  BY DEF TagAt
<1>12. stack' = s /\ d = enumDepth' /\ s # <<>>
  BY <1>1, <1>2, <1>7, <1>8, TagTypes, Running, NotEmpty
<1> QED
  BY <1>9, <1>10, <1>11, <1>12, TagsKept

\* A whole node has a scalar or an end.
LEMMA LeavesInside ==
  ASSUME NEW p \in Nat, Whole(p), document.events \in Seq(Events), Kind(p) \in NodeStarts
  PROVE  Leaves(p, After(p)) > 0
<1>1. PICK e \in Nat : e = After(p)
  BY UpToEnd DEF Size
<1>2. e \in p + 1 .. Size /\ Level(p, e) = 0
  BY <1>1, UpToEnd
<1>3. \E i \in p + 1 .. e : document.events[i].type \in {"Scalar"} \cup Ends
  <2>1. p + 1 \in p + 1 .. e
    BY <1>2
  <2>2. CASE Kind(p) = "Scalar"
    BY <2>1, <2>2 DEF Kind
  <2>3. CASE Kind(p) \in Starts
    <3>1. p + 1 \in Chosen(Starts, p, e)
      BY <2>1, <2>3 DEF Chosen, Kind
    <3>2. IsFiniteSet(Chosen(Starts, p, e)) /\ Tally(Starts, p, e) \in Nat
          /\ Tally(Ends, p, e) \in Nat
      BY TallyType
    <3>3. Tally(Starts, p, e) # 0
      BY <3>1, <3>2, FS_EmptySet DEF Tally
    <3>4. Tally(Ends, p, e) # 0
      BY <1>2, <3>2, <3>3 DEF Level
    <3>5. Chosen(Ends, p, e) # {}
      BY <3>4, FS_EmptySet DEF Tally
    <3> QED
      BY <3>5 DEF Chosen
  <2> QED
    BY <2>2, <2>3 DEF NodeStarts, Starts
<1>4. Leaves(p, e) = Tally({"Scalar"} \cup Ends, p, e)
  BY DEF Leaves, Tally, Chosen
<1>5. Chosen({"Scalar"} \cup Ends, p, e) # {}
  BY <1>3 DEF Chosen
<1>6. Tally({"Scalar"} \cup Ends, p, e) # 0 /\ Tally({"Scalar"} \cup Ends, p, e) \in Nat
  <2>1. IsFiniteSet(Chosen({"Scalar"} \cup Ends, p, e)) /\ Tally({"Scalar"} \cup Ends, p, e) \in Nat
    BY TallyType
  <2> QED
    BY <1>5, <2>1, FS_EmptySet DEF Tally
<1> QED
  BY <1>1, <1>4, <1>6

LEMMA TagFails ==
  ASSUME TagInv, NEW error, Fail(error)
  PROVE  TagInv'
<1>1. UNCHANGED <<fixed, stack, enumDepth>>
  BY DEF Fail
<1> QED
  BY <1>1, TagSame

LEMMA ReadOneTag ==
  ASSUME Inv, NodeInv, TagInv, ReadScalar \/ EndVariant \/ EndCollection
  PROVE  TagInv'
<1>1. outcome = "running" /\ Return(pos + 1) /\ UNCHANGED fixed
      /\ enumDepth' = EnumDepthAfter(1)
  BY DEF ReadScalar, EndVariant, EndCollection, Reading, Read
<1>2. EnumDepthAfter(1) = 0
  <2>1. 1 \in Nat /\ 1 > 0
    OBVIOUS
  <2> QED
    BY <1>1, <2>1, TagTypes, UsedUp
<1>3. PICK e \in {0, 1} : e = 0 /\ enumDepth' = e
  BY <1>1, <1>2
<1> QED
  BY <1>1, <1>3, TagReturns

\* The void and an alias that is ignored are no node starts, and leave enum_depth.
LEMMA LeafTag ==
  ASSUME Inv, NodeInv, TagInv, outcome = "running", Top.kind = "node", ~AtEnd,
         Ev.type \notin NodeStarts, NEW q, Return(q), UNCHANGED <<fixed, enumDepth>>
  PROVE  TagInv'
<1>1. Kind(Top.start) \notin NodeStarts
  BY AtStart, NodeTypes
<1>2. PICK e \in {0, 1} : enumDepth = e /\ enumDepth' = e
  BY TagTypes
<1> QED
  BY <1>1, <1>2, TagReturns

LEMMA ReadVoidTag ==
  ASSUME Inv, NodeInv, TagInv, ReadVoid
  PROVE  TagInv'
<1>1. outcome = "running" /\ Return(pos + 1) /\ UNCHANGED fixed /\ Top.kind = "node"
      /\ ~AtEnd /\ Ev.type = "Void" /\ enumDepth' = EnumDepthAfter(0)
  BY DEF ReadVoid, Reading, Read
<1>2. EnumDepthAfter(0) = enumDepth
  <2>1. 0 \in Nat
    OBVIOUS
  <2> QED
    BY <1>1, <2>1, TagTypes, UsedUp
<1>3. Ev.type \notin NodeStarts
  BY <1>1 DEF NodeStarts
<1> QED
  BY <1>1, <1>2, <1>3, LeafTag

LEMMA IgnoreTag ==
  ASSUME Inv, NodeInv, TagInv, Ignore
  PROVE  TagInv'
<1>1. /\ outcome = "running" /\ Top.kind = "node" /\ ~AtEnd
      /\ Ev.type \in NodeStarts \cup {"Alias"}
      /\ Whole(pos) /\ Return(After(pos)) /\ UNCHANGED fixed
      /\ enumDepth' = EnumDepthAfter(Leaves(pos, After(pos)))
  BY DEF Ignore, Reading, Read
<1>2. /\ pos \in Nat /\ pos = Top.start /\ pos < Size /\ Size \in Nat
      /\ Ev.type = Kind(pos) /\ document.events \in Seq(Events)
  BY <1>1, AtStart, NodeTypes
<1>3. After(pos) \in Nat
  BY <1>1, <1>2, UpToEnd
<1>4. Leaves(pos, After(pos)) \in Nat
  BY <1>2, <1>3, LeavesType
<1>5. PICK e \in {0, 1} : e = EnumDepthAfter(Leaves(pos, After(pos)))
  BY <1>1, <1>4, TagTypes, UsedUp
<1>6. e = 1 => enumDepth = 1 /\ Kind(Top.start) \notin NodeStarts
  <2>1. Kind(pos) \in NodeStarts => Leaves(pos, After(pos)) > 0
    BY <1>1, <1>2, LeavesInside
  <2>2. Kind(pos) \in NodeStarts => e = 0
    BY <1>1, <1>4, <1>5, <2>1, TagTypes, UsedUp
  <2>3. e = 1 => enumDepth = 1
    BY <1>1, <1>4, <1>5, TagTypes, UsedUp
  <2> QED
    BY <1>2, <2>2, <2>3
<1>7. enumDepth' = e
  BY <1>1, <1>5
<1> QED
  BY <1>1, <1>6, <1>7, TagReturns

\* An alias leads to the start of a node.
LEMMA AliasStarts ==
  ASSUME Inv, ~AtEnd, Ev.type = "Alias"
  PROVE  document.events[document.aliases[Ev.id + 1] + 1].type \in NodeStarts
<1>1. /\ document.events \in Seq(Events)
      /\ document.aliases \in Seq(Nat)
      /\ pos + 1 \in 1 .. Len(document.events)
  BY DEF Inv, IsDocument, AtEnd
<1>2. Ev.id \in Nat
  BY EvType DEF Events
<1>3. Ev.id < Len(document.aliases)
  BY <1>1 DEF Ev, Inv, IsDocument
<1>4. Ev.id + 1 \in 1 .. Len(document.aliases)
  BY <1>1, <1>2, <1>3
<1> QED
  BY <1>4 DEF Inv, IsDocument

LEMMA FollowAliasTag ==
  ASSUME Inv, NodeInv, TagInv, FollowAlias
  PROVE  TagInv'
<1>1. outcome = "running" /\ ~AtEnd /\ Ev.type = "Alias" /\ Top.kind = "node"
  BY DEF FollowAlias, Reading
<1>2. CASE jumpcount + 1 > AliasLimit
  <2>1. Fail("RepetitionLimitExceeded")
    BY <1>2 DEF FollowAlias
  <2> QED
    BY <2>1, TagFails
<1>3. CASE ~(jumpcount + 1 > AliasLimit)
  <2> DEFINE f == [Top EXCEPT !.kind = "jump", !.saved = pos + 1]
             g == Node(Top.wants, Len(remaining) + 1, document.aliases[Ev.id + 1], Top.depth)
  <2>1. /\ stack' = Append(Append(Below, f), g)
        /\ enumDepth' = EnumDepthAfter(0)
        /\ UNCHANGED fixed
    BY <1>3 DEF FollowAlias, Read
  <2>2. f \in Frames /\ f.start = Top.start /\ f.enums = Top.enums /\ f.wants # "enum"
    <3>1. Top \in Frames /\ pos + 1 \in Nat /\ Top.wants # "enum"
      BY <1>1, Running, TagTypes
    <3> QED
      BY ONLY <3>1 DEF Frames, f
  <2>3. /\ g \in Frames /\ g.kind = "node" /\ g.enums = 0 /\ g.wants # "enum"
        /\ g.start = document.aliases[Ev.id + 1]
    <3>1. /\ Top.wants \in AllRequests /\ Top.wants # "enum"
          /\ Len(remaining) + 1 \in Nat
          /\ document.aliases[Ev.id + 1] \in Nat
          /\ Top.depth \in Nat
      BY <1>1, Running, TopType, EvType, TagTypes DEF Frames
    <3> QED
      BY <3>1 DEF Node, Frames
  <2> HIDE DEF f, g
  <2>4. enumDepth' = enumDepth
    <3>1. 0 \in Nat
      OBVIOUS
    <3> QED
      BY <1>1, <2>1, <3>1, TagTypes, UsedUp
  <2>5. Kind(document.aliases[Ev.id + 1]) \in NodeStarts
    BY <1>1, AliasStarts DEF Kind
  <2>6. Kind(g.start) \in NodeStarts
    BY <2>3, <2>5
  <2> QED
    BY <1>1, <2>1, <2>2, <2>3, <2>4, <2>6, TagCalls
<1> QED
  BY <1>2, <1>3

LEMMA JumpBackTag ==
  ASSUME Inv, NodeInv, TagInv, JumpBack
  PROVE  TagInv'
<1>1. /\ outcome = "running" /\ Top.kind = "jump" /\ Return(Top.saved)
      /\ UNCHANGED <<fixed, enumDepth>>
  BY DEF JumpBack
<1>2. enumDepth = 0
  BY <1>1, TagTypes DEF TagAt
<1>3. PICK e \in {0, 1} : e = 0 /\ enumDepth' = e
  BY <1>1, <1>2
<1>4. PICK q : q = Top.saved
  OBVIOUS
<1>5. Return(q)
  BY <1>1, <1>4
<1> QED
  BY <1>1, <1>3, <1>5, TagReturns

\* The call goes on, enum_depth and the enums of the node as they are.
LEMMA TagStays ==
  ASSUME Inv, NodeInv, TagInv, outcome = "running", UNCHANGED <<fixed, enumDepth>>,
         NEW f \in Frames, f.start = Top.start, f.enums = Top.enums, f.wants # "enum",
         f.kind # "jump", f.kind = "node" => Top.kind = "node", stack' = Append(Below, f)
  PROVE  TagInv'
<1>1. PICK e \in {0, 1} : e = enumDepth /\ enumDepth' = e
  BY TagTypes
<1>2. f.enums \in {0, 1} /\ (f.enums = 1 => Kind(f.start) \in NodeStarts)
  BY TagTypes
<1>3. TagAt(f, e)
  BY <1>1, TagTypes DEF TagAt
<1>4. e = 1 => f.enums = 1 \/ (enumDepth = 1 /\ f.enums = Top.enums)
  BY <1>1
<1>5. UNCHANGED fixed
  OBVIOUS
<1> QED
  BY <1>1, <1>2, <1>3, <1>4, <1>5, TagGoesOn

LEMMA ReadSomeTag ==
  ASSUME Inv, NodeInv, TagInv, ReadSome, "enum" \notin Requests
  PROVE  TagInv'
<1>1. outcome = "running" /\ UNCHANGED <<fixed, enumDepth>> /\ Top.kind = "node"
  BY DEF ReadSome, Reading
<1>2. PICK r \in Requests : stack' = Append(Below, [Top EXCEPT !.wants = r])
  BY DEF ReadSome
<1> DEFINE f == [Top EXCEPT !.wants = r]
<1>3. /\ f \in Frames /\ f.kind = "node" /\ f.start = Top.start /\ f.enums = Top.enums
      /\ f.wants # "enum"
  BY <1>1, RequestsKnown, Running DEF Frames
<1> HIDE DEF f
<1>4. stack' = Append(Below, f)
  BY <1>2 DEF f
<1> QED
  BY <1>1, <1>3, <1>4, TagStays

LEMMA ReadNewtypeTag ==
  ASSUME Inv, NodeInv, TagInv, ReadNewtype, "enum" \notin Requests
  PROVE  TagInv'
<1>1. outcome = "running" /\ Top.kind = "node"
  BY DEF ReadNewtype, Reading
<1>2. CASE Exhausted
  BY <1>2, TagFails DEF ReadNewtype
<1>3. CASE ~Exhausted
  <2>1. UNCHANGED <<fixed, enumDepth>>
    BY <1>3 DEF ReadNewtype
  <2>2. PICK r \in Requests :
          stack' = Append(Below, [Top EXCEPT !.wants = r, !.depth = @ + 1])
    BY <1>3 DEF ReadNewtype
  <2> DEFINE f == [Top EXCEPT !.wants = r, !.depth = @ + 1]
  <2>3. /\ f \in Frames /\ f.kind = "node" /\ f.start = Top.start /\ f.enums = Top.enums
        /\ f.wants # "enum"
    <3>1. r \in AllRequests /\ r # "enum"
      BY RequestsKnown
    <3>2. Top \in Frames
      BY <1>1, Running
    <3>3. Top.depth + 1 \in Nat
      BY <3>2, FrameType
    <3> QED
      BY <1>1, <3>1, <3>2, <3>3 DEF Frames
  <2> HIDE DEF f
  <2>4. stack' = Append(Below, f)
    BY <2>2 DEF f
  <2> QED
    BY <1>1, <2>1, <2>3, <2>4, TagStays
<1> QED
  BY <1>2, <1>3

\* A tag is used: enum_depth was 0.
LEMMA ReadTagTag ==
  ASSUME Inv, NodeInv, TagInv, ReadTag, "enum" \notin Requests
  PROVE  TagInv'
<1>1. outcome = "running" /\ ~AtEnd /\ Ev.type \in NodeStarts /\ Top.kind = "node"
  BY DEF ReadTag, Reading
<1>2. enumDepth' = enumDepth + 1 /\ UNCHANGED fixed
  BY DEF ReadTag
<1>3. enumDepth = 0
  <2>1. Top.wants # "enum"
    BY <1>1, TagTypes
  <2> QED
    BY <2>1 DEF ReadTag, SeesTag
<1>4. PICK r \in Requests :
        stack' = Append(Below, [Top EXCEPT !.wants = r, !.de = Len(remaining) + 1,
                                           !.enums = @ + 1])
  BY DEF ReadTag
<1> DEFINE f == [Top EXCEPT !.wants = r, !.de = Len(remaining) + 1, !.enums = @ + 1]
<1>5. /\ f \in Frames /\ f.start = Top.start /\ f.enums = Top.enums + 1 /\ f.kind = "node"
      /\ f.wants # "enum"
  <2>1. r \in AllRequests /\ r # "enum"
    BY RequestsKnown
  <2>2. Len(remaining) + 1 \in Nat
    BY <1>1, Running, TopType
  <2>3. Top \in Frames /\ Top.enums + 1 \in Nat
    BY <1>1, Running DEF Frames
  <2> QED
    BY <1>1, <2>1, <2>2, <2>3 DEF Frames
<1> HIDE DEF f
<1>6. Top.enums = 0
  BY <1>1, <1>3, TagTypes DEF TagAt
<1>7. PICK e \in {0, 1} : e = 1 /\ enumDepth' = e
  BY <1>2, <1>3
<1>8. f.enums = 1
  BY <1>5, <1>6
<1>9. Kind(f.start) \in NodeStarts
  BY <1>1, <1>5, AtStart, NodeTypes
<1>10. TagAt(f, e)
  BY <1>5, <1>7 DEF TagAt
<1>11. stack' = Append(Below, f)
  BY <1>4 DEF f
<1> QED
  BY <1>1, <1>2, <1>5, <1>7, <1>8, <1>9, <1>10, <1>11, TagGoesOn

LEMMA OpenTag ==
  ASSUME Inv, NodeInv, TagInv, ReadSequence \/ ReadMapping
  PROVE  TagInv'
<1>1. outcome = "running" /\ Top.kind = "node"
  BY DEF ReadSequence, ReadMapping, Reading
<1>2. PICK kind \in {"seq", "key"} : Open(kind)
  BY DEF ReadSequence, ReadMapping
<1>3. CASE Exhausted
  BY <1>2, <1>3, TagFails DEF Open
<1>4. CASE ~Exhausted
  <2> DEFINE f == [Top EXCEPT !.kind = kind, !.depth = @ + 1]
  <2>1. stack' = Append(Below, f) /\ enumDepth' = EnumDepthAfter(0) /\ UNCHANGED fixed
    BY <1>2, <1>4 DEF Open, Read
  <2>2. /\ f \in Frames /\ f.kind = kind /\ f.start = Top.start /\ f.enums = Top.enums
        /\ f.wants # "enum"
    <3>1. Top \in Frames /\ Top.depth + 1 \in Nat /\ Top.wants # "enum"
      BY <1>1, Running, FrameType, TagTypes
    <3> QED
      BY <1>2, <3>1 DEF Frames
  <2> HIDE DEF f
  <2>3. enumDepth' = enumDepth
    <3>1. 0 \in Nat
      OBVIOUS
    <3> QED
      BY <1>1, <2>1, <3>1, TagTypes, UsedUp
  <2>4. f.kind # "jump" /\ f.kind # "node"
    BY <1>2, <2>2
  <2> QED
    BY <1>1, <2>1, <2>2, <2>3, <2>4, TagStays
<1> QED
  BY <1>3, <1>4

LEMMA NextTag ==
  ASSUME Inv, NodeInv, TagInv, NextElement \/ NextValue, "enum" \notin Requests
  PROVE  TagInv'
<1>1. /\ outcome = "running" /\ UNCHANGED <<fixed, enumDepth>>
      /\ Top.kind \notin {"node", "jump"}
  BY DEF NextElement, NextValue
<1>2. PICK f \in Frames : /\ f.start = Top.start /\ f.kind \notin {"node", "jump"}
                          /\ f.enums = Top.enums /\ f.wants = Top.wants
                          /\ CallFresh(f, pos)
  <2>1. /\ [Top EXCEPT !.kind = "key"] \in Frames
        /\ [Top EXCEPT !.kind = "key"].kind = "key"
        /\ [Top EXCEPT !.kind = "key"].start = Top.start
        /\ [Top EXCEPT !.kind = "key"].enums = Top.enums
        /\ [Top EXCEPT !.kind = "key"].wants = Top.wants
    BY <1>1, Running DEF Frames
  <2> QED
    BY <1>1, <2>1, Running DEF NextElement, NextValue
<1>3. PICK start \in Nat : start = pos
  BY DEF Inv
<1>4. CallFresh(f, start)
  BY <1>2, <1>3
<1>5. PICK g \in Frames : /\ g.kind = "node" /\ g.enums = 0 /\ g.wants \in Requests
                          /\ stack' = Append(Append(Below, f), g)
  BY <1>1, <1>4, FreshNode
<1>6. f.wants # "enum" /\ g.wants # "enum"
  BY <1>1, <1>2, <1>5, TagTypes
<1>7. f.kind # "jump"
  BY <1>2
<1> QED
  BY <1>1, <1>2, <1>5, <1>6, <1>7, TagCalls

LEMMA NextKeyTag ==
  ASSUME Inv, NodeInv, TagInv, NextKey, "enum" \notin Requests
  PROVE  TagInv'
<1>1. outcome = "running" /\ ~AtEnd /\ UNCHANGED <<fixed, enumDepth>>
  BY DEF NextKey, AtKey
<1> DEFINE f == [Top EXCEPT !.kind = "value", !.keys = @ \cup Remembered,
                            !.given = @ \cup {pos}]
<1>2. PICK r \in Requests :
        stack' = Append(Append(Below, f), Node(r, Top.de, pos, Top.depth))
  BY DEF NextKey
<1>3. /\ f \in Frames /\ f.kind = "value" /\ f.start = Top.start /\ f.enums = Top.enums
      /\ f.wants = Top.wants
  <2>1. Remembered \subseteq Texts
    BY <1>1, EvType DEF Remembered, Events
  <2>2. Top \in Frames /\ pos \in Nat
    BY <1>1, Running DEF Inv
  <2>3. Top.keys \cup Remembered \in SUBSET Texts /\ Top.given \cup {pos} \in SUBSET Nat
    BY <2>1, <2>2 DEF Frames
  <2> QED
    BY <2>2, <2>3 DEF Frames
<1> DEFINE g == Node(r, Top.de, pos, Top.depth)
<1>4. g \in Frames /\ g.kind = "node" /\ g.enums = 0 /\ g.wants = r
  <2>1. Top.de \in Nat /\ pos \in Nat /\ Top.depth \in Nat
    BY <1>1, Running, FrameType DEF Inv
  <2> QED
    BY <2>1, NodeType DEF Node
<1> HIDE DEF f, g
<1>5. stack' = Append(Append(Below, f), g)
  BY <1>2 DEF f, g
<1>6. f.wants # "enum" /\ g.wants # "enum" /\ f.kind # "jump"
  BY <1>1, <1>3, <1>4, TagTypes
<1> QED
  BY <1>1, <1>3, <1>4, <1>5, <1>6, TagCalls

LEMMA SkipPairTag ==
  ASSUME Inv, NodeInv, TagInv, SkipPair
  PROVE  TagInv'
<1>1. /\ outcome = "running" /\ ~AtEnd /\ Top.kind = "key" /\ Ev.type = "Scalar"
      /\ Whole(pos + 1) /\ pos' = After(pos + 1)
      /\ enumDepth' = EnumDepthAfter(Leaves(pos, pos'))
      /\ UNCHANGED fixed /\ stack' = stack
  BY DEF SkipPair, AtKey, IsDuplicate, Read
<1>2. /\ pos \in Nat /\ pos + 1 \in Nat /\ Size \in Nat /\ document.events \in Seq(Events)
      /\ Kind(pos) = "Scalar"
  BY <1>1, NodeTypes
<1>3. PICK q \in Nat : q = pos' /\ q \in pos + 1 + 1 .. Size
  BY <1>1, <1>2, UpToEnd
<1>4. Leaves(pos, q) \in Nat /\ Leaves(pos, q) > 0
  <2>1. Leaves(pos, q) = Tally({"Scalar"} \cup Ends, pos, q)
    BY DEF Leaves, Tally, Chosen
  <2>2. pos + 1 \in Chosen({"Scalar"} \cup Ends, pos, q)
    BY <1>2, <1>3 DEF Chosen, Kind
  <2>3. /\ IsFiniteSet(Chosen({"Scalar"} \cup Ends, pos, q))
        /\ Tally({"Scalar"} \cup Ends, pos, q) \in Nat
    BY <1>2, TallyType
  <2>4. Tally({"Scalar"} \cup Ends, pos, q) # 0
    BY <2>2, <2>3, FS_EmptySet DEF Tally
  <2> QED
    BY <2>1, <2>3, <2>4
<1>5. enumDepth' = 0
  BY <1>1, <1>3, <1>4, TagTypes, UsedUp
<1>6. PICK e \in {0, 1} : e = 0 /\ enumDepth' = e
  BY <1>5
<1>7. stack' = Append(Below, Top) /\ Top \in Frames
  <2>1. stack = Append(Rest(stack), Last(stack))
    BY <1>1, NodeTypes, Regained
  <2> QED
    BY <1>1, <2>1, NodeTypes, Running
<1>8. /\ Top.enums \in {0, 1} /\ (Top.enums = 1 => Kind(Top.start) \in NodeStarts)
      /\ Top.wants # "enum"
  BY <1>1, TagTypes
<1>9. TagAt(Top, e)
  BY <1>1, <1>6 DEF TagAt
<1>10. e = 1 => Top.enums = 1 \/ (enumDepth = 1 /\ Top.enums = Top.enums)
  BY <1>6
<1> QED
  BY <1>1, <1>6, <1>7, <1>8, <1>9, <1>10, TagGoesOn

\* Without a request for an enum, none is read as a mapping.
LEMMA OpenVariantTag ==
  ASSUME Inv, NodeInv, TagInv, OpenVariant
  PROVE  FALSE
<1>1. outcome = "running" /\ Top.wants = "enum"
  BY DEF OpenVariant, Reading
<1> QED
  BY <1>1, TagTypes

LEMMA TagStep ==
  ASSUME Inv, NodeInv, TagInv, [Next]_vars, "enum" \notin Requests
  PROVE  TagInv'
<1>1. CASE FollowAlias
  BY <1>1, FollowAliasTag
<1>2. CASE JumpBack
  BY <1>2, JumpBackTag
<1>3. CASE ReadScalar \/ EndVariant \/ EndCollection
  BY <1>3, ReadOneTag
<1>4. CASE ReadVoid
  BY <1>4, ReadVoidTag
<1>5. CASE ReadSome
  BY <1>5, ReadSomeTag
<1>6. CASE ReadNewtype
  BY <1>6, ReadNewtypeTag
<1>7. CASE ReadSequence \/ ReadMapping
  BY <1>7, OpenTag
<1>8. CASE ReadTag
  BY <1>8, ReadTagTag
<1>9. CASE OpenVariant
  BY <1>9, OpenVariantTag
<1>10. CASE Ignore
  BY <1>10, IgnoreTag
<1>11. CASE NextElement \/ NextValue
  BY <1>11, NextTag
<1>12. CASE NextKey
  BY <1>12, NextKeyTag
<1>13. CASE DuplicateIsError \/ Refuse
  <2>1. PICK error : Fail(error)
    BY <1>13 DEF DuplicateIsError, Refuse
  <2> QED
    BY <2>1, TagFails
<1>14. CASE SkipPair
  BY <1>14, SkipPairTag
<1>15. CASE UNCHANGED vars
  <2>1. UNCHANGED <<fixed, stack, enumDepth>>
    BY <1>15 DEF vars, fixed
  <2> QED
    BY <2>1, TagSame
<1> QED
  BY <1>1, <1>2, <1>3, <1>4, <1>5, <1>6, <1>7, <1>8, <1>9, <1>10, <1>11, <1>12, <1>13,
     <1>14, <1>15 DEF Next

LEMMA TagInit ==
  ASSUME Init, "enum" \notin Requests
  PROVE  TagInv
<1>1. PICK r \in Requests : stack = <<Node(r, 1, 0, 0)>>
  BY DEF Init
<1>2. PICK f : f = Node(r, 1, 0, 0)
  OBVIOUS
<1>3. f.kind = "node" /\ f.enums = 0 /\ f.wants # "enum"
  BY <1>2 DEF Node
<1>4. Len(stack) = 1 /\ stack[1] = f /\ Top = f
  BY <1>1, <1>2 DEF Top
<1>5. enumDepth = 0
  BY DEF Init
<1>6. TagsOf(stack, enumDepth)
  BY <1>3, <1>4, <1>5 DEF TagsOf
<1>7. TagAt(Top, enumDepth)
  BY <1>3, <1>4, <1>5 DEF TagAt
<1> QED
  BY <1>4, <1>5, <1>6, <1>7 DEF TagInv

\* Visitors that leave tags to deserialize_any.
TagInvIfLeft == "enum" \notin Requests => TagInv

LEMMA TagInvHolds == Spec => [](Inv /\ NodeInv /\ TagInvIfLeft)
<1>1. Init => Inv /\ NodeInv /\ TagInvIfLeft
  BY EventDeInit, NodeInit, TagInit DEF TagInvIfLeft
<1>2. Inv /\ NodeInv /\ TagInvIfLeft /\ [Next]_vars => (Inv /\ NodeInv /\ TagInvIfLeft)'
  <2> SUFFICES ASSUME Inv, NodeInv, TagInvIfLeft, [Next]_vars
               PROVE  (Inv /\ NodeInv /\ TagInvIfLeft)'
    OBVIOUS
  <2>1. Inv' /\ NodeInv'
    BY EventDeStep, NodeStep
  <2>2. ASSUME "enum" \notin Requests PROVE TagInv'
    BY <2>2, TagStep DEF TagInvIfLeft
  <2>3. TagInvIfLeft'
    BY <2>2, RequestsKept DEF TagInvIfLeft
  <2> QED
    BY <2>1, <2>3
<1> QED
  BY <1>1, <1>2, PTL DEF Spec

\* What the invariant says of the enums in progress.
LEMMA TagsShow ==
  ASSUME Inv, TagInv
  PROVE  EnumsClosed /\ TagUsedOnce
<1>1. stack \in Seq(Frames) /\ enumDepth \in Nat
  BY DEF Inv, Sound, Stacked
<1>2. TagUsedOnce
  <2> SUFFICES ASSUME NEW i \in 1 .. Len(stack)
               PROVE  stack[i].enums <= 1
    BY DEF TagUsedOnce
  <2>1. stack # <<>>
    BY <1>1
  <2>2. stack[i].enums \in {0, 1}
    BY <2>1 DEF TagInv, TagsOf
  <2> QED
    BY <2>2
<1>3. EnumsClosed
  <2> DEFINE open == { i \in 1 .. Len(stack) : stack[i].enums > 0 }
  <2>1. IsFiniteSet(open) /\ Cardinality(open) \in Nat
    <3>1. Len(stack) \in Nat
      BY <1>1
    <3>2. IsFiniteSet(1 .. Len(stack))
      BY <3>1, FS_Interval
    <3> QED
      BY <3>2, FS_Subset, FS_CardinalityType
  <2>2. CASE enumDepth = 0
    BY <2>1, <2>2 DEF EnumsClosed
  <2>3. CASE stack # <<>>
    <3>1. enumDepth \in {0, 1}
      BY <2>3 DEF TagInv, TagsOf
    <3>2. CASE enumDepth = 1
      <4>1. PICK i \in 1 .. Len(stack) : stack[i].enums = 1
        BY <2>3, <3>2 DEF TagInv, TagsOf
      <4>2. i \in open
        BY <4>1
      <4>3. Cardinality(open) # 0
        BY <2>1, <4>2, FS_EmptySet
      <4> HIDE DEF open
      <4>4. enumDepth <= Cardinality(open)
        BY <2>1, <3>2, <4>3
      <4> QED
        BY <4>4 DEF EnumsClosed, open
    <3> QED
      BY <2>2, <3>1, <3>2
  <2> QED
    BY <2>2, <2>3 DEF TagInv
<1> QED
  BY <1>2, <1>3

\* Where no visitor asks for an enum, and tags are used by deserialize_any alone,
\* enum_depth counts no more than the enums in progress: the decrement for the
\* first scalar or end of the content takes back what the EnumAccess counted, so
\* that the tags that follow are seen.
THEOREM EnumsAreClosed == Spec => []EnumsClosed
<1>1. Inv /\ NodeInv /\ TagInvIfLeft => EnumsClosed
  BY TagsShow DEF TagInvIfLeft, EnumsClosed
<1> QED
  BY <1>1, TagInvHolds, PTL

\* Where no visitor asks for an enum, deserialize_any hands out one EnumAccess for
\* a tag: the content is read with enum_depth counted up, so that the tag is not
\* found again, whatever comes between.
THEOREM TagsAreUsedOnce == Spec => []TagUsedOnce
<1>1. Inv /\ NodeInv /\ TagInvIfLeft => TagUsedOnce
  BY TagsShow DEF TagInvIfLeft, TagUsedOnce
<1> QED
  BY <1>1, TagInvHolds, PTL

-----------------------------------------------------------------------------
(* The children of a collection, one after the other.                       *)

Text(p) == document.events[p + 1].text

\* The children of the collection at s that start before x, and whether the next
\* one is a value.
Before(s, x) == { c \in Children(s) : c < x }
Odd(s, x) == Cardinality(Before(s, x)) % 2 # 0

LEMMA ChildrenAt ==
  ASSUME NEW s \in Nat, NEW p \in Nat
  PROVE  p \in Children(s) <=> /\ p \in s + 1 .. Size - 1
                               /\ Kind(p) \notin Ends
                               /\ Level(s, p) = 1
                               /\ \A q \in NodeEnds(s) : p < q
<1>1. PICK a \in Nat, b \in Nat : a = Tally(Starts, s, p) /\ b = Tally(Ends, s, p)
  BY TallyType
<1>2. a = 1 + b <=> a - b = 1
  BY ONLY a \in Nat, b \in Nat
<1>3. Tally(Starts, s, p) = 1 + Tally(Ends, s, p) <=> Level(s, p) = 1
  BY <1>1, <1>2 DEF Level
<1> QED
  BY <1>3 DEF Children, Size, Kind, Tally, Chosen

LEMMA ChildrenType ==
  ASSUME NEW s \in Nat, NEW x, Size \in Nat
  PROVE  /\ Children(s) \subseteq Nat
         /\ IsFiniteSet(Before(s, x)) /\ Cardinality(Before(s, x)) \in Nat
<1>1. Children(s) \subseteq s + 1 .. Size - 1
  BY DEF Children, Size
<1>2. IsFiniteSet(s + 1 .. Size - 1)
  BY FS_Interval
<1>3. Before(s, x) \subseteq s + 1 .. Size - 1
  BY <1>1 DEF Before
<1>4. IsFiniteSet(Before(s, x))
  BY <1>2, <1>3, FS_Subset
<1> QED
  BY <1>1, <1>4, FS_CardinalityType

LEMMA Parity == \A n \in Nat : (n + 1) % 2 # 0 <=> ~(n % 2 # 0)
OBVIOUS

\* A node inside a collection, where no other is open, is a child.
LEMMA WithinChild ==
  ASSUME NEW s \in Nat, NEW c \in Nat, Within(s, c), c < Size, Size \in Nat, Kind(c) \notin Ends
  PROVE  c \in Children(s)
<1>1. c \in s + 1 .. Size - 1 /\ Level(s, c) = 1
  BY DEF Within
<1>2. ASSUME NEW q \in NodeEnds(s), ~(c < q)
      PROVE  FALSE
  <2>1. q \in Nat /\ q >= s + 1
    BY DEF NodeEnds
  <2>2. Level(s, q) = 0
    BY <2>1, NodeEndsLevel
  <2>3. q \in s + 1 .. c
    BY <1>2, <2>1
  <2> QED
    BY <2>2, <2>3 DEF Within
<1> QED
  BY <1>1, <1>2, ChildrenAt

\* Up to its end, a child is the only one.
LEMMA NoChildInside ==
  ASSUME NEW s \in Nat, NEW c \in Nat, Within(s, c), Whole(c),
         document.events \in Seq(Events), NEW k \in Children(s), k < After(c)
  PROVE  k <= c
<1>1. PICK e \in Nat : e = After(c)
  BY UpToEnd DEF Size
<1>2. /\ e \in c + 1 .. Size
      /\ \A q \in c + 1 .. e - 1 : Level(c, q) >= 1
  BY <1>1, UpToEnd
<1>3. k \in Nat
  <2>1. Size \in Nat
    BY DEF Size
  <2> QED
    BY <2>1, ChildrenType
<1>4. Level(s, k) = 1
  BY <1>3, ChildrenAt
<1>5. ASSUME ~(k <= c)
      PROVE  FALSE
  <2>1. k \in c + 1 .. e - 1 /\ c <= k
    BY <1>1, <1>2, <1>3, <1>5
  <2>2. Level(c, k) >= 1 /\ Level(c, k) \in Int
    BY <1>2, <1>3, <2>1, LevelType
  <2>3. s <= c /\ Level(s, c) = 1
    BY DEF Within
  <2>4. Level(s, k) = Level(s, c) + Level(c, k)
    BY <1>3, <2>1, <2>3, LevelSplit
  <2> QED
    BY <1>4, <2>2, <2>3, <2>4
<1> QED
  BY <1>5

\* The next child makes one child more.
LEMMA BeforeNext ==
  ASSUME NEW s \in Nat, NEW c \in Nat, Within(s, c), Whole(c), Size \in Nat,
         document.events \in Seq(Events)
  PROVE  /\ c \in Children(s)
         /\ \A k \in Children(s) : k < After(c) <=> k < c + 1
         /\ Odd(s, After(c)) <=> ~Odd(s, c)
<1>1. PICK e \in Nat : e = After(c) /\ e \in c + 1 .. Size /\ Kind(c) \notin Ends
  BY UpToEnd
<1>2. c \in Children(s)
  BY <1>1, WithinChild
<1>3. Children(s) \subseteq Nat
  BY ChildrenType
<1>4. ASSUME NEW k \in Children(s)
      PROVE  k < e <=> k < c + 1
  <2>1. k \in Nat
    BY <1>3
  <2>2. k < e => k <= c
    BY <1>1, NoChildInside
  <2> QED
    BY <1>1, <2>1, <2>2
<1>5. Before(s, e) = Before(s, c) \cup {c}
  <2>1. \A k \in Children(s) : k < c + 1 <=> k < c \/ k = c
    BY <1>3
  <2> QED
    BY <1>2, <1>4, <2>1 DEF Before
<1>6. c \notin Before(s, c)
  BY DEF Before
<1>7. /\ IsFiniteSet(Before(s, c)) /\ Cardinality(Before(s, c)) \in Nat
  BY ChildrenType
<1>8. Cardinality(Before(s, e)) = Cardinality(Before(s, c)) + 1
  BY <1>5, <1>6, <1>7, FS_AddElement
<1>9. Odd(s, e) <=> ~Odd(s, c)
  BY <1>7, <1>8, Parity DEF Odd
<1> QED
  BY <1>1, <1>2, <1>4, <1>9

\* The keys are the children with an even number of children before them.
LEMMA KeysEven ==
  ASSUME NEW s, NEW p
  PROVE  p \in Keys(s) <=> p \in Children(s) /\ ~Odd(s, p)
BY DEF Keys, Odd, Before

\* Where a collection begins, it has no children yet.
LEMMA NoneBefore ==
  ASSUME NEW s \in Nat, Size \in Nat
  PROVE  /\ \A k \in Children(s) : ~(k < s + 1)
         /\ ~Odd(s, s + 1)
<1>1. Children(s) \subseteq s + 1 .. Size - 1
  BY DEF Children, Size
<1>2. \A k \in Children(s) : ~(k < s + 1)
  BY <1>1
<1>3. Before(s, s + 1) = {}
  BY <1>2 DEF Before
<1>4. 0 % 2 = 0
  OBVIOUS
<1> QED
  BY <1>2, <1>3, <1>4, FS_EmptySet DEF Odd

\* The level at the event at q, as EndsMatch counts it.
LevelFrom(b, q) == Cardinality({ i \in b .. q : document.events[i].type \in Starts })
                     - Cardinality({ i \in b .. q : document.events[i].type \in Ends })

LEMMA EndsMatchAt ==
  ASSUME EndsMatch(document), NEW b \in 1 .. Len(document.events),
         NEW e \in 1 .. Len(document.events), b < e,
         document.events[b].type = "MappingStart", document.events[b].type \in Starts,
         LevelFrom(b, e) = 0, \A q \in b .. e - 1 : LevelFrom(b, q) > 0
  PROVE  document.events[e].type = "MappingEnd"
BY DEF EndsMatch, LevelFrom

\* A mapping ends with MappingEnd.
LEMMA MappingEnds ==
  ASSUME NEW s \in Nat, NEW p \in Nat, Within(s, p), p < Size, Size \in Nat,
         Kind(s) = "MappingStart", Kind(p) \in Ends, EndsMatch(document)
  PROVE  Kind(p) = "MappingEnd"
<1>1. /\ p \in s + 1 .. Size /\ Level(s, p) = 1 /\ s <= p
      /\ \A q \in s + 1 .. p : Level(s, q) >= 1
  BY DEF Within
<1>2. Kind(p) \notin Starts
  BY DEF Starts, Ends
<1>3. Level(s, p + 1) = 0
  BY <1>1, <1>2, LevelNext
<1>4. PICK b \in Nat, e \in Nat : b = s + 1 /\ e = p + 1
  OBVIOUS
<1>5. b \in 1 .. Len(document.events) /\ e \in 1 .. Len(document.events) /\ b < e
  BY <1>1, <1>4 DEF Size
<1>6. \A q : Level(s, q) = LevelFrom(b, q)
  BY <1>4 DEF Level, Tally, Chosen, LevelFrom
<1>7. document.events[b].type = "MappingStart" /\ document.events[b].type \in Starts
  BY <1>4 DEF Kind, Starts
<1>8. ASSUME NEW q \in b .. e - 1
      PROVE  LevelFrom(b, q) > 0
  <2>1. q \in s + 1 .. p
    BY <1>4
  <2>2. Level(s, q) >= 1 /\ Level(s, q) \in Int
    BY <1>1, <2>1, LevelType
  <2> QED
    BY <1>6, <2>2
<1>9. LevelFrom(b, e) = 0
  BY <1>3, <1>4, <1>6
<1>10. document.events[e].type = "MappingEnd"
  BY <1>5, <1>7, <1>8, <1>9, EndsMatchAt
<1> QED
  BY <1>4, <1>10 DEF Kind

-----------------------------------------------------------------------------
(* What a mapping has given to its visitor, and what it remembers.          *)

\* The keys before x, and the texts of those that are scalars.
GivenUpTo(s, x) == { k \in Wanted(s) : k < x }
TextsUpTo(s, x) == { Text(k) : k \in { j \in Keys(s) : j < x /\ Kind(j) = "Scalar" } }

Seen(f, x) ==
  /\ f.given = GivenUpTo(f.start, x)
  /\ options.duplicates # "LastWins" => f.keys = TextsUpTo(f.start, x)

\* The innermost call f is at x.
Idle(f, x) ==
  /\ f.kind = "node" => f.given = {} /\ f.keys = {}
  /\ f.kind = "key" => Kind(f.start) = "MappingStart" /\ ~Odd(f.start, x) /\ Seen(f, x)
  /\ f.kind = "value" => Kind(f.start) = "MappingStart" /\ Odd(f.start, x) /\ Seen(f, x)

\* The call f has called for the node at x.
Busy(f, x) ==
  /\ f.kind = "key" => Kind(f.start) = "MappingStart" /\ Odd(f.start, x) /\ Seen(f, x)
  /\ f.kind = "value" => /\ Kind(f.start) = "MappingStart" /\ ~Odd(f.start, x)
                         /\ Seen(f, x + 1) /\ x \in Keys(f.start)

\* Positions with the same keys before them.
LEMMA SeenSame ==
  ASSUME NEW f, NEW x, NEW y, \A k \in Keys(f.start) : k < x <=> k < y, Seen(f, x)
  PROVE  Seen(f, y)
<1>1. Wanted(f.start) \subseteq Keys(f.start)
  BY DEF Wanted
<1>2. GivenUpTo(f.start, x) = GivenUpTo(f.start, y)
  BY <1>1 DEF GivenUpTo
<1>3. { j \in Keys(f.start) : j < x /\ Kind(j) = "Scalar" }
        = { j \in Keys(f.start) : j < y /\ Kind(j) = "Scalar" }
  OBVIOUS
<1>4. TextsUpTo(f.start, x) = TextsUpTo(f.start, y)
  BY <1>3 DEF TextsUpTo
<1> QED
  BY <1>2, <1>4 DEF Seen

\* The node that was called for is over.
LEMMA BusyReturns ==
  ASSUME NEW f \in Frames, NEW x \in Nat, Busy(f, x), f.kind # "node",
         f.kind \in {"key", "value"} => Within(f.start, x),
         Whole(x), Size \in Nat, document.events \in Seq(Events)
  PROVE  Idle(f, After(x))
<1>0. f.start \in Nat
  BY DEF Frames
<1> PICK s \in Nat : s = f.start
  BY <1>0
<1>1. ASSUME f.kind \in {"key", "value"}
      PROVE  /\ x \in Children(s)
             /\ \A k \in Children(s) : k < After(x) <=> k < x + 1
             /\ Odd(s, After(x)) <=> ~Odd(s, x)
  BY <1>1, BeforeNext
<1>2. Keys(s) \subseteq Children(s) /\ Children(s) \subseteq Nat
  BY ChildrenType DEF Keys
<1>3. CASE f.kind = "key"
  <2>1. Odd(s, x) /\ Seen(f, x) /\ Kind(s) = "MappingStart"
    BY <1>3 DEF Busy
  <2>2. x \notin Keys(s)
    BY <2>1, KeysEven
  <2>3. ASSUME NEW k \in Keys(s)
        PROVE  k < x <=> k < After(x)
    <3>1. k \in Nat /\ k # x /\ k \in Children(s)
      BY <1>2, <2>2
    <3>2. k < After(x) <=> k < x + 1
      BY <1>1, <1>3, <3>1
    <3>3. k < x + 1 <=> k < x
      BY <3>1
    <3> QED
      BY <3>2, <3>3
  <2>4. Seen(f, After(x))
    BY <2>1, <2>3, SeenSame
  <2> QED
    BY <1>1, <1>3, <2>1, <2>4 DEF Idle
<1>4. CASE f.kind = "value"
  <2>1. ~Odd(s, x) /\ Seen(f, x + 1) /\ Kind(s) = "MappingStart"
    BY <1>4 DEF Busy
  <2>2. \A k \in Keys(s) : k < x + 1 <=> k < After(x)
    BY <1>1, <1>2, <1>4
  <2>3. Seen(f, After(x))
    BY <2>1, <2>2, SeenSame
  <2> QED
    BY <1>1, <1>4, <2>1, <2>3 DEF Idle
<1>5. CASE f.kind \notin {"key", "value"}
  BY <1>5 DEF Idle
<1> QED
  BY <1>3, <1>4, <1>5

\* A mapping begins.
LEMMA SeenNothing ==
  ASSUME NEW f, f.start \in Nat, f.given = {}, f.keys = {}, Size \in Nat
  PROVE  Seen(f, f.start + 1) /\ ~Odd(f.start, f.start + 1)
<1>1. \A k \in Keys(f.start) : ~(k < f.start + 1)
  BY NoneBefore DEF Keys
<1>2. GivenUpTo(f.start, f.start + 1) = {}
  BY <1>1 DEF GivenUpTo, Wanted
<1>3. TextsUpTo(f.start, f.start + 1) = {}
  BY <1>1 DEF TextsUpTo
<1> QED
  BY <1>2, <1>3, NoneBefore DEF Seen

\* What a key adds.
NewTexts(x) == IF Kind(x) = "Scalar" /\ options.duplicates # "LastWins" THEN {Text(x)} ELSE {}

\* The key at x is given to the visitor.
LEMMA SeenKey ==
  ASSUME NEW f, NEW x \in Nat, Seen(f, x), x \in Keys(f.start), Keys(f.start) \subseteq Nat,
         options.duplicates # "LastWins" /\ Kind(x) = "Scalar" => Text(x) \notin f.keys,
         NEW g, g.start = f.start, g.given = f.given \cup {x}, g.keys = f.keys \cup NewTexts(x)
  PROVE  Seen(g, x + 1)
<1> PICK s : s = f.start
  OBVIOUS
<1>1. \A k \in Keys(s) : k < x + 1 <=> k < x \/ k = x
  OBVIOUS
<1>2. Wanted(s) \subseteq Keys(s)
  BY DEF Wanted
<1>3. ASSUME options.duplicates # "LastWins", NEW q \in Keys(s), q < x, SameText(x, q)
      PROVE  FALSE
  <2>1. Kind(x) = "Scalar" /\ Kind(q) = "Scalar" /\ Text(x) = Text(q)
    BY <1>3 DEF SameText, Kind, Text
  <2>2. Text(q) \in TextsUpTo(s, x)
    BY <1>3, <2>1 DEF TextsUpTo
  <2>3. f.keys = TextsUpTo(s, x)
    BY <1>3 DEF Seen
  <2> QED
    BY <1>3, <2>1, <2>2, <2>3
<1>4. x \in Wanted(s)
  BY <1>3 DEF Wanted
<1>5. GivenUpTo(s, x + 1) = GivenUpTo(s, x) \cup {x}
  BY <1>1, <1>2, <1>4 DEF GivenUpTo
<1>6. options.duplicates # "LastWins" => TextsUpTo(s, x + 1) = TextsUpTo(s, x) \cup NewTexts(x)
  <2>1. CASE Kind(x) = "Scalar"
    <3>1. { j \in Keys(s) : j < x + 1 /\ Kind(j) = "Scalar" }
            = { j \in Keys(s) : j < x /\ Kind(j) = "Scalar" } \cup {x}
      BY <1>1, <2>1
    <3> QED
      BY <2>1, <3>1 DEF TextsUpTo, NewTexts
  <2>2. CASE Kind(x) # "Scalar"
    <3>1. { j \in Keys(s) : j < x + 1 /\ Kind(j) = "Scalar" }
            = { j \in Keys(s) : j < x /\ Kind(j) = "Scalar" }
      BY <1>1, <2>2
    <3> QED
      BY <2>2, <3>1 DEF TextsUpTo, NewTexts
  <2> QED
    BY <2>1, <2>2
<1> QED
  BY <1>5, <1>6 DEF Seen

\* The key at x is a duplicate.
LEMMA SeenDuplicate ==
  ASSUME NEW f, NEW x \in Nat, Seen(f, x), x \in Keys(f.start), Keys(f.start) \subseteq Nat,
         options.duplicates # "LastWins", Kind(x) = "Scalar", Text(x) \in f.keys
  PROVE  Seen(f, x + 1)
<1> PICK s : s = f.start
  OBVIOUS
<1>1. \A k \in Keys(s) : k < x + 1 <=> k < x \/ k = x
  OBVIOUS
<1>2. Wanted(s) \subseteq Keys(s)
  BY DEF Wanted
<1>3. f.keys = TextsUpTo(s, x)
  BY DEF Seen
<1>4. PICK q \in Keys(s) : q < x /\ Kind(q) = "Scalar" /\ Text(q) = Text(x)
  BY <1>3 DEF TextsUpTo
<1>5. SameText(x, q)
  BY <1>4 DEF SameText, Kind, Text
<1>6. x \notin Wanted(s)
  BY <1>4, <1>5 DEF Wanted
<1>7. GivenUpTo(s, x + 1) = GivenUpTo(s, x)
  BY <1>1, <1>2, <1>6 DEF GivenUpTo
<1>8. TextsUpTo(s, x + 1) = TextsUpTo(s, x)
  <2>1. { j \in Keys(s) : j < x + 1 /\ Kind(j) = "Scalar" }
          = { j \in Keys(s) : j < x /\ Kind(j) = "Scalar" } \cup {x}
    BY <1>1
  <2>2. Text(x) \in TextsUpTo(s, x)
    BY <1>3
  <2>3. TextsUpTo(s, x + 1) = TextsUpTo(s, x) \cup {Text(x)}
    BY <2>1 DEF TextsUpTo
  <2> QED
    BY <2>2, <2>3
<1> QED
  BY <1>7, <1>8 DEF Seen

-----------------------------------------------------------------------------
(* Every mapping that is read has given the keys up to where it is.         *)

\* The calls below the innermost one are busy.
Trailing(s) == \A i \in 1 .. Len(s) - 1 : Busy(s[i], s[i + 1].start)

KeyInv ==
  /\ document \in Documents
  /\ stack # <<>> => Trailing(stack) /\ Idle(Top, pos)

\* The innermost call goes on as f.
LEMMA TrailReplace ==
  ASSUME NEW s \in Seq(Frames), s # <<>>, Trailing(s), NEW f \in Frames, f.start = Last(s).start
  PROVE  Trailing(Append(Rest(s), f)) /\ Last(Append(Rest(s), f)) = f
<1>1. Len(s) \in Nat \ {0} /\ Len(s) - 1 \in 0 .. Len(s)
  OBVIOUS
<1>2. /\ Rest(s) \in Seq(Frames) /\ Len(Rest(s)) = Len(s) - 1
      /\ \A i \in 1 .. Len(s) - 1 : Rest(s)[i] = s[i]
  BY <1>1, PrefixProperties DEF Rest
<1> PICK t : t = Append(Rest(s), f)
  OBVIOUS
<1>3. /\ t \in Seq(Frames) /\ Len(t) = Len(s)
      /\ \A i \in 1 .. Len(s) - 1 : t[i] = s[i]
      /\ t[Len(s)] = f
  BY <1>1, <1>2
<1>4. ASSUME NEW i \in 1 .. Len(t) - 1
      PROVE  Busy(t[i], t[i + 1].start)
  <2>1. i \in 1 .. Len(s) - 1 /\ t[i] = s[i]
    BY <1>3
  <2>2. t[i + 1].start = s[i + 1].start
    <3>1. CASE i = Len(s) - 1
      BY <1>1, <1>3, <3>1 DEF Last
    <3>2. CASE i # Len(s) - 1
      <4>1. i + 1 \in 1 .. Len(s) - 1
        BY <1>1, <2>1, <3>2
      <4> QED
        BY <1>3, <4>1
    <3> QED
      BY <3>1, <3>2
  <2> QED
    BY <2>1, <2>2 DEF Trailing
<1>5. Last(t) = f
  BY <1>3 DEF Last
<1> QED
  BY <1>4, <1>5 DEF Trailing

\* A call more, that the one below is busy with.
LEMMA TrailPush ==
  ASSUME NEW s \in Seq(Frames), s # <<>>, Trailing(s), NEW g \in Frames,
         Busy(Last(s), g.start)
  PROVE  Trailing(Append(s, g)) /\ Last(Append(s, g)) = g
<1>1. Len(s) \in Nat \ {0}
  OBVIOUS
<1> PICK t : t = Append(s, g)
  OBVIOUS
<1>2. /\ Len(t) = Len(s) + 1
      /\ \A i \in 1 .. Len(s) : t[i] = s[i]
      /\ t[Len(s) + 1] = g
  BY <1>1
<1>3. ASSUME NEW i \in 1 .. Len(t) - 1
      PROVE  Busy(t[i], t[i + 1].start)
  <2>1. CASE i = Len(s)
    BY <1>1, <1>2, <2>1 DEF Last
  <2>2. CASE i # Len(s)
    <3>1. i \in 1 .. Len(s) - 1 /\ i \in 1 .. Len(s) /\ i + 1 \in 1 .. Len(s)
      BY <1>1, <1>2, <2>2
    <3> QED
      BY <1>2, <3>1 DEF Trailing
  <2> QED
    BY <2>1, <2>2
<1>4. Last(t) = g
  BY <1>2 DEF Last
<1> QED
  BY <1>3, <1>4 DEF Trailing

\* The innermost call is over.
LEMMA TrailReturn ==
  ASSUME NEW s \in Seq(Frames), s # <<>>, Trailing(s), Rest(s) # <<>>
  PROVE  /\ Trailing(Rest(s))
         /\ Busy(Last(Rest(s)), Last(s).start)
         /\ Last(Rest(s)) \in Frames
<1>1. Len(s) \in Nat \ {0} /\ Len(s) - 1 \in 0 .. Len(s)
  OBVIOUS
<1> PICK t : t = Rest(s)
  OBVIOUS
<1>2. /\ t \in Seq(Frames) /\ Len(t) = Len(s) - 1
      /\ \A i \in 1 .. Len(s) - 1 : t[i] = s[i]
  BY <1>1, PrefixProperties DEF Rest
<1>3. Len(t) \in 1 .. Len(s) - 1 /\ Len(t) + 1 = Len(s) /\ Len(t) \in 1 .. Len(t)
  BY <1>1, <1>2
<1>4. Last(t) = s[Len(t)] /\ Last(t) \in Frames
  BY <1>1, <1>2, <1>3 DEF Last
<1>5. Busy(Last(t), Last(s).start)
  <2>1. Busy(s[Len(t)], s[Len(t) + 1].start)
    BY <1>3 DEF Trailing
  <2> QED
    BY <1>3, <1>4, <2>1 DEF Last
<1>6. ASSUME NEW i \in 1 .. Len(t) - 1
      PROVE  Busy(t[i], t[i + 1].start)
  <2>1. /\ i \in 1 .. Len(s) - 1 /\ i + 1 \in 1 .. Len(s) - 1
    BY <1>1, <1>2
  <2> QED
    BY <1>2, <2>1 DEF Trailing
<1> QED
  BY <1>4, <1>5, <1>6 DEF Trailing

\* What the invariant says while a call runs.
LEMMA KeyTypes ==
  ASSUME Inv, NodeInv, KeyInv, outcome = "running"
  PROVE  /\ stack \in Seq(Frames) /\ stack # <<>> /\ Trailing(stack)
         /\ Idle(Top, pos) /\ EndsMatch(document)
<1>1. EndsMatch(document)
  BY EventDeAssumption DEF KeyInv
<1> QED
  BY <1>1, NodeTypes DEF KeyInv

\* A step that leaves the document, and the calls s at p.
LEMMA KeysKept ==
  ASSUME UNCHANGED fixed, KeyInv, NEW s, NEW p, s = stack', p = pos',
         s # <<>> => Trailing(s) /\ Idle(Last(s), p)
  PROVE  KeyInv'
<1>1. document' = document /\ options' = options
  BY DEF fixed
<1>2. \A q : Kind(q)' = Kind(q)
  BY <1>1 DEF Kind
<1>3. \A q : Text(q)' = Text(q)
  BY <1>1 DEF Text
<1>4. \A q : Children(q)' = Children(q)
  BY <1>1 DEF Children, NodeEnds
<1>5. \A q : Keys(q)' = Keys(q)
  BY <1>4 DEF Keys
<1>6. \A q : Wanted(q)' = Wanted(q)
  BY <1>1, <1>5 DEF Wanted, SameText
<1>7. \A q, x : Odd(q, x)' <=> Odd(q, x)
  BY <1>4 DEF Odd, Before
<1>8. \A f, x : Seen(f, x)' <=> Seen(f, x)
  <2>1. \A q, x : GivenUpTo(q, x)' = GivenUpTo(q, x)
    BY <1>6 DEF GivenUpTo
  <2>2. \A q, x : TextsUpTo(q, x)' = TextsUpTo(q, x)
    BY <1>2, <1>3, <1>5 DEF TextsUpTo
  <2> QED
    BY <1>1, <2>1, <2>2 DEF Seen
<1>9. \A f, x : Idle(f, x)' <=> Idle(f, x)
  BY <1>2, <1>7, <1>8 DEF Idle
<1>10. \A f, x : Busy(f, x)' <=> Busy(f, x)
  BY <1>2, <1>5, <1>7, <1>8 DEF Busy
<1>11. stack' # <<>> => Trailing(stack)' /\ Idle(Top, pos)'
  <2> SUFFICES ASSUME s # <<>>
               PROVE  Trailing(stack)' /\ Idle(Top, pos)'
    OBVIOUS
  <2>1. Trailing(stack)'
    BY <1>10 DEF Trailing
  <2>2. Idle(Last(s), p)'
    BY <1>9
  <2> QED
    BY <2>1, <2>2 DEF Top, Last
<1> QED
  BY <1>1, <1>11 DEF KeyInv

LEMMA KeySame ==
  ASSUME KeyInv, UNCHANGED <<fixed, stack, pos>>
  PROVE  KeyInv'
<1>1. PICK s, p : s = stack /\ p = pos
  OBVIOUS
<1>2. s # <<>> => Trailing(s) /\ Idle(Last(s), p)
  BY <1>1 DEF KeyInv, Top, Last
<1>3. UNCHANGED fixed /\ s = stack' /\ p = pos'
  BY <1>1
<1> QED
  BY <1>2, <1>3, KeysKept

LEMMA KeyFails ==
  ASSUME KeyInv, NEW error, Fail(error)
  PROVE  KeyInv'
<1>1. UNCHANGED <<fixed, stack, pos>>
  BY DEF Fail
<1> QED
  BY <1>1, KeySame

\* The innermost call returns, after its node.
LEMMA KeyReturns ==
  ASSUME Inv, NodeInv, KeyInv, outcome = "running", NEW q, Return(q), NodeRead, UNCHANGED fixed
  PROVE  KeyInv'
<1>1. stack' = Below /\ pos' = q
  BY DEF Return
<1>2. /\ stack \in Seq(Frames) /\ stack # <<>> /\ Trailing(stack) /\ Nested(stack, pos)
      /\ Rest(stack) = Below /\ Last(stack) = Top
      /\ Size \in Nat /\ document.events \in Seq(Events) /\ Top.start \in Nat
  BY KeyTypes, NodeTypes
<1>3. Len(stack) \in Nat \ {0} /\ Len(stack) - 1 \in 0 .. Len(stack)
  BY <1>2
<1>4. /\ Below \in Seq(Frames) /\ Len(Below) = Len(stack) - 1
      /\ \A i \in 1 .. Len(stack) - 1 : Below[i] = stack[i]
  BY <1>2, <1>3, PrefixProperties DEF Rest
<1>5. Whole(Top.start) /\ q = After(Top.start)
  <2>1. Len(stack') < Len(stack)
    BY <1>1, <1>3, <1>4
  <2> QED
    BY <1>1, <2>1 DEF NodeRead
<1>6. ASSUME Below # <<>>
      PROVE  Trailing(Below) /\ Idle(Last(Below), q)
  <2>1. Trailing(Below) /\ Busy(Last(Below), Top.start) /\ Last(Below) \in Frames
    BY <1>2, <1>6, TrailReturn
  <2>2. Last(Below).kind # "node" /\ Reaches(Last(Below), Top.start)
    <3>1. Len(Below) \in 1 .. Len(stack) - 1 /\ Len(Below) + 1 = Len(stack)
      BY <1>3, <1>4, <1>6
    <3>2. stack[Len(Below)].kind # "node" /\ Reaches(stack[Len(Below)], stack[Len(Below) + 1].start)
      BY <1>2, <3>1 DEF Nested
    <3> QED
      BY <1>2, <1>4, <3>1, <3>2 DEF Last
  <2>3. Last(Below).kind \in {"key", "value"} => Within(Last(Below).start, Top.start)
    BY <2>2 DEF Reaches
  <2>4. PICK f \in Frames, x \in Nat : f = Last(Below) /\ x = Top.start
    BY <1>2, <2>1
  <2>5. Idle(f, After(x))
    BY <1>2, <1>5, <2>1, <2>2, <2>3, <2>4, BusyReturns
  <2> QED
    BY <1>5, <2>1, <2>4, <2>5
<1> QED
  BY <1>1, <1>6, KeysKept

\* The innermost call goes on as f, at position q.
LEMMA KeyGoesOn ==
  ASSUME Inv, NodeInv, KeyInv, outcome = "running", UNCHANGED fixed,
         NEW f \in Frames, f.start = Top.start, NEW q, Idle(f, q),
         stack' = Append(Below, f), pos' = q
  PROVE  KeyInv'
<1>1. PICK s : s = Append(Rest(stack), f)
  OBVIOUS
<1>2. Trailing(s) /\ Last(s) = f
  BY <1>1, KeyTypes, NodeTypes, TrailReplace
<1>3. s = stack' /\ q = pos'
  BY <1>1, NodeTypes
<1> QED
  BY <1>2, <1>3, KeysKept

\* The innermost call goes on as f, and calls g.
LEMMA KeyCalls ==
  ASSUME Inv, NodeInv, KeyInv, outcome = "running", UNCHANGED fixed,
         NEW f \in Frames, f.start = Top.start,
         NEW g \in Frames, g.kind = "node", g.given = {}, g.keys = {}, Busy(f, g.start),
         stack' = Append(Append(Below, f), g)
  PROVE  KeyInv'
<1>1. PICK t : t = Append(Rest(stack), f)
  OBVIOUS
<1>2. Trailing(t) /\ Last(t) = f
  BY <1>1, KeyTypes, NodeTypes, TrailReplace
<1>3. t \in Seq(Frames) /\ t # <<>>
  BY <1>1, NodeTypes, Running, NotEmpty
<1>4. PICK s : s = Append(t, g)
  OBVIOUS
<1>5. Trailing(s) /\ Last(s) = g
  BY <1>2, <1>3, <1>4, TrailPush
<1>6. PICK q : q = pos'
  OBVIOUS
<1>7. Idle(g, q)
  BY DEF Idle
<1>8. s = stack'
  BY <1>1, <1>4, NodeTypes
<1> QED
  BY <1>5, <1>6, <1>7, <1>8, KeysKept

-----------------------------------------------------------------------------
(* Every action keeps to it.                                                *)

LEMMA ReturnsKeys ==
  ASSUME Inv, NodeInv, KeyInv, NodeRead,
         ReadScalar \/ EndVariant \/ EndCollection \/ ReadVoid \/ Ignore \/ JumpBack
  PROVE  KeyInv'
<1>1. outcome = "running" /\ UNCHANGED fixed
  BY DEF ReadScalar, EndVariant, EndCollection, ReadVoid, Ignore, JumpBack, Reading
<1>2. \E q : Return(q)
  BY DEF ReadScalar, EndVariant, EndCollection, ReadVoid, Ignore, JumpBack
<1> QED
  BY <1>1, <1>2, KeyReturns

LEMMA FollowAliasKeys ==
  ASSUME Inv, NodeInv, KeyInv, FollowAlias
  PROVE  KeyInv'
<1>1. outcome = "running" /\ ~AtEnd /\ Ev.type = "Alias" /\ Top.kind = "node"
  BY DEF FollowAlias, Reading
<1>2. CASE jumpcount + 1 > AliasLimit
  <2>1. Fail("RepetitionLimitExceeded")
    BY <1>2 DEF FollowAlias
  <2> QED
    BY <2>1, KeyFails
<1>3. CASE ~(jumpcount + 1 > AliasLimit)
  <2> DEFINE f == [Top EXCEPT !.kind = "jump", !.saved = pos + 1]
             g == Node(Top.wants, Len(remaining) + 1, document.aliases[Ev.id + 1], Top.depth)
  <2>1. /\ stack' = Append(Append(Below, f), g)
        /\ UNCHANGED fixed
    BY <1>3 DEF FollowAlias
  <2>2. f \in Frames /\ f.start = Top.start /\ f.kind = "jump"
    <3>1. Top \in Frames /\ pos + 1 \in Nat
      BY <1>1, Running
    <3> QED
      BY ONLY <3>1 DEF Frames, f
  <2>3. g \in Frames /\ g.kind = "node" /\ g.given = {} /\ g.keys = {}
    <3>1. /\ Top.wants \in AllRequests
          /\ Len(remaining) + 1 \in Nat
          /\ document.aliases[Ev.id + 1] \in Nat
          /\ Top.depth \in Nat
      BY <1>1, Running, TopType, EvType DEF Frames
    <3> QED
      BY <3>1 DEF Node, Frames
  <2> HIDE DEF f, g
  <2>4. Busy(f, g.start)
    BY <2>2 DEF Busy
  <2> QED
    BY <1>1, <2>1, <2>2, <2>3, <2>4, KeyCalls
<1> QED
  BY <1>2, <1>3

\* The innermost call on a node goes on as one.
LEMMA AsksAgainKeys ==
  ASSUME Inv, NodeInv, KeyInv, outcome = "running", Top.kind = "node", UNCHANGED <<fixed, pos>>,
         NEW f \in Frames, f.start = Top.start, f.kind = "node", f.given = Top.given,
         f.keys = Top.keys, stack' = Append(Below, f)
  PROVE  KeyInv'
<1>1. PICK q : q = pos
  OBVIOUS
<1>2. Idle(f, q)
  <2>1. Idle(Top, pos)
    BY KeyTypes
  <2> QED
    BY <2>1 DEF Idle
<1>3. pos' = q /\ UNCHANGED fixed
  BY <1>1
<1> QED
  BY <1>2, <1>3, KeyGoesOn

LEMMA ReadSomeKeys ==
  ASSUME Inv, NodeInv, KeyInv, ReadSome
  PROVE  KeyInv'
<1>1. outcome = "running" /\ UNCHANGED <<fixed, pos>> /\ Top.kind = "node"
  BY DEF ReadSome, Reading
<1>2. PICK r \in Requests : stack' = Append(Below, [Top EXCEPT !.wants = r])
  BY DEF ReadSome
<1> DEFINE f == [Top EXCEPT !.wants = r]
<1>3. /\ f \in Frames /\ f.kind = "node" /\ f.start = Top.start
      /\ f.given = Top.given /\ f.keys = Top.keys
  BY <1>1, RequestsKnown, Running DEF Frames
<1> HIDE DEF f
<1>4. stack' = Append(Below, f)
  BY <1>2 DEF f
<1> QED
  BY <1>1, <1>3, <1>4, AsksAgainKeys

LEMMA ReadNewtypeKeys ==
  ASSUME Inv, NodeInv, KeyInv, ReadNewtype
  PROVE  KeyInv'
<1>1. outcome = "running" /\ Top.kind = "node"
  BY DEF ReadNewtype, Reading
<1>2. CASE Exhausted
  BY <1>2, KeyFails DEF ReadNewtype
<1>3. CASE ~Exhausted
  <2>1. UNCHANGED <<fixed, pos>>
    BY <1>3 DEF ReadNewtype
  <2>2. PICK r \in Requests :
          stack' = Append(Below, [Top EXCEPT !.wants = r, !.depth = @ + 1])
    BY <1>3 DEF ReadNewtype
  <2> DEFINE f == [Top EXCEPT !.wants = r, !.depth = @ + 1]
  <2>3. /\ f \in Frames /\ f.kind = "node" /\ f.start = Top.start
        /\ f.given = Top.given /\ f.keys = Top.keys
    <3>1. r \in AllRequests
      BY RequestsKnown
    <3>2. Top \in Frames
      BY <1>1, Running
    <3>3. Top.depth + 1 \in Nat
      BY <3>2, FrameType
    <3> QED
      BY <1>1, <3>1, <3>2, <3>3 DEF Frames
  <2> HIDE DEF f
  <2>4. stack' = Append(Below, f)
    BY <2>2 DEF f
  <2> QED
    BY <1>1, <2>1, <2>3, <2>4, AsksAgainKeys
<1> QED
  BY <1>2, <1>3

LEMMA ReadTagKeys ==
  ASSUME Inv, NodeInv, KeyInv, ReadTag
  PROVE  KeyInv'
<1>1. outcome = "running" /\ UNCHANGED <<fixed, pos>> /\ Top.kind = "node"
  BY DEF ReadTag, Reading
<1>2. PICK r \in Requests :
        stack' = Append(Below, [Top EXCEPT !.wants = r, !.de = Len(remaining) + 1,
                                           !.enums = @ + 1])
  BY DEF ReadTag
<1> DEFINE f == [Top EXCEPT !.wants = r, !.de = Len(remaining) + 1, !.enums = @ + 1]
<1>3. /\ f \in Frames /\ f.kind = "node" /\ f.start = Top.start
      /\ f.given = Top.given /\ f.keys = Top.keys
  <2>1. r \in AllRequests
    BY RequestsKnown
  <2>2. Len(remaining) + 1 \in Nat
    BY <1>1, Running, TopType
  <2>3. Top \in Frames /\ Top.enums + 1 \in Nat
    BY <1>1, Running DEF Frames
  <2> QED
    BY <1>1, <2>1, <2>2, <2>3 DEF Frames
<1> HIDE DEF f
<1>4. stack' = Append(Below, f)
  BY <1>2 DEF f
<1> QED
  BY <1>1, <1>3, <1>4, AsksAgainKeys

\* A mapping that begins has given nothing.
LEMMA OpenKeys ==
  ASSUME Inv, NodeInv, KeyInv, ReadSequence \/ ReadMapping
  PROVE  KeyInv'
<1>1. outcome = "running" /\ Top.kind = "node"
  BY DEF ReadSequence, ReadMapping, Reading
<1>2. PICK kind \in {"seq", "key"} : Open(kind) /\ (kind = "key" => Ev.type = "MappingStart")
  BY DEF ReadSequence, ReadMapping, Reading
<1>3. CASE Exhausted
  BY <1>2, <1>3, KeyFails DEF Open
<1>4. CASE ~Exhausted
  <2> DEFINE f == [Top EXCEPT !.kind = kind, !.depth = @ + 1]
  <2>1. stack' = Append(Below, f) /\ pos' = pos + 1 /\ UNCHANGED fixed
    BY <1>2, <1>4 DEF Open
  <2>2. /\ f \in Frames /\ f.kind = kind /\ f.start = Top.start
        /\ f.given = Top.given /\ f.keys = Top.keys
    <3>1. Top \in Frames /\ Top.depth + 1 \in Nat
      BY <1>1, Running, FrameType
    <3> QED
      BY <1>2, <3>1 DEF Frames
  <2> HIDE DEF f
  <2>3. pos = Top.start /\ Top.start \in Nat /\ Size \in Nat /\ Ev.type = Kind(pos)
    BY <1>1, AtStart, NodeTypes
  <2>4. f.given = {} /\ f.keys = {}
    BY <1>1, <2>2, KeyTypes DEF Idle
  <2>5. Seen(f, f.start + 1) /\ ~Odd(f.start, f.start + 1)
    BY <2>2, <2>3, <2>4, SeenNothing
  <2>6. PICK q : q = f.start + 1
    OBVIOUS
  <2>7. f.kind # "node" /\ f.kind # "value" /\ (f.kind = "key" => Kind(f.start) = "MappingStart")
    BY <1>2, <2>2, <2>3
  <2>8. Idle(f, q)
    BY <2>5, <2>6, <2>7 DEF Idle
  <2>9. pos' = q
    BY <2>1, <2>2, <2>3, <2>6
  <2> QED
    BY <1>1, <2>1, <2>2, <2>8, <2>9, KeyGoesOn
<1> QED
  BY <1>3, <1>4

LEMMA OpenVariantKeys ==
  ASSUME Inv, NodeInv, KeyInv, OpenVariant
  PROVE  KeyInv'
<1> DEFINE f == [Top EXCEPT !.kind = "variant", !.enums = @ + 1]
<1>1. outcome = "running" /\ pos' = pos + 2 /\ CallFresh(f, pos') /\ UNCHANGED fixed
  BY DEF OpenVariant, Reading
<1>2. f \in Frames /\ f.kind = "variant" /\ f.start = Top.start
  <2>1. Top \in Frames /\ Top.enums + 1 \in Nat
    BY <1>1, Running DEF Frames
  <2> QED
    BY <2>1 DEF Frames
<1> HIDE DEF f
<1>3. PICK q \in Nat : q = pos'
  BY <1>1 DEF Inv
<1>4. PICK g \in Frames : /\ g.kind = "node" /\ g.given = {} /\ g.keys = {}
                          /\ stack' = Append(Append(Below, f), g)
  BY <1>1, <1>2, <1>3, FreshNode
<1>5. Busy(f, g.start)
  BY <1>2 DEF Busy
<1> QED
  BY <1>1, <1>2, <1>4, <1>5, KeyCalls

LEMMA NextElementKeys ==
  ASSUME Inv, NodeInv, KeyInv, NextElement
  PROVE  KeyInv'
<1>1. outcome = "running" /\ Top.kind = "seq" /\ CallFresh(Top, pos) /\ UNCHANGED fixed
  BY DEF NextElement
<1>2. Top \in Frames /\ pos \in Nat
  BY <1>1, Running DEF Inv
<1>3. PICK f \in Frames : f = Top
  BY <1>2
<1>4. CallFresh(f, pos)
  BY <1>1, <1>3
<1>5. PICK g \in Frames : /\ g.kind = "node" /\ g.given = {} /\ g.keys = {}
                          /\ stack' = Append(Append(Below, f), g)
  BY <1>1, <1>2, <1>4, FreshNode
<1>6. Busy(f, g.start)
  BY <1>1, <1>3 DEF Busy
<1> QED
  BY <1>1, <1>3, <1>5, <1>6, KeyCalls

\* The value of a key: the next key comes after it.
LEMMA NextValueKeys ==
  ASSUME Inv, NodeInv, KeyInv, NextValue
  PROVE  KeyInv'
<1> DEFINE f == [Top EXCEPT !.kind = "key"]
<1>1. outcome = "running" /\ Top.kind = "value" /\ CallFresh(f, pos) /\ UNCHANGED fixed
  BY DEF NextValue
<1>2. Top \in Frames /\ pos \in Nat
  BY <1>1, Running DEF Inv
<1>3. /\ f \in Frames /\ f.kind = "key" /\ f.start = Top.start
      /\ f.given = Top.given /\ f.keys = Top.keys
  BY <1>2 DEF Frames
<1> HIDE DEF f
<1>4. PICK g \in Frames : /\ g.kind = "node" /\ g.start = pos /\ g.given = {} /\ g.keys = {}
                          /\ stack' = Append(Append(Below, f), g)
  BY <1>1, <1>2, <1>3, FreshNode
<1>5. Kind(Top.start) = "MappingStart" /\ Odd(Top.start, pos) /\ Seen(Top, pos)
  BY <1>1, KeyTypes DEF Idle
<1>6. Seen(f, pos)
  BY <1>3, <1>5 DEF Seen
<1>7. Busy(f, g.start)
  BY <1>3, <1>4, <1>5, <1>6 DEF Busy
<1> QED
  BY <1>1, <1>3, <1>4, <1>7, KeyCalls

\* The call on a mapping that expects a key, and is not at the end, is at a key.
LEMMA AtKeyIsKey ==
  ASSUME Inv, NodeInv, KeyInv, AtKey
  PROVE  /\ outcome = "running" /\ ~AtEnd /\ Top.kind = "key" /\ Top \in Frames
         /\ pos \in Nat /\ Size \in Nat /\ pos < Size /\ Top.start \in Nat
         /\ document.events \in Seq(Events) /\ Ev.type = Kind(pos) /\ Ev.text = Text(pos)
         /\ Within(Top.start, pos) /\ Kind(pos) \notin Ends
         /\ Kind(Top.start) = "MappingStart" /\ ~Odd(Top.start, pos) /\ Seen(Top, pos)
         /\ pos \in Keys(Top.start) /\ Keys(Top.start) \subseteq Nat
<1>1. outcome = "running" /\ ~AtEnd /\ Top.kind = "key" /\ Ev.type # "MappingEnd"
  BY DEF AtKey
<1>2. /\ pos \in Nat /\ Size \in Nat /\ pos < Size /\ Top.start \in Nat
      /\ document.events \in Seq(Events) /\ Ev.type = Kind(pos) /\ Ev.text = Text(pos)
      /\ Top \in Frames
  BY <1>1, NodeTypes, Running DEF Ev, Text
<1>3. Within(Top.start, pos)
  BY <1>1, AtInside
<1>4. Kind(Top.start) = "MappingStart" /\ ~Odd(Top.start, pos) /\ Seen(Top, pos)
  BY <1>1, KeyTypes DEF Idle
<1>5. EndsMatch(document)
  BY <1>1, KeyTypes
<1>6. Kind(pos) \notin Ends
  BY <1>1, <1>2, <1>3, <1>4, <1>5, MappingEnds
<1>7. pos \in Children(Top.start) /\ Children(Top.start) \subseteq Nat
  BY <1>2, <1>3, <1>6, WithinChild, ChildrenType
<1>8. pos \in Keys(Top.start) /\ Keys(Top.start) \subseteq Nat
  <2>1. Keys(Top.start) \subseteq Children(Top.start)
    BY DEF Keys
  <2> QED
    BY <1>4, <1>7, <2>1, KeysEven
<1> QED
  BY <1>1, <1>2, <1>3, <1>4, <1>6, <1>8

LEMMA NextKeyKeys ==
  ASSUME Inv, NodeInv, KeyInv, NextKey
  PROVE  KeyInv'
<1> DEFINE f == [Top EXCEPT !.kind = "value", !.keys = @ \cup Remembered,
                            !.given = @ \cup {pos}]
<1>1. AtKey /\ ~IsDuplicate /\ UNCHANGED <<fixed, pos>>
  BY DEF NextKey
<1>2. PICK r \in Requests :
        stack' = Append(Append(Below, f), Node(r, Top.de, pos, Top.depth))
  BY DEF NextKey
<1>3. /\ outcome = "running" /\ ~AtEnd /\ Top \in Frames /\ pos \in Nat
      /\ Ev.type = Kind(pos) /\ Ev.text = Text(pos)
      /\ Kind(Top.start) = "MappingStart" /\ ~Odd(Top.start, pos) /\ Seen(Top, pos)
      /\ pos \in Keys(Top.start) /\ Keys(Top.start) \subseteq Nat
  BY <1>1, AtKeyIsKey
<1>4. Remembered = NewTexts(pos)
  BY <1>3 DEF Remembered, NewTexts
<1>5. /\ f \in Frames /\ f.kind = "value" /\ f.start = Top.start
      /\ f.given = Top.given \cup {pos} /\ f.keys = Top.keys \cup NewTexts(pos)
  <2>1. Remembered \subseteq Texts
    BY <1>3, EvType DEF Remembered, Events
  <2>2. Top.keys \cup Remembered \in SUBSET Texts /\ Top.given \cup {pos} \in SUBSET Nat
    BY <1>3, <2>1 DEF Frames
  <2> QED
    BY <1>3, <1>4, <2>2 DEF Frames
<1> DEFINE g == Node(r, Top.de, pos, Top.depth)
<1>6. g \in Frames /\ g.kind = "node" /\ g.start = pos /\ g.given = {} /\ g.keys = {}
  <2>1. Top.de \in Nat /\ pos \in Nat /\ Top.depth \in Nat
    BY <1>3, FrameType
  <2> QED
    BY <2>1, NodeType DEF Node
<1> HIDE DEF f, g
<1>7. stack' = Append(Append(Below, f), g)
  BY <1>2 DEF f, g
<1>8. options.duplicates # "LastWins" /\ Kind(pos) = "Scalar" => Text(pos) \notin Top.keys
  BY <1>1, <1>3 DEF IsDuplicate
<1>9. Seen(f, pos + 1)
  BY <1>3, <1>5, <1>8, SeenKey
<1>10. Busy(f, g.start)
  BY <1>3, <1>5, <1>6, <1>9 DEF Busy
<1> QED
  BY <1>1, <1>3, <1>5, <1>6, <1>7, <1>10, KeyCalls

\* A duplicate and its value are passed over, and the next node is a key again.
LEMMA SkipPairKeys ==
  ASSUME Inv, NodeInv, KeyInv, SkipPair
  PROVE  KeyInv'
<1>1. /\ AtKey /\ IsDuplicate /\ Whole(pos + 1) /\ pos' = After(pos + 1)
      /\ UNCHANGED <<fixed, stack>>
  BY DEF SkipPair
<1>2. /\ outcome = "running" /\ ~AtEnd /\ Top.kind = "key" /\ Top \in Frames
      /\ pos \in Nat /\ Size \in Nat /\ pos < Size /\ Top.start \in Nat
      /\ document.events \in Seq(Events) /\ Ev.type = Kind(pos) /\ Ev.text = Text(pos)
      /\ Within(Top.start, pos)
      /\ Kind(Top.start) = "MappingStart" /\ ~Odd(Top.start, pos) /\ Seen(Top, pos)
      /\ pos \in Keys(Top.start) /\ Keys(Top.start) \subseteq Nat
  BY <1>1, AtKeyIsKey
<1>3. options.duplicates # "LastWins" /\ Kind(pos) = "Scalar" /\ Text(pos) \in Top.keys
  BY <1>1, <1>2 DEF IsDuplicate
<1>4. PICK s \in Nat, v \in Nat : s = Top.start /\ v = pos + 1
  BY <1>2
<1>5. Seen(Top, v)
  BY <1>2, <1>3, <1>4, SeenDuplicate
<1>6. Whole(pos) /\ After(pos) = v
  <2>1. Kind(pos) \notin Starts /\ Kind(pos) \notin Ends
    BY <1>3 DEF Starts, Ends
  <2> QED
    BY <1>2, <1>4, <2>1, LeafEnd
<1>7. Odd(s, v) /\ Within(s, v)
  BY <1>2, <1>4, <1>6, BeforeNext, WithinAfter
<1>8. Whole(v) /\ pos' = After(v)
  BY <1>1, <1>4
<1>9. /\ v \in Children(s)
      /\ \A k \in Children(s) : k < After(v) <=> k < v + 1
      /\ ~Odd(s, After(v))
  BY <1>2, <1>7, <1>8, BeforeNext
<1>10. Seen(Top, After(v))
  <2>1. v \notin Keys(s)
    BY <1>7, KeysEven
  <2>2. ASSUME NEW k \in Keys(s)
        PROVE  k < v <=> k < After(v)
    <3>1. k \in Nat /\ k # v /\ k \in Children(s)
      BY <1>2, <1>4, <2>1, KeysEven
    <3>2. k < After(v) <=> k < v + 1
      BY <1>9, <3>1
    <3>3. k < v + 1 <=> k < v
      BY <3>1
    <3> QED
      BY <3>2, <3>3
  <2> QED
    BY <1>4, <1>5, <2>2, SeenSame
<1>11. PICK q : q = After(v)
  OBVIOUS
<1>12. Idle(Top, q)
  BY <1>2, <1>4, <1>9, <1>10, <1>11 DEF Idle
<1>13. stack' = Append(Below, Top)
  <2>1. stack = Append(Rest(stack), Last(stack))
    BY <1>2, NodeTypes, Regained
  <2> QED
    BY <1>1, <1>2, <2>1, NodeTypes
<1>14. pos' = q
  BY <1>8, <1>11
<1> QED
  BY <1>1, <1>2, <1>12, <1>13, <1>14, KeyGoesOn

LEMMA KeyStep == Inv /\ NodeInv /\ KeyInv /\ [Next]_vars => KeyInv'
<1> SUFFICES ASSUME Inv, NodeInv, KeyInv, [Next]_vars
             PROVE  KeyInv'
  OBVIOUS
<1>1. NodeRead
  BY NodeStep
<1>2. CASE FollowAlias
  BY <1>2, FollowAliasKeys
<1>3. CASE ReadScalar \/ EndVariant \/ EndCollection \/ ReadVoid \/ Ignore \/ JumpBack
  BY <1>1, <1>3, ReturnsKeys
<1>4. CASE ReadSome
  BY <1>4, ReadSomeKeys
<1>5. CASE ReadNewtype
  BY <1>5, ReadNewtypeKeys
<1>6. CASE ReadSequence \/ ReadMapping
  BY <1>6, OpenKeys
<1>7. CASE ReadTag
  BY <1>7, ReadTagKeys
<1>8. CASE OpenVariant
  BY <1>8, OpenVariantKeys
<1>9. CASE NextElement
  BY <1>9, NextElementKeys
<1>10. CASE NextValue
  BY <1>10, NextValueKeys
<1>11. CASE NextKey
  BY <1>11, NextKeyKeys
<1>12. CASE DuplicateIsError \/ Refuse
  <2>1. PICK error : Fail(error)
    BY <1>12 DEF DuplicateIsError, Refuse
  <2> QED
    BY <2>1, KeyFails
<1>13. CASE SkipPair
  BY <1>13, SkipPairKeys
<1>14. CASE UNCHANGED vars
  <2>1. UNCHANGED <<fixed, stack, pos>>
    BY <1>14 DEF vars, fixed
  <2> QED
    BY <2>1, KeySame
<1> QED
  BY <1>2, <1>3, <1>4, <1>5, <1>6, <1>7, <1>8, <1>9, <1>10, <1>11, <1>12, <1>13, <1>14
  DEF Next

LEMMA KeyInit == Init => KeyInv
<1> SUFFICES ASSUME Init
             PROVE  KeyInv
  OBVIOUS
<1>1. PICK r \in Requests : stack = <<Node(r, 1, 0, 0)>>
  BY DEF Init
<1>2. PICK f : f = Node(r, 1, 0, 0)
  OBVIOUS
<1>3. f.kind = "node" /\ f.given = {} /\ f.keys = {}
  BY <1>2 DEF Node
<1>4. Len(stack) = 1 /\ Top = f
  BY <1>1, <1>2 DEF Top
<1>5. Trailing(stack)
  BY <1>4 DEF Trailing
<1>6. Idle(Top, pos)
  BY <1>3, <1>4 DEF Idle
<1> QED
  BY <1>5, <1>6 DEF KeyInv, Init

\* What the mappings have given are the keys that the strategy leaves over.
LEMMA KeysShow ==
  ASSUME Inv, KeyInv
  PROVE  KeysGiven
<1> SUFFICES ASSUME NEW i \in Mappings
             PROVE  stack[i].given =
                      { p \in Wanted(stack[i].start) : \E q \in stack[i].given : p <= q }
  BY DEF KeysGiven
<1>1. stack \in Seq(Frames) /\ i \in 1 .. Len(stack) /\ stack[i].kind \in {"key", "value"}
  BY DEF Inv, Sound, Stacked, Mappings
<1>2. Trailing(stack) /\ Idle(Top, pos)
  BY <1>1 DEF KeyInv
<1>3. PICK f \in Frames : f = stack[i]
  BY <1>1
<1>4. \E x \in Nat : Seen(f, x)
  <2>1. CASE i = Len(stack)
    <3>1. Seen(f, pos)
      BY <1>1, <1>2, <1>3, <2>1 DEF Idle, Top
    <3> QED
      BY <3>1 DEF Inv
  <2>2. CASE i # Len(stack)
    <3>1. i \in 1 .. Len(stack) - 1 /\ i + 1 \in 1 .. Len(stack)
      BY <1>1, <2>2
    <3>2. Busy(f, stack[i + 1].start)
      BY <1>2, <1>3, <3>1 DEF Trailing
    <3>3. PICK x \in Nat : x = stack[i + 1].start
      <4>1. stack[i + 1] \in Frames
        BY <1>1, <3>1
      <4> QED
        BY <4>1 DEF Frames
    <3>4. x + 1 \in Nat /\ (Seen(f, x) \/ Seen(f, x + 1))
      BY <1>1, <1>3, <3>2, <3>3 DEF Busy
    <3> QED
      BY <3>4
  <2> QED
    BY <2>1, <2>2
<1>5. PICK x \in Nat : f.given = { k \in Wanted(f.start) : k < x }
  BY <1>4 DEF Seen, GivenUpTo
<1>6. Wanted(f.start) \subseteq Nat
  <2>1. f.start \in Nat /\ Size \in Nat
    BY DEF Frames, Inv, IsDocument, Size
  <2>2. Children(f.start) \subseteq Nat
    BY <2>1, ChildrenType
  <2> QED
    BY <2>2 DEF Wanted, Keys
<1>7. ASSUME NEW p \in Wanted(f.start)
      PROVE  p < x <=> \E q \in f.given : p <= q
  <2>1. p < x => p \in f.given /\ p <= p
    BY <1>5, <1>6
  <2>2. ASSUME NEW q \in f.given, p <= q
        PROVE  p < x
    <3>1. q \in Nat /\ q < x /\ p \in Nat
      BY <1>5, <1>6
    <3> QED
      BY <2>2, <3>1
  <2> QED
    BY <2>1, <2>2
<1>8. f.given = { p \in Wanted(f.start) : \E q \in f.given : p <= q }
  BY <1>5, <1>7
<1> QED
  BY <1>3, <1>8

\* A mapping gives its visitor the keys that the strategy for duplicates leaves
\* over, all of them up to where it is, and no value in the place of a key: with
\* FirstWins ignore_any passes over the pairs between them, whole
\* (MapAccess::next_key_seed).
THEOREM KeysAreGiven == Spec => []KeysGiven
<1>1. Init => Inv /\ NodeInv /\ KeyInv
  BY EventDeInit, NodeInit, KeyInit
<1>2. Inv /\ NodeInv /\ KeyInv /\ [Next]_vars => (Inv /\ NodeInv /\ KeyInv)'
  BY EventDeStep, NodeStep, KeyStep
<1>3. Inv /\ NodeInv /\ KeyInv => KeysGiven
  BY KeysShow
<1> QED
  BY <1>1, <1>2, <1>3, PTL DEF Spec

-----------------------------------------------------------------------------
(* The depth that an error of the recursion limit reports, for visitors      *)
(* that never ask for a newtype.                                            *)

\* The calls s, where r remains: only the key of a mapping is read through the
\* DeserializerFromEvents of the mapping itself, and where keys are plain, what has
\* been used of the limit and what remains of it are all of it.
Depths(s, r, limit) ==
  /\ \A i \in 1 .. Len(s) - 1 : s[i].kind # "value" => s[i].de < s[i + 1].de
  /\ \A i \in 1 .. Len(s) : s[i].wants # "newtype"
  /\ PlainKeys /\ limit > 0 => \A i \in 1 .. Len(s) : s[i].depth + r[s[i].de] = limit

DeepInv ==
  /\ RecursionErrorIsDeep
  /\ Depths(stack, remaining, options.depthLimit)

LEMMA DeepRest ==
  ASSUME NEW s \in Seq(Frames), s # <<>>, NEW r, NEW limit, Depths(s, r, limit)
  PROVE  /\ Depths(Rest(s), r, limit)
         /\ Rest(s) # <<>> /\ Last(Rest(s)).kind # "value" => Last(Rest(s)).de < Last(s).de
<1>1. Len(s) \in Nat \ {0} /\ Len(s) - 1 \in 0 .. Len(s)
  OBVIOUS
<1> PICK t : t = Rest(s)
  OBVIOUS
<1>2. /\ t \in Seq(Frames) /\ Len(t) = Len(s) - 1
      /\ \A i \in 1 .. Len(s) - 1 : t[i] = s[i]
  BY <1>1, PrefixProperties DEF Rest
<1>3. \A i \in 1 .. Len(t) : i \in 1 .. Len(s) /\ i \in 1 .. Len(s) - 1
  BY <1>1, <1>2
<1>4. ASSUME NEW i \in 1 .. Len(t) - 1, t[i].kind # "value"
      PROVE  t[i].de < t[i + 1].de
  <2>1. i \in 1 .. Len(s) - 1 /\ i + 1 \in 1 .. Len(s) - 1
    BY <1>1, <1>2
  <2> QED
    BY <1>2, <1>4, <2>1 DEF Depths
<1>5. \A i \in 1 .. Len(t) : t[i].wants # "newtype"
  BY <1>2, <1>3 DEF Depths
<1>6. PlainKeys /\ limit > 0 => \A i \in 1 .. Len(t) : t[i].depth + r[t[i].de] = limit
  BY <1>2, <1>3 DEF Depths
<1>7. ASSUME t # <<>>, Last(t).kind # "value"
      PROVE  Last(t).de < Last(s).de
  <2>1. Len(t) \in 1 .. Len(s) - 1 /\ Len(t) + 1 = Len(s)
    BY <1>1, <1>2, <1>7
  <2>2. Last(t) = s[Len(t)] /\ Last(s) = s[Len(t) + 1]
    BY <1>2, <2>1 DEF Last
  <2> QED
    BY <1>7, <2>1, <2>2 DEF Depths
<1> QED
  BY <1>4, <1>5, <1>6, <1>7 DEF Depths

\* What remains may change, except for the calls s.
LEMMA DeepMoved ==
  ASSUME NEW s, NEW r, NEW limit, Depths(s, r, limit), NEW w,
         PlainKeys /\ limit > 0 => \A i \in 1 .. Len(s) : w[s[i].de] = r[s[i].de]
  PROVE  Depths(s, w, limit)
BY DEF Depths

\* A call more.
LEMMA DeepPush ==
  ASSUME NEW s \in Seq(Frames), NEW r, NEW limit, Depths(s, r, limit),
         NEW f \in Frames, f.wants # "newtype",
         s # <<>> /\ Last(s).kind # "value" => Last(s).de < f.de,
         PlainKeys /\ limit > 0 => f.depth + r[f.de] = limit
  PROVE  Depths(Append(s, f), r, limit)
<1>1. Len(s) \in Nat
  OBVIOUS
<1> PICK t : t = Append(s, f)
  OBVIOUS
<1>2. /\ Len(t) = Len(s) + 1
      /\ \A i \in 1 .. Len(s) : t[i] = s[i]
      /\ t[Len(s) + 1] = f
  BY <1>1
<1>3. \A i \in 1 .. Len(t) : i \in 1 .. Len(s) \/ i = Len(s) + 1
  BY <1>1, <1>2
<1>4. ASSUME NEW i \in 1 .. Len(t) - 1, t[i].kind # "value"
      PROVE  t[i].de < t[i + 1].de
  <2>1. CASE i = Len(s)
    <3>1. s # <<>> /\ i \in 1 .. Len(s)
      BY <1>1, <1>2, <2>1
    <3> QED
      BY <1>2, <1>4, <2>1, <3>1 DEF Last
  <2>2. CASE i # Len(s)
    <3>1. i \in 1 .. Len(s) - 1 /\ i \in 1 .. Len(s) /\ i + 1 \in 1 .. Len(s)
      BY <1>1, <1>2, <2>2
    <3> QED
      BY <1>2, <1>4, <3>1 DEF Depths
  <2> QED
    BY <2>1, <2>2
<1>5. \A i \in 1 .. Len(t) : t[i].wants # "newtype"
  BY <1>2, <1>3 DEF Depths
<1>6. PlainKeys /\ limit > 0 => \A i \in 1 .. Len(t) : t[i].depth + r[t[i].de] = limit
  BY <1>2, <1>3 DEF Depths
<1> QED
  BY <1>4, <1>5, <1>6 DEF Depths

\* What the invariants say while a call runs.
LEMMA DeepTypes ==
  ASSUME Inv, DeepInv, outcome = "running"
  PROVE  /\ stack \in Seq(Frames) /\ stack # <<>> /\ Below = Rest(stack) /\ Top = Last(stack)
         /\ Below \in Seq(Frames) /\ Len(Below) = Len(stack) - 1
         /\ \A i \in 1 .. Len(Below) : Below[i] = stack[i]
         /\ \A i \in 1 .. Len(Below) : Below[i].de \in 1 .. Len(remaining)
         /\ \A i \in 1 .. Len(Below) : Below[i].de <= Last(Below).de
         /\ Below # <<>> => Last(Below).de \in 1 .. Len(remaining) /\ Last(Below) \in Frames
         /\ Depths(Below, remaining, options.depthLimit)
         /\ Below # <<>> /\ Last(Below).kind # "value" => Last(Below).de < Top.de
         /\ PlainKeys /\ options.depthLimit > 0
              => Top.depth + remaining[Top.de] = options.depthLimit
         /\ Top.wants # "newtype" /\ Top \in Frames /\ Top.de \in 1 .. Len(remaining)
         /\ remaining \in Seq(0 .. 255) /\ Len(remaining) \in Nat
<1>1. stack \in Seq(Frames) /\ stack # <<>> /\ remaining \in Seq(0 .. 255)
  BY DEF Inv, Sound, Stacked
<1>2. Below = Rest(stack) /\ Top = Last(stack) /\ Top \in Frames /\ Top.de \in 1 .. Len(remaining)
  BY <1>1, TopType
<1>3. /\ Len(stack) \in Nat \ {0} /\ Len(stack) - 1 \in 0 .. Len(stack)
      /\ Len(stack) \in 1 .. Len(stack)
  BY <1>1
<1>4. /\ Below \in Seq(Frames) /\ Len(Below) = Len(stack) - 1
      /\ \A i \in 1 .. Len(Below) : Below[i] = stack[i]
  BY <1>1, <1>2, <1>3, PrefixProperties DEF Rest
<1>5. \A i \in 1 .. Len(Below) : i \in 1 .. Len(stack)
  BY <1>3, <1>4
<1>6. \A i \in 1 .. Len(Below) : Below[i].de \in 1 .. Len(remaining)
  BY <1>4, <1>5 DEF Inv, Sound, Stacked
<1>7. Depths(stack, remaining, options.depthLimit)
  BY DEF DeepInv
<1>8. /\ Depths(Below, remaining, options.depthLimit)
      /\ Below # <<>> /\ Last(Below).kind # "value" => Last(Below).de < Top.de
  BY <1>1, <1>2, <1>7, DeepRest
<1>9. ASSUME NEW i \in 1 .. Len(Below)
      PROVE  Below[i].de <= Last(Below).de
  <2>1. i \in 1 .. Len(stack) /\ Len(Below) \in 1 .. Len(stack) /\ i <= Len(Below)
        /\ Len(Below) \in 1 .. Len(Below)
    BY <1>3, <1>4
  <2>2. stack[i].de <= stack[Len(Below)].de
    BY <2>1 DEF Inv, Sound, Stacked
  <2> QED
    BY <1>4, <2>1, <2>2 DEF Last
<1>10. Below # <<>> => Len(Below) \in 1 .. Len(Below)
  BY <1>4
<1>11. PlainKeys /\ options.depthLimit > 0
         => Top.depth + remaining[Top.de] = options.depthLimit
  BY <1>3, <1>7 DEF Depths, Top
<1>12. Top.wants # "newtype"
  BY <1>3, <1>7 DEF Depths, Top
<1>13. Below # <<>> => Last(Below).de \in 1 .. Len(remaining) /\ Last(Below) \in Frames
  BY <1>4, <1>6, <1>10 DEF Last
<1> QED
  BY <1>1, <1>2, <1>4, <1>6, <1>8, <1>9, <1>11, <1>12, <1>13

LEMMA PlainKept ==
  ASSUME UNCHANGED fixed
  PROVE  PlainKeys' <=> PlainKeys
<1>1. document' = document
  BY DEF fixed
<1>2. \A q : Keys(q)' = Keys(q)
  <2>1. \A q : Children(q)' = Children(q)
    BY <1>1 DEF Children, NodeEnds
  <2> QED
    BY <2>1 DEF Keys
<1> QED
  BY <1>1, <1>2 DEF PlainKeys

\* A step that leaves the document, the calls s and what remains of the limit, r.
LEMMA DeepKept ==
  ASSUME UNCHANGED fixed, NEW s, NEW r, s = stack', r = remaining',
         Depths(s, r, options.depthLimit), outcome' # "RecursionLimitExceeded"
  PROVE  DeepInv'
<1>1. options' = options
  BY DEF fixed
<1>2. Depths(stack, remaining, options.depthLimit)'
  BY <1>1, PlainKept DEF Depths
<1>3. RecursionErrorIsDeep'
  BY DEF RecursionErrorIsDeep
<1> QED
  BY <1>2, <1>3 DEF DeepInv

LEMMA DeepSame ==
  ASSUME DeepInv, UNCHANGED <<fixed, stack, remaining>>,
         outcome' = outcome \/ outcome' # "RecursionLimitExceeded"
  PROVE  DeepInv'
<1>1. UNCHANGED fixed /\ stack' = stack /\ remaining' = remaining /\ options' = options
  BY DEF fixed
<1>2. Depths(stack, remaining, options.depthLimit)'
  BY <1>1, PlainKept DEF Depths, DeepInv
<1>3. Top' = Top
  BY <1>1 DEF Top
<1>4. RecursionErrorIsDeep'
  <2>1. Requests' = Requests
    BY <1>1 DEF Requests, fixed
  <2> QED
    BY <1>1, <1>3, <2>1, PlainKept DEF RecursionErrorIsDeep, DeepInv
<1> QED
  BY <1>2, <1>4 DEF DeepInv

\* The limit is reported where nothing of it remains.
LEMMA DeepExhausted ==
  ASSUME Inv, DeepInv, outcome = "running", Exhausted, Fail("RecursionLimitExceeded")
  PROVE  DeepInv'
<1>1. UNCHANGED <<fixed, stack, remaining>> /\ options' = options
  BY DEF Fail, fixed
<1>2. Depths(stack, remaining, options.depthLimit)'
  BY <1>1, PlainKept DEF Depths, DeepInv
<1>3. PlainKeys => Top.depth = options.depthLimit
  <2>1. options.depthLimit > 0 /\ remaining[Top.de] = 0
    BY DEF Exhausted
  <2>2. PlainKeys => Top.depth + 0 = options.depthLimit
    BY <2>1, DeepTypes
  <2>3. Top.depth \in Nat
    BY DeepTypes, FrameType
  <2>4. Top.depth + 0 = Top.depth
    BY <2>3
  <2> QED
    BY <2>2, <2>4
<1>4. Top' = Top
  BY <1>1 DEF Top
<1>5. RecursionErrorIsDeep'
  BY <1>1, <1>3, <1>4, PlainKept DEF RecursionErrorIsDeep
<1> QED
  BY <1>2, <1>5 DEF DeepInv

LEMMA DeepFails ==
  ASSUME DeepInv, NEW error, error # "RecursionLimitExceeded", Fail(error)
  PROVE  DeepInv'
<1>1. UNCHANGED <<fixed, stack, remaining>> /\ outcome' = error
  BY DEF Fail
<1> QED
  BY <1>1, DeepSame

LEMMA DeepReturns ==
  ASSUME Inv, DeepInv, outcome = "running", NEW q, Return(q), UNCHANGED fixed
  PROVE  DeepInv'
<1>1. stack' = Below
  BY DEF Return
<1>2. CASE Below = <<>>
  <2>1. remaining' = remaining /\ outcome' = "ok"
    BY <1>2 DEF Return
  <2> QED
    BY <1>1, <2>1, DeepTypes, DeepKept
<1>3. CASE Below # <<>>
  <2>1. remaining' = SubSeq(remaining, 1, Last(Below).de) /\ outcome' = outcome
    BY <1>3 DEF Return, Last
  <2>2. PICK w, n : w = SubSeq(remaining, 1, n) /\ n = Last(Below).de
    OBVIOUS
  <2>3. n \in 0 .. Len(remaining)
    BY <1>3, <2>2, DeepTypes
  <2>4. \A k \in 1 .. n : w[k] = remaining[k]
    BY <2>2, <2>3, DeepTypes, PrefixProperties
  <2>5. \A i \in 1 .. Len(Below) : Below[i].de \in 1 .. n
    BY <1>3, <2>2, <2>3, DeepTypes
  <2>6. \A i \in 1 .. Len(Below) : w[Below[i].de] = remaining[Below[i].de]
    BY <2>4, <2>5
  <2>7. Depths(Below, w, options.depthLimit)
    BY <2>6, DeepTypes, DeepMoved
  <2> QED
    BY <1>1, <2>1, <2>2, <2>7, DeepKept
<1> QED
  BY <1>2, <1>3

\* The innermost call goes on as f, on the same DeserializerFromEvents.
LEMMA DeepGoesOn ==
  ASSUME Inv, DeepInv, outcome = "running", UNCHANGED <<fixed, remaining, outcome>>,
         NEW f \in Frames, f.de = Top.de, f.depth = Top.depth, f.wants # "newtype",
         stack' = Append(Below, f)
  PROVE  DeepInv'
<1>1. Depths(Append(Below, f), remaining, options.depthLimit)
  BY DeepTypes, DeepPush
<1>2. UNCHANGED fixed /\ outcome' # "RecursionLimitExceeded"
  OBVIOUS
<1>3. PICK s, r : s = Append(Below, f) /\ r = remaining
  OBVIOUS
<1> QED
  BY <1>1, <1>2, <1>3, DeepKept

\* A DeserializerFromEvents more changes nothing for those in existence.
LEMMA DeepFresh ==
  ASSUME Inv, DeepInv, outcome = "running", NEW w, w = Append(remaining, remaining[Top.de])
  PROVE  /\ Depths(Below, w, options.depthLimit)
         /\ w[Top.de] = remaining[Top.de]
         /\ w[Len(remaining) + 1] = remaining[Top.de]
<1>1. remaining \in Seq(0 .. 255) /\ Len(remaining) \in Nat /\ remaining[Top.de] \in 0 .. 255
  BY DeepTypes, TopType
<1>2. PICK n \in 0 .. 255 : n = remaining[Top.de]
  BY <1>1
<1>3. /\ \A k \in 1 .. Len(remaining) : w[k] = remaining[k]
      /\ w[Len(remaining) + 1] = n
  BY <1>1, <1>2
<1>4. \A i \in 1 .. Len(Below) : w[Below[i].de] = remaining[Below[i].de]
  BY <1>3, DeepTypes
<1>5. Depths(Below, w, options.depthLimit)
  BY <1>4, DeepTypes, DeepMoved
<1>6. w[Top.de] = remaining[Top.de]
  BY <1>3, DeepTypes
<1> QED
  BY <1>2, <1>3, <1>5, <1>6

\* The innermost call goes on as f and calls g on a new DeserializerFromEvents.
LEMMA DeepCalls ==
  ASSUME Inv, DeepInv, outcome = "running", UNCHANGED <<fixed, outcome>>,
         remaining' = Append(remaining, remaining[Top.de]),
         NEW f \in Frames, f.de = Top.de, f.depth = Top.depth, f.wants # "newtype",
         NEW g \in Frames, g.de = Len(remaining) + 1, g.depth = Top.depth, g.wants # "newtype",
         stack' = Append(Append(Below, f), g)
  PROVE  DeepInv'
<1> PICK w : w = Append(remaining, remaining[Top.de])
  OBVIOUS
<1>1. /\ Depths(Below, w, options.depthLimit)
      /\ w[Top.de] = remaining[Top.de]
      /\ w[Len(remaining) + 1] = remaining[Top.de]
  BY DeepFresh
<1> PICK t : t = Append(Below, f)
  OBVIOUS
<1>2. Depths(t, w, options.depthLimit)
  BY <1>1, DeepTypes, DeepPush
<1>3. t \in Seq(Frames) /\ t # <<>> /\ Last(t) = f
  BY DeepTypes, NotEmpty DEF Last
<1>4. f.de < g.de
  BY DeepTypes
<1>5. PlainKeys /\ options.depthLimit > 0 => g.depth + w[g.de] = options.depthLimit
  BY <1>1, DeepTypes
<1>6. Depths(Append(t, g), w, options.depthLimit)
  BY <1>2, <1>3, <1>4, <1>5, DeepPush
<1>7. UNCHANGED fixed /\ outcome' # "RecursionLimitExceeded"
  OBVIOUS
<1>8. PICK s : s = Append(t, g)
  OBVIOUS
<1> QED
  BY <1>6, <1>7, <1>8, DeepKept

-----------------------------------------------------------------------------
(* Every action keeps to it.                                                *)

LEMMA ReturnsDeep ==
  ASSUME Inv, DeepInv,
         ReadScalar \/ EndVariant \/ EndCollection \/ ReadVoid \/ Ignore \/ JumpBack
  PROVE  DeepInv'
<1>1. outcome = "running" /\ UNCHANGED fixed
  BY DEF ReadScalar, EndVariant, EndCollection, ReadVoid, Ignore, JumpBack, Reading
<1>2. \E q : Return(q)
  BY DEF ReadScalar, EndVariant, EndCollection, ReadVoid, Ignore, JumpBack
<1> QED
  BY <1>1, <1>2, DeepReturns

LEMMA FollowAliasDeep ==
  ASSUME Inv, DeepInv, FollowAlias
  PROVE  DeepInv'
<1>1. outcome = "running" /\ ~AtEnd /\ Ev.type = "Alias"
  BY DEF FollowAlias, Reading
<1>2. CASE jumpcount + 1 > AliasLimit
  <2>1. Fail("RepetitionLimitExceeded")
    BY <1>2 DEF FollowAlias
  <2> QED
    BY <2>1, DeepFails
<1>3. CASE ~(jumpcount + 1 > AliasLimit)
  <2> DEFINE f == [Top EXCEPT !.kind = "jump", !.saved = pos + 1]
             g == Node(Top.wants, Len(remaining) + 1, document.aliases[Ev.id + 1], Top.depth)
  <2>1. /\ stack' = Append(Append(Below, f), g)
        /\ remaining' = Append(remaining, remaining[Top.de])
        /\ UNCHANGED <<fixed, outcome>>
    BY <1>3 DEF FollowAlias
  <2>2. f \in Frames /\ f.de = Top.de /\ f.depth = Top.depth /\ f.wants # "newtype"
    <3>1. Top \in Frames /\ pos + 1 \in Nat /\ Top.wants # "newtype"
      BY <1>1, Running, DeepTypes
    <3> QED
      BY ONLY <3>1 DEF Frames, f
  <2>3. /\ g \in Frames /\ g.de = Len(remaining) + 1 /\ g.depth = Top.depth
        /\ g.wants # "newtype"
    <3>1. /\ Top.wants \in AllRequests /\ Top.wants # "newtype"
          /\ Len(remaining) + 1 \in Nat
          /\ document.aliases[Ev.id + 1] \in Nat
          /\ Top.depth \in Nat
      BY <1>1, DeepTypes, EvType DEF Frames
    <3> QED
      BY <3>1 DEF Node, Frames
  <2> HIDE DEF f, g
  <2> QED
    BY <1>1, <2>1, <2>2, <2>3, DeepCalls
<1> QED
  BY <1>2, <1>3

LEMMA ReadSomeDeep ==
  ASSUME Inv, DeepInv, ReadSome, "newtype" \notin Requests
  PROVE  DeepInv'
<1>1. outcome = "running" /\ UNCHANGED <<fixed, remaining, outcome>>
  BY DEF ReadSome, Reading
<1>2. PICK r \in Requests : stack' = Append(Below, [Top EXCEPT !.wants = r])
  BY DEF ReadSome
<1> DEFINE f == [Top EXCEPT !.wants = r]
<1>3. f \in Frames /\ f.de = Top.de /\ f.depth = Top.depth /\ f.wants # "newtype"
  <2>1. r \in AllRequests /\ r # "newtype"
    BY RequestsKnown
  <2> QED
    BY <1>1, <2>1, Running DEF Frames
<1> HIDE DEF f
<1>4. stack' = Append(Below, f)
  BY <1>2 DEF f
<1> QED
  BY <1>1, <1>3, <1>4, DeepGoesOn

\* A tag is used: its node is read anew, on a DeserializerFromEvents of its own.
LEMMA ReadTagDeep ==
  ASSUME Inv, DeepInv, ReadTag, "newtype" \notin Requests
  PROVE  DeepInv'
<1>1. /\ outcome = "running" /\ UNCHANGED <<fixed, outcome>>
      /\ remaining' = Append(remaining, remaining[Top.de])
  BY DEF ReadTag, Reading
<1>2. PICK r \in Requests :
        stack' = Append(Below, [Top EXCEPT !.wants = r, !.de = Len(remaining) + 1,
                                           !.enums = @ + 1])
  BY DEF ReadTag
<1> DEFINE f == [Top EXCEPT !.wants = r, !.de = Len(remaining) + 1, !.enums = @ + 1]
<1>3. /\ f \in Frames /\ f.de = Len(remaining) + 1 /\ f.depth = Top.depth
      /\ f.wants # "newtype"
  <2>1. r \in AllRequests /\ r # "newtype"
    BY RequestsKnown
  <2>2. Len(remaining) + 1 \in Nat
    BY <1>1, DeepTypes
  <2>3. Top \in Frames /\ Top.enums + 1 \in Nat
    BY <1>1, Running DEF Frames
  <2> QED
    BY <2>1, <2>2, <2>3 DEF Frames
<1> HIDE DEF f
<1> PICK w : w = Append(remaining, remaining[Top.de])
  OBVIOUS
<1>4. Depths(Below, w, options.depthLimit) /\ w[Len(remaining) + 1] = remaining[Top.de]
  BY <1>1, DeepFresh
<1>5. Below # <<>> => Last(Below).de < f.de
  BY <1>1, <1>3, DeepTypes
<1>6. PlainKeys /\ options.depthLimit > 0 => f.depth + w[f.de] = options.depthLimit
  BY <1>1, <1>3, <1>4, DeepTypes
<1>7. Depths(Append(Below, f), w, options.depthLimit)
  BY <1>1, <1>3, <1>4, <1>5, <1>6, DeepTypes, DeepPush
<1>8. PICK s : s = Append(Below, f)
  OBVIOUS
<1>9. s = stack' /\ outcome' # "RecursionLimitExceeded"
  BY <1>1, <1>2, <1>8 DEF f
<1> QED
  BY <1>1, <1>7, <1>8, <1>9, DeepKept

\* Where keys are plain, a collection is no key, and no call below works on its
\* DeserializerFromEvents.
LEMMA AloneBelow ==
  ASSUME Inv, NodeInv, KeyInv, DeepInv, PlainKeys, outcome = "running", Top.kind = "node",
         Ev.type \in Starts
  PROVE  \A i \in 1 .. Len(Below) : Below[i].de < Top.de
<1>1. Kind(Top.start) \in Starts
  BY AtStart, NodeTypes
<1>2. ASSUME Below # <<>>, Last(Below).kind = "value"
      PROVE  FALSE
  <2>1. Busy(Last(Below), Top.start)
    <3>1. Trailing(stack) /\ stack \in Seq(Frames) /\ stack # <<>>
      BY KeyTypes
    <3>2. Rest(stack) # <<>> /\ Rest(stack) = Below /\ Last(stack) = Top
      BY <1>2, DeepTypes
    <3> QED
      BY <3>1, <3>2, TrailReturn
  <2>2. /\ Kind(Last(Below).start) = "MappingStart"
        /\ Top.start \in Keys(Last(Below).start)
    BY <1>2, <2>1 DEF Busy
  <2>3. PICK s \in Nat : s = Last(Below).start
    BY <1>2, DeepTypes DEF Frames
  <2>4. Top.start \in s + 1 .. Len(document.events) - 1
    BY <2>2, <2>3 DEF Keys, Children
  <2>5. s \in 0 .. Len(document.events) - 1
    <3>1. Len(document.events) \in Nat
      BY DEF Inv, IsDocument
    <3> QED
      BY <2>4, <3>1
  <2>6. Kind(Top.start) \in {"Scalar", "Alias"}
    BY <2>2, <2>3, <2>5 DEF PlainKeys, Kind
  <2> QED
    BY <1>1, <2>6 DEF Starts
<1>3. ASSUME NEW i \in 1 .. Len(Below)
      PROVE  Below[i].de < Top.de
  <2>1. Below # <<>>
    BY DeepTypes
  <2>2. Last(Below).de < Top.de
    BY <1>2, <2>1, DeepTypes
  <2>3. /\ Below[i].de \in 1 .. Len(remaining) /\ Below[i].de <= Last(Below).de
        /\ Last(Below).de \in 1 .. Len(remaining) /\ Top.de \in 1 .. Len(remaining)
    BY <2>1, DeepTypes
  <2> QED
    BY <2>2, <2>3
<1> QED
  BY <1>3

LEMMA OpenDeep ==
  ASSUME Inv, NodeInv, KeyInv, DeepInv, ReadSequence \/ ReadMapping
  PROVE  DeepInv'
<1>1. outcome = "running" /\ Top.kind = "node" /\ Ev.type \in Starts
  BY DEF ReadSequence, ReadMapping, Reading, Starts
<1>2. PICK kind \in {"seq", "key"} : Open(kind)
  BY DEF ReadSequence, ReadMapping
<1>3. CASE Exhausted
  BY <1>1, <1>2, <1>3, DeepExhausted DEF Open
<1>4. CASE ~Exhausted
  <2> DEFINE f == [Top EXCEPT !.kind = kind, !.depth = @ + 1]
  <2>1. stack' = Append(Below, f) /\ remaining' = Descended /\ UNCHANGED <<fixed, outcome>>
    BY <1>2, <1>4 DEF Open
  <2>2. f \in Frames /\ f.de = Top.de /\ f.depth = Top.depth + 1 /\ f.wants # "newtype"
    <3>1. Top \in Frames /\ Top.depth + 1 \in Nat /\ Top.wants # "newtype"
      BY <1>1, Running, FrameType, DeepTypes
    <3> QED
      BY <1>2, <3>1 DEF Frames
  <2> HIDE DEF f
  <2> PICK w : w = Descended
    OBVIOUS
  <2>3. ASSUME PlainKeys, options.depthLimit > 0
        PROVE  /\ \A i \in 1 .. Len(Below) : w[Below[i].de] = remaining[Below[i].de]
               /\ f.depth + w[f.de] = options.depthLimit
    <3>1. w = [remaining EXCEPT ![Top.de] = @ - 1]
      BY <1>1, <2>3, TopType, DeepTypes DEF Descended
    <3>2. PICK k \in 1 .. Len(remaining) : k = Top.de
      BY <1>1, DeepTypes
    <3>3. remaining \in Seq(0 .. 255) /\ Len(remaining) \in Nat /\ remaining[k] \in 0 .. 255
      BY <1>1, <3>2, DeepTypes, TopType
    <3>4. /\ w[k] = remaining[k] - 1
          /\ \A j \in 1 .. Len(remaining) : j # k => w[j] = remaining[j]
      BY <3>1, <3>2, <3>3
    <3>5. \A i \in 1 .. Len(Below) : Below[i].de < k
      BY <1>1, <2>3, <3>2, AloneBelow
    <3>6. ASSUME NEW i \in 1 .. Len(Below)
          PROVE  w[Below[i].de] = remaining[Below[i].de]
      <4>1. Below[i].de \in 1 .. Len(remaining) /\ Below[i].de < k
        BY <1>1, <3>5, DeepTypes
      <4>2. Below[i].de # k
        BY <3>3, <4>1
      <4> QED
        BY <3>4, <4>1, <4>2
    <3>7. f.depth + w[f.de] = options.depthLimit
      <4>1. PICK d \in Nat, r \in 0 .. 255 : d = Top.depth /\ r = remaining[k]
        BY <1>1, <3>3, DeepTypes, FrameType
      <4>2. d + r = options.depthLimit
        BY <1>1, <2>3, <3>2, <4>1, DeepTypes
      <4>3. f.depth = d + 1 /\ w[f.de] = r - 1
        BY <2>2, <3>2, <3>4, <4>1
      <4>4. (d + 1) + (r - 1) = d + r
        BY ONLY d \in Nat, r \in 0 .. 255
      <4> QED
        BY <4>2, <4>3, <4>4
    <3> QED
      BY <3>6, <3>7
  <2>4. Depths(Below, w, options.depthLimit)
    BY <1>1, <2>3, DeepTypes, DeepMoved
  <2>5. Depths(Append(Below, f), w, options.depthLimit)
    BY <1>1, <2>2, <2>3, <2>4, DeepTypes, DeepPush
  <2>6. PICK s : s = Append(Below, f)
    OBVIOUS
  <2>7. s = stack' /\ w = remaining' /\ outcome' # "RecursionLimitExceeded"
    BY <1>1, <2>1, <2>6
  <2> QED
    BY <2>1, <2>5, <2>6, <2>7, DeepKept
<1> QED
  BY <1>3, <1>4

LEMMA CallFreshDeep ==
  ASSUME Inv, DeepInv, outcome = "running", UNCHANGED <<fixed, outcome>>,
         NEW f \in Frames, f.de = Top.de, f.depth = Top.depth, f.wants = Top.wants,
         NEW start \in Nat, CallFresh(f, start), "newtype" \notin Requests
  PROVE  DeepInv'
<1>1. PICK g \in Frames : /\ g.wants \in Requests
                          /\ g.de = Len(remaining) + 1 /\ g.depth = f.depth
                          /\ stack' = Append(Append(Below, f), g)
  BY FreshNode
<1>2. remaining' = Append(remaining, remaining[Top.de])
  BY DEF CallFresh
<1>3. f.wants # "newtype" /\ g.wants # "newtype" /\ g.depth = Top.depth
  BY <1>1, DeepTypes
<1> QED
  BY <1>1, <1>2, <1>3, DeepCalls

LEMMA OpenVariantDeep ==
  ASSUME Inv, DeepInv, OpenVariant, "newtype" \notin Requests
  PROVE  DeepInv'
<1> DEFINE f == [Top EXCEPT !.kind = "variant", !.enums = @ + 1]
<1>1. outcome = "running" /\ pos' = pos + 2 /\ CallFresh(f, pos') /\ UNCHANGED <<fixed, outcome>>
  BY DEF OpenVariant, Reading
<1>2. f \in Frames /\ f.de = Top.de /\ f.depth = Top.depth /\ f.wants = Top.wants
  <2>1. Top \in Frames /\ Top.enums + 1 \in Nat
    BY <1>1, Running DEF Frames
  <2> QED
    BY <2>1 DEF Frames
<1> HIDE DEF f
<1>3. PICK q \in Nat : q = pos'
  BY <1>1 DEF Inv
<1> QED
  BY <1>1, <1>2, <1>3, CallFreshDeep

LEMMA NextDeep ==
  ASSUME Inv, DeepInv, NextElement \/ NextValue, "newtype" \notin Requests
  PROVE  DeepInv'
<1>1. outcome = "running" /\ UNCHANGED <<fixed, outcome>>
  BY DEF NextElement, NextValue
<1>2. PICK f \in Frames : /\ f.de = Top.de /\ f.depth = Top.depth /\ f.wants = Top.wants
                          /\ CallFresh(f, pos)
  <2>1. /\ [Top EXCEPT !.kind = "key"] \in Frames
        /\ [Top EXCEPT !.kind = "key"].de = Top.de
        /\ [Top EXCEPT !.kind = "key"].depth = Top.depth
        /\ [Top EXCEPT !.kind = "key"].wants = Top.wants
    BY <1>1, Running DEF Frames
  <2> QED
    BY <1>1, <2>1, Running DEF NextElement, NextValue
<1>3. PICK start \in Nat : start = pos
  BY DEF Inv
<1>4. CallFresh(f, start)
  BY <1>2, <1>3
<1> QED
  BY <1>1, <1>2, <1>4, CallFreshDeep

\* The key of a mapping is read through the DeserializerFromEvents of the mapping.
LEMMA NextKeyDeep ==
  ASSUME Inv, DeepInv, NextKey, "newtype" \notin Requests
  PROVE  DeepInv'
<1> DEFINE f == [Top EXCEPT !.kind = "value", !.keys = @ \cup Remembered,
                            !.given = @ \cup {pos}]
<1>1. outcome = "running" /\ ~AtEnd /\ UNCHANGED <<fixed, remaining, outcome>>
  BY DEF NextKey, AtKey
<1>2. PICK r \in Requests :
        stack' = Append(Append(Below, f), Node(r, Top.de, pos, Top.depth))
  BY DEF NextKey
<1>3. /\ f \in Frames /\ f.de = Top.de /\ f.depth = Top.depth /\ f.wants = Top.wants
      /\ f.kind = "value"
  <2>1. Remembered \subseteq Texts
    BY <1>1, EvType DEF Remembered, Events
  <2>2. Top \in Frames /\ pos \in Nat
    BY <1>1, Running DEF Inv
  <2>3. Top.keys \cup Remembered \in SUBSET Texts /\ Top.given \cup {pos} \in SUBSET Nat
    BY <2>1, <2>2 DEF Frames
  <2> QED
    BY <2>2, <2>3 DEF Frames
<1> DEFINE g == Node(r, Top.de, pos, Top.depth)
<1>4. g \in Frames /\ g.de = Top.de /\ g.depth = Top.depth /\ g.wants # "newtype"
  <2>1. Top.de \in Nat /\ pos \in Nat /\ Top.depth \in Nat
    BY <1>1, Running, FrameType DEF Inv
  <2> QED
    BY <2>1, NodeType DEF Node
<1> HIDE DEF f, g
<1> PICK t : t = Append(Below, f)
  OBVIOUS
<1>5. f.wants # "newtype"
  BY <1>1, <1>3, DeepTypes
<1>6. Depths(t, remaining, options.depthLimit)
  BY <1>1, <1>3, <1>5, DeepTypes, DeepPush
<1>7. t \in Seq(Frames) /\ t # <<>> /\ Last(t) = f
  BY <1>1, <1>3, DeepTypes, NotEmpty DEF Last
<1>8. PlainKeys /\ options.depthLimit > 0 => g.depth + remaining[g.de] = options.depthLimit
  BY <1>1, <1>4, DeepTypes
<1>9. Depths(Append(t, g), remaining, options.depthLimit)
  BY <1>3, <1>4, <1>6, <1>7, <1>8, DeepPush
<1>10. PICK s, w : s = Append(t, g) /\ w = remaining
  OBVIOUS
<1>11. s = stack' /\ w = remaining' /\ outcome' # "RecursionLimitExceeded"
  BY <1>1, <1>2, <1>10 DEF f, g
<1> QED
  BY <1>1, <1>9, <1>10, <1>11, DeepKept

LEMMA DeepStep ==
  ASSUME Inv, NodeInv, KeyInv, DeepInv, [Next]_vars, "newtype" \notin Requests
  PROVE  DeepInv'
<1>1. CASE FollowAlias
  BY <1>1, FollowAliasDeep
<1>2. CASE ReadScalar \/ EndVariant \/ EndCollection \/ ReadVoid \/ Ignore \/ JumpBack
  BY <1>2, ReturnsDeep
<1>3. CASE ReadSome
  BY <1>3, ReadSomeDeep
<1>4. CASE ReadNewtype
  <2>1. outcome = "running" /\ Top.wants = "newtype"
    BY <1>4 DEF ReadNewtype, Reading
  <2> QED
    BY <2>1, DeepTypes
<1>5. CASE ReadSequence \/ ReadMapping
  BY <1>5, OpenDeep
<1>6. CASE ReadTag
  BY <1>6, ReadTagDeep
<1>7. CASE OpenVariant
  BY <1>7, OpenVariantDeep
<1>8. CASE NextElement \/ NextValue
  BY <1>8, NextDeep
<1>9. CASE NextKey
  BY <1>9, NextKeyDeep
<1>10. CASE DuplicateIsError \/ Refuse
  <2>1. PICK error \in {"DuplicateKey", "Refused"} : Fail(error)
    BY <1>10 DEF DuplicateIsError, Refuse
  <2> QED
    BY <2>1, DeepFails
<1>11. CASE SkipPair
  <2>1. UNCHANGED <<fixed, stack, remaining, outcome>>
    BY <1>11 DEF SkipPair
  <2> QED
    BY <2>1, DeepSame
<1>12. CASE UNCHANGED vars
  <2>1. UNCHANGED <<fixed, stack, remaining, outcome>>
    BY <1>12 DEF vars, fixed
  <2> QED
    BY <2>1, DeepSame
<1> QED
  BY <1>1, <1>2, <1>3, <1>4, <1>5, <1>6, <1>7, <1>8, <1>9, <1>10, <1>11, <1>12 DEF Next

LEMMA DeepInit ==
  ASSUME Init, "newtype" \notin Requests
  PROVE  DeepInv
<1>1. PICK r \in Requests : stack = <<Node(r, 1, 0, 0)>>
  BY DEF Init
<1>2. PICK f : f = Node(r, 1, 0, 0)
  OBVIOUS
<1>3. f.de = 1 /\ f.depth = 0 /\ f.wants # "newtype"
  BY <1>2 DEF Node
<1>4. Len(stack) = 1 /\ stack[1] = f
  BY <1>1, <1>2
<1>5. \A i \in 1 .. Len(stack) : i = 1
  BY <1>4
<1>6. \A i \in 1 .. Len(stack) - 1 : FALSE
  BY <1>4
<1>7. 0 + remaining[1] = options.depthLimit
  <2>1. remaining[1] = options.depthLimit
    BY DEF Init
  <2>2. options.depthLimit \in 0 .. 255
    BY EventDeAssumption DEF Init, Options
  <2> QED
    BY <2>1, <2>2
<1>8. Depths(stack, remaining, options.depthLimit)
  BY <1>3, <1>4, <1>5, <1>6, <1>7 DEF Depths
<1>9. RecursionErrorIsDeep
  BY DEF Init, RecursionErrorIsDeep
<1> QED
  BY <1>8, <1>9 DEF DeepInv

\* Where no visitor asks for a newtype and no key is a collection, the error of
\* the recursion limit is reported at the depth it says: nothing lowers
\* remaining_depth but the collections that are open (recursion_check).
THEOREM RecursionErrorsAreDeep == Spec => []RecursionErrorIsDeep
<1> DEFINE DeepInvIf == "newtype" \notin Requests => DeepInv
           All == Inv /\ NodeInv /\ KeyInv /\ DeepInvIf
<1>1. Init => All
  BY EventDeInit, NodeInit, KeyInit, DeepInit
<1>2. All /\ [Next]_vars => All'
  <2> SUFFICES ASSUME Inv, NodeInv, KeyInv, DeepInvIf, [Next]_vars
               PROVE  All'
    OBVIOUS
  <2>1. Inv' /\ NodeInv' /\ KeyInv'
    BY EventDeStep, NodeStep, KeyStep
  <2>2. ASSUME "newtype" \notin Requests PROVE DeepInv'
    BY <2>2, DeepStep
  <2>3. DeepInvIf'
    BY <2>2, RequestsKept
  <2> QED
    BY <2>1, <2>3
<1>3. All => RecursionErrorIsDeep
  BY DEF DeepInv, RecursionErrorIsDeep
<1> HIDE DEF All
<1> QED
  BY <1>1, <1>2, <1>3, PTL DEF Spec
=============================================================================

--------------------------- MODULE CascadeProofs ----------------------------
(***************************************************************************)
(* Proofs about Cascade and Startup, for any number of bundles and calls,  *)
(* any dependencies and any manifests.                                     *)
(***************************************************************************)
EXTENDS Startup, SequenceTheorems, FiniteSetTheorems, WellFoundedInduction, TLAPS

-----------------------------------------------------------------------------
(***************************************************************************)
(* Reachability.                                                           *)
(***************************************************************************)
Relation == [BundleId -> SUBSET BundleId]

\* What b reaches has b and is closed.
LEMMA ReachCloses ==
  ASSUME NEW r \in Relation, NEW b \in BundleId
  PROVE  /\ Reach(r, b) \in SUBSET BundleId /\ b \in Reach(r, b)
         /\ \A x \in Reach(r, b) : r[x] \subseteq Reach(r, b)
  <1>1. Reach(r, b) \in SUBSET BundleId /\ b \in Reach(r, b) BY DEF Reach
  <1>2. ASSUME NEW x \in Reach(r, b), NEW y \in r[x] PROVE y \in Reach(r, b)
    <2>1. y \in BundleId BY <1>1, <1>2 DEF Relation
    <2>2. ASSUME NEW S \in SUBSET BundleId, b \in S, Closed(r, S) PROVE y \in S
      <3>1. x \in S BY <2>2 DEF Reach
      <3> QED BY <3>1, <2>2, <1>2 DEF Closed
    <2> QED BY <2>1, <2>2 DEF Reach
  <1> QED BY <1>1, <1>2

\* It is the least such set.
LEMMA ReachLeast ==
  ASSUME NEW r \in Relation, NEW b \in BundleId, NEW S \in SUBSET BundleId, b \in S,
         \A x \in S : r[x] \subseteq S
  PROVE  Reach(r, b) \subseteq S
  BY DEF Reach, Closed

\* A bundle reaches what its dependencies reach.
LEMMA ReachStep ==
  ASSUME NEW r \in Relation, NEW b \in BundleId, NEW d \in r[b]
  PROVE  Reach(r, d) \subseteq Reach(r, b)
  <1>1. d \in BundleId BY DEF Relation
  <1>2. /\ Reach(r, b) \in SUBSET BundleId /\ b \in Reach(r, b)
        /\ \A x \in Reach(r, b) : r[x] \subseteq Reach(r, b) BY ReachCloses
  <1>3. d \in Reach(r, b) BY <1>2
  <1> QED BY <1>1, <1>2, <1>3, ReachLeast

-----------------------------------------------------------------------------
(***************************************************************************)
(* Stacks.                                                                 *)
(***************************************************************************)

\* Distinct bundles are no more than there are.
LEMMA DistinctBound ==
  ASSUME NEW N \in Nat, NEW f \in [1 .. N -> BundleId],
         \A m, n \in 1 .. N : f[m] = f[n] => m = n
  PROVE  N <= Bundles
  <1>1. Bundles \in Nat BY CascadeAssumption
  <1>2. IsFiniteSet(1 .. N) /\ Cardinality(1 .. N) = N BY FS_Interval
  <1>3. IsFiniteSet(BundleId) /\ Cardinality(BundleId) = Bundles BY <1>1, FS_Interval DEF BundleId
  <1>4. f \in Injection(1 .. N, BundleId) BY DEF Injection, IsInjective
  <1>5. Cardinality(1 .. N) <= Cardinality(BundleId) BY <1>3, <1>4, FS_Injection
  <1> QED BY <1>2, <1>3, <1>5

\* A stack with its top, and without it.
LEMMA TopFacts ==
  ASSUME NEW s \in Seq(Frame), s # <<>>
  PROVE  /\ Len(s) \in Nat \ {0} /\ s[Len(s)] \in Frame
         /\ s[Len(s)].bundle_id \in BundleId /\ s[Len(s)].todo \in SUBSET BundleId
         /\ SubSeq(s, 1, Len(s) - 1) \in Seq(Frame)
         /\ Len(SubSeq(s, 1, Len(s) - 1)) = Len(s) - 1
         /\ \A n \in 1 .. Len(s) - 1 : SubSeq(s, 1, Len(s) - 1)[n] = s[n]
  <1>1. Len(s) \in Nat \ {0} BY EmptySeq
  <1>2. \A n \in 1 .. Len(s) : s[n] \in Frame BY ElementOfSeq
  <1>3. \A n \in 1 .. Len(s) - 1 : s[n] \in Frame BY <1>1, <1>2
  <1>4. PICK k \in Nat \ {0} : k = Len(s) BY <1>1
  <1>5. /\ SubSeq(s, 1, k - 1) \in Seq(Frame)
        /\ Len(SubSeq(s, 1, k - 1)) = IF 1 <= k - 1 THEN k - 1 - 1 + 1 ELSE 0
        /\ \A n \in 1 .. k - 1 - 1 + 1 : SubSeq(s, 1, k - 1)[n] = s[1 + n - 1]
    <2>1. k - 1 \in Int /\ 1 \in Int OBVIOUS
    <2>2. \A n \in 1 .. k - 1 : s[n] \in Frame BY <1>3, <1>4
    <2> QED BY <2>1, <2>2, SubSeqProperties
  <1>6. Len(SubSeq(s, 1, k - 1)) = k - 1 BY <1>5
  <1>7. \A n \in 1 .. k - 1 : SubSeq(s, 1, k - 1)[n] = s[n]
    <2> SUFFICES ASSUME NEW n \in 1 .. k - 1 PROVE SubSeq(s, 1, k - 1)[n] = s[n] OBVIOUS
    <2>1. n \in 1 .. k - 1 - 1 + 1 /\ 1 + n - 1 = n OBVIOUS
    <2> QED BY <2>1, <1>5
  <1>8. s[Len(s)] \in Frame BY <1>1, <1>2
  <1>9. s[Len(s)].bundle_id \in BundleId /\ s[Len(s)].todo \in SUBSET BundleId BY <1>8 DEF Frame
  <1> QED BY <1>1, <1>4, <1>5, <1>6, <1>7, <1>8, <1>9

\* A stack whose top no longer has to visit d.
LEMMA VisitingFacts ==
  ASSUME NEW s \in Seq(Frame), s # <<>>, NEW d, NEW v, v = [s EXCEPT ![Len(s)].todo = @ \ {d}]
  PROVE  /\ v \in Seq(Frame) /\ Len(v) = Len(s) /\ v # <<>>
         /\ \A n \in 1 .. Len(s) - 1 : v[n] = s[n]
         /\ \A n \in 1 .. Len(s) : v[n].bundle_id = s[n].bundle_id
         /\ v[Len(s)].todo = s[Len(s)].todo \ {d}
  <1>1. PICK k \in Nat \ {0} : k = Len(s) BY TopFacts
  <1>2. s \in [1 .. k -> Frame] BY <1>1
  <1>3. s[k] \in Frame BY <1>2
  <1> DEFINE e == [s[k] EXCEPT !.todo = @ \ {d}]
             t == [s EXCEPT ![k] = e]
  <1>4. e \in Frame /\ e.bundle_id = s[k].bundle_id /\ e.todo = s[k].todo \ {d} BY <1>3 DEF Frame
  <1> HIDE DEF e
  <1>5. t \in [1 .. k -> Frame] /\ t[k] = e /\ \A n \in 1 .. k - 1 : t[n] = s[n] BY <1>2, <1>4
  <1>6. t \in Seq(Frame) /\ Len(t) = k
    <2>1. DOMAIN t = 1 .. k BY <1>5
    <2>2. t \in Seq(Frame) BY <1>5, SeqDef
    <2>3. Len(t) \in Nat /\ DOMAIN t = 1 .. Len(t) BY <2>2, LenProperties
    <2> QED BY <2>1, <2>2, <2>3
  <1>7. t # <<>> BY <1>6
  <1>8. \A n \in 1 .. k : t[n].bundle_id = s[n].bundle_id
    <2> SUFFICES ASSUME NEW n \in 1 .. k PROVE t[n].bundle_id = s[n].bundle_id OBVIOUS
    <2>1. CASE n = k BY <2>1, <1>4, <1>5
    <2>2. CASE n # k BY <2>2, <1>5
    <2> QED BY <2>1, <2>2
  <1>9. v = t BY <1>1, <1>2, <1>3 DEF e
  <1> HIDE DEF t
  <1> QED BY <1>1, <1>4, <1>5, <1>6, <1>7, <1>8, <1>9

\* A stack with one more frame.
LEMMA PushFacts ==
  ASSUME NEW S, NEW s \in Seq(S), NEW e \in S
  PROVE  /\ Len(s) \in Nat /\ Append(s, e) \in Seq(S) /\ Len(Append(s, e)) = Len(s) + 1
         /\ Append(s, e)[Len(s) + 1] = e /\ Append(s, e) # <<>>
         /\ \A n \in 1 .. Len(s) : Append(s, e)[n] = s[n]
  <1>1. /\ Len(s) \in Nat /\ Append(s, e) \in Seq(S) /\ Len(Append(s, e)) = Len(s) + 1
        /\ Append(s, e)[Len(s) + 1] = e
        /\ \A n \in 1 .. Len(s) : Append(s, e)[n] = s[n]
    OBVIOUS
  <1>2. Append(s, e) # <<>> BY <1>1
  <1> QED BY <1>1, <1>2
\* A stack of one frame.
LEMMA SingleFacts ==
  ASSUME NEW S, NEW e \in S
  PROVE  /\ <<e>> \in Seq(S) /\ Len(<<e>>) = 1 /\ <<e>>[1] = e /\ <<e>> # <<>> /\ Range(<<e>>) = {e}
  <1>1. <<e>> \in Seq(S) /\ Len(<<e>>) = 1 /\ <<e>>[1] = e OBVIOUS
  <1>2. <<e>> # <<>> BY <1>1
  <1>3. Range(<<e>>) = {e} BY <1>1 DEF Range
  <1> QED BY <1>1, <1>2, <1>3

\* The elements of an order, and of one with another element.
LEMMA RangeFacts ==
  ASSUME NEW S, NEW s \in Seq(S)
  PROVE  /\ Len(s) \in Nat /\ DOMAIN s = 1 .. Len(s) /\ Range(s) \subseteq S
         /\ \A n \in 1 .. Len(s) : s[n] \in Range(s) /\ s[n] \in S
         /\ \A x \in Range(s) : \E n \in 1 .. Len(s) : s[n] = x
         /\ \A e \in S : Range(Append(s, e)) = Range(s) \cup {e}
  <1>1. Len(s) \in Nat /\ DOMAIN s = 1 .. Len(s) BY LenProperties
  <1>2. \A n \in 1 .. Len(s) : s[n] \in S BY ElementOfSeq
  <1>3. /\ \A n \in 1 .. Len(s) : s[n] \in Range(s)
        /\ \A x \in Range(s) : \E n \in 1 .. Len(s) : s[n] = x
    BY <1>1 DEF Range
  <1>4. ASSUME NEW e \in S PROVE Range(Append(s, e)) = Range(s) \cup {e}
    <2>1. /\ Append(s, e) \in Seq(S) /\ Len(Append(s, e)) = Len(s) + 1
          /\ Append(s, e)[Len(s) + 1] = e
          /\ \A n \in 1 .. Len(s) : Append(s, e)[n] = s[n] BY PushFacts
    <2>2. DOMAIN Append(s, e) = 1 .. Len(s) + 1 BY <2>1, LenProperties
    <2>3. PICK k \in Nat : k = Len(s) BY <1>1
    <2>4. PICK t : t = Append(s, e) OBVIOUS
    <2>5. /\ DOMAIN t = 1 .. k + 1 /\ t[k + 1] = e /\ \A n \in 1 .. k : t[n] = s[n]
          /\ DOMAIN s = 1 .. k BY <2>1, <2>2, <2>3, <2>4, <1>1
    <2>6. ASSUME NEW x \in Range(t) PROVE x \in Range(s) \cup {e}
      <3>1. PICK n \in 1 .. k + 1 : x = t[n] BY <2>5 DEF Range
      <3>2. CASE n = k + 1 BY <3>1, <3>2, <2>5
      <3>3. CASE n # k + 1
        <4>1. n \in 1 .. k BY <3>3
        <4> QED BY <3>1, <4>1, <2>5 DEF Range
      <3> QED BY <3>2, <3>3
    <2>7. ASSUME NEW x \in Range(s) PROVE x \in Range(t)
      <3>1. PICK n \in 1 .. k : x = s[n] BY <2>5 DEF Range
      <3>2. n \in 1 .. k + 1 /\ t[n] = x BY <3>1, <2>5
      <3> QED BY <3>2, <2>5 DEF Range
    <2>8. e \in Range(t)
      <3>1. k + 1 \in 1 .. k + 1 OBVIOUS
      <3> QED BY <3>1, <2>5 DEF Range
    <2> QED BY <2>4, <2>6, <2>7, <2>8
  <1>5. Range(s) \subseteq S BY <1>2, <1>3
  <1> QED BY <1>1, <1>2, <1>3, <1>4, <1>5

\* Frames of distinct bundles, and distinct bundles, are no more than there are.
LEMMA FramesBound ==
  ASSUME NEW s \in Seq(Frame), \A m, n \in 1 .. Len(s) : s[m].bundle_id = s[n].bundle_id => m = n
  PROVE  Len(s) <= Bundles
  <1>1. Len(s) \in Nat /\ \A n \in 1 .. Len(s) : s[n] \in Frame BY LenProperties, ElementOfSeq
  <1>2. \A n \in 1 .. Len(s) : s[n].bundle_id \in BundleId BY <1>1 DEF Frame
  <1>3. PICK f : f = [n \in 1 .. Len(s) |-> s[n].bundle_id] OBVIOUS
  <1>4. f \in [1 .. Len(s) -> BundleId] BY <1>2, <1>3
  <1>5. \A m, n \in 1 .. Len(s) : f[m] = f[n] => m = n BY <1>3
  <1> QED BY <1>1, <1>4, <1>5, DistinctBound

LEMMA OrderBound ==
  ASSUME NEW s \in Seq(BundleId), \A m, n \in 1 .. Len(s) : s[m] = s[n] => m = n
  PROVE  Len(s) <= Bundles
  <1>1. Len(s) \in Nat /\ s \in [1 .. Len(s) -> BundleId] BY LenProperties
  <1> QED BY <1>1, DistinctBound

-----------------------------------------------------------------------------
(***************************************************************************)
(* Every step of a walk keeps the walks' invariant.                        *)
(***************************************************************************)

\* What the type invariant says of a running call.
LEMMA RunningFacts ==
  ASSUME TypeOK, stack # <<>>
  PROVE  /\ Len(stack) \in Nat \ {0} /\ Top \in Frame
         /\ Top.bundle_id \in BundleId /\ Top.todo \in SUBSET BundleId
         /\ \A n \in Frames : stack[n] \in Frame
         /\ \A n \in Frames : stack[n].bundle_id \in BundleId
         /\ \A n \in Frames : stack[n].todo \in SUBSET BundleId
  <1>1. stack \in Seq(Frame) BY DEF TypeOK
  <1>2. /\ Len(stack) \in Nat \ {0} /\ Top \in Frame
        /\ Top.bundle_id \in BundleId /\ Top.todo \in SUBSET BundleId BY <1>1, TopFacts DEF Top
  <1>3. \A n \in Frames : stack[n] \in Frame BY <1>1, ElementOfSeq DEF Frames
  <1>4. /\ \A n \in Frames : stack[n].bundle_id \in BundleId
        /\ \A n \in Frames : stack[n].todo \in SUBSET BundleId BY <1>3 DEF Frame
  <1> QED BY <1>2, <1>3, <1>4

LEMMA ReloadBundleWalks ==
  ASSUME WalkInv, NEW b \in BundleId, ReloadBundle(b)
  PROVE  WalkInv'
  <1> DEFINE e == [bundle_id |-> b, todo |-> Candidates(b)]
  <1>1. e \in Frame BY DEF Frame, Candidates, Dependents, WalkInv, TypeOK
  <1>2. stack' = <<e>> /\ order' = <<b>> /\ visited' = {b} BY DEF ReloadBundle
  <1>3. stack' \in Seq(Frame) /\ Len(stack') = 1 /\ stack'[1] = e /\ stack' # <<>> BY <1>1, <1>2, SingleFacts
  <1>4. order' \in Seq(BundleId) /\ Len(order') = 1 /\ order'[1] = b /\ Range(order') = {b} BY <1>2, SingleFacts
  <1>5. call'.kind = "reload" /\ call' \in Call BY DEF ReloadBundle, Begin, Call, WalkInv, TypeOK
  <1>6. Candidates(b)' = Candidates(b) BY DEF ReloadBundle, Candidates, Dependents, rigid
  <1>7. TypeOK'
    <2>1. calls' \in 0 .. MaxCalls BY CascadeAssumption DEF ReloadBundle, Begin, WalkInv, TypeOK
    <2> QED BY <1>2, <1>3, <1>4, <1>5, <2>1, CascadeAssumption DEF WalkInv, TypeOK, ReloadBundle, rigid
  <1>8. StackTracked'
    <2>1. Frames' = {1} BY <1>3 DEF Frames
    <2>2. OnStack' = {b} BY <2>1, <1>3 DEF OnStack
    <2>3. ~Idle' BY <1>5 DEF Idle
    <2>4. \A x \in BundleId : x \notin depends'[x] BY DEF ReloadBundle, rigid, WalkInv, StackTracked
    <2> QED BY <1>2, <1>3, <1>4, <2>1, <2>2, <2>3, <2>4 DEF StackTracked
  <1>9. ReloadTracked'
    <2>1. Frames' = {1} BY <1>3 DEF Frames
    <2> QED BY <1>2, <1>3, <1>4, <1>6, <2>1 DEF ReloadTracked
  <1>10. UnloadTracked' BY <1>5 DEF UnloadTracked
  <1> QED BY <1>7, <1>8, <1>9, <1>10 DEF WalkInv

\* A call that ends where it began, with nothing reloaded.
LEMMA RefusedWalks ==
  ASSUME WalkInv, Idle, order' = <<>>, visited' = {}, failed' \in SUBSET BundleId,
         outcome' \in Outcome, calls < MaxCalls, calls' = calls + 1,
         UNCHANGED <<rigid, loaded, call, stack>>
  PROVE  WalkInv'
  <1>1. stack = <<>> BY DEF WalkInv, StackTracked
  <1>2. stack' = <<>> /\ call' = call /\ Len(stack') = 0 /\ Len(order') = 0 BY <1>1
  <1>3. TypeOK'
    <2>1. calls' \in 0 .. MaxCalls BY CascadeAssumption DEF WalkInv, TypeOK
    <2>2. order' \in Seq(BundleId) OBVIOUS
    <2> QED BY <2>1, <2>2, <1>2, CascadeAssumption DEF WalkInv, TypeOK, rigid
  <1>4. Frames' = {} /\ OnStack' = {} BY <1>2 DEF Frames, OnStack
  <1>5. StackTracked' BY <1>2, <1>4 DEF StackTracked, WalkInv, Idle, rigid
  <1>6. call'.kind = "none" BY <1>2 DEF Idle
  <1> QED BY <1>3, <1>5, <1>6 DEF WalkInv, ReloadTracked, UnloadTracked

LEMMA ReloadBundleFailsWalks ==
  ASSUME WalkInv, NEW b \in BundleId, ReloadBundleFails(b)
  PROVE  WalkInv'
  <1>1. outcome' \in Outcome BY DEF ReloadBundleFails, Outcome, WalkInv, TypeOK
  <1> QED BY <1>1, RefusedWalks DEF ReloadBundleFails

LEMMA UnloadCascadeRefusedWalks ==
  ASSUME WalkInv, NEW b \in BundleId, UnloadCascadeRefused(b)
  PROVE  WalkInv'
  <1>1. outcome' \in Outcome BY DEF UnloadCascadeRefused, Outcome, WalkInv, TypeOK
  <1> QED BY <1>1, RefusedWalks DEF UnloadCascadeRefused

\* A call returns.
Results == {"ok", "failed", "not_found", "in_use", "wrong_thread"}
LEMMA ReturnWalks ==
  ASSUME WalkInv, NEW result \in Results, Return(result),
         loaded' \in SUBSET BundleId, visited' \in SUBSET BundleId,
         UNCHANGED <<rigid, order, failed, calls>>
  PROVE  WalkInv' /\ Idle' /\ call'.kind = "none" /\ outcome'.result = result /\ outcome'.kind = call.kind
         /\ outcome'.target = call.target /\ outcome'.found = call.found
  <1>1. outcome' \in Outcome BY DEF Return, Outcome, WalkInv, TypeOK, Call, Results
  <1>2. call' \in Call /\ call'.kind = "none" BY DEF Return, Call, WalkInv, TypeOK
  <1>3. stack' = <<>> /\ Len(stack') = 0 BY DEF Return
  <1>4. TypeOK' BY <1>1, <1>2, <1>3, CascadeAssumption DEF WalkInv, TypeOK, rigid
  <1>5. Frames' = {} /\ OnStack' = {} BY <1>3 DEF Frames, OnStack
  <1>6. StackTracked' BY <1>2, <1>3, <1>5 DEF StackTracked, WalkInv, Idle, rigid
  <1>7. WalkInv' BY <1>2, <1>4, <1>6 DEF WalkInv, ReloadTracked, UnloadTracked
  <1> QED BY <1>2, <1>7 DEF Return, Idle

\* A stack whose top has one dependent less to visit.
LEMMA VisitingOne ==
  ASSUME stack \in Seq(Frame), stack # <<>>, NEW d, NEW v, v = Visiting(d)
  PROVE  /\ v \in Seq(Frame) /\ Len(v) = Len(stack) /\ v # <<>>
         /\ \A n \in 1 .. Len(stack) - 1 : v[n] = stack[n]
         /\ \A n \in 1 .. Len(stack) : v[n].bundle_id = stack[n].bundle_id
         /\ v[Len(stack)].todo = stack[Len(stack)].todo \ {d}
  <1>1. v = [stack EXCEPT ![Len(stack)].todo = @ \ {d}] BY DEF Visiting
  <1> QED BY <1>1, VisitingFacts, Zenon

\* The top frame has one dependent less to visit.
LEMMA VisitingStack ==
  ASSUME WalkInv, stack # <<>>, NEW d, stack' = Visiting(d)
  PROVE  /\ stack' \in Seq(Frame) /\ Len(stack') = Len(stack) /\ stack' # <<>> /\ Frames' = Frames
         /\ \A n \in Frames : stack'[n].bundle_id = stack[n].bundle_id
         /\ \A n \in Frames : n # Len(stack) => stack'[n] = stack[n]
         /\ stack'[Len(stack)].todo = Top.todo \ {d}
         /\ \A n \in Frames : stack[n].todo \ {d} \subseteq stack'[n].todo
         /\ \A n \in Frames : stack'[n].todo \subseteq stack[n].todo
         /\ OnStack' = OnStack
  <1>1. stack \in Seq(Frame) BY DEF WalkInv, TypeOK
  <1>2. /\ stack' \in Seq(Frame) /\ Len(stack') = Len(stack) /\ stack' # <<>>
        /\ \A n \in 1 .. Len(stack) - 1 : stack'[n] = stack[n]
        /\ \A n \in 1 .. Len(stack) : stack'[n].bundle_id = stack[n].bundle_id
        /\ stack'[Len(stack)].todo = stack[Len(stack)].todo \ {d}
    BY <1>1, VisitingOne
  <1>3. Len(stack) \in Nat \ {0} BY <1>1, TopFacts
  <1>4. Frames' = Frames /\ Frames = 1 .. Len(stack) BY <1>2 DEF Frames
  <1>5. \A n \in Frames : n # Len(stack) => stack'[n] = stack[n]
    <2> SUFFICES ASSUME NEW n \in Frames, n # Len(stack) PROVE stack'[n] = stack[n] OBVIOUS
    <2>1. n \in 1 .. Len(stack) - 1 BY <1>3, <1>4
    <2> QED BY <2>1, <1>2
  <1>6. OnStack' = OnStack BY <1>2, <1>4 DEF OnStack
  <1>7. ASSUME NEW n \in Frames
        PROVE  stack[n].todo \ {d} \subseteq stack'[n].todo /\ stack'[n].todo \subseteq stack[n].todo
    <2>1. CASE n = Len(stack) BY <2>1, <1>2
    <2>2. CASE n # Len(stack) BY <2>2, <1>5
    <2> QED BY <2>1, <2>2
  <1> QED BY <1>2, <1>4, <1>5, <1>6, <1>7 DEF Top

\* It goes on to a new frame.
LEMMA EnteringStack ==
  ASSUME WalkInv, stack # <<>>, NEW d \in BundleId, NEW T \in SUBSET BundleId,
         stack' = Append(Visiting(d), [bundle_id |-> d, todo |-> T])
  PROVE  /\ stack' \in Seq(Frame) /\ Len(stack') = Len(stack) + 1 /\ stack' # <<>>
         /\ Frames' = Frames \cup {Len(stack) + 1} /\ Len(stack) + 1 \notin Frames
         /\ stack'[Len(stack) + 1].bundle_id = d /\ stack'[Len(stack) + 1].todo = T
         /\ \A n \in Frames : stack'[n].bundle_id = stack[n].bundle_id
         /\ \A n \in Frames : stack[n].todo \ {d} \subseteq stack'[n].todo
         /\ \A n \in Frames : stack'[n].todo \subseteq stack[n].todo
         /\ OnStack' = OnStack \cup {d}
  <1>1. stack \in Seq(Frame) BY DEF WalkInv, TypeOK
  <1>2. PICK v : v = Visiting(d) OBVIOUS
  <1>3. /\ v \in Seq(Frame) /\ Len(v) = Len(stack) /\ v # <<>>
        /\ \A n \in 1 .. Len(stack) - 1 : v[n] = stack[n]
        /\ \A n \in 1 .. Len(stack) : v[n].bundle_id = stack[n].bundle_id
        /\ v[Len(stack)].todo = stack[Len(stack)].todo \ {d}
    BY <1>1, <1>2, VisitingOne
  <1>4. PICK k \in Nat \ {0} : k = Len(stack) BY <1>1, TopFacts
  <1>5. PICK e \in Frame : e = [bundle_id |-> d, todo |-> T] BY DEF Frame
  <1>6. stack' = Append(v, e) BY <1>2, <1>5
  <1>7. /\ Append(v, e) \in Seq(Frame) /\ Len(Append(v, e)) = Len(v) + 1 /\ Append(v, e) # <<>>
        /\ Append(v, e)[Len(v) + 1] = e /\ \A n \in 1 .. Len(v) : Append(v, e)[n] = v[n]
    BY <1>3, <1>5, PushFacts
  <1>8. /\ stack' \in Seq(Frame) /\ Len(stack') = k + 1 /\ stack' # <<>>
        /\ stack'[k + 1] = e /\ \A n \in 1 .. k : stack'[n] = v[n] BY <1>3, <1>4, <1>6, <1>7
  <1>9. Frames = 1 .. k /\ Frames' = 1 .. k + 1 BY <1>4, <1>8 DEF Frames
  <1>10. Frames' = Frames \cup {k + 1} /\ k + 1 \notin Frames BY <1>9
  <1>11. \A n \in Frames : stack'[n].bundle_id = stack[n].bundle_id BY <1>3, <1>4, <1>8, <1>9
  <1>12. ASSUME NEW n \in Frames
         PROVE  stack[n].todo \ {d} \subseteq stack'[n].todo /\ stack'[n].todo \subseteq stack[n].todo
    <2>1. CASE n = k BY <2>1, <1>3, <1>4, <1>8, <1>9
    <2>2. CASE n # k
      <3>1. n \in 1 .. k - 1 BY <2>2, <1>9
      <3> QED BY <3>1, <1>3, <1>4, <1>8, <1>9
    <2> QED BY <2>1, <2>2
  <1>13. stack'[k + 1].bundle_id = d /\ stack'[k + 1].todo = T BY <1>5, <1>8
  <1>14. OnStack' = OnStack \cup {d} BY <1>10, <1>11, <1>13 DEF OnStack
  <1> QED BY <1>4, <1>8, <1>10, <1>11, <1>12, <1>13, <1>14

\* It is left.
LEMMA LeavingStack ==
  ASSUME WalkInv, stack # <<>>, Len(stack) > 1, stack' = Unwound
  PROVE  /\ stack' \in Seq(Frame) /\ Len(stack') = Len(stack) - 1 /\ stack' # <<>>
         /\ Frames = Frames' \cup {Len(stack)} /\ Len(stack) \notin Frames'
         /\ \A n \in Frames' : stack'[n] = stack[n]
         /\ OnStack = OnStack' \cup {Top.bundle_id} /\ 1 \in Frames'
  <1>1. stack \in Seq(Frame) BY DEF WalkInv, TypeOK
  <1>2. PICK k \in Nat \ {0} : k = Len(stack) BY <1>1, TopFacts
  <1>3. /\ stack' \in Seq(Frame) /\ Len(stack') = k - 1
        /\ \A n \in 1 .. k - 1 : stack'[n] = stack[n] BY <1>1, <1>2, TopFacts DEF Unwound
  <1>4. stack' # <<>> BY <1>2, <1>3
  <1>5. Frames = 1 .. k /\ Frames' = 1 .. k - 1 /\ 1 \in Frames' BY <1>2, <1>3 DEF Frames
  <1>6. Frames = Frames' \cup {k} /\ k \notin Frames' BY <1>5
  <1>7. OnStack = OnStack' \cup {stack[k].bundle_id} BY <1>3, <1>5, <1>6 DEF OnStack
  <1> QED BY <1>2, <1>3, <1>4, <1>5, <1>6, <1>7 DEF Top

LEMMA CascadeReloadsWalks ==
  ASSUME WalkInv, NEW d \in BundleId, CascadeReloads(d)
  PROVE  WalkInv'
  <1>1. /\ call' = call /\ call.kind = "reload" /\ stack # <<>> /\ d \notin visited
        /\ depends' = depends /\ loaded' = loaded /\ reinit' = reinit /\ failed' = failed
        /\ visited' = visited \cup {d} /\ order' = Append(order, d)
    BY DEF CascadeReloads, Candidate, Running, Skipped, rigid
  <1>2. PICK T \in SUBSET BundleId : T = Candidates(d) BY DEF Candidates, Dependents, WalkInv, TypeOK
  <1>3. stack' = Append(Visiting(d), [bundle_id |-> d, todo |-> T]) BY <1>2 DEF CascadeReloads
  <1>4. PICK k \in Nat \ {0} : k = Len(stack) BY <1>1, RunningFacts DEF WalkInv
  <1>5. /\ stack' \in Seq(Frame) /\ Len(stack') = k + 1 /\ stack' # <<>>
        /\ Frames' = Frames \cup {k + 1} /\ k + 1 \notin Frames
        /\ stack'[k + 1].bundle_id = d /\ stack'[k + 1].todo = T
        /\ \A n \in Frames : stack'[n].bundle_id = stack[n].bundle_id
        /\ \A n \in Frames : stack[n].todo \ {d} \subseteq stack'[n].todo
        /\ OnStack' = OnStack \cup {d}
    BY <1>1, <1>3, <1>4, EnteringStack
  <1>6. order \in Seq(BundleId) BY DEF WalkInv, TypeOK
  <1>7. PICK j \in Nat : j = Len(order) BY <1>6, RangeFacts
  <1>8. /\ order' \in Seq(BundleId) /\ Len(order') = j + 1 /\ order'[j + 1] = d
        /\ \A n \in 1 .. j : order'[n] = order[n]
    BY <1>1, <1>6, <1>7, PushFacts
  <1>9. Range(order') = Range(order) \cup {d} BY <1>1, <1>6, RangeFacts
  <1>10. \A n \in 1 .. j : order[n] \in Range(order) BY <1>6, <1>7, RangeFacts
  <1>11. visited = Range(order) BY <1>1 DEF WalkInv, ReloadTracked
  <1>12. StackTracked'
    <2>1. OnStack \subseteq visited BY DEF WalkInv, StackTracked
    <2>2. \A n \in Frames : stack[n].bundle_id \in visited BY <2>1 DEF OnStack
    <2>3. \A m, n \in Frames : stack[m].bundle_id = stack[n].bundle_id => m = n BY DEF WalkInv, StackTracked
    <2>4. \A m, n \in Frames' : stack'[m].bundle_id = stack'[n].bundle_id => m = n
      BY <1>1, <1>5, <2>2, <2>3
    <2>5. \A m, n \in 1 .. j : order[m] = order[n] => m = n BY <1>7 DEF WalkInv, StackTracked
    <2>6. \A m, n \in 1 .. j + 1 : order'[m] = order'[n] => m = n
      <3>1. \A n \in 1 .. j + 1 : n = j + 1 \/ n \in 1 .. j OBVIOUS
      <3>2. \A n \in 1 .. j : order'[n] # d BY <1>1, <1>8, <1>10, <1>11
      <3> QED BY <3>1, <3>2, <1>8, <2>5
    <2>7. ~Idle' BY <1>1 DEF Idle
    <2>8. OnStack' \subseteq visited' BY <1>1, <1>5, <2>1
    <2>9. \A b \in BundleId : b \notin depends'[b] BY <1>1 DEF WalkInv, StackTracked
    <2> QED BY <1>5, <1>8, <2>4, <2>6, <2>7, <2>8, <2>9 DEF StackTracked
  <1>13. TypeOK'
    <2>1. Len(stack') <= Bundles
      <3>1. \A m, n \in 1 .. Len(stack') : stack'[m].bundle_id = stack'[n].bundle_id => m = n
        BY <1>12 DEF StackTracked, Frames
      <3> QED BY <1>5, <3>1, FramesBound
    <2>2. Len(order') <= Bundles
      <3>1. \A m, n \in 1 .. Len(order') : order'[m] = order'[n] => m = n BY <1>12 DEF StackTracked
      <3> QED BY <1>8, <3>1, OrderBound
    <2>3. /\ foreign' = foreign /\ outcome' = outcome /\ calls' = calls BY DEF CascadeReloads, rigid
    <2> QED BY <1>1, <1>5, <1>8, <2>1, <2>2, <2>3 DEF WalkInv, TypeOK
  <1>14. ReloadTracked'
    <2>1. visited' = Range(order') BY <1>1, <1>9, <1>11
    <2>2. \A b : Candidates(b)' = Candidates(b) BY <1>1 DEF Candidates, Dependents
    <2>3. ASSUME NEW b \in Range(order'), NEW c \in Candidates(b)
          PROVE  c \in Range(order') \cup failed' \/ \E n \in Frames' : c \in stack'[n].todo
      <3>1. CASE b = d
        <4>1. c \in stack'[k + 1].todo BY <3>1, <2>3, <1>2, <1>5
        <4> QED BY <4>1, <1>5
      <3>2. CASE b # d
        <4>1. b \in Range(order) BY <3>2, <2>3, <1>9
        <4>2. c \in Range(order) \cup failed \/ \E n \in Frames : c \in stack[n].todo
          BY <4>1, <2>3, <1>1 DEF WalkInv, ReloadTracked
        <4>3. CASE c = d BY <4>3, <1>9
        <4>4. CASE c \in Range(order) \cup failed BY <4>4, <1>1, <1>9
        <4>5. CASE c # d /\ \E n \in Frames : c \in stack[n].todo BY <4>5, <1>5
        <4> QED BY <4>2, <4>3, <4>4, <4>5
      <3> QED BY <3>1, <3>2
    <2> QED BY <2>1, <2>2, <2>3 DEF ReloadTracked
  <1>15. UnloadTracked' BY <1>1 DEF UnloadTracked
  <1> QED BY <1>12, <1>13, <1>14, <1>15 DEF WalkInv

\* The top frame has done with a candidate that was reloaded or has failed.
LEMMA CandidateDoneWalks ==
  ASSUME WalkInv, NEW d \in BundleId, call.kind = "reload", stack # <<>>, stack' = Visiting(d),
         failed \subseteq failed', failed' \in SUBSET BundleId, d \in visited \cup failed',
         UNCHANGED <<rigid, loaded, call, visited, order, outcome, calls>>
  PROVE  WalkInv'
  <1>1. /\ depends' = depends /\ reinit' = reinit /\ foreign' = foreign /\ loaded' = loaded
        /\ call' = call /\ visited' = visited /\ order' = order /\ outcome' = outcome /\ calls' = calls
    BY DEF rigid
  <1>2. /\ stack' \in Seq(Frame) /\ Len(stack') = Len(stack) /\ stack' # <<>> /\ Frames' = Frames
        /\ \A n \in Frames : stack'[n].bundle_id = stack[n].bundle_id
        /\ \A n \in Frames : stack[n].todo \ {d} \subseteq stack'[n].todo
        /\ OnStack' = OnStack
    BY VisitingStack
  <1>3. TypeOK' BY <1>1, <1>2 DEF WalkInv, TypeOK
  <1>4. StackTracked' BY <1>1, <1>2 DEF WalkInv, StackTracked, Idle
  <1>5. ReloadTracked'
    <2>1. \A b : Candidates(b)' = Candidates(b) BY <1>1 DEF Candidates, Dependents
    <2>2. visited = Range(order) BY DEF WalkInv, ReloadTracked
    <2>3. ASSUME NEW b \in Range(order), NEW c \in Candidates(b)
          PROVE  c \in Range(order) \cup failed' \/ \E n \in Frames' : c \in stack'[n].todo
      <3>1. c \in Range(order) \cup failed \/ \E n \in Frames : c \in stack[n].todo
        BY <2>3 DEF WalkInv, ReloadTracked
      <3>2. CASE c = d BY <3>2, <2>2
      <3>3. CASE c # d BY <3>3, <3>1, <1>2
      <3> QED BY <3>2, <3>3
    <2> QED BY <1>1, <2>1, <2>2, <2>3 DEF ReloadTracked
  <1>6. UnloadTracked' BY <1>1 DEF UnloadTracked
  <1> QED BY <1>3, <1>4, <1>5, <1>6 DEF WalkInv

LEMMA CascadeFailsWalks ==
  ASSUME WalkInv, NEW d \in BundleId, CascadeFails(d)
  PROVE  WalkInv'
  <1>1. failed' \in SUBSET BundleId BY DEF CascadeFails, WalkInv, TypeOK
  <1> QED BY <1>1, CandidateDoneWalks DEF CascadeFails, Candidate, Running

LEMMA CascadeSkipsWalks ==
  ASSUME WalkInv, NEW d \in BundleId, CascadeSkips(d)
  PROVE  WalkInv'
  <1>1. failed' = failed /\ failed' \in SUBSET BundleId BY DEF CascadeSkips, WalkInv, TypeOK
  <1> QED BY <1>1, CandidateDoneWalks DEF CascadeSkips, Candidate, Running, Skipped

LEMMA ReloadReturnsWalks ==
  ASSUME WalkInv, ReloadReturns
  PROVE  WalkInv'
  <1>1. /\ depends' = depends /\ reinit' = reinit /\ foreign' = foreign /\ loaded' = loaded
        /\ visited' = visited /\ order' = order /\ failed' = failed /\ calls' = calls
        /\ call.kind = "reload" /\ stack # <<>> /\ Top.todo = {}
    BY DEF ReloadReturns, Running, rigid
  <1>2. CASE Len(stack) > 1
    <2>1. stack' = Unwound /\ call' = call /\ outcome' = outcome BY <1>2 DEF ReloadReturns
    <2>2. /\ stack' \in Seq(Frame) /\ Len(stack') = Len(stack) - 1 /\ stack' # <<>>
          /\ Frames = Frames' \cup {Len(stack)}
          /\ \A n \in Frames' : stack'[n] = stack[n]
          /\ OnStack = OnStack' \cup {Top.bundle_id}
      BY <1>1, <1>2, <2>1, LeavingStack
    <2>3. TypeOK'
      <3>1. Len(stack') <= Bundles
        <4>1. Len(stack) \in Nat /\ Bundles \in Nat /\ Len(stack) <= Bundles
          BY <1>1, RunningFacts, CascadeAssumption DEF WalkInv, TypeOK
        <4> QED BY <2>2, <4>1
      <3> QED BY <1>1, <2>1, <2>2, <3>1 DEF WalkInv, TypeOK
    <2>4. StackTracked' BY <1>1, <2>1, <2>2 DEF WalkInv, StackTracked, Idle
    <2>5. ReloadTracked'
      <3>1. \A b : Candidates(b)' = Candidates(b) BY <1>1 DEF Candidates, Dependents
      <3>2. \A c : (\E n \in Frames : c \in stack[n].todo) => \E n \in Frames' : c \in stack'[n].todo
        BY <1>1, <2>2 DEF Top
      <3> QED BY <1>1, <2>1, <3>1, <3>2 DEF WalkInv, ReloadTracked
    <2>6. UnloadTracked' BY <1>1, <2>1 DEF UnloadTracked
    <2> QED BY <2>3, <2>4, <2>5, <2>6 DEF WalkInv
  <1>3. CASE ~(Len(stack) > 1)
    <2>1. Return("ok") BY <1>3 DEF ReloadReturns
    <2> QED BY <1>1, <2>1, ReturnWalks DEF rigid, Results, WalkInv, TypeOK
  <1> QED BY <1>2, <1>3

\* The relations a cascade unload walks.
LEMMA UnloadRelations ==
  ASSUME TypeOK
  PROVE  /\ depends \in Relation /\ FoundDependents \in Relation /\ call.target \in BundleId
         /\ loaded \subseteq call.found => \A x \in BundleId : Dependents(x) \subseteq FoundDependents[x]
         /\ \A x \in BundleId : Dependents(x) \in SUBSET BundleId
  <1>1. depends \in Relation BY DEF TypeOK, Relation
  <1>2. call.found \in SUBSET BundleId /\ call.target \in BundleId BY DEF TypeOK, Call
  <1>3. FoundDependents \in Relation BY <1>2 DEF FoundDependents, Relation
  <1>4. loaded \subseteq call.found => \A x \in BundleId : Dependents(x) \subseteq FoundDependents[x]
    BY DEF Dependents, FoundDependents
  <1>5. \A x \in BundleId : Dependents(x) \in SUBSET BundleId BY DEF Dependents, TypeOK
  <1> QED BY <1>1, <1>2, <1>3, <1>4, <1>5

LEMMA UnloadCascadeWalks ==
  ASSUME WalkInv, NEW b \in BundleId, UnloadCascade(b)
  PROVE  WalkInv'
  <1>0. TypeOK BY DEF WalkInv
  <1> DEFINE e == [bundle_id |-> b, todo |-> Dependents(b)]
  <1>1. e \in Frame BY <1>0 DEF Frame, Dependents, TypeOK
  <1>2. /\ stack' = <<e>> /\ order' = <<>> /\ visited' = {b} /\ failed' = {} /\ b \in loaded
        /\ depends' = depends /\ reinit' = reinit /\ foreign' = foreign /\ loaded' = loaded
        /\ outcome' = outcome
    BY DEF UnloadCascade, rigid
  <1>3. stack' \in Seq(Frame) /\ Len(stack') = 1 /\ stack'[1] = e /\ stack' # <<>> BY <1>1, <1>2, SingleFacts
  <1>4. order' \in Seq(BundleId) /\ Len(order') = 0 BY <1>2
  <1>5. call'.kind = "unload" /\ call' \in Call /\ call'.found = loaded /\ call'.target = b
    BY <1>0 DEF UnloadCascade, Begin, Call, TypeOK
  <1>6. TypeOK'
    <2>1. calls' \in 0 .. MaxCalls BY <1>0, CascadeAssumption DEF UnloadCascade, Begin, TypeOK
    <2> QED BY <1>0, <1>2, <1>3, <1>4, <1>5, <2>1, CascadeAssumption DEF TypeOK
  <1>7. Frames' = {1} /\ OnStack' = {b}
    <2>1. Frames' = {1} BY <1>3 DEF Frames
    <2> QED BY <2>1, <1>3 DEF OnStack
  <1>8. StackTracked'
    <2>1. ~Idle' BY <1>5 DEF Idle
    <2>2. \A x \in BundleId : x \notin depends'[x] BY <1>2 DEF WalkInv, StackTracked
    <2> QED BY <1>2, <1>3, <1>4, <1>7, <2>1, <2>2 DEF StackTracked
  <1>9. ReloadTracked' BY <1>5 DEF ReloadTracked
  <1>10. UnloadTracked'
    <2>1. PICK r : r = [x \in BundleId |-> Dependents(x)] OBVIOUS
    <2>2. r \in Relation /\ depends \in Relation BY <1>0, <2>1, UnloadRelations DEF Relation
    <2>3. FoundDependents' = r BY <1>2, <1>5, <2>1 DEF FoundDependents, Dependents
    <2>4. Reach(r, b) \cap foreign = {} BY <2>1 DEF UnloadCascade, CascadeAffinity, AllDependents
    <2>5. Reach(FoundDependents, call.target)' = Reach(r, b) BY <1>5, <2>3
    <2>6. b \in Reach(r, b) /\ Dependents(b) \subseteq Reach(r, b) BY <2>1, <2>2, ReachCloses
    <2>7. b \in Reach(depends, b) BY <2>2, ReachCloses
    <2>8. \A x : Dependents(x)' = Dependents(x) BY <1>2 DEF Dependents
    <2>9. FrameTracked(1)'
      <3>1. stack'[1].bundle_id = b /\ stack'[1].todo = Dependents(b) BY <1>3
      <3>2. \A d \in Dependents(b) : b \in depends[d] BY DEF Dependents
      <3>3. \A m \in 1 .. 1 : m = 1 OBVIOUS
      <3> QED BY <1>2, <2>5, <2>6, <2>7, <2>8, <3>1, <3>2, <3>3 DEF FrameTracked
    <2> QED BY <1>2, <1>3, <1>5, <1>7, <2>4, <2>5, <2>9 DEF UnloadTracked
  <1> QED BY <1>6, <1>8, <1>9, <1>10 DEF WalkInv

\* The frames of an unload stay tracked when the top has done with a dependent
\* that was visited.
LEMMA VisitedFrames ==
  ASSUME WalkInv, call.kind = "unload", NEW n \in Frames, NEW d, d \in visited',
         visited \subseteq visited',
         FoundDependents' = FoundDependents, call' = call, depends' = depends, loaded' = loaded,
         Frames \subseteq Frames',
         \A m \in Frames : stack'[m].bundle_id = stack[m].bundle_id,
         stack[n].todo \ {d} \subseteq stack'[n].todo, stack'[n].todo \subseteq stack[n].todo
  PROVE  FrameTracked(n)'
  <1>1. FrameTracked(n) BY DEF WalkInv, UnloadTracked
  <1>3. 1 .. n \subseteq Frames
    <2>1. Len(stack) \in Nat BY DEF WalkInv, TypeOK
    <2> QED BY <2>1 DEF Frames
  <1>4. PICK b : b = stack[n].bundle_id OBVIOUS
  <1>5. stack'[n].bundle_id = b BY <1>4
  <1>6. /\ b \in Reach(FoundDependents, call.target)
        /\ stack[n].todo \subseteq Reach(FoundDependents, call.target)
        /\ Dependents(b) \subseteq stack[n].todo \cup visited
        /\ \A c \in stack[n].todo : b \in depends[c]
        /\ \A m \in 1 .. n : stack[m].bundle_id \in Reach(depends, b)
    BY <1>1, <1>4 DEF FrameTracked
  <1>7. Dependents(b)' = Dependents(b) BY DEF Dependents
  <1>8. Reach(FoundDependents, call.target)' = Reach(FoundDependents, call.target) OBVIOUS
  <1>9. Dependents(b) \subseteq stack'[n].todo \cup visited' BY <1>6
  <1>10. \A m \in 1 .. n : stack'[m].bundle_id \in Reach(depends, b) BY <1>3, <1>6
  <1> QED BY <1>5, <1>6, <1>7, <1>8, <1>9, <1>10 DEF FrameTracked

LEMMA UnloadDependentWalks ==
  ASSUME WalkInv, NEW d \in BundleId, UnloadDependent(d)
  PROVE  WalkInv'
  <1>0. TypeOK /\ StackTracked /\ UnloadTracked BY DEF WalkInv
  <1>1. /\ depends' = depends /\ reinit' = reinit /\ foreign' = foreign /\ loaded' = loaded
        /\ order' = order /\ failed' = failed /\ calls' = calls
        /\ call.kind = "unload" /\ stack # <<>> /\ d \in Top.todo
        /\ visited' = visited \cup {d} /\ visited' \in SUBSET BundleId
    BY <1>0 DEF UnloadDependent, Running, rigid, TypeOK
  <1>2. CASE d \notin visited /\ d \notin loaded
    <2>1. Return("not_found") BY <1>2 DEF UnloadDependent
    <2> QED BY <1>0, <1>1, <2>1, ReturnWalks DEF rigid, Results, TypeOK
  <1>3. CASE ~(d \notin visited /\ d \notin loaded)
    <2>1. /\ call' = call /\ outcome' = outcome
          /\ stack' = IF d \in visited THEN Visiting(d)
                      ELSE Append(Visiting(d), [bundle_id |-> d, todo |-> Dependents(d)])
      BY <1>3 DEF UnloadDependent
    <2>2. FoundDependents' = FoundDependents BY <1>1, <2>1 DEF FoundDependents
    <2>3. Reach(FoundDependents, call.target)' = Reach(FoundDependents, call.target) BY <2>1, <2>2
    <2>4. \A x : Dependents(x)' = Dependents(x) BY <1>1 DEF Dependents
    <2>5. PICK k \in Nat \ {0} : k = Len(stack) BY <1>0, <1>1, RunningFacts
    <2>6. k \in Frames /\ 1 \in Frames /\ Frames = 1 .. k /\ Top = stack[k] BY <2>5 DEF Frames, Top
    <2>7. ReloadTracked' BY <1>1, <2>1 DEF ReloadTracked
    <2>8. /\ call.target \in call.found /\ stack[1].bundle_id = call.target
          /\ loaded \subseteq call.found
          /\ Reach(FoundDependents, call.target) \cap foreign = {}
          /\ visited \cap loaded \subseteq OnStack
          /\ \A x \in call.found \ loaded : Dependents(x) \subseteq OnStack
          /\ \A n \in Frames : FrameTracked(n)
      BY <1>0, <1>1 DEF UnloadTracked
    <2>9. CASE d \in visited
      <3>1. stack' = Visiting(d) /\ visited' = visited BY <1>1, <2>1, <2>9
      <3>2. /\ stack' \in Seq(Frame) /\ Len(stack') = Len(stack) /\ stack' # <<>> /\ Frames' = Frames
            /\ \A n \in Frames : stack'[n].bundle_id = stack[n].bundle_id
            /\ \A n \in Frames : stack[n].todo \ {d} \subseteq stack'[n].todo
            /\ \A n \in Frames : stack'[n].todo \subseteq stack[n].todo
            /\ OnStack' = OnStack
        BY <1>1, <3>1, VisitingStack
      <3>3. TypeOK' BY <1>0, <1>1, <2>1, <3>1, <3>2 DEF TypeOK
      <3>4. StackTracked' BY <1>0, <1>1, <2>1, <3>1, <3>2 DEF StackTracked, Idle
      <3>5. ASSUME NEW n \in Frames PROVE FrameTracked(n)'
        BY <1>1, <2>1, <2>2, <3>2, VisitedFrames
      <3>6. UnloadTracked' BY <1>1, <2>1, <2>3, <2>4, <2>6, <2>8, <3>1, <3>2, <3>5 DEF UnloadTracked
      <3> QED BY <2>7, <3>3, <3>4, <3>6 DEF WalkInv
    <2>10. CASE d \notin visited
      <3>1. d \in loaded BY <1>3, <2>10
      <3>2. PICK T \in SUBSET BundleId : T = Dependents(d) BY <1>0, UnloadRelations
      <3>3. stack' = Append(Visiting(d), [bundle_id |-> d, todo |-> T]) BY <2>1, <2>10, <3>2
      <3>4. /\ stack' \in Seq(Frame) /\ Len(stack') = k + 1 /\ stack' # <<>>
            /\ Frames' = Frames \cup {k + 1} /\ k + 1 \notin Frames
            /\ stack'[k + 1].bundle_id = d /\ stack'[k + 1].todo = T
            /\ \A n \in Frames : stack'[n].bundle_id = stack[n].bundle_id
            /\ \A n \in Frames : stack[n].todo \ {d} \subseteq stack'[n].todo
            /\ \A n \in Frames : stack'[n].todo \subseteq stack[n].todo
            /\ OnStack' = OnStack \cup {d}
        BY <1>1, <2>5, <3>3, EnteringStack
      <3>5. StackTracked'
        <4>1. \A n \in Frames : stack[n].bundle_id \in visited BY <1>0 DEF StackTracked, OnStack
        <4>2. \A m, n \in Frames' : stack'[m].bundle_id = stack'[n].bundle_id => m = n
          BY <1>0, <2>10, <3>4, <4>1 DEF StackTracked
        <4>3. OnStack' \subseteq visited' BY <1>0, <1>1, <3>4 DEF StackTracked
        <4>4. ~Idle' BY <1>1, <2>1 DEF Idle
        <4> QED BY <1>0, <1>1, <3>4, <4>2, <4>3, <4>4 DEF StackTracked
      <3>6. TypeOK'
        <4>1. \A m, n \in 1 .. Len(stack') : stack'[m].bundle_id = stack'[n].bundle_id => m = n
          BY <3>5 DEF StackTracked, Frames
        <4>2. Len(stack') <= Bundles BY <3>4, <4>1, FramesBound
        <4> QED BY <1>0, <1>1, <2>1, <3>4, <4>2 DEF TypeOK
      <3>7. ASSUME NEW n \in Frames PROVE FrameTracked(n)'
        BY <1>1, <2>1, <2>2, <3>4, VisitedFrames
      <3>8. FrameTracked(k + 1)'
        <4>1. PICK b \in BundleId : b = Top.bundle_id BY <1>0, <1>1, RunningFacts
        <4>2. FrameTracked(k) BY <2>6, <2>8
        <4>3. /\ d \in Reach(FoundDependents, call.target) /\ b \in depends[d]
              /\ \A m \in 1 .. k : stack[m].bundle_id \in Reach(depends, b)
          BY <1>1, <2>6, <4>1, <4>2 DEF FrameTracked
        <4>4. depends \in Relation /\ FoundDependents \in Relation /\ call.target \in BundleId
              /\ Dependents(d) \subseteq FoundDependents[d]
          BY <1>0, <2>8, UnloadRelations
        <4>5. T \subseteq Reach(FoundDependents, call.target) BY <3>2, <4>3, <4>4, ReachCloses
        <4>6. Reach(depends, b) \subseteq Reach(depends, d) /\ d \in Reach(depends, d)
          BY <4>3, <4>4, ReachStep, ReachCloses
        <4>7. \A m \in 1 .. k + 1 : stack'[m].bundle_id \in Reach(depends, d)
          <5>1. \A m \in 1 .. k + 1 : m = k + 1 \/ m \in Frames BY <2>6
          <5> QED BY <5>1, <2>6, <3>4, <4>3, <4>6
        <4>8. \A c \in T : d \in depends[c] BY <3>2 DEF Dependents
        <4> QED BY <1>1, <2>3, <2>4, <3>2, <3>4, <4>3, <4>5, <4>7, <4>8 DEF FrameTracked
      <3>9. UnloadTracked'
        <4>1. stack'[1].bundle_id = call'.target BY <2>1, <2>6, <2>8, <3>4
        <4>2. visited' \cap loaded' \subseteq OnStack' BY <1>1, <2>8, <3>4
        <4>3. \A n \in Frames' : FrameTracked(n)' BY <3>4, <3>7, <3>8
        <4>4. \A x \in call'.found \ loaded' : Dependents(x)' \subseteq OnStack'
          BY <1>1, <2>1, <2>4, <2>8, <3>4
        <4> QED BY <1>1, <2>1, <2>3, <2>8, <4>1, <4>2, <4>3, <4>4 DEF UnloadTracked
      <3> QED BY <2>7, <3>5, <3>6, <3>9 DEF WalkInv
    <2> QED BY <2>9, <2>10
  <1> QED BY <1>2, <1>3

\* The loaded dependents of a bundle about to be unloaded have outer frames.
LEMMA TopDependents ==
  ASSUME WalkInv, call.kind = "unload", stack # <<>>, Top.todo = {}
  PROVE  /\ Top.bundle_id \in BundleId /\ FrameTracked(Len(stack))
         /\ Dependents(Top.bundle_id) \subseteq OnStack
  <1>1. TypeOK /\ UnloadTracked BY DEF WalkInv
  <1>2. Len(stack) \in Frames /\ Top.bundle_id \in BundleId BY <1>1, RunningFacts DEF Frames
  <1>3. FrameTracked(Len(stack)) /\ visited \cap loaded \subseteq OnStack BY <1>1, <1>2 DEF UnloadTracked
  <1>4. Dependents(Top.bundle_id) \subseteq visited BY <1>3 DEF FrameTracked, Top
  <1>5. Dependents(Top.bundle_id) \subseteq loaded BY DEF Dependents
  <1> QED BY <1>2, <1>3, <1>4, <1>5

LEMMA UnloadRegisteredBundleWalks ==
  ASSUME WalkInv, UnloadRegisteredBundle
  PROVE  WalkInv'
  <1>0. TypeOK /\ StackTracked /\ UnloadTracked BY DEF WalkInv
  <1>1. /\ depends' = depends /\ reinit' = reinit /\ foreign' = foreign
        /\ visited' = visited /\ order' = order /\ failed' = failed /\ calls' = calls
        /\ call.kind = "unload" /\ stack # <<>> /\ Top.todo = {}
        /\ loaded' = loaded \ {Top.bundle_id} /\ loaded' \in SUBSET BundleId
    BY <1>0 DEF UnloadRegisteredBundle, Running, rigid, TypeOK
  <1>2. CASE Len(stack) > 1
    <2>1. stack' = Unwound /\ call' = call /\ outcome' = outcome BY <1>2 DEF UnloadRegisteredBundle
    <2>2. /\ stack' \in Seq(Frame) /\ Len(stack') = Len(stack) - 1 /\ stack' # <<>>
          /\ Frames = Frames' \cup {Len(stack)} /\ 1 \in Frames'
          /\ \A n \in Frames' : stack'[n] = stack[n]
          /\ OnStack = OnStack' \cup {Top.bundle_id}
      BY <1>1, <1>2, <2>1, LeavingStack
    <2>3. TypeOK'
      <3>1. Len(stack) \in Nat /\ Bundles \in Nat /\ Len(stack) <= Bundles
        BY <1>0, <1>1, RunningFacts, CascadeAssumption DEF TypeOK
      <3>2. Len(stack') <= Bundles BY <2>2, <3>1
      <3> QED BY <1>0, <1>1, <2>1, <2>2, <3>2 DEF TypeOK
    <2>4. StackTracked' BY <1>0, <1>1, <2>1, <2>2 DEF StackTracked, Idle
    <2>5. ReloadTracked' BY <1>1, <2>1 DEF ReloadTracked
    <2>6. Reach(FoundDependents, call.target)' = Reach(FoundDependents, call.target)
      <3>1. FoundDependents' = FoundDependents BY <1>1, <2>1 DEF FoundDependents
      <3> QED BY <2>1, <3>1
    <2>7. \A x : Dependents(x)' \subseteq Dependents(x) \ {Top.bundle_id} BY <1>1 DEF Dependents
    <2>8. /\ call.target \in call.found /\ stack[1].bundle_id = call.target
          /\ loaded \subseteq call.found
          /\ Reach(FoundDependents, call.target) \cap foreign = {}
          /\ visited \cap loaded \subseteq OnStack
          /\ \A x \in call.found \ loaded : Dependents(x) \subseteq OnStack
          /\ \A n \in Frames : FrameTracked(n)
      BY <1>0, <1>1 DEF UnloadTracked
    <2>9. ASSUME NEW n \in Frames' PROVE FrameTracked(n)'
      <3>1. FrameTracked(n) /\ stack'[n] = stack[n] BY <2>2, <2>8
      <3>2. 1 .. n \subseteq Frames'
        <4>1. Len(stack') \in Nat BY <2>2
        <4> QED BY <4>1 DEF Frames
      <3>3. \A m \in 1 .. n : stack'[m] = stack[m] BY <2>2, <3>2
      <3>4. PICK b : b = stack[n].bundle_id OBVIOUS
      <3>5. Dependents(b)' \subseteq Dependents(b) BY <2>7
      <3> QED BY <1>1, <2>6, <3>1, <3>3, <3>4, <3>5 DEF FrameTracked
    <2>10. \A x \in call.found \ loaded' : Dependents(x)' \subseteq OnStack'
      <3>1. Dependents(Top.bundle_id) \subseteq OnStack BY <1>1, TopDependents
      <3>2. \A x \in call.found \ loaded' : Dependents(x) \subseteq OnStack BY <1>1, <2>8, <3>1
      <3> QED BY <2>2, <2>7, <3>2
    <2>11. UnloadTracked' BY <1>1, <2>1, <2>2, <2>6, <2>8, <2>9, <2>10 DEF UnloadTracked
    <2> QED BY <2>3, <2>4, <2>5, <2>11 DEF WalkInv
  <1>3. CASE ~(Len(stack) > 1)
    <2>1. Return("ok") BY <1>3 DEF UnloadRegisteredBundle
    <2> QED BY <1>0, <1>1, <2>1, ReturnWalks DEF rigid, Results, TypeOK
  <1> QED BY <1>2, <1>3

LEMMA UnloadReclaimFailsWalks ==
  ASSUME WalkInv, UnloadReclaimFails
  PROVE  WalkInv'
  <1>1. loaded' \in SUBSET BundleId /\ visited' \in SUBSET BundleId /\ Return("failed")
    BY DEF UnloadReclaimFails, WalkInv, TypeOK
  <1> QED BY <1>1, ReturnWalks DEF UnloadReclaimFails, Results

LEMMA UnloadRefusesWalks ==
  ASSUME WalkInv, UnloadRefuses
  PROVE  WalkInv'
  <1>1. loaded' \in SUBSET BundleId /\ visited' \in SUBSET BundleId
    BY DEF UnloadRefuses, WalkInv, TypeOK
  <1>2. PICK result \in Results : Return(result) BY DEF UnloadRefuses, Results
  <1> QED BY <1>1, <1>2, ReturnWalks DEF UnloadRefuses

LEMMA OtherUnloadWalks ==
  ASSUME WalkInv, NEW b \in BundleId, OtherUnload(b)
  PROVE  WalkInv'
  <1>0. TypeOK /\ StackTracked /\ UnloadTracked BY DEF WalkInv
  <1>1. /\ depends' = depends /\ reinit' = reinit /\ foreign' = foreign /\ call' = call
        /\ stack' = stack /\ visited' = visited /\ order' = order /\ failed' = failed
        /\ outcome' = outcome /\ calls' = calls
        /\ call.kind = "unload" /\ Dependents(b) = {} /\ loaded' = loaded \ {b}
    BY DEF OtherUnload, rigid
  <1>2. TypeOK' BY <1>0, <1>1 DEF TypeOK
  <1>3. Frames' = Frames /\ OnStack' = OnStack BY <1>1 DEF Frames, OnStack
  <1>4. StackTracked' BY <1>0, <1>1, <1>3 DEF StackTracked, Idle
  <1>5. ReloadTracked' BY <1>1 DEF ReloadTracked
  <1>6. Reach(FoundDependents, call.target)' = Reach(FoundDependents, call.target)
    <2>1. FoundDependents' = FoundDependents BY <1>1 DEF FoundDependents
    <2> QED BY <1>1, <2>1
  <1>7. \A x : Dependents(x)' \subseteq Dependents(x) BY <1>1 DEF Dependents
  <1>8. ASSUME NEW n \in Frames PROVE FrameTracked(n)'
    <2>1. FrameTracked(n) BY <1>0, <1>1 DEF UnloadTracked
    <2>2. PICK c : c = stack[n].bundle_id OBVIOUS
    <2>3. Dependents(c)' \subseteq Dependents(c) BY <1>7
    <2> QED BY <1>1, <1>6, <2>1, <2>2, <2>3 DEF FrameTracked
  <1>9. \A x \in call.found \ loaded' : Dependents(x)' \subseteq OnStack
    BY <1>0, <1>1, <1>7 DEF UnloadTracked
  <1>10. UnloadTracked' BY <1>0, <1>1, <1>3, <1>6, <1>8, <1>9 DEF UnloadTracked
  <1> QED BY <1>2, <1>4, <1>5, <1>10 DEF WalkInv

LEMMA UnchangedWalks ==
  ASSUME WalkInv, UNCHANGED vars
  PROVE  WalkInv'
  <1>1. /\ depends' = depends /\ reinit' = reinit /\ foreign' = foreign /\ loaded' = loaded
        /\ call' = call /\ stack' = stack /\ visited' = visited /\ order' = order
        /\ failed' = failed /\ outcome' = outcome /\ calls' = calls
    BY DEF vars
  <1>2. TypeOK' BY <1>1 DEF WalkInv, TypeOK
  <1>3. Frames' = Frames /\ OnStack' = OnStack /\ FoundDependents' = FoundDependents
    BY <1>1 DEF Frames, OnStack, FoundDependents
  <1>4. \A x : Dependents(x)' = Dependents(x) /\ Candidates(x)' = Candidates(x)
    BY <1>1 DEF Dependents, Candidates
  <1>5. StackTracked' BY <1>1, <1>3 DEF WalkInv, StackTracked, Idle
  <1>6. ReloadTracked' BY <1>1, <1>3, <1>4 DEF WalkInv, ReloadTracked
  <1>7. Reach(FoundDependents, call.target)' = Reach(FoundDependents, call.target) BY <1>1, <1>3
  <1>8. ASSUME call.kind = "unload", NEW n \in Frames PROVE FrameTracked(n)'
    <2>1. FrameTracked(n) BY <1>8 DEF WalkInv, UnloadTracked
    <2>2. PICK b : b = stack[n].bundle_id OBVIOUS
    <2>3. Dependents(b)' = Dependents(b) BY <1>4
    <2> QED BY <1>1, <1>7, <2>1, <2>2, <2>3 DEF FrameTracked
  <1>9. UnloadTracked' BY <1>1, <1>3, <1>4, <1>7, <1>8 DEF WalkInv, UnloadTracked
  <1> QED BY <1>2, <1>5, <1>6, <1>9 DEF WalkInv

\* Every step of a call, or of another thread, keeps the walks' invariant.
LEMMA NextWalks ==
  ASSUME WalkInv, Next
  PROVE  WalkInv'
  <1>1. ASSUME NEW b \in BundleId, ReloadBundle(b) PROVE WalkInv' BY <1>1, ReloadBundleWalks
  <1>2. ASSUME NEW b \in BundleId, ReloadBundleFails(b) PROVE WalkInv' BY <1>2, ReloadBundleFailsWalks
  <1>3. ASSUME NEW b \in BundleId, UnloadCascade(b) PROVE WalkInv' BY <1>3, UnloadCascadeWalks
  <1>4. ASSUME NEW b \in BundleId, UnloadCascadeRefused(b) PROVE WalkInv' BY <1>4, UnloadCascadeRefusedWalks
  <1>5. ASSUME NEW b \in BundleId, OtherUnload(b) PROVE WalkInv' BY <1>5, OtherUnloadWalks
  <1>6. ASSUME NEW d \in BundleId, CascadeReloads(d) PROVE WalkInv' BY <1>6, CascadeReloadsWalks
  <1>7. ASSUME NEW d \in BundleId, CascadeFails(d) PROVE WalkInv' BY <1>7, CascadeFailsWalks
  <1>8. ASSUME NEW d \in BundleId, CascadeSkips(d) PROVE WalkInv' BY <1>8, CascadeSkipsWalks
  <1>9. CASE ReloadReturns BY <1>9, ReloadReturnsWalks
  <1>10. ASSUME NEW d \in BundleId, UnloadDependent(d) PROVE WalkInv' BY <1>10, UnloadDependentWalks
  <1>11. CASE UnloadRegisteredBundle BY <1>11, UnloadRegisteredBundleWalks
  <1>12. CASE UnloadReclaimFails BY <1>12, UnloadReclaimFailsWalks
  <1>13. CASE UnloadRefuses BY <1>13, UnloadRefusesWalks
  <1> QED BY <1>1, <1>2, <1>3, <1>4, <1>5, <1>6, <1>7, <1>8, <1>9, <1>10, <1>11, <1>12, <1>13
          DEF Next, Step

-----------------------------------------------------------------------------
(***************************************************************************)
(* What a call has done when it returns.                                   *)
(***************************************************************************)

\* The steps after which no call runs.
LEMMA ReturningSteps ==
  ASSUME WalkInv, Next, Idle'
  PROVE  \/ \E b \in BundleId : ReloadBundleFails(b)
         \/ \E b \in BundleId : UnloadCascadeRefused(b)
         \/ ReloadReturns /\ Return("ok") /\ ~(Len(stack) > 1)
         \/ \E d \in BundleId : UnloadDependent(d) /\ Return("not_found")
         \/ UnloadRegisteredBundle /\ Return("ok") /\ ~(Len(stack) > 1)
         \/ UnloadReclaimFails
         \/ UnloadRefuses
  <1>0. call'.kind = "none" BY DEF Idle
  <1>1. ASSUME NEW b \in BundleId, ReloadBundle(b) PROVE FALSE BY <1>0, <1>1 DEF ReloadBundle, Begin
  <1>2. ASSUME NEW b \in BundleId, UnloadCascade(b) PROVE FALSE BY <1>0, <1>2 DEF UnloadCascade, Begin
  <1>3. ASSUME NEW b \in BundleId, OtherUnload(b) PROVE FALSE BY <1>0, <1>3 DEF OtherUnload
  <1>4. ASSUME NEW d \in BundleId, CascadeReloads(d) PROVE FALSE
    BY <1>0, <1>4 DEF CascadeReloads, Candidate, Running
  <1>5. ASSUME NEW d \in BundleId, CascadeFails(d) PROVE FALSE
    BY <1>0, <1>5 DEF CascadeFails, Candidate, Running
  <1>6. ASSUME NEW d \in BundleId, CascadeSkips(d) PROVE FALSE
    BY <1>0, <1>6 DEF CascadeSkips, Candidate, Running
  <1>7. ASSUME ReloadReturns PROVE Return("ok") /\ ~(Len(stack) > 1) BY <1>0, <1>7 DEF ReloadReturns, Running
  <1>8. ASSUME NEW d \in BundleId, UnloadDependent(d) PROVE Return("not_found")
    BY <1>0, <1>8 DEF UnloadDependent, Running
  <1>9. ASSUME UnloadRegisteredBundle PROVE Return("ok") /\ ~(Len(stack) > 1)
    BY <1>0, <1>9 DEF UnloadRegisteredBundle, Running
  <1> QED BY <1>1, <1>2, <1>3, <1>4, <1>5, <1>6, <1>7, <1>8, <1>9 DEF Next, Step

\* What Return says of the outcome.
LEMMA ReturnOutcome ==
  ASSUME NEW result, Return(result)
  PROVE  /\ outcome'.kind = call.kind /\ outcome'.target = call.target
         /\ outcome'.found = call.found /\ outcome'.result = result
  BY DEF Return

\* The outermost frame alone is left.
LEMMA LastFrame ==
  ASSUME WalkInv, stack # <<>>, ~(Len(stack) > 1)
  PROVE  Len(stack) = 1 /\ Frames = {1} /\ Top = stack[1] /\ OnStack = {Top.bundle_id}
  <1>1. PICK k \in Nat \ {0} : k = Len(stack) BY RunningFacts DEF WalkInv
  <1>0. k = 1 BY <1>1
  <1>2. Len(stack) = 1 BY <1>0, <1>1
  <1>3. Frames = {1} /\ Top = stack[1] BY <1>2 DEF Frames, Top
  <1> QED BY <1>2, <1>3 DEF OnStack

LEMMA StepReloadsDependents ==
  ASSUME WalkInv, Next
  PROVE  DependentsReloaded'
  <1> SUFFICES ASSUME Idle', outcome'.kind = "reload", outcome'.result = "ok"
               PROVE  \A b \in Range(order') : Candidates(b)' \subseteq Range(order') \cup failed'
    BY DEF DependentsReloaded
  <1>1. ASSUME NEW b \in BundleId, ReloadBundleFails(b) PROVE FALSE BY <1>1 DEF ReloadBundleFails
  <1>2. ASSUME NEW b \in BundleId, UnloadCascadeRefused(b) PROVE FALSE BY <1>2 DEF UnloadCascadeRefused
  <1>3. ASSUME NEW d \in BundleId, UnloadDependent(d), Return("not_found") PROVE FALSE
    BY <1>3, ReturnOutcome
  <1>4. ASSUME UnloadRegisteredBundle, Return("ok") PROVE FALSE
    BY <1>4, ReturnOutcome DEF UnloadRegisteredBundle, Running
  <1>5. ASSUME UnloadReclaimFails PROVE FALSE BY <1>5, ReturnOutcome DEF UnloadReclaimFails
  <1>6. ASSUME UnloadRefuses PROVE FALSE BY <1>6, ReturnOutcome DEF UnloadRefuses, Running
  <1>7. ReloadReturns /\ ~(Len(stack) > 1) BY <1>1, <1>2, <1>3, <1>4, <1>5, <1>6, ReturningSteps
  <1>8. /\ call.kind = "reload" /\ stack # <<>> /\ Top.todo = {}
        /\ order' = order /\ failed' = failed /\ loaded' = loaded /\ depends' = depends /\ reinit' = reinit
    BY <1>7 DEF ReloadReturns, Running, rigid
  <1>9. Frames = {1} /\ Top = stack[1] BY <1>7, <1>8, LastFrame
  <1>10. ~(\E n \in Frames : stack[n].todo # {}) BY <1>8, <1>9
  <1>11. \A b : Candidates(b)' = Candidates(b) BY <1>8 DEF Candidates, Dependents
  <1>12. \A b \in Range(order) : \A d \in Candidates(b) : d \in Range(order) \cup failed
    BY <1>8, <1>10 DEF WalkInv, ReloadTracked
  <1> QED BY <1>8, <1>11, <1>12

LEMMA StepCompletesCascade ==
  ASSUME WalkInv, Next
  PROVE  CascadeComplete'
  <1> SUFFICES ASSUME Idle', outcome'.kind = "unload", outcome'.result = "ok"
               PROVE  Reach([b \in BundleId |-> {d \in outcome'.found : b \in depends'[d]}],
                            outcome'.target) \cap loaded' = {}
    BY DEF CascadeComplete
  <1>1. ASSUME NEW b \in BundleId, ReloadBundleFails(b) PROVE FALSE BY <1>1 DEF ReloadBundleFails
  <1>2. ASSUME NEW b \in BundleId, UnloadCascadeRefused(b) PROVE FALSE BY <1>2 DEF UnloadCascadeRefused
  <1>3. ASSUME NEW d \in BundleId, UnloadDependent(d), Return("not_found") PROVE FALSE
    BY <1>3, ReturnOutcome
  <1>4. ASSUME ReloadReturns, Return("ok") PROVE FALSE
    BY <1>4, ReturnOutcome DEF ReloadReturns, Running
  <1>5. ASSUME UnloadReclaimFails PROVE FALSE BY <1>5, ReturnOutcome DEF UnloadReclaimFails
  <1>6. ASSUME UnloadRefuses PROVE FALSE BY <1>6, ReturnOutcome DEF UnloadRefuses
  <1>7. UnloadRegisteredBundle /\ Return("ok") /\ ~(Len(stack) > 1)
    BY <1>1, <1>2, <1>3, <1>4, <1>5, <1>6, ReturningSteps
  <1>8. /\ call.kind = "unload" /\ stack # <<>> /\ Top.todo = {}
        /\ loaded' = loaded \ {Top.bundle_id} /\ depends' = depends
    BY <1>7 DEF UnloadRegisteredBundle, Running, rigid
  <1>9. outcome'.target = call.target /\ outcome'.found = call.found BY <1>7, ReturnOutcome
  <1>10. Top = stack[1] /\ OnStack = {Top.bundle_id} BY <1>7, <1>8, LastFrame
  <1>11. /\ call.target \in call.found /\ Top.bundle_id = call.target /\ loaded \subseteq call.found
         /\ \A x \in call.found \ loaded : Dependents(x) \subseteq OnStack
    BY <1>8, <1>10 DEF WalkInv, UnloadTracked
  <1>12. Dependents(Top.bundle_id) \subseteq OnStack BY <1>8, TopDependents
  <1>13. call.found \in SUBSET BundleId /\ call.target \in BundleId BY DEF WalkInv, TypeOK, Call
  <1>14. PICK r : r = [b \in BundleId |-> {d \in call.found : b \in depends[d]}] OBVIOUS
  <1>15. r \in Relation BY <1>13, <1>14 DEF Relation
  <1>16. PICK S \in SUBSET BundleId : S = call.found \ loaded' BY <1>13
  <1>17. call.target \in S BY <1>8, <1>11, <1>16
  <1>18. ASSUME NEW x \in S, NEW d \in r[x] PROVE d \in S
    <2>1. d \in call.found /\ x \in depends[d] /\ x \in BundleId BY <1>14, <1>18
    <2>2. d # x BY <2>1 DEF WalkInv, StackTracked
    <2>3. Dependents(x) \subseteq OnStack BY <1>8, <1>11, <1>12, <1>16
    <2>4. d \in loaded => d \in Dependents(x) BY <2>1, <2>2 DEF Dependents
    <2>5. d \notin loaded' BY <1>8, <1>10, <2>3, <2>4
    <2> QED BY <2>1, <2>5, <1>16
  <1>19. Reach(r, call.target) \subseteq S BY <1>13, <1>15, <1>17, <1>18, ReachLeast
  <1> QED BY <1>8, <1>9, <1>14, <1>16, <1>19

LEMMA StepChecksAffinityFirst ==
  ASSUME WalkInv, Next
  PROVE  AffinityFirst'
  <1> SUFFICES ASSUME Idle', outcome'.result = "wrong_thread" PROVE outcome'.found \ loaded' = {}
    BY DEF AffinityFirst
  <1>1. ASSUME NEW b \in BundleId, ReloadBundleFails(b) PROVE FALSE BY <1>1 DEF ReloadBundleFails
  <1>2. ASSUME NEW b \in BundleId, UnloadCascadeRefused(b) PROVE outcome'.found \ loaded' = {}
    BY <1>2 DEF UnloadCascadeRefused
  <1>3. ASSUME NEW d \in BundleId, UnloadDependent(d), Return("not_found") PROVE FALSE
    BY <1>3, ReturnOutcome
  <1>4. ASSUME Return("ok") PROVE FALSE BY <1>4, ReturnOutcome
  <1>5. ASSUME UnloadReclaimFails PROVE FALSE BY <1>5, ReturnOutcome DEF UnloadReclaimFails
  <1>6. ASSUME UnloadRefuses PROVE FALSE
    <2>1. call.kind = "unload" /\ stack # <<>> /\ Top.todo = {} BY <1>6 DEF UnloadRefuses, Running
    <2>2. FrameTracked(Len(stack)) BY <2>1, TopDependents
    <2>3. Top.bundle_id \in Reach(FoundDependents, call.target) BY <2>2 DEF FrameTracked, Top
    <2>4. Top.bundle_id \notin foreign BY <2>1, <2>3 DEF WalkInv, UnloadTracked
    <2>5. Return("in_use") BY <1>6, <2>4 DEF UnloadRefuses
    <2> QED BY <2>5, ReturnOutcome
  <1> QED BY <1>1, <1>2, <1>3, <1>4, <1>5, <1>6, ReturningSteps

\* Without a cycle, nothing loaded depends on a bundle about to be unloaded.
LEMMA TopUnneeded ==
  ASSUME WalkInv, IsAcyclic(depends), call.kind = "unload", stack # <<>>, Top.todo = {}
  PROVE  Dependents(Top.bundle_id) = {}
  <1>1. SUFFICES ASSUME NEW d \in Dependents(Top.bundle_id) PROVE FALSE OBVIOUS
  <1>2. PICK t \in BundleId : t = Top.bundle_id BY TopDependents
  <1>3. d \in OnStack /\ FrameTracked(Len(stack)) BY TopDependents
  <1>4. PICK n \in Frames : d = stack[n].bundle_id BY <1>3 DEF OnStack
  <1>5. d \in BundleId /\ t \in depends[d] BY <1>2 DEF Dependents, WalkInv, TypeOK
  <1>6. d \in Reach(depends, t) BY <1>2, <1>3, <1>4 DEF FrameTracked, Top, Frames
  <1>7. d \notin Reach(depends, t) BY <1>5 DEF IsAcyclic
  <1> QED BY <1>6, <1>7

LEMMA StepKeepsDependencies ==
  ASSUME WalkInv, NoOrphan, Next
  PROVE  NoOrphan'
  <1>1. depends' = depends
    BY DEF Next, Step, ReloadBundle, ReloadBundleFails, UnloadCascade, UnloadCascadeRefused, OtherUnload,
           CascadeReloads, CascadeFails, CascadeSkips, ReloadReturns, UnloadDependent,
           UnloadRegisteredBundle, UnloadReclaimFails, UnloadRefuses, rigid
  <1>2. CASE loaded' = loaded
    <2>1. IsAcyclic(depends)' = IsAcyclic(depends) BY <1>1
    <2> QED BY <1>1, <1>2, <2>1 DEF NoOrphan
  <1>3. CASE IsAcyclic(depends)
    <2>1. \A b \in loaded : depends[b] \subseteq loaded BY <1>3 DEF NoOrphan
    <2>2. ASSUME NEW x, loaded' = loaded \ {x}, Dependents(x) = {} PROVE NoOrphan'
      <3>1. ASSUME NEW b \in loaded' PROVE depends'[b] \subseteq loaded'
        <4>1. x \notin depends[b] BY <2>2, <3>1 DEF Dependents
        <4> QED BY <1>1, <2>1, <2>2, <3>1, <4>1
      <3> QED BY <3>1 DEF NoOrphan
    <2>3. ASSUME NEW b \in BundleId, OtherUnload(b) PROVE NoOrphan'
      BY <2>2, <2>3 DEF OtherUnload
    <2>4. CASE UnloadRegisteredBundle \/ UnloadReclaimFails
      <3>1. call.kind = "unload" /\ stack # <<>> /\ Top.todo = {} /\ loaded' = loaded \ {Top.bundle_id}
        BY <2>4 DEF UnloadRegisteredBundle, UnloadReclaimFails, Running
      <3> QED BY <1>3, <2>2, <3>1, TopUnneeded
    <2>5. CASE ~(UnloadRegisteredBundle \/ UnloadReclaimFails) /\ ~\E b \in BundleId : OtherUnload(b)
      <3>1. loaded' = loaded
        BY <2>5 DEF Next, Step, ReloadBundle, ReloadBundleFails, UnloadCascade, UnloadCascadeRefused,
           CascadeReloads, CascadeFails, CascadeSkips, ReloadReturns, UnloadDependent, UnloadRefuses
      <3> QED BY <1>2, <3>1
    <2> QED BY <2>3, <2>4, <2>5
  <1>4. CASE ~IsAcyclic(depends)
    <2>1. IsAcyclic(depends)' = IsAcyclic(depends) BY <1>1
    <2> QED BY <1>4, <2>1 DEF NoOrphan
  <1> QED BY <1>3, <1>4

-----------------------------------------------------------------------------
(***************************************************************************)
(* build: the steps before the runtime is handed out.                      *)
(***************************************************************************)

\* What the graph and the checks say is about the manifests alone.
LEMMA ManifestsDecide ==
  ASSUME discovered' = discovered
  PROVE  /\ Found' = Found /\ UnsatisfiedCapability' = UnsatisfiedCapability
         /\ VersionMismatch' = VersionMismatch /\ Edges' = Edges
         /\ \A edges : Toposort(edges)' = Toposort(edges)
         /\ \A s : TopologicalOrder(s)' = TopologicalOrder(s)
  <1>1. Found' = Found BY DEF Found
  <1>2. \A id : Providers(id)' = Providers(id) BY <1>1 DEF Providers
  <1>3. Names' = Names BY <1>1 DEF Names
  <1>4. \A b : ManifestOf(b)' = ManifestOf(b) BY <1>1 DEF ManifestOf
  <1>5. \A c : ProviderByName(c)' = ProviderByName(c) BY <1>1 DEF ProviderByName
  <1>6. \A dep : NamedBundleProvides(dep)' = NamedBundleProvides(dep)
    BY <1>3, <1>4 DEF NamedBundleProvides
  <1>7. UnsatisfiedCapability' = UnsatisfiedCapability
    BY <1>1, <1>2, <1>6 DEF UnsatisfiedCapability
  <1>8. VersionMismatch' = VersionMismatch BY <1>1, <1>5 DEF VersionMismatch
  <1>9. Edges' = Edges BY <1>1, <1>2 DEF Edges
  <1>10. \A edges : Toposort(edges)' = Toposort(edges) BY <1>1 DEF Toposort
  <1>11. \A s : TopologicalOrder(s)' = TopologicalOrder(s) BY <1>1 DEF TopologicalOrder
  <1> QED BY <1>1, <1>7, <1>8, <1>9, <1>10, <1>11

\* A step between calls that may load, unload and learn of dependencies.
LEMMA BetweenCallsWalks ==
  ASSUME WalkInv, Idle, loaded' \in SUBSET BundleId, depends' \in Relation, reinit' \in SUBSET BundleId,
         \A b \in BundleId : b \notin depends'[b],
         UNCHANGED <<foreign, call, stack, visited, order, failed, outcome, calls>>
  PROVE  WalkInv'
  <1>1. TypeOK' BY DEF WalkInv, TypeOK, Relation
  <1>2. call'.kind = "none" BY DEF Idle
  <1>3. Frames' = Frames /\ OnStack' = OnStack BY DEF Frames, OnStack
  <1>4. StackTracked' BY <1>3 DEF WalkInv, StackTracked, Idle
  <1> QED BY <1>1, <1>2, <1>4 DEF WalkInv, ReloadTracked, UnloadTracked

\* What the manifests found are.
LEMMA FoundFacts ==
  ASSUME StartupTypeOK
  PROVE  /\ Len(discovered) \in Nat /\ Found = 1 .. Len(discovered)
         /\ \A i \in Found : discovered[i] \in Manifests
         /\ \A i \in Found : discovered[i].name \in BundleId
         /\ \A i \in Found : discovered[i].version \in Version
         /\ \A i \in Found : \A spec \in discovered[i].provides : spec.version \in Version
         /\ \A i \in Found : \A dep \in discovered[i].dependencies : dep.min_version \in Version
  <1>1. discovered \in Seq(Manifests) BY DEF StartupTypeOK
  <1>2. Len(discovered) \in Nat /\ Found = 1 .. Len(discovered) BY <1>1, LenProperties DEF Found
  <1>3. \A i \in Found : discovered[i] \in Manifests BY <1>1, <1>2, ElementOfSeq
  <1> QED BY <1>2, <1>3, StartupAssumption

\* The order of the loads is one of names.
LEMMA OrderFacts ==
  ASSUME StartupTypeOK, NEW s \in Toposort(Edges)
  PROVE  /\ s \in Bijection(Found, Found)
         /\ TopologicalOrder(s) \in Seq(BundleId) /\ Len(TopologicalOrder(s)) = Len(discovered)
         /\ \A n \in Found : Len(discovered) + 1 - n \in Found
         /\ \A n \in Found : TopologicalOrder(s)[n] = discovered[s[Len(discovered) + 1 - n]].name
  <1>1. PICK N \in Nat : N = Len(discovered) BY FoundFacts
  <1>2. Found = 1 .. N BY <1>1, FoundFacts
  <1>3. s \in Bijection(Found, Found) BY DEF Toposort
  <1>4. s \in [Found -> Found] BY <1>3 DEF Bijection, Injection
  <1>5. \A n \in Found : N + 1 - n \in Found BY <1>2
  <1>6. \A n \in Found : s[N + 1 - n] \in Found BY <1>4, <1>5
  <1>7. \A n \in Found : discovered[s[N + 1 - n]].name \in BundleId BY <1>6, FoundFacts
  <1>8. TopologicalOrder(s) = [n \in 1 .. N |-> discovered[s[N + 1 - n]].name]
    BY <1>1, <1>2 DEF TopologicalOrder
  <1>9. TopologicalOrder(s) \in [1 .. N -> BundleId] BY <1>2, <1>7, <1>8
  <1>10. TopologicalOrder(s) \in Seq(BundleId) BY <1>9, SeqDef
  <1>11. Len(TopologicalOrder(s)) = N
    <2>1. /\ Len(TopologicalOrder(s)) \in Nat
          /\ DOMAIN TopologicalOrder(s) = 1 .. Len(TopologicalOrder(s)) BY <1>10, LenProperties
    <2>2. DOMAIN TopologicalOrder(s) = 1 .. N BY <1>9
    <2>3. PICK k \in Nat : k = Len(TopologicalOrder(s)) BY <2>1
    <2>4. 1 .. k = 1 .. N BY <2>1, <2>2, <2>3
    <2>5. ~(k < N)
      <3>1. k + 1 \notin 1 .. k OBVIOUS
      <3>2. k < N => k + 1 \in 1 .. N OBVIOUS
      <3> QED BY <2>4, <3>1, <3>2
    <2>6. ~(N < k)
      <3>1. N + 1 \notin 1 .. N OBVIOUS
      <3>2. N < k => N + 1 \in 1 .. k OBVIOUS
      <3> QED BY <2>4, <3>1, <3>2
    <2>7. k = N BY <2>5, <2>6
    <2> QED BY <2>3, <2>7
  <1> QED BY <1>1, <1>2, <1>3, <1>5, <1>8, <1>10, <1>11

LEMMA StartupInitInv ==
  ASSUME StartupInit
  PROVE  StartupInv
  <1>1. 1 \in BundleId /\ Bundles \in Nat \ {0} /\ MaxCalls \in Nat BY CascadeAssumption DEF BundleId
  <1>2. /\ stack = <<>> /\ visited = {} /\ order = <<>> /\ failed = {} /\ calls = 0
        /\ call = [kind |-> "none", target |-> 1, found |-> {}]
        /\ outcome = [kind |-> "none", target |-> 1, found |-> {}, result |-> "none"]
    BY DEF StartupInit, Init, Unused
  <1>3. /\ depends \in [BundleId -> SUBSET BundleId] /\ \A b \in BundleId : b \notin depends[b]
        /\ reinit \subseteq BundleId /\ foreign \subseteq BundleId /\ loaded \subseteq BundleId
    BY DEF StartupInit, Init, Unused
  <1>4. call \in Call /\ outcome \in Outcome /\ call.kind = "none" BY <1>1, <1>2 DEF Call, Outcome
  <1>5. stack \in Seq(Frame) /\ order \in Seq(BundleId) /\ Len(stack) = 0 /\ Len(order) = 0 BY <1>2
  <1>6. TypeOK BY <1>1, <1>2, <1>3, <1>4, <1>5 DEF TypeOK
  <1>7. Frames = {} /\ OnStack = {} BY <1>5 DEF Frames, OnStack
  <1>8. StackTracked BY <1>2, <1>3, <1>4, <1>5, <1>7 DEF StackTracked, Idle
  <1>9. WalkInv BY <1>4, <1>6, <1>8 DEF WalkInv, ReloadTracked, UnloadTracked
  <1>10. StartupTypeOK
    <2>1. /\ discovered = <<>> /\ load_order = <<>> /\ entry = 1 /\ compatibility = "Relaxed"
          /\ phase \in {"scanning", "built"}
      BY DEF StartupInit
    <2>2. discovered \in Seq(Manifests) /\ load_order \in Seq(BundleId) /\ Len(discovered) = 0 /\ Len(load_order) = 0
      BY <2>1
    <2>3. entry \in 1 .. 1 + Bundles BY <1>1, <2>1
    <2>4. Len(discovered) < entry BY <2>1, <2>2
    <2> QED BY <2>1, <2>2, <2>3, <2>4 DEF StartupTypeOK
  <1>11. BuildAlone BY DEF StartupInit, BuildAlone
  <1>12. LoadsInOrder BY DEF StartupInit, LoadsInOrder
  <1> QED BY <1>9, <1>10, <1>11, <1>12 DEF StartupInv

LEMMA ScanFindsInv ==
  ASSUME StartupInv, ScanFinds
  PROVE  StartupInv'
  <1>1. /\ phase = "scanning" /\ phase' = phase /\ entry' = entry + 1 /\ compatibility' = compatibility
        /\ load_order' = load_order /\ UNCHANGED vars
    BY DEF ScanFinds
  <1>2. PICK dir \in Directories : /\ entry \in DOMAIN dir
                                   /\ \E m \in dir[entry] : discovered' = Append(discovered, m)
    BY DEF ScanFinds
  <1>3. PICK m \in dir[entry] : discovered' = Append(discovered, m) BY <1>2
  <1>4. m \in Manifests
    <2>1. dir[entry] \in Range(dir) BY <1>2 DEF Range
    <2> QED BY <1>3, <2>1 DEF Manifests
  <1>5. entry \in BundleId BY <1>2, StartupAssumption
  <1>6. discovered \in Seq(Manifests) /\ load_order \in Seq(BundleId) BY DEF StartupInv, StartupTypeOK
  <1>7. discovered' \in Seq(Manifests) /\ Len(discovered') = Len(discovered) + 1 /\ Len(discovered) \in Nat
    BY <1>3, <1>4, <1>6, PushFacts
  <1>8. Len(load_order) \in Nat /\ Len(load_order) <= Len(discovered) /\ Len(discovered) < entry
    BY <1>6, LenProperties DEF StartupInv, StartupTypeOK
  <1>9. PICK k \in Nat : k = Len(discovered) BY <1>7
  <1>10. PICK j \in Nat : j = Len(load_order) BY <1>8
  <1>11. entry' \in 1 .. 1 + Bundles BY <1>1, <1>5, CascadeAssumption DEF BundleId
  <1>12. Len(discovered') < entry'
    <2>1. k < entry /\ Len(discovered') = k + 1 /\ entry \in Int BY <1>5, <1>7, <1>8, <1>9 DEF BundleId
    <2> QED BY <1>1, <2>1
  <1>13. Len(load_order') <= Len(discovered')
    <2>1. j <= k /\ Len(discovered') = k + 1 /\ Len(load_order') = j BY <1>1, <1>7, <1>8, <1>9, <1>10
    <2> QED BY <2>1
  <1>14. StartupTypeOK' BY <1>1, <1>6, <1>7, <1>11, <1>12, <1>13 DEF StartupInv, StartupTypeOK
  <1>15. WalkInv' BY <1>1, UnchangedWalks DEF StartupInv
  <1>16. BuildAlone' BY <1>1 DEF StartupInv, BuildAlone, Unused, vars
  <1>17. LoadsInOrder' BY <1>1 DEF LoadsInOrder
  <1> QED BY <1>14, <1>15, <1>16, <1>17 DEF StartupInv

LEMMA ScanSkipsInv ==
  ASSUME StartupInv, ScanSkips
  PROVE  StartupInv'
  <1>1. /\ phase = "scanning" /\ phase' = phase /\ entry' = entry + 1 /\ compatibility' = compatibility
        /\ load_order' = load_order /\ UNCHANGED vars /\ discovered' = discovered /\ entry <= Bundles
    BY DEF ScanSkips
  <1>2. entry \in 1 .. 1 + Bundles /\ Bundles \in Nat BY CascadeAssumption DEF StartupInv, StartupTypeOK
  <1>3. entry' \in 1 .. 1 + Bundles BY <1>1, <1>2
  <1>4. Len(discovered') < entry'
    <2>1. PICK k \in Nat : k = Len(discovered) BY FoundFacts DEF StartupInv
    <2>2. k < entry BY <2>1 DEF StartupInv, StartupTypeOK
    <2>3. k < entry + 1 BY <1>2, <2>2
    <2> QED BY <1>1, <2>1, <2>3
  <1>5. StartupTypeOK' BY <1>1, <1>3, <1>4 DEF StartupInv, StartupTypeOK
  <1>6. WalkInv' BY <1>1, UnchangedWalks DEF StartupInv
  <1>7. BuildAlone' BY <1>1 DEF StartupInv, BuildAlone, Unused, vars
  <1>8. LoadsInOrder' BY <1>1 DEF LoadsInOrder
  <1> QED BY <1>5, <1>6, <1>7, <1>8 DEF StartupInv

LEMMA FailInv ==
  ASSUME StartupInv, phase # "built", Fail
  PROVE  StartupInv'
  <1>1. /\ phase' = "failed" /\ entry' = 1 /\ discovered' = <<>> /\ load_order' = <<>> /\ loaded' = {}
        /\ compatibility' = compatibility /\ depends' = depends /\ reinit' = reinit /\ foreign' = foreign
        /\ UNCHANGED <<call, stack, visited, order, failed, outcome, calls>>
    BY DEF Fail, rigid
  <1>2. Unused BY DEF StartupInv, BuildAlone
  <1>3. Idle BY <1>2 DEF Unused, Idle
  <1>4. WalkInv'
    <2>1. /\ depends \in Relation /\ reinit \in SUBSET BundleId /\ \A b \in BundleId : b \notin depends[b]
      BY DEF StartupInv, WalkInv, TypeOK, StackTracked, Relation
    <2> QED BY <1>1, <1>3, <2>1, BetweenCallsWalks DEF StartupInv
  <1>5. StartupTypeOK'
    <2>1. /\ discovered' \in Seq(Manifests) /\ load_order' \in Seq(BundleId)
          /\ Len(discovered') = 0 /\ Len(load_order') = 0
      BY <1>1
    <2>2. entry' \in 1 .. 1 + Bundles BY <1>1, CascadeAssumption
    <2>3. Len(discovered') < entry' BY <1>1, <2>1
    <2> QED BY <1>1, <2>1, <2>2, <2>3 DEF StartupInv, StartupTypeOK
  <1>6. BuildAlone' BY <1>1, <1>2 DEF BuildAlone, Unused
  <1>7. LoadsInOrder' BY <1>1 DEF LoadsInOrder
  <1> QED BY <1>4, <1>5, <1>6, <1>7 DEF StartupInv

LEMMA BuildOrdersInv ==
  ASSUME StartupInv, NEW mode \in {"Strict", "Relaxed"}, BuildOrders(mode)
  PROVE  StartupInv'
  <1>1. /\ phase = "scanning" /\ phase' = "loading" /\ compatibility' = mode /\ entry' = entry
        /\ discovered' = discovered /\ UNCHANGED vars /\ ~Refused(mode)
    BY DEF BuildOrders, Scanned
  <1>2. PICK s \in Toposort(Edges) : load_order' = TopologicalOrder(s) BY DEF BuildOrders
  <1>3. StartupTypeOK BY DEF StartupInv
  <1>4. load_order' \in Seq(BundleId) /\ Len(load_order') = Len(discovered) BY <1>2, <1>3, OrderFacts
  <1>5. PICK N \in Nat : N = Len(discovered) BY <1>3, FoundFacts
  <1>6. StartupTypeOK'
    <2>1. Len(load_order') <= Len(discovered') BY <1>1, <1>4, <1>5
    <2> QED BY <1>1, <1>3, <1>4, <2>1 DEF StartupTypeOK
  <1>7. WalkInv' BY <1>1, UnchangedWalks DEF StartupInv
  <1>8. loaded = {} /\ loaded' = {} BY <1>1 DEF StartupInv, BuildAlone, vars
  <1>9. BuildAlone' BY <1>1 DEF StartupInv, BuildAlone, Unused, vars
  <1>10. LoadsInOrder'
    <2>1. ~UnsatisfiedCapability /\ (mode = "Strict" => ~VersionMismatch) BY <1>1 DEF Refused
    <2>2. /\ UnsatisfiedCapability' = UnsatisfiedCapability /\ VersionMismatch' = VersionMismatch
          /\ Edges' = Edges /\ \A edges : Toposort(edges)' = Toposort(edges)
          /\ \A t : TopologicalOrder(t)' = TopologicalOrder(t)
      BY <1>1, ManifestsDecide
    <2>3. Len(discovered') - Len(load_order') = 0 BY <1>1, <1>4, <1>5
    <2>4. \A n \in 1 .. Len(load_order') : load_order'[n] = TopologicalOrder(s)[0 + n]
      BY <1>2, <1>4, <1>5
    <2>5. loaded' = {TopologicalOrder(s)[n] : n \in 1 .. 0} BY <1>8
    <2>6. s \in Toposort(Edges)' BY <2>2
    <2>7. TopologicalOrder(s)' = TopologicalOrder(s) BY <2>2
    <2> QED BY <1>1, <2>1, <2>2, <2>3, <2>4, <2>5, <2>6, <2>7 DEF LoadsInOrder
  <1> QED BY <1>6, <1>7, <1>9, <1>10 DEF StartupInv

LEMMA BuildLoadsInv ==
  ASSUME StartupInv, BuildLoads
  PROVE  StartupInv'
  <1>1. /\ phase = "loading" /\ phase' = phase /\ compatibility' = compatibility /\ entry' = entry
        /\ discovered' = discovered /\ depends' = depends /\ reinit' = reinit /\ foreign' = foreign
        /\ UNCHANGED <<call, stack, visited, order, failed, outcome, calls>>
        /\ load_order # <<>> /\ loaded' = loaded \cup {Head(load_order)} /\ load_order' = Tail(load_order)
    BY DEF BuildLoads, rigid
  <1>2. StartupTypeOK BY DEF StartupInv
  <1>3. load_order \in Seq(BundleId) BY <1>2 DEF StartupTypeOK
  <1>4. PICK j \in Nat \ {0} : j = Len(load_order) BY <1>1, <1>3, EmptySeq, LenProperties
  <1>5. /\ load_order' \in Seq(BundleId) /\ Len(load_order') = j - 1
        /\ \A n \in 1 .. j - 1 : load_order'[n] = load_order[n + 1]
        /\ Head(load_order) = load_order[1] /\ Head(load_order) \in BundleId
    BY <1>1, <1>3, <1>4, HeadTailProperties
  <1>6. PICK N \in Nat : N = Len(discovered) BY <1>2, FoundFacts
  <1>7. j <= N BY <1>2, <1>4, <1>6 DEF StartupTypeOK
  <1>8. StartupTypeOK'
    <2>1. Len(load_order') <= Len(discovered') BY <1>1, <1>5, <1>6, <1>7
    <2> QED BY <1>1, <1>2, <1>5, <2>1 DEF StartupTypeOK
  <1>9. Unused BY <1>1 DEF StartupInv, BuildAlone
  <1>10. WalkInv'
    <2>1. Idle BY <1>9 DEF Unused, Idle
    <2>2. /\ depends \in Relation /\ reinit \in SUBSET BundleId /\ \A b \in BundleId : b \notin depends[b]
          /\ loaded \in SUBSET BundleId
      BY DEF StartupInv, WalkInv, TypeOK, StackTracked, Relation
    <2>3. loaded' \in SUBSET BundleId BY <1>1, <1>5, <2>2
    <2> QED BY <1>1, <2>1, <2>2, <2>3, BetweenCallsWalks DEF StartupInv
  <1>11. BuildAlone' BY <1>1, <1>9 DEF BuildAlone, Unused
  <1>12. LoadsInOrder'
    <2>1. /\ ~UnsatisfiedCapability /\ (compatibility = "Strict" => ~VersionMismatch)
      BY <1>1 DEF StartupInv, LoadsInOrder
    <2>2. PICK s \in Toposort(Edges) :
             /\ \A n \in 1 .. Len(load_order) :
                  load_order[n] = TopologicalOrder(s)[Len(discovered) - Len(load_order) + n]
             /\ loaded = {TopologicalOrder(s)[n] : n \in 1 .. Len(discovered) - Len(load_order)}
      BY <1>1 DEF StartupInv, LoadsInOrder
    <2>3. PICK f : f = TopologicalOrder(s) OBVIOUS
    <2>4. /\ \A n \in 1 .. j : load_order[n] = f[N - j + n]
          /\ loaded = {f[n] : n \in 1 .. N - j}
      BY <1>4, <1>6, <2>2, <2>3
    <2>5. \A n \in 1 .. j - 1 : load_order'[n] = f[N - (j - 1) + n]
      <3> SUFFICES ASSUME NEW n \in 1 .. j - 1 PROVE load_order'[n] = f[N - (j - 1) + n] OBVIOUS
      <3>1. n + 1 \in 1 .. j /\ N - j + (n + 1) = N - (j - 1) + n OBVIOUS
      <3> QED BY <1>5, <2>4, <3>1
    <2>6. Head(load_order) = f[N - j + 1]
      <3>1. 1 \in 1 .. j OBVIOUS
      <3> QED BY <1>5, <2>4, <3>1
    <2>7. loaded' = {f[n] : n \in 1 .. N - (j - 1)}
      <3>1. 1 .. N - (j - 1) = (1 .. N - j) \cup {N - j + 1} BY <1>7
      <3>2. PICK A, c : A = 1 .. N - j /\ c = N - j + 1 OBVIOUS
      <3>3. loaded' = {f[n] : n \in A} \cup {f[c]} BY <1>1, <2>4, <2>6, <3>2
      <3>4. {f[n] : n \in A} \cup {f[c]} = {f[n] : n \in A \cup {c}} OBVIOUS
      <3>5. 1 .. N - (j - 1) = A \cup {c} BY <3>1, <3>2
      <3> QED BY <3>3, <3>4, <3>5
    <2>8. /\ UnsatisfiedCapability' = UnsatisfiedCapability /\ VersionMismatch' = VersionMismatch
          /\ Edges' = Edges /\ \A edges : Toposort(edges)' = Toposort(edges)
          /\ \A t : TopologicalOrder(t)' = TopologicalOrder(t)
      BY <1>1, ManifestsDecide
    <2>9. s \in Toposort(Edges)' BY <2>8
    <2>10. TopologicalOrder(s)' = f BY <2>3, <2>8
    <2>11. Len(discovered') = N /\ Len(load_order') = j - 1 BY <1>1, <1>5, <1>6
    <2>12. \A n \in 1 .. Len(load_order') :
             load_order'[n] = TopologicalOrder(s)'[Len(discovered') - Len(load_order') + n]
      BY <2>5, <2>10, <2>11
    <2>13. loaded' = {TopologicalOrder(s)'[n] : n \in 1 .. Len(discovered') - Len(load_order')}
      BY <2>7, <2>10, <2>11
    <2>14. ~UnsatisfiedCapability' /\ (compatibility' = "Strict" => ~VersionMismatch') BY <1>1, <2>1, <2>8
    <2> QED BY <2>9, <2>12, <2>13, <2>14 DEF LoadsInOrder
  <1> QED BY <1>8, <1>10, <1>11, <1>12 DEF StartupInv

LEMMA BuildReturnsInv ==
  ASSUME StartupInv, BuildReturns
  PROVE  StartupInv' /\ (\A b \in loaded' : depends'[b] \subseteq loaded')
  <1>1. /\ phase = "loading" /\ phase' = "built" /\ load_order = <<>> /\ load_order' = <<>> /\ entry' = 1
        /\ discovered' = <<>> /\ compatibility' = "Relaxed" /\ loaded' = loaded
        /\ UNCHANGED <<foreign, call, stack, visited, order, failed, outcome, calls>>
        /\ reinit' \in SUBSET loaded
    BY DEF BuildReturns
  <1>2. depends' = [b \in BundleId |->
          {p \in loaded \ {b} : b \in loaded /\ \E dep \in ManifestOf(b).dependencies :
             RequiredId(dep) \in ProvidedIds(ManifestOf(p))}]
    BY DEF BuildReturns
  <1>3. loaded \in SUBSET BundleId BY DEF StartupInv, WalkInv, TypeOK
  <1>4. /\ depends' \in Relation
        /\ \A b \in BundleId : b \notin depends'[b] /\ depends'[b] \subseteq loaded
    BY <1>2, <1>3 DEF Relation
  <1>5. Idle BY <1>1 DEF StartupInv, BuildAlone, Unused, Idle
  <1>6. WalkInv' BY <1>1, <1>3, <1>4, <1>5, BetweenCallsWalks DEF StartupInv
  <1>7. StartupTypeOK'
    <2>1. /\ discovered' \in Seq(Manifests) /\ load_order' \in Seq(BundleId)
          /\ Len(discovered') = 0 /\ Len(load_order') = 0
      BY <1>1
    <2>2. entry' \in 1 .. 1 + Bundles BY <1>1, CascadeAssumption
    <2>3. Len(discovered') < entry' BY <1>1, <2>1
    <2> QED BY <1>1, <2>1, <2>2, <2>3 DEF StartupTypeOK
  <1>8. BuildAlone' /\ LoadsInOrder' BY <1>1 DEF BuildAlone, LoadsInOrder
  <1>9. \A b \in loaded' : depends'[b] \subseteq loaded' BY <1>1, <1>3, <1>4
  <1> QED BY <1>6, <1>7, <1>8, <1>9 DEF StartupInv

\* A step of the runtime that build has returned.
LEMMA BuiltNextInv ==
  ASSUME StartupInv, phase = "built", Next, UNCHANGED startup
  PROVE  StartupInv'
  <1>1. WalkInv' BY NextWalks DEF StartupInv
  <1> QED BY <1>1 DEF StartupInv, StartupTypeOK, BuildAlone, LoadsInOrder, startup

LEMMA UnchangedInv ==
  ASSUME StartupInv, UNCHANGED startupVars
  PROVE  StartupInv'
  <1>1. UNCHANGED vars /\ UNCHANGED startup BY DEF startupVars
  <1>2. WalkInv' BY <1>1, UnchangedWalks DEF StartupInv
  <1>3. StartupTypeOK' BY <1>1 DEF StartupInv, StartupTypeOK, startup
  <1>4. BuildAlone' BY <1>1 DEF StartupInv, BuildAlone, Unused, vars, startup
  <1>5. /\ phase' = phase /\ discovered' = discovered /\ load_order' = load_order
        /\ compatibility' = compatibility /\ loaded' = loaded
    BY <1>1 DEF vars, startup
  <1>6. /\ UnsatisfiedCapability' = UnsatisfiedCapability /\ VersionMismatch' = VersionMismatch
        /\ Edges' = Edges /\ \A edges : Toposort(edges)' = Toposort(edges)
        /\ \A t : TopologicalOrder(t)' = TopologicalOrder(t)
    BY <1>5, ManifestsDecide
  <1>7. LoadsInOrder'
    <2> SUFFICES ASSUME phase = "loading" PROVE LoadsInOrder' BY <1>5 DEF LoadsInOrder
    <2>1. ~UnsatisfiedCapability /\ (compatibility = "Strict" => ~VersionMismatch)
      BY DEF StartupInv, LoadsInOrder
    <2>2. PICK s \in Toposort(Edges) :
             /\ \A n \in 1 .. Len(load_order) :
                  load_order[n] = TopologicalOrder(s)[Len(discovered) - Len(load_order) + n]
             /\ loaded = {TopologicalOrder(s)[n] : n \in 1 .. Len(discovered) - Len(load_order)}
      BY DEF StartupInv, LoadsInOrder
    <2>3. s \in Toposort(Edges)' /\ TopologicalOrder(s)' = TopologicalOrder(s) BY <1>6
    <2> QED BY <1>5, <1>6, <2>1, <2>2, <2>3 DEF LoadsInOrder
  <1> QED BY <1>2, <1>3, <1>4, <1>7 DEF StartupInv

\* The steps of build, apart from those of the runtime it returns.
BuildStep ==
  \/ ScanFinds \/ ScanSkips \/ BuildRefused \/ (\E mode \in {"Strict", "Relaxed"} : BuildOrders(mode))
  \/ BuildLoads \/ BuildLoadFails \/ BuildReturns

LEMMA BuildStepInv ==
  ASSUME StartupInv, BuildStep
  PROVE  StartupInv' /\ phase # "built" /\ outcome' = outcome
  <1>1. CASE ScanFinds BY <1>1, ScanFindsInv DEF ScanFinds, vars
  <1>2. CASE ScanSkips BY <1>2, ScanSkipsInv DEF ScanSkips, vars
  <1>3. CASE BuildRefused BY <1>3, FailInv DEF BuildRefused, Scanned, Fail
  <1>4. ASSUME NEW mode \in {"Strict", "Relaxed"}, BuildOrders(mode)
        PROVE  StartupInv' /\ phase # "built" /\ outcome' = outcome
    <2>1. StartupInv' BY <1>4, BuildOrdersInv
    <2> QED BY <1>4, <2>1 DEF BuildOrders, Scanned, vars
  <1>5. CASE BuildLoads BY <1>5, BuildLoadsInv DEF BuildLoads
  <1>6. CASE BuildLoadFails BY <1>6, FailInv DEF BuildLoadFails, Fail
  <1>7. CASE BuildReturns BY <1>7, BuildReturnsInv DEF BuildReturns
  <1> QED BY <1>1, <1>2, <1>3, <1>4, <1>5, <1>6, <1>7 DEF BuildStep

\* Every step of build and of the runtime keeps the invariant.
LEMMA StartupStepInv ==
  ASSUME StartupInv, [StartupNext]_startupVars
  PROVE  StartupInv'
  <1>1. CASE BuildStep BY <1>1, BuildStepInv
  <1>2. CASE phase = "built" /\ Next /\ UNCHANGED startup BY <1>2, BuiltNextInv
  <1>3. CASE UNCHANGED startupVars BY <1>3, UnchangedInv
  <1> QED BY <1>1, <1>2, <1>3 DEF StartupNext, BuildStep

-----------------------------------------------------------------------------
(***************************************************************************)
(* The theorems.                                                           *)
(***************************************************************************)

\* Throughout build and every call, what is loaded, walked and still to load is
\* as the code's loops leave it: the invariant of the walks and of build.
THEOREM StartupInvariant == StartupSpec => []StartupInv
  <1>1. StartupInit => StartupInv BY StartupInitInv
  <1>2. StartupInv /\ [StartupNext]_startupVars => StartupInv' BY StartupStepInv
  <1> QED BY <1>1, <1>2, PTL DEF StartupSpec

\* A walk is never deeper than there are bundles and reloads none twice: the
\* recursion of both cascades is bounded, cycles or not.
THEOREM CascadeTypeCorrect == StartupSpec => [](TypeOK /\ StartupTypeOK)
  <1>1. StartupInv => TypeOK /\ StartupTypeOK BY DEF StartupInv, WalkInv
  <1> QED BY <1>1, StartupInvariant, PTL

\* No call has ended before build has returned.
LEMMA NoOutcomeYet ==
  ASSUME StartupInv, BuildStep
  PROVE  outcome'.kind = "none" /\ outcome'.result = "none"
  <1>1. phase # "built" /\ outcome' = outcome BY BuildStepInv
  <1> QED BY <1>1 DEF StartupInv, BuildAlone, Unused

\* What cascade_reload_dependents promises: when reload_bundle returns, every
\* dependent that opted in, of every bundle it reloaded, was reloaded or failed.
THEOREM DependentsAreReloaded == StartupSpec => []DependentsReloaded
  <1>1. StartupInit => DependentsReloaded BY DEF StartupInit, Init, Unused, DependentsReloaded
  <1>2. ASSUME StartupInv, DependentsReloaded, [StartupNext]_startupVars PROVE DependentsReloaded'
    <2>1. CASE BuildStep BY <1>2, <2>1, NoOutcomeYet DEF DependentsReloaded
    <2>2. CASE Next BY <1>2, <2>2, StepReloadsDependents DEF StartupInv
    <2>3. CASE UNCHANGED startupVars
      <3>1. \A b : Candidates(b)' = Candidates(b) BY <2>3 DEF startupVars, vars, Candidates, Dependents
      <3> QED BY <1>2, <2>3, <3>1 DEF startupVars, vars, DependentsReloaded, Idle
    <2> QED BY <1>2, <2>1, <2>2, <2>3 DEF StartupNext, BuildStep
  <1> QED BY <1>1, <1>2, StartupInvariant, PTL DEF StartupSpec

\* What unload_bundle_cascade promises when it succeeds: the target and all that
\* depended on it when it began, directly or through others, is unloaded.
THEOREM CascadesAreComplete == StartupSpec => []CascadeComplete
  <1>1. StartupInit => CascadeComplete BY DEF StartupInit, Init, Unused, CascadeComplete
  <1>2. ASSUME StartupInv, CascadeComplete, [StartupNext]_startupVars PROVE CascadeComplete'
    <2>1. CASE BuildStep BY <1>2, <2>1, NoOutcomeYet DEF CascadeComplete
    <2>2. CASE Next BY <1>2, <2>2, StepCompletesCascade DEF StartupInv
    <2>3. CASE UNCHANGED startupVars
      <3>1. depends' = depends /\ loaded' = loaded /\ call' = call /\ outcome' = outcome
        BY <2>3 DEF startupVars, vars
      <3> QED BY <1>2, <3>1 DEF CascadeComplete, Idle
    <2> QED BY <1>2, <2>1, <2>2, <2>3 DEF StartupNext, BuildStep
  <1> QED BY <1>1, <1>2, StartupInvariant, PTL DEF StartupSpec

\* What ensure_cascade_resident_affinity promises: a cascade refused because a
\* resident is another thread's has unloaded nothing.
THEOREM AffinityIsCheckedFirst == StartupSpec => []AffinityFirst
  <1>1. StartupInit => AffinityFirst BY DEF StartupInit, Init, Unused, AffinityFirst
  <1>2. ASSUME StartupInv, AffinityFirst, [StartupNext]_startupVars PROVE AffinityFirst'
    <2>1. CASE BuildStep BY <1>2, <2>1, NoOutcomeYet DEF AffinityFirst
    <2>2. CASE Next BY <1>2, <2>2, StepChecksAffinityFirst DEF StartupInv
    <2>3. CASE UNCHANGED startupVars BY <1>2, <2>3 DEF startupVars, vars, AffinityFirst, Idle
    <2> QED BY <1>2, <2>1, <2>2, <2>3 DEF StartupNext, BuildStep
  <1> QED BY <1>1, <1>2, StartupInvariant, PTL DEF StartupSpec

\* A cascade unloads dependents before what they depend on, at each of its
\* steps, however it ends and whatever other threads unload meanwhile: unless
\* dependencies form a cycle no loaded bundle is left without a dependency.
THEOREM NothingIsOrphaned == StartupSpec => []NoOrphan
  <1>1. StartupInit => NoOrphan BY DEF StartupInit, Init, Unused, NoOrphan
  <1>2. ASSUME StartupInv, NoOrphan, [StartupNext]_startupVars PROVE NoOrphan'
    <2>1. CASE BuildStep
      <3>1. CASE BuildReturns BY <1>2, <3>1, BuildReturnsInv DEF NoOrphan
      <3>2. CASE ~BuildReturns
        <4>1. phase' # "built"
          <5>1. phase # "built" BY <1>2, <2>1, BuildStepInv
          <5> QED BY <2>1, <3>2, <5>1 DEF BuildStep, ScanFinds, ScanSkips, BuildRefused, BuildOrders,
                     BuildLoads, BuildLoadFails, Fail
        <4>2. Unused' BY <1>2, <2>1, <4>1, BuildStepInv DEF StartupInv, BuildAlone
        <4>3. loaded' \subseteq BundleId BY <1>2, <2>1, BuildStepInv DEF StartupInv, WalkInv, TypeOK
        <4> QED BY <4>2, <4>3 DEF NoOrphan, Unused
      <3> QED BY <3>1, <3>2
    <2>2. CASE Next BY <1>2, <2>2, StepKeepsDependencies DEF StartupInv
    <2>3. CASE UNCHANGED startupVars
      <3>1. depends' = depends /\ loaded' = loaded BY <2>3 DEF startupVars, vars
      <3>2. IsAcyclic(depends)' = IsAcyclic(depends) BY <3>1
      <3> QED BY <1>2, <3>1, <3>2 DEF NoOrphan
    <2> QED BY <1>2, <2>1, <2>2, <2>3 DEF StartupNext, BuildStep
  <1> QED BY <1>1, <1>2, StartupInvariant, PTL DEF StartupSpec

-----------------------------------------------------------------------------
(***************************************************************************)
(* Which providers are loaded.                                             *)
(***************************************************************************)

\* The greatest of some places of a sequence is one of them.
LEMMA LastOfPlaces ==
  ASSUME NEW N \in Nat, NEW I \in SUBSET (1 .. N), I # {}
  PROVE  Max(I) \in I /\ \A i \in I : i <= Max(I)
  <1>1. PICK R : R = {ss \in Nat \X Nat : ss[1] < ss[2]} OBVIOUS
  <1>2. IsWellFoundedOn(R, Nat) BY <1>1, NatLessThanWellFounded DEF OpToRel
  <1>3. PICK T : T = {N - i : i \in I} OBVIOUS
  <1>4. \A i \in I : i \in 1 .. N /\ N - i \in Nat OBVIOUS
  <1>5. T \in SUBSET Nat /\ T # {}
    <2>1. T \subseteq Nat BY <1>3, <1>4
    <2>2. PICK i \in I : TRUE OBVIOUS
    <2>3. N - i \in T BY <1>3
    <2> QED BY <2>1, <2>3
  <1>6. PICK x \in T : \A y \in T : <<y, x>> \notin R BY <1>2, <1>5, WFMin
  <1>7. PICK m \in I : x = N - m BY <1>3
  <1>8. ASSUME NEW i \in I PROVE m >= i
    <2>1. N - i \in T /\ <<N - i, x>> \notin R BY <1>3, <1>6
    <2>2. i \in 1 .. N /\ m \in 1 .. N /\ N - i \in Nat /\ x \in Nat BY <1>4, <1>5
    <2>3. ~(N - i < x) BY <1>1, <2>1, <2>2
    <2> QED BY <1>7, <2>2, <2>3
  <1>9. Max(I) \in I /\ \A i \in I : Max(I) >= i BY <1>8 DEF Max
  <1>10. I \subseteq Int BY SMT
  <1> QED BY <1>9, <1>10

\* Of manifests with distinct names, each is the one its name stands for.
LEMMA ManifestByName ==
  ASSUME StartupTypeOK, DistinctNames, NEW i \in Found
  PROVE  ManifestOf(discovered[i].name) = discovered[i]
  <1>1. PICK N \in Nat : N = Len(discovered) BY FoundFacts
  <1>2. Found = 1 .. N BY <1>1, FoundFacts
  <1>3. PICK f : f = [j \in 1 .. N |-> discovered[j].name] OBVIOUS
  <1>4. f \in Surjection(1 .. N, Names)
    <2>1. f \in [1 .. N -> Names] BY <1>2, <1>3 DEF Names
    <2>2. \A t \in Names : \E j \in 1 .. N : f[j] = t BY <1>2, <1>3 DEF Names
    <2> QED BY <2>1, <2>2 DEF Surjection
  <1>5. IsFiniteSet(1 .. N) /\ Cardinality(1 .. N) = N BY FS_Interval
  <1>6. Cardinality(Names) = Cardinality(1 .. N) BY <1>1, <1>5 DEF DistinctNames
  <1>7. f \in Injection(1 .. N, Names) BY <1>4, <1>5, <1>6, FS_Surjection
  <1>8. \A j, k \in 1 .. N : discovered[j].name = discovered[k].name => j = k
    BY <1>3, <1>7 DEF Injection, IsInjective
  <1>9. {j \in Found : discovered[j].name = discovered[i].name} = {i} BY <1>2, <1>8
  <1>10. {i} \in SUBSET (1 .. N) BY <1>2
  <1>11. Max({i}) = i BY <1>10, LastOfPlaces
  <1> QED BY <1>9, <1>11 DEF ManifestOf

\* The provider the graph chose for a dependency of a loaded bundle is loaded.
LEMMA ChosenProviderLoaded ==
  ASSUME StartupInv, phase = "loading", DistinctNames, NEW b \in loaded,
         NEW dep \in ManifestOf(b).dependencies
  PROVE  \E i, q \in Found :
           /\ dep \in discovered[i].dependencies /\ q \in Providers(RequiredId(dep))
           /\ \A p \in Providers(RequiredId(dep)) : p <= q
           /\ discovered[q].name \in loaded /\ ManifestOf(discovered[q].name) = discovered[q]
  <1>1. StartupTypeOK BY DEF StartupInv
  <1>2. PICK N \in Nat : N = Len(discovered) BY <1>1, FoundFacts
  <1>3. Found = 1 .. N BY <1>1, <1>2, FoundFacts
  <1>4. PICK s \in Toposort(Edges) :
           loaded = {TopologicalOrder(s)[n] : n \in 1 .. Len(discovered) - Len(load_order)}
    BY DEF StartupInv, LoadsInOrder
  <1>5. PICK j \in Nat : j = Len(load_order) BY <1>1, LenProperties DEF StartupTypeOK
  <1>6. j <= N BY <1>1, <1>2, <1>5 DEF StartupTypeOK
  <1>7. loaded = {TopologicalOrder(s)[n] : n \in 1 .. N - j} BY <1>2, <1>4, <1>5
  <1>8. /\ s \in Bijection(Found, Found)
        /\ \A n \in Found : TopologicalOrder(s)[n] = discovered[s[N + 1 - n]].name
    BY <1>1, <1>2, OrderFacts
  <1>9. s \in [Found -> Found] /\ \A t \in Found : \E n \in Found : s[n] = t
    BY <1>8 DEF Bijection, Injection, Surjection
  <1>10. PICK n \in 1 .. N - j : b = TopologicalOrder(s)[n] BY <1>7
  <1>11. n \in Found /\ N + 1 - n \in Found BY <1>3
  <1>12. PICK i \in Found : i = s[N + 1 - n] BY <1>9, <1>11
  <1>13. b = discovered[i].name BY <1>8, <1>10, <1>11, <1>12
  <1>14. ManifestOf(b) = discovered[i] BY <1>1, <1>13, ManifestByName
  <1>15. dep \in discovered[i].dependencies BY <1>14
  <1>16. PICK P : P = Providers(RequiredId(dep)) OBVIOUS
  <1>17. P # {} BY <1>15, <1>16 DEF StartupInv, LoadsInOrder, UnsatisfiedCapability
  <1>18. P \in SUBSET (1 .. N) BY <1>3, <1>16 DEF Providers
  <1>19. PICK q \in P : q = Max(P) /\ \A p \in P : p <= q BY <1>17, <1>18, LastOfPlaces
  <1>20. q \in Found BY <1>3, <1>18
  <1>21. i \in BundleId
    <2>1. N <= Bundles
      <3>1. entry \in 1 .. 1 + Bundles /\ N < entry BY <1>1, <1>2 DEF StartupTypeOK
      <3>2. Bundles \in Nat BY CascadeAssumption
      <3> QED BY <3>1, <3>2
    <2> QED BY <2>1, <1>3, CascadeAssumption DEF BundleId
  <1>22. q \in Edges[i]
    <2>1. Edges[i] = {Max(Providers(RequiredId(e))) :
             e \in {d \in discovered[i].dependencies : Providers(RequiredId(d)) # {}}}
      BY <1>21 DEF Edges
    <2> QED BY <2>1, <1>15, <1>16, <1>17, <1>19
  <1>23. PICK m \in Found : s[m] = q BY <1>9, <1>20
  <1>24. N + 1 - n < m
    <2>1. \A k, l \in Found : s[l] \in Edges[s[k]] => k < l BY DEF Toposort
    <2>2. s[m] \in Edges[s[N + 1 - n]] BY <1>12, <1>22, <1>23
    <2> QED BY <1>11, <2>1, <2>2
  <1>25. PICK l \in Found : l = N + 1 - m BY <1>3
  <1>26. l \in 1 .. N - j /\ N + 1 - l = m BY <1>3, <1>24, <1>25
  <1>27. discovered[q].name = TopologicalOrder(s)[l] BY <1>8, <1>23, <1>25, <1>26
  <1>28. discovered[q].name \in loaded BY <1>7, <1>26, <1>27
  <1>29. ManifestOf(discovered[q].name) = discovered[q] BY <1>1, <1>20, ManifestByName
  <1> QED BY <1>15, <1>16, <1>19, <1>20, <1>28, <1>29

\* What build promises by loading in topological order: whenever a bundle is
\* initialised a provider of each contract it requires is loaded, for any
\* manifests of distinct names.
THEOREM ProvidersLoadFirst == StartupSpec => []ProvidersFirst
  <1>1. ASSUME StartupInv PROVE ProvidersFirst
    <2> SUFFICES ASSUME phase = "loading", DistinctNames, NEW b \in loaded,
                        NEW dep \in ManifestOf(b).dependencies
                 PROVE  \E p \in loaded : RequiredId(dep) \in ProvidedIds(ManifestOf(p))
      BY DEF ProvidersFirst
    <2>1. PICK q \in Found : /\ q \in Providers(RequiredId(dep)) /\ discovered[q].name \in loaded
                             /\ ManifestOf(discovered[q].name) = discovered[q]
      BY <1>1, ChosenProviderLoaded
    <2>2. RequiredId(dep) \in ProvidedIds(discovered[q]) BY <2>1 DEF Providers
    <2> QED BY <2>1, <2>2
  <1> QED BY <1>1, StartupInvariant, PTL

\* The version of an entry of `provides` is a version.
LEMMA ProvidedVersionFacts ==
  ASSUME StartupTypeOK, NEW i \in Found, NEW spec \in discovered[i].provides
  PROVE  ProvidedVersion(discovered[i], spec) \in Nat \X Nat
  <1>1. spec.version \in Version /\ discovered[i].version \in Version BY FoundFacts
  <1>2. BundleVersion(discovered[i]) \in Nat \X Nat BY <1>1 DEF BundleVersion, Version
  <1> QED BY <1>1, <1>2 DEF ProvidedVersion, Version

\* In a strict build what the version check looked at is what the graph loaded,
\* although they are chosen by different keys, and meets the minimum version,
\* unless the last provider of the contract pins a version of it inline.
THEOREM StrictIsHonoured == StartupSpec => []StrictHonoured
  <1>1. ASSUME StartupInv PROVE StrictHonoured
    <2> DEFINE Meets(v, dep) == v[1] = dep.min_version[1] /\ v[2] >= dep.min_version[2]
               Supplied(dep) ==
                 \E p \in loaded : \E spec \in ManifestOf(p).provides :
                   spec.contract = dep.contract /\ Meets(ProvidedVersion(ManifestOf(p), spec), dep)
    <2> SUFFICES ASSUME phase = "loading", DistinctNames, compatibility = "Strict", NEW b \in loaded,
                        NEW dep \in ManifestOf(b).dependencies, dep.min_version # <<>>,
                        ~\E i \in Found :
                           /\ Provides(discovered[i], dep.contract) /\ Pinned(discovered[i], dep.contract)
                           /\ \A j \in Found : Provides(discovered[j], dep.contract) => j <= i
                 PROVE  Supplied(dep)
      BY DEF StrictHonoured
    <2> HIDE DEF Supplied
    <2>1. StartupTypeOK /\ ~VersionMismatch BY <1>1 DEF StartupInv, LoadsInOrder
    <2>2. PICK i, q \in Found :
             /\ dep \in discovered[i].dependencies /\ q \in Providers(RequiredId(dep))
             /\ \A p \in Providers(RequiredId(dep)) : p <= q
             /\ discovered[q].name \in loaded /\ ManifestOf(discovered[q].name) = discovered[q]
      BY <1>1, ChosenProviderLoaded
    <2>3. PICK min \in Nat \X Nat : min = dep.min_version BY <2>1, <2>2, FoundFacts DEF Version
    <2>4. RequiredId(dep) = <<dep.contract, min[1]>> BY <2>3 DEF RequiredId
    <2>5. PICK sq \in discovered[q].provides :
            sq.contract = dep.contract /\ ProvidedVersion(discovered[q], sq)[1] = min[1]
      <3>1. <<dep.contract, min[1]>> \in ProvidedIds(discovered[q]) BY <2>2, <2>4 DEF Providers
      <3>2. PICK sq \in discovered[q].provides :
              <<dep.contract, min[1]>> = <<sq.contract, ProvidedVersion(discovered[q], sq)[1]>>
        BY <3>1 DEF ProvidedIds
      <3> QED BY <3>2
    <2>6. \A spec \in discovered[q].provides :
            spec.contract = dep.contract /\ Meets(ProvidedVersion(discovered[q], spec), dep) => Supplied(dep)
      BY <2>2 DEF Supplied
    <2>7. PICK J : J = {j \in Found : Provides(discovered[j], dep.contract)} OBVIOUS
    <2>8. q \in J BY <2>5, <2>7 DEF Provides
    <2>9. PICK N \in Nat : Found = 1 .. N BY <2>1, FoundFacts
    <2>10. J \in SUBSET (1 .. N) BY <2>7, <2>9
    <2>11. PICK r \in J : r = Max(J) /\ \A j \in J : j <= r BY <2>8, <2>10, LastOfPlaces
    <2>12. r \in Found /\ Provides(discovered[r], dep.contract) BY <2>7, <2>11
    <2>13. PICK sr \in discovered[r].provides : sr.contract = dep.contract /\ sr.version = <<>>
      <3>1. ~Pinned(discovered[r], dep.contract) BY <2>7, <2>11, <2>12
      <3> QED BY <3>1 DEF Pinned
    <2>14. ProviderByName(dep.contract) = discovered[r] BY <2>7, <2>11 DEF ProviderByName
    <2>15. IsCompatibleWith(ManifestVersion(discovered[r]), min)
      BY <2>1, <2>2, <2>3, <2>12, <2>14 DEF VersionMismatch
    <2>16. CASE discovered[r].version = <<>>
      <3>1. ManifestVersion(discovered[r]) = <<0, 0>> BY <2>16 DEF ManifestVersion
      <3>2. 0 >= min[2] BY <2>15, <3>1 DEF IsCompatibleWith
      <3>3. PICK v \in Nat \X Nat : v = ProvidedVersion(discovered[q], sq)
        BY <2>1, <2>5, ProvidedVersionFacts
      <3>4. v[2] >= min[2] BY <2>3, <3>2
      <3> QED BY <2>3, <2>5, <2>6, <3>3, <3>4
    <2>17. CASE discovered[r].version # <<>>
      <3>1. PICK v : v = discovered[r].version OBVIOUS
      <3>2. ManifestVersion(discovered[r]) = v /\ ProvidedVersion(discovered[r], sr) = v
        BY <2>13, <2>17, <3>1 DEF ManifestVersion, ProvidedVersion, BundleVersion
      <3>3. v[1] = min[1] /\ v[2] >= min[2] BY <2>15, <3>2 DEF IsCompatibleWith
      <3>4. <<dep.contract, min[1]>> \in ProvidedIds(discovered[r])
        BY <2>13, <3>2, <3>3 DEF ProvidedIds
      <3>5. r \in Providers(RequiredId(dep)) BY <2>4, <2>12, <3>4 DEF Providers
      <3>6. r <= q /\ q <= r BY <2>2, <2>8, <2>11, <3>5
      <3>7. r = q BY <2>9, <2>12, <3>6
      <3> QED BY <2>3, <2>6, <2>13, <3>2, <3>3, <3>7
    <2> QED BY <2>16, <2>17
  <1> QED BY <1>1, StartupInvariant, PTL

-----------------------------------------------------------------------------
(***************************************************************************)
(* Why every call returns: each of its steps lowers what remains of it.    *)
(***************************************************************************)

\* A set of bundles has a first.
LEMMA FirstBundle ==
  ASSUME NEW T \in SUBSET BundleId, T # {}
  PROVE  Min(T) \in T
  <1>1. PICK R : R = {ss \in Nat \X Nat : ss[1] < ss[2]} OBVIOUS
  <1>2. IsWellFoundedOn(R, Nat) BY <1>1, NatLessThanWellFounded DEF OpToRel
  <1>3. T \in SUBSET Nat BY CascadeAssumption DEF BundleId
  <1>4. PICK x \in T : \A y \in T : <<y, x>> \notin R BY <1>2, <1>3, WFMin
  <1>5. ASSUME NEW y \in T PROVE x =< y
    <2>1. x \in Nat /\ y \in Nat BY <1>3
    <2>2. y < x => <<y, x>> \in R BY <1>1, <2>1
    <2> QED BY <1>4, <2>1, <2>2
  <1> QED BY <1>5 DEF Min

\* Sets of bundles are finite, and one without a member is smaller.
LEMMA BundlesCounted ==
  ASSUME NEW T \in SUBSET BundleId
  PROVE  /\ Cardinality(T) \in Nat
         /\ \A d \in T : Cardinality(T \ {d}) = Cardinality(T) - 1 /\ Cardinality(T \ {d}) < Cardinality(T)
  <1>1. IsFiniteSet(BundleId) BY CascadeAssumption, FS_Interval DEF BundleId
  <1>2. IsFiniteSet(T) BY <1>1, FS_Subset
  <1>3. Cardinality(T) \in Nat BY <1>2, FS_CardinalityType
  <1>4. ASSUME NEW d \in T
        PROVE  Cardinality(T \ {d}) = Cardinality(T) - 1 /\ Cardinality(T \ {d}) < Cardinality(T)
    <2>1. Cardinality(T \ {d}) = Cardinality(T) - 1 BY <1>2, FS_RemoveElement
    <2> QED BY <1>3, <2>1
  <1> QED BY <1>3, <1>4

\* A bundle is visited for the first time.
LEMMA VisitShrinks ==
  ASSUME WalkInv, NEW d \in BundleId, d \notin visited, visited' = visited \cup {d}
  PROVE  LexLess(Remaining', Remaining)
  <1>1. PICK U \in SUBSET BundleId : U = BundleId \ visited OBVIOUS
  <1>2. BundleId \ visited' = U \ {d} /\ d \in U BY <1>1
  <1>3. Cardinality(U \ {d}) < Cardinality(U) BY <1>2, BundlesCounted
  <1>4. Remaining[1] = Cardinality(U) /\ Remaining'[1] = Cardinality(U \ {d})
    BY <1>1, <1>2 DEF Remaining
  <1> QED BY <1>3, <1>4 DEF LexLess

\* A frame is left, or the call ends.
LEMMA LeaveShrinks ==
  ASSUME visited' = visited, Len(stack') < Len(stack)
  PROVE  LexLess(Remaining', Remaining)
  <1>1. Remaining[1] = Remaining'[1] /\ Remaining[2] = Len(stack) /\ Remaining'[2] = Len(stack')
    BY DEF Remaining
  <1> QED BY <1>1 DEF LexLess

\* The innermost frame has done with a dependent.
LEMMA TodoShrinks ==
  ASSUME WalkInv, stack # <<>>, NEW d \in Top.todo, stack' = Visiting(d), visited' = visited
  PROVE  LexLess(Remaining', Remaining)
  <1>1. /\ Len(stack') = Len(stack) /\ stack' # <<>> /\ stack'[Len(stack)].todo = Top.todo \ {d}
    BY VisitingStack
  <1>2. Top' = stack'[Len(stack)] BY <1>1 DEF Top
  <1>3. Top.todo \in SUBSET BundleId BY RunningFacts DEF WalkInv
  <1>4. Cardinality(Top.todo \ {d}) < Cardinality(Top.todo) BY <1>3, BundlesCounted
  <1>5. /\ Remaining'[1] = Remaining[1] /\ Remaining'[2] = Remaining[2]
        /\ Remaining[3] = Cardinality(Top.todo) /\ Remaining'[3] = Cardinality(Top.todo \ {d})
    BY <1>1, <1>2 DEF Remaining
  <1> QED BY <1>4, <1>5 DEF LexLess

\* A stack becomes shorter when it is unwound or the call returns.
LEMMA UnwindShortens ==
  ASSUME WalkInv, stack # <<>>, (Len(stack) > 1 /\ stack' = Unwound) \/ stack' = <<>>
  PROVE  Len(stack') < Len(stack)
  <1>1. PICK k \in Nat \ {0} : k = Len(stack) BY RunningFacts DEF WalkInv
  <1>2. CASE Len(stack) > 1 /\ stack' = Unwound
    <2>1. Len(stack') = k - 1 BY <1>1, <1>2, LeavingStack
    <2> QED BY <1>1, <2>1
  <1>3. CASE stack' = <<>>
    <2>1. Len(stack') = 0 BY <1>3
    <2> QED BY <1>1, <2>1
  <1> QED BY <1>2, <1>3

LEMMA WalkShrinks ==
  ASSUME WalkInv, Step
  PROVE  LexLess(Remaining', Remaining)
  <1>1. ASSUME NEW d \in BundleId, Candidate(d) PROVE stack # <<>> /\ d \in Top.todo
    <2>1. stack # <<>> /\ Top.todo # {} /\ d = Min(Top.todo) BY <1>1 DEF Candidate, Running
    <2>2. Top.todo \in SUBSET BundleId BY <2>1, RunningFacts DEF WalkInv
    <2> QED BY <2>1, <2>2, FirstBundle
  <1>2. ASSUME NEW d \in BundleId, CascadeReloads(d) PROVE LexLess(Remaining', Remaining)
    BY <1>2, VisitShrinks DEF CascadeReloads, Skipped
  <1>3. ASSUME NEW d \in BundleId, CascadeFails(d) PROVE LexLess(Remaining', Remaining)
    <2>1. stack # <<>> /\ d \in Top.todo BY <1>1, <1>3 DEF CascadeFails
    <2> QED BY <1>3, <2>1, TodoShrinks DEF CascadeFails
  <1>4. ASSUME NEW d \in BundleId, CascadeSkips(d) PROVE LexLess(Remaining', Remaining)
    <2>1. stack # <<>> /\ d \in Top.todo BY <1>1, <1>4 DEF CascadeSkips
    <2> QED BY <1>4, <2>1, TodoShrinks DEF CascadeSkips
  <1>5. CASE ReloadReturns
    <2>1. stack # <<>> /\ visited' = visited /\ ((Len(stack) > 1 /\ stack' = Unwound) \/ stack' = <<>>)
      BY <1>5 DEF ReloadReturns, Running, Return
    <2>2. Len(stack') < Len(stack) BY <2>1, UnwindShortens
    <2> QED BY <2>1, <2>2, LeaveShrinks
  <1>6. ASSUME NEW d \in BundleId, UnloadDependent(d) PROVE LexLess(Remaining', Remaining)
    <2>1. stack # <<>> /\ d \in Top.todo /\ visited' = visited \cup {d} BY <1>6 DEF UnloadDependent, Running
    <2>2. CASE d \notin visited BY <2>1, <2>2, VisitShrinks
    <2>3. CASE d \in visited
      <3>1. stack' = Visiting(d) /\ visited' = visited BY <1>6, <2>1, <2>3 DEF UnloadDependent
      <3> QED BY <2>1, <3>1, TodoShrinks
    <2> QED BY <2>2, <2>3
  <1>7. CASE UnloadRegisteredBundle \/ UnloadReclaimFails \/ UnloadRefuses
    <2>1. stack # <<>> /\ visited' = visited /\ ((Len(stack) > 1 /\ stack' = Unwound) \/ stack' = <<>>)
      BY <1>7 DEF UnloadRegisteredBundle, UnloadReclaimFails, UnloadRefuses, Running, Return
    <2>2. Len(stack') < Len(stack) BY <2>1, UnwindShortens
    <2> QED BY <2>1, <2>2, LeaveShrinks
  <1> QED BY <1>2, <1>3, <1>4, <1>5, <1>6, <1>7 DEF Step

\* Every step of a reload or an unload lowers what remains of it, three numbers
\* no greater than that of the bundles in the order of a dictionary, and no
\* step of another thread raises it: whatever the dependencies, cycles among
\* them, a call cannot go on for ever.
THEOREM WalksProgress == StartupSpec => [][StepShrinks]_startupVars
  <1>1. ASSUME StartupInv, [StartupNext]_startupVars PROVE [StepShrinks]_startupVars
    <2> SUFFICES ASSUME StartupNext PROVE StepShrinks BY <1>1
    <2>1. ASSUME Step PROVE LexLess(Remaining', Remaining) BY <1>1, <2>1, WalkShrinks DEF StartupInv
    <2>2. ASSUME ~Idle, ~Step PROVE Remaining' = Remaining
      <3>1. ~BuildStep
        <4>1. BuildStep => phase # "built" BY <1>1, BuildStepInv
        <4>2. phase # "built" => Idle BY <1>1 DEF StartupInv, BuildAlone, Unused, Idle
        <4> QED BY <2>2, <4>1, <4>2
      <3>2. Next BY <3>1 DEF StartupNext, BuildStep
      <3>3. \E b \in BundleId : OtherUnload(b)
        BY <2>2, <3>2 DEF Next, ReloadBundle, ReloadBundleFails, UnloadCascade, UnloadCascadeRefused, Begin
      <3>4. visited' = visited /\ stack' = stack BY <3>3 DEF OtherUnload
      <3>5. Top' = Top BY <3>4 DEF Top
      <3> QED BY <3>4, <3>5 DEF Remaining
    <2> QED BY <2>1, <2>2 DEF StepShrinks
  <1> QED BY <1>1, StartupInvariant, PTL DEF StartupSpec
=============================================================================

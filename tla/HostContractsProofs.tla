------------------------ MODULE HostContractsProofs -------------------------
(***************************************************************************)
(* Proofs about HostContracts and InitStack, for any number of threads,    *)
(* bundles, contracts and nested calls.                                    *)
(***************************************************************************)
EXTENDS HostContracts, SequenceTheorems, FiniteSetTheorems, WellFoundedInduction, TLAPS

-----------------------------------------------------------------------------
(***************************************************************************)
(* Stacks.                                                                 *)
(***************************************************************************)

\* A stack without its top.
LEMMA FrontFacts ==
  ASSUME NEW S, NEW s \in Seq(S), s # <<>>
  PROVE  /\ Len(s) \in Nat \ {0} /\ Last(s) \in S /\ Last(s) = s[Len(s)]
         /\ Front(s) \in Seq(S) /\ Len(Front(s)) = Len(s) - 1
         /\ \A n \in 1 .. Len(s) - 1 : Front(s)[n] = s[n]
  <1>1. Len(s) \in Nat \ {0} BY EmptySeq
  <1>2. \A n \in 1 .. Len(s) : s[n] \in S BY ElementOfSeq
  <1>3. \A n \in 1 .. Len(s) - 1 : s[n] \in S BY <1>1, <1>2
  <1>4. Len(s) - 1 \in Int BY <1>1
  <1>5. /\ SubSeq(s, 1, Len(s) - 1) \in Seq(S)
        /\ Len(SubSeq(s, 1, Len(s) - 1)) = IF 1 <= Len(s) - 1 THEN Len(s) - 1 - 1 + 1 ELSE 0
        /\ \A n \in 1 .. Len(s) - 1 - 1 + 1 : SubSeq(s, 1, Len(s) - 1)[n] = s[1 + n - 1]
    BY <1>3, <1>4, SubSeqProperties
  <1>6. Len(SubSeq(s, 1, Len(s) - 1)) = Len(s) - 1
    <2>1. PICK k \in Nat \ {0} : k = Len(s) BY <1>1
    <2>2. Len(SubSeq(s, 1, k - 1)) = IF 1 <= k - 1 THEN k - 1 - 1 + 1 ELSE 0 BY <1>5, <2>1
    <2> QED BY <2>1, <2>2
  <1>7. \A n \in 1 .. Len(s) - 1 : SubSeq(s, 1, Len(s) - 1)[n] = s[n] BY <1>1, <1>5
  <1> QED BY <1>1, <1>2, <1>5, <1>6, <1>7 DEF Front, Last

\* A stack with one more element.
LEMMA AppendFacts ==
  ASSUME NEW S, NEW s \in Seq(S), NEW e \in S
  PROVE  /\ Len(s) \in Nat /\ Append(s, e) \in Seq(S) /\ Len(Append(s, e)) = Len(s) + 1
         /\ Append(s, e)[Len(s) + 1] = e /\ Append(s, e) # <<>> /\ Last(Append(s, e)) = e
         /\ \A n \in 1 .. Len(s) : Append(s, e)[n] = s[n]
  <1>1. /\ Len(s) \in Nat /\ Append(s, e) \in Seq(S) /\ Len(Append(s, e)) = Len(s) + 1
        /\ Append(s, e)[Len(s) + 1] = e
        /\ \A n \in 1 .. Len(s) : Append(s, e)[n] = s[n]
    OBVIOUS
  <1>2. Append(s, e) # <<>> BY <1>1
  <1> QED BY <1>1, <1>2 DEF Last

\* A set of naturals below a bound has a greatest element.
LEMMA GreatestBelow ==
  ASSUME NEW N \in Nat, NEW I \in SUBSET (1 .. N), I # {}
  PROVE  Max(I) \in I /\ \A i \in I : i <= Max(I)
  <1>1. PICK R : R = {ss \in Nat \X Nat : ss[1] < ss[2]} OBVIOUS
  <1>2. IsWellFoundedOn(R, Nat) BY <1>1, NatLessThanWellFounded DEF OpToRel
  <1>3. PICK T : T = {N - i : i \in I} OBVIOUS
  <1>0. \A i \in I : i \in 1 .. N /\ N - i \in Nat OBVIOUS
  <1>4. T \in SUBSET Nat /\ T # {}
    <2>1. T \subseteq Nat BY <1>0, <1>3
    <2>2. PICK i \in I : TRUE OBVIOUS
    <2>3. N - i \in T BY <1>3
    <2> QED BY <2>1, <2>3
  <1>5. PICK x \in T : \A y \in T : <<y, x>> \notin R BY <1>2, <1>4, WFMin
  <1>6. PICK m \in I : x = N - m BY <1>3
  <1>7. ASSUME NEW i \in I PROVE m >= i
    <2>1. N - i \in T /\ <<N - i, x>> \notin R BY <1>3, <1>5
    <2>2. i \in 1 .. N /\ m \in 1 .. N /\ N - i \in Nat /\ x \in Nat BY <1>0, <1>4
    <2>3. ~(N - i < x) BY <1>1, <2>1, <2>2
    <2> QED BY <1>6, <2>2, <2>3
  <1>8. Max(I) \in I /\ \A i \in I : Max(I) >= i BY <1>7 DEF Max
  <1>9. I \subseteq Int BY SMT
  <1> QED BY <1>8, <1>9

\* The latest transaction of a bundle.
Latest(s, b) == SelectLastInSeq(s, LAMBDA e : e.bundle = b)

LEMMA LatestFacts ==
  ASSUME NEW s \in Seq(Entry), NEW b
  PROVE  /\ Latest(s, b) \in 0 .. Len(s)
         /\ Latest(s, b) # 0 => s[Latest(s, b)].bundle = b
         /\ \A n \in 1 .. Len(s) : s[n].bundle = b => n <= Latest(s, b)
  <1>1. PICK I : I = {n \in 1 .. Len(s) : s[n].bundle = b} OBVIOUS
  <1>2. Latest(s, b) = IF I # {} THEN Max(I) ELSE 0 BY <1>1 DEF Latest, SelectLastInSeq
  <1>3. Len(s) \in Nat /\ I \in SUBSET (1 .. Len(s)) BY <1>1, LenProperties
  <1>4. CASE I = {} BY <1>1, <1>2, <1>3, <1>4
  <1>5. CASE I # {}
    <2>1. Max(I) \in I /\ \A i \in I : i <= Max(I) BY <1>3, <1>5, GreatestBelow
    <2> QED BY <1>1, <1>2, <1>3, <1>5, <2>1
  <1> QED BY <1>4, <1>5

\* take_prepared_bundle keeps a list of transactions; it removes the top, if
\* that is of the bundle, and nothing if no transaction is.
LEMMA TakeFacts ==
  ASSUME NEW s \in Seq(Entry), NEW b
  PROVE  /\ TakePrepared(s, b) \in Seq(Entry)
         /\ (\A n \in 1 .. Len(s) : s[n].bundle # b) => TakePrepared(s, b) = s
         /\ s # <<>> /\ s[Len(s)].bundle = b => TakePrepared(s, b) = Front(s)
  <1>0. Len(s) \in Nat BY LenProperties
  <1>1. TakePrepared(s, b) = IF Latest(s, b) = 0 THEN s ELSE RemoveAt(s, Latest(s, b)) BY DEF TakePrepared, Latest
  <1>2. PICK k : k = Latest(s, b) OBVIOUS
  <1>3. /\ k \in 0 .. Len(s) /\ (k # 0 => s[k].bundle = b)
        /\ \A n \in 1 .. Len(s) : s[n].bundle = b => n <= k
    BY <1>2, LatestFacts
  <1>4. \A n \in 1 .. Len(s) : s[n] \in Entry BY ElementOfSeq
  <1>5. ASSUME k # 0 PROVE RemoveAt(s, k) \in Seq(Entry)
    <2>0. k - 1 \in Int /\ k + 1 \in Int /\ Len(s) \in Int BY <1>0, <1>3
    <2>1. SubSeq(s, 1, k - 1) \in Seq(Entry)
      <3>1. \A n \in 1 .. k - 1 : s[n] \in Entry BY <1>0, <1>3, <1>4
      <3> QED BY <2>0, <3>1, SubSeqProperties
    <2>2. SubSeq(s, k + 1, Len(s)) \in Seq(Entry)
      <3>1. \A n \in k + 1 .. Len(s) : s[n] \in Entry BY <1>0, <1>3, <1>4
      <3> QED BY <2>0, <3>1, SubSeqProperties
    <2> QED BY <2>1, <2>2, ConcatProperties DEF RemoveAt
  <1>6. TakePrepared(s, b) \in Seq(Entry) BY <1>1, <1>2, <1>5
  <1>7. (\A n \in 1 .. Len(s) : s[n].bundle # b) => TakePrepared(s, b) = s
    BY <1>0, <1>1, <1>2, <1>3
  <1>8. ASSUME s # <<>>, s[Len(s)].bundle = b PROVE TakePrepared(s, b) = Front(s)
    <2>1. Len(s) # 0 BY <1>8, EmptySeq
    <2>2. k = Len(s) BY <1>0, <1>3, <1>8, <2>1
    <2>3. SubSeq(s, k + 1, Len(s)) = <<>> BY <1>0, <2>2, SubSeqEmpty
    <2>4. RemoveAt(s, k) = Front(s) \o <<>> BY <2>2, <2>3 DEF RemoveAt, Front
    <2>5. Front(s) \in Seq(Entry) BY <1>8, FrontFacts
    <2> QED BY <1>1, <1>2, <2>1, <2>2, <2>4, <2>5, ConcatEmptySeq
  <1> QED BY <1>6, <1>7, <1>8

-----------------------------------------------------------------------------
(***************************************************************************)
(* The init stacks and their count, whatever init code loads.              *)
(***************************************************************************)

LEMMA PushedIdsFacts ==
  /\ \A u, n : <<u, n>> \in PushedIds <=> u \in Thread /\ n \in 1 .. Len(init_bundle_stack[u])
  /\ \A e \in PushedIds : \E u, n : e = <<u, n>>
  BY DEF PushedIds

LEMMA PushedIdsNext ==
  /\ \A u, n : <<u, n>> \in PushedIds' <=> u \in Thread /\ n \in 1 .. Len(init_bundle_stack'[u])
  /\ \A e \in PushedIds' : \E u, n : e = <<u, n>>
  BY DEF PushedIds

\* push_init_bundle_id adds one id, and counts it.
LEMMA PushCounts ==
  ASSUME TypeOK, CountExact, NEW t \in Thread, NEW b \in Bundle, PushInitBundleId(t, b),
         opened < MaxWindows, opened' = opened + 1
  PROVE  /\ CountExact'
         /\ init_bundle_stack' \in [Thread -> Seq(Bundle)]
         /\ active_init_count' \in 0 .. MaxWindows /\ opened' \in 0 .. MaxWindows
  <1>1. init_bundle_stack \in [Thread -> Seq(Bundle)] /\ init_bundle_stack[t] \in Seq(Bundle) BY DEF TypeOK
  <1>2. /\ init_bundle_stack' \in [Thread -> Seq(Bundle)]
        /\ Len(init_bundle_stack'[t]) = Len(init_bundle_stack[t]) + 1 /\ Len(init_bundle_stack[t]) \in Nat
        /\ \A u \in Thread : u # t => init_bundle_stack'[u] = init_bundle_stack[u]
    <2>1. init_bundle_stack' = [init_bundle_stack EXCEPT ![t] = Append(init_bundle_stack[t], b)]
      BY DEF PushInitBundleId
    <2>2. /\ Append(init_bundle_stack[t], b) \in Seq(Bundle) /\ Len(init_bundle_stack[t]) \in Nat
          /\ Len(Append(init_bundle_stack[t], b)) = Len(init_bundle_stack[t]) + 1
      BY <1>1, AppendFacts
    <2> QED BY <1>1, <2>1, <2>2
  <1>3. PICK e : e = <<t, Len(init_bundle_stack[t]) + 1>> OBVIOUS
  <1>4. e \notin PushedIds BY <1>2, <1>3, PushedIdsFacts
  <1>5. PushedIds' = PushedIds \cup {e}
    <2>1. ASSUME NEW u, NEW n PROVE <<u, n>> \in PushedIds' <=> <<u, n>> \in PushedIds \/ <<u, n>> = e
      <3>1. CASE u = t
        <4>1. n \in 1 .. Len(init_bundle_stack[t]) + 1 <=> n \in 1 .. Len(init_bundle_stack[t]) \/ n = Len(init_bundle_stack[t]) + 1
          BY <1>2
        <4> QED BY <1>2, <1>3, <3>1, <4>1, PushedIdsFacts, PushedIdsNext
      <3>2. CASE u # t
        <4>1. <<u, n>> # e BY <1>3, <3>2
        <4> QED BY <1>2, <3>2, <4>1, PushedIdsFacts, PushedIdsNext
      <3> QED BY <3>1, <3>2
    <2> QED BY <1>3, <2>1, PushedIdsFacts, PushedIdsNext
  <1>6. IsFiniteSet(PushedIds') /\ Cardinality(PushedIds') = Cardinality(PushedIds) + 1
    BY <1>4, <1>5, FS_AddElement DEF CountExact
  <1>7. /\ active_init_count' = active_init_count + 1 /\ active_init_count = Cardinality(PushedIds)
        /\ active_init_count \in Nat /\ active_init_count <= opened
    BY FS_CardinalityType DEF PushInitBundleId, CountExact
  <1>8. opened \in Nat /\ MaxWindows \in Nat BY InitStackAssumption DEF TypeOK
  <1>9. active_init_count' \in 0 .. MaxWindows /\ opened' \in 0 .. MaxWindows /\ active_init_count' <= opened'
    BY <1>7, <1>8
  <1>10. CountExact' BY <1>6, <1>7, <1>9 DEF CountExact
  <1> QED BY <1>2, <1>9, <1>10

\* pop_init_bundle_id removes one id, if there is one, and counts it off.
LEMMA PopCounts ==
  ASSUME TypeOK, CountExact, NEW t \in Thread, PopInitBundleId(t), opened' = opened
  PROVE  /\ CountExact'
         /\ init_bundle_stack' \in [Thread -> Seq(Bundle)]
         /\ active_init_count' \in 0 .. MaxWindows
  <1>1. init_bundle_stack \in [Thread -> Seq(Bundle)] /\ init_bundle_stack[t] \in Seq(Bundle) BY DEF TypeOK
  <1>2. CASE init_bundle_stack[t] = <<>>
    <2>1. UNCHANGED <<init_bundle_stack, active_init_count>> BY <1>2 DEF PopInitBundleId
    <2>2. PushedIds' = PushedIds BY <2>1 DEF PushedIds
    <2> QED BY <2>1, <2>2 DEF TypeOK, CountExact
  <1>3. CASE init_bundle_stack[t] # <<>>
    <2>1. /\ init_bundle_stack' \in [Thread -> Seq(Bundle)]
          /\ Len(init_bundle_stack'[t]) = Len(init_bundle_stack[t]) - 1 /\ Len(init_bundle_stack[t]) \in Nat \ {0}
          /\ \A u \in Thread : u # t => init_bundle_stack'[u] = init_bundle_stack[u]
      <3>1. init_bundle_stack' = [init_bundle_stack EXCEPT ![t] = Front(init_bundle_stack[t])]
        BY <1>3 DEF PopInitBundleId
      <3>2. /\ Front(init_bundle_stack[t]) \in Seq(Bundle) /\ Len(init_bundle_stack[t]) \in Nat \ {0}
            /\ Len(Front(init_bundle_stack[t])) = Len(init_bundle_stack[t]) - 1
        BY <1>1, <1>3, FrontFacts
      <3> QED BY <1>1, <3>1, <3>2
    <2>2. PICK e : e = <<t, Len(init_bundle_stack[t])>> OBVIOUS
    <2>3. e \in PushedIds
      <3>1. Len(init_bundle_stack[t]) \in 1 .. Len(init_bundle_stack[t]) BY <2>1
      <3> QED BY <2>2, <3>1, PushedIdsFacts
    <2>4. PushedIds' = PushedIds \ {e}
      <3>1. ASSUME NEW u, NEW n PROVE <<u, n>> \in PushedIds' <=> <<u, n>> \in PushedIds /\ <<u, n>> # e
        <4>1. CASE u = t
          <5>1. n \in 1 .. Len(init_bundle_stack[t]) - 1 <=> n \in 1 .. Len(init_bundle_stack[t]) /\ n # Len(init_bundle_stack[t])
            BY <2>1
          <5> QED BY <2>1, <2>2, <4>1, <5>1, PushedIdsFacts, PushedIdsNext
        <4>2. CASE u # t
          <5>1. <<u, n>> # e BY <2>2, <4>2
          <5> QED BY <2>1, <4>2, <5>1, PushedIdsFacts, PushedIdsNext
        <4> QED BY <4>1, <4>2
      <3> QED BY <2>2, <3>1, PushedIdsFacts, PushedIdsNext
    <2>5. IsFiniteSet(PushedIds') /\ Cardinality(PushedIds') = Cardinality(PushedIds) - 1
      BY <2>3, <2>4, FS_RemoveElement DEF CountExact
    <2>6. Cardinality(PushedIds') \in Nat BY <2>5, FS_CardinalityType
    <2>7. /\ active_init_count' = active_init_count - 1 /\ active_init_count = Cardinality(PushedIds)
          /\ active_init_count <= opened
      BY <1>3 DEF PopInitBundleId, CountExact
    <2>8. active_init_count' = Cardinality(PushedIds') BY <2>5, <2>7
    <2>9. active_init_count \in 0 .. MaxWindows /\ opened \in 0 .. MaxWindows /\ MaxWindows \in Nat
      BY InitStackAssumption DEF TypeOK
    <2>10. active_init_count' \in 0 .. MaxWindows /\ active_init_count' <= opened' BY <2>6, <2>7, <2>8, <2>9
    <2> QED BY <2>1, <2>5, <2>8, <2>10 DEF CountExact
  <1> QED BY <1>2, <1>3

-----------------------------------------------------------------------------
\* A window closes: the others of its thread are as before.
LEMMA CloseFacts ==
  ASSUME TypeOK, NEW t \in Thread, windows[t] # <<>>, CloseWindow(t)
  PROVE  /\ windows' \in [Thread -> Seq(OpenedWindow)]
         /\ \A u \in Thread : Len(windows'[u]) <= MaxDepth
         /\ Len(windows[t]) \in Nat \ {0} /\ Len(windows'[t]) = Len(windows[t]) - 1
         /\ Last(windows[t]) = windows[t][Len(windows[t])] /\ Last(windows[t]) \in OpenedWindow
         /\ \A n \in 1 .. Len(windows[t]) - 1 : windows'[t][n] = windows[t][n]
         /\ \A u \in Thread : u # t => windows'[u] = windows[u]
  <1>1. windows \in [Thread -> Seq(OpenedWindow)] /\ windows[t] \in Seq(OpenedWindow) BY DEF TypeOK
  <1>2. windows' = [windows EXCEPT ![t] = Front(windows[t])] BY DEF CloseWindow
  <1>3. /\ Len(windows[t]) \in Nat \ {0} /\ Last(windows[t]) \in OpenedWindow
        /\ Last(windows[t]) = windows[t][Len(windows[t])]
        /\ Front(windows[t]) \in Seq(OpenedWindow) /\ Len(Front(windows[t])) = Len(windows[t]) - 1
        /\ \A n \in 1 .. Len(windows[t]) - 1 : Front(windows[t])[n] = windows[t][n]
    BY <1>1, FrontFacts
  <1>4. windows'[t] = Front(windows[t]) /\ \A u \in Thread : u # t => windows'[u] = windows[u] BY <1>1, <1>2
  <1>5. windows' \in [Thread -> Seq(OpenedWindow)] BY <1>1, <1>2, <1>3
  <1>6. MaxDepth \in Nat /\ \A u \in Thread : Len(windows[u]) <= MaxDepth BY InitStackAssumption DEF TypeOK
  <1>7. Len(windows'[t]) <= MaxDepth BY <1>3, <1>4, <1>6
  <1>8. \A u \in Thread : Len(windows'[u]) <= MaxDepth BY <1>4, <1>6, <1>7
  <1> QED BY <1>3, <1>4, <1>5, <1>8

\* A transaction goes from the lists.
LEMMA TakeType ==
  ASSUME TypeOK, NEW t \in Thread, NEW b
  PROVE  /\ [prepared_bundles EXCEPT ![t] = TakePrepared(@, b)] \in [Thread -> Seq(Entry)]
         /\ [prepared_bundles EXCEPT ![t] = TakePrepared(TakePrepared(@, b), b)] \in [Thread -> Seq(Entry)]
  <1>1. prepared_bundles \in [Thread -> Seq(Entry)] /\ prepared_bundles[t] \in Seq(Entry) BY DEF TypeOK
  <1>2. TakePrepared(prepared_bundles[t], b) \in Seq(Entry) BY <1>1, TakeFacts
  <1>3. TakePrepared(TakePrepared(prepared_bundles[t], b), b) \in Seq(Entry) BY <1>2, TakeFacts
  <1> QED BY <1>1, <1>2, <1>3

\* The transaction a thread has open for a bundle.
LEMMA PreparedType ==
  ASSUME TypeOK, NEW t \in Thread, NEW b
  PROVE  /\ Prepared(t, b) \in 0 .. Len(prepared_bundles[t]) /\ Len(prepared_bundles[t]) \in Nat
         /\ Prepared(t, b) # 0 =>
              /\ prepared_bundles[t][Prepared(t, b)] \in Entry
              /\ prepared_bundles[t][Prepared(t, b)].bundle = b
              /\ prepared_bundles[t][Prepared(t, b)].contracts \subseteq Provided
         /\ \A n \in 1 .. Len(prepared_bundles[t]) : prepared_bundles[t][n].bundle = b => n <= Prepared(t, b)
  <1>1. prepared_bundles[t] \in Seq(Entry) BY DEF TypeOK
  <1>2. Len(prepared_bundles[t]) \in Nat /\ \A n \in 1 .. Len(prepared_bundles[t]) : prepared_bundles[t][n] \in Entry
    BY <1>1, LenProperties, ElementOfSeq
  <1>3. Prepared(t, b) = Latest(prepared_bundles[t], b) BY DEF Prepared, Latest
  <1>4. /\ Prepared(t, b) \in 0 .. Len(prepared_bundles[t])
        /\ Prepared(t, b) # 0 => prepared_bundles[t][Prepared(t, b)].bundle = b
        /\ \A n \in 1 .. Len(prepared_bundles[t]) : prepared_bundles[t][n].bundle = b => n <= Prepared(t, b)
    BY <1>1, <1>3, LatestFacts
  <1>5. Prepared(t, b) # 0 => prepared_bundles[t][Prepared(t, b)] \in Entry BY <1>2, <1>4
  <1>6. \A e \in Entry : e.contracts \subseteq Provided BY DEF Entry
  <1> QED BY <1>2, <1>4, <1>5, <1>6

\* commit_prepared_bundle_transaction.
LEMMA PublishType ==
  ASSUME TypeOK, NEW t \in Thread, NEW b \in Bundle, Publish(t, b)
  PROVE  /\ bundle_data' \subseteq Bundle /\ contracts' \in [Bundle -> SUBSET Provided]
         /\ prepared_bundles' \in [Thread -> Seq(Entry)]
  <1>1. prepared_bundles[t][Prepared(t, b)].contracts \subseteq Provided BY PreparedType DEF Publish
  <1>2. contracts' = [contracts EXCEPT ![b] = contracts[b] \cup prepared_bundles[t][Prepared(t, b)].contracts]
    BY DEF Publish
  <1>3. contracts \in [Bundle -> SUBSET Provided] /\ bundle_data \subseteq Bundle BY DEF TypeOK
  <1>4. contracts' \in [Bundle -> SUBSET Provided] BY <1>1, <1>2, <1>3
  <1>5. bundle_data' \subseteq Bundle BY <1>3 DEF Publish
  <1>6. prepared_bundles' \in [Thread -> Seq(Entry)] BY TakeType DEF Publish
  <1> QED BY <1>4, <1>5, <1>6

\* A window opens on top of the others.
LEMMA OpenFacts ==
  ASSUME TypeOK, NEW t \in Thread, NEW b \in Bundle, NEW kind \in {"load", "internal"}, OpenWindow(t, b, kind)
  PROVE  /\ windows' \in [Thread -> Seq(OpenedWindow)]
         /\ \A u \in Thread : Len(windows'[u]) <= MaxDepth
         /\ Len(windows[t]) \in Nat /\ Len(windows'[t]) = Len(windows[t]) + 1
         /\ windows'[t][Len(windows[t]) + 1].bundle = b
         /\ windows'[t] # <<>> /\ Last(windows'[t]) = windows'[t][Len(windows[t]) + 1]
         /\ \A n \in 1 .. Len(windows[t]) : windows'[t][n] = windows[t][n]
         /\ \A u \in Thread : u # t => windows'[u] = windows[u]
         /\ prepared_bundles' \in [Thread -> Seq(Entry)]
         /\ Len(prepared_bundles[t]) \in Nat /\ Len(prepared_bundles'[t]) = Len(prepared_bundles[t]) + 1
         /\ prepared_bundles'[t][Len(prepared_bundles[t]) + 1] = [bundle |-> b, contracts |-> {}]
         /\ \A n \in 1 .. Len(prepared_bundles[t]) : prepared_bundles'[t][n] = prepared_bundles[t][n]
         /\ \A u \in Thread : u # t => prepared_bundles'[u] = prepared_bundles[u]
  <1>1. /\ windows \in [Thread -> Seq(OpenedWindow)] /\ windows[t] \in Seq(OpenedWindow)
        /\ prepared_bundles \in [Thread -> Seq(Entry)] /\ prepared_bundles[t] \in Seq(Entry)
    BY DEF TypeOK
  <1>2. PICK w : w = [bundle |-> b, window |-> opened', kind |-> kind] OBVIOUS
  <1>3. PICK e : e = [bundle |-> b, contracts |-> {}] OBVIOUS
  <1>4. windows' = [windows EXCEPT ![t] = Append(windows[t], w)] /\ opened' = opened + 1 /\ opened < MaxWindows
    BY <1>2 DEF OpenWindow
  <1>5. prepared_bundles' = [prepared_bundles EXCEPT ![t] = Append(prepared_bundles[t], e)] BY <1>3 DEF OpenWindow
  <1>6. opened' \in Window BY <1>4, InitStackAssumption DEF TypeOK, Window
  <1>7. w \in OpenedWindow /\ w.bundle = b BY <1>2, <1>6 DEF OpenedWindow
  <1>8. e \in Entry BY <1>3 DEF Entry
  <1>9. /\ Len(windows[t]) \in Nat /\ Append(windows[t], w) \in Seq(OpenedWindow)
        /\ Len(Append(windows[t], w)) = Len(windows[t]) + 1
        /\ Append(windows[t], w)[Len(windows[t]) + 1] = w
        /\ Append(windows[t], w) # <<>> /\ Last(Append(windows[t], w)) = w
        /\ \A n \in 1 .. Len(windows[t]) : Append(windows[t], w)[n] = windows[t][n]
    BY <1>1, <1>7, AppendFacts
  <1>10. /\ Len(prepared_bundles[t]) \in Nat /\ Append(prepared_bundles[t], e) \in Seq(Entry)
         /\ Len(Append(prepared_bundles[t], e)) = Len(prepared_bundles[t]) + 1
         /\ Append(prepared_bundles[t], e)[Len(prepared_bundles[t]) + 1] = e
         /\ \A n \in 1 .. Len(prepared_bundles[t]) : Append(prepared_bundles[t], e)[n] = prepared_bundles[t][n]
    BY <1>1, <1>8, AppendFacts
  <1>11. windows'[t] = Append(windows[t], w) /\ \A u \in Thread : u # t => windows'[u] = windows[u] BY <1>1, <1>4
  <1>12. prepared_bundles'[t] = Append(prepared_bundles[t], e)
         /\ \A u \in Thread : u # t => prepared_bundles'[u] = prepared_bundles[u]
    BY <1>1, <1>5
  <1>13. windows' \in [Thread -> Seq(OpenedWindow)] BY <1>1, <1>4, <1>9
  <1>14. prepared_bundles' \in [Thread -> Seq(Entry)] BY <1>1, <1>5, <1>10
  <1>15. \A u \in Thread : Len(windows'[u]) <= MaxDepth
    <2>1. MaxDepth \in Nat /\ Len(windows[t]) < MaxDepth /\ \A u \in Thread : Len(windows[u]) <= MaxDepth
      BY InitStackAssumption DEF TypeOK, OpenWindow
    <2>2. Len(windows'[t]) <= MaxDepth BY <1>9, <1>11, <2>1
    <2> QED BY <1>11, <2>1, <2>2
  <1>16. windows'[t][Len(windows[t]) + 1] = w BY <1>9, <1>11
  <1>17. windows'[t] # <<>> /\ Last(windows'[t]) = w BY <1>9, <1>11
  <1> QED BY <1>3, <1>7, <1>9, <1>10, <1>11, <1>12, <1>13, <1>14, <1>15, <1>16, <1>17

\* The current bundle is the top of the thread's init stack.
LEMMA CurrentFacts ==
  ASSUME TypeOK, NEW t \in Thread, CurrentInitBundleId(t) # None
  PROVE  /\ init_bundle_stack[t] # <<>> /\ CurrentInitBundleId(t) \in Bundle
         /\ CurrentInitBundleId(t) = init_bundle_stack[t][Len(init_bundle_stack[t])]
  <1>1. init_bundle_stack[t] # <<>> /\ CurrentInitBundleId(t) = Last(init_bundle_stack[t]) BY DEF CurrentInitBundleId
  <1>2. init_bundle_stack[t] \in Seq(Bundle) BY DEF TypeOK
  <1> QED BY <1>1, <1>2, FrontFacts

\* What a registration does, staged or not.
LEMMA RegisterFacts ==
  ASSUME TypeOK, NEW t \in Thread, NEW c \in Contract, HostRegisterGuestContract(t, c),
         NEW b, b = CurrentInitBundleId(t), NEW n, n = Prepared(t, b),
         NEW p, p = [contract |-> c, window |-> Last(windows[t]).window]
  PROVE  /\ windows[t] # <<>> /\ b # None /\ b \in Bundle /\ p \in Provided
         /\ n # 0 =>
              /\ prepared_bundles' = [prepared_bundles EXCEPT ![t] =
                   [prepared_bundles[t] EXCEPT ![n] = [prepared_bundles[t][n] EXCEPT
                      !.contracts = prepared_bundles[t][n].contracts \cup {p}]]]
              /\ UNCHANGED <<bundle_data, contracts>>
         /\ n = 0 =>
              /\ contracts' = [contracts EXCEPT ![b] = contracts[b] \cup {p}]
              /\ bundle_data' = bundle_data \cup {b}
              /\ UNCHANGED prepared_bundles
         /\ UNCHANGED <<init_bundle_stack, active_init_count, windows, opened>>
  <1>1. windows[t] # <<>> /\ b # None BY DEF HostRegisterGuestContract
  <1>2. b \in Bundle BY <1>1, CurrentFacts
  <1>3. windows[t] \in Seq(OpenedWindow) BY DEF TypeOK
  <1>4. Last(windows[t]) \in OpenedWindow BY <1>1, <1>3, FrontFacts
  <1>5. p \in Provided BY <1>4 DEF OpenedWindow, Provided
  <1>6. UNCHANGED <<init_bundle_stack, active_init_count, windows, opened>> BY DEF HostRegisterGuestContract
  <1>7. n = 0 =>
              /\ contracts' = [contracts EXCEPT ![b] = contracts[b] \cup {p}]
              /\ bundle_data' = bundle_data \cup {b}
              /\ UNCHANGED prepared_bundles
    BY DEF HostRegisterGuestContract
  <1>8. n # 0 =>
              /\ prepared_bundles' = [prepared_bundles EXCEPT ![t] =
                   [prepared_bundles[t] EXCEPT ![n] = [prepared_bundles[t][n] EXCEPT
                      !.contracts = prepared_bundles[t][n].contracts \cup {p}]]]
              /\ UNCHANGED <<bundle_data, contracts>>
    BY DEF HostRegisterGuestContract
  <1> QED BY <1>1, <1>2, <1>5, <1>6, <1>7, <1>8

\* A registration keeps the lists of transactions, but for one more contract.
LEMMA StagedFacts ==
  ASSUME TypeOK, NEW t \in Thread, NEW n \in 1 .. Len(prepared_bundles[t]), NEW p \in Provided,
         prepared_bundles' = [prepared_bundles EXCEPT ![t] =
           [prepared_bundles[t] EXCEPT ![n] = [prepared_bundles[t][n] EXCEPT
              !.contracts = prepared_bundles[t][n].contracts \cup {p}]]]
  PROVE  /\ prepared_bundles' \in [Thread -> Seq(Entry)]
         /\ Len(prepared_bundles'[t]) = Len(prepared_bundles[t])
         /\ prepared_bundles'[t][n].bundle = prepared_bundles[t][n].bundle
         /\ prepared_bundles'[t][n].contracts = prepared_bundles[t][n].contracts \cup {p}
         /\ \A m \in 1 .. Len(prepared_bundles[t]) : m # n => prepared_bundles'[t][m] = prepared_bundles[t][m]
         /\ \A u \in Thread : u # t => prepared_bundles'[u] = prepared_bundles[u]
  <1>1. prepared_bundles \in [Thread -> Seq(Entry)] /\ prepared_bundles[t] \in Seq(Entry) BY DEF TypeOK
  <1>2. prepared_bundles[t][n] \in Entry BY <1>1, ElementOfSeq
  <1>3. PICK e : e = [prepared_bundles[t][n] EXCEPT !.contracts = prepared_bundles[t][n].contracts \cup {p}] OBVIOUS
  <1>4. /\ e \in Entry /\ e.bundle = prepared_bundles[t][n].bundle
        /\ e.contracts = prepared_bundles[t][n].contracts \cup {p}
    BY <1>2, <1>3 DEF Entry
  <1>5. PICK q : q = [prepared_bundles[t] EXCEPT ![n] = e] OBVIOUS
  <1>6. /\ q \in Seq(Entry) /\ Len(q) = Len(prepared_bundles[t])
        /\ \A m \in 1 .. Len(prepared_bundles[t]) : q[m] = IF m = n THEN e ELSE prepared_bundles[t][m]
    BY <1>1, <1>4, <1>5, ExceptSeq
  <1>7. prepared_bundles' = [prepared_bundles EXCEPT ![t] = q] BY <1>3, <1>5
  <1>8. prepared_bundles'[t] = q /\ \A u \in Thread : u # t => prepared_bundles'[u] = prepared_bundles[u]
    BY <1>1, <1>7
  <1>9. prepared_bundles' \in [Thread -> Seq(Entry)] BY <1>1, <1>6, <1>7
  <1> QED BY <1>4, <1>6, <1>8, <1>9

\* Types and the count hold whatever init code does, loading its own bundle
\* included.
LEMMA StackStep ==
  ASSUME TypeOK, CountExact, [Next]_vars
  PROVE  TypeOK' /\ CountExact'
  <1> USE InitStackAssumption
  <1>1. ASSUME NEW t \in Thread, NEW b \in Bundle, NEW kind \in {"load", "internal"}, OpenWindow(t, b, kind)
        PROVE  TypeOK' /\ CountExact'
    <2>1. /\ PushInitBundleId(t, b) /\ opened < MaxWindows /\ opened' = opened + 1
          /\ UNCHANGED <<bundle_data, contracts>>
      BY <1>1 DEF OpenWindow
    <2>2. /\ CountExact' /\ init_bundle_stack' \in [Thread -> Seq(Bundle)]
          /\ active_init_count' \in 0 .. MaxWindows /\ opened' \in 0 .. MaxWindows
      BY <2>1, PushCounts
    <2>3. /\ windows' \in [Thread -> Seq(OpenedWindow)] /\ prepared_bundles' \in [Thread -> Seq(Entry)]
          /\ \A u \in Thread : Len(windows'[u]) <= MaxDepth
      BY <1>1, OpenFacts
    <2> QED BY <2>1, <2>2, <2>3 DEF TypeOK
  <1>2. ASSUME NEW t \in Thread, NEW c \in Contract, HostRegisterGuestContract(t, c)
        PROVE  TypeOK' /\ CountExact'
    <2>1. PICK b, n, p : b = CurrentInitBundleId(t) /\ n = Prepared(t, b)
                         /\ p = [contract |-> c, window |-> Last(windows[t]).window]
      OBVIOUS
    <2>2. /\ b \in Bundle /\ p \in Provided
          /\ n # 0 =>
              /\ prepared_bundles' = [prepared_bundles EXCEPT ![t] =
                   [prepared_bundles[t] EXCEPT ![n] = [prepared_bundles[t][n] EXCEPT
                      !.contracts = prepared_bundles[t][n].contracts \cup {p}]]]
              /\ UNCHANGED <<bundle_data, contracts>>
          /\ n = 0 =>
              /\ contracts' = [contracts EXCEPT ![b] = contracts[b] \cup {p}]
              /\ bundle_data' = bundle_data \cup {b}
              /\ UNCHANGED prepared_bundles
          /\ UNCHANGED <<init_bundle_stack, active_init_count, windows, opened>>
      BY <1>2, <2>1, RegisterFacts
    <2>3. CountExact' BY <2>2 DEF CountExact, PushedIds
    <2>4. n \in 0 .. Len(prepared_bundles[t]) /\ Len(prepared_bundles[t]) \in Nat BY <2>1, PreparedType
    <2>5. CASE n # 0
      <3>1. n \in 1 .. Len(prepared_bundles[t]) BY <2>4, <2>5
      <3>2. prepared_bundles' \in [Thread -> Seq(Entry)] BY <2>2, <2>5, <3>1, StagedFacts
      <3> QED BY <2>2, <2>3, <2>5, <3>2 DEF TypeOK
    <2>6. CASE n = 0
      <3>1. contracts' \in [Bundle -> SUBSET Provided]
        <4>1. contracts \in [Bundle -> SUBSET Provided] BY DEF TypeOK
        <4>2. PICK X \in SUBSET Provided : X = contracts[b] \cup {p} BY <2>2, <4>1
        <4>3. contracts' = [contracts EXCEPT ![b] = X] BY <2>2, <2>6, <4>2
        <4> QED BY <4>1, <4>2, <4>3
      <3>2. bundle_data' \subseteq Bundle BY <2>2, <2>6 DEF TypeOK
      <3> QED BY <2>2, <2>3, <2>6, <3>1, <3>2 DEF TypeOK
    <2> QED BY <2>5, <2>6
  <1>3. ASSUME NEW t \in Thread, windows[t] # <<>>, CloseWindow(t), opened' = opened,
               \/ PopInitBundleId(t)
               \/ UNCHANGED <<init_bundle_stack, active_init_count>>,
               prepared_bundles' \in [Thread -> Seq(Entry)],
               bundle_data' \subseteq Bundle, contracts' \in [Bundle -> SUBSET Provided]
        PROVE  TypeOK' /\ CountExact'
    <2>1. windows' \in [Thread -> Seq(OpenedWindow)] /\ \A u \in Thread : Len(windows'[u]) <= MaxDepth
      BY <1>3, CloseFacts
    <2>2. /\ CountExact' /\ init_bundle_stack' \in [Thread -> Seq(Bundle)]
          /\ active_init_count' \in 0 .. MaxWindows
      <3>1. CASE PopInitBundleId(t) BY <1>3, <3>1, PopCounts
      <3>2. CASE UNCHANGED <<init_bundle_stack, active_init_count>>
        BY <1>3, <3>2 DEF TypeOK, CountExact, PushedIds
      <3> QED BY <1>3, <3>1, <3>2
    <2> QED BY <1>3, <2>1, <2>2 DEF TypeOK
  <1>4. ASSUME NEW t \in Thread, windows[t] # <<>>
        PROVE  Last(windows[t]).bundle \in Bundle
    <2>1. windows[t] \in Seq(OpenedWindow) BY DEF TypeOK
    <2>2. Last(windows[t]) \in OpenedWindow BY <1>4, <2>1, FrontFacts
    <2> QED BY <2>2 DEF OpenedWindow
  <1>5. ASSUME NEW t \in Thread, LoadCommits(t) PROVE TypeOK' /\ CountExact'
    <2>1. /\ windows[t] # <<>> /\ Publish(t, Last(windows[t]).bundle) /\ PopInitBundleId(t)
          /\ CloseWindow(t) /\ opened' = opened
      BY <1>5 DEF LoadCommits, Innermost
    <2>2. /\ bundle_data' \subseteq Bundle /\ contracts' \in [Bundle -> SUBSET Provided]
          /\ prepared_bundles' \in [Thread -> Seq(Entry)]
      BY <1>4, <2>1, PublishType
    <2> QED BY <1>3, <2>1, <2>2
  <1>6. ASSUME NEW t \in Thread, LoadFails(t) PROVE TypeOK' /\ CountExact'
    <2>1. /\ windows[t] # <<>> /\ PopInitBundleId(t) /\ CloseWindow(t) /\ UNCHANGED <<bundle_data, contracts, opened>>
      BY <1>6 DEF LoadFails, Innermost
    <2>2. prepared_bundles' \in [Thread -> Seq(Entry)] BY <1>6, TakeType DEF LoadFails
    <2>3. bundle_data' \subseteq Bundle /\ contracts' \in [Bundle -> SUBSET Provided] BY <2>1 DEF TypeOK
    <2> QED BY <1>3, <2>1, <2>2, <2>3
  <1>7. ASSUME NEW t \in Thread, LoadCommitFails(t) PROVE TypeOK' /\ CountExact'
    <2>1. /\ windows[t] # <<>> /\ PopInitBundleId(t) /\ CloseWindow(t) /\ UNCHANGED <<bundle_data, contracts, opened>>
      BY <1>7 DEF LoadCommitFails, Innermost
    <2>2. prepared_bundles' \in [Thread -> Seq(Entry)] BY <1>7, TakeType DEF LoadCommitFails
    <2>3. bundle_data' \subseteq Bundle /\ contracts' \in [Bundle -> SUBSET Provided] BY <2>1 DEF TypeOK
    <2> QED BY <1>3, <2>1, <2>2, <2>3
  <1>8. ASSUME NEW t \in Thread, CommitInternalPlugin(t) PROVE TypeOK' /\ CountExact'
    <2>1. /\ windows[t] # <<>> /\ PopInitBundleId(t) /\ CloseWindow(t) /\ opened' = opened
      BY <1>8 DEF CommitInternalPlugin, Innermost
    <2>2. CASE Publish(t, Last(windows[t]).bundle)
      <3>1. /\ bundle_data' \subseteq Bundle /\ contracts' \in [Bundle -> SUBSET Provided]
            /\ prepared_bundles' \in [Thread -> Seq(Entry)]
        BY <1>4, <2>1, <2>2, PublishType
      <3> QED BY <1>3, <2>1, <3>1
    <2>3. CASE /\ prepared_bundles' = [prepared_bundles EXCEPT ![t] = TakePrepared(@, Last(windows[t]).bundle)]
               /\ UNCHANGED <<bundle_data, contracts>>
      <3>1. prepared_bundles' \in [Thread -> Seq(Entry)] BY <2>3, TakeType
      <3>2. bundle_data' \subseteq Bundle /\ contracts' \in [Bundle -> SUBSET Provided] BY <2>3 DEF TypeOK
      <3> QED BY <1>3, <2>1, <3>1, <3>2
    <2> QED BY <1>8, <2>2, <2>3 DEF CommitInternalPlugin
  <1>9. ASSUME NEW t \in Thread, AbortInternalPlugin(t) PROVE TypeOK' /\ CountExact'
    <2>1. /\ windows[t] # <<>> /\ CloseWindow(t) /\ UNCHANGED <<bundle_data, contracts, opened>>
          /\ PopInitBundleId(t) \/ UNCHANGED <<init_bundle_stack, active_init_count>>
      BY <1>9 DEF AbortInternalPlugin, Innermost
    <2>2. prepared_bundles' \in [Thread -> Seq(Entry)] BY <1>9, TakeType DEF AbortInternalPlugin
    <2>3. bundle_data' \subseteq Bundle /\ contracts' \in [Bundle -> SUBSET Provided] BY <2>1 DEF TypeOK
    <2> QED BY <1>3, <2>1, <2>2, <2>3
  <1>10. ASSUME NEW b \in Bundle, UnloadBundle(b) PROVE TypeOK' /\ CountExact'
    BY <1>10 DEF UnloadBundle, TypeOK, CountExact, PushedIds
  <1>11. ASSUME UNCHANGED vars PROVE TypeOK' /\ CountExact'
    BY <1>11 DEF vars, TypeOK, CountExact, PushedIds
  <1> QED
    BY <1>1, <1>2, <1>5, <1>6, <1>7, <1>8, <1>9, <1>10, <1>11
       DEF Next, Enter, Register, Leave, Unload, LoadBundle, BeginInternalPlugin

-----------------------------------------------------------------------------
(***************************************************************************)
(* Windows, init stacks and transactions, where no init loads its own      *)
(* bundle.                                                                 *)
(***************************************************************************)

\* The innermost window of a thread has the top id and the top transaction, the
\* only one of its bundle.
LEMMA TopFacts ==
  ASSUME TypeOK, WindowsMatched, NEW t \in Thread, windows[t] # <<>>,
         NEW b, b = Last(windows[t]).bundle, NEW N, N = Len(windows[t])
  PROVE  /\ N \in Nat \ {0} /\ b \in Bundle /\ Last(windows[t]) = windows[t][N] /\ windows[t][N] \in OpenedWindow
         /\ init_bundle_stack[t] # <<>> /\ Len(init_bundle_stack[t]) = N /\ init_bundle_stack[t][N] = b
         /\ Len(prepared_bundles[t]) = N /\ Prepared(t, b) = N
         /\ \A p \in prepared_bundles[t][N].contracts : p.window = windows[t][N].window
         /\ TakePrepared(prepared_bundles[t], b) = Front(prepared_bundles[t])
         /\ TakePrepared(TakePrepared(prepared_bundles[t], b), b) = Front(prepared_bundles[t])
  <1>1. /\ windows[t] \in Seq(OpenedWindow) /\ prepared_bundles[t] \in Seq(Entry)
        /\ init_bundle_stack[t] \in Seq(Bundle)
    BY DEF TypeOK
  <1>2. N \in Nat \ {0} /\ Last(windows[t]) = windows[t][N] /\ windows[t][N] \in OpenedWindow BY <1>1, FrontFacts
  <1>3. b \in Bundle /\ b = windows[t][N].bundle BY <1>2 DEF OpenedWindow
  <1>4. N \in 1 .. N BY <1>2
  <1>5. /\ Len(init_bundle_stack[t]) = N /\ Len(prepared_bundles[t]) = N
        /\ \A n \in 1 .. N : /\ init_bundle_stack[t][n] = windows[t][n].bundle
                             /\ prepared_bundles[t][n].bundle = windows[t][n].bundle
                             /\ \A p \in prepared_bundles[t][n].contracts : p.window = windows[t][n].window
        /\ \A m, n \in 1 .. N : windows[t][m].bundle = windows[t][n].bundle => m = n
    BY DEF WindowsMatched
  <1>6. init_bundle_stack[t] # <<>> /\ prepared_bundles[t] # <<>> BY <1>1, <1>2, <1>5, EmptySeq
  <1>7. prepared_bundles[t][N].bundle = b /\ init_bundle_stack[t][N] = b BY <1>3, <1>4, <1>5
  <1>8. Prepared(t, b) = N
    <2>1. Prepared(t, b) \in 0 .. N /\ \A n \in 1 .. N : prepared_bundles[t][n].bundle = b => n <= Prepared(t, b)
      BY <1>5, PreparedType
    <2> QED BY <1>2, <1>4, <1>7, <2>1
  <1>9. TakePrepared(prepared_bundles[t], b) = Front(prepared_bundles[t]) BY <1>1, <1>5, <1>6, <1>7, TakeFacts
  <1>10. /\ Front(prepared_bundles[t]) \in Seq(Entry) /\ Len(Front(prepared_bundles[t])) = N - 1
         /\ \A n \in 1 .. N - 1 : Front(prepared_bundles[t])[n] = prepared_bundles[t][n]
    <2>1. /\ Front(prepared_bundles[t]) \in Seq(Entry)
          /\ Len(Front(prepared_bundles[t])) = Len(prepared_bundles[t]) - 1
          /\ \A n \in 1 .. Len(prepared_bundles[t]) - 1 : Front(prepared_bundles[t])[n] = prepared_bundles[t][n]
      BY <1>1, <1>6, FrontFacts
    <2> QED BY <1>5, <2>1
  <1>11. \A n \in 1 .. N - 1 : Front(prepared_bundles[t])[n].bundle # b
    <2> TAKE n \in 1 .. N - 1
    <2>1. n \in 1 .. N /\ n # N BY <1>2
    <2>2. windows[t][n].bundle # windows[t][N].bundle BY <1>4, <1>5, <2>1
    <2> QED BY <1>3, <1>5, <1>10, <2>1, <2>2
  <1>12. TakePrepared(Front(prepared_bundles[t]), b) = Front(prepared_bundles[t]) BY <1>10, <1>11, TakeFacts
  <1> QED BY <1>2, <1>3, <1>4, <1>5, <1>6, <1>7, <1>8, <1>9, <1>12

\* The innermost window goes, with its id and its transaction.
LEMMA CloseMatches ==
  ASSUME TypeOK, WindowsMatched, NEW t \in Thread, windows[t] # <<>>, CloseWindow(t),
         init_bundle_stack' = [init_bundle_stack EXCEPT ![t] = Front(init_bundle_stack[t])],
         prepared_bundles' = [prepared_bundles EXCEPT ![t] = Front(prepared_bundles[t])]
  PROVE  WindowsMatched'
  <1>1. /\ init_bundle_stack \in [Thread -> Seq(Bundle)] /\ init_bundle_stack[t] \in Seq(Bundle)
        /\ prepared_bundles \in [Thread -> Seq(Entry)] /\ prepared_bundles[t] \in Seq(Entry)
        /\ windows[t] \in Seq(OpenedWindow)
    BY DEF TypeOK
  <1>2. PICK N : N = Len(windows[t]) OBVIOUS
  <1>3. /\ N \in Nat \ {0} /\ Len(init_bundle_stack[t]) = N /\ Len(prepared_bundles[t]) = N
    BY <1>1, <1>2, FrontFacts DEF WindowsMatched
  <1>4. init_bundle_stack[t] # <<>> /\ prepared_bundles[t] # <<>> BY <1>1, <1>3, EmptySeq
  <1>5. /\ Len(init_bundle_stack'[t]) = N - 1
        /\ \A n \in 1 .. N - 1 : init_bundle_stack'[t][n] = init_bundle_stack[t][n]
        /\ \A u \in Thread : u # t => init_bundle_stack'[u] = init_bundle_stack[u]
    <2>1. init_bundle_stack'[t] = Front(init_bundle_stack[t]) /\ \A u \in Thread : u # t => init_bundle_stack'[u] = init_bundle_stack[u]
      BY <1>1
    <2>2. /\ Len(Front(init_bundle_stack[t])) = Len(init_bundle_stack[t]) - 1
          /\ \A n \in 1 .. Len(init_bundle_stack[t]) - 1 : Front(init_bundle_stack[t])[n] = init_bundle_stack[t][n]
      BY <1>1, <1>4, FrontFacts
    <2> QED BY <1>3, <2>1, <2>2
  <1>6. /\ Len(prepared_bundles'[t]) = N - 1
        /\ \A n \in 1 .. N - 1 : prepared_bundles'[t][n] = prepared_bundles[t][n]
        /\ \A u \in Thread : u # t => prepared_bundles'[u] = prepared_bundles[u]
    <2>1. prepared_bundles'[t] = Front(prepared_bundles[t]) /\ \A u \in Thread : u # t => prepared_bundles'[u] = prepared_bundles[u]
      BY <1>1
    <2>2. /\ Len(Front(prepared_bundles[t])) = Len(prepared_bundles[t]) - 1
          /\ \A n \in 1 .. Len(prepared_bundles[t]) - 1 : Front(prepared_bundles[t])[n] = prepared_bundles[t][n]
      BY <1>1, <1>4, FrontFacts
    <2> QED BY <1>3, <2>1, <2>2
  <1>7. /\ Len(windows'[t]) = N - 1
        /\ \A n \in 1 .. N - 1 : windows'[t][n] = windows[t][n]
        /\ \A u \in Thread : u # t => windows'[u] = windows[u]
    BY <1>2, CloseFacts
  <1>8. \A n \in 1 .. N - 1 : n \in 1 .. N BY <1>3
  <1> SUFFICES ASSUME NEW u \in Thread
               PROVE  /\ Len(init_bundle_stack'[u]) = Len(windows'[u])
                      /\ Len(prepared_bundles'[u]) = Len(windows'[u])
                      /\ \A n \in 1 .. Len(windows'[u]) :
                           /\ init_bundle_stack'[u][n] = windows'[u][n].bundle
                           /\ prepared_bundles'[u][n].bundle = windows'[u][n].bundle
                           /\ \A p \in prepared_bundles'[u][n].contracts : p.window = windows'[u][n].window
                      /\ \A m, n \in 1 .. Len(windows'[u]) : windows'[u][m].bundle = windows'[u][n].bundle => m = n
    BY DEF WindowsMatched
  <1>9. CASE u = t
    <2>0. /\ \A n \in 1 .. N :
               /\ init_bundle_stack[t][n] = windows[t][n].bundle
               /\ prepared_bundles[t][n].bundle = windows[t][n].bundle
               /\ \A p \in prepared_bundles[t][n].contracts : p.window = windows[t][n].window
          /\ \A m, n \in 1 .. N : windows[t][m].bundle = windows[t][n].bundle => m = n
      BY <1>2 DEF WindowsMatched
    <2>1. \A n \in 1 .. N - 1 :
            /\ init_bundle_stack'[t][n] = windows'[t][n].bundle
            /\ prepared_bundles'[t][n].bundle = windows'[t][n].bundle
            /\ \A p \in prepared_bundles'[t][n].contracts : p.window = windows'[t][n].window
      <3> TAKE n \in 1 .. N - 1
      <3>1. n \in 1 .. N BY <1>8
      <3> QED BY <1>5, <1>6, <1>7, <2>0, <3>1
    <2>2. \A m, n \in 1 .. N - 1 : windows'[t][m].bundle = windows'[t][n].bundle => m = n
      BY <1>7, <1>8, <2>0
    <2> QED BY <1>5, <1>6, <1>7, <1>9, <2>1, <2>2
  <1>10. CASE u # t BY <1>5, <1>6, <1>7, <1>10 DEF WindowsMatched
  <1> QED BY <1>9, <1>10

\* What a window staged is published whole, or not at all.
LEMMA PublishWhole ==
  ASSUME TypeOK, WindowsMatched, WholeTransactions, NEW t \in Thread, windows[t] # <<>>,
         NEW b, b = Last(windows[t]).bundle, Publish(t, b)
  PROVE  WholeTransactions'
  <1>1. PICK N : N = Len(windows[t]) OBVIOUS
  <1>2. /\ b \in Bundle /\ windows[t][N] \in OpenedWindow /\ Prepared(t, b) = N /\ N \in Nat \ {0}
        /\ \A p \in prepared_bundles[t][N].contracts : p.window = windows[t][N].window
    BY <1>1, TopFacts
  <1>3. PICK S, w : S = prepared_bundles[t][N].contracts /\ w = windows[t][N].window OBVIOUS
  <1>4. S \subseteq Provided BY <1>2, <1>3, PreparedType
  <1>5. w \in Window BY <1>2, <1>3 DEF OpenedWindow
  <1>6. /\ {p.contract : p \in S} = Contract /\ b \notin bundle_data
        /\ bundle_data' = bundle_data \cup {b} /\ contracts' = [contracts EXCEPT ![b] = contracts[b] \cup S]
    BY <1>2, <1>3 DEF Publish, MayPublish
  <1>7. S = [contract : Contract, window : {w}]
    <2>1. ASSUME NEW p \in S PROVE p \in [contract : Contract, window : {w}]
      <3>1. p \in Provided /\ p.window = w BY <1>2, <1>3, <1>4
      <3> QED BY <3>1 DEF Provided
    <2>2. ASSUME NEW q \in [contract : Contract, window : {w}] PROVE q \in S
      <3>1. PICK p \in S : p.contract = q.contract BY <1>6
      <3>2. p \in [contract : Contract, window : {w}] BY <2>1
      <3>3. p = q BY <3>1, <3>2
      <3> QED BY <3>3
    <2> QED BY <2>1, <2>2
  <1>8. contracts \in [Bundle -> SUBSET Provided] BY DEF TypeOK
  <1>9. contracts[b] = {} BY <1>2, <1>6 DEF WholeTransactions
  <1>10. contracts'[b] = [contract : Contract, window : {w}] BY <1>2, <1>6, <1>7, <1>8, <1>9
  <1>11. \A a \in Bundle : a # b => contracts'[a] = contracts[a] /\ (a \in bundle_data' <=> a \in bundle_data)
    BY <1>6, <1>8
  <1>12. b \in bundle_data' BY <1>6
  <1> SUFFICES ASSUME NEW a \in Bundle
               PROVE  \/ a \notin bundle_data' /\ contracts'[a] = {}
                      \/ a \in bundle_data' /\ \E x \in Window : contracts'[a] = [contract : Contract, window : {x}]
    BY DEF WholeTransactions
  <1>13. CASE a = b BY <1>5, <1>10, <1>12, <1>13
  <1>14. CASE a # b BY <1>11, <1>14 DEF WholeTransactions
  <1> QED BY <1>13, <1>14

\* A window opens, for a bundle the thread has no window of.
LEMMA OpenMatches ==
  ASSUME TypeOK, WindowsMatched, NEW t \in Thread, NEW b \in Bundle, NEW kind \in {"load", "internal"},
         OpenWindow(t, b, kind), b \notin {w.bundle : w \in Range(windows[t])}
  PROVE  WindowsMatched'
  <1>1. /\ init_bundle_stack \in [Thread -> Seq(Bundle)] /\ init_bundle_stack[t] \in Seq(Bundle)
        /\ windows[t] \in Seq(OpenedWindow)
    BY DEF TypeOK
  <1>2. PICK N : N = Len(windows[t]) OBVIOUS
  <1>3. /\ N \in Nat /\ Len(init_bundle_stack[t]) = N /\ Len(prepared_bundles[t]) = N
        /\ \A n \in 1 .. N :
             /\ init_bundle_stack[t][n] = windows[t][n].bundle
             /\ prepared_bundles[t][n].bundle = windows[t][n].bundle
             /\ \A p \in prepared_bundles[t][n].contracts : p.window = windows[t][n].window
        /\ \A m, n \in 1 .. N : windows[t][m].bundle = windows[t][n].bundle => m = n
    BY <1>1, <1>2, LenProperties DEF WindowsMatched
  <1>4. \A n \in 1 .. N : windows[t][n].bundle # b
    <2>1. DOMAIN windows[t] = 1 .. N BY <1>1, <1>2, LenProperties
    <2> QED BY <2>1 DEF Range
  <1>5. /\ Len(init_bundle_stack'[t]) = N + 1 /\ init_bundle_stack'[t][N + 1] = b
        /\ \A n \in 1 .. N : init_bundle_stack'[t][n] = init_bundle_stack[t][n]
        /\ \A u \in Thread : u # t => init_bundle_stack'[u] = init_bundle_stack[u]
    <2>1. init_bundle_stack' = [init_bundle_stack EXCEPT ![t] = Append(init_bundle_stack[t], b)]
      BY DEF OpenWindow, PushInitBundleId
    <2>2. /\ init_bundle_stack'[t] = Append(init_bundle_stack[t], b)
          /\ \A u \in Thread : u # t => init_bundle_stack'[u] = init_bundle_stack[u]
      BY <1>1, <2>1
    <2>3. /\ Len(Append(init_bundle_stack[t], b)) = Len(init_bundle_stack[t]) + 1
          /\ Append(init_bundle_stack[t], b)[Len(init_bundle_stack[t]) + 1] = b
          /\ \A n \in 1 .. Len(init_bundle_stack[t]) : Append(init_bundle_stack[t], b)[n] = init_bundle_stack[t][n]
      BY <1>1, AppendFacts
    <2> QED BY <1>3, <2>2, <2>3
  <1>6. /\ Len(windows'[t]) = N + 1 /\ windows'[t][N + 1].bundle = b
        /\ \A n \in 1 .. N : windows'[t][n] = windows[t][n]
        /\ \A u \in Thread : u # t => windows'[u] = windows[u]
    <2>1. Len(windows'[t]) = Len(windows[t]) + 1 BY OpenFacts
    <2>2. windows'[t][Len(windows[t]) + 1].bundle = b BY OpenFacts
    <2>3. \A n \in 1 .. Len(windows[t]) : windows'[t][n] = windows[t][n] BY OpenFacts
    <2>4. \A u \in Thread : u # t => windows'[u] = windows[u] BY DEF OpenWindow, TypeOK
    <2> QED BY <1>2, <2>1, <2>2, <2>3, <2>4
  <1>7. /\ Len(prepared_bundles'[t]) = N + 1 /\ prepared_bundles'[t][N + 1] = [bundle |-> b, contracts |-> {}]
        /\ \A n \in 1 .. N : prepared_bundles'[t][n] = prepared_bundles[t][n]
        /\ \A u \in Thread : u # t => prepared_bundles'[u] = prepared_bundles[u]
    <2>1. /\ Len(prepared_bundles'[t]) = Len(prepared_bundles[t]) + 1
          /\ prepared_bundles'[t][Len(prepared_bundles[t]) + 1] = [bundle |-> b, contracts |-> {}]
          /\ \A n \in 1 .. Len(prepared_bundles[t]) : prepared_bundles'[t][n] = prepared_bundles[t][n]
          /\ \A u \in Thread : u # t => prepared_bundles'[u] = prepared_bundles[u]
      BY OpenFacts
    <2> QED BY <1>3, <2>1
  <1>8. \A n \in 1 .. N + 1 : n \in 1 .. N \/ n = N + 1 BY <1>3
  <1> SUFFICES ASSUME NEW u \in Thread
               PROVE  /\ Len(init_bundle_stack'[u]) = Len(windows'[u])
                      /\ Len(prepared_bundles'[u]) = Len(windows'[u])
                      /\ \A n \in 1 .. Len(windows'[u]) :
                           /\ init_bundle_stack'[u][n] = windows'[u][n].bundle
                           /\ prepared_bundles'[u][n].bundle = windows'[u][n].bundle
                           /\ \A p \in prepared_bundles'[u][n].contracts : p.window = windows'[u][n].window
                      /\ \A m, n \in 1 .. Len(windows'[u]) : windows'[u][m].bundle = windows'[u][n].bundle => m = n
    BY DEF WindowsMatched
  <1>9. CASE u = t
    <2>1. \A n \in 1 .. N + 1 :
            /\ init_bundle_stack'[t][n] = windows'[t][n].bundle
            /\ prepared_bundles'[t][n].bundle = windows'[t][n].bundle
            /\ \A p \in prepared_bundles'[t][n].contracts : p.window = windows'[t][n].window
      <3> TAKE n \in 1 .. N + 1
      <3>1. CASE n \in 1 .. N BY <1>3, <1>5, <1>6, <1>7, <3>1
      <3>2. CASE n = N + 1
        <4>1. prepared_bundles'[t][n].bundle = b /\ prepared_bundles'[t][n].contracts = {} BY <1>7, <3>2
        <4> QED BY <1>5, <1>6, <3>2, <4>1
      <3> QED BY <1>8, <3>1, <3>2
    <2>2. \A m, n \in 1 .. N + 1 : windows'[t][m].bundle = windows'[t][n].bundle => m = n
      <3> TAKE m, n \in 1 .. N + 1
      <3>1. CASE m \in 1 .. N /\ n \in 1 .. N BY <1>3, <1>6, <3>1
      <3>2. CASE m \in 1 .. N /\ n = N + 1 BY <1>4, <1>6, <3>2
      <3>3. CASE m = N + 1 /\ n \in 1 .. N BY <1>4, <1>6, <3>3
      <3> QED BY <1>8, <3>1, <3>2, <3>3
    <2> QED BY <1>5, <1>6, <1>7, <1>9, <2>1, <2>2
  <1>10. CASE u # t BY <1>5, <1>6, <1>7, <1>10 DEF WindowsMatched
  <1> QED BY <1>9, <1>10

\* A registration is staged in the transaction of the innermost window.
LEMMA RegisterMatches ==
  ASSUME TypeOK, WindowsMatched, NEW t \in Thread, NEW c \in Contract, HostRegisterGuestContract(t, c)
  PROVE  WindowsMatched' /\ UNCHANGED <<bundle_data, contracts>>
  <1>1. PICK b, n, p : b = CurrentInitBundleId(t) /\ n = Prepared(t, b)
                       /\ p = [contract |-> c, window |-> Last(windows[t]).window]
    OBVIOUS
  <1>2. /\ windows[t] # <<>> /\ b # None /\ b \in Bundle /\ p \in Provided
        /\ n # 0 =>
             /\ prepared_bundles' = [prepared_bundles EXCEPT ![t] =
                  [prepared_bundles[t] EXCEPT ![n] = [prepared_bundles[t][n] EXCEPT
                     !.contracts = prepared_bundles[t][n].contracts \cup {p}]]]
             /\ UNCHANGED <<bundle_data, contracts>>
        /\ UNCHANGED <<init_bundle_stack, active_init_count, windows, opened>>
    BY <1>1, RegisterFacts
  <1>3. PICK N : N = Len(windows[t]) OBVIOUS
  <1>4. PICK a : a = Last(windows[t]).bundle OBVIOUS
  <1>5. /\ N \in Nat \ {0} /\ Last(windows[t]) = windows[t][N] /\ Len(init_bundle_stack[t]) = N
        /\ init_bundle_stack[t][N] = a /\ Len(prepared_bundles[t]) = N /\ Prepared(t, a) = N
    BY <1>2, <1>3, <1>4, TopFacts
  <1>6. b = a /\ n = N BY <1>1, <1>2, <1>5, CurrentFacts
  <1>7. n \in 1 .. Len(prepared_bundles[t]) /\ n # 0 BY <1>5, <1>6
  <1>8. /\ Len(prepared_bundles'[t]) = Len(prepared_bundles[t])
        /\ prepared_bundles'[t][n].bundle = prepared_bundles[t][n].bundle
        /\ prepared_bundles'[t][n].contracts = prepared_bundles[t][n].contracts \cup {p}
        /\ \A m \in 1 .. Len(prepared_bundles[t]) : m # n => prepared_bundles'[t][m] = prepared_bundles[t][m]
        /\ \A u \in Thread : u # t => prepared_bundles'[u] = prepared_bundles[u]
    BY <1>2, <1>7, StagedFacts
  <1>9. p.window = windows[t][n].window BY <1>1, <1>5, <1>6
  <1>10. \A u \in Thread :
           /\ Len(prepared_bundles'[u]) = Len(prepared_bundles[u])
           /\ \A m \in 1 .. Len(windows[u]) :
                /\ prepared_bundles'[u][m].bundle = windows[u][m].bundle
                /\ \A q \in prepared_bundles'[u][m].contracts : q.window = windows[u][m].window
    <2> TAKE u \in Thread
    <2>1. CASE u # t BY <1>8, <2>1 DEF WindowsMatched
    <2>2. CASE u = t
      <3>1. ASSUME NEW m \in 1 .. Len(windows[t])
            PROVE  /\ prepared_bundles'[t][m].bundle = windows[t][m].bundle
                   /\ \A q \in prepared_bundles'[t][m].contracts : q.window = windows[t][m].window
        <4>1. /\ prepared_bundles[t][m].bundle = windows[t][m].bundle
              /\ \A q \in prepared_bundles[t][m].contracts : q.window = windows[t][m].window
          BY DEF WindowsMatched
        <4>2. CASE m = n BY <1>8, <1>9, <4>1, <4>2
        <4>3. CASE m # n BY <1>3, <1>5, <1>8, <4>1, <4>3
        <4> QED BY <4>2, <4>3
      <3> QED BY <1>8, <2>2, <3>1
    <2> QED BY <2>1, <2>2
  <1>11. UNCHANGED <<bundle_data, contracts>> BY <1>2, <1>7
  <1> QED BY <1>2, <1>10, <1>11 DEF WindowsMatched

\* Every step keeps the stacks matched and the registry whole.
LEMMA MatchedStep ==
  ASSUME ~NestsItself, InitStackInv, [Next]_vars
  PROVE  InitStackInv'
  <1>0. TypeOK /\ WindowsMatched /\ CountExact /\ WholeTransactions BY DEF InitStackInv
  <1>1. TypeOK' /\ CountExact' BY <1>0, StackStep
  <1>2. (UNCHANGED <<bundle_data, contracts>>) => WholeTransactions' BY <1>0 DEF WholeTransactions
  <1>3. ASSUME NEW t \in Thread, NEW b \in Bundle, NEW kind \in {"load", "internal"},
               Opens(t, b), OpenWindow(t, b, kind)
        PROVE  WindowsMatched' /\ WholeTransactions'
    <2>1. b \notin {w.bundle : w \in Range(windows[t])} BY <1>3 DEF Opens
    <2>2. WindowsMatched' BY <1>0, <1>3, <2>1, OpenMatches
    <2> QED BY <1>2, <1>3, <2>2 DEF OpenWindow
  <1>4. ASSUME NEW t \in Thread, NEW c \in Contract, HostRegisterGuestContract(t, c)
        PROVE  WindowsMatched' /\ WholeTransactions'
    BY <1>0, <1>2, <1>4, RegisterMatches
  <1>5. ASSUME NEW t \in Thread, windows[t] # <<>>, CloseWindow(t), PopInitBundleId(t),
               NEW b, b = Last(windows[t]).bundle,
               \/ prepared_bundles' = [prepared_bundles EXCEPT ![t] = TakePrepared(@, b)]
               \/ prepared_bundles' = [prepared_bundles EXCEPT ![t] = TakePrepared(TakePrepared(@, b), b)]
        PROVE  WindowsMatched'
    <2>1. /\ init_bundle_stack[t] # <<>>
          /\ TakePrepared(prepared_bundles[t], b) = Front(prepared_bundles[t])
          /\ TakePrepared(TakePrepared(prepared_bundles[t], b), b) = Front(prepared_bundles[t])
      BY <1>0, <1>5, TopFacts
    <2>2. prepared_bundles' = [prepared_bundles EXCEPT ![t] = Front(prepared_bundles[t])]
      <3>1. CASE prepared_bundles' = [prepared_bundles EXCEPT ![t] = TakePrepared(@, b)] BY <2>1, <3>1
      <3>2. CASE prepared_bundles' = [prepared_bundles EXCEPT ![t] = TakePrepared(TakePrepared(@, b), b)] BY <2>1, <3>2
      <3> QED BY <1>5, <3>1, <3>2
    <2>3. init_bundle_stack' = [init_bundle_stack EXCEPT ![t] = Front(init_bundle_stack[t])]
      BY <1>5, <2>1 DEF PopInitBundleId
    <2> QED BY <1>0, <1>5, <2>2, <2>3, CloseMatches
  <1>6. ASSUME NEW t \in Thread, LoadCommits(t) PROVE WindowsMatched' /\ WholeTransactions'
    <2>1. PICK b : b = Last(windows[t]).bundle OBVIOUS
    <2>2. windows[t] # <<>> /\ Publish(t, b) /\ PopInitBundleId(t) /\ CloseWindow(t)
      BY <1>6, <2>1 DEF LoadCommits, Innermost
    <2>3. prepared_bundles' = [prepared_bundles EXCEPT ![t] = TakePrepared(@, b)] BY <2>2 DEF Publish
    <2>4. WindowsMatched' BY <1>5, <2>1, <2>2, <2>3
    <2> QED BY <1>0, <2>1, <2>2, <2>4, PublishWhole
  <1>7. ASSUME NEW t \in Thread, LoadFails(t) PROVE WindowsMatched' /\ WholeTransactions'
    BY <1>2, <1>5, <1>7 DEF LoadFails, Innermost
  <1>8. ASSUME NEW t \in Thread, LoadCommitFails(t) PROVE WindowsMatched' /\ WholeTransactions'
    BY <1>2, <1>5, <1>8 DEF LoadCommitFails, Innermost
  <1>9. ASSUME NEW t \in Thread, CommitInternalPlugin(t) PROVE WindowsMatched' /\ WholeTransactions'
    <2>1. PICK b : b = Last(windows[t]).bundle OBVIOUS
    <2>2. windows[t] # <<>> /\ PopInitBundleId(t) /\ CloseWindow(t)
      BY <1>9 DEF CommitInternalPlugin, Innermost
    <2>3. prepared_bundles' = [prepared_bundles EXCEPT ![t] = TakePrepared(@, b)]
      BY <1>9, <2>1 DEF CommitInternalPlugin, Publish
    <2>4. WindowsMatched' BY <1>5, <2>1, <2>2, <2>3
    <2>5. Publish(t, b) \/ UNCHANGED <<bundle_data, contracts>> BY <1>9, <2>1 DEF CommitInternalPlugin
    <2>6. WholeTransactions' BY <1>0, <1>2, <2>1, <2>2, <2>5, PublishWhole
    <2> QED BY <2>4, <2>6
  <1>10. ASSUME NEW t \in Thread, AbortInternalPlugin(t) PROVE WindowsMatched' /\ WholeTransactions'
    <2>1. PICK b : b = Last(windows[t]).bundle OBVIOUS
    <2>2. /\ windows[t] # <<>> /\ CloseWindow(t) /\ UNCHANGED <<bundle_data, contracts>>
          /\ prepared_bundles' = [prepared_bundles EXCEPT ![t] = TakePrepared(@, b)]
          /\ Prepared(t, b) # 0 => PopInitBundleId(t)
      BY <1>10, <2>1 DEF AbortInternalPlugin, Innermost
    <2>3. PICK N : N = Len(windows[t]) OBVIOUS
    <2>4. Prepared(t, b) = N /\ N \in Nat \ {0} BY <1>0, <2>1, <2>2, <2>3, TopFacts
    <2>5. PopInitBundleId(t) BY <2>2, <2>4
    <2> QED BY <1>2, <1>5, <2>1, <2>2, <2>5
  <1>11. ASSUME NEW b \in Bundle, UnloadBundle(b) PROVE WindowsMatched' /\ WholeTransactions'
    <2>1. contracts \in [Bundle -> SUBSET Provided] BY <1>0 DEF TypeOK
    <2>2. WindowsMatched' BY <1>0, <1>11 DEF UnloadBundle, WindowsMatched
    <2>3. WholeTransactions' BY <1>0, <1>11, <2>1 DEF UnloadBundle, WholeTransactions
    <2> QED BY <2>2, <2>3
  <1>12. ASSUME UNCHANGED vars PROVE WindowsMatched' /\ WholeTransactions'
    BY <1>0, <1>12 DEF vars, WindowsMatched, WholeTransactions
  <1>13. WindowsMatched' /\ WholeTransactions'
    BY <1>3, <1>4, <1>6, <1>7, <1>8, <1>9, <1>10, <1>11, <1>12
       DEF Next, Enter, Register, Leave, Unload, LoadBundle, BeginInternalPlugin
  <1> QED BY <1>1, <1>13 DEF InitStackInv

\* Where the stacks match, the runtime takes a caller for what it is.
LEMMA CallerFollows ==
  ASSUME InitStackInv
  PROVE  CallerExact
  <1>0. TypeOK /\ WindowsMatched /\ CountExact BY DEF InitStackInv
  <1> SUFFICES ASSUME NEW t \in Thread
               PROVE  CurrentInitBundleId(t) = IF windows[t] = <<>> THEN None ELSE Last(windows[t]).bundle
    BY DEF CallerExact
  <1>1. windows[t] \in Seq(OpenedWindow) /\ init_bundle_stack[t] \in Seq(Bundle) BY <1>0 DEF TypeOK
  <1>2. CASE windows[t] = <<>>
    <2>1. Len(init_bundle_stack[t]) = 0 BY <1>0, <1>2, EmptySeq DEF WindowsMatched
    <2>2. init_bundle_stack[t] = <<>> BY <1>1, <2>1, EmptySeq
    <2> QED BY <1>2, <2>2 DEF CurrentInitBundleId
  <1>3. CASE windows[t] # <<>>
    <2>1. PICK N, b : N = Len(windows[t]) /\ b = Last(windows[t]).bundle OBVIOUS
    <2>2. /\ N \in Nat \ {0} /\ init_bundle_stack[t] # <<>> /\ Len(init_bundle_stack[t]) = N
          /\ init_bundle_stack[t][N] = b
      BY <1>0, <1>3, <2>1, TopFacts
    <2>3. <<t, N>> \in PushedIds
      <3>1. N \in 1 .. Len(init_bundle_stack[t]) BY <2>2
      <3> QED BY <3>1, PushedIdsFacts
    <2>4. active_init_count # 0 BY <1>0, <2>3, FS_EmptySet DEF CountExact
    <2>5. Last(init_bundle_stack[t]) = b BY <2>2 DEF Last
    <2> QED BY <1>3, <2>1, <2>2, <2>4, <2>5 DEF CurrentInitBundleId
  <1> QED BY <1>2, <1>3

LEMMA InitMatches ==
  ASSUME Init
  PROVE  InitStackInv
  <1> USE InitStackAssumption
  <1>1. \A t \in Thread : init_bundle_stack[t] = <<>> /\ prepared_bundles[t] = <<>> /\ windows[t] = <<>> BY DEF Init
  <1>2. Len(<<>>) = 0 BY EmptySeq
  <1>3. TypeOK
    <2>1. /\ init_bundle_stack \in [Thread -> Seq(Bundle)] /\ prepared_bundles \in [Thread -> Seq(Entry)]
          /\ windows \in [Thread -> Seq(OpenedWindow)]
      BY EmptySeq DEF Init
    <2>2. \A t \in Thread : Len(windows[t]) <= MaxDepth BY <1>1, <1>2
    <2> QED BY <2>1, <2>2 DEF Init, TypeOK
  <1>4. WindowsMatched BY <1>1, <1>2 DEF WindowsMatched
  <1>5. CountExact
    <2>1. PushedIds = {}
      <3>0. \A n : n \notin 1 .. 0 OBVIOUS
      <3>1. \A u, n : <<u, n>> \notin PushedIds BY <1>1, <1>2, <3>0, PushedIdsFacts
      <3> QED BY <3>1, PushedIdsFacts
    <2> QED BY <2>1, FS_EmptySet DEF Init, CountExact
  <1>6. WholeTransactions BY DEF Init, WholeTransactions
  <1> QED BY <1>3, <1>4, <1>5, <1>6 DEF InitStackInv

\* Every step of the host contracts is a step of the init stack, or none of it.
LEMMA HostStepIsStackStep ==
  ASSUME [HostNext]_<<vars, hostVars>>
  PROVE  [Next]_vars
  BY DEF HostNext, WindowStep, Next, Unload

\* Where no bundle's init loads its own bundle, whatever init code nests and
\* whatever host contracts it asks for, each window of a thread is on top of its
\* own id and its own transaction (push_init_bundle_id, begin and
\* take_prepared_bundle).
THEOREM InitStackInvariant == ASSUME ~NestsItself PROVE HostSpec => []InitStackInv
  <1>1. HostInit => InitStackInv BY InitMatches DEF HostInit
  <1>2. InitStackInv /\ [HostNext]_<<vars, hostVars>> => InitStackInv' BY MatchedStep, HostStepIsStackStep
  <1> QED BY <1>1, <1>2, PTL DEF HostSpec

\* Under the same discipline the runtime judges every registration, lookup and
\* get_dependencies for the bundle whose init code makes the call
\* (current_init_bundle_id).
THEOREM CallersExact == ASSUME ~NestsItself PROVE HostSpec => []CallerExact
  <1>1. InitStackInv => CallerExact BY CallerFollows
  <1> QED BY <1>1, InitStackInvariant, PTL

\* Under the same discipline a registered bundle provides what one window
\* registered, whole, whatever nested, failed or competed with it
\* (commit_prepared_bundle_transaction).
THEOREM TransactionsWhole == ASSUME ~NestsItself PROVE HostSpec => []WholeTransactions
  <1>1. InitStackInv => WholeTransactions BY DEF InitStackInv
  <1> QED BY <1>1, InitStackInvariant, PTL

-----------------------------------------------------------------------------
(***************************************************************************)
(* Host contracts.                                                         *)
(***************************************************************************)
Phase == {"found", "missed", "creating"}

\* Only the gets of t change.
OthersKept(t) ==
  calls' \in [Thread -> Seq(Frame)] /\ \A u \in Thread : u # t => calls'[u] = calls[u]

\* The stack of gets of a thread in a get.
LEMMA GetFacts ==
  ASSUME HostTypeOK, NEW t \in Thread, ~Idle(t)
  PROVE  /\ Len(calls[t]) \in Nat \ {0} /\ Top(t) \in Frame /\ Top(t) = calls[t][Len(calls[t])]
         /\ Top(t).interface \in HostInterface /\ Top(t).phase \in Phase /\ ContractOf(t) \in HostContractId
         /\ \A n \in 1 .. Len(calls[t]) : calls[t][n] \in Frame
  <1>1. calls[t] \in Seq(Frame) BY DEF HostTypeOK
  <1>2. Len(calls[t]) \in Nat \ {0} BY <1>1, EmptySeq DEF Idle
  <1>3. \A n \in 1 .. Len(calls[t]) : calls[t][n] \in Frame BY <1>1, ElementOfSeq
  <1>4. Top(t) \in Frame /\ Top(t) = calls[t][Len(calls[t])] BY <1>2, <1>3 DEF Top
  <1>5. Top(t).interface \in HostInterface /\ Top(t).phase \in Phase BY <1>4 DEF Frame, Phase
  <1>6. ContractOf(t) \in HostContractId BY <1>5, HostContractsAssumption DEF ContractOf
  <1> QED BY <1>2, <1>3, <1>4, <1>5, <1>6

\* A get returns.
LEMMA PopFacts ==
  ASSUME HostTypeOK, NEW t \in Thread, ~Idle(t), Pop(t)
  PROVE  /\ OthersKept(t) /\ \A u \in Thread : Len(calls'[u]) <= MaxDepth
         /\ Len(calls'[t]) = Len(calls[t]) - 1
         /\ \A n \in 1 .. Len(calls[t]) - 1 : calls'[t][n] = calls[t][n]
  <1>1. calls \in [Thread -> Seq(Frame)] /\ calls[t] \in Seq(Frame) /\ calls[t] # <<>> BY DEF HostTypeOK, Idle
  <1>2. calls' = [calls EXCEPT ![t] = Front(calls[t])] BY DEF Pop, Front
  <1>3. /\ Len(calls[t]) \in Nat \ {0} /\ Front(calls[t]) \in Seq(Frame)
        /\ Len(Front(calls[t])) = Len(calls[t]) - 1
        /\ \A n \in 1 .. Len(calls[t]) - 1 : Front(calls[t])[n] = calls[t][n]
    BY <1>1, FrontFacts
  <1>4. calls'[t] = Front(calls[t]) /\ \A u \in Thread : u # t => calls'[u] = calls[u] BY <1>1, <1>2
  <1>5. OthersKept(t) BY <1>1, <1>2, <1>3, <1>4 DEF OthersKept
  <1>6. MaxDepth \in Nat /\ \A u \in Thread : Len(calls[u]) <= MaxDepth BY InitStackAssumption DEF HostTypeOK
  <1>7. Len(calls'[t]) <= MaxDepth BY <1>3, <1>4, <1>6
  <1>8. \A u \in Thread : Len(calls'[u]) <= MaxDepth BY <1>4, <1>6, <1>7
  <1> QED BY <1>3, <1>4, <1>5, <1>8

\* A get goes on to a phase.
LEMMA GotoFacts ==
  ASSUME HostTypeOK, NEW t \in Thread, ~Idle(t), NEW phase \in Phase, Goto(t, phase)
  PROVE  /\ OthersKept(t) /\ \A u \in Thread : Len(calls'[u]) <= MaxDepth
         /\ Len(calls'[t]) = Len(calls[t])
         /\ calls'[t][Len(calls[t])].phase = phase
         /\ calls'[t][Len(calls[t])].interface = Top(t).interface
         /\ \A n \in 1 .. Len(calls[t]) : n # Len(calls[t]) => calls'[t][n] = calls[t][n]
  <1>1. calls \in [Thread -> Seq(Frame)] /\ calls[t] \in Seq(Frame) BY DEF HostTypeOK
  <1>2. PICK N : N = Len(calls[t]) OBVIOUS
  <1>3. N \in Nat \ {0} /\ calls[t][N] \in Frame /\ Top(t) = calls[t][N] BY <1>2, GetFacts
  <1>4. PICK f : f = [calls[t][N] EXCEPT !.phase = phase] OBVIOUS
  <1>5. f \in Frame /\ f.phase = phase /\ f.interface = Top(t).interface BY <1>3, <1>4 DEF Frame, Phase
  <1>6. N \in 1 .. Len(calls[t]) BY <1>2, <1>3
  <1>7. PICK q : q = [calls[t] EXCEPT ![N] = f] OBVIOUS
  <1>8. /\ q \in Seq(Frame) /\ Len(q) = Len(calls[t])
        /\ \A n \in 1 .. Len(calls[t]) : q[n] = IF n = N THEN f ELSE calls[t][n]
    BY <1>1, <1>5, <1>6, <1>7, ExceptSeq
  <1>9. calls' = [calls EXCEPT ![t] = q] BY <1>2, <1>4, <1>7 DEF Goto
  <1>10. calls'[t] = q /\ \A u \in Thread : u # t => calls'[u] = calls[u] BY <1>1, <1>9
  <1>11. OthersKept(t) BY <1>1, <1>8, <1>9, <1>10 DEF OthersKept
  <1>12. \A u \in Thread : Len(calls'[u]) <= MaxDepth BY <1>8, <1>10 DEF HostTypeOK
  <1> QED BY <1>2, <1>5, <1>6, <1>8, <1>10, <1>11, <1>12

\* A get begins.
LEMMA PushFacts ==
  ASSUME HostTypeOK, NEW t \in Thread, NEW i \in HostInterface, Shallow(t), Push(t, i)
  PROVE  /\ OthersKept(t) /\ \A u \in Thread : Len(calls'[u]) <= MaxDepth
         /\ Len(calls[t]) \in Nat /\ Len(calls'[t]) = Len(calls[t]) + 1
         /\ calls'[t][Len(calls[t]) + 1].phase = "found"
         /\ \A n \in 1 .. Len(calls[t]) : calls'[t][n] = calls[t][n]
  <1>1. /\ calls \in [Thread -> Seq(Frame)] /\ calls[t] \in Seq(Frame)
        /\ windows[t] \in Seq(OpenedWindow) /\ Len(windows[t]) <= MaxDepth
    BY DEF HostTypeOK, TypeOK
  <1>2. PICK f : f = [interface |-> i, phase |-> "found", depth |-> Len(windows[t])] OBVIOUS
  <1>3. Len(windows[t]) \in Nat /\ MaxDepth \in Nat BY <1>1, LenProperties, InitStackAssumption
  <1>4. f \in Frame /\ f.phase = "found"
    <2>1. Len(windows[t]) \in 0 .. MaxDepth BY <1>1, <1>3
    <2> QED BY <1>2, <2>1 DEF Frame
  <1>5. /\ Len(calls[t]) \in Nat /\ Append(calls[t], f) \in Seq(Frame) /\ Len(Append(calls[t], f)) = Len(calls[t]) + 1
        /\ Append(calls[t], f)[Len(calls[t]) + 1] = f
        /\ \A n \in 1 .. Len(calls[t]) : Append(calls[t], f)[n] = calls[t][n]
    BY <1>1, <1>4, AppendFacts
  <1>6. calls' = [calls EXCEPT ![t] = Append(calls[t], f)] BY <1>2 DEF Push
  <1>7. calls'[t] = Append(calls[t], f) /\ \A u \in Thread : u # t => calls'[u] = calls[u] BY <1>1, <1>6
  <1>8. OthersKept(t) BY <1>1, <1>5, <1>6, <1>7 DEF OthersKept
  <1>9. Len(windows[t]) + Len(calls[t]) < MaxDepth BY DEF Shallow
  <1>10. Len(calls'[t]) <= MaxDepth
    <2>1. PICK c \in Nat, w \in Nat : c = Len(calls[t]) /\ w = Len(windows[t]) BY <1>3, <1>5
    <2>2. w + c < MaxDepth /\ MaxDepth \in Nat BY <1>3, <1>9, <2>1
    <2>3. c + 1 <= MaxDepth BY <2>2
    <2> QED BY <1>5, <1>7, <2>1, <2>3
  <1>11. \A u \in Thread : Len(calls'[u]) <= MaxDepth BY <1>7, <1>10 DEF HostTypeOK
  <1> QED BY <1>4, <1>5, <1>7, <1>8, <1>11

-----------------------------------------------------------------------------
\* A step of t that creates no singleton, and ends the creation of none, keeps
\* the lock.
LEMMA WriterKept ==
  ASSUME WriterCreates, writer \in Thread \cup {None}, NEW t \in Thread, OthersKept(t),
         UNCHANGED <<writer, singleton_instances>>,
         \A n \in 1 .. Len(calls'[t]) :
           /\ calls'[t][n].phase = "missed" => calls'[t][n].interface \in Singleton
           /\ Creating(t, n)' => n \in 1 .. Len(calls[t]) /\ calls'[t][n] = calls[t][n],
         \A n \in 1 .. Len(calls[t]) : Creating(t, n) => n \in 1 .. Len(calls'[t]) /\ calls'[t][n] = calls[t][n]
  PROVE  WriterCreates'
  <1>1. ASSUME NEW u \in Thread, NEW n \in 1 .. Len(calls'[u]), Creating(u, n)'
        PROVE  n \in 1 .. Len(calls[u]) /\ calls'[u][n] = calls[u][n] /\ Creating(u, n)
    BY <1>1 DEF Creating, OthersKept
  <1>2. ASSUME NEW u \in Thread, NEW n \in 1 .. Len(calls[u]), Creating(u, n)
        PROVE  n \in 1 .. Len(calls'[u]) /\ Creating(u, n)'
    BY <1>2 DEF Creating, OthersKept
  <1>3. ASSUME NEW u \in Thread, NEW n \in 1 .. Len(calls'[u])
        PROVE  calls'[u][n].phase = "missed" => calls'[u][n].interface \in Singleton
    <2>1. CASE u = t BY <2>1
    <2>2. CASE u # t BY <2>2 DEF WriterCreates, OthersKept
    <2> QED BY <2>1, <2>2
  <1>4. ASSUME NEW u \in Thread, NEW n \in 1 .. Len(calls'[u]), Creating(u, n)'
        PROVE  /\ writer' = u /\ singleton_instances'[ContractIdOf[calls'[u][n].interface]] = None
               /\ \A m \in 1 .. Len(calls'[u]) : Creating(u, m)' => m = n
    BY <1>1, <1>4 DEF WriterCreates
  <1>5. ASSUME NEW u \in Thread, writer' = u PROVE \E n \in 1 .. Len(calls'[u]) : Creating(u, n)'
    <2>1. writer = u /\ writer # None BY <1>5, HostContractsAssumption
    <2>2. PICK n \in 1 .. Len(calls[u]) : Creating(u, n) BY <2>1 DEF WriterCreates
    <2> QED BY <1>2, <2>2
  <1>6. writer' # None => \E n \in 1 .. Len(calls'[writer']) :
           calls'[writer'][n].phase = "creating" /\ calls'[writer'][n].interface \in Singleton
    BY <1>5 DEF Creating
  <1> QED BY <1>3, <1>4, <1>6 DEF WriterCreates, Creating

\* Where no get creates a singleton and nobody has the lock.
LEMMA WriterFree ==
  ASSUME writer' = None,
         \A u \in Thread : \A n \in 1 .. Len(calls'[u]) :
           /\ calls'[u][n].phase = "missed" => calls'[u][n].interface \in Singleton
           /\ ~Creating(u, n)'
  PROVE  WriterCreates'
  BY DEF WriterCreates, Creating

\* The innermost get returns, without having created a singleton.
LEMMA PopKeepsWriter ==
  ASSUME HostTypeOK, WriterCreates, NEW t \in Thread, ~Idle(t), Pop(t), UNCHANGED <<writer, singleton_instances>>,
         ~Creating(t, Len(calls[t]))
  PROVE  WriterCreates'
  <1>1. PICK N : N = Len(calls[t]) OBVIOUS
  <1>2. N \in Nat \ {0} BY <1>1, GetFacts
  <1>3. /\ OthersKept(t) /\ Len(calls'[t]) = N - 1
        /\ \A n \in 1 .. N - 1 : calls'[t][n] = calls[t][n]
    <2>1. /\ OthersKept(t) /\ Len(calls'[t]) = Len(calls[t]) - 1
          /\ \A n \in 1 .. Len(calls[t]) - 1 : calls'[t][n] = calls[t][n]
      BY PopFacts
    <2> QED BY <1>1, <2>1
  <1>4. \A n \in 1 .. N - 1 : n \in 1 .. N BY <1>2
  <1>5. \A n \in 1 .. N : n # N => n \in 1 .. N - 1 BY <1>2
  <1>6. \A n \in 1 .. Len(calls'[t]) :
          /\ calls'[t][n].phase = "missed" => calls'[t][n].interface \in Singleton
          /\ Creating(t, n)' => n \in 1 .. Len(calls[t]) /\ calls'[t][n] = calls[t][n]
    BY <1>1, <1>3, <1>4 DEF WriterCreates
  <1>7. \A n \in 1 .. Len(calls[t]) : Creating(t, n) => n \in 1 .. Len(calls'[t]) /\ calls'[t][n] = calls[t][n]
    BY <1>1, <1>3, <1>5
  <1>8. writer \in Thread \cup {None} BY DEF HostTypeOK
  <1> QED BY <1>3, <1>6, <1>7, <1>8, WriterKept

\* The innermost get returns from the creation of a singleton: no other is
\* creating one.
LEMMA PopFreesWriter ==
  ASSUME HostTypeOK, WriterCreates, NEW t \in Thread, ~Idle(t), Pop(t), writer' = None,
         Creating(t, Len(calls[t]))
  PROVE  WriterCreates'
  <1>1. PICK N : N = Len(calls[t]) OBVIOUS
  <1>2. N \in Nat \ {0} BY <1>1, GetFacts
  <1>3. /\ OthersKept(t) /\ Len(calls'[t]) = N - 1
        /\ \A n \in 1 .. N - 1 : calls'[t][n] = calls[t][n]
    <2>1. /\ OthersKept(t) /\ Len(calls'[t]) = Len(calls[t]) - 1
          /\ \A n \in 1 .. Len(calls[t]) - 1 : calls'[t][n] = calls[t][n]
      BY PopFacts
    <2> QED BY <1>1, <2>1
  <1>4. \A n \in 1 .. N - 1 : n \in 1 .. N /\ n # N BY <1>2
  <1>5. N \in 1 .. Len(calls[t]) /\ Creating(t, N) BY <1>1, <1>2
  <1>6. writer = t /\ \A m \in 1 .. Len(calls[t]) : Creating(t, m) => m = N BY <1>5 DEF WriterCreates
  <1>7. ASSUME NEW u \in Thread, NEW n \in 1 .. Len(calls'[u])
        PROVE  /\ calls'[u][n].phase = "missed" => calls'[u][n].interface \in Singleton
               /\ ~Creating(u, n)'
    <2>1. CASE u = t
      <3>1. n \in 1 .. Len(calls[t]) /\ n # N /\ calls'[t][n] = calls[t][n] BY <1>1, <1>3, <1>4, <2>1
      <3>2. ~Creating(t, n) BY <1>6, <3>1
      <3> QED BY <2>1, <3>1, <3>2 DEF Creating, WriterCreates
    <2>2. CASE u # t
      <3>1. n \in 1 .. Len(calls[u]) /\ calls'[u] = calls[u] BY <1>3, <2>2 DEF OthersKept
      <3>2. ~Creating(u, n) BY <1>6, <2>2, <3>1 DEF WriterCreates
      <3> QED BY <3>1, <3>2 DEF Creating, WriterCreates
    <2> QED BY <2>1, <2>2
  <1> QED BY <1>7, WriterFree

\* The innermost get, which was not creating a singleton, goes on to a phase in
\* which it is not creating one either.
LEMMA GotoKeepsWriter ==
  ASSUME HostTypeOK, WriterCreates, NEW t \in Thread, ~Idle(t), NEW phase \in Phase, Goto(t, phase),
         UNCHANGED <<writer, singleton_instances>>, Top(t).phase # "creating",
         phase = "missed" => Top(t).interface \in Singleton,
         phase = "creating" => Top(t).interface \notin Singleton
  PROVE  WriterCreates'
  <1>1. PICK N : N = Len(calls[t]) OBVIOUS
  <1>2. N \in Nat \ {0} /\ Top(t) = calls[t][N] BY <1>1, GetFacts
  <1>3. /\ OthersKept(t) /\ Len(calls'[t]) = N
        /\ calls'[t][N].phase = phase /\ calls'[t][N].interface = Top(t).interface
        /\ \A n \in 1 .. N : n # N => calls'[t][n] = calls[t][n]
    <2>1. /\ OthersKept(t) /\ Len(calls'[t]) = Len(calls[t])
          /\ calls'[t][Len(calls[t])].phase = phase
          /\ calls'[t][Len(calls[t])].interface = Top(t).interface
          /\ \A n \in 1 .. Len(calls[t]) : n # Len(calls[t]) => calls'[t][n] = calls[t][n]
      BY GotoFacts
    <2> QED BY <1>1, <2>1
  <1>4. ~Creating(t, N) /\ ~Creating(t, N)' BY <1>2, <1>3 DEF Creating
  <1>5. ASSUME NEW n \in 1 .. N
        PROVE  /\ calls'[t][n].phase = "missed" => calls'[t][n].interface \in Singleton
               /\ Creating(t, n)' => calls'[t][n] = calls[t][n]
               /\ Creating(t, n) => calls'[t][n] = calls[t][n]
    <2>1. CASE n = N BY <1>3, <1>4, <2>1
    <2>2. CASE n # N
      <3>1. calls[t][n].phase = "missed" => calls[t][n].interface \in Singleton BY <1>1 DEF WriterCreates
      <3> QED BY <1>3, <2>2, <3>1
    <2> QED BY <2>1, <2>2
  <1>6. \A n \in 1 .. Len(calls'[t]) :
          /\ calls'[t][n].phase = "missed" => calls'[t][n].interface \in Singleton
          /\ Creating(t, n)' => n \in 1 .. Len(calls[t]) /\ calls'[t][n] = calls[t][n]
    BY <1>1, <1>3, <1>5
  <1>7. \A n \in 1 .. Len(calls[t]) : Creating(t, n) => n \in 1 .. Len(calls'[t]) /\ calls'[t][n] = calls[t][n]
    BY <1>1, <1>3, <1>5
  <1>8. writer \in Thread \cup {None} BY DEF HostTypeOK
  <1> QED BY <1>3, <1>6, <1>7, <1>8, WriterKept

\* The innermost get, of a singleton that is not cached, takes the free lock.
LEMMA LockTakesWriter ==
  ASSUME HostTypeOK, WriterCreates, NEW t \in Thread, InPhase(t, "missed"), Goto(t, "creating"),
         writer = None, writer' = t, UNCHANGED singleton_instances, singleton_instances[ContractOf(t)] = None
  PROVE  WriterCreates'
  <1>1. PICK N : N = Len(calls[t]) OBVIOUS
  <1>2. ~Idle(t) /\ Top(t).phase = "missed" BY DEF InPhase
  <1>3. N \in Nat \ {0} /\ Top(t) = calls[t][N] BY <1>1, <1>2, GetFacts
  <1>4. /\ OthersKept(t) /\ Len(calls'[t]) = N
        /\ calls'[t][N].phase = "creating" /\ calls'[t][N].interface = Top(t).interface
        /\ \A n \in 1 .. N : n # N => calls'[t][n] = calls[t][n]
    <2>1. /\ OthersKept(t) /\ Len(calls'[t]) = Len(calls[t])
          /\ calls'[t][Len(calls[t])].phase = "creating"
          /\ calls'[t][Len(calls[t])].interface = Top(t).interface
          /\ \A n \in 1 .. Len(calls[t]) : n # Len(calls[t]) => calls'[t][n] = calls[t][n]
      BY <1>2, GotoFacts DEF Phase
    <2> QED BY <1>1, <2>1
  <1>5. N \in 1 .. N BY <1>3
  <1>6. Top(t).interface \in Singleton BY <1>1, <1>2, <1>3, <1>5 DEF WriterCreates
  <1>7. \A u \in Thread : \A n \in 1 .. Len(calls[u]) : ~Creating(u, n)
    BY HostContractsAssumption DEF WriterCreates
  <1>8. ASSUME NEW u \in Thread, NEW n \in 1 .. Len(calls'[u]), ~(u = t /\ n = N)
        PROVE  /\ calls'[u][n].phase = "missed" => calls'[u][n].interface \in Singleton
               /\ ~Creating(u, n)'
    <2>1. n \in 1 .. Len(calls[u]) /\ calls'[u][n] = calls[u][n] BY <1>1, <1>4, <1>8 DEF OthersKept
    <2> QED BY <1>7, <2>1 DEF Creating, WriterCreates
  <1>9. Creating(t, N)' /\ singleton_instances'[ContractIdOf[calls'[t][N].interface]] = None
    BY <1>4, <1>6 DEF Creating, ContractOf
  <1>10. ASSUME NEW u \in Thread, NEW n \in 1 .. Len(calls'[u])
         PROVE  /\ calls'[u][n].phase = "missed" => calls'[u][n].interface \in Singleton
                /\ Creating(u, n)' =>
                     /\ writer' = u /\ singleton_instances'[ContractIdOf[calls'[u][n].interface]] = None
                     /\ \A m \in 1 .. Len(calls'[u]) : Creating(u, m)' => m = n
    <2>1. CASE u = t /\ n = N BY <1>4, <1>8, <1>9, <2>1
    <2>2. CASE ~(u = t /\ n = N) BY <1>8, <2>2
    <2> QED BY <2>1, <2>2
  <1>11. \E n \in 1 .. Len(calls'[writer']) :
           calls'[writer'][n].phase = "creating" /\ calls'[writer'][n].interface \in Singleton
    BY <1>4, <1>5, <1>6
  <1> QED BY <1>10, <1>11 DEF WriterCreates, Creating

-----------------------------------------------------------------------------
\* A get is answered with what is cached, or with an instance that is not a
\* singleton's.
LEMMA AnswerCached ==
  ASSUME HostTypeOK, AnswersCached, NEW t \in Thread, ~Idle(t), NEW n \in Instance,
         answered' = answered \cup {[interface |-> Top(t).interface, instance |-> n]},
         UNCHANGED singleton_instances,
         Top(t).interface \in Singleton => singleton_instances[ContractOf(t)] = n
  PROVE  AnswersCached' /\ answered' \subseteq [interface : HostInterface, instance : Instance]
  <1>1. Top(t).interface \in HostInterface BY GetFacts
  <1>2. PICK a : a = [interface |-> Top(t).interface, instance |-> n] OBVIOUS
  <1>3. /\ a \in [interface : HostInterface, instance : Instance]
        /\ a.interface = Top(t).interface /\ a.instance = n
    BY <1>1, <1>2
  <1>4. answered' = answered \cup {a} BY <1>2
  <1>5. a.interface \in Singleton => singleton_instances[ContractIdOf[a.interface]] = a.instance
    BY <1>3 DEF ContractOf
  <1>6. AnswersCached' BY <1>4, <1>5 DEF AnswersCached
  <1> QED BY <1>3, <1>4, <1>6 DEF HostTypeOK

\* host_get_host_contract, whose create_instance calls back into the runtime:
\* the lock has the thread that creates, and answers are what is cached.
LEMMA HostStep ==
  ASSUME HostInv, [HostNext]_<<vars, hostVars>>
  PROVE  HostInv'
  <1> USE HostContractsAssumption
  <1>0. HostTypeOK /\ TypeOK /\ CountExact /\ WriterCreates /\ AnswersCached BY DEF HostInv, HostTypeOK
  <1>1. TypeOK' /\ CountExact' BY <1>0, StackStep, HostStepIsStackStep
  <1>2. ASSUME UNCHANGED hostVars PROVE HostInv'
    <2>1. HostTypeOK' BY <1>0, <1>1, <1>2 DEF hostVars, HostTypeOK
    <2>2. WriterCreates' BY <1>0, <1>2 DEF hostVars, WriterCreates, Creating
    <2>3. AnswersCached' BY <1>0, <1>2 DEF hostVars, AnswersCached
    <2> QED BY <1>1, <2>1, <2>2, <2>3 DEF HostInv
  <1>3. ASSUME NEW c \in HostContractId, NEW v \in HostInterface \cup {None},
               host_contracts' = [host_contracts EXCEPT ![c] = v],
               UNCHANGED <<singleton_instances, writer, calls, made, answered>>
        PROVE  HostInv'
    <2>1. host_contracts' \in [HostContractId -> HostInterface \cup {None}] BY <1>0, <1>3 DEF HostTypeOK
    <2>2. HostTypeOK' BY <1>0, <1>1, <1>3, <2>1 DEF HostTypeOK
    <2>3. WriterCreates' BY <1>0, <1>3 DEF WriterCreates, Creating
    <2>4. AnswersCached' BY <1>0, <1>3 DEF AnswersCached
    <2> QED BY <1>1, <2>2, <2>3, <2>4 DEF HostInv
  <1>4. ASSUME NEW t \in Thread, NEW i \in HostInterface, RegisterHostContract(t, i) PROVE HostInv'
    <2>1. ContractIdOf[i] \in HostContractId OBVIOUS
    <2> QED BY <1>3, <1>4, <2>1 DEF RegisterHostContract
  <1>5. ASSUME NEW t \in Thread, NEW c \in HostContractId, UnregisterHostContract(t, c) PROVE HostInv'
    BY <1>3, <1>5 DEF UnregisterHostContract
  <1>6. ASSUME NEW t \in Thread, NEW c \in HostContractId, GetHostContract(t, c) PROVE HostInv'
    <2>1. PICK i : i = host_contracts[c] OBVIOUS
    <2>2. /\ i \in HostInterface /\ Shallow(t) /\ Push(t, i)
          /\ UNCHANGED <<host_contracts, singleton_instances, writer, made, answered>>
      BY <1>0, <1>6, <2>1 DEF GetHostContract, HostTypeOK
    <2>3. PICK N : N = Len(calls[t]) OBVIOUS
    <2>4. /\ OthersKept(t) /\ \A u \in Thread : Len(calls'[u]) <= MaxDepth
          /\ N \in Nat /\ Len(calls'[t]) = N + 1 /\ calls'[t][N + 1].phase = "found"
          /\ \A n \in 1 .. N : calls'[t][n] = calls[t][n]
      <3>1. /\ OthersKept(t) /\ \A u \in Thread : Len(calls'[u]) <= MaxDepth
            /\ Len(calls[t]) \in Nat /\ Len(calls'[t]) = Len(calls[t]) + 1
            /\ calls'[t][Len(calls[t]) + 1].phase = "found"
            /\ \A n \in 1 .. Len(calls[t]) : calls'[t][n] = calls[t][n]
        BY <1>0, <2>2, PushFacts
      <3> QED BY <2>3, <3>1
    <2>5. ASSUME NEW n \in 1 .. N + 1
          PROVE  /\ calls'[t][n].phase = "missed" => calls'[t][n].interface \in Singleton
                 /\ Creating(t, n)' => n \in 1 .. N /\ calls'[t][n] = calls[t][n]
      <3>1. CASE n = N + 1 BY <2>4, <3>1 DEF Creating
      <3>2. CASE n # N + 1
        <4>1. n \in 1 .. N /\ n \in 1 .. Len(calls[t]) BY <2>3, <2>4, <3>2
        <4> QED BY <1>0, <2>4, <4>1 DEF WriterCreates
      <3> QED BY <3>1, <3>2
    <2>6. \A n \in 1 .. N : n \in 1 .. N + 1 BY <2>4
    <2>7. WriterCreates'
      <3>1. \A n \in 1 .. Len(calls'[t]) :
              /\ calls'[t][n].phase = "missed" => calls'[t][n].interface \in Singleton
              /\ Creating(t, n)' => n \in 1 .. Len(calls[t]) /\ calls'[t][n] = calls[t][n]
        BY <2>3, <2>4, <2>5
      <3>2. \A n \in 1 .. Len(calls[t]) : Creating(t, n) => n \in 1 .. Len(calls'[t]) /\ calls'[t][n] = calls[t][n]
        BY <2>3, <2>4, <2>6
      <3>3. writer \in Thread \cup {None} BY <1>0 DEF HostTypeOK
      <3> QED BY <1>0, <2>2, <2>4, <3>1, <3>2, <3>3, WriterKept
    <2>8. HostTypeOK' BY <1>0, <1>1, <2>2, <2>4 DEF HostTypeOK, OthersKept
    <2>9. AnswersCached' BY <1>0, <2>2 DEF AnswersCached
    <2> QED BY <1>1, <2>7, <2>8, <2>9 DEF HostInv
  <1>7. ASSUME NEW t \in Thread, ~Idle(t), Top(t).phase # "creating",
               Answer(t, singleton_instances[ContractOf(t)]),
               singleton_instances[ContractOf(t)] # None,
               UNCHANGED <<host_contracts, singleton_instances, writer, made>>
        PROVE  HostInv'
    <2>1. PICK n : n = singleton_instances[ContractOf(t)] OBVIOUS
    <2>2. n \in Instance
      <3>1. ContractOf(t) \in HostContractId BY <1>0, <1>7, GetFacts
      <3> QED BY <1>0, <1>7, <2>1, <3>1 DEF HostTypeOK
    <2>3. Pop(t) /\ answered' = answered \cup {[interface |-> Top(t).interface, instance |-> n]}
      BY <1>7, <2>1 DEF Answer
    <2>4. AnswersCached' /\ answered' \subseteq [interface : HostInterface, instance : Instance]
      BY <1>0, <1>7, <2>1, <2>2, <2>3, AnswerCached
    <2>5. OthersKept(t) /\ \A u \in Thread : Len(calls'[u]) <= MaxDepth BY <1>0, <1>7, <2>3, PopFacts
    <2>6. HostTypeOK' BY <1>0, <1>1, <1>7, <2>4, <2>5 DEF HostTypeOK, OthersKept
    <2>7. ~Creating(t, Len(calls[t])) BY <1>7 DEF Creating, Top
    <2>8. WriterCreates' BY <1>0, <1>7, <2>3, <2>7, PopKeepsWriter
    <2> QED BY <1>1, <2>4, <2>6, <2>8 DEF HostInv
  <1>8. ASSUME NEW t \in Thread, ~Idle(t), NEW phase \in Phase, Goto(t, phase), writer' \in Thread \cup {None},
               UNCHANGED <<host_contracts, singleton_instances, made, answered>>, WriterCreates'
        PROVE  HostInv'
    <2>1. OthersKept(t) /\ \A u \in Thread : Len(calls'[u]) <= MaxDepth BY <1>0, <1>8, GotoFacts
    <2>2. HostTypeOK' BY <1>0, <1>1, <1>8, <2>1 DEF HostTypeOK, OthersKept
    <2>3. AnswersCached' BY <1>0, <1>8 DEF AnswersCached
    <2> QED BY <1>1, <1>8, <2>2, <2>3 DEF HostInv
  <1>9. writer \in Thread \cup {None} BY <1>0 DEF HostTypeOK
  <1>10. ASSUME NEW t \in Thread, CheckCache(t) PROVE HostInv'
    <2>1. /\ ~Idle(t) /\ Top(t).phase = "found" /\ Top(t).interface \in Singleton
          /\ UNCHANGED <<host_contracts, singleton_instances, writer, made>>
      BY <1>10 DEF CheckCache, InPhase
    <2>2. CASE singleton_instances[ContractOf(t)] # None
      <3>1. Answer(t, singleton_instances[ContractOf(t)]) BY <1>10, <2>2 DEF CheckCache
      <3> QED BY <1>7, <2>1, <2>2, <3>1
    <2>3. CASE singleton_instances[ContractOf(t)] = None
      <3>1. Goto(t, "missed") /\ UNCHANGED answered BY <1>10, <2>3 DEF CheckCache
      <3>2. "missed" \in Phase BY DEF Phase
      <3>3. WriterCreates' BY <1>0, <2>1, <3>1, <3>2, GotoKeepsWriter
      <3> QED BY <1>8, <1>9, <2>1, <3>1, <3>2, <3>3
    <2> QED BY <2>2, <2>3
  <1>11. ASSUME NEW t \in Thread, LockAndCheck(t) PROVE HostInv'
    <2>1. /\ InPhase(t, "missed") /\ ~Idle(t) /\ Top(t).phase = "missed" /\ writer = None
          /\ UNCHANGED <<host_contracts, singleton_instances, made>>
      BY <1>11 DEF LockAndCheck, InPhase
    <2>2. CASE singleton_instances[ContractOf(t)] # None
      <3>1. Answer(t, singleton_instances[ContractOf(t)]) /\ UNCHANGED writer BY <1>11, <2>2 DEF LockAndCheck
      <3> QED BY <1>7, <2>1, <2>2, <3>1
    <2>3. CASE singleton_instances[ContractOf(t)] = None
      <3>1. Goto(t, "creating") /\ writer' = t /\ UNCHANGED answered BY <1>11, <2>3 DEF LockAndCheck
      <3>2. "creating" \in Phase BY DEF Phase
      <3>3. WriterCreates' BY <1>0, <2>1, <2>3, <3>1, LockTakesWriter
      <3> QED BY <1>8, <2>1, <3>1, <3>2, <3>3
    <2> QED BY <2>2, <2>3
  <1>12. ASSUME NEW t \in Thread, CreateForCaller(t) PROVE HostInv'
    <2>1. /\ ~Idle(t) /\ Top(t).phase = "found" /\ Top(t).interface \notin Singleton /\ Goto(t, "creating")
          /\ UNCHANGED <<host_contracts, singleton_instances, writer, made, answered>>
      BY <1>12 DEF CreateForCaller, InPhase
    <2>2. "creating" \in Phase BY DEF Phase
    <2>3. WriterCreates' BY <1>0, <2>1, <2>2, GotoKeepsWriter
    <2> QED BY <1>8, <1>9, <2>1, <2>2, <2>3
  <1>13. ASSUME NEW t \in Thread, Created(t) PROVE HostInv'
    <2>1. PICK n : n = Len(made) + 1 OBVIOUS
    <2>2. /\ ~Idle(t) /\ Top(t).phase = "creating" /\ n <= MaxInstances
          /\ made' = Append(made, Top(t).interface) /\ Pop(t) /\ UNCHANGED host_contracts
          /\ answered' = answered \cup {[interface |-> Top(t).interface, instance |-> n]}
      BY <1>13, <2>1 DEF Created, InPhase, Answer
    <2>3. Top(t).interface \in HostInterface /\ ContractOf(t) \in HostContractId BY <1>0, <2>2, GetFacts
    <2>4. made \in Seq(HostInterface) BY <1>0 DEF HostTypeOK
    <2>5. made' \in Seq(HostInterface) /\ Len(made') = n /\ Len(made) \in Nat BY <2>1, <2>2, <2>3, <2>4, AppendFacts
    <2>6. n \in Instance BY <2>1, <2>2, <2>5 DEF Instance
    <2>7. OthersKept(t) /\ \A u \in Thread : Len(calls'[u]) <= MaxDepth BY <1>0, <2>2, PopFacts
    <2>8. CASE Top(t).interface \notin Singleton
      <3>1. UNCHANGED <<singleton_instances, writer>> BY <1>13, <2>8 DEF Created
      <3>2. AnswersCached' /\ answered' \subseteq [interface : HostInterface, instance : Instance]
        BY <1>0, <2>2, <2>6, <2>8, <3>1, AnswerCached
      <3>3. ~Creating(t, Len(calls[t])) BY <2>8 DEF Creating, Top
      <3>4. WriterCreates' BY <1>0, <2>2, <3>1, <3>3, PopKeepsWriter
      <3>5. HostTypeOK' BY <1>0, <1>1, <2>2, <2>5, <2>7, <3>1, <3>2 DEF HostTypeOK, OthersKept
      <3> QED BY <1>1, <3>2, <3>4, <3>5 DEF HostInv
    <2>9. CASE Top(t).interface \in Singleton
      <3>1. singleton_instances' = [singleton_instances EXCEPT ![ContractOf(t)] = n] /\ writer' = None
        BY <1>13, <2>1, <2>9 DEF Created
      <3>2. Creating(t, Len(calls[t])) BY <2>2, <2>9 DEF Creating, Top
      <3>3. WriterCreates' BY <1>0, <2>2, <3>1, <3>2, PopFreesWriter
      <3>4. singleton_instances[ContractOf(t)] = None
        <4>1. Len(calls[t]) \in 1 .. Len(calls[t]) BY <1>0, <2>2, GetFacts
        <4> QED BY <1>0, <3>2, <4>1 DEF WriterCreates, ContractOf, Top
      <3>5. singleton_instances \in [HostContractId -> Instance \cup {None}] BY <1>0 DEF HostTypeOK
      <3>6. /\ singleton_instances' \in [HostContractId -> Instance \cup {None}]
            /\ singleton_instances'[ContractOf(t)] = n
            /\ \A c \in HostContractId : c # ContractOf(t) => singleton_instances'[c] = singleton_instances[c]
        BY <2>3, <2>6, <3>1, <3>5
      <3>7. PICK a : a = [interface |-> Top(t).interface, instance |-> n] OBVIOUS
      <3>8. /\ a \in [interface : HostInterface, instance : Instance]
            /\ a.instance = n /\ ContractIdOf[a.interface] = ContractOf(t)
        BY <2>3, <2>6, <3>7 DEF ContractOf
      <3>9. answered' = answered \cup {a} /\ answered \subseteq [interface : HostInterface, instance : Instance]
        BY <1>0, <2>2, <3>7 DEF HostTypeOK
      <3>10. ASSUME NEW b \in answered, b.interface \in Singleton
             PROVE  singleton_instances'[ContractIdOf[b.interface]] = b.instance
        <4>1. b.instance \in Instance /\ b.interface \in HostInterface BY <3>9
        <4>2. singleton_instances[ContractIdOf[b.interface]] = b.instance BY <1>0, <3>10 DEF AnswersCached
        <4>3. ContractIdOf[b.interface] # ContractOf(t) BY <3>4, <4>1, <4>2
        <4>4. ContractIdOf[b.interface] \in HostContractId BY <4>1
        <4> QED BY <3>6, <4>2, <4>3, <4>4
      <3>11. AnswersCached' BY <3>6, <3>8, <3>9, <3>10 DEF AnswersCached
      <3>12. HostTypeOK' BY <1>0, <1>1, <2>2, <2>5, <2>7, <3>1, <3>6, <3>8, <3>9 DEF HostTypeOK, OthersKept
      <3> QED BY <1>1, <3>3, <3>11, <3>12 DEF HostInv
    <2> QED BY <2>8, <2>9
  <1>14. ASSUME NEW t \in Thread, CreateFails(t) PROVE HostInv'
    <2>1. /\ ~Idle(t) /\ Top(t).phase = "creating" /\ Pop(t)
          /\ writer' = IF Top(t).interface \in Singleton THEN None ELSE writer
          /\ UNCHANGED <<host_contracts, singleton_instances, made, answered>>
      BY <1>14 DEF CreateFails, InPhase
    <2>2. OthersKept(t) /\ \A u \in Thread : Len(calls'[u]) <= MaxDepth BY <1>0, <2>1, PopFacts
    <2>3. HostTypeOK' BY <1>0, <1>1, <1>9, <2>1, <2>2 DEF HostTypeOK, OthersKept
    <2>4. AnswersCached' BY <1>0, <2>1 DEF AnswersCached
    <2>5. WriterCreates'
      <3>1. CASE Top(t).interface \in Singleton
        <4>1. Creating(t, Len(calls[t])) BY <2>1, <3>1 DEF Creating, Top
        <4> QED BY <1>0, <2>1, <3>1, <4>1, PopFreesWriter
      <3>2. CASE Top(t).interface \notin Singleton
        <4>1. ~Creating(t, Len(calls[t])) BY <3>2 DEF Creating, Top
        <4> QED BY <1>0, <2>1, <3>2, <4>1, PopKeepsWriter
      <3> QED BY <3>1, <3>2
    <2> QED BY <1>1, <2>3, <2>4, <2>5 DEF HostInv
  <1> QED
    BY <1>2, <1>4, <1>5, <1>6, <1>10, <1>11, <1>12, <1>13, <1>14 DEF HostNext, Call, Proceed

LEMMA HostInitInv ==
  ASSUME HostInit
  PROVE  HostInv
  <1> USE InitStackAssumption, HostContractsAssumption
  <1>1. TypeOK /\ CountExact BY InitMatches DEF HostInit, InitStackInv
  <1>2. \A t \in Thread : calls[t] = <<>> BY DEF HostInit
  <1>3. Len(<<>>) = 0 BY EmptySeq
  <1>4. HostTypeOK
    <2>1. calls \in [Thread -> Seq(Frame)] /\ made \in Seq(HostInterface) /\ made = <<>> BY EmptySeq DEF HostInit
    <2>2. \A t \in Thread : Len(calls[t]) <= MaxDepth BY <1>2, <1>3
    <2>3. Len(made) <= MaxInstances BY <1>3, <2>1
    <2> QED BY <1>1, <2>1, <2>2, <2>3 DEF HostInit, HostTypeOK
  <1>5. WriterCreates BY <1>2, <1>3 DEF HostInit, WriterCreates
  <1>6. AnswersCached BY DEF HostInit, AnswersCached
  <1> QED BY <1>1, <1>4, <1>5, <1>6 DEF HostInv

\* Whatever create_instance and init code call back into, the lock of
\* singleton_instances is held exactly by the get that creates a singleton, and
\* what callers were handed is what is cached.
THEOREM HostInvariant == HostSpec => []HostInv
  <1> QED BY HostInitInv, HostStep, PTL DEF HostSpec

\* All variables stay well typed, init that loads its own bundle included.
THEOREM HostTypeCorrect == HostSpec => []HostTypeOK
  <1>1. HostInv => HostTypeOK BY DEF HostInv
  <1> QED BY <1>1, HostInvariant, PTL

\* All callers of a singleton contract are handed the same instance, whichever
\* threads race for it and whatever interfaces are registered in between
\* (host_get_host_contract).
THEOREM SingletonsOnce == HostSpec => []SingletonOnce
  <1>1. ASSUME HostInv PROVE SingletonOnce BY <1>1 DEF HostInv, AnswersCached, SingletonOnce
  <1> QED BY <1>1, HostInvariant, PTL
=============================================================================

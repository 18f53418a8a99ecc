----------------------- MODULE InternalPluginsProofs -----------------------
(***************************************************************************)
(* Proofs about InternalPlugins, for any bundles, threads, users and       *)
(* numbers of transactions.                                                *)
(***************************************************************************)
EXTENDS InternalPlugins, FiniteSetTheorems, TLAPS

PluginRecord == [bundle_id : BundleId \cup {None}, internal : BOOLEAN,
                 generated : BOOLEAN, resident : BOOLEAN, thread : Thread \cup {None}]
TxnRecord == [phase : {"none", "staged", "published", "failed"}, plugin : Plugin \cup {NoPlugin}]
UnloadRecord == [phase : {"none", "checked", "counts", "roots", "residents", "release"},
                 bundle_id : BundleId \cup {None}, plugin : Plugin \cup {NoPlugin}]

-----------------------------------------------------------------------------
(***************************************************************************)
(* What the parts of the actions do.                                       *)
(***************************************************************************)

\* The transactions begun so far are plugins, and not the null one.
LEMMA PluginRange ==
  ASSUME TypeOK
  PROVE  /\ begun \in Nat /\ begun <= MaxPlugins
         /\ \A p \in 1 .. begun : p \in Plugin /\ p # NoPlugin /\ p # begun + 1
         /\ \A p \in Plugin : p # NoPlugin /\ Bundle[p] = plugin[p].bundle_id
         /\ \A p \in Plugin : p \in 1 .. begun \/ p > begun
         /\ 0 \notin 1 .. begun
  BY InternalPluginsAssumption DEF TypeOK, Plugin, NoPlugin, Bundle

\* A new transaction.
LEMMA NewFacts ==
  ASSUME TypeOK, NEW b \in BundleId, NEW internal \in BOOLEAN, NEW generated \in BOOLEAN, NEW t \in Thread,
         New(b, internal, generated, t)
  PROVE  LET q == begun + 1
         IN  /\ begun' = q /\ begun' \in 0 .. MaxPlugins /\ q \in Plugin /\ plugin' \in [Plugin -> PluginRecord]
             /\ \A p \in Plugin \ {q} : plugin'[p] = plugin[p]
             /\ plugin'[q].bundle_id = b /\ plugin'[q].thread = t
             /\ plugin'[q].internal <=> internal
             /\ plugin'[q].generated <=> generated
             /\ ~plugin'[q].resident
  <1> DEFINE q == begun + 1
             new == [bundle_id |-> b, internal |-> internal, generated |-> generated,
                     resident |-> FALSE, thread |-> t]
  <1>1. begun' = q /\ begun' \in 0 .. MaxPlugins /\ q \in Plugin
    BY InternalPluginsAssumption DEF New, TypeOK, Plugin
  <1>2. plugin' = [plugin EXCEPT ![q] = new] BY Zenon DEF New
  <1>3. /\ new \in PluginRecord /\ new.bundle_id = b /\ new.thread = t
        /\ (new.internal <=> internal) /\ (new.generated <=> generated) /\ ~new.resident
    BY DEF PluginRecord
  <1> HIDE DEF new
  <1>4. plugin \in [Plugin -> PluginRecord] BY DEF TypeOK, PluginRecord
  <1>5. plugin'[q] = new /\ plugin' \in [Plugin -> PluginRecord] /\ \A p \in Plugin \ {q} : plugin'[p] = plugin[p]
    BY <1>1, <1>2, <1>3, <1>4
  <1> QED BY <1>1, <1>3, <1>5, Zenon

\* A resident is attached.
LEMMA AttachFacts ==
  ASSUME TypeOK, NEW q \in Plugin, plugin' = [plugin EXCEPT ![q].resident = TRUE]
  PROVE  /\ plugin' \in [Plugin -> PluginRecord]
         /\ \A p \in Plugin \ {q} : plugin'[p] = plugin[p]
         /\ plugin'[q].bundle_id = plugin[q].bundle_id /\ plugin'[q].thread = plugin[q].thread
         /\ plugin'[q].internal = plugin[q].internal /\ plugin'[q].generated = plugin[q].generated
         /\ plugin'[q].resident
  <1>1. \A c \in PluginRecord : LET n == [c EXCEPT !.resident = TRUE]
          IN  /\ n \in PluginRecord /\ n.bundle_id = c.bundle_id /\ n.thread = c.thread
              /\ n.internal = c.internal /\ n.generated = c.generated /\ n.resident
    BY DEF PluginRecord
  <1>2. plugin \in [Plugin -> PluginRecord] BY DEF TypeOK, PluginRecord
  <1> DEFINE new == [plugin[q] EXCEPT !.resident = TRUE]
  <1>3. plugin' = [plugin EXCEPT ![q] = new] BY Zenon
  <1>4. /\ new \in PluginRecord /\ new.bundle_id = plugin[q].bundle_id /\ new.thread = plugin[q].thread
        /\ new.internal = plugin[q].internal /\ new.generated = plugin[q].generated /\ new.resident
    BY <1>1, <1>2, Zenon
  <1> HIDE DEF new
  <1>5. plugin'[q] = new /\ plugin' \in [Plugin -> PluginRecord] /\ \A p \in Plugin \ {q} : plugin'[p] = plugin[p]
    BY <1>2, <1>3, <1>4
  <1> QED BY <1>4, <1>5, Zenon

\* The null records have their types and fields.
LEMMA NullRecords ==
  /\ NoTxn \in TxnRecord /\ NoTxn.phase = "none" /\ NoTxn.plugin = NoPlugin
  /\ NoUnload \in UnloadRecord /\ NoUnload.phase = "none" /\ NoUnload.plugin = NoPlugin /\ NoUnload.bundle_id = None
  BY DEF NoTxn, TxnRecord, NoUnload, UnloadRecord

\* The end of a transaction.
LEMMA CloseFacts ==
  ASSUME TypeOK, NEW t \in Thread, CloseTxn(t)
  PROVE  /\ txn'[t] = NoTxn /\ \A s \in Thread \ {t} : txn'[s] = txn[s]
         /\ txn' \in [Thread -> TxnRecord] /\ held' \in [Mutex -> Thread \cup {None}]
         /\ held'["counts"] = held["counts"] /\ held'["residents"] = held["residents"]
         /\ held'["roots"] = IF plugin[txn[t].plugin].generated THEN None ELSE held["roots"]
  <1>1. txn \in [Thread -> TxnRecord] /\ held \in [Mutex -> Thread \cup {None}] BY DEF TypeOK, TxnRecord
  <1>2. txn' = [txn EXCEPT ![t] = NoTxn] BY DEF CloseTxn
  <1>3. CASE plugin[txn[t].plugin].generated
    <2>1. held' = [held EXCEPT !["roots"] = None] BY <1>3 DEF CloseTxn
    <2> QED BY <1>1, <1>2, <1>3, <2>1, NullRecords DEF Mutex
  <1>4. CASE ~plugin[txn[t].plugin].generated
    <2>1. held' = held BY <1>4 DEF CloseTxn
    <2> QED BY <1>1, <1>2, <1>4, <2>1, NullRecords DEF Mutex
  <1> QED BY <1>3, <1>4

\* The locks of an unload, in order.
LEMMA NextMutexFacts ==
  /\ NextMutex("checked") = "counts" /\ NextMutex("counts") = "roots" /\ NextMutex("roots") = "residents"
  /\ NextMutex("none") = "none" /\ NextMutex("residents") = "none" /\ NextMutex("release") = "none"
  BY DEF NextMutex

\* A thread that has all locks is at the last of them.
LEMMA LockedFacts ==
  ASSUME BackingInv, NEW t \in Thread, AllLocked(t)
  PROVE  /\ unload[t].phase = "residents" /\ unload[t].bundle_id \in BundleId /\ unload[t].plugin = NoPlugin
         /\ \A s \in Thread \ {t} : /\ unload[s].phase \notin {"counts", "roots", "residents"}
                                    /\ txn[s] # NoTxn => ~plugin[txn[s].plugin].generated
  <1>1. held["counts"] = t /\ held["roots"] = t /\ held["residents"] = t BY DEF AllLocked, Mutex
  <1>2. unload[t].phase = "residents" BY <1>1 DEF BackingInv, LocksTracked
  <1>3. unload[t].bundle_id \in BundleId /\ unload[t].plugin = NoPlugin
    BY <1>2 DEF BackingInv, UnloadsTracked
  <1> QED BY <1>1, <1>2, <1>3 DEF BackingInv, LocksTracked

\* The locks are given up together.
LEMMA UnlockFacts ==
  ASSUME TypeOK, NEW t \in Thread, UnlockAll(t)
  PROVE  /\ held' \in [Mutex -> Thread \cup {None}]
         /\ \A m \in Mutex : held'[m] = IF held[m] = t THEN None ELSE held[m]
  BY DEF UnlockAll, TypeOK

-----------------------------------------------------------------------------
(***************************************************************************)
(* The invariant of any host, but for where the backing is.                *)
(***************************************************************************)
LedgerInv == TypeOK /\ TxnsTracked /\ UnloadsTracked /\ LocksTracked /\ RegistrationsTracked /\ BackingFiled

\* The types, with the records named.
LEMMA Typed ==
  ASSUME TypeOK
  PROVE  /\ plugin \in [Plugin -> PluginRecord] /\ txn \in [Thread -> TxnRecord]
         /\ unload \in [Thread -> UnloadRecord] /\ held \in [Mutex -> Thread \cup {None}]
         /\ registered \in [BundleId -> Plugin \cup {NoPlugin}]
         /\ internal_plugin_roots \in [BundleId -> Plugin \cup {NoPlugin}]
         /\ internal_plugin_residents \in [BundleId -> Plugin \cup {NoPlugin}]
         /\ releasedBy \in [Plugin -> Thread \cup {None}]
  BY DEF TypeOK, PluginRecord, TxnRecord, UnloadRecord

\* An open transaction is not the null one, and its plugin has been begun.
LEMMA OpenTxn ==
  ASSUME TypeOK, TxnsTracked, NEW t \in Thread, txn[t].phase # "none"
  PROVE  /\ txn[t] # NoTxn /\ txn[t].plugin \in 1 .. begun /\ txn[t].plugin \in Plugin
         /\ plugin[txn[t].plugin].thread = t /\ plugin[txn[t].plugin].internal
         /\ plugin[txn[t].plugin].bundle_id \in InternalBundle
         /\ Bundle[txn[t].plugin] = plugin[txn[t].plugin].bundle_id
         /\ Bundle[txn[t].plugin] \in BundleId
  <1>1. txn[t] # NoTxn BY NullRecords
  <1>2. txn[t].plugin \in 1 .. begun /\ plugin[txn[t].plugin].thread = t /\ plugin[txn[t].plugin].internal
        /\ plugin[txn[t].plugin].bundle_id \in InternalBundle
    BY DEF TxnsTracked
  <1>3. txn[t].plugin \in Plugin /\ Bundle[txn[t].plugin] = plugin[txn[t].plugin].bundle_id BY <1>2, PluginRange
  <1> QED BY <1>1, <1>2, <1>3 DEF BundleId

\* begin_internal_plugin.
LEMMA BeginLedger ==
  ASSUME LedgerInv, NEW t \in Thread, NEW b \in InternalBundle, NEW generated \in BOOLEAN,
         BeginInternalPlugin(t, b, generated)
  PROVE  LedgerInv'
  <1> DEFINE q == begun + 1
  <1>0. TypeOK /\ TxnsTracked /\ UnloadsTracked /\ LocksTracked /\ RegistrationsTracked /\ BackingFiled BY DEF LedgerInv
  <1>1. /\ New(b, TRUE, generated, t) /\ b \in BundleId /\ txn[t] = NoTxn /\ unload[t] = NoUnload
        /\ registered[b] = NoPlugin
    BY DEF BeginInternalPlugin, Available, BundleId
  <1>2. /\ begun' = q /\ begun' \in 0 .. MaxPlugins /\ q \in Plugin /\ plugin' \in [Plugin -> PluginRecord]
        /\ \A p \in Plugin \ {q} : plugin'[p] = plugin[p]
        /\ plugin'[q].bundle_id = b /\ plugin'[q].thread = t /\ plugin'[q].internal
        /\ plugin'[q].generated <=> generated
        /\ ~plugin'[q].resident
    BY <1>0, <1>1, NewFacts
  <1>3. /\ \A p \in 1 .. begun : p \in Plugin \ {q} /\ p \in 1 .. begun'
        /\ q \in 1 .. begun' /\ begun \in Nat
    BY <1>0, <1>2, PluginRange
  <1>4. /\ txn' = [txn EXCEPT ![t] = [phase |-> "staged", plugin |-> q]]
        /\ internal_plugin_lifecycle' = internal_plugin_lifecycle \cup {b}
        /\ UNCHANGED <<registered, internal_plugin_roots, internal_plugin_residents,
                       instance_counts, unload, user, releasedBy, alive>>
    BY Zenon DEF BeginInternalPlugin
  <1>5. /\ txn'[t].phase = "staged" /\ txn'[t].plugin = q /\ txn' \in [Thread -> TxnRecord]
        /\ \A s \in Thread \ {t} : txn'[s] = txn[s]
    BY <1>0, <1>2, <1>4, Typed DEF TxnRecord
  <1>6. txn'[t] # NoTxn BY <1>5, NullRecords
  <1>7. /\ held' \in [Mutex -> Thread \cup {None}]
        /\ held'["counts"] = held["counts"] /\ held'["residents"] = held["residents"]
        /\ generated => held["roots"] = None /\ held'["roots"] = t
        /\ ~generated => held'["roots"] = held["roots"]
    <2>1. held' = IF generated THEN [held EXCEPT !["roots"] = t] ELSE held BY DEF BeginInternalPlugin
    <2>2. generated => held["roots"] = None BY DEF BeginInternalPlugin, Free
    <2> QED BY <1>0, <2>1, <2>2, Typed DEF Mutex
  <1>8. TypeOK'
    <2>1. internal_plugin_lifecycle' \subseteq BundleId BY <1>0, <1>1, <1>4 DEF TypeOK
    <2> QED BY <1>0, <1>2, <1>4, <1>5, <1>7, <2>1 DEF TypeOK, TxnRecord, PluginRecord
  <1>9. \A s \in Thread \ {t} : txn[s].phase # "none" =>
          txn[s].plugin \in 1 .. begun /\ plugin'[txn[s].plugin] = plugin[txn[s].plugin]
    BY <1>0, <1>2, <1>3, OpenTxn
  <1>10. TxnsTracked' BY <1>0, <1>2, <1>3, <1>4, <1>5, <1>9 DEF TxnsTracked
  <1>11. \A s \in Thread \ {t} : txn[s] # NoTxn => txn[s].phase # "none" BY <1>0 DEF TxnsTracked
  <1>12. unload[t].phase = "none" BY <1>1, NullRecords
  <1>13. UnloadsTracked' BY <1>0, <1>1, <1>2, <1>3, <1>4, <1>5, <1>9, <1>11, <1>12 DEF UnloadsTracked
  <1>14. LocksTracked'
    <2>1. t # None BY InternalPluginsAssumption
    <2>2. held["roots"] # t BY <1>0, <1>1, <1>12 DEF LocksTracked
    <2> QED BY <1>0, <1>1, <1>2, <1>4, <1>5, <1>6, <1>7, <1>9, <1>11, <1>12, <2>1, <2>2, InternalPluginsAssumption DEF LocksTracked
  <1>15. RegistrationsTracked'
    <2>1. \A p \in Plugin : p > begun' => p > begun BY <1>2, <1>3 DEF Plugin
    <2> QED BY <1>0, <1>2, <1>3, <1>4, <2>1 DEF RegistrationsTracked
  <1>16. BackingFiled'
    <2>1. \A a \in BundleId : registered[a] # NoPlugin => registered[a] # q /\ plugin'[registered[a]] = plugin[registered[a]]
      BY <1>0, <1>2, <1>3 DEF RegistrationsTracked
    <2>2. \A a \in BundleId : (\E s \in Thread : txn'[s] = [phase |-> "published", plugin |-> registered[a]])
                          <=> (\E s \in Thread : txn[s] = [phase |-> "published", plugin |-> registered[a]])
      BY <1>1, <1>5 DEF NoTxn
    <2> QED BY <1>0, <1>4, <2>1, <2>2 DEF BackingFiled
  <1> QED BY <1>8, <1>10, <1>13, <1>14, <1>15, <1>16 DEF LedgerInv

-----------------------------------------------------------------------------
(***************************************************************************)
(* Where the backing of a transaction is.                                  *)
(***************************************************************************)
Accounted(p) == \E place \in Places(p) : Places(p) = {place}
Labelled(A, B, C, D) ==
  ({"staged"} \X A) \cup ({"leaving"} \X B) \cup ({"published"} \X C) \cup ({"released"} \X D)
Single(U) == \E place : U = {place}
OneElement(A, B, C, D) ==
  \/ (\E x : A = {x}) /\ B = {} /\ C = {} /\ D = {}
  \/ (\E x : B = {x}) /\ A = {} /\ C = {} /\ D = {}
  \/ (\E x : C = {x}) /\ A = {} /\ B = {} /\ D = {}
  \/ (\E x : D = {x}) /\ A = {} /\ B = {} /\ C = {}

\* A disjoint union with one element has it in one of its parts, ...
LEMMA LabelledOne ==
  ASSUME NEW A, NEW B, NEW C, NEW D, NEW place, Labelled(A, B, C, D) = {place}
  PROVE  OneElement(A, B, C, D)
  <1>1. /\ \A x \in A : <<"staged", x>> = place
        /\ \A x \in B : <<"leaving", x>> = place
        /\ \A x \in C : <<"published", x>> = place
        /\ \A x \in D : <<"released", x>> = place
    BY DEF Labelled
  <1>2. A # {} \/ B # {} \/ C # {} \/ D # {} BY DEF Labelled
  <1>3. ASSUME A # {} PROVE (\E x : A = {x}) /\ B = {} /\ C = {} /\ D = {} BY <1>1, <1>3
  <1>4. ASSUME B # {} PROVE (\E x : B = {x}) /\ A = {} /\ C = {} /\ D = {} BY <1>1, <1>4
  <1>5. ASSUME C # {} PROVE (\E x : C = {x}) /\ A = {} /\ B = {} /\ D = {} BY <1>1, <1>5
  <1>6. ASSUME D # {} PROVE (\E x : D = {x}) /\ A = {} /\ B = {} /\ C = {} BY <1>1, <1>6
  <1> QED BY <1>2, <1>3, <1>4, <1>5, <1>6 DEF OneElement

\* ... and the other way round.
LEMMA OneLabelled ==
  ASSUME NEW A, NEW B, NEW C, NEW D, OneElement(A, B, C, D)
  PROVE  Single(Labelled(A, B, C, D))
  <1>1. ASSUME NEW x, A = {x}, B = {}, C = {}, D = {} PROVE Labelled(A, B, C, D) = {<<"staged", x>>}
    BY <1>1 DEF Labelled
  <1>2. ASSUME NEW x, B = {x}, A = {}, C = {}, D = {} PROVE Labelled(A, B, C, D) = {<<"leaving", x>>}
    BY <1>2 DEF Labelled
  <1>3. ASSUME NEW x, C = {x}, A = {}, B = {}, D = {} PROVE Labelled(A, B, C, D) = {<<"published", x>>}
    BY <1>3 DEF Labelled
  <1>4. ASSUME NEW x, D = {x}, A = {}, B = {}, C = {} PROVE Labelled(A, B, C, D) = {<<"released", x>>}
    BY <1>4 DEF Labelled
  <1> QED BY <1>1, <1>2, <1>3, <1>4, Zenon DEF OneElement, Single

\* A transaction's backing is in one place, spelled out.
LEMMA OnePlace ==
  ASSUME NEW p
  PROVE  Accounted(p) <=> OneElement(Staged(p), Leaving(p), Published(p), ReleasedBy(p))
  <1>1. Places(p) = Labelled(Staged(p), Leaving(p), Published(p), ReleasedBy(p)) BY Zenon DEF Places, Labelled
  <1>2. Accounted(p) <=> \E place : Places(p) = {place} BY DEF Accounted
  <1>3. ASSUME NEW place, Places(p) = {place} PROVE OneElement(Staged(p), Leaving(p), Published(p), ReleasedBy(p))
    BY <1>1, <1>3, LabelledOne, Zenon
  <1>4. ASSUME OneElement(Staged(p), Leaving(p), Published(p), ReleasedBy(p)) PROVE \E place : Places(p) = {place}
    <2>1. Single(Labelled(Staged(p), Leaving(p), Published(p), ReleasedBy(p))) BY <1>4, OneLabelled
    <2> QED BY <1>1, <2>1 DEF Single
  <1> QED BY <1>2, <1>3, <1>4, Zenon

\* The same, after a step.
LEMMA OnePlaceNext ==
  ASSUME NEW p
  PROVE  Accounted(p)' <=> OneElement(Staged(p)', Leaving(p)', Published(p)', ReleasedBy(p)')
  <1>1. Places(p)' = Labelled(Staged(p)', Leaving(p)', Published(p)', ReleasedBy(p)') BY Zenon DEF Places, Labelled
  <1>2. Accounted(p)' <=> \E place : Places(p)' = {place} BY DEF Accounted
  <1>3. ASSUME NEW place, Places(p)' = {place} PROVE OneElement(Staged(p)', Leaving(p)', Published(p)', ReleasedBy(p)')
    BY <1>1, <1>3, LabelledOne, Zenon
  <1>4. ASSUME OneElement(Staged(p)', Leaving(p)', Published(p)', ReleasedBy(p)') PROVE \E place : Places(p)' = {place}
    <2>1. Single(Labelled(Staged(p)', Leaving(p)', Published(p)', ReleasedBy(p)')) BY <1>4, OneLabelled
    <2> QED BY <1>1, <2>1 DEF Single
  <1> QED BY <1>2, <1>3, <1>4, Zenon

\* Where it is, it is nowhere else.
LEMMA PlaceFacts ==
  ASSUME BackingAccounted, NEW p \in 1 .. begun
  PROVE  /\ Accounted(p)
         /\ \A t \in Staged(p) : Staged(p) = {t} /\ Leaving(p) = {} /\ Published(p) = {} /\ ReleasedBy(p) = {}
         /\ \A t \in Leaving(p) : Leaving(p) = {t} /\ Staged(p) = {} /\ Published(p) = {} /\ ReleasedBy(p) = {}
         /\ \A b \in Published(p) : Published(p) = {b} /\ Staged(p) = {} /\ Leaving(p) = {} /\ ReleasedBy(p) = {}
         /\ \A t \in ReleasedBy(p) : ReleasedBy(p) = {t} /\ Staged(p) = {} /\ Leaving(p) = {} /\ Published(p) = {}
  <1>1. Accounted(p) BY DEF BackingAccounted, Accounted
  <1>2. OneElement(Staged(p), Leaving(p), Published(p), ReleasedBy(p)) BY <1>1, OnePlace
  <1> QED BY <1>1, <1>2 DEF OneElement

\* A staged plugin is nowhere else.
LEMMA StagedAlone ==
  ASSUME BackingInv, NEW t \in Thread, txn[t].phase = "staged"
  PROVE  LET p == txn[t].plugin
         IN  /\ \A b \in BundleId : registered[b] # p
             /\ \A s \in Thread : unload[s].plugin # p
             /\ \A s \in Thread : txn[s].phase = "staged" /\ txn[s].plugin = p => s = t
             /\ releasedBy[p] = None
             /\ Staged(p) = {t} /\ Leaving(p) = {} /\ Published(p) = {} /\ ReleasedBy(p) = {}
  <1> DEFINE p == txn[t].plugin
  <1>0. TypeOK /\ TxnsTracked /\ BackingAccounted BY DEF BackingInv
  <1>1. p \in 1 .. begun /\ p \in Plugin BY <1>0, OpenTxn
  <1>2. t \in Staged(p) BY DEF Staged
  <1>3. Staged(p) = {t} /\ Leaving(p) = {} /\ Published(p) = {} /\ ReleasedBy(p) = {} BY <1>0, <1>1, <1>2, PlaceFacts
  <1>4. releasedBy[p] \in Thread \cup {None} BY <1>0, <1>1, Typed
  <1> QED BY <1>3, <1>4 DEF Staged, Leaving, Published, ReleasedBy

\* A published plugin is nowhere else.
LEMMA PublishedAlone ==
  ASSUME BackingInv, NEW b \in BundleId, registered[b] # NoPlugin
  PROVE  LET p == registered[b]
         IN  /\ \A s \in Thread : unload[s].plugin # p
             /\ \A s \in Thread : ~(txn[s].phase = "staged" /\ txn[s].plugin = p)
             /\ releasedBy[p] = None
             /\ Staged(p) = {} /\ Leaving(p) = {} /\ Published(p) = {b} /\ ReleasedBy(p) = {}
  <1> DEFINE p == registered[b]
  <1>0. TypeOK /\ RegistrationsTracked /\ BackingAccounted BY DEF BackingInv
  <1>1. p \in 1 .. begun /\ p \in Plugin BY <1>0, PluginRange DEF RegistrationsTracked
  <1>2. b \in Published(p) BY DEF Published
  <1>3. Staged(p) = {} /\ Leaving(p) = {} /\ Published(p) = {b} /\ ReleasedBy(p) = {} BY <1>0, <1>1, <1>2, PlaceFacts
  <1>4. releasedBy[p] \in Thread \cup {None} BY <1>0, <1>1, Typed
  <1> QED BY <1>3, <1>4 DEF Staged, Leaving, ReleasedBy

-----------------------------------------------------------------------------
\* attach_internal_plugin_resident.
LEMMA AttachLedger ==
  ASSUME BackingInv, NEW t \in Thread, AttachResident(t)
  PROVE  LedgerInv'
  <1> DEFINE q == txn[t].plugin
  <1>0. TypeOK /\ TxnsTracked /\ UnloadsTracked /\ LocksTracked /\ RegistrationsTracked /\ BackingFiled BY DEF BackingInv
  <1>1. /\ txn[t].phase = "staged" /\ plugin' = [plugin EXCEPT ![q].resident = TRUE]
        /\ UNCHANGED <<begun, txn, registered, internal_plugin_lifecycle, internal_plugin_roots,
                       internal_plugin_residents, instance_counts, held, unload, user, releasedBy, alive>>
    BY Zenon DEF AttachResident
  <1>2. q \in Plugin BY <1>0, <1>1, OpenTxn
  <1>3. /\ plugin' \in [Plugin -> PluginRecord]
        /\ \A p \in Plugin \ {q} : plugin'[p] = plugin[p]
        /\ plugin'[q].bundle_id = plugin[q].bundle_id /\ plugin'[q].thread = plugin[q].thread
        /\ plugin'[q].internal = plugin[q].internal /\ plugin'[q].generated = plugin[q].generated
    BY <1>0, <1>1, <1>2, AttachFacts
  <1>4. \A p \in Plugin : /\ plugin'[p].bundle_id = plugin[p].bundle_id /\ plugin'[p].thread = plugin[p].thread
                          /\ plugin'[p].internal = plugin[p].internal /\ plugin'[p].generated = plugin[p].generated
    BY <1>3
  <1>5. TypeOK' BY <1>0, <1>1, <1>3 DEF TypeOK, PluginRecord
  <1>6. \A s \in Thread : txn[s].phase # "none" => txn[s].plugin \in Plugin BY <1>0, OpenTxn
  <1>7. \A s \in Thread : txn[s] # NoTxn => txn[s].phase # "none" BY <1>0 DEF TxnsTracked
  <1>8. TxnsTracked' BY <1>0, <1>1, <1>4, <1>6 DEF TxnsTracked
  <1>9. UnloadsTracked' BY <1>0, <1>1, <1>4, <1>6, <1>7 DEF UnloadsTracked
  <1>10. LocksTracked' BY <1>0, <1>1, <1>4, <1>6, <1>7 DEF LocksTracked
  <1>11. \A b \in BundleId : registered[b] # NoPlugin => registered[b] \in Plugin /\ registered[b] # q
    BY <1>0, <1>1, StagedAlone, PluginRange DEF RegistrationsTracked
  <1>12. RegistrationsTracked' BY <1>0, <1>1, <1>4, <1>11 DEF RegistrationsTracked
  <1>13. BackingFiled' BY <1>0, <1>1, <1>3, <1>11 DEF BackingFiled
  <1> QED BY <1>5, <1>8, <1>9, <1>10, <1>12, <1>13 DEF LedgerInv

\* The end of a transaction keeps calls and locks in step.
LEMMA CloseLedger ==
  ASSUME BackingInv, NEW t \in Thread, txn[t].phase # "none", CloseTxn(t), UNCHANGED <<begun, plugin, unload>>,
         \A s \in Thread \ {t} : txn[s].phase = "published" =>
           registered'[plugin[txn[s].plugin].bundle_id] = registered[plugin[txn[s].plugin].bundle_id]
  PROVE  TxnsTracked' /\ UnloadsTracked' /\ LocksTracked'
  <1>0. TypeOK /\ TxnsTracked /\ UnloadsTracked /\ LocksTracked BY DEF BackingInv
  <1>1. /\ txn'[t] = NoTxn /\ \A s \in Thread \ {t} : txn'[s] = txn[s]
        /\ held'["counts"] = held["counts"] /\ held'["residents"] = held["residents"]
        /\ held'["roots"] = IF plugin[txn[t].plugin].generated THEN None ELSE held["roots"]
    BY <1>0, CloseFacts
  <1>2. txn[t] # NoTxn BY NullRecords
  <1>3. TxnsTracked' BY <1>0, <1>1, NullRecords DEF TxnsTracked
  <1>4. UnloadsTracked' BY <1>0, <1>1 DEF UnloadsTracked
  <1>5. LocksTracked'
    <2>1. CASE plugin[txn[t].plugin].generated
      <3>1. held["roots"] = t BY <1>0, <1>2, <2>1 DEF LocksTracked
      <3>2. unload[t].phase = "none" BY <1>0, <1>2, <2>1 DEF UnloadsTracked
      <3> QED BY <1>0, <1>1, <2>1, <3>1, <3>2, InternalPluginsAssumption DEF LocksTracked
    <2>2. CASE ~plugin[txn[t].plugin].generated
      BY <1>0, <1>1, <2>2 DEF LocksTracked
    <2> QED BY <2>1, <2>2
  <1> QED BY <1>3, <1>4, <1>5

\* abort_internal_plugin, and the marker after a failed commit.
LEMMA AbortLedger ==
  ASSUME BackingInv, NEW t \in Thread, AbortInternalPlugin(t) \/ CommitRemovesMarker(t)
  PROVE  LedgerInv'
  <1>0. TypeOK /\ TxnsTracked /\ RegistrationsTracked /\ BackingFiled BY DEF BackingInv
  <1>1. /\ txn[t].phase \in {"staged", "failed"} /\ CloseTxn(t)
        /\ internal_plugin_lifecycle' = internal_plugin_lifecycle \ {Bundle[txn[t].plugin]}
        /\ releasedBy' = releasedBy \/ releasedBy' = [releasedBy EXCEPT ![txn[t].plugin] = t]
        /\ UNCHANGED <<begun, plugin, registered, internal_plugin_roots,
                       internal_plugin_residents, instance_counts, unload, user, alive>>
    BY DEF AbortInternalPlugin, CommitRemovesMarker, Release
  <1>2. TxnsTracked' /\ UnloadsTracked' /\ LocksTracked' BY <1>1, CloseLedger
  <1>3. /\ txn'[t] = NoTxn /\ \A s \in Thread \ {t} : txn'[s] = txn[s]
        /\ txn' \in [Thread -> TxnRecord] /\ held' \in [Mutex -> Thread \cup {None}]
    BY <1>0, <1>1, CloseFacts
  <1>4. txn[t].plugin \in 1 .. begun /\ txn[t].plugin \in Plugin /\ begun \in Nat BY <1>0, <1>1, OpenTxn, PluginRange
  <1>5. releasedBy' \in [Plugin -> Thread \cup {None}] BY <1>0, <1>1, <1>4, Typed
  <1>6. TypeOK' BY <1>0, <1>1, <1>3, <1>5 DEF TypeOK, TxnRecord
  <1>7. RegistrationsTracked'
    <2>1. \A p \in Plugin : p > begun => p # txn[t].plugin BY <1>4 DEF Plugin
    <2>2. \A p \in Plugin : p > begun => releasedBy'[p] = releasedBy[p] BY <1>0, <1>1, <2>1, Typed
    <2> QED BY <1>0, <1>1, <2>2 DEF RegistrationsTracked
  <1>8. \A p : (\E s \in Thread : txn'[s] = [phase |-> "published", plugin |-> p])
           <=> (\E s \in Thread : txn[s] = [phase |-> "published", plugin |-> p])
    BY <1>1, <1>3 DEF NoTxn
  <1>9. BackingFiled' BY <1>0, <1>1, <1>8 DEF BackingFiled
  <1> QED BY <1>2, <1>6, <1>7, <1>9 DEF LedgerInv

\* A failed commit.
LEMMA FailLedger ==
  ASSUME BackingInv, NEW t \in Thread, CommitFails(t)
  PROVE  LedgerInv'
  <1> DEFINE q == txn[t].plugin
  <1>0. TypeOK /\ TxnsTracked /\ UnloadsTracked /\ LocksTracked /\ RegistrationsTracked /\ BackingFiled BY DEF BackingInv
  <1>1. /\ txn[t].phase = "staged" /\ unload[t] = NoUnload
        /\ txn' = [txn EXCEPT ![t].phase = "failed"] /\ releasedBy' = [releasedBy EXCEPT ![q] = t]
        /\ UNCHANGED <<begun, plugin, registered, internal_plugin_lifecycle, internal_plugin_roots,
                       internal_plugin_residents, instance_counts, held, unload, user, alive>>
    BY DEF CommitFails, Release
  <1>2. /\ txn' \in [Thread -> TxnRecord] /\ txn'[t].phase = "failed" /\ txn'[t].plugin = q
        /\ \A s \in Thread \ {t} : txn'[s] = txn[s]
    BY <1>0, <1>1, Typed DEF TxnRecord
  <1>3. txn'[t] # NoTxn /\ txn[t] # NoTxn /\ unload[t].phase = "none" BY <1>1, <1>2, NullRecords
  <1>4. q \in 1 .. begun /\ q \in Plugin /\ begun \in Nat BY <1>0, <1>1, OpenTxn, PluginRange
  <1>5. releasedBy' \in [Plugin -> Thread \cup {None}] BY <1>0, <1>1, <1>4, Typed
  <1>6. TypeOK' BY <1>0, <1>1, <1>2, <1>5 DEF TypeOK, TxnRecord
  <1>7. TxnsTracked' BY <1>0, <1>1, <1>2 DEF TxnsTracked
  <1>8. UnloadsTracked' BY <1>0, <1>1, <1>2, <1>3 DEF UnloadsTracked
  <1>9. LocksTracked' BY <1>0, <1>1, <1>2, <1>3 DEF LocksTracked
  <1>10. RegistrationsTracked'
    <2>1. \A p \in Plugin : p > begun => p # q BY <1>4 DEF Plugin
    <2>2. \A p \in Plugin : p > begun => releasedBy'[p] = releasedBy[p] BY <1>0, <1>1, <2>1, Typed
    <2> QED BY <1>0, <1>1, <2>2 DEF RegistrationsTracked
  <1>11. \A p : (\E s \in Thread : txn'[s] = [phase |-> "published", plugin |-> p])
            <=> (\E s \in Thread : txn[s] = [phase |-> "published", plugin |-> p])
    BY <1>1, <1>2
  <1>12. BackingFiled' BY <1>0, <1>1, <1>11 DEF BackingFiled
  <1> QED BY <1>6, <1>7, <1>8, <1>9, <1>10, <1>12 DEF LedgerInv

\* register_generated_internal_plugin stores the root.
LEMMA RootLedger ==
  ASSUME BackingInv, NEW t \in Thread, InsertRoot(t)
  PROVE  LedgerInv'
  <1> DEFINE q == txn[t].plugin
             b == Bundle[txn[t].plugin]
  <1>0. TypeOK /\ TxnsTracked /\ RegistrationsTracked /\ BackingFiled BY DEF BackingInv
  <1>1. /\ txn[t].phase = "published" /\ CloseTxn(t)
        /\ internal_plugin_roots' = [internal_plugin_roots EXCEPT ![b] = q]
        /\ UNCHANGED <<begun, plugin, registered, internal_plugin_lifecycle,
                       internal_plugin_residents, instance_counts, unload, user, releasedBy, alive>>
    BY DEF InsertRoot
  <1>2. TxnsTracked' /\ UnloadsTracked' /\ LocksTracked' BY <1>1, CloseLedger
  <1>3. /\ txn'[t] = NoTxn /\ \A s \in Thread \ {t} : txn'[s] = txn[s]
        /\ txn' \in [Thread -> TxnRecord] /\ held' \in [Mutex -> Thread \cup {None}]
    BY <1>0, <1>1, CloseFacts
  <1>4. q \in 1 .. begun /\ q \in Plugin /\ b \in BundleId /\ b = plugin[q].bundle_id BY <1>0, <1>1, OpenTxn
  <1>5. registered[b] = q /\ plugin[q].generated /\ q # NoPlugin BY <1>0, <1>1, <1>4, PluginRange DEF TxnsTracked
  <1>6. /\ internal_plugin_roots'[b] = q /\ \A a \in BundleId \ {b} : internal_plugin_roots'[a] = internal_plugin_roots[a]
        /\ internal_plugin_roots' \in [BundleId -> Plugin \cup {NoPlugin}]
    BY <1>0, <1>1, <1>4, Typed
  <1>7. TypeOK' BY <1>0, <1>1, <1>3, <1>6 DEF TypeOK, TxnRecord
  <1>8. RegistrationsTracked' BY <1>0, <1>1 DEF RegistrationsTracked
  <1>9. \A s \in Thread \ {t} : txn[s].phase = "published" => txn[s].plugin # q
    BY <1>0, <1>1 DEF TxnsTracked
  <1>10. \A a \in BundleId \ {b} : registered[a] # q BY <1>4, <1>5, <1>0 DEF RegistrationsTracked
  <1>11. ~\E s \in Thread : txn'[s] = [phase |-> "published", plugin |-> q]
    BY <1>3, <1>9, NullRecords
  <1>12. \A p : p # q =>
           ((\E s \in Thread : txn'[s] = [phase |-> "published", plugin |-> p])
              <=> (\E s \in Thread : txn[s] = [phase |-> "published", plugin |-> p]))
    BY <1>3 DEF NoTxn
  <1>13. BackingFiled'
    <2>1. ASSUME NEW a \in BundleId, a # b
          PROVE  internal_plugin_roots'[a] =
                   IF registered[a] # NoPlugin /\ plugin[registered[a]].generated
                      /\ ~\E s \in Thread : txn'[s] = [phase |-> "published", plugin |-> registered[a]]
                   THEN registered[a] ELSE NoPlugin
      BY <1>0, <1>6, <1>10, <1>12, <2>1 DEF BackingFiled
    <2>2. internal_plugin_roots'[b] =
            IF registered[b] # NoPlugin /\ plugin[registered[b]].generated
               /\ ~\E s \in Thread : txn'[s] = [phase |-> "published", plugin |-> registered[b]]
            THEN registered[b] ELSE NoPlugin
      BY <1>5, <1>6, <1>11
    <2> QED BY <1>0, <1>1, <2>1, <2>2 DEF BackingFiled
  <1> QED BY <1>2, <1>7, <1>8, <1>13 DEF LedgerInv

\* The commit that publishes.
LEMMA CommitLedger ==
  ASSUME BackingInv, NEW t \in Thread, CommitPublishes(t)
  PROVE  LedgerInv'
  <1> DEFINE q == txn[t].plugin
             b == Bundle[txn[t].plugin]
  <1>0. TypeOK /\ TxnsTracked /\ UnloadsTracked /\ LocksTracked /\ RegistrationsTracked /\ BackingFiled BY DEF BackingInv
  <1>1. /\ txn[t].phase = "staged" /\ unload[t] = NoUnload /\ registered[b] = NoPlugin
        /\ registered' = [registered EXCEPT ![b] = q]
        /\ internal_plugin_residents' = IF plugin[q].resident THEN [internal_plugin_residents EXCEPT ![b] = q]
                                        ELSE internal_plugin_residents
        /\ UNCHANGED <<begun, plugin, internal_plugin_lifecycle, internal_plugin_roots,
                       instance_counts, unload, user, releasedBy, alive>>
    BY DEF CommitPublishes
  <1>2. /\ q \in 1 .. begun /\ q \in Plugin /\ b \in BundleId /\ b = plugin[q].bundle_id /\ q # NoPlugin
        /\ plugin[q].internal
    BY <1>0, <1>1, OpenTxn, PluginRange
  <1>3. /\ registered'[b] = q /\ \A a \in BundleId \ {b} : registered'[a] = registered[a]
        /\ registered' \in [BundleId -> Plugin \cup {NoPlugin}]
    BY <1>0, <1>1, <1>2, Typed
  <1>4. /\ internal_plugin_residents'[b] = IF plugin[q].resident THEN q ELSE NoPlugin
        /\ \A a \in BundleId \ {b} : internal_plugin_residents'[a] = internal_plugin_residents[a]
        /\ internal_plugin_residents' \in [BundleId -> Plugin \cup {NoPlugin}]
    <2>1. internal_plugin_residents[b] = NoPlugin BY <1>0, <1>1, <1>2 DEF BackingFiled
    <2>2. CASE plugin[q].resident BY <1>0, <1>1, <1>2, <2>2, Typed
    <2>3. CASE ~plugin[q].resident BY <1>0, <1>1, <1>2, <2>1, <2>3, Typed
    <2> QED BY <2>2, <2>3
  <1>5. txn[t] # NoTxn /\ unload[t].phase = "none" BY <1>1, NullRecords
  <1>6. \A s \in Thread \ {t} : txn[s].phase = "published" => plugin[txn[s].plugin].bundle_id \in BundleId \ {b}
    <2> SUFFICES ASSUME NEW s \in Thread \ {t}, txn[s].phase = "published"
                 PROVE  plugin[txn[s].plugin].bundle_id \in BundleId \ {b}
      OBVIOUS
    <2>1. registered[plugin[txn[s].plugin].bundle_id] = txn[s].plugin BY <1>0 DEF TxnsTracked
    <2>2. txn[s].plugin # NoPlugin /\ plugin[txn[s].plugin].bundle_id \in BundleId BY <1>0, OpenTxn, PluginRange
    <2> QED BY <1>1, <2>1, <2>2
  <1>7. RegistrationsTracked' BY <1>0, <1>1, <1>2, <1>3 DEF RegistrationsTracked
  <1>8. \A a \in BundleId \ {b} : registered[a] # q BY <1>1, StagedAlone
  <1>9. \A s \in Thread : txn[s].phase = "published" => txn[s].plugin # q
    BY <1>0, <1>2, <1>6, <1>8, <1>1 DEF TxnsTracked
  <1>10. internal_plugin_roots[b] = NoPlugin BY <1>0, <1>1, <1>2 DEF BackingFiled
  <1>11. CASE plugin[q].generated
    <2>1. txn' = [txn EXCEPT ![t].phase = "published"] /\ held' = held BY <1>11 DEF CommitPublishes
    <2>2. /\ txn'[t].phase = "published" /\ txn'[t].plugin = q /\ \A s \in Thread \ {t} : txn'[s] = txn[s]
          /\ txn' \in [Thread -> TxnRecord] /\ txn'[t] = [phase |-> "published", plugin |-> q]
      BY <1>0, <2>1, Typed DEF TxnRecord
    <2>3. txn'[t] # NoTxn BY <2>2, NullRecords
    <2>4. TypeOK' BY <1>0, <1>1, <1>3, <1>4, <2>1, <2>2 DEF TypeOK, TxnRecord
    <2>5. TxnsTracked'
      <3>1. begun' = begun /\ plugin' = plugin BY <1>1
      <3>2. /\ q \in 1 .. begun /\ plugin[q].thread = t /\ plugin[q].internal
            /\ plugin[q].bundle_id \in InternalBundle
        BY <1>0, <1>1, <1>2 DEF TxnsTracked
      <3>3. registered'[plugin[q].bundle_id] = q BY <1>2, <1>3
      <3>4. ASSUME NEW s \in Thread \ {t}, txn[s].phase = "published"
            PROVE  registered'[plugin[txn[s].plugin].bundle_id] = registered[plugin[txn[s].plugin].bundle_id]
        BY <1>3, <1>6, <3>4
      <3> QED BY <1>0, <1>11, <2>2, <3>1, <3>2, <3>3, <3>4 DEF TxnsTracked
    <2>6. UnloadsTracked' BY <1>0, <1>1, <1>5, <2>2 DEF UnloadsTracked
    <2>7. LocksTracked' BY <1>0, <1>1, <1>5, <2>1, <2>2, <2>3 DEF LocksTracked
    <2>8. \A p : p # q =>
           ((\E s \in Thread : txn'[s] = [phase |-> "published", plugin |-> p])
              <=> (\E s \in Thread : txn[s] = [phase |-> "published", plugin |-> p]))
      BY <1>1, <2>2
    <2>9. ASSUME NEW a \in BundleId
          PROVE  internal_plugin_roots[a] =
                   IF registered'[a] # NoPlugin /\ plugin[registered'[a]].generated
                      /\ ~\E s \in Thread : txn'[s] = [phase |-> "published", plugin |-> registered'[a]]
                   THEN registered'[a] ELSE NoPlugin
      <3>1. CASE a = b BY <1>3, <1>10, <2>2, <3>1
      <3>2. CASE a # b BY <1>0, <1>3, <1>8, <2>8, <3>2 DEF BackingFiled
      <3> QED BY <3>1, <3>2
    <2>10. BackingFiled' BY <1>0, <1>1, <1>2, <1>3, <1>4, <2>9 DEF BackingFiled
    <2> QED BY <1>7, <2>4, <2>5, <2>6, <2>7, <2>10 DEF LedgerInv
  <1>12. CASE ~plugin[q].generated
    <2>1. CloseTxn(t) BY <1>12 DEF CommitPublishes
    <2>2. TxnsTracked' /\ UnloadsTracked' /\ LocksTracked' BY <1>1, <1>3, <1>6, <2>1, CloseLedger
    <2>3. /\ txn'[t] = NoTxn /\ \A s \in Thread \ {t} : txn'[s] = txn[s]
          /\ txn' \in [Thread -> TxnRecord] /\ held' \in [Mutex -> Thread \cup {None}]
      BY <1>0, <2>1, CloseFacts
    <2>4. TypeOK' BY <1>0, <1>1, <1>3, <1>4, <2>3 DEF TypeOK, TxnRecord
    <2>5. \A p : (\E s \in Thread : txn'[s] = [phase |-> "published", plugin |-> p])
             <=> (\E s \in Thread : txn[s] = [phase |-> "published", plugin |-> p])
      BY <1>1, <2>3 DEF NoTxn
    <2>6. ASSUME NEW a \in BundleId
          PROVE  internal_plugin_roots[a] =
                   IF registered'[a] # NoPlugin /\ plugin[registered'[a]].generated
                      /\ ~\E s \in Thread : txn'[s] = [phase |-> "published", plugin |-> registered'[a]]
                   THEN registered'[a] ELSE NoPlugin
      <3>1. CASE a = b BY <1>3, <1>10, <1>12, <3>1
      <3>2. CASE a # b BY <1>0, <1>3, <2>5, <3>2 DEF BackingFiled
      <3> QED BY <3>1, <3>2
    <2>7. BackingFiled' BY <1>0, <1>1, <1>2, <1>3, <1>4, <2>6 DEF BackingFiled
    <2> QED BY <1>7, <2>2, <2>4, <2>7 DEF LedgerInv
  <1> QED BY <1>11, <1>12

\* A bundle is loaded through a loader.
LEMMA LoadLedger ==
  ASSUME BackingInv, NEW t \in Thread, NEW b \in LoaderBundle, LoadBundle(t, b)
  PROVE  LedgerInv'
  <1> DEFINE q == begun + 1
  <1>0. TypeOK /\ TxnsTracked /\ UnloadsTracked /\ LocksTracked /\ RegistrationsTracked /\ BackingFiled BY DEF BackingInv
  <1>1. /\ New(b, FALSE, FALSE, t) /\ b \in BundleId /\ registered[b] = NoPlugin
        /\ registered' = [registered EXCEPT ![b] = q]
        /\ UNCHANGED <<txn, internal_plugin_lifecycle, internal_plugin_roots,
                       internal_plugin_residents, instance_counts, held, unload, user, releasedBy, alive>>
    BY DEF LoadBundle, BundleId
  <1>2. /\ begun' = q /\ begun' \in 0 .. MaxPlugins /\ q \in Plugin /\ plugin' \in [Plugin -> PluginRecord]
        /\ \A p \in Plugin \ {q} : plugin'[p] = plugin[p]
        /\ plugin'[q].bundle_id = b /\ ~plugin'[q].internal /\ ~plugin'[q].generated /\ ~plugin'[q].resident
    BY <1>0, <1>1, NewFacts
  <1>3. /\ \A p \in 1 .. begun : p \in Plugin \ {q} /\ p \in 1 .. begun'
        /\ q \in 1 .. begun' /\ begun \in Nat /\ q # NoPlugin
    BY <1>0, <1>2, PluginRange
  <1>4. /\ registered'[b] = q /\ \A a \in BundleId \ {b} : registered'[a] = registered[a]
        /\ registered' \in [BundleId -> Plugin \cup {NoPlugin}]
    BY <1>0, <1>1, <1>2, Typed
  <1>5. TypeOK' BY <1>0, <1>1, <1>2, <1>4 DEF TypeOK, PluginRecord
  <1>6. \A s \in Thread : txn[s].phase # "none" =>
          txn[s].plugin \in 1 .. begun /\ plugin'[txn[s].plugin] = plugin[txn[s].plugin]
    BY <1>0, <1>2, <1>3, OpenTxn
  <1>7. \A s \in Thread : txn[s] # NoTxn => txn[s].phase # "none" BY <1>0 DEF TxnsTracked
  <1>8. \A s \in Thread : txn[s].phase = "published" =>
          registered'[plugin[txn[s].plugin].bundle_id] = registered[plugin[txn[s].plugin].bundle_id]
    <2> SUFFICES ASSUME NEW s \in Thread, txn[s].phase = "published"
                 PROVE  plugin[txn[s].plugin].bundle_id \in BundleId \ {b}
      BY <1>4
    <2>1. registered[plugin[txn[s].plugin].bundle_id] = txn[s].plugin BY <1>0 DEF TxnsTracked
    <2>2. txn[s].plugin # NoPlugin /\ plugin[txn[s].plugin].bundle_id \in BundleId BY <1>0, OpenTxn, PluginRange
    <2> QED BY <1>1, <2>1, <2>2
  <1>9. TxnsTracked' BY <1>0, <1>1, <1>2, <1>3, <1>6, <1>8 DEF TxnsTracked
  <1>10. UnloadsTracked' BY <1>0, <1>1, <1>2, <1>3, <1>6, <1>7 DEF UnloadsTracked
  <1>11. LocksTracked' BY <1>0, <1>1, <1>6, <1>7 DEF LocksTracked
  <1>12. RegistrationsTracked'
    <2>1. \A p \in Plugin : p > begun' => p > begun BY <1>2, <1>3 DEF Plugin
    <2> QED BY <1>0, <1>1, <1>2, <1>3, <1>4, <2>1 DEF RegistrationsTracked
  <1>13. BackingFiled'
    <2>1. \A a \in BundleId \ {b} : registered[a] # NoPlugin => plugin'[registered[a]] = plugin[registered[a]]
      BY <1>0, <1>2, <1>3 DEF RegistrationsTracked
    <2>2. internal_plugin_roots[b] = NoPlugin /\ internal_plugin_residents[b] = NoPlugin BY <1>0, <1>1 DEF BackingFiled
    <2> QED BY <1>0, <1>1, <1>2, <1>4, <2>1, <2>2 DEF BackingFiled
  <1> QED BY <1>5, <1>9, <1>10, <1>11, <1>12, <1>13 DEF LedgerInv

-----------------------------------------------------------------------------
\* A new unload.
LEMMA ChecksLedger ==
  ASSUME BackingInv, NEW t \in Thread, NEW b \in BundleId, UnloadChecks(t, b)
  PROVE  LedgerInv'
  <1>0. TypeOK /\ TxnsTracked /\ UnloadsTracked /\ LocksTracked /\ RegistrationsTracked /\ BackingFiled BY DEF BackingInv
  <1>1. /\ unload[t] = NoUnload /\ ((txn[t] = NoTxn \/ (txn[t].phase = "staged" /\ ~plugin[txn[t].plugin].generated)))
        /\ unload' = [unload EXCEPT ![t] = [phase |-> "checked", bundle_id |-> b, plugin |-> NoPlugin]]
        /\ UNCHANGED <<begun, plugin, txn, registered, internal_plugin_lifecycle, internal_plugin_roots,
                       internal_plugin_residents, instance_counts, held, user, releasedBy, alive>>
    <2>1. Available(t) BY DEF UnloadChecks
    <2>2. unload[t] = NoUnload /\ ((txn[t] = NoTxn \/ (txn[t].phase = "staged" /\ ~plugin[txn[t].plugin].generated)))
      BY <2>1, Zenon DEF Available
    <2> QED BY <2>2 DEF UnloadChecks
  <1>2. /\ unload'[t].phase = "checked" /\ unload'[t].bundle_id = b /\ unload'[t].plugin = NoPlugin
        /\ \A s \in Thread \ {t} : unload'[s] = unload[s]
        /\ unload' \in [Thread -> UnloadRecord]
    BY <1>0, <1>1, Typed DEF UnloadRecord
  <1>3. unload[t].phase = "none" BY <1>1, NullRecords
  <1>4. TypeOK' BY <1>0, <1>1, <1>2 DEF TypeOK, UnloadRecord
  <1>5. TxnsTracked' BY <1>0, <1>1 DEF TxnsTracked
  <1>6. UnloadsTracked' BY <1>0, <1>1, <1>2 DEF UnloadsTracked
  <1>7. LocksTracked' BY <1>0, <1>1, <1>2, <1>3 DEF LocksTracked
  <1>8. RegistrationsTracked' /\ BackingFiled' BY <1>0, <1>1 DEF RegistrationsTracked, BackingFiled
  <1> QED BY <1>4, <1>5, <1>6, <1>7, <1>8 DEF LedgerInv

\* An unload takes its next lock.
LEMMA LocksLedger ==
  ASSUME BackingInv, NEW t \in Thread, UnloadLocks(t)
  PROVE  LedgerInv'
  <1> DEFINE m == NextMutex(unload[t].phase)
  <1>0. TypeOK /\ TxnsTracked /\ UnloadsTracked /\ LocksTracked /\ RegistrationsTracked /\ BackingFiled BY DEF BackingInv
  <1>1. /\ m \in Mutex /\ held[m] = None /\ held' = [held EXCEPT ![m] = t] /\ unload' = [unload EXCEPT ![t].phase = m]
        /\ UNCHANGED <<begun, plugin, txn, registered, internal_plugin_lifecycle, internal_plugin_roots,
                       internal_plugin_residents, instance_counts, user, releasedBy, alive>>
    BY DEF UnloadLocks, UnloadStep, Free
  <1>2. unload[t].phase \in {"none", "checked", "counts", "roots", "residents", "release"}
    BY <1>0, Typed DEF UnloadRecord
  <1>3. \/ unload[t].phase = "checked" /\ m = "counts"
        \/ unload[t].phase = "counts" /\ m = "roots"
        \/ unload[t].phase = "roots" /\ m = "residents"
    BY <1>1, <1>2, NextMutexFacts DEF Mutex
  <1>4. /\ unload'[t].phase = m /\ unload'[t].bundle_id = unload[t].bundle_id /\ unload'[t].plugin = unload[t].plugin
        /\ \A s \in Thread \ {t} : unload'[s] = unload[s]
        /\ unload' \in [Thread -> UnloadRecord]
    BY <1>0, <1>1, <1>3, Typed DEF UnloadRecord
  <1>5. /\ held' \in [Mutex -> Thread \cup {None}] /\ held'[m] = t /\ \A n \in Mutex \ {m} : held'[n] = held[n]
    BY <1>0, <1>1, Typed
  <1>6. TypeOK' BY <1>0, <1>1, <1>4, <1>5 DEF TypeOK, UnloadRecord
  <1>7. TxnsTracked' BY <1>0, <1>1 DEF TxnsTracked
  <1>8. UnloadsTracked' BY <1>0, <1>1, <1>3, <1>4 DEF UnloadsTracked
  <1>9. LocksTracked'
    <2>1. txn[t] # NoTxn => ~plugin[txn[t].plugin].generated BY <1>0, <1>3 DEF UnloadsTracked
    <2>2. \A s \in Thread : s # None BY InternalPluginsAssumption
    <2>3. CASE unload[t].phase = "checked" /\ m = "counts"
      BY <1>0, <1>1, <1>4, <1>5, <2>1, <2>2, <2>3 DEF LocksTracked, Mutex
    <2>4. CASE unload[t].phase = "counts" /\ m = "roots"
      BY <1>0, <1>1, <1>4, <1>5, <2>1, <2>2, <2>4 DEF LocksTracked, Mutex
    <2>5. CASE unload[t].phase = "roots" /\ m = "residents"
      BY <1>0, <1>1, <1>4, <1>5, <2>1, <2>2, <2>5 DEF LocksTracked, Mutex
    <2> QED BY <1>3, <2>3, <2>4, <2>5
  <1>10. RegistrationsTracked' /\ BackingFiled' BY <1>0, <1>1 DEF RegistrationsTracked, BackingFiled
  <1> QED BY <1>6, <1>7, <1>8, <1>9, <1>10 DEF LedgerInv

\* An unload is refused.
LEMMA RefusedLedger ==
  ASSUME BackingInv, NEW t \in Thread, UnloadRefused(t)
  PROVE  LedgerInv'
  <1>0. TypeOK /\ TxnsTracked /\ UnloadsTracked /\ LocksTracked /\ RegistrationsTracked /\ BackingFiled BY DEF BackingInv
  <1>1. /\ AllLocked(t) /\ UnlockAll(t) /\ unload' = [unload EXCEPT ![t] = NoUnload]
        /\ UNCHANGED <<begun, plugin, txn, registered, internal_plugin_lifecycle, internal_plugin_roots,
                       internal_plugin_residents, instance_counts, user, releasedBy, alive>>
    BY DEF UnloadRefused
  <1>2. /\ unload'[t] = NoUnload /\ \A s \in Thread \ {t} : unload'[s] = unload[s]
        /\ unload' \in [Thread -> UnloadRecord]
    BY <1>0, <1>1, Typed, NullRecords
  <1>3. unload[t].phase = "residents" BY <1>1, LockedFacts
  <1>4. /\ held' \in [Mutex -> Thread \cup {None}]
        /\ \A n \in Mutex : held'[n] = IF held[n] = t THEN None ELSE held[n]
    BY <1>0, <1>1, UnlockFacts
  <1>5. TypeOK' BY <1>0, <1>1, <1>2, <1>4 DEF TypeOK, UnloadRecord
  <1>6. TxnsTracked' BY <1>0, <1>1 DEF TxnsTracked
  <1>7. UnloadsTracked' BY <1>0, <1>1, <1>2, NullRecords DEF UnloadsTracked
  <1>8. LocksTracked'
    <2>1. txn[t] # NoTxn => ~plugin[txn[t].plugin].generated BY <1>0, <1>3 DEF UnloadsTracked
    <2>2. \A s \in Thread : s # None BY InternalPluginsAssumption
    <2> QED BY <1>0, <1>1, <1>2, <1>3, <1>4, <2>1, <2>2, NullRecords DEF LocksTracked, Mutex, AllLocked
  <1>9. RegistrationsTracked' /\ BackingFiled' BY <1>0, <1>1 DEF RegistrationsTracked, BackingFiled
  <1> QED BY <1>5, <1>6, <1>7, <1>8, <1>9 DEF LedgerInv

\* An unload takes the registration and its backing.
LEMMA InvalidatesLedger ==
  ASSUME BackingInv, NEW t \in Thread, UnloadInvalidates(t)
  PROVE  LedgerInv'
  <1> DEFINE b == unload[t].bundle_id
  <1>0. TypeOK /\ TxnsTracked /\ UnloadsTracked /\ LocksTracked /\ RegistrationsTracked /\ BackingFiled BY DEF BackingInv
  <1>1. /\ AllLocked(t) /\ UnlockAll(t)
        /\ internal_plugin_residents' = [internal_plugin_residents EXCEPT ![b] = NoPlugin]
        /\ internal_plugin_roots' = [internal_plugin_roots EXCEPT ![b] = NoPlugin]
        /\ registered' = [registered EXCEPT ![b] = NoPlugin]
        /\ internal_plugin_lifecycle' = internal_plugin_lifecycle \ {b}
        /\ instance_counts' = [instance_counts EXCEPT ![b] = 0]
        /\ unload' = [unload EXCEPT ![t].phase = "release", ![t].plugin = registered[b]]
        /\ UNCHANGED <<begun, plugin, txn, user, releasedBy, alive>>
    BY DEF UnloadInvalidates
  <1>2. /\ unload[t].phase = "residents" /\ b \in BundleId
        /\ \A s \in Thread \ {t} : txn[s] # NoTxn => ~plugin[txn[s].plugin].generated
    BY <1>1, LockedFacts
  <1>3. /\ unload'[t].phase = "release" /\ unload'[t].bundle_id = b /\ unload'[t].plugin = registered[b]
        /\ \A s \in Thread \ {t} : unload'[s] = unload[s]
        /\ unload' \in [Thread -> UnloadRecord]
    BY <1>0, <1>1, <1>2, Typed DEF UnloadRecord
  <1>4. /\ registered'[b] = NoPlugin /\ \A a \in BundleId \ {b} : registered'[a] = registered[a]
        /\ internal_plugin_roots'[b] = NoPlugin
        /\ \A a \in BundleId \ {b} : internal_plugin_roots'[a] = internal_plugin_roots[a]
        /\ internal_plugin_residents'[b] = NoPlugin
        /\ \A a \in BundleId \ {b} : internal_plugin_residents'[a] = internal_plugin_residents[a]
        /\ registered' \in [BundleId -> Plugin \cup {NoPlugin}]
        /\ internal_plugin_roots' \in [BundleId -> Plugin \cup {NoPlugin}]
        /\ internal_plugin_residents' \in [BundleId -> Plugin \cup {NoPlugin}]
    BY <1>0, <1>1, <1>2, Typed
  <1>5. /\ held' \in [Mutex -> Thread \cup {None}]
        /\ \A n \in Mutex : held'[n] = IF held[n] = t THEN None ELSE held[n]
    BY <1>0, <1>1, UnlockFacts
  <1>6. TypeOK'
    <2>1. instance_counts' \in [BundleId -> Nat] /\ internal_plugin_lifecycle' \subseteq BundleId
      BY <1>0, <1>1, <1>2 DEF TypeOK
    <2> QED BY <1>0, <1>1, <1>3, <1>4, <1>5, <2>1 DEF TypeOK, UnloadRecord
  <1>7. txn[t] # NoTxn => txn[t].phase = "staged" /\ ~plugin[txn[t].plugin].generated
    BY <1>0, <1>2 DEF UnloadsTracked
  <1>8. \A s \in Thread : txn[s].phase # "published"
    BY <1>0, <1>2, <1>7, NullRecords DEF TxnsTracked
  <1>9. TxnsTracked' BY <1>0, <1>1, <1>8 DEF TxnsTracked
  <1>10. registered[b] # NoPlugin => registered[b] \in 1 .. begun BY <1>0, <1>2 DEF RegistrationsTracked
  <1>11. UnloadsTracked'
    <2>1. registered[b] \in (1 .. begun) \cup {NoPlugin} BY <1>10
    <2> QED BY <1>0, <1>1, <1>2, <1>3, <1>7, <2>1 DEF UnloadsTracked
  <1>12. LocksTracked'
    <2>1. txn[t] # NoTxn => ~plugin[txn[t].plugin].generated BY <1>7
    <2>2. \A s \in Thread : s # None BY InternalPluginsAssumption
    <2> QED BY <1>0, <1>1, <1>2, <1>3, <1>5, <2>1, <2>2, NullRecords DEF LocksTracked, Mutex, AllLocked
  <1>13. RegistrationsTracked' BY <1>0, <1>1, <1>2, <1>4 DEF RegistrationsTracked
  <1>14. BackingFiled' BY <1>0, <1>1, <1>2, <1>4 DEF BackingFiled
  <1> QED BY <1>6, <1>9, <1>11, <1>12, <1>13, <1>14 DEF LedgerInv

\* An unload releases what it took.
LEMMA ReleasesLedger ==
  ASSUME BackingInv, NEW t \in Thread, UnloadReleases(t)
  PROVE  LedgerInv'
  <1> DEFINE q == unload[t].plugin
  <1>0. TypeOK /\ TxnsTracked /\ UnloadsTracked /\ LocksTracked /\ RegistrationsTracked /\ BackingFiled BY DEF BackingInv
  <1>1. /\ unload[t].phase = "release" /\ unload' = [unload EXCEPT ![t] = NoUnload]
        /\ releasedBy' = IF q = NoPlugin THEN releasedBy ELSE [releasedBy EXCEPT ![q] = t]
        /\ UNCHANGED <<begun, plugin, txn, registered, internal_plugin_lifecycle, internal_plugin_roots,
                       internal_plugin_residents, instance_counts, held, user, alive>>
    BY DEF UnloadReleases, Release
  <1>2. /\ unload'[t] = NoUnload /\ \A s \in Thread \ {t} : unload'[s] = unload[s]
        /\ unload' \in [Thread -> UnloadRecord]
    BY <1>0, <1>1, Typed, NullRecords
  <1>3. q \in (1 .. begun) \cup {NoPlugin} BY <1>0, <1>1 DEF UnloadsTracked
  <1>4. begun \in Nat /\ \A p \in 1 .. begun : p \in Plugin BY <1>0, PluginRange
  <1>5. releasedBy' \in [Plugin -> Thread \cup {None}] BY <1>0, <1>1, <1>3, <1>4, Typed
  <1>6. TypeOK' BY <1>0, <1>1, <1>2, <1>5 DEF TypeOK, UnloadRecord
  <1>7. TxnsTracked' BY <1>0, <1>1 DEF TxnsTracked
  <1>8. UnloadsTracked' BY <1>0, <1>1, <1>2, NullRecords DEF UnloadsTracked
  <1>9. LocksTracked' BY <1>0, <1>1, <1>2, NullRecords DEF LocksTracked
  <1>10. RegistrationsTracked'
    <2>1. \A p \in Plugin : p > begun => q = NoPlugin \/ p # q BY <1>3, <1>4 DEF Plugin
    <2>2. \A p \in Plugin : p > begun => releasedBy'[p] = releasedBy[p] BY <1>0, <1>1, <2>1, Typed
    <2> QED BY <1>0, <1>1, <2>2 DEF RegistrationsTracked
  <1>11. BackingFiled' BY <1>0, <1>1 DEF BackingFiled
  <1> QED BY <1>6, <1>7, <1>8, <1>9, <1>10, <1>11 DEF LedgerInv

\* polyplug_runtime_destroy.
LEMMA DestroyLedger ==
  ASSUME BackingInv, NEW t \in Thread, DestroyRuntime(t)
  PROVE  LedgerInv'
  <1>0. TypeOK /\ TxnsTracked /\ UnloadsTracked /\ LocksTracked /\ RegistrationsTracked /\ BackingFiled BY DEF BackingInv
  <1>1. /\ \A s \in Thread : /\ unload[s] = NoUnload
                             /\ (txn[s] = NoTxn \/ (txn[s].phase = "staged" /\ ~plugin[txn[s].plugin].generated))
        /\ alive' = FALSE
        /\ releasedBy' = [p \in Plugin |-> IF p <= begun /\ releasedBy[p] = None THEN t ELSE releasedBy[p]]
        /\ txn' = [s \in Thread |-> NoTxn]
        /\ registered' = [b \in BundleId |-> NoPlugin]
        /\ internal_plugin_roots' = [b \in BundleId |-> NoPlugin]
        /\ internal_plugin_residents' = [b \in BundleId |-> NoPlugin]
        /\ internal_plugin_lifecycle' = {}
        /\ UNCHANGED <<begun, plugin, instance_counts, held, unload, user>>
    <2>1. \A s \in Thread : Available(s) BY DEF DestroyRuntime
    <2>2. \A s \in Thread : /\ unload[s] = NoUnload
                            /\ (txn[s] = NoTxn \/ (txn[s].phase = "staged" /\ ~plugin[txn[s].plugin].generated))
      BY <2>1, Zenon DEF Available
    <2> QED BY <2>2 DEF DestroyRuntime
  <1>2. \A s \in Thread : txn'[s] = NoTxn BY <1>1
  <1>3. TypeOK'
    <2>1. releasedBy' \in [Plugin -> Thread \cup {None}] BY <1>0, <1>1, Typed
    <2>2. txn' \in [Thread -> TxnRecord] BY <1>1, NullRecords
    <2>3. /\ registered' \in [BundleId -> Plugin \cup {NoPlugin}]
          /\ internal_plugin_roots' \in [BundleId -> Plugin \cup {NoPlugin}]
          /\ internal_plugin_residents' \in [BundleId -> Plugin \cup {NoPlugin}]
      BY <1>1
    <2> QED BY <1>0, <1>1, <2>1, <2>2, <2>3 DEF TypeOK, TxnRecord
  <1>4. TxnsTracked' BY <1>2, NullRecords DEF TxnsTracked
  <1>5. UnloadsTracked' BY <1>1, NullRecords DEF UnloadsTracked
  <1>6. LocksTracked'
    <2>1. \A s \in Thread : unload[s].phase = "none" BY <1>1, NullRecords
    <2>2. \A s \in Thread, m \in Mutex : held[m] # s BY <1>0, <1>1, <2>1 DEF LocksTracked, Mutex
    <2> QED BY <1>1, <1>2, <2>1, <2>2 DEF LocksTracked, Mutex
  <1>7. RegistrationsTracked'
    <2>1. \A p \in Plugin : p > begun => ~(p <= begun) BY <1>0, PluginRange DEF Plugin
    <2>2. \A p \in Plugin : p > begun => releasedBy'[p] = None BY <1>0, <1>1, <2>1 DEF RegistrationsTracked
    <2> QED BY <1>1, <2>2 DEF RegistrationsTracked
  <1>8. BackingFiled' BY <1>1 DEF BackingFiled
  <1> QED BY <1>3, <1>4, <1>5, <1>6, <1>7, <1>8 DEF LedgerInv

\* A count goes down, and not below zero.
LEMMA NoteFacts ==
  ASSUME TypeOK, NEW b, NoteInstanceDestroyed(b)
  PROVE  /\ instance_counts' \in [BundleId -> Nat]
         /\ \A a \in BundleId : a # b => instance_counts'[a] = instance_counts[a]
         /\ b \in BundleId /\ instance_counts[b] > 0 => instance_counts'[b] = instance_counts[b] - 1
  <1>1. instance_counts \in [BundleId -> Nat] BY DEF TypeOK
  <1>2. instance_counts' =
          [a \in BundleId |-> IF a = b THEN (IF instance_counts[b] = 0 THEN 0 ELSE instance_counts[b] - 1)
                              ELSE instance_counts[a]]
    BY <1>1 DEF NoteInstanceDestroyed
  <1> QED BY <1>1, <1>2

\* The users' steps touch the counts only.
LEMMA UserLedger ==
  ASSUME BackingInv, NEW u \in User, UserStep(u)
  PROVE  LedgerInv' /\ UNCHANGED userOnly
  <1>0. TypeOK /\ TxnsTracked /\ UnloadsTracked /\ LocksTracked /\ RegistrationsTracked /\ BackingFiled BY DEF BackingInv
  <1>1. UNCHANGED userOnly
    BY DEF UserStep, BeginConstruction, Constructed, CancelConstruction, DestroyInstance, NoteDestroyed
  <1> DEFINE Users == [phase : {"out", "constructing", "live", "noting"}, plugin : Plugin \cup {NoPlugin}]
  <1>2. /\ user \in [User -> Users] /\ instance_counts \in [BundleId -> Nat]
        /\ registered \in [BundleId -> Plugin \cup {NoPlugin}]
    BY <1>0 DEF TypeOK
  <1>3. user' \in [User -> Users] /\ instance_counts' \in [BundleId -> Nat]
    <2>1. ASSUME NEW b \in BundleId, BeginConstruction(u, b) PROVE user' \in [User -> Users] /\ instance_counts' \in [BundleId -> Nat]
      BY <1>2, <2>1 DEF BeginConstruction
    <2>2. CASE Constructed(u) BY <1>2, <2>2 DEF Constructed
    <2>3. CASE CancelConstruction(u) BY <1>0, <1>2, <2>3, NoteFacts DEF CancelConstruction
    <2>4. CASE DestroyInstance(u) BY <1>2, <2>4 DEF DestroyInstance
    <2>5. CASE NoteDestroyed(u) BY <1>0, <1>2, <2>5, NoteFacts DEF NoteDestroyed
    <2> QED BY <2>1, <2>2, <2>3, <2>4, <2>5 DEF UserStep
  <1>4. TypeOK' BY <1>0, <1>1, <1>3 DEF TypeOK, userOnly
  <1>5. TxnsTracked' /\ UnloadsTracked' BY <1>0, <1>1 DEF TxnsTracked, UnloadsTracked, userOnly
  <1>6. LocksTracked' /\ RegistrationsTracked' /\ BackingFiled'
    BY <1>0, <1>1 DEF LocksTracked, RegistrationsTracked, BackingFiled, userOnly
  <1> QED BY <1>1, <1>4, <1>5, <1>6 DEF LedgerInv

-----------------------------------------------------------------------------
(***************************************************************************)
(* The backing stays in one place: a step moves that of one transaction.   *)
(***************************************************************************)
Stays(p) ==
  /\ Staged(p)' = Staged(p) /\ Leaving(p)' = Leaving(p)
  /\ Published(p)' = Published(p) /\ ReleasedBy(p)' = ReleasedBy(p)
InOnePlaceNext(p) == OneElement(Staged(p)', Leaving(p)', Published(p)', ReleasedBy(p)')

\* The backing of q moves, the others' stays.
LEMMA Moved ==
  ASSUME BackingAccounted, NEW q, \A p \in 1 .. begun' : p # q => p \in 1 .. begun /\ Stays(p),
         q \in 1 .. begun' => InOnePlaceNext(q)
  PROVE  BackingAccounted'
  <1>1. ASSUME NEW p \in 1 .. begun' PROVE Accounted(p)'
    <2>1. CASE p = q BY <1>1, <2>1, OnePlaceNext DEF InOnePlaceNext
    <2>2. CASE p # q
      <3>1. p \in 1 .. begun /\ Stays(p) BY <1>1, <2>2
      <3>2. OneElement(Staged(p), Leaving(p), Published(p), ReleasedBy(p)) BY <3>1, PlaceFacts, OnePlace
      <3>3. OneElement(Staged(p)', Leaving(p)', Published(p)', ReleasedBy(p)') BY <3>1, <3>2, Zenon DEF Stays
      <3> QED BY <3>3, OnePlaceNext
    <2> QED BY <2>1, <2>2
  <1> QED BY <1>1 DEF BackingAccounted, Accounted

\* No place moves.
LEMMA NothingMoved ==
  ASSUME BackingInv, UNCHANGED <<begun, registered, releasedBy>>,
         \A s \in Thread : /\ txn'[s].phase = "staged" <=> txn[s].phase = "staged"
                           /\ txn[s].phase = "staged" => txn'[s].plugin = txn[s].plugin
                           /\ unload'[s].plugin = unload[s].plugin
  PROVE  BackingAccounted'
  <1>1. BackingAccounted /\ 0 \notin 1 .. begun BY PluginRange DEF BackingInv
  <1>2. \A p : Stays(p) BY DEF Stays, Staged, Leaving, Published, ReleasedBy
  <1>3. 0 \notin 1 .. begun' BY <1>1
  <1> QED BY <1>1, <1>2, <1>3, Moved

\* A transaction yet to begin is nowhere.
LEMMA FreshNowhere ==
  ASSUME BackingInv, begun + 1 \in Plugin
  PROVE  LET q == begun + 1
         IN  /\ \A s \in Thread : /\ txn[s].phase # "none" => txn[s].plugin # q
                                  /\ unload[s].plugin # q
             /\ \A b \in BundleId : registered[b] # q
             /\ releasedBy[q] = None
  <1>0. TypeOK /\ TxnsTracked /\ UnloadsTracked /\ RegistrationsTracked BY DEF BackingInv
  <1>1. begun \in Nat /\ begun + 1 \notin 1 .. begun /\ begun + 1 # NoPlugin /\ begun + 1 > begun
    BY <1>0, PluginRange DEF NoPlugin
  <1>2. \A s \in Thread : txn[s].phase # "none" => txn[s].plugin # begun + 1 BY <1>0, <1>1, OpenTxn
  <1>3. \A s \in Thread : unload[s].plugin # begun + 1
    BY <1>0, <1>1, NullRecords DEF UnloadsTracked
  <1>4. \A b \in BundleId : registered[b] # begun + 1 BY <1>0, <1>1 DEF RegistrationsTracked
  <1>5. releasedBy[begun + 1] = None BY <1>0, <1>1 DEF RegistrationsTracked
  <1> QED BY <1>2, <1>3, <1>4, <1>5

\* begin_internal_plugin: into staging.
LEMMA BeginAccounted ==
  ASSUME BackingInv, NEW t \in Thread, NEW b \in InternalBundle, NEW generated \in BOOLEAN,
         BeginInternalPlugin(t, b, generated)
  PROVE  BackingAccounted'
  <1> PICK q : q = begun + 1 OBVIOUS
  <1>0. TypeOK /\ TxnsTracked /\ BackingAccounted BY DEF BackingInv
  <1>1. /\ New(b, TRUE, generated, t) /\ b \in BundleId /\ txn[t] = NoTxn
        /\ txn' = [txn EXCEPT ![t] = [phase |-> "staged", plugin |-> q]]
        /\ UNCHANGED <<registered, unload, releasedBy>>
    BY DEF BeginInternalPlugin, BundleId
  <1>2. begun' = q /\ q \in Plugin BY <1>0, <1>1, NewFacts
  <1>3. /\ \A s \in Thread : /\ txn[s].phase # "none" => txn[s].plugin # q
                             /\ unload[s].plugin # q
        /\ \A a \in BundleId : registered[a] # q
        /\ releasedBy[q] = None
    BY <1>2, FreshNowhere
  <1>4. txn'[t].phase = "staged" /\ txn'[t].plugin = q /\ \A s \in Thread \ {t} : txn'[s] = txn[s]
    BY <1>0, <1>1, Typed
  <1>5. Staged(q)' = {t} BY <1>3, <1>4 DEF Staged
  <1>6. Leaving(q)' = {} /\ Published(q)' = {} BY <1>1, <1>3 DEF Leaving, Published
  <1>7. ReleasedBy(q)' = {} BY <1>1, <1>3, InternalPluginsAssumption DEF ReleasedBy
  <1>8. InOnePlaceNext(q) BY <1>5, <1>6, <1>7 DEF InOnePlaceNext, OneElement
  <1>9. txn[t].phase = "none" BY <1>1, NullRecords
  <1>10. \A p : p # q => Stays(p)
    BY <1>1, <1>4, <1>9 DEF Stays, Staged, Leaving, Published, ReleasedBy
  <1>11. \A p \in 1 .. begun' : p # q => p \in 1 .. begun BY <1>0, <1>2, PluginRange
  <1> QED BY <1>0, <1>8, <1>10, <1>11, Moved

\* A staged transaction is released, by an abort or a failed commit.
LEMMA GivenUpAccounted ==
  ASSUME BackingInv, NEW t \in Thread, AbortInternalPlugin(t) \/ CommitFails(t)
  PROVE  BackingAccounted'
  <1> PICK q : q = txn[t].plugin OBVIOUS
  <1>0. TypeOK /\ TxnsTracked /\ BackingAccounted BY DEF BackingInv
  <1>1. /\ txn[t].phase = "staged" /\ releasedBy' = [releasedBy EXCEPT ![q] = t]
        /\ txn' = [txn EXCEPT ![t] = NoTxn] \/ txn' = [txn EXCEPT ![t].phase = "failed"]
        /\ UNCHANGED <<begun, registered, unload>>
    BY DEF AbortInternalPlugin, CommitFails, Release, CloseTxn
  <1>2. q \in 1 .. begun /\ q \in Plugin BY <1>0, <1>1, OpenTxn
  <1>3. /\ \A a \in BundleId : registered[a] # q
        /\ \A s \in Thread : unload[s].plugin # q
        /\ \A s \in Thread : txn[s].phase = "staged" /\ txn[s].plugin = q => s = t
    BY <1>1, StagedAlone
  <1>4. txn'[t].phase # "staged" /\ \A s \in Thread \ {t} : txn'[s] = txn[s]
    BY <1>0, <1>1, Typed, NullRecords DEF TxnRecord
  <1>5. releasedBy'[q] = t /\ \A p \in Plugin \ {q} : releasedBy'[p] = releasedBy[p] BY <1>0, <1>1, <1>2, Typed
  <1>6. Staged(q)' = {} BY <1>3, <1>4 DEF Staged
  <1>7. Leaving(q)' = {} /\ Published(q)' = {} BY <1>1, <1>3 DEF Leaving, Published
  <1>8. ReleasedBy(q)' = {t} BY <1>5 DEF ReleasedBy
  <1>9. InOnePlaceNext(q) BY <1>6, <1>7, <1>8 DEF InOnePlaceNext, OneElement
  <1>10. \A p \in 1 .. begun : p \in Plugin BY <1>0, PluginRange
  <1>11. \A p \in 1 .. begun' : p # q => p \in 1 .. begun /\ Stays(p)
    BY <1>1, <1>4, <1>5, <1>10 DEF Stays, Staged, Leaving, Published, ReleasedBy
  <1> QED BY <1>0, <1>9, <1>11, Moved

\* The commit that publishes: from staging to the registry.
LEMMA CommitAccounted ==
  ASSUME BackingInv, NEW t \in Thread, CommitPublishes(t)
  PROVE  BackingAccounted'
  <1> PICK q : q = txn[t].plugin OBVIOUS
  <1> PICK b : b = Bundle[q] OBVIOUS
  <1>0. TypeOK /\ TxnsTracked /\ BackingAccounted BY DEF BackingInv
  <1>1. /\ txn[t].phase = "staged" /\ registered[b] = NoPlugin /\ registered' = [registered EXCEPT ![b] = q]
        /\ txn' = [txn EXCEPT ![t] = NoTxn] \/ txn' = [txn EXCEPT ![t].phase = "published"]
        /\ UNCHANGED <<begun, releasedBy, unload>>
    BY DEF CommitPublishes, CloseTxn
  <1>2. q \in 1 .. begun /\ q \in Plugin /\ b \in BundleId /\ q # NoPlugin BY <1>0, <1>1, OpenTxn, PluginRange
  <1>3. /\ \A a \in BundleId : registered[a] # q
        /\ \A s \in Thread : unload[s].plugin # q
        /\ \A s \in Thread : txn[s].phase = "staged" /\ txn[s].plugin = q => s = t
        /\ releasedBy[q] = None
    BY <1>1, StagedAlone
  <1>4. txn'[t].phase # "staged" /\ \A s \in Thread \ {t} : txn'[s] = txn[s]
    BY <1>0, <1>1, Typed, NullRecords DEF TxnRecord
  <1>5. registered'[b] = q /\ \A a \in BundleId \ {b} : registered'[a] = registered[a] BY <1>0, <1>1, <1>2, Typed
  <1>6. Staged(q)' = {} BY <1>3, <1>4 DEF Staged
  <1>7. Leaving(q)' = {} /\ Published(q)' = {b} BY <1>1, <1>2, <1>3, <1>5 DEF Leaving, Published
  <1>8. ReleasedBy(q)' = {} BY <1>1, <1>3, InternalPluginsAssumption DEF ReleasedBy
  <1>9. InOnePlaceNext(q) BY <1>6, <1>7, <1>8 DEF InOnePlaceNext, OneElement
  <1>10. \A p \in 1 .. begun : p # NoPlugin BY <1>0, PluginRange
  <1>11. \A p \in 1 .. begun' : p # q => p \in 1 .. begun /\ Stays(p)
    BY <1>1, <1>2, <1>4, <1>5, <1>10 DEF Stays, Staged, Leaving, Published, ReleasedBy
  <1> QED BY <1>0, <1>9, <1>11, Moved

\* A load: into the registry.
LEMMA LoadAccounted ==
  ASSUME BackingInv, NEW t \in Thread, NEW b \in LoaderBundle, LoadBundle(t, b)
  PROVE  BackingAccounted'
  <1> PICK q : q = begun + 1 OBVIOUS
  <1>0. TypeOK /\ TxnsTracked /\ BackingAccounted BY DEF BackingInv
  <1>1. /\ New(b, FALSE, FALSE, t) /\ b \in BundleId /\ registered[b] = NoPlugin
        /\ registered' = [registered EXCEPT ![b] = q]
        /\ UNCHANGED <<txn, unload, releasedBy>>
    BY DEF LoadBundle, BundleId
  <1>2. begun' = q /\ q \in Plugin BY <1>0, <1>1, NewFacts
  <1>3. /\ \A s \in Thread : /\ txn[s].phase # "none" => txn[s].plugin # q
                             /\ unload[s].plugin # q
        /\ \A a \in BundleId : registered[a] # q
        /\ releasedBy[q] = None
    BY <1>2, FreshNowhere
  <1>4. registered'[b] = q /\ \A a \in BundleId \ {b} : registered'[a] = registered[a] BY <1>0, <1>1, <1>2, Typed
  <1>5. Staged(q)' = {} BY <1>1, <1>3 DEF Staged
  <1>6. Leaving(q)' = {} /\ Published(q)' = {b} BY <1>1, <1>3, <1>4 DEF Leaving, Published
  <1>7. ReleasedBy(q)' = {} BY <1>1, <1>3, InternalPluginsAssumption DEF ReleasedBy
  <1>8. InOnePlaceNext(q) BY <1>5, <1>6, <1>7 DEF InOnePlaceNext, OneElement
  <1>9. \A p \in 1 .. begun' : p # q => p \in 1 .. begun /\ p # NoPlugin BY <1>0, <1>2, PluginRange DEF NoPlugin
  <1>10. \A p \in 1 .. begun' : p # q => p \in 1 .. begun /\ Stays(p)
    BY <1>1, <1>4, <1>9 DEF Stays, Staged, Leaving, Published, ReleasedBy
  <1> QED BY <1>0, <1>8, <1>10, Moved

\* The unload takes the registration out: from the registry to the unload.
LEMMA InvalidatesAccounted ==
  ASSUME BackingInv, NEW t \in Thread, UnloadInvalidates(t)
  PROVE  BackingAccounted'
  <1> PICK b : b = unload[t].bundle_id OBVIOUS
  <1> PICK q : q = registered[b] OBVIOUS
  <1>0. TypeOK /\ RegistrationsTracked /\ BackingAccounted BY DEF BackingInv
  <1>1. /\ AllLocked(t) /\ registered' = [registered EXCEPT ![b] = NoPlugin]
        /\ unload' = [unload EXCEPT ![t].phase = "release", ![t].plugin = q]
        /\ UNCHANGED <<begun, txn, releasedBy>>
    BY DEF UnloadInvalidates
  <1>2. b \in BundleId /\ unload[t].plugin = NoPlugin BY <1>1, LockedFacts
  <1>3. unload'[t].plugin = q /\ \A s \in Thread \ {t} : unload'[s] = unload[s]
    BY <1>0, <1>1, Typed DEF UnloadRecord
  <1>4. registered'[b] = NoPlugin /\ \A a \in BundleId \ {b} : registered'[a] = registered[a] BY <1>0, <1>1, <1>2, Typed
  <1>5. \A p \in 1 .. begun : p # NoPlugin BY <1>0, PluginRange
  <1>6. \A p \in 1 .. begun' : p # q => p \in 1 .. begun /\ Stays(p)
    <2> SUFFICES ASSUME NEW p \in 1 .. begun, p # q PROVE Stays(p) BY <1>1
    <2>1. p # NoPlugin BY <1>5
    <2>2. Staged(p)' = Staged(p) /\ ReleasedBy(p)' = ReleasedBy(p) BY <1>1 DEF Staged, ReleasedBy
    <2>3. Leaving(p)' = Leaving(p) BY <1>2, <1>3, <2>1 DEF Leaving
    <2>4. Published(p)' = Published(p) BY <1>2, <1>4, <2>1 DEF Published
    <2> QED BY <2>2, <2>3, <2>4 DEF Stays
  <1>7. ASSUME q \in 1 .. begun' PROVE InOnePlaceNext(q)
    <2>1. q # NoPlugin BY <1>1, <1>5, <1>7
    <2>2. /\ \A s \in Thread : unload[s].plugin # q
          /\ Staged(q) = {} /\ Published(q) = {b} /\ ReleasedBy(q) = {}
      BY <1>2, <2>1, PublishedAlone
    <2>3. Leaving(q)' = {t} BY <1>3, <2>2 DEF Leaving
    <2>4. Staged(q)' = {} /\ ReleasedBy(q)' = {} BY <1>1, <2>2 DEF Staged, ReleasedBy
    <2>5. Published(q)' = {} BY <1>4, <2>1, <2>2 DEF Published
    <2> QED BY <2>3, <2>4, <2>5 DEF InOnePlaceNext, OneElement
  <1> QED BY <1>0, <1>6, <1>7, Moved

\* The unload releases what it took.
LEMMA ReleasesAccounted ==
  ASSUME BackingInv, NEW t \in Thread, UnloadReleases(t)
  PROVE  BackingAccounted'
  <1> PICK q : q = unload[t].plugin OBVIOUS
  <1>0. TypeOK /\ UnloadsTracked /\ BackingAccounted BY DEF BackingInv
  <1>1. /\ unload[t].phase = "release" /\ unload' = [unload EXCEPT ![t] = NoUnload]
        /\ releasedBy' = IF q = NoPlugin THEN releasedBy ELSE [releasedBy EXCEPT ![q] = t]
        /\ UNCHANGED <<begun, txn, registered>>
    BY DEF UnloadReleases, Release
  <1>2. unload'[t].plugin = NoPlugin /\ \A s \in Thread \ {t} : unload'[s] = unload[s]
    BY <1>0, <1>1, Typed, NullRecords
  <1>3. \A p \in 1 .. begun : p # NoPlugin /\ p \in Plugin BY <1>0, PluginRange
  <1>4. \A p \in Plugin : p # q => releasedBy'[p] = releasedBy[p] BY <1>0, <1>1, Typed
  <1>5. \A p \in 1 .. begun' : p # q => p \in 1 .. begun /\ Stays(p)
    BY <1>1, <1>2, <1>3, <1>4 DEF Stays, Staged, Leaving, Published, ReleasedBy
  <1>6. ASSUME q \in 1 .. begun' PROVE InOnePlaceNext(q)
    <2>1. q # NoPlugin /\ q \in Plugin /\ q \in 1 .. begun BY <1>1, <1>3, <1>6
    <2>2. t \in Leaving(q) BY DEF Leaving
    <2>3. Leaving(q) = {t} /\ Staged(q) = {} /\ Published(q) = {} BY <1>0, <2>1, <2>2, PlaceFacts
    <2>4. releasedBy'[q] = t BY <1>0, <1>1, <2>1, Typed
    <2>5. Leaving(q)' = {} BY <1>2, <2>1, <2>3 DEF Leaving
    <2>6. Staged(q)' = {} /\ Published(q)' = {} BY <1>1, <2>3 DEF Staged, Published
    <2>7. ReleasedBy(q)' = {t} BY <2>4 DEF ReleasedBy
    <2> QED BY <2>5, <2>6, <2>7 DEF InOnePlaceNext, OneElement
  <1> QED BY <1>0, <1>5, <1>6, Moved

\* polyplug_runtime_destroy releases whatever is left.
LEMMA DestroyAccounted ==
  ASSUME BackingInv, NEW t \in Thread, DestroyRuntime(t)
  PROVE  BackingAccounted'
  <1>0. TypeOK /\ BackingAccounted BY DEF BackingInv
  <1>1. /\ \A s \in Thread : unload[s] = NoUnload
        /\ releasedBy' = [p \in Plugin |-> IF p <= begun /\ releasedBy[p] = None THEN t ELSE releasedBy[p]]
        /\ txn' = [s \in Thread |-> NoTxn]
        /\ registered' = [b \in BundleId |-> NoPlugin]
        /\ UNCHANGED <<begun, unload>>
    BY DEF DestroyRuntime, Available
  <1>2. ASSUME NEW p \in 1 .. begun' PROVE Accounted(p)'
    <2>1. p \in 1 .. begun /\ p \in Plugin /\ p # NoPlugin /\ p <= begun BY <1>0, <1>1, PluginRange
    <2>2. Staged(p)' = {} BY <1>1, NullRecords DEF Staged
    <2>3. Leaving(p)' = {} BY <1>1, <2>1, NullRecords DEF Leaving
    <2>4. Published(p)' = {} BY <1>1, <2>1 DEF Published
    <2>5. releasedBy'[p] \in Thread
      <3>1. releasedBy[p] \in Thread \cup {None} BY <1>0, <2>1, Typed
      <3> QED BY <1>1, <2>1, <3>1
    <2>6. ReleasedBy(p)' = {releasedBy'[p]} BY <2>5 DEF ReleasedBy
    <2>7. OneElement(Staged(p)', Leaving(p)', Published(p)', ReleasedBy(p)')
      BY <2>2, <2>3, <2>4, <2>6 DEF OneElement
    <2> QED BY <2>7, OnePlaceNext
  <1> QED BY <1>2 DEF BackingAccounted, Accounted

-----------------------------------------------------------------------------
\* Every step keeps the invariant of any host.
LEMMA ThreadKeepsBacking ==
  ASSUME BackingInv, NEW t \in Thread, ThreadStep(t)
  PROVE  BackingInv'
  <1> SUFFICES LedgerInv' /\ BackingAccounted' BY DEF LedgerInv, BackingInv
  <1>0. TypeOK /\ TxnsTracked /\ LedgerInv BY DEF BackingInv, LedgerInv
  <1>1. ASSUME NEW b \in InternalBundle, NEW generated \in BOOLEAN, BeginInternalPlugin(t, b, generated)
        PROVE  LedgerInv' /\ BackingAccounted'
    BY <1>0, <1>1, BeginLedger, BeginAccounted
  <1>2. CASE AttachResident(t)
    <2>1. UNCHANGED <<begun, registered, releasedBy, txn, unload>> BY <1>2 DEF AttachResident
    <2> QED BY <1>2, <2>1, AttachLedger, NothingMoved
  <1>3. CASE AbortInternalPlugin(t) BY <1>3, AbortLedger, GivenUpAccounted
  <1>4. CASE CommitPublishes(t) BY <1>4, CommitLedger, CommitAccounted
  <1>5. CASE CommitFails(t) BY <1>5, FailLedger, GivenUpAccounted
  <1>6. CASE CommitRemovesMarker(t)
    <2>1. /\ UNCHANGED <<begun, registered, releasedBy, unload>> /\ CloseTxn(t) /\ txn[t].phase = "failed"
      BY <1>6 DEF CommitRemovesMarker
    <2>2. txn'[t].phase = "none" /\ \A s \in Thread \ {t} : txn'[s] = txn[s] BY <1>0, <2>1, CloseFacts, NullRecords
    <2> QED BY <1>6, <2>1, <2>2, AbortLedger, NothingMoved
  <1>7. CASE InsertRoot(t)
    <2>1. /\ UNCHANGED <<begun, registered, releasedBy, unload>> /\ CloseTxn(t) /\ txn[t].phase = "published"
      BY <1>7 DEF InsertRoot
    <2>2. txn'[t].phase = "none" /\ \A s \in Thread \ {t} : txn'[s] = txn[s] BY <1>0, <2>1, CloseFacts, NullRecords
    <2> QED BY <1>7, <2>1, <2>2, RootLedger, NothingMoved
  <1>8. ASSUME NEW b \in LoaderBundle, LoadBundle(t, b) PROVE LedgerInv' /\ BackingAccounted'
    BY <1>8, LoadLedger, LoadAccounted
  <1>9. ASSUME NEW b \in BundleId, UnloadChecks(t, b) PROVE LedgerInv' /\ BackingAccounted'
    <2>1. /\ UNCHANGED <<begun, registered, releasedBy, txn>> /\ unload[t] = NoUnload
          /\ unload' = [unload EXCEPT ![t] = [phase |-> "checked", bundle_id |-> b, plugin |-> NoPlugin]]
      BY <1>9 DEF UnloadChecks, Available
    <2>2. unload'[t].plugin = NoPlugin /\ \A s \in Thread \ {t} : unload'[s] = unload[s] BY <1>0, <2>1, Typed
    <2> QED BY <1>9, <2>1, <2>2, ChecksLedger, NothingMoved, NullRecords
  <1>10. CASE UnloadLocks(t)
    <2>1. /\ UNCHANGED <<begun, registered, releasedBy, txn>>
          /\ unload' = [unload EXCEPT ![t].phase = NextMutex(unload[t].phase)]
      BY <1>10 DEF UnloadLocks, UnloadStep
    <2>2. \A s \in Thread : unload'[s].plugin = unload[s].plugin BY <1>0, <2>1, Typed DEF UnloadRecord
    <2> QED BY <1>10, <2>1, <2>2, LocksLedger, NothingMoved
  <1>11. CASE UnloadRefused(t)
    <2>1. /\ UNCHANGED <<begun, registered, releasedBy, txn>> /\ AllLocked(t) /\ unload' = [unload EXCEPT ![t] = NoUnload]
      BY <1>11 DEF UnloadRefused
    <2>2. unload'[t].plugin = NoPlugin /\ \A s \in Thread \ {t} : unload'[s] = unload[s]
      BY <1>0, <2>1, Typed, NullRecords
    <2> QED BY <1>11, <2>1, <2>2, RefusedLedger, NothingMoved, LockedFacts
  <1>12. CASE UnloadInvalidates(t) BY <1>12, InvalidatesLedger, InvalidatesAccounted
  <1>13. CASE UnloadReleases(t) BY <1>13, ReleasesLedger, ReleasesAccounted
  <1>14. CASE DestroyRuntime(t) BY <1>14, DestroyLedger, DestroyAccounted
  <1> QED BY <1>1, <1>2, <1>3, <1>4, <1>5, <1>6, <1>7, <1>8, <1>9, <1>10, <1>11, <1>12, <1>13, <1>14 DEF ThreadStep

\* Any step keeps it.
LEMMA BackingStep == BackingInv /\ [Next]_vars => BackingInv'
  <1> SUFFICES ASSUME BackingInv, [Next]_vars PROVE BackingInv' OBVIOUS
  <1>1. ASSUME NEW t \in Thread, ThreadStep(t) PROVE BackingInv' BY <1>1, ThreadKeepsBacking
  <1>2. ASSUME NEW u \in User, UserStep(u) PROVE BackingInv'
    <2>1. LedgerInv' /\ UNCHANGED userOnly BY <1>2, UserLedger
    <2>2. BackingAccounted' BY <2>1, NothingMoved DEF userOnly
    <2> QED BY <2>1, <2>2 DEF LedgerInv, BackingInv
  <1>3. CASE UNCHANGED vars
    <2>1. TypeOK' /\ TxnsTracked' /\ UnloadsTracked'
      BY <1>3 DEF BackingInv, vars, TypeOK, TxnsTracked, UnloadsTracked
    <2>2. LocksTracked' /\ RegistrationsTracked' /\ BackingFiled'
      BY <1>3 DEF BackingInv, vars, LocksTracked, RegistrationsTracked, BackingFiled
    <2>3. BackingAccounted' BY <1>3, NothingMoved DEF vars
    <2> QED BY <2>1, <2>2, <2>3 DEF BackingInv
  <1> QED BY <1>1, <1>2, <1>3 DEF Next

\* It holds at the start.
LEMMA BackingInit == Init => BackingInv
  <1> SUFFICES ASSUME Init PROVE BackingInv OBVIOUS
  <1>1. TypeOK
    <2>1. 0 \in 0 .. MaxPlugins BY InternalPluginsAssumption
    <2>2. txn \in [Thread -> TxnRecord] /\ unload \in [Thread -> UnloadRecord] BY NullRecords DEF Init
    <2>3. plugin \in [Plugin -> PluginRecord] BY DEF Init, PluginRecord
    <2> QED BY <2>1, <2>2, <2>3 DEF Init, TypeOK, TxnRecord, UnloadRecord, PluginRecord
  <1>2. TxnsTracked /\ UnloadsTracked BY NullRecords DEF Init, TxnsTracked, UnloadsTracked
  <1>3. LocksTracked BY NullRecords, InternalPluginsAssumption DEF Init, LocksTracked, Mutex
  <1>4. RegistrationsTracked /\ BackingFiled BY DEF Init, RegistrationsTracked, BackingFiled
  <1>5. BackingAccounted BY DEF Init, BackingAccounted
  <1> QED BY <1>1, <1>2, <1>3, <1>4, <1>5 DEF BackingInv

\* Whatever the host does, a transaction's backing, the calls and the mutexes stay
\* in step (begin_internal_plugin, commit, abort, unload_registered_bundle).
THEOREM BackingInvariant == Spec => []BackingInv
  <1>1. Init => BackingInv BY BackingInit
  <1>2. BackingInv /\ [Next]_vars => BackingInv' BY BackingStep
  <1> QED BY <1>1, <1>2, PTL DEF Spec

\* No path of begin, commit, abort, unload and destroy loses the backing of a
\* transaction, or has it in two places.
THEOREM BackingInOnePlace == Spec => []BackingAccounted
  <1>1. BackingInv => BackingAccounted BY DEF BackingInv
  <1> QED BY <1>1, BackingInvariant, PTL

\* A published plugin's root and resident are filed under its registration
\* (register_generated_internal_plugin).
THEOREM BackingsFiled == Spec => []BackingFiled
  <1>1. BackingInv => BackingFiled BY DEF BackingInv
  <1> QED BY <1>1, BackingInvariant, PTL

\* The lock order leaves no cycle.
LEMMA LockOrder ==
  ASSUME BackingInv
  PROVE  NoLockCycle
  <1>0. TypeOK /\ TxnsTracked /\ UnloadsTracked /\ LocksTracked BY DEF BackingInv
  <1> SUFFICES ASSUME NEW S \in SUBSET Thread, NEW r \in S,
                      \A t \in S : Awaits(t) \in Mutex /\ held[Awaits(t)] \in S
               PROVE  FALSE
    BY DEF NoLockCycle
  <1>1. \A t \in S : unload[t].phase # "none" => Awaits(t) = NextMutex(unload[t].phase)
    BY NullRecords DEF Awaits
  <1>2. "none" \notin Mutex BY DEF Mutex
  <1>3. \A t \in S : unload[t].phase # "residents" BY <1>1, <1>2, NextMutexFacts
  <1>4. \A t \in S : held["residents"] # t BY <1>0, <1>3 DEF LocksTracked
  <1>5. \A t \in S : Awaits(t) # "residents" BY <1>4
  <1>6. \A t \in S : held["roots"] # t
    <2> SUFFICES ASSUME NEW t \in S, held["roots"] = t PROVE FALSE OBVIOUS
    <2>1. unload[t].phase # "roots" BY <1>1, <1>5, NextMutexFacts
    <2>2. txn[t] # NoTxn /\ plugin[txn[t].plugin].generated BY <1>0, <1>3, <2>1 DEF LocksTracked
    <2>3. unload[t] = NoUnload BY <1>0, <2>2 DEF UnloadsTracked
    <2>4. Awaits(t) \in {"residents", "none"} BY <2>3 DEF Awaits
    <2> QED BY <1>2, <1>5, <2>4
  <1>7. \A t \in S : Awaits(t) # "roots" BY <1>6
  <1>8. \A t \in S : held["counts"] # t
    <2> SUFFICES ASSUME NEW t \in S, held["counts"] = t PROVE FALSE OBVIOUS
    <2>1. unload[t].phase \in {"counts", "roots", "residents"} BY <1>0 DEF LocksTracked
    <2>2. Awaits(t) \in {"roots", "residents", "none"} BY <1>1, <2>1, NextMutexFacts
    <2> QED BY <1>2, <1>5, <1>7, <2>2
  <1>9. Awaits(r) \in {"counts", "roots", "residents"} BY DEF Mutex
  <1> QED BY <1>5, <1>7, <1>8, <1>9

\* Threads that register, load and unload never wait for each other's mutexes in a
\* circle (unload_registered_bundle: "always acquires backing locks in this order").
THEOREM LocksOrdered == Spec => []NoLockCycle
  <1>1. BackingInv => NoLockCycle BY LockOrder
  <1> QED BY <1>1, BackingInvariant, PTL

-----------------------------------------------------------------------------
(***************************************************************************)
(* The invariant of a host that keeps lifecycle calls for one bundle apart *)
(* and the names of its plugins apart from those of bundles.               *)
(***************************************************************************)
HostPart ==
  /\ NamesTracked /\ PendingApart /\ Marked /\ AffinityKept /\ UsersTracked
  /\ CountExact /\ ResidentOnOwner

\* Bundle, spelled out.
LEMMA BundleFacts ==
  /\ \A p \in Plugin : Bundle[p] = plugin[p].bundle_id
  /\ \A p \in Plugin : Bundle'[p] = plugin'[p].bundle_id
  BY DEF Bundle

\* Plugins begun so far are plugins.
LEMMA HostFacts ==
  ASSUME HostInv
  PROVE  /\ BackingInv /\ TypeOK /\ TxnsTracked /\ UnloadsTracked /\ LocksTracked /\ RegistrationsTracked
         /\ BackingAccounted /\ BackingFiled /\ NamesTracked /\ PendingApart /\ Marked /\ AffinityKept
         /\ UsersTracked /\ CountExact /\ ResidentOnOwner
         /\ \A p \in 1 .. begun : p \in Plugin /\ p # NoPlugin
         /\ \A s \in Thread : txn[s].phase # "none" =>
              /\ txn[s] # NoTxn /\ txn[s].plugin \in 1 .. begun /\ txn[s].plugin \in Plugin
              /\ Bundle[txn[s].plugin] = plugin[txn[s].plugin].bundle_id /\ Bundle[txn[s].plugin] \in BundleId
         /\ \A s \in Thread : txn[s].phase = "none" => txn[s] = NoTxn
         /\ \A b \in BundleId : registered[b] # NoPlugin =>
              /\ registered[b] \in 1 .. begun /\ registered[b] \in Plugin
              /\ plugin[registered[b]].bundle_id = b /\ Bundle[registered[b]] = b
         /\ \A u \in User : user[u].phase # "out" => user[u].plugin \in 1 .. begun /\ user[u].plugin \in Plugin
         /\ \A s \in Thread : unload[s].plugin # NoPlugin => unload[s].plugin \in 1 .. begun /\ unload[s].plugin \in Plugin
  <1>1. /\ BackingInv /\ TypeOK /\ TxnsTracked /\ UnloadsTracked /\ LocksTracked /\ RegistrationsTracked
        /\ BackingAccounted /\ BackingFiled /\ NamesTracked /\ PendingApart /\ Marked /\ AffinityKept
        /\ UsersTracked /\ CountExact /\ ResidentOnOwner
    BY DEF HostInv, BackingInv
  <1>2. \A p \in 1 .. begun : p \in Plugin /\ p # NoPlugin BY <1>1, PluginRange
  <1>3. \A s \in Thread : txn[s].phase # "none" =>
          /\ txn[s] # NoTxn /\ txn[s].plugin \in 1 .. begun /\ txn[s].plugin \in Plugin
          /\ Bundle[txn[s].plugin] = plugin[txn[s].plugin].bundle_id /\ Bundle[txn[s].plugin] \in BundleId
    BY <1>1, OpenTxn
  <1>4. \A s \in Thread : txn[s].phase = "none" => txn[s] = NoTxn BY <1>1 DEF TxnsTracked
  <1>5. \A b \in BundleId : registered[b] # NoPlugin =>
          /\ registered[b] \in 1 .. begun /\ registered[b] \in Plugin
          /\ plugin[registered[b]].bundle_id = b /\ Bundle[registered[b]] = b
    BY <1>1, <1>2, BundleFacts DEF RegistrationsTracked
  <1>6. \A u \in User : user[u].phase # "out" => user[u].plugin \in 1 .. begun /\ user[u].plugin \in Plugin
    BY <1>1, <1>2 DEF UsersTracked
  <1>7. \A s \in Thread : unload[s].plugin # NoPlugin => unload[s].plugin \in 1 .. begun /\ unload[s].plugin \in Plugin
    BY <1>1, <1>2, NullRecords DEF UnloadsTracked
  <1> QED BY <1>1, <1>2, <1>3, <1>4, <1>5, <1>6, <1>7

\* begin_internal_plugin.
LEMMA BeginHost ==
  ASSUME HostInv, Disciplined, NEW t \in Thread, NEW b \in InternalBundle, NEW generated \in BOOLEAN,
         BeginInternalPlugin(t, b, generated)
  PROVE  HostPart'
  <1> DEFINE q == begun + 1
  <1> USE HostFacts
  <1>1. /\ New(b, TRUE, generated, t) /\ b \in BundleId /\ txn[t] = NoTxn /\ registered[b] = NoPlugin
        /\ ~Pending(b) /\ ~Unloading(b)
    BY DEF BeginInternalPlugin, BundleId
  <1>2. /\ begun' = q /\ q \in Plugin
        /\ \A p \in Plugin \ {q} : plugin'[p] = plugin[p]
        /\ plugin'[q].bundle_id = b /\ plugin'[q].internal /\ ~plugin'[q].resident
    <2>1. TypeOK OBVIOUS
    <2> HIDE HostFacts
    <2> QED BY <1>1, <2>1, NewFacts
  <1>3. /\ txn' = [txn EXCEPT ![t] = [phase |-> "staged", plugin |-> q]]
        /\ internal_plugin_lifecycle' = internal_plugin_lifecycle \cup {b}
        /\ UNCHANGED <<registered, instance_counts, unload, user, releasedBy>>
    BY Zenon DEF BeginInternalPlugin
  <1>4. /\ txn'[t].phase = "staged" /\ txn'[t].plugin = q
        /\ \A s \in Thread \ {t} : txn'[s] = txn[s]
    BY <1>3, Typed
  <1>5. \A p \in 1 .. begun : p \in Plugin \ {q} /\ p \in 1 .. begun' /\ plugin'[p] = plugin[p]
    BY <1>2, PluginRange
  <1>6. \A p \in 1 .. begun' : p = q \/ p \in 1 .. begun BY <1>2, PluginRange
  <1>7. NamesTracked' BY <1>2, <1>5, <1>6 DEF NamesTracked
  <1>8. Bundle'[q] = b /\ \A p \in 1 .. begun : Bundle'[p] = Bundle[p] BY <1>2, <1>5, BundleFacts
  <1>9. PendingApart'
    <2>1. \A s \in Thread \ {t} : txn'[s] # NoTxn => Bundle'[txn'[s].plugin] # b /\ Bundle'[txn'[s].plugin] = Bundle[txn[s].plugin]
      BY <1>1, <1>4, <1>8 DEF Pending
    <2>2. \A c : Unloading(c)' <=> Unloading(c) BY <1>3 DEF Unloading
    <2>3. \A r, s \in Thread : txn'[r] # NoTxn /\ txn'[s] # NoTxn
                            /\ Bundle'[txn'[r].plugin] = Bundle'[txn'[s].plugin] => r = s
      BY <1>4, <1>8, <2>1 DEF PendingApart
    <2>4. \A s \in Thread : txn'[s].phase \in {"staged", "failed"} =>
            registered'[Bundle'[txn'[s].plugin]] = NoPlugin /\ ~Unloading(Bundle'[txn'[s].plugin])
      BY <1>1, <1>3, <1>4, <1>8, <2>1, NullRecords DEF PendingApart
    <2> QED BY <1>3, <2>2, <2>3, <2>4 DEF PendingApart, Unloading
  <1>10. Marked' BY <1>1, <1>3, <1>4, <1>5, <1>8 DEF Marked
  <1>11. AffinityKept'
    <2>1. \A s \in Thread : unload[s].phase # "none" => unload[s].bundle_id \in BundleId BY DEF UnloadsTracked
    <2> QED BY <1>3, <1>5, <2>1 DEF AffinityKept
  <1>12. UsersTracked' BY <1>3, <1>5, <1>8 DEF UsersTracked
  <1>13. CountExact' BY <1>3 DEF CountExact
  <1>14. ResidentOnOwner' BY <1>2, <1>3 DEF ResidentOnOwner
  <1> QED BY <1>7, <1>9, <1>10, <1>11, <1>12, <1>13, <1>14 DEF HostPart

\* attach_internal_plugin_resident.
LEMMA AttachHost ==
  ASSUME HostInv, NEW t \in Thread, AttachResident(t)
  PROVE  HostPart'
  <1> DEFINE q == txn[t].plugin
  <1> USE HostFacts
  <1>1. /\ txn[t].phase = "staged" /\ plugin' = [plugin EXCEPT ![q].resident = TRUE]
        /\ UNCHANGED <<begun, txn, registered, internal_plugin_lifecycle, instance_counts, unload, user, releasedBy>>
    BY Zenon DEF AttachResident
  <1>2. q \in Plugin BY <1>1
  <1>3. /\ \A p \in Plugin \ {q} : plugin'[p] = plugin[p]
        /\ plugin'[q].bundle_id = plugin[q].bundle_id /\ plugin'[q].internal = plugin[q].internal
    BY <1>1, <1>2, AttachFacts
  <1>4. \A p \in Plugin : /\ plugin'[p].bundle_id = plugin[p].bundle_id /\ plugin'[p].internal = plugin[p].internal
                          /\ Bundle'[p] = Bundle[p]
    BY <1>3, BundleFacts
  <1>5. /\ \A b \in BundleId : registered[b] # q
        /\ \A s \in Thread : unload[s].plugin # q
        /\ releasedBy[q] = None
    BY <1>1, StagedAlone
  <1>6. NamesTracked' BY <1>1, <1>4 DEF NamesTracked
  <1>7. PendingApart'
    <2>1. Bundle' = Bundle BY <1>4 DEF Bundle
    <2> QED BY <1>1, <2>1 DEF PendingApart, Unloading
  <1>8. Marked' BY <1>1, <1>4 DEF Marked
  <1>9. AffinityKept'
    <2>1. \A s \in Thread : unload[s].phase # "none" => unload[s].bundle_id \in BundleId BY DEF UnloadsTracked
    <2> QED BY <1>1, <1>3, <1>5, <2>1 DEF AffinityKept
  <1>10. UsersTracked' BY <1>1, <1>4 DEF UsersTracked
  <1>11. CountExact' BY <1>1 DEF CountExact
  <1>12. ResidentOnOwner' BY <1>1, <1>3, <1>5 DEF ResidentOnOwner
  <1> QED BY <1>6, <1>7, <1>8, <1>9, <1>10, <1>11, <1>12 DEF HostPart

\* A transaction is given up: aborted, failed, or its marker removed.
LEMMA GivenUpHost ==
  ASSUME HostInv, NEW t \in Thread, AbortInternalPlugin(t) \/ CommitFails(t) \/ CommitRemovesMarker(t)
  PROVE  HostPart'
  <1> DEFINE q == txn[t].plugin
             b == Bundle[txn[t].plugin]
  <1> USE HostFacts
  <1>1. /\ txn[t].phase \in {"staged", "failed"}
        /\ \/ releasedBy' = releasedBy
           \/ releasedBy' = [releasedBy EXCEPT ![q] = t]
        /\ \/ txn' = [txn EXCEPT ![t] = NoTxn] /\ internal_plugin_lifecycle' = internal_plugin_lifecycle \ {b}
           \/ txn' = [txn EXCEPT ![t].phase = "failed"] /\ internal_plugin_lifecycle' = internal_plugin_lifecycle
        /\ UNCHANGED <<begun, plugin, registered, instance_counts, unload, user>>
    BY DEF AbortInternalPlugin, CommitFails, CommitRemovesMarker, CloseTxn, Release
  <1>2. /\ \A s \in Thread \ {t} : txn'[s] = txn[s]
        /\ txn'[t] = NoTxn \/ (txn'[t].phase = "failed" /\ txn'[t].plugin = q)
        /\ txn[t] # NoTxn /\ q \in Plugin
    BY <1>1, Typed DEF TxnRecord
  <1>3. Bundle' = Bundle BY <1>1 DEF Bundle
  <1>4. NamesTracked' BY <1>1 DEF NamesTracked
  <1>5. PendingApart'
    <2>1. \A s \in Thread : txn'[s] # NoTxn => txn[s] # NoTxn /\ txn'[s].plugin = txn[s].plugin BY <1>2
    <2>2. \A s \in Thread : txn'[s].phase \in {"staged", "failed"} =>
            txn[s].phase \in {"staged", "failed"} /\ txn'[s].plugin = txn[s].plugin
      BY <1>1, <1>2, NullRecords
    <2> QED BY <1>1, <1>3, <2>1, <2>2 DEF PendingApart, Unloading
  <1>6. Marked'
    <2>1. \A s \in Thread \ {t} : txn[s].phase = "staged" => Bundle[txn[s].plugin] # b BY <1>2 DEF PendingApart
    <2>2. registered[b] = NoPlugin BY <1>1 DEF PendingApart
    <2>3. \A c \in internal_plugin_lifecycle : c # b => c \in internal_plugin_lifecycle' BY <1>1
    <2>4. txn'[t].phase # "staged" BY <1>2, NullRecords
    <2> QED BY <1>1, <1>2, <1>3, <2>1, <2>2, <2>3, <2>4 DEF Marked
  <1>7. AffinityKept' BY <1>1 DEF AffinityKept
  <1>8. UsersTracked' BY <1>1, <1>3 DEF UsersTracked
  <1>9. CountExact' BY <1>1 DEF CountExact
  <1>10. ResidentOnOwner'
    <2>1. plugin[q].thread = t BY <1>1 DEF TxnsTracked
    <2>2. \A p \in Plugin : p # q => releasedBy'[p] = releasedBy[p] BY <1>1, <1>2, Typed
    <2>3. releasedBy'[q] \in {releasedBy[q], t} BY <1>1, <1>2, Typed
    <2> QED BY <1>1, <2>1, <2>2, <2>3 DEF ResidentOnOwner
  <1> QED BY <1>4, <1>5, <1>6, <1>7, <1>8, <1>9, <1>10 DEF HostPart

\* register_generated_internal_plugin stores the root.
LEMMA RootHost ==
  ASSUME HostInv, NEW t \in Thread, InsertRoot(t)
  PROVE  HostPart'
  <1> USE HostFacts
  <1>1. /\ CloseTxn(t)
        /\ UNCHANGED <<begun, plugin, registered, internal_plugin_lifecycle, instance_counts, unload, user, releasedBy>>
    BY DEF InsertRoot
  <1>2. txn'[t] = NoTxn /\ \A s \in Thread \ {t} : txn'[s] = txn[s] BY <1>1, CloseFacts
  <1>3. Bundle' = Bundle BY <1>1 DEF Bundle
  <1>4. PendingApart' BY <1>1, <1>2, <1>3, NullRecords DEF PendingApart, Unloading
  <1>5. Marked' BY <1>1, <1>2, <1>3, NullRecords DEF Marked
  <1>6. NamesTracked' /\ AffinityKept' BY <1>1 DEF NamesTracked, AffinityKept
  <1>7. UsersTracked' BY <1>1, <1>3 DEF UsersTracked
  <1>8. CountExact' /\ ResidentOnOwner' BY <1>1 DEF CountExact, ResidentOnOwner
  <1> QED BY <1>4, <1>5, <1>6, <1>7, <1>8 DEF HostPart

\* The commit that publishes.
LEMMA CommitHost ==
  ASSUME HostInv, NEW t \in Thread, CommitPublishes(t)
  PROVE  HostPart'
  <1> DEFINE q == txn[t].plugin
             b == Bundle[txn[t].plugin]
  <1> USE HostFacts
  <1>1. /\ txn[t].phase = "staged" /\ registered[b] = NoPlugin /\ registered' = [registered EXCEPT ![b] = q]
        /\ txn' = [txn EXCEPT ![t] = NoTxn] \/ txn' = [txn EXCEPT ![t].phase = "published"]
        /\ UNCHANGED <<begun, plugin, internal_plugin_lifecycle, instance_counts, unload, user, releasedBy>>
    BY DEF CommitPublishes, CloseTxn
  <1>2. /\ \A s \in Thread \ {t} : txn'[s] = txn[s]
        /\ txn'[t] = NoTxn \/ (txn'[t].phase = "published" /\ txn'[t].plugin = q)
        /\ txn[t] # NoTxn /\ q \in Plugin /\ q \in 1 .. begun /\ q # NoPlugin
        /\ b \in BundleId /\ b = plugin[q].bundle_id
    BY <1>1, Typed DEF TxnRecord
  <1>3. registered'[b] = q /\ \A a \in BundleId \ {b} : registered'[a] = registered[a] BY <1>1, <1>2, Typed
  <1>4. Bundle' = Bundle BY <1>1 DEF Bundle
  <1>5. txn'[t].phase \notin {"staged", "failed"} BY <1>2, NullRecords
  <1>6. NamesTracked' BY <1>1 DEF NamesTracked
  <1>7. \A s \in Thread \ {t} : txn[s] # NoTxn => Bundle[txn[s].plugin] # b BY <1>2 DEF PendingApart
  <1>8. PendingApart'
    <2>1. \A s \in Thread : txn'[s] # NoTxn => txn[s] # NoTxn /\ txn'[s].plugin = txn[s].plugin BY <1>2
    <2>2. \A s \in Thread : txn'[s].phase \in {"staged", "failed"} =>
            /\ txn[s].phase \in {"staged", "failed"} /\ txn'[s].plugin = txn[s].plugin
            /\ Bundle[txn[s].plugin] \in BundleId \ {b}
      BY <1>2, <1>5, <1>7
    <2> QED BY <1>1, <1>3, <1>4, <2>1, <2>2 DEF PendingApart, Unloading
  <1>9. Marked'
    <2>1. b \in internal_plugin_lifecycle BY <1>1 DEF Marked
    <2> QED BY <1>1, <1>2, <1>3, <1>4, <1>5, <2>1 DEF Marked
  <1>10. AffinityKept'
    <2>1. \A s \in Thread : unload[s].phase # "none" => unload[s].bundle_id \in BundleId BY DEF UnloadsTracked
    <2>2. \A s \in Thread : unload[s].bundle_id # b BY <1>1 DEF PendingApart, Unloading
    <2> QED BY <1>1, <1>3, <2>1, <2>2 DEF AffinityKept
  <1>11. \A u \in User : user[u].phase # "out" /\ plugin[user[u].plugin].internal =>
           Bundle[user[u].plugin] # b /\ Bundle[user[u].plugin] \in BundleId
    <2> SUFFICES ASSUME NEW u \in User, user[u].phase # "out", plugin[user[u].plugin].internal
                 PROVE  Bundle[user[u].plugin] # b /\ Bundle[user[u].plugin] \in BundleId
      OBVIOUS
    <2>1. registered[Bundle[user[u].plugin]] = user[u].plugin BY DEF UsersTracked
    <2>2. Bundle[user[u].plugin] \in BundleId BY BundleFacts DEF NamesTracked, BundleId
    <2> QED BY <1>1, <2>1, <2>2
  <1>12. UsersTracked' BY <1>1, <1>3, <1>4, <1>11 DEF UsersTracked
  <1>13. CountExact'
    <2>1. plugin[q].internal BY <1>1 DEF TxnsTracked
    <2>2. \A u \in User : user[u].phase # "out" => user[u].plugin # q BY <1>11, <2>1
    <2>3. \A a \in InternalBundle \ LoaderBundle :
            {u \in User : user[u].phase # "out" /\ registered'[a] # NoPlugin /\ user[u].plugin = registered'[a]}
              = {u \in User : user[u].phase # "out" /\ registered[a] # NoPlugin /\ user[u].plugin = registered[a]}
      <3> SUFFICES ASSUME NEW a \in InternalBundle \ LoaderBundle
                   PROVE \A u \in User :
                           (user[u].phase # "out" /\ registered'[a] # NoPlugin /\ user[u].plugin = registered'[a])
                             <=> (user[u].phase # "out" /\ registered[a] # NoPlugin /\ user[u].plugin = registered[a])
        OBVIOUS
      <3>1. a \in BundleId BY DEF BundleId
      <3> QED BY <1>1, <1>3, <2>2, <3>1
    <2> QED BY <1>1, <2>3 DEF CountExact
  <1>14. ResidentOnOwner' BY <1>1 DEF ResidentOnOwner
  <1> QED BY <1>6, <1>8, <1>9, <1>10, <1>12, <1>13, <1>14 DEF HostPart

\* A bundle is loaded through a loader.
LEMMA LoadHost ==
  ASSUME HostInv, Disciplined, NEW t \in Thread, NEW b \in LoaderBundle, LoadBundle(t, b)
  PROVE  HostPart'
  <1> DEFINE q == begun + 1
  <1> USE HostFacts
  <1>1. /\ New(b, FALSE, FALSE, t) /\ b \in BundleId /\ registered[b] = NoPlugin
        /\ ~Pending(b) /\ ~Unloading(b)
        /\ registered' = [registered EXCEPT ![b] = q]
        /\ UNCHANGED <<txn, internal_plugin_lifecycle, instance_counts, unload, user, releasedBy>>
    BY DEF LoadBundle, BundleId
  <1>2. /\ begun' = q /\ q \in Plugin
        /\ \A p \in Plugin \ {q} : plugin'[p] = plugin[p]
        /\ plugin'[q].bundle_id = b /\ ~plugin'[q].internal /\ ~plugin'[q].resident
    <2>1. TypeOK OBVIOUS
    <2> HIDE HostFacts
    <2> QED BY <1>1, <2>1, NewFacts
  <1>3. \A p \in 1 .. begun : p \in Plugin \ {q} /\ p \in 1 .. begun' /\ plugin'[p] = plugin[p]
    BY <1>2, PluginRange
  <1>4. \A p \in 1 .. begun' : p = q \/ p \in 1 .. begun BY <1>2, PluginRange
  <1>5. registered'[b] = q /\ \A a \in BundleId \ {b} : registered'[a] = registered[a] BY <1>1, <1>2, Typed
  <1>6. Bundle'[q] = b /\ \A p \in 1 .. begun : Bundle'[p] = Bundle[p] BY <1>2, <1>3, BundleFacts
  <1>7. NamesTracked' BY <1>2, <1>3, <1>4 DEF NamesTracked
  <1>8. PendingApart'
    <2>1. \A s \in Thread : txn[s] # NoTxn =>
            Bundle'[txn[s].plugin] = Bundle[txn[s].plugin] /\ Bundle[txn[s].plugin] \in BundleId \ {b}
      BY <1>1, <1>6 DEF Pending
    <2>2. \A s \in Thread : txn[s].phase \in {"staged", "failed"} => txn[s] # NoTxn OBVIOUS
    <2> QED BY <1>1, <1>5, <2>1, <2>2 DEF PendingApart, Unloading
  <1>9. Marked'
    <2>1. \A s \in Thread : txn[s].phase = "staged" => Bundle'[txn[s].plugin] = Bundle[txn[s].plugin] BY <1>6
    <2> QED BY <1>1, <1>2, <1>3, <1>5, <2>1 DEF Marked
  <1>10. AffinityKept'
    <2>1. \A s \in Thread : unload[s].phase # "none" => unload[s].bundle_id \in BundleId BY DEF UnloadsTracked
    <2>2. \A s \in Thread : unload[s].bundle_id # b BY <1>1 DEF Unloading
    <2> QED BY <1>1, <1>3, <1>5, <2>1, <2>2 DEF AffinityKept
  <1>11. UsersTracked'
    <2> SUFFICES ASSUME NEW u \in User, user[u].phase # "out"
                 PROVE  /\ user[u].plugin \in 1 .. begun'
                        /\ plugin'[user[u].plugin].internal => registered'[Bundle'[user[u].plugin]] = user[u].plugin
      BY <1>1 DEF UsersTracked
    <2> DEFINE p == user[u].plugin
    <2>1. p \in 1 .. begun /\ p \in 1 .. begun' /\ plugin'[p] = plugin[p] /\ Bundle'[p] = Bundle[p] BY <1>3, <1>6
    <2>2. ASSUME plugin[p].internal PROVE registered'[Bundle[p]] = p
      <3>1. registered[Bundle[p]] = p BY <2>2 DEF UsersTracked
      <3>2. Bundle[p] \in BundleId BY <2>1, <2>2, BundleFacts DEF NamesTracked, BundleId
      <3> QED BY <1>1, <1>5, <2>1, <3>1, <3>2
    <2> QED BY <2>1, <2>2
  <1>12. CountExact'
    <2>1. \A a \in InternalBundle \ LoaderBundle : registered'[a] = registered[a] BY <1>5 DEF BundleId
    <2> QED BY <1>1, <2>1 DEF CountExact
  <1>13. ResidentOnOwner' BY <1>1, <1>2 DEF ResidentOnOwner
  <1> QED BY <1>7, <1>8, <1>9, <1>10, <1>11, <1>12, <1>13 DEF HostPart

\* A new unload, or the next lock of one.
LEMMA UnloadingHost ==
  ASSUME HostInv, NEW t \in Thread,
         (\E b \in BundleId : UnloadChecks(t, b)) \/ UnloadLocks(t)
  PROVE  HostPart'
  <1> USE HostFacts
  <1>1. UNCHANGED <<begun, plugin, txn, registered, internal_plugin_lifecycle, instance_counts, user, releasedBy>>
    BY DEF UnloadChecks, UnloadLocks
  <1>2. Bundle' = Bundle BY <1>1 DEF Bundle
  <1>3. NamesTracked' /\ CountExact' /\ ResidentOnOwner' BY <1>1 DEF NamesTracked, CountExact, ResidentOnOwner
  <1>4. Marked' /\ UsersTracked' BY <1>1, <1>2 DEF Marked, UsersTracked
  <1>5. ASSUME NEW b \in BundleId, UnloadChecks(t, b) PROVE PendingApart' /\ AffinityKept'
    <2>1. /\ registered[b] # NoPlugin /\ ResidentAffinity(t, b) /\ unload[t] = NoUnload
          /\ unload' = [unload EXCEPT ![t] = [phase |-> "checked", bundle_id |-> b, plugin |-> NoPlugin]]
      BY <1>5, Zenon DEF UnloadChecks, Available
    <2>2. /\ unload'[t].phase = "checked" /\ unload'[t].bundle_id = b /\ unload'[t].plugin = NoPlugin
          /\ \A s \in Thread \ {t} : unload'[s] = unload[s]
      BY <2>1, Typed
    <2>3. \A s \in Thread : txn[s].phase \in {"staged", "failed"} => Bundle[txn[s].plugin] # b
      BY <2>1 DEF PendingApart
    <2>4. PendingApart' BY <1>1, <1>2, <2>2, <2>3 DEF PendingApart, Unloading
    <2>5. plugin[registered[b]].resident => plugin[registered[b]].thread = t
      BY <2>1 DEF BackingFiled, ResidentAffinity
    <2>6. AffinityKept' BY <1>1, <2>2, <2>5 DEF AffinityKept
    <2> QED BY <2>4, <2>6
  <1>6. ASSUME UnloadLocks(t) PROVE PendingApart' /\ AffinityKept'
    <2> DEFINE m == NextMutex(unload[t].phase)
    <2>1. m \in Mutex /\ unload' = [unload EXCEPT ![t].phase = m] BY <1>6 DEF UnloadLocks, UnloadStep
    <2>2. /\ unload'[t].phase = m /\ unload'[t].bundle_id = unload[t].bundle_id /\ unload'[t].plugin = unload[t].plugin
          /\ \A s \in Thread \ {t} : unload'[s] = unload[s]
      BY <2>1, Typed DEF UnloadRecord
    <2>3. unload[t].phase \notin {"none", "release"} BY <2>1, NextMutexFacts DEF Mutex
    <2>4. PendingApart' BY <1>1, <1>2, <2>2 DEF PendingApart, Unloading
    <2>5. AffinityKept' BY <1>1, <2>2, <2>3 DEF AffinityKept
    <2> QED BY <2>4, <2>5
  <1> QED BY <1>3, <1>4, <1>5, <1>6 DEF HostPart

\* An unload ends: refused, or with what it took released.
LEMMA UnloadedHost ==
  ASSUME HostInv, NEW t \in Thread, UnloadRefused(t) \/ UnloadReleases(t)
  PROVE  HostPart'
  <1> DEFINE q == unload[t].plugin
  <1> USE HostFacts
  <1>1. /\ unload' = [unload EXCEPT ![t] = NoUnload]
        /\ \/ releasedBy' = releasedBy
           \/ q # NoPlugin /\ releasedBy' = [releasedBy EXCEPT ![q] = t]
        /\ UNCHANGED <<begun, plugin, txn, registered, internal_plugin_lifecycle, instance_counts, user>>
    BY DEF UnloadRefused, UnloadReleases, Release
  <1>2. unload'[t] = NoUnload /\ \A s \in Thread \ {t} : unload'[s] = unload[s] BY <1>1, Typed
  <1>3. Bundle' = Bundle BY <1>1 DEF Bundle
  <1>4. NamesTracked' /\ CountExact' BY <1>1 DEF NamesTracked, CountExact
  <1>5. Marked' /\ UsersTracked' BY <1>1, <1>3 DEF Marked, UsersTracked
  <1>6. PendingApart'
    <2>1. None \notin BundleId BY InternalPluginsAssumption
    <2>2. \A s \in Thread : txn[s].phase \in {"staged", "failed"} => Bundle[txn[s].plugin] # None
      BY <2>1
    <2> QED BY <1>1, <1>2, <1>3, <2>2, NullRecords DEF PendingApart, Unloading
  <1>7. AffinityKept' BY <1>1, <1>2, NullRecords DEF AffinityKept
  <1>8. ResidentOnOwner'
    <2>1. q # NoPlugin => q \in Plugin /\ (plugin[q].resident => plugin[q].thread = t) BY DEF AffinityKept
    <2>2. \A p \in Plugin : p # q => releasedBy'[p] = releasedBy[p] BY <1>1, <2>1, Typed
    <2>3. q \in Plugin => releasedBy'[q] = releasedBy[q] \/ (q # NoPlugin /\ releasedBy'[q] = t) BY <1>1, <2>1, Typed
    <2> QED BY <1>1, <2>1, <2>2, <2>3 DEF ResidentOnOwner
  <1> QED BY <1>4, <1>5, <1>6, <1>7, <1>8 DEF HostPart

\* Who counts for a bundle.
Counted(b) ==
  {u \in User : user[u].phase # "out" /\ registered[b] # NoPlugin /\ user[u].plugin = registered[b]}

\* It is a finite set, and the count of an internal bundle is its size.
LEMMA CountedFacts ==
  ASSUME HostInv, NEW b \in InternalBundle \ LoaderBundle
  PROVE  /\ IsFiniteSet(Counted(b)) /\ instance_counts[b] = Cardinality(Counted(b))
         /\ b \in BundleId /\ instance_counts[b] \in Nat
         /\ instance_counts[b] = 0 <=> Counted(b) = {}
  <1>1. Counted(b) \in SUBSET User BY DEF Counted
  <1>2. IsFiniteSet(Counted(b)) BY <1>1, FS_Subset, InternalPluginsAssumption
  <1>3. CountExact /\ TypeOK BY HostFacts
  <1>4. instance_counts[b] = Cardinality(Counted(b)) BY <1>3, Zenon DEF CountExact, Counted
  <1>5. b \in BundleId /\ instance_counts[b] \in Nat BY <1>3 DEF TypeOK, BundleId
  <1> QED BY <1>2, <1>4, <1>5, FS_EmptySet

\* An internal bundle with a user is in use.
LEMMA UsedFacts ==
  ASSUME HostInv, NamesApart, NEW u \in User, user[u].phase # "out", plugin[user[u].plugin].internal
  PROVE  LET p == user[u].plugin
             b == Bundle[p]
         IN  /\ registered[b] = p /\ b \in InternalBundle \ LoaderBundle /\ u \in Counted(b)
             /\ InUse(b) /\ instance_counts[b] > 0
  <1> DEFINE p == user[u].plugin
             b == Bundle[p]
  <1> USE HostFacts
  <1>1. p \in 1 .. begun /\ p \in Plugin /\ registered[b] = p /\ p # NoPlugin BY DEF UsersTracked
  <1>2. b \in InternalBundle BY <1>1, BundleFacts DEF NamesTracked
  <1>3. b \in InternalBundle \ LoaderBundle BY <1>2 DEF NamesApart
  <1>4. u \in Counted(b) BY <1>1 DEF Counted
  <1>5. instance_counts[b] # 0 /\ instance_counts[b] \in Nat /\ b \in BundleId BY <1>3, <1>4, CountedFacts
  <1>6. instance_counts[b] > 0 BY <1>5
  <1>7. b \in internal_plugin_lifecycle BY <1>1, <1>5 DEF Marked
  <1> QED BY <1>1, <1>3, <1>4, <1>6, <1>7 DEF InUse

\* An unload takes the registration and its backing.
LEMMA InvalidatesHost ==
  ASSUME HostInv, NamesApart, NEW t \in Thread, UnloadInvalidates(t)
  PROVE  HostPart'
  <1> DEFINE b == unload[t].bundle_id
  <1> USE HostFacts
  <1>1. /\ AllLocked(t) /\ ~InUse(b)
        /\ registered' = [registered EXCEPT ![b] = NoPlugin]
        /\ internal_plugin_lifecycle' = internal_plugin_lifecycle \ {b}
        /\ instance_counts' = [instance_counts EXCEPT ![b] = 0]
        /\ unload' = [unload EXCEPT ![t].phase = "release", ![t].plugin = registered[b]]
        /\ UNCHANGED <<begun, plugin, txn, user, releasedBy>>
    BY DEF UnloadInvalidates
  <1>2. unload[t].phase = "residents" /\ b \in BundleId BY <1>1, LockedFacts
  <1>3. /\ unload'[t].phase = "release" /\ unload'[t].bundle_id = b /\ unload'[t].plugin = registered[b]
        /\ \A s \in Thread \ {t} : unload'[s] = unload[s]
    BY <1>1, Typed DEF UnloadRecord
  <1>4. registered'[b] = NoPlugin /\ \A a \in BundleId \ {b} : registered'[a] = registered[a] BY <1>1, <1>2, Typed
  <1>5. Bundle' = Bundle BY <1>1 DEF Bundle
  <1>6. NamesTracked' BY <1>1 DEF NamesTracked
  <1>7. PendingApart'
    <2>1. \A s \in Thread : unload'[s].bundle_id = unload[s].bundle_id BY <1>3
    <2>2. \A s \in Thread : txn[s].phase \in {"staged", "failed"} =>
            registered'[Bundle[txn[s].plugin]] = NoPlugin /\ ~Unloading(Bundle[txn[s].plugin])
      BY <1>4 DEF PendingApart
    <2>4. \A s \in Thread : txn'[s].phase \in {"staged", "failed"} =>
            registered'[Bundle'[txn'[s].plugin]] = NoPlugin /\ ~\E r \in Thread : unload'[r].bundle_id = Bundle'[txn'[s].plugin]
      <3>1. txn' = txn BY <1>1
      <3> QED BY <1>5, <2>1, <2>2, <3>1 DEF Unloading
    <2>5. \A r, s \in Thread : txn'[r] # NoTxn /\ txn'[s] # NoTxn
                             /\ Bundle'[txn'[r].plugin] = Bundle'[txn'[s].plugin] => r = s
      BY <1>1, <1>5 DEF PendingApart
    <2> QED BY <2>4, <2>5 DEF PendingApart, Unloading
  <1>8. Marked'
    <2>1. \A s \in Thread : txn[s].phase = "staged" => Bundle[txn[s].plugin] # b BY DEF PendingApart, Unloading
    <2> QED BY <1>1, <1>4, <1>5, <2>1 DEF Marked
  <1>9. AffinityKept'
    <2>1. registered[b] # NoPlugin /\ plugin[registered[b]].resident => plugin[registered[b]].thread = t
      BY <1>2 DEF AffinityKept
    <2>2. \A s \in Thread : unload[s].phase # "none" => unload[s].bundle_id \in BundleId BY DEF UnloadsTracked
    <2>3. ASSUME NEW s \in Thread
          PROVE  LET a == unload'[s].bundle_id
                     p == unload'[s].plugin
                 IN  /\ unload'[s].phase \notin {"none", "release"} /\ registered'[a] # NoPlugin
                          /\ plugin[registered'[a]].resident => plugin[registered'[a]].thread = s
                     /\ p # NoPlugin /\ plugin[p].resident => plugin[p].thread = s
      <3>1. CASE s = t BY <1>3, <2>1, <3>1
      <3>2. CASE s # t
        <4>1. unload'[s] = unload[s] BY <1>3, <3>2
        <4> QED BY <1>4, <2>2, <4>1 DEF AffinityKept
      <3> QED BY <3>1, <3>2
    <2> QED BY <1>1, <2>3 DEF AffinityKept
  <1>10. UsersTracked'
    <2>1. \A u \in User : user[u].phase # "out" /\ plugin[user[u].plugin].internal =>
            /\ Bundle[user[u].plugin] # b /\ Bundle[user[u].plugin] \in BundleId
            /\ registered[Bundle[user[u].plugin]] = user[u].plugin
      BY <1>1, UsedFacts DEF BundleId
    <2> QED BY <1>1, <1>4, <1>5, <2>1 DEF UsersTracked
  <1>11. CountExact'
    <2> SUFFICES ASSUME NEW a \in InternalBundle \ LoaderBundle
                 PROVE  instance_counts'[a] =
                          Cardinality({u \in User : /\ user'[u].phase # "out" /\ registered'[a] # NoPlugin
                                                    /\ user'[u].plugin = registered'[a]})
      BY DEF CountExact
    <2>1. a \in BundleId BY DEF BundleId
    <2>2. CASE a = b
      <3>1. instance_counts'[a] = 0 BY <1>1, <2>1, <2>2 DEF TypeOK
      <3>2. {u \in User : user'[u].phase # "out" /\ registered'[a] # NoPlugin /\ user'[u].plugin = registered'[a]} = {}
        BY <1>4, <2>2
      <3> QED BY <3>1, <3>2, FS_EmptySet
    <2>3. CASE a # b
      <3>1. instance_counts'[a] = instance_counts[a] /\ registered'[a] = registered[a]
        BY <1>1, <1>4, <2>1, <2>3 DEF TypeOK
      <3> QED BY <1>1, <3>1 DEF CountExact
    <2> QED BY <2>2, <2>3
  <1>12. ResidentOnOwner' BY <1>1 DEF ResidentOnOwner
  <1> QED BY <1>6, <1>7, <1>8, <1>9, <1>10, <1>11, <1>12 DEF HostPart

\* polyplug_runtime_destroy.
LEMMA DestroyHost ==
  ASSUME HostInv, NEW t \in Thread, DestroyRuntime(t)
  PROVE  HostPart'
  <1> USE HostFacts
  <1>1. /\ \A u \in User : user[u].phase = "out"
        /\ \A s \in Thread : Available(s)
        /\ \A s \in Thread \ {t} : txn[s] # NoTxn => ~plugin[txn[s].plugin].resident
        /\ \A b \in BundleId : ResidentAffinity(t, b)
        /\ releasedBy' = [p \in Plugin |-> IF p <= begun /\ releasedBy[p] = None THEN t ELSE releasedBy[p]]
        /\ txn' = [s \in Thread |-> NoTxn]
        /\ registered' = [b \in BundleId |-> NoPlugin]
        /\ UNCHANGED <<begun, plugin, instance_counts, unload, user>>
    BY DEF DestroyRuntime
  <1>2. \A s \in Thread : unload[s] = NoUnload BY <1>1 DEF Available
  <1>3. /\ \A s \in Thread : txn'[s] = NoTxn
        /\ \A b \in BundleId : registered'[b] = NoPlugin
    BY <1>1
  <1>4. NamesTracked' BY <1>1 DEF NamesTracked
  <1>5. PendingApart' /\ Marked' BY <1>3, NullRecords DEF PendingApart, Marked
  <1>6. AffinityKept' BY <1>1, <1>2, NullRecords DEF AffinityKept
  <1>7. UsersTracked' BY <1>1 DEF UsersTracked
  <1>8. CountExact'
    <2> SUFFICES ASSUME NEW a \in InternalBundle \ LoaderBundle
                 PROVE  instance_counts'[a] =
                          Cardinality({u \in User : /\ user'[u].phase # "out" /\ registered'[a] # NoPlugin
                                                    /\ user'[u].plugin = registered'[a]})
      BY DEF CountExact
    <2>1. Counted(a) = {} BY <1>1 DEF Counted
    <2>2. instance_counts'[a] = 0 BY <1>1, <2>1, CountedFacts
    <2>3. {u \in User : user'[u].phase # "out" /\ registered'[a] # NoPlugin /\ user'[u].plugin = registered'[a]} = {}
      BY <1>1
    <2> QED BY <2>2, <2>3, FS_EmptySet
  <1>9. ResidentOnOwner'
    <2> SUFFICES ASSUME NEW p \in Plugin, plugin[p].resident, releasedBy'[p] # None
                 PROVE  releasedBy'[p] = plugin[p].thread
      BY <1>1 DEF ResidentOnOwner
    <2>1. CASE p \in 1 .. begun /\ releasedBy[p] = None
      <3>1. releasedBy'[p] = t BY <1>1, <2>1, PluginRange
      <3>2. OneElement(Staged(p), Leaving(p), Published(p), ReleasedBy(p)) BY <2>1, PlaceFacts, OnePlace
      <3>3. Leaving(p) = {} BY <1>2, <2>1, NullRecords DEF Leaving
      <3>4. ReleasedBy(p) = {} BY <2>1, InternalPluginsAssumption DEF ReleasedBy
      <3>5. Staged(p) # {} \/ Published(p) # {} BY <3>2, <3>3, <3>4 DEF OneElement
      <3>6. ASSUME NEW s \in Staged(p) PROVE plugin[p].thread = t
        <4>1. s \in Thread /\ txn[s].phase = "staged" /\ txn[s].plugin = p BY DEF Staged
        <4>2. s = t BY <1>1, <4>1
        <4> QED BY <4>1, <4>2 DEF TxnsTracked
      <3>7. ASSUME NEW b \in Published(p) PROVE plugin[p].thread = t
        <4>1. b \in BundleId /\ registered[b] = p /\ p # NoPlugin BY <2>1 DEF Published
        <4>2. internal_plugin_residents[b] = p BY <4>1 DEF BackingFiled
        <4> QED BY <1>1, <4>1, <4>2 DEF ResidentAffinity
      <3> QED BY <3>1, <3>5, <3>6, <3>7
    <2>2. CASE p \in 1 .. begun /\ releasedBy[p] # None
      <3>1. releasedBy'[p] = releasedBy[p] BY <1>1, <2>2
      <3> QED BY <2>2, <3>1 DEF ResidentOnOwner
    <2>3. CASE p \notin 1 .. begun
      <3>1. p > begun BY <2>3, PluginRange
      <3>2. releasedBy[p] = None /\ ~(p <= begun) BY <3>1, PluginRange DEF RegistrationsTracked, Plugin
      <3> QED BY <1>1, <3>2
    <2> QED BY <2>1, <2>2, <2>3
  <1> QED BY <1>4, <1>5, <1>6, <1>7, <1>8, <1>9 DEF HostPart

\* A user's step keeps all but the users and the counts.
LEMMA UserHost ==
  ASSUME HostInv, UNCHANGED userOnly
  PROVE  NamesTracked' /\ PendingApart' /\ Marked' /\ AffinityKept' /\ ResidentOnOwner'
  <1>0. UNCHANGED <<begun, plugin, txn, registered, internal_plugin_lifecycle, unload, releasedBy>> BY DEF userOnly
  <1>1. Bundle' = Bundle BY <1>0 DEF Bundle
  <1> USE HostFacts
  <1>2. NamesTracked' /\ AffinityKept' /\ ResidentOnOwner' BY <1>0 DEF NamesTracked, AffinityKept, ResidentOnOwner
  <1>3. PendingApart' /\ Marked' BY <1>0, <1>1 DEF PendingApart, Unloading, Marked
  <1> QED BY <1>2, <1>3

\* A bundle is registered under its own plugin, so a plugin counts for one bundle.
LEMMA OneBundle ==
  ASSUME HostInv, NEW a \in BundleId, NEW b \in BundleId, registered[a] # NoPlugin, registered[a] = registered[b]
  PROVE  a = b
  BY HostFacts

\* begin_guest_instance_construction.
LEMMA ConstructHost ==
  ASSUME HostInv, NEW u \in User, NEW b \in BundleId, BeginConstruction(u, b)
  PROVE  UsersTracked' /\ CountExact'
  <1> USE HostFacts
  <1>1. /\ user[u].phase = "out" /\ registered[b] # NoPlugin
        /\ instance_counts' = [instance_counts EXCEPT ![b] = instance_counts[b] + 1]
        /\ user' = [user EXCEPT ![u] = [phase |-> "constructing", plugin |-> registered[b]]]
        /\ UNCHANGED <<begun, plugin, registered>>
    BY DEF BeginConstruction, userOnly
  <1>2. /\ user'[u].phase = "constructing" /\ user'[u].plugin = registered[b]
        /\ \A v \in User \ {u} : user'[v] = user[v]
    BY <1>1 DEF TypeOK
  <1>3. Bundle' = Bundle BY <1>1 DEF Bundle
  <1>4. UsersTracked' BY <1>1, <1>2, <1>3 DEF UsersTracked
  <1>5. ASSUME NEW a \in InternalBundle \ LoaderBundle
        PROVE  instance_counts'[a] = Cardinality(Counted(a)')
    <2>1. /\ IsFiniteSet(Counted(a)) /\ instance_counts[a] = Cardinality(Counted(a))
          /\ a \in BundleId /\ instance_counts[a] \in Nat
      BY CountedFacts
    <2>2. CASE a = b
      <3>1. Counted(a)' = Counted(a) \cup {u} BY <1>1, <1>2, <2>2 DEF Counted
      <3>2. u \notin Counted(a) BY <1>1 DEF Counted
      <3>3. Cardinality(Counted(a) \cup {u}) = Cardinality(Counted(a)) + 1 BY <2>1, <3>2, FS_AddElement
      <3>4. instance_counts'[a] = instance_counts[a] + 1 BY <1>1, <2>1, <2>2 DEF TypeOK
      <3> QED BY <2>1, <3>1, <3>3, <3>4
    <2>3. CASE a # b
      <3>1. registered[a] # NoPlugin => registered[a] # registered[b] BY <2>1, <2>3, OneBundle
      <3>2. Counted(a)' = Counted(a) BY <1>1, <1>2, <3>1 DEF Counted
      <3>3. instance_counts'[a] = instance_counts[a] BY <1>1, <2>1, <2>3 DEF TypeOK
      <3> QED BY <2>1, <3>2, <3>3
    <2> QED BY <2>2, <2>3
  <1>6. CountExact' BY <1>5, Zenon DEF CountExact, Counted
  <1> QED BY <1>4, <1>6

\* An instance that is gone no longer counts.
LEMMA GoneHost ==
  ASSUME HostInv, NamesApart, NEW u \in User, user[u].phase # "out",
         NoteInstanceDestroyed(Bundle[user[u].plugin]),
         user' = [user EXCEPT ![u] = [phase |-> "out", plugin |-> NoPlugin]],
         UNCHANGED userOnly
  PROVE  UsersTracked' /\ CountExact'
  <1> DEFINE p == user[u].plugin
             b == Bundle[user[u].plugin]
  <1> USE HostFacts
  <1>1. UNCHANGED <<begun, plugin, registered>> BY DEF userOnly
  <1>2. user'[u].phase = "out" /\ \A v \in User \ {u} : user'[v] = user[v] BY DEF TypeOK
  <1>3. Bundle' = Bundle BY <1>1 DEF Bundle
  <1>4. UsersTracked' BY <1>1, <1>2, <1>3 DEF UsersTracked
  <1>5. ASSUME NEW a \in InternalBundle \ LoaderBundle
        PROVE  instance_counts'[a] = Cardinality(Counted(a)')
    <2>1. /\ IsFiniteSet(Counted(a)) /\ instance_counts[a] = Cardinality(Counted(a))
          /\ a \in BundleId /\ instance_counts[a] \in Nat
      BY CountedFacts
    <2>2. Counted(a)' = Counted(a) \ {u} BY <1>1, <1>2 DEF Counted
    <2>3. CASE a = b
      <3>1. plugin[p].internal
        <4>1. p \in 1 .. begun /\ plugin[p].bundle_id = a BY <2>3, BundleFacts
        <4> QED BY <4>1 DEF NamesTracked
      <3>2. u \in Counted(a) /\ instance_counts[a] > 0 BY <2>3, <3>1, UsedFacts
      <3>3. Cardinality(Counted(a) \ {u}) = Cardinality(Counted(a)) - 1 BY <2>1, <3>2, FS_RemoveElement
      <3>4. instance_counts'[a] = instance_counts[a] - 1 BY <2>1, <2>3, <3>2, NoteFacts
      <3> QED BY <2>1, <2>2, <3>3, <3>4
    <2>4. CASE a # b
      <3>1. u \notin Counted(a) BY <2>1, <2>4 DEF Counted
      <3>2. Counted(a)' = Counted(a) BY <2>2, <3>1
      <3>3. instance_counts'[a] = instance_counts[a] BY <2>1, <2>4, NoteFacts
      <3> QED BY <2>1, <3>2, <3>3
    <2> QED BY <2>3, <2>4
  <1>6. CountExact' BY <1>5, Zenon DEF CountExact, Counted
  <1> QED BY <1>4, <1>6

\* An instance stays, or one that is not counted is gone.
LEMMA UncountedHost ==
  ASSUME HostInv, NamesApart, NEW u \in User, Constructed(u) \/ DestroyInstance(u)
  PROVE  UsersTracked' /\ CountExact'
  <1> DEFINE p == user[u].plugin
  <1> USE HostFacts
  <1>1. UNCHANGED <<begun, plugin, registered, instance_counts>> /\ user[u].phase # "out"
    BY DEF Constructed, DestroyInstance, userOnly
  <1>2. /\ \A v \in User \ {u} : user'[v] = user[v]
        /\ \/ user'[u].phase # "out" /\ user'[u].plugin = p
           \/ user'[u].phase = "out" /\ registered[Bundle[p]] # p
    <2>1. user \in [User -> [phase : {"out", "constructing", "live", "noting"}, plugin : Plugin \cup {NoPlugin}]]
      BY DEF TypeOK
    <2>2. CASE Constructed(u) BY <2>1, <2>2 DEF Constructed
    <2>3. CASE DestroyInstance(u)
      <3>1. user' = [user EXCEPT ![u] = IF registered[Bundle[p]] = p THEN [phase |-> "noting", plugin |-> p]
                                        ELSE [phase |-> "out", plugin |-> NoPlugin]]
        BY <2>3 DEF DestroyInstance
      <3>2. CASE registered[Bundle[p]] = p
        <4>1. user'[u] = [phase |-> "noting", plugin |-> p] BY <2>1, <3>1, <3>2
        <4> QED BY <2>1, <3>1, <4>1
      <3>3. CASE registered[Bundle[p]] # p
        <4>1. user'[u] = [phase |-> "out", plugin |-> NoPlugin] BY <2>1, <3>1, <3>3
        <4> QED BY <2>1, <3>1, <3>3, <4>1
      <3> QED BY <3>2, <3>3
    <2> QED BY <2>2, <2>3
  <1>3. Bundle' = Bundle BY <1>1 DEF Bundle
  <1>4. UsersTracked' BY <1>1, <1>2, <1>3 DEF UsersTracked
  <1>5. ASSUME NEW a \in InternalBundle \ LoaderBundle
        PROVE  instance_counts'[a] = Cardinality(Counted(a)')
    <2>1. instance_counts[a] = Cardinality(Counted(a)) /\ a \in BundleId BY CountedFacts
    <2>2. CASE user'[u].phase # "out" /\ user'[u].plugin = p
      <3>1. Counted(a)' = Counted(a) BY <1>1, <1>2, <2>2 DEF Counted
      <3> QED BY <1>1, <2>1, <3>1
    <2>3. CASE user'[u].phase = "out" /\ registered[Bundle[p]] # p
      <3>1. u \notin Counted(a) BY <2>1, <2>3 DEF Counted
      <3>2. Counted(a)' = Counted(a) BY <1>1, <1>2, <2>3, <3>1 DEF Counted
      <3> QED BY <1>1, <2>1, <3>2
    <2> QED BY <1>2, <2>2, <2>3
  <1>6. CountExact' BY <1>5, Zenon DEF CountExact, Counted
  <1> QED BY <1>4, <1>6

\* Every step keeps the invariant of such a host.
LEMMA HostStep ==
  ASSUME Disciplined, NamesApart
  PROVE  HostInv /\ [Next]_vars => HostInv'
  <1> SUFFICES ASSUME HostInv, [Next]_vars PROVE HostInv' OBVIOUS
  <1>0. BackingInv' BY BackingStep, HostFacts
  <1> SUFFICES HostPart' BY <1>0 DEF HostPart, HostInv
  <1>1. ASSUME NEW t \in Thread, ThreadStep(t) PROVE HostPart'
    <2>1. ASSUME NEW b \in InternalBundle, NEW generated \in BOOLEAN, BeginInternalPlugin(t, b, generated) PROVE HostPart'
      BY <2>1, BeginHost
    <2>2. CASE AttachResident(t) BY <2>2, AttachHost
    <2>3. CASE AbortInternalPlugin(t) \/ CommitFails(t) \/ CommitRemovesMarker(t) BY <2>3, GivenUpHost
    <2>4. CASE CommitPublishes(t) BY <2>4, CommitHost
    <2>5. CASE InsertRoot(t) BY <2>5, RootHost
    <2>6. ASSUME NEW b \in LoaderBundle, LoadBundle(t, b) PROVE HostPart' BY <2>6, LoadHost
    <2>7. ASSUME NEW b \in BundleId, UnloadChecks(t, b) PROVE HostPart' BY <2>7, UnloadingHost
    <2>8. CASE UnloadLocks(t) BY <2>8, UnloadingHost
    <2>9. CASE UnloadRefused(t) \/ UnloadReleases(t) BY <2>9, UnloadedHost
    <2>10. CASE UnloadInvalidates(t) BY <2>10, InvalidatesHost
    <2>11. CASE DestroyRuntime(t) BY <2>11, DestroyHost
    <2> QED BY <1>1, <2>1, <2>2, <2>3, <2>4, <2>5, <2>6, <2>7, <2>8, <2>9, <2>10, <2>11 DEF ThreadStep
  <1>2. ASSUME NEW u \in User, UserStep(u) PROVE HostPart'
    <2>1. UNCHANGED userOnly BY <1>2, UserLedger, HostFacts
    <2>2. NamesTracked' /\ PendingApart' /\ Marked' /\ AffinityKept' /\ ResidentOnOwner' BY <2>1, UserHost
    <2>3. ASSUME NEW b \in BundleId, BeginConstruction(u, b) PROVE UsersTracked' /\ CountExact' BY <2>3, ConstructHost
    <2>4. ASSUME Constructed(u) \/ DestroyInstance(u) PROVE UsersTracked' /\ CountExact' BY <2>4, UncountedHost
    <2>5. ASSUME CancelConstruction(u) \/ NoteDestroyed(u) PROVE UsersTracked' /\ CountExact'
      <3>1. /\ user[u].phase # "out" /\ NoteInstanceDestroyed(Bundle[user[u].plugin])
            /\ user' = [user EXCEPT ![u] = [phase |-> "out", plugin |-> NoPlugin]]
        BY <2>5 DEF CancelConstruction, NoteDestroyed
      <3> QED BY <2>1, <3>1, GoneHost
    <2> QED BY <1>2, <2>2, <2>3, <2>4, <2>5 DEF UserStep, HostPart
  <1>3. CASE UNCHANGED vars
    <2>1. UNCHANGED userOnly /\ UNCHANGED <<user, instance_counts>> BY <1>3 DEF vars, userOnly
    <2>2. NamesTracked' /\ PendingApart' /\ Marked' /\ AffinityKept' /\ ResidentOnOwner' BY <2>1, UserHost
    <2>3. Bundle' = Bundle BY <1>3 DEF vars, Bundle
    <2>4. UsersTracked' /\ CountExact' BY <1>3, <2>3, HostFacts DEF vars, UsersTracked, CountExact
    <2> QED BY <2>2, <2>4 DEF HostPart
  <1> QED BY <1>1, <1>2, <1>3 DEF Next

\* It holds at the start.
LEMMA HostInit == Init => HostInv
  <1> SUFFICES ASSUME Init PROVE HostInv OBVIOUS
  <1>1. BackingInv BY BackingInit
  <1>2. NamesTracked /\ ResidentOnOwner BY DEF Init, NamesTracked, ResidentOnOwner
  <1>3. PendingApart /\ Marked BY NullRecords DEF Init, PendingApart, Marked
  <1>4. AffinityKept BY NullRecords DEF Init, AffinityKept
  <1>5. UsersTracked BY DEF Init, UsersTracked
  <1>6. CountExact
    <2> SUFFICES ASSUME NEW b \in InternalBundle \ LoaderBundle
                 PROVE  instance_counts[b] =
                          Cardinality({u \in User : /\ user[u].phase # "out" /\ registered[b] # NoPlugin
                                                    /\ user[u].plugin = registered[b]})
      BY DEF CountExact
    <2>1. instance_counts[b] = 0 BY DEF Init, BundleId
    <2>2. {u \in User : user[u].phase # "out" /\ registered[b] # NoPlugin /\ user[u].plugin = registered[b]} = {}
      BY DEF Init
    <2> QED BY <2>1, <2>2, FS_EmptySet
  <1> QED BY <1>1, <1>2, <1>3, <1>4, <1>5, <1>6 DEF HostInv

\* Under a host that keeps lifecycle calls for one bundle apart and its plugins'
\* names apart from those of bundles, markers, counts, users and affinity stay in step.
THEOREM HostInvariant ==
  ASSUME Disciplined, NamesApart
  PROVE  Spec => []HostInv
  <1>1. Init => HostInv BY HostInit
  <1>2. HostInv /\ [Next]_vars => HostInv' BY HostStep
  <1> QED BY <1>1, <1>2, PTL DEF Spec

\* Under such a host the count of an internal bundle is the number of its
\* constructors and instances (instance_counts).
THEOREM CountsExact ==
  ASSUME Disciplined, NamesApart
  PROVE  Spec => []CountExact
  <1>1. HostInv => CountExact BY DEF HostInv
  <1>2. Spec => []HostInv BY HostInvariant
  <1> QED BY <1>1, <1>2, PTL

\* Under such a host a resident is released on the thread that owns it
\* (InternalPluginResident::release).
THEOREM ResidentsOnOwner ==
  ASSUME Disciplined, NamesApart
  PROVE  Spec => []ResidentOnOwner
  <1>1. HostInv => ResidentOnOwner BY DEF HostInv
  <1>2. Spec => []HostInv BY HostInvariant
  <1> QED BY <1>1, <1>2, PTL

\* Under such a host the backing of an internal plugin outlives its constructors
\* and instances (host_create_guest_instance_impl, unload_registered_bundle).
THEOREM BackingOutlivesInstances ==
  ASSUME Disciplined, NamesApart
  PROVE  Spec => []BackingAlive
  <1>1. HostInv => BackingAlive
    <2> SUFFICES ASSUME HostInv, NEW u \in User, user[u].phase \in {"constructing", "live"},
                        plugin[user[u].plugin].internal
                 PROVE  releasedBy[user[u].plugin] = None
      BY DEF BackingAlive
    <2>1. registered[Bundle[user[u].plugin]] = user[u].plugin /\ Bundle[user[u].plugin] \in BundleId
      BY UsedFacts DEF BundleId
    <2>2. user[u].plugin # NoPlugin BY HostFacts
    <2> QED BY <2>1, <2>2, HostFacts, PublishedAlone
  <1>2. Spec => []HostInv BY HostInvariant
  <1> QED BY <1>1, <1>2, PTL
=============================================================================

------------------------------ MODULE Cascade ------------------------------
(***************************************************************************)
(* The two recursive walks over the dependency relation: reload_bundle     *)
(* (reload.rs), which after a bundle reloads its dependents that opted in, *)
(* and unload_bundle_cascade (runtime.rs), which unloads the dependents of *)
(* a bundle before the bundle.                                             *)
(*                                                                         *)
(* A bundle is the rank of its name.  What one reload or unload does to the*)
(* registry and the loader is RuntimeStore's and BundleLifecycle's; here it*)
(* succeeds or fails.  The recursion is a stack of frames, each a bundle   *)
(* and the dependents it has still to visit.  Another thread may unload a  *)
(* bundle while a cascade unload runs.                                     *)
(***************************************************************************)
EXTENDS Integers, Sequences, FiniteSets, Functions, FiniteSetsExt

CONSTANTS
  Bundles,     \* number of bundles
  MaxCalls,    \* bound: calls in a behaviour
  MaxForeign   \* bound: residents of other threads

BundleId == 1 .. Bundles

ASSUME CascadeAssumption ==
  /\ Bundles \in Nat \ {0} /\ MaxCalls \in Nat /\ MaxForeign \in Nat

VARIABLES
  depends,     \* [b -> the bundles b declared a dependency on]
  reinit,      \* the bundles with needs_reinit_on_dep_reload
  foreign,     \* the bundles whose resident another thread owns
  loaded,      \* the bundles in the registry
  call,        \* the call in progress
  stack,       \* its frames, outermost first
  visited,     \* its visited set
  order,       \* the bundles it reloaded, in the order of their swaps
  failed,      \* the bundles whose reload failed in it
  outcome,     \* the last call: its kind, target and result, and what it found
  calls        \* number of calls so far

rigid == <<depends, reinit, foreign>>
vars == <<depends, reinit, foreign, loaded, call, stack, visited, order, failed, outcome, calls>>

Frame == [bundle_id : BundleId, todo : SUBSET BundleId]
Call == [kind : {"none", "reload", "unload"}, target : BundleId, found : SUBSET BundleId]
Outcome == [kind : {"none", "reload", "unload"}, target : BundleId, found : SUBSET BundleId,
            result : {"none", "ok", "failed", "not_found", "in_use", "wrong_thread"}]

TypeOK ==
  /\ depends \in [BundleId -> SUBSET BundleId]
  /\ reinit \subseteq BundleId /\ foreign \subseteq BundleId /\ loaded \subseteq BundleId
  /\ call \in Call
  /\ stack \in Seq(Frame) /\ Len(stack) <= Bundles
  /\ visited \subseteq BundleId
  /\ order \in Seq(BundleId) /\ Len(order) <= Bundles
  /\ failed \subseteq BundleId
  /\ outcome \in Outcome
  /\ calls \in 0 .. MaxCalls

-----------------------------------------------------------------------------
\* The bundles that b reaches through relation r: the least set that has b and
\* is closed under r.
Closed(r, S) == \A x \in S : r[x] \subseteq S
Reach(r, b) == {x \in BundleId : \A S \in SUBSET BundleId : b \in S /\ Closed(r, S) => x \in S}

\* Faulty variant: only the dependents that opted into reloads.
OptedIn(b) == {d \in loaded \ {b} : b \in depends[d] /\ d \in reinit}
\* bundles_depending_on_any(bundle_exported_contracts(b)), but b itself.
Dependents(b) == {d \in loaded \ {b} : b \in depends[d]}
AllDependents(b) == Reach([x \in BundleId |-> Dependents(x)], b)

Idle == call.kind = "none"
Top == stack[Len(stack)]
Running(kind) == call.kind = kind /\ stack # <<>>

Unwound == SubSeq(stack, 1, Len(stack) - 1)
Visiting(d) == [stack EXCEPT ![Len(stack)].todo = @ \ {d}]

Begin(kind, b) ==
  /\ Idle /\ calls < MaxCalls
  /\ calls' = calls + 1
  /\ call' = [kind |-> kind, target |-> b, found |-> loaded]

\* The call returns to its caller.
Return(result) ==
  /\ outcome' = [kind |-> call.kind, target |-> call.target, found |-> call.found, result |-> result]
  /\ call' = [call EXCEPT !.kind = "none"]
  /\ stack' = <<>>

-----------------------------------------------------------------------------
\* cascade_reload_dependents: the dependents of b with a manifest that opts in.
Candidates(b) == Dependents(b) \cap reinit

\* reload_bundle takes reload_serialize and reloads the bundle it names.
ReloadBundle(b) ==
  /\ Begin("reload", b) /\ b \in loaded
  /\ order' = <<b>> /\ visited' = {b} /\ failed' = {}
  /\ stack' = <<[bundle_id |-> b, todo |-> Candidates(b)]>>
  /\ UNCHANGED <<rigid, loaded, outcome>>

\* The reload of the bundle named fails: nothing was swapped, nothing cascades.
ReloadBundleFails(b) ==
  /\ Idle /\ calls < MaxCalls /\ b \in loaded
  /\ calls' = calls + 1
  /\ order' = <<>> /\ visited' = {} /\ failed' = {b}
  /\ outcome' = [kind |-> "reload", target |-> b, found |-> loaded, result |-> "failed"]
  /\ UNCHANGED <<rigid, loaded, call, stack>>

\* Candidates are taken in the order of their names.
Candidate(d) == Running("reload") /\ Top.todo # {} /\ d = Min(Top.todo)

\* Already visited: skipped.
Skipped(d) == d \in visited

\* Faulty variant: the dependents of a dependent are not visited.
CascadeOneLevel(d) ==
  /\ Candidate(d) /\ ~Skipped(d)
  /\ order' = Append(order, d) /\ visited' = visited \cup {d}
  /\ stack' = Append(Visiting(d), [bundle_id |-> d, todo |-> {}])
  /\ UNCHANGED <<rigid, loaded, call, failed, outcome, calls>>
\* The candidate reloads and, marked visited, cascades in turn.
CascadeReloads(d) ==
  /\ Candidate(d) /\ ~Skipped(d)
  /\ order' = Append(order, d) /\ visited' = visited \cup {d}
  /\ stack' = Append(Visiting(d), [bundle_id |-> d, todo |-> Candidates(d)])
  /\ UNCHANGED <<rigid, loaded, call, failed, outcome, calls>>

\* The candidate fails, which is logged: it is not visited, and the others go on.
CascadeFails(d) ==
  /\ Candidate(d) /\ ~Skipped(d)
  /\ failed' = failed \cup {d}
  /\ stack' = Visiting(d)
  /\ UNCHANGED <<rigid, loaded, call, visited, order, outcome, calls>>

\* Faulty variant: the loop does not get past a candidate it skips.
SkipStalls(d) == Candidate(d) /\ Skipped(d) /\ UNCHANGED vars
CascadeSkips(d) ==
  /\ Candidate(d) /\ Skipped(d)
  /\ stack' = Visiting(d)
  /\ UNCHANGED <<rigid, loaded, call, visited, order, failed, outcome, calls>>

ReloadReturns ==
  /\ Running("reload") /\ Top.todo = {}
  /\ IF Len(stack) > 1 THEN stack' = Unwound /\ UNCHANGED <<call, outcome>> ELSE Return("ok")
  /\ UNCHANGED <<rigid, loaded, visited, order, failed, calls>>

-----------------------------------------------------------------------------
\* Faulty variant: only the affinity of the bundle itself is checked.
TargetAffinity(b) == b \notin foreign
\* ensure_cascade_resident_affinity walks everything the cascade would unload.
CascadeAffinity(b) == AllDependents(b) \cap foreign = {}

\* unload_bundle_cascade begins with the bundle it names.
UnloadCascade(b) ==
  /\ Begin("unload", b) /\ b \in loaded /\ CascadeAffinity(b)
  /\ visited' = {b} /\ order' = <<>> /\ failed' = {}
  /\ stack' = <<[bundle_id |-> b, todo |-> Dependents(b)]>>
  /\ UNCHANGED <<rigid, loaded, outcome>>

\* InternalPluginResidentWrongThread, before anything was unloaded.
UnloadCascadeRefused(b) ==
  /\ Idle /\ calls < MaxCalls /\ b \in loaded /\ ~CascadeAffinity(b)
  /\ calls' = calls + 1
  /\ outcome' = [kind |-> "unload", target |-> b, found |-> loaded, result |-> "wrong_thread"]
  /\ visited' = {} /\ order' = <<>> /\ failed' = {}
  /\ UNCHANGED <<rigid, loaded, call, stack>>

\* The next dependent, in any order: visited, gone meanwhile, or entered.
UnloadDependent(d) ==
  /\ Running("unload") /\ d \in Top.todo
  /\ visited' = visited \cup {d}
  /\ IF d \notin visited /\ d \notin loaded
     THEN Return("not_found")
     ELSE /\ stack' = IF d \in visited THEN Visiting(d)
                      ELSE Append(Visiting(d), [bundle_id |-> d, todo |-> Dependents(d)])
          /\ UNCHANGED <<call, outcome>>
  /\ UNCHANGED <<rigid, loaded, order, failed, calls>>

\* Faulty variant: a bundle goes before its dependents.
UnloadAtOnce ==
  /\ Running("unload") /\ Top.bundle_id \notin foreign
  /\ loaded' = loaded \ {Top.bundle_id}
  /\ IF Len(stack) > 1 THEN stack' = Unwound /\ UNCHANGED <<call, outcome>> ELSE Return("ok")
  /\ UNCHANGED <<rigid, visited, order, failed, calls>>
\* unload_registered_bundle, when the dependents are gone.
UnloadRegisteredBundle ==
  /\ Running("unload") /\ Top.todo = {} /\ Top.bundle_id \notin foreign
  /\ loaded' = loaded \ {Top.bundle_id}
  /\ IF Len(stack) > 1 THEN stack' = Unwound /\ UNCHANGED <<call, outcome>> ELSE Return("ok")
  /\ UNCHANGED <<rigid, visited, order, failed, calls>>

\* The bundle is unloaded, but its loader's unload fails, which ends the cascade.
UnloadReclaimFails ==
  /\ Running("unload") /\ Top.todo = {} /\ Top.bundle_id \notin foreign
  /\ loaded' = loaded \ {Top.bundle_id}
  /\ Return("failed")
  /\ UNCHANGED <<rigid, visited, order, failed, calls>>

\* It refuses: an internal plugin in use, or a resident of another thread.  The
\* error ends the cascade; what was unloaded stays unloaded.
UnloadRefuses ==
  /\ Running("unload") /\ Top.todo = {}
  /\ Return(IF Top.bundle_id \in foreign THEN "wrong_thread" ELSE "in_use")
  /\ UNCHANGED <<rigid, loaded, visited, order, failed, calls>>

\* unload_bundle on another thread (a resident's owner, if it has one).
OtherUnload(b) ==
  /\ call.kind = "unload"
  /\ b \in loaded /\ Dependents(b) = {}
  /\ loaded' = loaded \ {b}
  /\ UNCHANGED <<rigid, call, stack, visited, order, failed, outcome, calls>>

-----------------------------------------------------------------------------
Init ==
  /\ depends \in {r \in [BundleId -> SUBSET BundleId] : \A b \in BundleId : b \notin r[b]}
  /\ reinit \in SUBSET BundleId
  /\ foreign \in {f \in SUBSET BundleId : Cardinality(f) <= MaxForeign}
  /\ loaded = BundleId
  /\ call = [kind |-> "none", target |-> 1, found |-> {}]
  /\ stack = <<>> /\ visited = {} /\ order = <<>> /\ failed = {}
  /\ outcome = [kind |-> "none", target |-> 1, found |-> {}, result |-> "none"]
  /\ calls = 0

Step ==
  \/ \E d \in BundleId : CascadeReloads(d) \/ CascadeFails(d) \/ CascadeSkips(d)
  \/ ReloadReturns
  \/ \E d \in BundleId : UnloadDependent(d)
  \/ UnloadRegisteredBundle \/ UnloadReclaimFails \/ UnloadRefuses

Next ==
  \/ \E b \in BundleId : \/ ReloadBundle(b) \/ ReloadBundleFails(b)
                         \/ UnloadCascade(b) \/ UnloadCascadeRefused(b)
                         \/ OtherUnload(b)
  \/ Step

\* The calling thread goes on with the call it is in.
Spec == Init /\ [][Next]_vars /\ WF_vars(Step)

-----------------------------------------------------------------------------
\* No bundle depends on itself through others.
IsAcyclic(r) == \A b \in BundleId : \A d \in r[b] : b \notin Reach(r, d)

\* When a reload returns, every dependent that opted in of every bundle it
\* reloaded was reloaded, or has failed to: a failure elsewhere in the cascade
\* stops nothing ("any other loaded bundle that declared a dependency ... is
\* reloaded automatically", reload_bundle).
DependentsReloaded ==
  Idle /\ outcome.kind = "reload" /\ outcome.result = "ok" =>
    \A b \in Range(order) : Candidates(b) \subseteq Range(order) \cup failed

\* No bundle is loaded whose dependency was unloaded, at any step of a cascade
\* and however it ends, unless dependencies form a cycle ("Orphaning ... is not
\* offered", UNLOAD_DESIGN.md).
NoOrphan == (\A b \in loaded : depends[b] \subseteq loaded) \/ ~IsAcyclic(depends)

\* A cascade unload that succeeds has unloaded its target and everything that
\* depended on it, directly or through others, when it began.
CascadeComplete ==
  Idle /\ outcome.kind = "unload" /\ outcome.result = "ok" =>
    LET dependents == [b \in BundleId |-> {d \in outcome.found : b \in depends[d]}]
    IN  Reach(dependents, outcome.target) \cap loaded = {}

\* A cascade refused because a resident is another thread's has unloaded
\* nothing ("Reject a cascade before its first invalidation",
\* ensure_cascade_resident_affinity).
AffinityFirst == Idle /\ outcome.result = "wrong_thread" => outcome.found \ loaded = {}

\* Every call returns, whatever the dependencies ("a dependency cycle (A->B->A)
\* terminates instead of recursing forever", reload_bundle_with_visited).
CallReturns == (call.kind # "none") ~> (call.kind = "none")

\* Not guaranteed, see the README: when a reload returns, and no dependencies
\* form a cycle, a dependent that opted in was reloaded after each dependency of
\* it that was reloaded ("needs re-initialization when a dependency is
\* hot-reloaded", manifest.rs).
ReinitializedLast ==
  Idle /\ outcome.kind = "reload" /\ IsAcyclic(depends) =>
    \A m, n \in 1 .. Len(order) :
      order[m] \in Candidates(order[n]) /\ order[m] \notin failed => m > n

-----------------------------------------------------------------------------
(***************************************************************************)
(* The inductive invariant of the proofs.                                  *)
(***************************************************************************)
Frames == 1 .. Len(stack)
OnStack == {stack[n].bundle_id : n \in Frames}

\* A call has frames, each of another bundle that the call has visited.
StackTracked ==
  /\ Idle <=> stack = <<>>
  /\ OnStack \subseteq visited
  /\ \A m, n \in Frames : stack[m].bundle_id = stack[n].bundle_id => m = n
  /\ \A m, n \in 1 .. Len(order) : order[m] = order[n] => m = n
  /\ \A b \in BundleId : b \notin depends[b]

\* A dependent that opted in was reloaded, has failed, or is still to be taken.
ReloadTracked ==
  call.kind = "reload" =>
    /\ visited = Range(order)
    /\ \A b \in Range(order) : \A d \in Candidates(b) :
         d \in Range(order) \cup failed \/ \E n \in Frames : d \in stack[n].todo

\* The dependents that bundles had when the call began.
FoundDependents == [x \in BundleId |-> {d \in call.found \ {x} : x \in depends[d]}]

\* A frame is of a bundle that every outer frame's bundle is a dependency of,
\* through others, and the dependents it no longer has to visit were visited.
FrameTracked(n) ==
  LET b == stack[n].bundle_id
  IN  /\ b \in Reach(FoundDependents, call.target)
      /\ stack[n].todo \subseteq Reach(FoundDependents, call.target)
      /\ Dependents(b) \subseteq stack[n].todo \cup visited
      /\ \A d \in stack[n].todo : b \in depends[d]
      /\ \A m \in 1 .. n : stack[m].bundle_id \in Reach(depends, b)

\* A visited bundle that is still loaded has a frame, and so has every loaded
\* dependent of a bundle that is gone.  Nothing the walk reaches is foreign.
UnloadTracked ==
  call.kind = "unload" =>
    /\ call.target \in call.found /\ stack[1].bundle_id = call.target
    /\ loaded \subseteq call.found
    /\ Reach(FoundDependents, call.target) \cap foreign = {}
    /\ visited \cap loaded \subseteq OnStack
    /\ \A x \in call.found \ loaded : Dependents(x) \subseteq OnStack
    /\ \A n \in Frames : FrameTracked(n)

WalkInv == TypeOK /\ StackTracked /\ ReloadTracked /\ UnloadTracked

\* What is left of a call: bundles it has not visited, its depth, and what its
\* innermost frame has still to visit.  Every step of the call lowers it, and what
\* other threads do leaves it as it is.
Remaining ==
  <<Cardinality(BundleId \ visited), Len(stack), IF stack = <<>> THEN 0 ELSE Cardinality(Top.todo)>>
LexLess(a, b) ==
  \/ a[1] < b[1]
  \/ a[1] = b[1] /\ a[2] < b[2]
  \/ a[1] = b[1] /\ a[2] = b[2] /\ a[3] < b[3]
StepShrinks ==
  /\ Step => LexLess(Remaining', Remaining)
  /\ ~Idle /\ ~Step => Remaining' = Remaining
=============================================================================

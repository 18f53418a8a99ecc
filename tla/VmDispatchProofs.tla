-------------------------- MODULE VmDispatchProofs --------------------------
(***************************************************************************)
(* Proofs about VmDispatch, for any number of bundles, contracts, threads  *)
(* and nested calls, and any calls that guest code makes; what waiting     *)
(* cycles there are, for calls that keep to an order of the VMs.           *)
(***************************************************************************)
EXTENDS VmDispatch, SequenceTheorems, WellFoundedInduction, TLAPS

SameCall(f, g) == f.op = g.op /\ f.contract = g.contract /\ f.id = g.id

\* Only the calls of t change.
OthersKept(t) ==
  stack' \in [Thread -> Seq(Frame)] /\ \A u \in Thread : u # t => stack'[u] = stack[u]

\* The innermost call of t goes on, as g.
Rewrites(t, g) ==
  /\ OthersKept(t) /\ ~Idle(t)
  /\ Len(stack'[t]) = Len(stack[t]) /\ stack'[t][Len(stack[t])] = g
  /\ \A n \in 1 .. Len(stack[t]) - 1 : stack'[t][n] = stack[t][n]

\* t begins call g.
Pushes(t, g) ==
  /\ OthersKept(t)
  /\ Len(stack'[t]) = Len(stack[t]) + 1 /\ stack'[t][Len(stack[t]) + 1] = g
  /\ \A n \in 1 .. Len(stack[t]) - 1 : stack'[t][n] = stack[t][n]
  /\ ~Idle(t) => stack'[t][Len(stack[t])] = [Top(t) EXCEPT !.phase = "calling"]

\* The innermost call of t ends.
Pops(t) ==
  /\ OthersKept(t) /\ ~Idle(t) /\ Len(stack'[t]) = Len(stack[t]) - 1
  /\ \A n \in 1 .. Len(stack[t]) - 2 : stack'[t][n] = stack[t][n]
  /\ \A n \in 1 .. Len(stack[t]) - 1 : n = Len(stack[t]) - 1 =>
       stack'[t][n] = IF IsPython(stack[t][n].contract) THEN stack[t][n]
                      ELSE [stack[t][n] EXCEPT !.phase = "running"]

-----------------------------------------------------------------------------
(***************************************************************************)
(* Contracts, locks and stacks.                                            *)
(***************************************************************************)

\* A contract has one loader, its locks are locks and its guard a guard.
LEMMA ContractFacts ==
  ASSUME NEW c \in Contract
  PROVE  /\ VmOf[c] \in Vm
         /\ IsLua(c) \/ IsJs(c) \/ IsPython(c)
         /\ ~(IsLua(c) /\ IsJs(c)) /\ ~(IsLua(c) /\ IsPython(c)) /\ ~(IsJs(c) /\ IsPython(c))
         /\ VmLock(c) \in Lock /\ Registry(c) \in Lock /\ DispatchLock(c) \in Lock /\ Guard(c) \in Guards
  <1>1. VmOf[c] \in Vm BY VmDispatchAssumption
  <1>2. VmLock(c) \in Lock /\ Registry(c) \in Lock /\ DispatchLock(c) \in Lock
    BY <1>1 DEF VmLock, Registry, DispatchLock, Lock
  <1>3. Guard(c) \in Guards BY <1>1 DEF Guard, Guards
  <1> QED BY <1>1, <1>2, <1>3, VmDispatchAssumption DEF Vm, IsLua, IsJs, IsPython

\* The three kinds of locks, and the locks of different contracts, are apart.
LEMMA LockFacts ==
  ASSUME NEW c \in Contract, NEW d \in Contract
  PROVE  /\ VmLock(c) # Registry(d) /\ VmLock(c) # DispatchLock(d) /\ Registry(c) # DispatchLock(d)
         /\ VmLock(c) = VmLock(d) => VmOf[c] = VmOf[d]
         /\ Registry(c) = Registry(d) => c = d
         /\ DispatchLock(c) = DispatchLock(d) => c = d
         /\ VmLock(c) # <<>> /\ Registry(c) # <<>> /\ DispatchLock(c) # <<>>
  BY DEF VmLock, Registry, DispatchLock

\* The calls of a thread.
LEMMA StackFacts ==
  ASSUME TypeOK, NEW t \in Thread
  PROVE  /\ stack[t] \in Seq(Frame) /\ Len(stack[t]) \in Nat /\ DOMAIN stack[t] = 1 .. Len(stack[t])
         /\ \A n \in 1 .. Len(stack[t]) : stack[t][n] \in Frame
         /\ Idle(t) <=> Len(stack[t]) = 0
         /\ ~Idle(t) => Len(stack[t]) \in 1 .. Len(stack[t]) /\ Top(t) \in Frame /\ Top(t).contract \in Contract
  <1>1. stack[t] \in Seq(Frame) BY DEF TypeOK
  <1>2. Len(stack[t]) \in Nat /\ DOMAIN stack[t] = 1 .. Len(stack[t]) BY <1>1
  <1>3. \A n \in 1 .. Len(stack[t]) : stack[t][n] \in Frame BY <1>1
  <1>4. Idle(t) <=> Len(stack[t]) = 0 BY <1>1 DEF Idle
  <1>5. ~Idle(t) => Len(stack[t]) \in 1 .. Len(stack[t]) BY <1>2, <1>4
  <1>6. ~Idle(t) => Top(t) \in Frame BY <1>3, <1>5 DEF Top
  <1> QED BY <1>1, <1>2, <1>3, <1>4, <1>5, <1>6 DEF Frame

\* A call in another phase.
LEMMA FrameFacts ==
  ASSUME NEW f \in Frame, NEW phase \in Phase
  PROVE  LET g == [f EXCEPT !.phase = phase]
         IN  g \in Frame /\ SameCall(g, f) /\ g.phase = phase
  BY DEF Frame, SameCall

\* An assignment to the innermost call.
LEMMA RewriteFacts ==
  ASSUME TypeOK, NEW t \in Thread, ~Idle(t), NEW g \in Frame,
         stack' = [stack EXCEPT ![t][Len(stack[t])] = g]
  PROVE  Rewrites(t, g)
  <1>1. stack \in [Thread -> Seq(Frame)] BY DEF TypeOK
  <1>2. stack[t] \in Seq(Frame) /\ Len(stack[t]) \in 1 .. Len(stack[t]) BY StackFacts
  <1>3. stack'[t] = [stack[t] EXCEPT ![Len(stack[t])] = g] BY <1>1
  <1>4. stack'[t] \in Seq(Frame) /\ Len(stack'[t]) = Len(stack[t]) BY <1>2, <1>3
  <1>5. OthersKept(t)
    <2>1. \A u \in Thread : u # t => stack'[u] = stack[u] BY <1>1
    <2>2. DOMAIN stack' = Thread BY <1>1
    <2>3. stack' = [u \in Thread |-> stack'[u]] BY <1>1
    <2>4. \A u \in Thread : stack'[u] \in Seq(Frame) BY <1>1, <1>4, <2>1
    <2> QED BY <2>1, <2>3, <2>4 DEF OthersKept
  <1>6. stack'[t][Len(stack[t])] = g BY <1>2, <1>3
  <1>7. \A n \in 1 .. Len(stack[t]) - 1 : stack'[t][n] = stack[t][n] BY <1>2, <1>3
  <1> QED BY <1>4, <1>5, <1>6, <1>7 DEF Rewrites

\* Goto.
LEMMA GotoFacts ==
  ASSUME TypeOK, NEW t \in Thread, ~Idle(t), NEW phase \in Phase, Goto(t, phase)
  PROVE  \E g \in Frame : Rewrites(t, g) /\ SameCall(g, Top(t)) /\ g.phase = phase
  <1>1. Top(t) \in Frame BY StackFacts
  <1>2. PICK g : g = [Top(t) EXCEPT !.phase = phase] OBVIOUS
  <1>3. g \in Frame /\ SameCall(g, Top(t)) /\ g.phase = phase BY <1>1, <1>2, FrameFacts
  <1>4. stack' = [stack EXCEPT ![t][Len(stack[t])] = g] BY <1>2 DEF Goto, Top
  <1>5. Rewrites(t, g) BY <1>3, <1>4, RewriteFacts
  <1> QED BY <1>3, <1>5

\* Push.
LEMMA PushFacts ==
  ASSUME TypeOK, NEW t \in Thread, NEW op \in Op, NEW c \in Contract, NEW id \in Nat, Push(t, op, c, id)
  PROVE  \E g \in Frame : Pushes(t, g) /\ g.op = op /\ g.contract = c /\ g.id = id /\ g.phase = "entered"
  <1>1. PICK g : g = [op |-> op, contract |-> c, id |-> id, object |-> DefaultImpl, phase |-> "entered"] OBVIOUS
  <1>2. g \in Frame /\ g.op = op /\ g.contract = c /\ g.id = id /\ g.phase = "entered"
    BY <1>1 DEF Frame, Phase, DefaultImpl
  <1>3. stack \in [Thread -> Seq(Frame)] /\ stack[t] \in Seq(Frame) /\ Len(stack[t]) \in Nat BY StackFacts DEF TypeOK
  <1>4. PICK below : below = IF Idle(t) THEN <<>> ELSE [stack[t] EXCEPT ![Len(stack[t])].phase = "calling"] OBVIOUS
  <1>5. stack' = [stack EXCEPT ![t] = Append(below, g)] BY <1>1, <1>4, Zenon DEF Push
  <1>6. /\ below \in Seq(Frame) /\ Len(below) = Len(stack[t])
        /\ \A n \in 1 .. Len(stack[t]) - 1 : below[n] = stack[t][n]
        /\ ~Idle(t) => below[Len(stack[t])] = [Top(t) EXCEPT !.phase = "calling"]
    <2>1. CASE Idle(t)
      <3>1. Len(stack[t]) = 0 BY <2>1, StackFacts
      <3> QED BY <1>4, <2>1, <3>1
    <2>2. CASE ~Idle(t)
      <3>1. Len(stack[t]) \in 1 .. Len(stack[t]) /\ Top(t) \in Frame BY <2>2, StackFacts
      <3>2. PICK k : k = [Top(t) EXCEPT !.phase = "calling"] OBVIOUS
      <3>3. k \in Frame BY <3>1, <3>2, FrameFacts DEF Phase
      <3>4. below = [stack[t] EXCEPT ![Len(stack[t])] = k] BY <1>4, <2>2, <3>2 DEF Top
      <3>5. below \in Seq(Frame) /\ Len(below) = Len(stack[t]) BY <1>3, <3>1, <3>3, <3>4
      <3>6. below[Len(stack[t])] = k BY <1>3, <3>1, <3>4
      <3>7. \A n \in 1 .. Len(stack[t]) - 1 : below[n] = stack[t][n] BY <1>3, <3>1, <3>4
      <3> QED BY <3>2, <3>5, <3>6, <3>7
    <2> QED BY <2>1, <2>2
  <1>7. /\ Append(below, g) \in Seq(Frame) /\ Len(Append(below, g)) = Len(stack[t]) + 1
        /\ Append(below, g)[Len(stack[t]) + 1] = g
        /\ \A n \in 1 .. Len(stack[t]) : Append(below, g)[n] = below[n]
    BY <1>2, <1>3, <1>6
  <1>8. stack'[t] = Append(below, g) BY <1>3, <1>5
  <1>9. OthersKept(t) BY <1>3, <1>5, <1>7 DEF OthersKept
  <1>10. ~Idle(t) => Len(stack[t]) \in 1 .. Len(stack[t]) BY StackFacts
  <1>11. Pushes(t, g) BY <1>3, <1>6, <1>7, <1>8, <1>9, <1>10 DEF Pushes
  <1> QED BY <1>2, <1>11

\* Return.
LEMMA ReturnFacts ==
  ASSUME TypeOK, NEW t \in Thread, ~Idle(t), Return(t)
  PROVE  Pops(t)
  <1>1. /\ stack \in [Thread -> Seq(Frame)] /\ stack[t] \in Seq(Frame) /\ Len(stack[t]) \in Nat
        /\ Len(stack[t]) \in 1 .. Len(stack[t])
    BY StackFacts DEF TypeOK
  <1>2. PICK below : below = SubSeq(stack[t], 1, Len(stack[t]) - 1) OBVIOUS
  <1>3. /\ below \in Seq(Frame) /\ Len(below) = Len(stack[t]) - 1
        /\ \A n \in 1 .. Len(stack[t]) - 1 : below[n] = stack[t][n]
    <2>0. Len(stack[t]) - 1 \in Nat BY <1>1
    <2>1. PICK m \in Nat : m = Len(stack[t]) - 1 BY <2>0
    <2>2. \A n \in 1 .. m : stack[t][n] \in Frame BY <1>1, <2>1
    <2>3. /\ SubSeq(stack[t], 1, m) \in Seq(Frame) /\ Len(SubSeq(stack[t], 1, m)) = m
          /\ \A n \in 1 .. m : SubSeq(stack[t], 1, m)[n] = stack[t][n]
      <3>1. /\ SubSeq(stack[t], 1, m) \in Seq(Frame)
            /\ Len(SubSeq(stack[t], 1, m)) = IF 1 <= m THEN m - 1 + 1 ELSE 0
            /\ \A n \in 1 .. m - 1 + 1 : SubSeq(stack[t], 1, m)[n] = stack[t][1 + n - 1]
        BY <2>2, SubSeqProperties
      <3> QED BY <3>1
    <2> QED BY <1>2, <2>1, <2>3
  <1>4. PICK s : s = IF Len(below) = 0 \/ IsPython(below[Len(below)].contract) THEN below
                     ELSE [below EXCEPT ![Len(below)].phase = "running"]
    OBVIOUS
  <1>5. stack' = [stack EXCEPT ![t] = s] BY <1>2, <1>4, Zenon DEF Return
  <1>6. /\ s \in Seq(Frame) /\ Len(s) = Len(stack[t]) - 1
        /\ \A n \in 1 .. Len(stack[t]) - 2 : s[n] = stack[t][n]
        /\ \A n \in 1 .. Len(stack[t]) - 1 : n = Len(stack[t]) - 1 =>
             s[n] = IF IsPython(stack[t][n].contract) THEN stack[t][n]
                    ELSE [stack[t][n] EXCEPT !.phase = "running"]
    <2>1. CASE Len(below) = 0 BY <1>1, <1>3, <1>4, <2>1
    <2>2. CASE Len(below) # 0 /\ IsPython(below[Len(below)].contract)
      <3>1. s = below BY <1>4, <2>2
      <3> QED BY <1>1, <1>3, <2>2, <3>1
    <2>3. CASE Len(below) # 0 /\ ~IsPython(below[Len(below)].contract)
      <3>1. Len(below) \in 1 .. Len(below) /\ below[Len(below)] \in Frame BY <1>1, <1>3, <2>3
      <3>2. PICK k : k = [below[Len(below)] EXCEPT !.phase = "running"] OBVIOUS
      <3>3. k \in Frame BY <3>1, <3>2, FrameFacts DEF Phase
      <3>4. s = [below EXCEPT ![Len(below)] = k] BY <1>4, <2>3, <3>2
      <3>5. s \in Seq(Frame) /\ Len(s) = Len(below) /\ s[Len(below)] = k BY <1>3, <3>1, <3>3, <3>4
      <3>6. \A n \in 1 .. Len(below) - 1 : s[n] = below[n] BY <1>3, <3>1, <3>4
      <3>7. below[Len(below)] = stack[t][Len(stack[t]) - 1] BY <1>1, <1>3, <3>1
      <3>8. \A n \in 1 .. Len(stack[t]) - 2 : s[n] = stack[t][n] BY <1>1, <1>3, <3>6
      <3> QED BY <1>3, <2>3, <3>2, <3>5, <3>7, <3>8
    <2> QED BY <2>1, <2>2, <2>3
  <1>7. stack'[t] = s BY <1>1, <1>5
  <1>8. OthersKept(t) BY <1>1, <1>5, <1>6 DEF OthersKept
  <1> QED BY <1>6, <1>7, <1>8 DEF Pops

-----------------------------------------------------------------------------
(***************************************************************************)
(* Shape of the stacks.                                                    *)
(***************************************************************************)

\* The calls of all threads, in the next state.
LEMMA NextStackFacts ==
  ASSUME stack' \in [Thread -> Seq(Frame)], NEW t \in Thread
  PROVE  Len(stack'[t]) \in Nat /\ DOMAIN stack'[t] = 1 .. Len(stack'[t])
         /\ \A n \in 1 .. Len(stack'[t]) : stack'[t][n] \in Frame
  OBVIOUS

\* The innermost call goes on.
LEMMA RewriteShape ==
  ASSUME TypeOK, StackShape, NEW t \in Thread, NEW g \in Frame, Rewrites(t, g), WellFormed(g), g.phase # "calling"
  PROVE  StackShape' /\ \A u \in Thread : Len(stack'[u]) <= MaxDepth
  <1>1. /\ \A u \in Thread : u # t => stack'[u] = stack[u]
        /\ Len(stack'[t]) = Len(stack[t]) /\ stack'[t][Len(stack[t])] = g
        /\ \A n \in 1 .. Len(stack[t]) - 1 : stack'[t][n] = stack[t][n]
    BY DEF Rewrites, OthersKept
  <1>2. Len(stack[t]) \in Nat BY StackFacts
  <1>3. ASSUME NEW n \in 1 .. Len(stack'[t])
        PROVE  /\ WellFormed(stack'[t][n])
               /\ n < Len(stack'[t]) => stack'[t][n].phase = "calling"
               /\ n = Len(stack'[t]) /\ stack'[t][n].phase = "calling" => IsPython(stack'[t][n].contract)
    <2>1. CASE n = Len(stack[t]) BY <1>1, <1>2, <2>1
    <2>2. CASE n \in 1 .. Len(stack[t]) - 1 BY <1>1, <1>2, <2>2 DEF StackShape
    <2> QED BY <1>1, <1>2, <2>1, <2>2
  <1>4. ASSUME NEW u \in Thread, u # t, NEW n \in 1 .. Len(stack'[u])
        PROVE  /\ WellFormed(stack'[u][n])
               /\ n < Len(stack'[u]) => stack'[u][n].phase = "calling"
               /\ n = Len(stack'[u]) /\ stack'[u][n].phase = "calling" => IsPython(stack'[u][n].contract)
    BY <1>1, <1>4 DEF StackShape
  <1>5. \A u \in Thread : Len(stack'[u]) <= MaxDepth BY <1>1 DEF TypeOK
  <1> QED BY <1>3, <1>4, <1>5 DEF StackShape, WellFormed

\* A call begins.
LEMMA PushShape ==
  ASSUME TypeOK, StackShape, NEW t \in Thread, NEW g \in Frame, Pushes(t, g), g.phase = "entered",
         ~Idle(t) => Top(t).phase = "running", Len(stack[t]) < MaxDepth
  PROVE  StackShape' /\ \A u \in Thread : Len(stack'[u]) <= MaxDepth
  <1>1. /\ \A u \in Thread : u # t => stack'[u] = stack[u]
        /\ Len(stack'[t]) = Len(stack[t]) + 1 /\ stack'[t][Len(stack[t]) + 1] = g
        /\ \A n \in 1 .. Len(stack[t]) - 1 : stack'[t][n] = stack[t][n]
        /\ ~Idle(t) => stack'[t][Len(stack[t])] = [Top(t) EXCEPT !.phase = "calling"]
    BY DEF Pushes, OthersKept
  <1>2. /\ Len(stack[t]) \in Nat /\ (Idle(t) <=> Len(stack[t]) = 0)
        /\ ~Idle(t) => Len(stack[t]) \in 1 .. Len(stack[t]) /\ Top(t) \in Frame
    BY StackFacts
  <1>3. ASSUME NEW n \in 1 .. Len(stack'[t])
        PROVE  /\ WellFormed(stack'[t][n])
               /\ n < Len(stack'[t]) => stack'[t][n].phase = "calling"
               /\ n = Len(stack'[t]) /\ stack'[t][n].phase = "calling" => IsPython(stack'[t][n].contract)
    <2>1. CASE n = Len(stack[t]) + 1 BY <1>1, <1>2, <2>1 DEF WellFormed
    <2>2. CASE n = Len(stack[t])
      <3>1. ~Idle(t) /\ Len(stack[t]) \in 1 .. Len(stack[t]) BY <1>2, <2>2
      <3>2. PICK k : k = [Top(t) EXCEPT !.phase = "calling"] OBVIOUS
      <3>3. k \in Frame /\ SameCall(k, Top(t)) /\ k.phase = "calling" BY <1>2, <3>1, <3>2, FrameFacts DEF Phase
      <3>4. WellFormed(Top(t)) /\ Top(t).phase = "running" BY <3>1 DEF StackShape, Top
      <3>5. WellFormed(k) BY <3>3, <3>4 DEF WellFormed, SameCall
      <3>6. stack'[t][n] = k BY <1>1, <2>2, <3>1, <3>2
      <3> QED BY <1>1, <1>2, <2>2, <3>3, <3>5, <3>6
    <2>3. CASE n \in 1 .. Len(stack[t]) - 1 BY <1>1, <1>2, <2>3 DEF StackShape
    <2> QED BY <1>1, <1>2, <2>1, <2>2, <2>3
  <1>4. ASSUME NEW u \in Thread, u # t, NEW n \in 1 .. Len(stack'[u])
        PROVE  /\ WellFormed(stack'[u][n])
               /\ n < Len(stack'[u]) => stack'[u][n].phase = "calling"
               /\ n = Len(stack'[u]) /\ stack'[u][n].phase = "calling" => IsPython(stack'[u][n].contract)
    BY <1>1, <1>4 DEF StackShape
  <1>5. \A u \in Thread : Len(stack'[u]) <= MaxDepth BY <1>1, <1>2, VmDispatchAssumption DEF TypeOK
  <1> QED BY <1>3, <1>4, <1>5 DEF StackShape, WellFormed

\* A call ends.
LEMMA PopShape ==
  ASSUME TypeOK, StackShape, NEW t \in Thread, Pops(t)
  PROVE  StackShape' /\ \A u \in Thread : Len(stack'[u]) <= MaxDepth
  <1>1. /\ \A u \in Thread : u # t => stack'[u] = stack[u]
        /\ ~Idle(t) /\ Len(stack'[t]) = Len(stack[t]) - 1
        /\ \A n \in 1 .. Len(stack[t]) - 2 : stack'[t][n] = stack[t][n]
        /\ \A n \in 1 .. Len(stack[t]) - 1 : n = Len(stack[t]) - 1 =>
             stack'[t][n] = IF IsPython(stack[t][n].contract) THEN stack[t][n]
                            ELSE [stack[t][n] EXCEPT !.phase = "running"]
    BY DEF Pops, OthersKept
  <1>2. Len(stack[t]) \in Nat /\ Len(stack[t]) \in 1 .. Len(stack[t]) /\ \A n \in 1 .. Len(stack[t]) : stack[t][n] \in Frame
    BY <1>1, StackFacts
  <1>3. ASSUME NEW n \in 1 .. Len(stack'[t])
        PROVE  /\ WellFormed(stack'[t][n])
               /\ n < Len(stack'[t]) => stack'[t][n].phase = "calling"
               /\ n = Len(stack'[t]) /\ stack'[t][n].phase = "calling" => IsPython(stack'[t][n].contract)
    <2>1. n \in 1 .. Len(stack[t]) /\ n < Len(stack[t]) BY <1>1, <1>2
    <2>2. WellFormed(stack[t][n]) /\ stack[t][n].phase = "calling" /\ stack[t][n] \in Frame BY <1>2, <2>1 DEF StackShape
    <2>3. CASE n = Len(stack[t]) - 1
      <3>1. CASE IsPython(stack[t][n].contract) BY <1>1, <2>2, <2>3, <3>1
      <3>2. CASE ~IsPython(stack[t][n].contract)
        <4>1. PICK k : k = [stack[t][n] EXCEPT !.phase = "running"] OBVIOUS
        <4>2. k \in Frame /\ SameCall(k, stack[t][n]) /\ k.phase = "running" BY <2>2, <4>1, FrameFacts DEF Phase
        <4>3. WellFormed(k) BY <2>2, <4>2 DEF WellFormed, SameCall
        <4>4. stack'[t][n] = k BY <1>1, <2>3, <3>2, <4>1
        <4> QED BY <1>1, <2>3, <4>2, <4>3, <4>4
      <3> QED BY <3>1, <3>2
    <2>4. CASE n \in 1 .. Len(stack[t]) - 2
      <3>1. stack'[t][n] = stack[t][n] BY <1>1, <2>4
      <3> QED BY <1>1, <1>2, <2>2, <2>4, <3>1
    <2> QED BY <1>1, <1>2, <2>3, <2>4
  <1>4. ASSUME NEW u \in Thread, u # t, NEW n \in 1 .. Len(stack'[u])
        PROVE  /\ WellFormed(stack'[u][n])
               /\ n < Len(stack'[u]) => stack'[u][n].phase = "calling"
               /\ n = Len(stack'[u]) /\ stack'[u][n].phase = "calling" => IsPython(stack'[u][n].contract)
    BY <1>1, <1>4 DEF StackShape
  <1>5. \A u \in Thread : Len(stack'[u]) <= MaxDepth
    <2>1. Len(stack[t]) <= MaxDepth /\ MaxDepth \in Nat BY VmDispatchAssumption DEF TypeOK
    <2>2. Len(stack'[t]) <= MaxDepth BY <1>1, <1>2, <2>1
    <2> QED BY <1>1, <2>2 DEF TypeOK
  <1> QED BY <1>3, <1>4, <1>5 DEF StackShape, WellFormed

-----------------------------------------------------------------------------
(***************************************************************************)
(* Guards.                                                                 *)
(***************************************************************************)

\* The calls that stay keep their operation, contract and id.
LEMMA RewriteCalls ==
  ASSUME TypeOK, NEW t \in Thread, NEW g \in Frame, Rewrites(t, g), SameCall(g, Top(t))
  PROVE  \A u \in Thread : /\ Len(stack'[u]) = Len(stack[u])
                           /\ \A n \in 1 .. Len(stack[u]) : SameCall(stack'[u][n], stack[u][n])
  <1>1. Len(stack[t]) \in Nat BY StackFacts
  <1>2. \A n \in 1 .. Len(stack[t]) : SameCall(stack'[t][n], stack[t][n])
    <2> SUFFICES ASSUME NEW n \in 1 .. Len(stack[t]) PROVE SameCall(stack'[t][n], stack[t][n]) OBVIOUS
    <2>1. CASE n = Len(stack[t]) BY <2>1 DEF Rewrites, Top
    <2>2. CASE n \in 1 .. Len(stack[t]) - 1 BY <2>2 DEF Rewrites, SameCall
    <2> QED BY <1>1, <2>1, <2>2
  <1> QED BY <1>2 DEF Rewrites, OthersKept, SameCall

\* The same when a call begins.
LEMMA PushCalls ==
  ASSUME TypeOK, NEW t \in Thread, NEW g \in Frame, Pushes(t, g)
  PROVE  /\ \A n \in 1 .. Len(stack[t]) : SameCall(stack'[t][n], stack[t][n])
         /\ Len(stack[t]) \in Nat
  <1>1. Len(stack[t]) \in Nat /\ (Idle(t) <=> Len(stack[t]) = 0) /\ (~Idle(t) => Top(t) \in Frame) BY StackFacts
  <1>2. \A n \in 1 .. Len(stack[t]) : SameCall(stack'[t][n], stack[t][n])
    <2> SUFFICES ASSUME NEW n \in 1 .. Len(stack[t]) PROVE SameCall(stack'[t][n], stack[t][n]) OBVIOUS
    <2>1. CASE n = Len(stack[t])
      <3>1. ~Idle(t) BY <1>1
      <3>2. SameCall([Top(t) EXCEPT !.phase = "calling"], Top(t)) BY <1>1, <3>1, FrameFacts DEF Phase
      <3>3. stack'[t][n] = [Top(t) EXCEPT !.phase = "calling"] /\ stack[t][n] = Top(t) BY <2>1, <3>1 DEF Pushes, Top
      <3> QED BY <3>2, <3>3
    <2>2. CASE n \in 1 .. Len(stack[t]) - 1 BY <2>2 DEF Pushes, SameCall
    <2> QED BY <1>1, <2>1, <2>2
  <1> QED BY <1>1, <1>2

\* The same when a call ends.
LEMMA PopCalls ==
  ASSUME TypeOK, NEW t \in Thread, Pops(t)
  PROVE  /\ \A n \in 1 .. Len(stack[t]) - 1 : SameCall(stack'[t][n], stack[t][n])
         /\ Len(stack[t]) \in Nat /\ Len(stack[t]) \in 1 .. Len(stack[t])
  <1>0. ~Idle(t) BY DEF Pops
  <1>1. Len(stack[t]) \in Nat /\ Len(stack[t]) \in 1 .. Len(stack[t]) /\ \A n \in 1 .. Len(stack[t]) : stack[t][n] \in Frame
    BY <1>0, StackFacts
  <1>2. \A n \in 1 .. Len(stack[t]) - 1 : SameCall(stack'[t][n], stack[t][n])
    <2> SUFFICES ASSUME NEW n \in 1 .. Len(stack[t]) - 1 PROVE SameCall(stack'[t][n], stack[t][n]) OBVIOUS
    <2>1. CASE n = Len(stack[t]) - 1
      <3>1. stack[t][n] \in Frame BY <1>1
      <3>2. SameCall([stack[t][n] EXCEPT !.phase = "running"], stack[t][n]) BY <3>1, FrameFacts DEF Phase
      <3>3. stack'[t][n] = stack[t][n] \/ stack'[t][n] = [stack[t][n] EXCEPT !.phase = "running"] BY <2>1 DEF Pops
      <3> QED BY <3>2, <3>3 DEF SameCall
    <2>2. CASE n \in 1 .. Len(stack[t]) - 2 BY <2>2 DEF Pops, SameCall
    <2> QED BY <1>1, <2>1, <2>2
  <1> QED BY <1>1, <1>2

\* What GuardExact says.
LEMMA GuardMarks ==
  ASSUME TypeOK
  PROVE  GuardExact <=> \A t \in Thread, g \in Guards :
           t \in in_dispatch_threads[g] <=> \E n \in 1 .. Len(stack[t]) : Marks(stack[t][n], g)
  <1>1. \A t \in Thread : DOMAIN stack[t] = 1 .. Len(stack[t]) BY StackFacts
  <1> QED BY <1>1 DEF GuardExact, Marks, Guarded

\* The same in the next state.
LEMMA GuardMarksNext ==
  ASSUME stack' \in [Thread -> Seq(Frame)],
         \A t \in Thread, g \in Guards :
           t \in in_dispatch_threads'[g] <=> \E n \in 1 .. Len(stack'[t]) : Marks(stack'[t][n], g)
  PROVE  GuardExact'
  <1>1. \A t \in Thread : DOMAIN stack'[t] = 1 .. Len(stack'[t]) BY NextStackFacts
  <1>2. \A t \in Thread : \A n, g : Marks(stack'[t][n], g)
          <=> LET f == stack'[t][n] IN f.op = "dispatch" /\ ~IsPython(f.contract) /\ Guard(f.contract) = g
    BY DEF Marks, Guarded
  <1> QED BY <1>1, <1>2 DEF GuardExact, IsPython, Guard, IsJs

\* A call that goes on keeps its mark.
LEMMA RewriteGuards ==
  ASSUME TypeOK, GuardExact, NEW t \in Thread, NEW g \in Frame, Rewrites(t, g), SameCall(g, Top(t)),
         UNCHANGED in_dispatch_threads
  PROVE  GuardExact'
  <1>1. \A u \in Thread : /\ Len(stack'[u]) = Len(stack[u])
                          /\ \A n \in 1 .. Len(stack[u]) : SameCall(stack'[u][n], stack[u][n])
    BY RewriteCalls
  <1>2. \A u \in Thread, h \in Guards :
          (\E n \in 1 .. Len(stack'[u]) : Marks(stack'[u][n], h)) <=> (\E n \in 1 .. Len(stack[u]) : Marks(stack[u][n], h))
    BY <1>1 DEF SameCall, Marks, Guarded
  <1> QED BY <1>2, GuardMarks, GuardMarksNext DEF Rewrites, OthersKept

\* A call that begins marks its thread, if it is a dispatch.
LEMMA PushGuards ==
  ASSUME TypeOK, GuardExact, NEW t \in Thread, NEW g \in Frame, Pushes(t, g),
         \A h \in Guards : in_dispatch_threads'[h] = in_dispatch_threads[h] \cup (IF Marks(g, h) THEN {t} ELSE {})
  PROVE  GuardExact'
  <1>1. /\ \A n \in 1 .. Len(stack[t]) : SameCall(stack'[t][n], stack[t][n])
        /\ Len(stack[t]) \in Nat
    BY PushCalls
  <1>2. /\ stack' \in [Thread -> Seq(Frame)] /\ \A u \in Thread : u # t => stack'[u] = stack[u]
        /\ Len(stack'[t]) = Len(stack[t]) + 1 /\ stack'[t][Len(stack[t]) + 1] = g
    BY DEF Pushes, OthersKept
  <1>3. \A u \in Thread, h \in Guards :
          u \in in_dispatch_threads[h] <=> \E n \in 1 .. Len(stack[u]) : Marks(stack[u][n], h)
    BY GuardMarks
  <1>4. ASSUME NEW h \in Guards
        PROVE  (\E n \in 1 .. Len(stack'[t]) : Marks(stack'[t][n], h))
                 <=> (\E n \in 1 .. Len(stack[t]) : Marks(stack[t][n], h)) \/ Marks(g, h)
    <2>1. \A n \in 1 .. Len(stack[t]) : Marks(stack'[t][n], h) <=> Marks(stack[t][n], h) BY <1>1 DEF SameCall, Marks, Guarded
    <2>2. \A n \in 1 .. Len(stack'[t]) : n \in 1 .. Len(stack[t]) \/ n = Len(stack[t]) + 1 BY <1>1, <1>2
    <2>3. \A n \in 1 .. Len(stack[t]) : n \in 1 .. Len(stack'[t]) BY <1>1, <1>2
    <2>4. Len(stack[t]) + 1 \in 1 .. Len(stack'[t]) BY <1>1, <1>2
    <2> QED BY <1>2, <2>1, <2>2, <2>3, <2>4
  <1>5. ASSUME NEW u \in Thread, NEW h \in Guards
        PROVE  u \in in_dispatch_threads'[h] <=> \E n \in 1 .. Len(stack'[u]) : Marks(stack'[u][n], h)
    <2>1. CASE u = t BY <1>3, <1>4, <2>1
    <2>2. CASE u # t BY <1>2, <1>3, <2>2
    <2> QED BY <2>1, <2>2
  <1> QED BY <1>2, <1>5, GuardMarksNext

\* A call that ends takes its mark along: no other call of the thread has it.
LEMMA PopGuards ==
  ASSUME TypeOK, GuardExact, NEW t \in Thread, Pops(t),
         \A n \in 1 .. Len(stack[t]) - 1, h \in Guards : Marks(stack[t][n], h) => ~Marks(Top(t), h),
         \A h \in Guards : in_dispatch_threads'[h] = in_dispatch_threads[h] \ (IF Marks(Top(t), h) THEN {t} ELSE {})
  PROVE  GuardExact'
  <1>1. /\ \A n \in 1 .. Len(stack[t]) - 1 : SameCall(stack'[t][n], stack[t][n])
        /\ Len(stack[t]) \in Nat /\ Len(stack[t]) \in 1 .. Len(stack[t])
    BY PopCalls
  <1>2. /\ stack' \in [Thread -> Seq(Frame)] /\ \A u \in Thread : u # t => stack'[u] = stack[u]
        /\ Len(stack'[t]) = Len(stack[t]) - 1
    BY DEF Pops, OthersKept
  <1>3. \A u \in Thread, h \in Guards :
          u \in in_dispatch_threads[h] <=> \E n \in 1 .. Len(stack[u]) : Marks(stack[u][n], h)
    BY GuardMarks
  <1>4. ASSUME NEW h \in Guards
        PROVE  (\E n \in 1 .. Len(stack'[t]) : Marks(stack'[t][n], h))
                 <=> (\E n \in 1 .. Len(stack[t]) : Marks(stack[t][n], h)) /\ ~Marks(Top(t), h)
    <2>1. \A n \in 1 .. Len(stack[t]) - 1 : Marks(stack'[t][n], h) <=> Marks(stack[t][n], h) BY <1>1 DEF SameCall, Marks, Guarded
    <2>2. \A n \in 1 .. Len(stack[t]) : n \in 1 .. Len(stack[t]) - 1 \/ stack[t][n] = Top(t) BY <1>1 DEF Top
    <2>3. 1 .. Len(stack'[t]) = 1 .. Len(stack[t]) - 1 BY <1>2
    <2>4. \A n \in 1 .. Len(stack[t]) - 1 : n \in 1 .. Len(stack[t]) BY <1>1
    <2> QED BY <2>1, <2>2, <2>3, <2>4
  <1>5. ASSUME NEW u \in Thread, NEW h \in Guards
        PROVE  u \in in_dispatch_threads'[h] <=> \E n \in 1 .. Len(stack'[u]) : Marks(stack'[u][n], h)
    <2>1. CASE u = t BY <1>3, <1>4, <2>1
    <2>2. CASE u # t BY <1>2, <1>3, <2>2
    <2> QED BY <2>1, <2>2
  <1> QED BY <1>2, <1>5, GuardMarksNext

\* No guard is marked twice: a call that goes on marks what it marked.
LEMMA RewriteMarks ==
  ASSUME TypeOK, MarkedOnce, NEW t \in Thread, NEW g \in Frame, Rewrites(t, g), SameCall(g, Top(t))
  PROVE  MarkedOnce'
  <1>1. \A u \in Thread : /\ Len(stack'[u]) = Len(stack[u])
                          /\ \A n \in 1 .. Len(stack[u]) : SameCall(stack'[u][n], stack[u][n])
    BY RewriteCalls
  <1>2. \A u \in Thread : \A n \in 1 .. Len(stack[u]) : \A h \in Guards :
          /\ Marks(stack'[u][n], h) <=> Marks(stack[u][n], h)
          /\ Guarded(stack'[u][n], h) <=> Guarded(stack[u][n], h)
    BY <1>1 DEF SameCall, Marks, Guarded
  <1>3. \A u \in Thread : \A m, n \in 1 .. Len(stack'[u]) : \A h \in Guards :
          m < n => ~(Marks(stack'[u][m], h) /\ Guarded(stack'[u][n], h))
    BY <1>1, <1>2 DEF MarkedOnce
  <1> QED BY <1>3 DEF MarkedOnce, Marks, Guarded, Guard, IsPython, IsJs

\* A call begins only where its thread has no mark.
LEMMA PushMarks ==
  ASSUME TypeOK, MarkedOnce, GuardExact, NEW t \in Thread, NEW g \in Frame, Pushes(t, g),
         \A h \in Guards : Guarded(g, h) => t \notin in_dispatch_threads[h]
  PROVE  MarkedOnce'
  <1>1. /\ \A n \in 1 .. Len(stack[t]) : SameCall(stack'[t][n], stack[t][n])
        /\ Len(stack[t]) \in Nat
    BY PushCalls
  <1>2. /\ \A u \in Thread : u # t => stack'[u] = stack[u]
        /\ Len(stack'[t]) = Len(stack[t]) + 1 /\ stack'[t][Len(stack[t]) + 1] = g
    BY DEF Pushes, OthersKept
  <1>3. ASSUME NEW m \in 1 .. Len(stack'[t]), NEW n \in 1 .. Len(stack'[t]), NEW h \in Guards, m < n
        PROVE  ~(Marks(stack'[t][m], h) /\ Guarded(stack'[t][n], h))
    <2>1. m \in 1 .. Len(stack[t]) /\ (Marks(stack'[t][m], h) <=> Marks(stack[t][m], h))
      <3>1. m \in 1 .. Len(stack[t]) BY <1>1, <1>2, <1>3
      <3> QED BY <1>1, <3>1 DEF SameCall, Marks, Guarded
    <2>2. CASE n = Len(stack[t]) + 1
      <3>1. Marks(stack[t][m], h) => t \in in_dispatch_threads[h] BY <2>1, GuardMarks
      <3> QED BY <1>2, <2>1, <2>2, <3>1
    <2>3. CASE n \in 1 .. Len(stack[t])
      <3>1. Guarded(stack'[t][n], h) <=> Guarded(stack[t][n], h) BY <1>1, <2>3 DEF SameCall, Guarded
      <3> QED BY <1>3, <2>1, <2>3, <3>1 DEF MarkedOnce
    <2> QED BY <1>1, <1>2, <2>2, <2>3
  <1>4. ASSUME NEW u \in Thread, u # t, NEW m \in 1 .. Len(stack'[u]), NEW n \in 1 .. Len(stack'[u]),
               NEW h \in Guards, m < n
        PROVE  ~(Marks(stack'[u][m], h) /\ Guarded(stack'[u][n], h))
    BY <1>2, <1>4 DEF MarkedOnce
  <1> QED BY <1>3, <1>4 DEF MarkedOnce, Marks, Guarded, Guard, IsPython, IsJs

\* A call that ends marks nothing any more.
LEMMA PopMarks ==
  ASSUME TypeOK, MarkedOnce, NEW t \in Thread, Pops(t)
  PROVE  /\ MarkedOnce'
         /\ \A n \in 1 .. Len(stack[t]) - 1, h \in Guards : Marks(stack[t][n], h) => ~Marks(Top(t), h)
  <1>1. /\ \A n \in 1 .. Len(stack[t]) - 1 : SameCall(stack'[t][n], stack[t][n])
        /\ Len(stack[t]) \in Nat /\ Len(stack[t]) \in 1 .. Len(stack[t])
    BY PopCalls
  <1>2. /\ \A u \in Thread : u # t => stack'[u] = stack[u]
        /\ Len(stack'[t]) = Len(stack[t]) - 1
    BY DEF Pops, OthersKept
  <1>3. ASSUME NEW m \in 1 .. Len(stack'[t]), NEW n \in 1 .. Len(stack'[t]), NEW h \in Guards, m < n
        PROVE  ~(Marks(stack'[t][m], h) /\ Guarded(stack'[t][n], h))
    <2>1. m \in 1 .. Len(stack[t]) - 1 /\ n \in 1 .. Len(stack[t]) - 1 BY <1>2
    <2>2. /\ Marks(stack'[t][m], h) <=> Marks(stack[t][m], h)
          /\ Guarded(stack'[t][n], h) <=> Guarded(stack[t][n], h)
      BY <1>1, <2>1 DEF SameCall, Marks, Guarded
    <2>3. m \in 1 .. Len(stack[t]) /\ n \in 1 .. Len(stack[t]) BY <1>1, <2>1
    <2> QED BY <1>3, <2>2, <2>3 DEF MarkedOnce
  <1>4. ASSUME NEW u \in Thread, u # t, NEW m \in 1 .. Len(stack'[u]), NEW n \in 1 .. Len(stack'[u]),
               NEW h \in Guards, m < n
        PROVE  ~(Marks(stack'[u][m], h) /\ Guarded(stack'[u][n], h))
    BY <1>2, <1>4 DEF MarkedOnce
  <1>5. ASSUME NEW n \in 1 .. Len(stack[t]) - 1, NEW h \in Guards, Marks(stack[t][n], h) PROVE ~Marks(Top(t), h)
    <2>1. n \in 1 .. Len(stack[t]) /\ n < Len(stack[t]) BY <1>1
    <2> QED BY <1>1, <1>5, <2>1 DEF MarkedOnce, Marks, Guarded, Top
  <1> QED BY <1>3, <1>4, <1>5 DEF MarkedOnce, Marks, Guarded, Guard, IsPython, IsJs

-----------------------------------------------------------------------------
(***************************************************************************)
(* Locks.                                                                  *)
(***************************************************************************)

\* A call that goes on has the locks of its new phase.
LEMMA RewriteLocks ==
  ASSUME TypeOK, LocksAccounted, NEW t \in Thread, NEW g \in Frame, Rewrites(t, g),
         \A u \in Thread, l \in Lock : holder'[l] = u =>
           \/ u = t /\ Holds(g, l)
           \/ holder[l] = u /\ (u = t => ~Holds(Top(t), l) \/ Holds(g, l))
  PROVE  LocksAccounted'
  <1>1. Len(stack[t]) \in Nat /\ Len(stack[t]) \in 1 .. Len(stack[t]) BY StackFacts DEF Rewrites
  <1>2. /\ \A u \in Thread : u # t => stack'[u] = stack[u]
        /\ Len(stack'[t]) = Len(stack[t]) /\ stack'[t][Len(stack[t])] = g
        /\ \A n \in 1 .. Len(stack[t]) - 1 : stack'[t][n] = stack[t][n]
    BY DEF Rewrites, OthersKept
  <1>3. ASSUME NEW u \in Thread, NEW l \in Lock, holder'[l] = u
        PROVE  \E n \in 1 .. Len(stack'[u]) : Holds(stack'[u][n], l)
    <2>1. CASE u = t /\ Holds(g, l) BY <1>1, <1>2, <2>1
    <2>2. CASE u # t
      <3>1. holder[l] = u BY <1>3, <2>2
      <3> QED BY <1>2, <2>2, <3>1 DEF LocksAccounted
    <2>3. CASE u = t /\ ~Holds(g, l)
      <3>1. holder[l] = t /\ ~Holds(Top(t), l) BY <1>3, <2>3
      <3>2. PICK n \in 1 .. Len(stack[t]) : Holds(stack[t][n], l) BY <3>1 DEF LocksAccounted
      <3>3. n \in 1 .. Len(stack[t]) - 1 BY <1>1, <3>1, <3>2 DEF Top
      <3> QED BY <1>2, <2>3, <3>2, <3>3
    <2> QED BY <2>1, <2>2, <2>3
  <1> QED BY <1>3 DEF LocksAccounted, Holds, VmLock, DispatchLock, Registry, IsLua, IsPython

\* A call that begins has no locks, and its caller keeps those of its VM, in
\* Python none.
LEMMA PushLocks ==
  ASSUME TypeOK, StackShape, LocksAccounted, NEW t \in Thread, NEW g \in Frame, Pushes(t, g),
         ~Idle(t) => Top(t).phase = "running",
         \A u \in Thread, l \in Lock : holder'[l] = u =>
           /\ holder[l] = u
           /\ u = t /\ ~Idle(t) => ~(IsPython(Top(t).contract) /\ l = VmLock(Top(t).contract))
  PROVE  LocksAccounted'
  <1>1. /\ Len(stack[t]) \in Nat
        /\ ~Idle(t) => Len(stack[t]) \in 1 .. Len(stack[t]) /\ Top(t) \in Frame
        /\ Idle(t) <=> Len(stack[t]) = 0
    BY StackFacts
  <1>2. /\ \A u \in Thread : u # t => stack'[u] = stack[u]
        /\ Len(stack'[t]) = Len(stack[t]) + 1
        /\ \A n \in 1 .. Len(stack[t]) - 1 : stack'[t][n] = stack[t][n]
        /\ ~Idle(t) => stack'[t][Len(stack[t])] = [Top(t) EXCEPT !.phase = "calling"]
    BY DEF Pushes, OthersKept
  <1>3. ASSUME NEW u \in Thread, NEW l \in Lock, holder'[l] = u
        PROVE  \E n \in 1 .. Len(stack'[u]) : Holds(stack'[u][n], l)
    <2>1. PICK n \in 1 .. Len(stack[u]) : Holds(stack[u][n], l) BY <1>3 DEF LocksAccounted
    <2>2. CASE u # t BY <1>2, <2>1, <2>2
    <2>3. CASE u = t /\ n \in 1 .. Len(stack[t]) - 1
      <3>1. n \in 1 .. Len(stack'[t]) BY <1>1, <1>2, <2>3
      <3> QED BY <1>2, <2>1, <2>3, <3>1
    <2>4. CASE u = t /\ n = Len(stack[t])
      <3>1. ~Idle(t) BY <1>1, <2>1, <2>4
      <3>2. PICK k : k = [Top(t) EXCEPT !.phase = "calling"] OBVIOUS
      <3>3. SameCall(k, Top(t)) /\ k.phase = "calling" BY <1>1, <3>1, <3>2, FrameFacts DEF Phase
      <3>4. Holds(Top(t), l) /\ Top(t).phase = "running" BY <2>1, <2>4, <3>1 DEF Top
      <3>5. ~(IsPython(Top(t).contract) /\ l = VmLock(Top(t).contract)) BY <1>3, <2>4, <3>1
      <3>6. Holds(k, l) BY <3>3, <3>4, <3>5 DEF Holds, SameCall
      <3>7. n \in 1 .. Len(stack'[t]) BY <1>1, <1>2, <2>1, <2>4
      <3>8. stack'[t][n] = k BY <1>2, <2>4, <3>1, <3>2
      <3> QED BY <2>4, <3>6, <3>7, <3>8
    <2> QED BY <1>1, <2>1, <2>2, <2>3, <2>4
  <1> QED BY <1>3 DEF LocksAccounted, Holds, VmLock, DispatchLock, Registry, IsLua, IsPython

\* A call that ends has no locks.
LEMMA PopLocks ==
  ASSUME TypeOK, StackShape, LocksAccounted, NEW t \in Thread, Pops(t),
         \A u \in Thread, l \in Lock : holder'[l] = u => holder[l] = u /\ (u = t => ~Holds(Top(t), l))
  PROVE  LocksAccounted'
  <1>0. ~Idle(t) BY DEF Pops
  <1>1. Len(stack[t]) \in Nat /\ Len(stack[t]) \in 1 .. Len(stack[t]) /\ \A n \in 1 .. Len(stack[t]) : stack[t][n] \in Frame
    BY <1>0, StackFacts
  <1>2. /\ \A u \in Thread : u # t => stack'[u] = stack[u]
        /\ Len(stack'[t]) = Len(stack[t]) - 1
        /\ \A n \in 1 .. Len(stack[t]) - 2 : stack'[t][n] = stack[t][n]
        /\ \A n \in 1 .. Len(stack[t]) - 1 : n = Len(stack[t]) - 1 =>
             stack'[t][n] = IF IsPython(stack[t][n].contract) THEN stack[t][n]
                            ELSE [stack[t][n] EXCEPT !.phase = "running"]
    BY DEF Pops, OthersKept
  <1>3. ASSUME NEW u \in Thread, NEW l \in Lock, holder'[l] = u
        PROVE  \E n \in 1 .. Len(stack'[u]) : Holds(stack'[u][n], l)
    <2>1. PICK n \in 1 .. Len(stack[u]) : Holds(stack[u][n], l) BY <1>3 DEF LocksAccounted
    <2>2. CASE u # t BY <1>2, <2>1, <2>2
    <2>3. CASE u = t
      <3>1. n # Len(stack[t]) BY <1>3, <2>1, <2>3 DEF Top
      <3>2. n \in 1 .. Len(stack[t]) - 1 BY <1>1, <2>1, <2>3, <3>1
      <3>3. stack[t][n].phase = "calling" /\ stack[t][n] \in Frame /\ n \in 1 .. Len(stack'[t])
        BY <1>1, <1>2, <3>2 DEF StackShape
      <3>4. CASE n = Len(stack[t]) - 1 /\ ~IsPython(stack[t][n].contract)
        <4>1. PICK k : k = [stack[t][n] EXCEPT !.phase = "running"] OBVIOUS
        <4>2. SameCall(k, stack[t][n]) /\ k.phase = "running" BY <3>3, <4>1, FrameFacts DEF Phase
        <4>3. Holds(k, l) BY <2>1, <2>3, <3>3, <4>2 DEF Holds, SameCall
        <4>4. stack'[t][n] = k BY <1>2, <3>2, <3>4, <4>1
        <4> QED BY <2>3, <3>3, <4>3, <4>4
      <3>5. CASE n = Len(stack[t]) - 1 /\ IsPython(stack[t][n].contract) BY <1>2, <2>1, <2>3, <3>2, <3>3, <3>5
      <3>6. CASE n # Len(stack[t]) - 1
        <4>1. n \in 1 .. Len(stack[t]) - 2 BY <1>1, <3>2, <3>6
        <4> QED BY <1>2, <2>1, <2>3, <3>3, <4>1
      <3> QED BY <3>4, <3>5, <3>6
    <2> QED BY <2>2, <2>3
  <1> QED BY <1>3 DEF LocksAccounted, Holds, VmLock, DispatchLock, Registry, IsLua, IsPython

-----------------------------------------------------------------------------
(***************************************************************************)
(* Each step lets the innermost call of a thread go on, begins a call or   *)
(* ends one.                                                               *)
(***************************************************************************)
CallInv == TypeOK /\ StackShape /\ MarkedOnce /\ GuardExact /\ LocksAccounted

LockType == holder' \in [Lock -> Thread \cup {None}]

GoesOn(t) ==
  /\ \E g \in Frame :
       /\ Rewrites(t, g) /\ SameCall(g, Top(t)) /\ WellFormed(g) /\ g.phase # "calling"
       /\ g.phase = "lookup" => LuaLookup(t)
       /\ \A u \in Thread, l \in Lock : holder'[l] = u =>
            \/ u = t /\ Holds(g, l)
            \/ holder[l] = u /\ (u = t => ~Holds(Top(t), l) \/ Holds(g, l))
  /\ LockType /\ UNCHANGED in_dispatch_threads

\* Call g begins.
Begins(t, g) ==
  /\ g \in Frame /\ Pushes(t, g) /\ g.phase = "entered" /\ Len(stack[t]) < MaxDepth
  /\ ~Idle(t) => Top(t).phase = "running" /\ MayCall(Top(t), g.op, g.contract)
  /\ g.op # "destroy" => ~Refused(t, g.contract)
  /\ in_dispatch_threads' \in [Guards -> SUBSET Thread]
  /\ \A h \in Guards : in_dispatch_threads'[h] = in_dispatch_threads[h] \cup (IF Marks(g, h) THEN {t} ELSE {})
  /\ LockType
  /\ \A u \in Thread, l \in Lock : holder'[l] = u =>
       /\ holder[l] = u
       /\ u = t /\ ~Idle(t) => ~(IsPython(Top(t).contract) /\ l = VmLock(Top(t).contract))

Ends(t) ==
  /\ Pops(t)
  /\ in_dispatch_threads' \in [Guards -> SUBSET Thread]
  /\ \A h \in Guards : in_dispatch_threads'[h] = in_dispatch_threads[h] \ (IF Marks(Top(t), h) THEN {t} ELSE {})
  /\ LockType
  /\ \A u \in Thread, l \in Lock : holder'[l] = u => holder[l] = u /\ (u = t => ~Holds(Top(t), l))

\* What CallInv says of the next state, but for counters and handles.
CallsKept ==
  /\ stack' \in [Thread -> Seq(Frame)] /\ \A u \in Thread : Len(stack'[u]) <= MaxDepth
  /\ in_dispatch_threads' \in [Guards -> SUBSET Thread] /\ LockType
  /\ StackShape' /\ MarkedOnce' /\ GuardExact' /\ LocksAccounted'

\* A call goes on.
LEMMA GoesOnKeeps ==
  ASSUME CallInv, NEW t \in Thread, GoesOn(t)
  PROVE  CallsKept
  <1>0. TypeOK /\ StackShape /\ MarkedOnce /\ GuardExact /\ LocksAccounted BY DEF CallInv
  <1>1. PICK g \in Frame :
          /\ Rewrites(t, g) /\ SameCall(g, Top(t)) /\ WellFormed(g) /\ g.phase # "calling"
          /\ \A u \in Thread, l \in Lock : holder'[l] = u =>
               \/ u = t /\ Holds(g, l)
               \/ holder[l] = u /\ (u = t => ~Holds(Top(t), l) \/ Holds(g, l))
    BY DEF GoesOn
  <1>2. StackShape' /\ \A u \in Thread : Len(stack'[u]) <= MaxDepth BY <1>0, <1>1, RewriteShape
  <1>3. MarkedOnce' BY <1>0, <1>1, RewriteMarks
  <1>4. UNCHANGED in_dispatch_threads /\ LockType BY DEF GoesOn
  <1>5. GuardExact' BY <1>0, <1>1, <1>4, RewriteGuards
  <1>6. LocksAccounted' BY <1>0, <1>1, RewriteLocks
  <1>7. stack' \in [Thread -> Seq(Frame)] BY <1>1 DEF Rewrites, OthersKept
  <1>8. in_dispatch_threads' \in [Guards -> SUBSET Thread] BY <1>0, <1>4 DEF TypeOK
  <1> QED BY <1>2, <1>3, <1>4, <1>5, <1>6, <1>7, <1>8 DEF CallsKept

\* A call begins.
LEMMA BeginsKeeps ==
  ASSUME CallInv, NEW t \in Thread, NEW g, Begins(t, g)
  PROVE  CallsKept
  <1>0. TypeOK /\ StackShape /\ MarkedOnce /\ GuardExact /\ LocksAccounted BY DEF CallInv
  <1>1. /\ g \in Frame /\ Pushes(t, g) /\ g.phase = "entered" /\ Len(stack[t]) < MaxDepth
        /\ ~Idle(t) => Top(t).phase = "running"
        /\ g.op # "destroy" => ~Refused(t, g.contract)
        /\ in_dispatch_threads' \in [Guards -> SUBSET Thread]
        /\ \A h \in Guards : in_dispatch_threads'[h] = in_dispatch_threads[h] \cup (IF Marks(g, h) THEN {t} ELSE {})
        /\ LockType
        /\ \A u \in Thread, l \in Lock : holder'[l] = u =>
             /\ holder[l] = u
             /\ u = t /\ ~Idle(t) => ~(IsPython(Top(t).contract) /\ l = VmLock(Top(t).contract))
    BY DEF Begins
  <1>2. StackShape' /\ \A u \in Thread : Len(stack'[u]) <= MaxDepth BY <1>0, <1>1, PushShape
  <1>3. \A h \in Guards : Guarded(g, h) => t \notin in_dispatch_threads[h] BY <1>1 DEF Guarded, Refused
  <1>4. MarkedOnce' BY <1>0, <1>1, <1>3, PushMarks
  <1>5. GuardExact' BY <1>0, <1>1, PushGuards
  <1>6. LocksAccounted' BY <1>0, <1>1, PushLocks
  <1>7. stack' \in [Thread -> Seq(Frame)] BY <1>1 DEF Pushes, OthersKept
  <1> QED BY <1>1, <1>2, <1>4, <1>5, <1>6, <1>7 DEF CallsKept

\* A call ends.
LEMMA EndsKeeps ==
  ASSUME CallInv, NEW t \in Thread, Ends(t)
  PROVE  CallsKept
  <1>0. TypeOK /\ StackShape /\ MarkedOnce /\ GuardExact /\ LocksAccounted BY DEF CallInv
  <1>1. /\ Pops(t)
        /\ in_dispatch_threads' \in [Guards -> SUBSET Thread]
        /\ \A h \in Guards : in_dispatch_threads'[h] = in_dispatch_threads[h] \ (IF Marks(Top(t), h) THEN {t} ELSE {})
        /\ LockType
        /\ \A u \in Thread, l \in Lock : holder'[l] = u => holder[l] = u /\ (u = t => ~Holds(Top(t), l))
    BY DEF Ends
  <1>2. StackShape' /\ \A u \in Thread : Len(stack'[u]) <= MaxDepth BY <1>0, <1>1, PopShape
  <1>3. /\ MarkedOnce'
        /\ \A n \in 1 .. Len(stack[t]) - 1, h \in Guards : Marks(stack[t][n], h) => ~Marks(Top(t), h)
    BY <1>0, <1>1, PopMarks
  <1>4. GuardExact' BY <1>0, <1>1, <1>3, PopGuards
  <1>5. LocksAccounted' BY <1>0, <1>1, PopLocks
  <1>6. stack' \in [Thread -> Seq(Frame)] BY <1>1 DEF Pops, OthersKept
  <1> QED BY <1>1, <1>2, <1>3, <1>4, <1>5, <1>6 DEF CallsKept

-----------------------------------------------------------------------------
(***************************************************************************)
(* Which of the three each action is.                                      *)
(***************************************************************************)

\* The lock a well-formed call needs.
LEMMA NeededFacts ==
  ASSUME NEW f \in Frame, WellFormed(f)
  PROVE  /\ f.phase = "running" => NextLock(f) = <<>>
         /\ IsPython(f.contract) /\ f.phase # "running" => NextLock(f) = VmLock(f.contract)
         /\ f.phase = "calling" /\ ~IsPython(f.contract) => NextLock(f) = <<>>
         /\ f.phase \in {"lookup", "queued", "returned"} => NextLock(f) = VmLock(f.contract)
         /\ f.phase = "built" => NextLock(f) = Registry(f.contract)
         /\ f.phase = "resolved" => NextLock(f) = IF IsLua(f.contract) THEN DispatchLock(f.contract) ELSE VmLock(f.contract)
         /\ f.phase = "entered" /\ f.op = "create" => NextLock(f) = VmLock(f.contract)
         /\ f.phase = "entered" /\ f.op = "dispatch" /\ f.id = NullId /\ ~IsPython(f.contract) =>
              NextLock(f) = IF IsLua(f.contract) THEN VmLock(f.contract) ELSE <<>>
         /\ f.phase = "entered" /\ f.op = "dispatch" /\ f.id # NullId /\ ~IsPython(f.contract) =>
              NextLock(f) = Registry(f.contract)
         /\ f.op = "destroy" /\ ~IsPython(f.contract) => NextLock(f) = Registry(f.contract)
  <1>1. f.phase \in Phase /\ f.op \in Op BY DEF Frame
  <1>2. f.phase = "running" => NextLock(f) = <<>> BY DEF NextLock
  <1>3. f.phase = "calling" => NextLock(f) = IF IsPython(f.contract) THEN VmLock(f.contract) ELSE <<>> BY DEF NextLock
  <1>4. f.phase = "built" => NextLock(f) = Registry(f.contract) BY DEF NextLock
  <1>5. f.phase \in {"lookup", "queued", "returned"} => NextLock(f) = VmLock(f.contract) BY DEF NextLock
  <1>6. f.phase = "resolved" => NextLock(f) = IF IsLua(f.contract) THEN DispatchLock(f.contract) ELSE VmLock(f.contract)
    BY DEF NextLock
  <1>7. f.phase = "entered" /\ (IsPython(f.contract) \/ f.op = "create") => NextLock(f) = VmLock(f.contract) BY DEF NextLock
  <1>8. f.phase = "entered" /\ f.op = "dispatch" /\ f.id = NullId /\ ~IsPython(f.contract) =>
          NextLock(f) = IF IsLua(f.contract) THEN VmLock(f.contract) ELSE <<>>
    BY DEF NextLock, NullId, DefaultImpl
  <1>9. f.phase = "entered" /\ f.op = "dispatch" /\ f.id # NullId /\ ~IsPython(f.contract) => NextLock(f) = Registry(f.contract)
    BY DEF NextLock, NullId, DefaultImpl
  <1>10. f.phase = "entered" /\ f.op = "destroy" /\ ~IsPython(f.contract) => NextLock(f) = Registry(f.contract) BY DEF NextLock
  <1>11. IsPython(f.contract) => f.contract \in Contract /\ ~IsLua(f.contract) BY ContractFacts DEF Frame
  <1> QED BY <1>1, <1>2, <1>3, <1>4, <1>5, <1>6, <1>7, <1>8, <1>9, <1>10, <1>11 DEF WellFormed, Phase

\* Take: the innermost call goes on with the lock it needs.
LEMMA TakeGoesOn ==
  ASSUME CallInv, NEW t \in Thread, ~Idle(t), NEW g \in Frame, Rewrites(t, g), SameCall(g, Top(t)),
         WellFormed(g), g.phase # "calling", Take(t), Needed(t) \in Lock, Holds(g, Needed(t)),
         \A l \in Lock : Holds(Top(t), l) => Holds(g, l), g.phase = "lookup" => LuaLookup(t),
         UNCHANGED in_dispatch_threads
  PROVE  GoesOn(t)
  <1>1. holder \in [Lock -> Thread \cup {None}] BY DEF CallInv, TypeOK
  <1>2. \A l \in Lock : holder'[l] = IF l = Needed(t) THEN t ELSE holder[l] BY <1>1 DEF Take
  <1>3. LockType BY <1>1 DEF Take, LockType
  <1>4. \A u \in Thread, l \in Lock : holder'[l] = u =>
          \/ u = t /\ Holds(g, l)
          \/ holder[l] = u /\ (u = t => ~Holds(Top(t), l) \/ Holds(g, l))
    BY <1>2
  <1> QED BY <1>3, <1>4 DEF GoesOn

\* The innermost call of a thread.
LEMMA TopWellFormed ==
  ASSUME CallInv, NEW t \in Thread, ~Idle(t)
  PROVE  /\ TypeOK /\ Top(t) \in Frame /\ Top(t).contract \in Contract /\ WellFormed(Top(t))
         /\ Top(t).phase = "calling" => IsPython(Top(t).contract)
  <1>1. TypeOK /\ StackShape BY DEF CallInv
  <1>2. Len(stack[t]) \in 1 .. Len(stack[t]) /\ Top(t) \in Frame /\ Top(t).contract \in Contract BY <1>1, StackFacts
  <1> QED BY <1>1, <1>2 DEF StackShape, Top

\* Lua takes the instances mutex.
LEMMA LuaLookupGoesOn ==
  ASSUME CallInv, NEW t \in Thread, LuaLookup(t)
  PROVE  GoesOn(t)
  <1>1. /\ ~Idle(t) /\ Top(t).op = "dispatch" /\ Top(t).phase = "entered" /\ IsLua(Top(t).contract) /\ Top(t).id # NullId
        /\ Take(t) /\ Goto(t, "lookup") /\ UNCHANGED in_dispatch_threads
    BY DEF LuaLookup, At
  <1>2. TypeOK /\ Top(t) \in Frame /\ Top(t).contract \in Contract /\ WellFormed(Top(t)) BY <1>1, TopWellFormed
  <1>3. PICK g \in Frame : Rewrites(t, g) /\ SameCall(g, Top(t)) /\ g.phase = "lookup" BY <1>1, <1>2, GotoFacts DEF Phase
  <1>4. ~IsPython(Top(t).contract) /\ Registry(Top(t).contract) \in Lock BY <1>1, <1>2, ContractFacts
  <1>5. Needed(t) = Registry(Top(t).contract) BY <1>1, <1>2, <1>4, NeededFacts DEF Needed
  <1>6. WellFormed(g) BY <1>1, <1>3 DEF WellFormed, SameCall
  <1>7. Holds(g, Needed(t)) BY <1>3, <1>5 DEF Holds, SameCall
  <1>8. \A l \in Lock : ~Holds(Top(t), l) BY <1>1 DEF Holds
  <1> QED BY <1>1, <1>3, <1>4, <1>5, <1>6, <1>7, <1>8, TakeGoesOn

\* The handle is resolved.
LEMMA ResolveGoesOn ==
  ASSUME CallInv, NEW t \in Thread, ResolveInstance(t), Resolve(Top(t)) \in Nat
  PROVE  GoesOn(t)
  <1>1. /\ ~Idle(t) /\ Top(t).op = "dispatch" /\ Top(t).phase \in {"entered", "lookup"}
        /\ Top(t).phase = "entered" => ~IsPython(Top(t).contract)
        /\ holder' = [holder EXCEPT ![Registry(Top(t).contract)] = IF @ = t THEN None ELSE @]
        /\ UNCHANGED in_dispatch_threads
        /\ stack' = [stack EXCEPT ![t][Len(stack[t])] = [@ EXCEPT !.phase = "resolved", !.object = Resolve(Top(t))]]
    BY DEF ResolveInstance, Resolvable, Resolved, At
  <1>2. TypeOK /\ Top(t) \in Frame /\ Top(t).contract \in Contract /\ WellFormed(Top(t)) BY <1>1, TopWellFormed
  <1>3. PICK g : g = [Top(t) EXCEPT !.phase = "resolved", !.object = Resolve(Top(t))] OBVIOUS
  <1>4. g \in Frame /\ SameCall(g, Top(t)) /\ g.phase = "resolved"
    <2>1. "resolved" \in Phase BY DEF Phase
    <2>2. PICK n \in Nat : n = Resolve(Top(t)) OBVIOUS
    <2> QED BY <1>2, <1>3, <2>1, <2>2 DEF Frame, SameCall
  <1>5. stack' = [stack EXCEPT ![t][Len(stack[t])] = g] BY <1>1, <1>3 DEF Top
  <1>6. Rewrites(t, g) BY <1>1, <1>2, <1>4, <1>5, RewriteFacts
  <1>7. ~IsPython(Top(t).contract) BY <1>1, <1>2, ContractFacts DEF WellFormed
  <1>8. WellFormed(g) BY <1>1, <1>4, <1>7 DEF WellFormed, SameCall
  <1>9. holder \in [Lock -> Thread \cup {None}] BY <1>2 DEF TypeOK
  <1>10. LockType BY <1>1, <1>9 DEF LockType
  <1>11. \A l \in Lock : Holds(Top(t), l) => l = Registry(Top(t).contract) BY <1>1 DEF Holds
  <1>12. \A u \in Thread, l \in Lock : holder'[l] = u => holder[l] = u /\ (u = t => l # Registry(Top(t).contract))
    BY <1>1, <1>9, VmDispatchAssumption
  <1> QED BY <1>1, <1>4, <1>6, <1>8, <1>10, <1>11, <1>12 DEF GoesOn

\* Lua takes its dispatch_lock.
LEMMA LuaQueueGoesOn ==
  ASSUME CallInv, NEW t \in Thread, LuaQueue(t)
  PROVE  GoesOn(t)
  <1>1. /\ ~Idle(t) /\ Top(t).op = "dispatch" /\ Top(t).phase = "resolved" /\ IsLua(Top(t).contract)
        /\ Take(t) /\ Goto(t, "queued") /\ UNCHANGED in_dispatch_threads
    BY DEF LuaQueue, At
  <1>2. TypeOK /\ Top(t) \in Frame /\ Top(t).contract \in Contract /\ WellFormed(Top(t)) BY <1>1, TopWellFormed
  <1>3. PICK g \in Frame : Rewrites(t, g) /\ SameCall(g, Top(t)) /\ g.phase = "queued" BY <1>1, <1>2, GotoFacts DEF Phase
  <1>4. DispatchLock(Top(t).contract) \in Lock BY <1>2, ContractFacts
  <1>5. Needed(t) = DispatchLock(Top(t).contract) BY <1>1, <1>2, NeededFacts DEF Needed
  <1>6. WellFormed(g) BY <1>1, <1>3 DEF WellFormed, SameCall
  <1>7. Holds(g, Needed(t)) BY <1>1, <1>3, <1>5 DEF Holds, SameCall
  <1>8. \A l \in Lock : ~Holds(Top(t), l) BY <1>1 DEF Holds
  <1> QED BY <1>1, <1>3, <1>4, <1>5, <1>6, <1>7, <1>8, TakeGoesOn

\* A function, a factory or a caller begins to run, in its VM.
LEMMA EnterGoesOn ==
  ASSUME CallInv, NEW t \in Thread, ~Idle(t), Needed(t) = VmLock(Top(t).contract), Take(t),
         NEW g \in Frame, Rewrites(t, g), SameCall(g, Top(t)), g.phase = "running",
         Top(t).op # "destroy", Top(t).phase \in {"entered", "resolved", "queued", "calling"},
         UNCHANGED in_dispatch_threads
  PROVE  GoesOn(t)
  <1>1. /\ Top(t) \in Frame /\ Top(t).contract \in Contract /\ WellFormed(Top(t))
        /\ Top(t).phase = "calling" => IsPython(Top(t).contract)
    BY TopWellFormed
  <1>2. VmLock(Top(t).contract) \in Lock BY <1>1, ContractFacts
  <1>3. WellFormed(g) BY DEF WellFormed, SameCall
  <1>4. Holds(g, Needed(t)) BY DEF Holds, SameCall
  <1>5. \A l \in Lock : Holds(Top(t), l) => Holds(g, l) BY <1>1 DEF Holds, SameCall
  <1> QED BY <1>2, <1>3, <1>4, <1>5, TakeGoesOn

\* Run, PythonRun, Resume and RunFactory.
LEMMA RunGoesOn ==
  ASSUME CallInv, NEW t \in Thread,
         \/ Run(t) \/ Resume(t) \/ RunFactory(t)
         \/ PythonRun(t) /\ Resolve(Top(t)) \in Nat
  PROVE  GoesOn(t)
  <1>1. CASE Run(t) \/ Resume(t) \/ RunFactory(t)
    <2>1. ~Idle(t) /\ Take(t) /\ Goto(t, "running") /\ UNCHANGED in_dispatch_threads
      BY <1>1 DEF Run, Resume, RunFactory, At
    <2>2. /\ TypeOK /\ Top(t) \in Frame /\ Top(t).contract \in Contract /\ WellFormed(Top(t))
          /\ Top(t).phase = "calling" => IsPython(Top(t).contract)
      BY <2>1, TopWellFormed
    <2>3. PICK g \in Frame : Rewrites(t, g) /\ SameCall(g, Top(t)) /\ g.phase = "running" BY <2>1, <2>2, GotoFacts DEF Phase
    <2>4. /\ Top(t).op # "destroy" /\ Top(t).phase \in {"entered", "resolved", "queued", "calling"}
          /\ Needed(t) = VmLock(Top(t).contract)
      <3>1. CASE Run(t)
        <4>1. \/ Top(t).op = "dispatch" /\ Top(t).phase = "queued"
              \/ Top(t).op = "dispatch" /\ Top(t).phase = "resolved" /\ IsJs(Top(t).contract)
          BY <3>1 DEF Run, At
        <4>2. IsJs(Top(t).contract) => ~IsLua(Top(t).contract) BY <2>2, ContractFacts
        <4> QED BY <2>2, <4>1, <4>2, NeededFacts DEF Needed
      <3>2. CASE Resume(t)
        <4>1. Top(t).phase = "calling" BY <3>2 DEF Resume
        <4> QED BY <2>2, <4>1, NeededFacts DEF Needed, WellFormed
      <3>3. CASE RunFactory(t)
        <4>1. Top(t).op = "create" /\ Top(t).phase = "entered" BY <3>3 DEF RunFactory, At
        <4> QED BY <2>2, <4>1, NeededFacts DEF Needed
      <3> QED BY <1>1, <3>1, <3>2, <3>3
    <2> QED BY <2>1, <2>3, <2>4, EnterGoesOn
  <1>2. CASE PythonRun(t) /\ Resolve(Top(t)) \in Nat
    <2>1. /\ ~Idle(t) /\ Top(t).op = "dispatch" /\ Top(t).phase = "entered" /\ IsPython(Top(t).contract)
          /\ Take(t) /\ UNCHANGED in_dispatch_threads
          /\ stack' = [stack EXCEPT ![t][Len(stack[t])] = [@ EXCEPT !.phase = "running", !.object = Resolve(Top(t))]]
      BY <1>2 DEF PythonRun, At
    <2>2. TypeOK /\ Top(t) \in Frame /\ Top(t).contract \in Contract /\ WellFormed(Top(t)) BY <2>1, TopWellFormed
    <2>3. PICK g : g = [Top(t) EXCEPT !.phase = "running", !.object = Resolve(Top(t))] OBVIOUS
    <2>4. g \in Frame /\ SameCall(g, Top(t)) /\ g.phase = "running"
      <3>1. "running" \in Phase BY DEF Phase
      <3>2. PICK n \in Nat : n = Resolve(Top(t)) BY <1>2
      <3> QED BY <2>2, <2>3, <3>1, <3>2 DEF Frame, SameCall
    <2>5. stack' = [stack EXCEPT ![t][Len(stack[t])] = g] BY <2>1, <2>3 DEF Top
    <2>6. Rewrites(t, g) BY <2>1, <2>2, <2>4, <2>5, RewriteFacts
    <2>7. Needed(t) = VmLock(Top(t).contract) BY <2>1, <2>2, NeededFacts DEF Needed
    <2> QED BY <2>1, <2>4, <2>6, <2>7, EnterGoesOn
  <1> QED BY <1>1, <1>2

\* A factory has returned, in Lua or JavaScript.
LEMMA BuiltGoesOn ==
  ASSUME CallInv, NEW t \in Thread, FactoryReturns(t), ~IsPython(Top(t).contract)
  PROVE  GoesOn(t)
  <1>1. /\ ~Idle(t) /\ Top(t).op = "create" /\ Top(t).phase = "running"
        /\ Release({VmLock(Top(t).contract)}) /\ UNCHANGED in_dispatch_threads
        /\ objects' = objects + 1
        /\ stack' = [stack EXCEPT ![t][Len(stack[t])] =
                       [@ EXCEPT !.phase = IF IsLua(Top(t).contract) THEN "returned" ELSE "built", !.object = objects']]
    BY DEF FactoryReturns, At
  <1>2. TypeOK /\ Top(t) \in Frame /\ Top(t).contract \in Contract /\ WellFormed(Top(t)) BY <1>1, TopWellFormed
  <1>3. PICK n \in Nat : n = objects'
    <2>1. objects' \in Nat BY <1>1, <1>2, VmDispatchAssumption DEF TypeOK
    <2> QED BY <2>1
  <1>0. PICK q : q = IF IsLua(Top(t).contract) THEN "returned" ELSE "built" OBVIOUS
  <1>4. PICK g : g = [Top(t) EXCEPT !.phase = q, !.object = n] OBVIOUS
  <1>5. g \in Frame /\ SameCall(g, Top(t)) /\ g.phase = q
    <2>1. q \in Phase BY <1>0 DEF Phase
    <2> QED BY <1>2, <1>4, <2>1 DEF Frame, SameCall
  <1>6. stack' = [stack EXCEPT ![t][Len(stack[t])] = g] BY <1>0, <1>1, <1>3, <1>4 DEF Top
  <1>7. Rewrites(t, g) BY <1>1, <1>2, <1>5, <1>6, RewriteFacts
  <1>8. WellFormed(g) /\ g.phase \notin {"calling", "lookup"} BY <1>0, <1>1, <1>5 DEF WellFormed, SameCall
  <1>9. holder \in [Lock -> Thread \cup {None}] BY <1>2 DEF TypeOK
  <1>10. LockType BY <1>1, <1>9 DEF LockType, Release
  <1>11. \A u \in Thread, l \in Lock : holder'[l] = u => holder[l] = u /\ l # VmLock(Top(t).contract)
    BY <1>1, <1>9, VmDispatchAssumption DEF Release
  <1>12. \A l \in Lock : Holds(Top(t), l) => l = VmLock(Top(t).contract) BY <1>1 DEF Holds
  <1> QED BY <1>1, <1>5, <1>7, <1>8, <1>10, <1>11, <1>12 DEF GoesOn

\* Lua keeps the object.
LEMMA KeepGoesOn ==
  ASSUME CallInv, NEW t \in Thread, KeepObject(t)
  PROVE  GoesOn(t)
  <1>1. /\ ~Idle(t) /\ Top(t).op = "create" /\ Top(t).phase = "returned" /\ Goto(t, "built")
        /\ UNCHANGED in_dispatch_threads /\ UNCHANGED holder
    BY DEF KeepObject, At
  <1>2. TypeOK /\ Top(t) \in Frame /\ Top(t).contract \in Contract /\ WellFormed(Top(t)) BY <1>1, TopWellFormed
  <1>3. PICK g \in Frame : Rewrites(t, g) /\ SameCall(g, Top(t)) /\ g.phase = "built" BY <1>1, <1>2, GotoFacts DEF Phase
  <1>4. ~IsPython(Top(t).contract) BY <1>1, <1>2, ContractFacts DEF WellFormed
  <1>5. WellFormed(g) BY <1>1, <1>3, <1>4 DEF WellFormed, SameCall
  <1>6. LockType BY <1>1, <1>2 DEF LockType, TypeOK
  <1>7. \A l \in Lock : ~Holds(Top(t), l) BY <1>1 DEF Holds
  <1> QED BY <1>1, <1>3, <1>5, <1>6, <1>7 DEF GoesOn

\* The caller of a call that begins.
LEMMA CallerFacts ==
  ASSUME CallInv, NEW t \in Thread, NEW op \in Op, NEW c \in Contract, Caller(t, op, c)
  PROVE  /\ Len(stack[t]) < MaxDepth
         /\ ~Idle(t) => Top(t).phase = "running" /\ MayCall(Top(t), op, c)
         /\ LockType
         /\ \A u \in Thread, l \in Lock : holder'[l] = u =>
              /\ holder[l] = u
              /\ u = t /\ ~Idle(t) => ~(IsPython(Top(t).contract) /\ l = VmLock(Top(t).contract))
  <1>1. holder \in [Lock -> Thread \cup {None}] BY DEF CallInv, TypeOK
  <1>2. CASE Idle(t)
    <2>1. Len(stack[t]) < MaxDepth /\ UNCHANGED holder BY <1>2 DEF Caller
    <2> QED BY <1>1, <1>2, <2>1 DEF LockType
  <1>3. CASE ~Idle(t)
    <2>1. /\ Len(stack[t]) < MaxDepth /\ Top(t).phase = "running" /\ MayCall(Top(t), op, c)
          /\ IF IsPython(Top(t).contract) THEN Release({VmLock(Top(t).contract)}) ELSE UNCHANGED holder
      BY <1>3 DEF Caller
    <2>2. CASE IsPython(Top(t).contract)
      <3>1. holder' = [l \in Lock |-> IF l = VmLock(Top(t).contract) THEN None ELSE holder[l]] BY <2>1, <2>2 DEF Release
      <3>2. LockType BY <1>1, <3>1 DEF LockType
      <3>3. \A u \in Thread, l \in Lock : holder'[l] = u => holder[l] = u /\ l # VmLock(Top(t).contract)
        BY <3>1, VmDispatchAssumption
      <3> QED BY <2>1, <3>2, <3>3
    <2>3. CASE ~IsPython(Top(t).contract) BY <1>1, <2>1, <2>3 DEF LockType
    <2> QED BY <2>2, <2>3
  <1> QED BY <1>2, <1>3

\* CreateInstance begins a call.
LEMMA CreateBegins ==
  ASSUME CallInv, NEW t \in Thread, NEW c \in Contract, CreateInstance(t, c)
  PROVE  \E g \in Frame : Begins(t, g) /\ g.op = "create" /\ g.contract = c
  <1>1. /\ Caller(t, "create", c) /\ ~Refused(t, c) /\ Push(t, "create", c, NullId) /\ UNCHANGED in_dispatch_threads
    BY DEF CreateInstance
  <1>2. TypeOK /\ "create" \in Op /\ NullId \in Nat BY DEF CallInv, Op, NullId
  <1>3. PICK g \in Frame : Pushes(t, g) /\ g.op = "create" /\ g.contract = c /\ g.phase = "entered" BY <1>1, <1>2, PushFacts
  <1>4. \A h \in Guards : ~Marks(g, h) BY <1>3 DEF Marks, Guarded
  <1>5. in_dispatch_threads \in [Guards -> SUBSET Thread] BY <1>2 DEF TypeOK
  <1>6. /\ Len(stack[t]) < MaxDepth
        /\ ~Idle(t) => Top(t).phase = "running" /\ MayCall(Top(t), "create", c)
        /\ LockType
        /\ \A u \in Thread, l \in Lock : holder'[l] = u =>
             /\ holder[l] = u
             /\ u = t /\ ~Idle(t) => ~(IsPython(Top(t).contract) /\ l = VmLock(Top(t).contract))
    BY <1>1, <1>2, CallerFacts
  <1>7. Begins(t, g) BY <1>1, <1>3, <1>4, <1>5, <1>6 DEF Begins
  <1> QED BY <1>3, <1>7

\* DestroyInstance begins a call.
LEMMA DestroyBegins ==
  ASSUME CallInv, NEW t \in Thread, NEW h \in handles, DestroyInstance(t, h)
  PROVE  \E g \in Frame : Begins(t, g) /\ g.op = "destroy" /\ g.contract = h.contract /\ g.id = h.id
  <1>1. Caller(t, "destroy", h.contract) /\ Push(t, "destroy", h.contract, h.id) /\ UNCHANGED in_dispatch_threads
    BY DEF DestroyInstance
  <1>2. TypeOK /\ "destroy" \in Op /\ h \in Handle BY DEF CallInv, Op, TypeOK
  <1>3. h.contract \in Contract /\ h.id \in Nat BY <1>2 DEF Handle
  <1>4. PICK g \in Frame : Pushes(t, g) /\ g.op = "destroy" /\ g.contract = h.contract /\ g.id = h.id /\ g.phase = "entered"
    BY <1>1, <1>2, <1>3, PushFacts
  <1>5. \A k \in Guards : ~Marks(g, k) BY <1>4 DEF Marks, Guarded
  <1>6. in_dispatch_threads \in [Guards -> SUBSET Thread] BY <1>2 DEF TypeOK
  <1>7. /\ Len(stack[t]) < MaxDepth
        /\ ~Idle(t) => Top(t).phase = "running" /\ MayCall(Top(t), "destroy", h.contract)
        /\ LockType
        /\ \A u \in Thread, l \in Lock : holder'[l] = u =>
             /\ holder[l] = u
             /\ u = t /\ ~Idle(t) => ~(IsPython(Top(t).contract) /\ l = VmLock(Top(t).contract))
    BY <1>1, <1>2, <1>3, CallerFacts
  <1>8. Begins(t, g) BY <1>1, <1>4, <1>5, <1>6, <1>7 DEF Begins
  <1> QED BY <1>4, <1>8

\* Dispatch begins a call.
LEMMA DispatchBegins ==
  ASSUME CallInv, NEW t \in Thread, NEW c \in Contract, NEW id, Dispatch(t, c, id)
  PROVE  \E g \in Frame : Begins(t, g) /\ g.op = "dispatch" /\ g.contract = c
  <1>1. /\ Caller(t, "dispatch", c) /\ ~Refused(t, c) /\ id \in Ids(c) /\ Push(t, "dispatch", c, id)
        /\ in_dispatch_threads' = [in_dispatch_threads EXCEPT ![Guard(c)] = IF IsPython(c) THEN @ ELSE @ \cup {t}]
    BY DEF Dispatch
  <1>2. TypeOK /\ "dispatch" \in Op BY DEF CallInv, Op
  <1>3. id \in Nat BY <1>1, <1>2 DEF Ids, NullId, TypeOK, Handle
  <1>4. PICK g \in Frame : Pushes(t, g) /\ g.op = "dispatch" /\ g.contract = c /\ g.phase = "entered"
    BY <1>1, <1>2, <1>3, PushFacts
  <1>5. in_dispatch_threads \in [Guards -> SUBSET Thread] /\ Guard(c) \in Guards BY <1>2, ContractFacts DEF TypeOK
  <1>6. \A k \in Guards : Marks(g, k) <=> ~IsPython(c) /\ k = Guard(c) BY <1>4 DEF Marks, Guarded
  <1>7. in_dispatch_threads' \in [Guards -> SUBSET Thread]
    <2>1. CASE IsPython(c) BY <1>1, <1>5, <2>1
    <2>2. CASE ~IsPython(c)
      <3>1. in_dispatch_threads[Guard(c)] \cup {t} \in SUBSET Thread BY <1>5
      <3> QED BY <1>1, <1>5, <2>2, <3>1
    <2> QED BY <2>1, <2>2
  <1>8. \A k \in Guards : in_dispatch_threads'[k] = in_dispatch_threads[k] \cup (IF Marks(g, k) THEN {t} ELSE {})
    <2> SUFFICES ASSUME NEW k \in Guards
                 PROVE in_dispatch_threads'[k] = in_dispatch_threads[k] \cup (IF Marks(g, k) THEN {t} ELSE {})
      OBVIOUS
    <2>1. CASE Marks(g, k) BY <1>1, <1>5, <1>6, <2>1
    <2>2. CASE ~Marks(g, k)
      <3>1. in_dispatch_threads'[k] = in_dispatch_threads[k] BY <1>1, <1>5, <1>6, <2>2
      <3> QED BY <2>2, <3>1
    <2> QED BY <2>1, <2>2
  <1>9. /\ Len(stack[t]) < MaxDepth
        /\ ~Idle(t) => Top(t).phase = "running" /\ MayCall(Top(t), "dispatch", c)
        /\ LockType
        /\ \A u \in Thread, l \in Lock : holder'[l] = u =>
             /\ holder[l] = u
             /\ u = t /\ ~Idle(t) => ~(IsPython(Top(t).contract) /\ l = VmLock(Top(t).contract))
    BY <1>1, <1>2, CallerFacts
  <1>10. Begins(t, g) BY <1>1, <1>4, <1>7, <1>8, <1>9 DEF Begins
  <1> QED BY <1>4, <1>10

\* No thread is marked under the guard of a Python contract.
LEMMA PythonUnmarked ==
  ASSUME CallInv, NEW t \in Thread, NEW c \in Contract, IsPython(c)
  PROVE  t \notin in_dispatch_threads[Guard(c)]
  <1>1. TypeOK /\ GuardExact BY DEF CallInv
  <1>2. Guard(c) = <<"contract", c>> /\ Guard(c) \in Guards BY ContractFacts DEF Guard
  <1>3. SUFFICES ASSUME t \in in_dispatch_threads[Guard(c)] PROVE FALSE OBVIOUS
  <1>4. PICK n \in 1 .. Len(stack[t]) : Marks(stack[t][n], Guard(c)) BY <1>1, <1>2, <1>3, GuardMarks
  <1>5. ~IsPython(stack[t][n].contract) /\ Guard(stack[t][n].contract) = <<"contract", c>> BY <1>2, <1>4 DEF Marks, Guarded
  <1>6. stack[t][n].contract = c BY <1>5 DEF Guard
  <1> QED BY <1>5, <1>6

\* A call that is no dispatch ends, without the locks L.
LEMMA UnmarkedEnds ==
  ASSUME CallInv, NEW t \in Thread, ~Idle(t), Return(t), Top(t).op # "dispatch", UNCHANGED in_dispatch_threads,
         \/ UNCHANGED holder /\ \A l \in Lock : ~Holds(Top(t), l)
         \/ Release({VmLock(Top(t).contract)}) /\ \A l \in Lock : Holds(Top(t), l) => l = VmLock(Top(t).contract)
  PROVE  Ends(t)
  <1>1. TypeOK BY DEF CallInv
  <1>2. holder \in [Lock -> Thread \cup {None}] /\ in_dispatch_threads \in [Guards -> SUBSET Thread] BY <1>1 DEF TypeOK
  <1>3. Pops(t) BY <1>1, ReturnFacts
  <1>4. \A h \in Guards : ~Marks(Top(t), h) BY DEF Marks, Guarded
  <1>5. LockType /\ \A u \in Thread, l \in Lock : holder'[l] = u => holder[l] = u /\ (u = t => ~Holds(Top(t), l))
    <2>1. CASE UNCHANGED holder /\ \A l \in Lock : ~Holds(Top(t), l) BY <1>2, <2>1 DEF LockType
    <2>2. CASE Release({VmLock(Top(t).contract)}) /\ \A l \in Lock : Holds(Top(t), l) => l = VmLock(Top(t).contract)
      <3>1. holder' = [l \in Lock |-> IF l = VmLock(Top(t).contract) THEN None ELSE holder[l]] BY <2>2 DEF Release
      <3>2. LockType BY <1>2, <3>1 DEF LockType
      <3>3. \A u \in Thread, l \in Lock : holder'[l] = u => holder[l] = u /\ l # VmLock(Top(t).contract)
        BY <3>1, VmDispatchAssumption
      <3> QED BY <2>2, <3>2, <3>3
    <2> QED BY <2>1, <2>2
  <1> QED BY <1>2, <1>3, <1>4, <1>5 DEF Ends

\* FactoryFails, FactoryReturns in Python, InsertInstance and RemoveInstance.
LEMMA CallEnds ==
  ASSUME CallInv, NEW t \in Thread,
         \/ FactoryFails(t) \/ InsertInstance(t) \/ RemoveInstance(t)
         \/ FactoryReturns(t) /\ IsPython(Top(t).contract)
  PROVE  Ends(t)
  <1>1. CASE FactoryFails(t)
    <2>1. /\ ~Idle(t) /\ Top(t).op = "create" /\ Top(t).phase \in {"running", "returned"} /\ Return(t)
          /\ Release({VmLock(Top(t).contract)}) /\ UNCHANGED in_dispatch_threads
      BY <1>1 DEF FactoryFails, At
    <2>2. \A l \in Lock : Holds(Top(t), l) => l = VmLock(Top(t).contract) BY <2>1 DEF Holds
    <2> QED BY <2>1, <2>2, UnmarkedEnds
  <1>2. CASE FactoryReturns(t) /\ IsPython(Top(t).contract)
    <2>1. /\ ~Idle(t) /\ Top(t).op = "create" /\ Top(t).phase = "running" /\ Return(t)
          /\ Release({VmLock(Top(t).contract)}) /\ UNCHANGED in_dispatch_threads
      BY <1>2 DEF FactoryReturns, At
    <2>2. \A l \in Lock : Holds(Top(t), l) => l = VmLock(Top(t).contract) BY <2>1 DEF Holds
    <2> QED BY <2>1, <2>2, UnmarkedEnds
  <1>3. CASE InsertInstance(t)
    <2>1. /\ ~Idle(t) /\ Top(t).op = "create" /\ Top(t).phase = "built" /\ Return(t)
          /\ UNCHANGED holder /\ UNCHANGED in_dispatch_threads
      BY <1>3 DEF InsertInstance, At
    <2>2. \A l \in Lock : ~Holds(Top(t), l) BY <2>1 DEF Holds
    <2> QED BY <2>1, <2>2, UnmarkedEnds
  <1>4. CASE RemoveInstance(t)
    <2>1. /\ ~Idle(t) /\ Top(t).op = "destroy" /\ Top(t).phase = "entered" /\ Return(t)
          /\ UNCHANGED holder /\ UNCHANGED in_dispatch_threads
      BY <1>4 DEF RemoveInstance, At
    <2>2. \A l \in Lock : ~Holds(Top(t), l) BY <2>1 DEF Holds
    <2> QED BY <2>1, <2>2, UnmarkedEnds
  <1> QED BY <1>1, <1>2, <1>3, <1>4

\* DispatchFails and DispatchReturns.
LEMMA DispatchEnds ==
  ASSUME CallInv, NEW t \in Thread, DispatchFails(t) \/ DispatchReturns(t)
  PROVE  Ends(t)
  <1>1. ~Idle(t) /\ Top(t).op = "dispatch" /\ DropGuard(t) /\ Return(t)
    BY DEF DispatchFails, DispatchReturns, At
  <1>2. TypeOK /\ Top(t) \in Frame /\ Top(t).contract \in Contract BY <1>1, TopWellFormed
  <1>3. PICK c \in Contract : c = Top(t).contract BY <1>2
  <1>4. /\ holder \in [Lock -> Thread \cup {None}] /\ in_dispatch_threads \in [Guards -> SUBSET Thread]
        /\ Guard(c) \in Guards
    BY <1>2, ContractFacts DEF TypeOK
  <1>5. Pops(t) BY <1>1, <1>2, ReturnFacts
  <1>6. in_dispatch_threads' = [in_dispatch_threads EXCEPT ![Guard(c)] = @ \ {t}] BY <1>1, <1>3 DEF DropGuard
  <1>7. in_dispatch_threads' \in [Guards -> SUBSET Thread]
    <2>1. in_dispatch_threads[Guard(c)] \ {t} \in SUBSET Thread BY <1>4
    <2> QED BY <1>4, <1>6, <2>1
  <1>8. \A h \in Guards : in_dispatch_threads'[h] = in_dispatch_threads[h] \ (IF Marks(Top(t), h) THEN {t} ELSE {})
    <2> SUFFICES ASSUME NEW h \in Guards
                 PROVE in_dispatch_threads'[h] = in_dispatch_threads[h] \ (IF Marks(Top(t), h) THEN {t} ELSE {})
      OBVIOUS
    <2>1. Marks(Top(t), h) <=> ~IsPython(c) /\ h = Guard(c) BY <1>1, <1>3 DEF Marks, Guarded
    <2>2. CASE Marks(Top(t), h) BY <1>4, <1>6, <2>1, <2>2
    <2>3. CASE ~Marks(Top(t), h)
      <3>1. IsPython(c) => t \notin in_dispatch_threads[Guard(c)] BY PythonUnmarked
      <3>2. in_dispatch_threads'[h] = in_dispatch_threads[h]
        <4>1. CASE h # Guard(c) BY <1>4, <1>6, <4>1
        <4>2. CASE h = Guard(c)
          <5>1. in_dispatch_threads'[h] = in_dispatch_threads[h] \ {t} BY <1>4, <1>6, <4>2
          <5>2. t \notin in_dispatch_threads[h] BY <2>1, <2>3, <3>1, <4>2
          <5> QED BY <5>1, <5>2
        <4> QED BY <4>1, <4>2
      <3> QED BY <2>3, <3>2
    <2> QED BY <2>2, <2>3
  <1>9. LockType /\ \A u \in Thread, l \in Lock : holder'[l] = u => holder[l] = u /\ (u = t => ~Holds(Top(t), l))
    <2>1. CASE DispatchFails(t)
      <3>1. /\ Top(t).phase \in {"entered", "lookup"}
            /\ holder' = [holder EXCEPT ![Registry(c)] = IF @ = t THEN None ELSE @]
        BY <1>3, <2>1 DEF DispatchFails, At
      <3>2. \A l \in Lock : Holds(Top(t), l) => l = Registry(c) BY <1>3, <3>1 DEF Holds
      <3>3. LockType BY <1>4, <3>1 DEF LockType
      <3>4. \A u \in Thread, l \in Lock : holder'[l] = u => holder[l] = u /\ (u = t => l # Registry(c))
        BY <1>4, <3>1, VmDispatchAssumption
      <3> QED BY <3>2, <3>3, <3>4
    <2>2. CASE DispatchReturns(t)
      <3>1. Top(t).phase = "running" /\ Release({VmLock(c), DispatchLock(c)}) BY <1>3, <2>2 DEF DispatchReturns, At
      <3>2. holder' = [l \in Lock |-> IF l \in {VmLock(c), DispatchLock(c)} THEN None ELSE holder[l]] BY <3>1 DEF Release
      <3>3. LockType BY <1>4, <3>2 DEF LockType
      <3>4. \A u \in Thread, l \in Lock : holder'[l] = u => holder[l] = u /\ l \notin {VmLock(c), DispatchLock(c)}
        BY <3>2, VmDispatchAssumption
      <3>5. \A l \in Lock : Holds(Top(t), l) => l \in {VmLock(c), DispatchLock(c)} BY <1>3, <3>1 DEF Holds
      <3> QED BY <3>3, <3>4, <3>5
    <2> QED BY <2>1, <2>2
  <1> QED BY <1>5, <1>7, <1>8, <1>9 DEF Ends

-----------------------------------------------------------------------------
(***************************************************************************)
(* Instances and handles.                                                  *)
(***************************************************************************)
HandleInv == HandlesTracked /\ HandleRoutes

\* Every call to destroy was there before.
NoDestroyBegins ==
  \A u \in Thread : \A n \in 1 .. Len(stack'[u]) : stack'[u][n].op = "destroy" =>
    \E m \in 1 .. Len(stack[u]) : SameCall(stack'[u][n], stack[u][m])

\* The variables of handles keep their types.
HandleTypes ==
  /\ next_id' \in [Contract -> Nat \ {NullId}]
  /\ DOMAIN instances' = Contract /\ \A c \in Contract : \A i \in DOMAIN instances'[c] : instances'[c][i] \in Nat
  /\ objects' \in 0 .. MaxObjects
  /\ handles' \subseteq Handle

\* A call that goes on or ends begins no call.
LEMMA NoneBegins ==
  ASSUME CallInv, NEW t \in Thread, GoesOn(t) \/ Ends(t)
  PROVE  NoDestroyBegins
  <1>0. TypeOK BY DEF CallInv
  <1>1. CASE GoesOn(t)
    <2>1. PICK g \in Frame : Rewrites(t, g) /\ SameCall(g, Top(t)) BY <1>1 DEF GoesOn
    <2>2. \A u \in Thread : /\ Len(stack'[u]) = Len(stack[u])
                            /\ \A n \in 1 .. Len(stack[u]) : SameCall(stack'[u][n], stack[u][n])
      BY <1>0, <2>1, RewriteCalls
    <2> QED BY <2>2 DEF NoDestroyBegins
  <1>2. CASE Ends(t)
    <2>1. /\ \A n \in 1 .. Len(stack[t]) - 1 : SameCall(stack'[t][n], stack[t][n])
          /\ Len(stack[t]) \in Nat /\ Len(stack'[t]) = Len(stack[t]) - 1
          /\ \A u \in Thread : u # t => stack'[u] = stack[u]
      BY <1>0, <1>2, PopCalls DEF Ends, Pops, OthersKept
    <2>2. \A n \in 1 .. Len(stack'[t]) : n \in 1 .. Len(stack[t]) /\ SameCall(stack'[t][n], stack[t][n]) BY <2>1
    <2>3. \A u \in Thread : \A n \in 1 .. Len(stack'[u]) : n \in 1 .. Len(stack[u]) /\ SameCall(stack'[u][n], stack[u][n])
      BY <2>1, <2>2 DEF SameCall
    <2> QED BY <2>3 DEF NoDestroyBegins
  <1> QED BY <1>1, <1>2

\* The calls after a call has begun.
LEMMA BegunCalls ==
  ASSUME CallInv, NEW t \in Thread, NEW g \in Frame, Begins(t, g)
  PROVE  \A u \in Thread : \A n \in 1 .. Len(stack'[u]) :
           \/ stack'[u][n] = g
           \/ \E m \in 1 .. Len(stack[u]) : SameCall(stack'[u][n], stack[u][m])
  <1>0. TypeOK /\ Pushes(t, g) BY DEF CallInv, Begins
  <1>1. /\ \A n \in 1 .. Len(stack[t]) : SameCall(stack'[t][n], stack[t][n])
        /\ Len(stack[t]) \in Nat
    BY <1>0, PushCalls
  <1>2. /\ \A u \in Thread : u # t => stack'[u] = stack[u]
        /\ Len(stack'[t]) = Len(stack[t]) + 1 /\ stack'[t][Len(stack[t]) + 1] = g
    BY <1>0 DEF Pushes, OthersKept
  <1>3. \A n \in 1 .. Len(stack'[t]) : stack'[t][n] = g \/ (n \in 1 .. Len(stack[t]) /\ SameCall(stack'[t][n], stack[t][n]))
    BY <1>1, <1>2
  <1>4. \A u \in Thread : u # t => \A n \in 1 .. Len(stack'[u]) : n \in 1 .. Len(stack[u]) /\ SameCall(stack'[u][n], stack[u][n])
    BY <1>2 DEF SameCall
  <1> QED BY <1>3, <1>4

\* Steps that leave the handles alone.
LEMMA HandlesAlone ==
  ASSUME TypeOK, HandleInv, NoDestroyBegins, UNCHANGED <<next_id, instances, handles>>
  PROVE  HandlesTracked' /\ HandleRoutes'
  <1>1. \A u \in Thread : \A n \in 1 .. Len(stack'[u]) : stack'[u][n].op = "destroy" =>
          \E h \in handles' : h.contract = stack'[u][n].contract /\ h.id = stack'[u][n].id /\ ~h.live
    BY DEF HandleInv, HandlesTracked, NoDestroyBegins, SameCall
  <1>2. UNCHANGED next_id /\ UNCHANGED instances /\ UNCHANGED handles OBVIOUS
  <1>3. HandlesTracked' BY <1>1, <1>2 DEF HandleInv, HandlesTracked
  <1>4. HandleRoutes' BY <1>2 DEF HandleInv, HandleRoutes
  <1> QED BY <1>3, <1>4

\* A new id is minted.
LEMMA InsertHandles ==
  ASSUME TypeOK, HandleInv, NoDestroyBegins, NEW c \in Contract, NEW o \in Nat, Insert(c, o)
  PROVE  /\ next_id' \in [Contract -> Nat \ {NullId}]
         /\ DOMAIN instances' = Contract /\ \A d \in Contract : \A i \in DOMAIN instances'[d] : instances'[d][i] \in Nat
         /\ handles' \subseteq Handle
         /\ HandlesTracked' /\ HandleRoutes'
  <1>1. /\ next_id \in [Contract -> Nat \ {NullId}] /\ DOMAIN instances = Contract /\ handles \subseteq Handle
        /\ \A d \in Contract : \A i \in DOMAIN instances[d] : instances[d][i] \in Nat
    BY DEF TypeOK
  <1>2. PICK id : id = next_id[c] OBVIOUS
  <1>3. id \in Nat \ {NullId} BY <1>1, <1>2
  <1>4. next_id' = [next_id EXCEPT ![c] = id + 1] BY <1>2 DEF Insert
  <1>5. id + 1 \in Nat \ {NullId} BY <1>3 DEF NullId, DefaultImpl
  <1>6. /\ next_id' \in [Contract -> Nat \ {NullId}] /\ next_id'[c] = id + 1
        /\ \A d \in Contract : d # c => next_id'[d] = next_id[d]
    BY <1>1, <1>4, <1>5
  <1>7. PICK k : k = [contract |-> c, id |-> id, object |-> o, live |-> TRUE] OBVIOUS
  <1>8. k \in Handle /\ k.contract = c /\ k.id = id /\ k.object = o /\ k.live = TRUE BY <1>3, <1>7 DEF Handle
  <1>9. handles' = handles \cup {k} BY <1>2, <1>7 DEF Insert, MintId
  <1>10. instances' = [instances EXCEPT ![c] =
           [i \in DOMAIN instances[c] \cup {id} |-> IF i = id THEN o ELSE instances[c][i]]]
    BY <1>2 DEF Insert, MintId
  <1>11. /\ DOMAIN instances' = Contract
         /\ \A d \in Contract : d # c => instances'[d] = instances[d]
         /\ instances'[c] = [i \in DOMAIN instances[c] \cup {id} |-> IF i = id THEN o ELSE instances[c][i]]
    BY <1>1, <1>10
  <1>12. /\ DOMAIN instances'[c] = DOMAIN instances[c] \cup {id} /\ instances'[c][id] = o
         /\ \A i \in DOMAIN instances[c] : i # id => instances'[c][i] = instances[c][i]
    BY <1>11
  <1>13. \A d \in Contract : \A i \in DOMAIN instances'[d] : instances'[d][i] \in Nat BY <1>1, <1>11, <1>12
  <1>14. /\ \A h \in handles : h.id < next_id[h.contract] /\ h.contract \in Contract /\ h.id \in Nat
         /\ \A d \in Contract : DOMAIN instances[d] \subseteq 1 .. next_id[d] - 1
         /\ \A h, j \in handles : h.contract = j.contract /\ h.id = j.id => h = j
         /\ \A u \in Thread : \A n \in 1 .. Len(stack[u]) : stack[u][n].op = "destroy" =>
              \E h \in handles : h.contract = stack[u][n].contract /\ h.id = stack[u][n].id /\ ~h.live
    BY <1>1 DEF HandleInv, HandlesTracked, Handle
  <1>15. \A h \in handles : h.contract = c => h.id # id
    <2> SUFFICES ASSUME NEW h \in handles, h.contract = c, h.id = id PROVE FALSE OBVIOUS
    <2>1. id < id BY <1>2, <1>14
    <2> QED BY <1>3, <2>1
  <1>16. HandlesTracked'
    <2>1. \A h \in handles' : h.id < next_id'[h.contract]
      <3>1. k.id < next_id'[k.contract] BY <1>3, <1>6, <1>8
      <3>2. ASSUME NEW h \in handles PROVE h.id < next_id'[h.contract]
        <4>1. h.id < next_id[h.contract] /\ h.contract \in Contract /\ h.id \in Nat BY <1>14
        <4>2. CASE h.contract = c BY <1>2, <1>3, <1>6, <4>1, <4>2
        <4>3. CASE h.contract # c BY <1>6, <4>1, <4>3
        <4> QED BY <4>2, <4>3
      <3> QED BY <1>9, <3>1, <3>2
    <2>2. \A d \in Contract : DOMAIN instances'[d] \subseteq 1 .. next_id'[d] - 1
      <3> SUFFICES ASSUME NEW d \in Contract, NEW i \in DOMAIN instances'[d] PROVE i \in 1 .. next_id'[d] - 1 OBVIOUS
      <3>1. CASE d # c BY <1>6, <1>11, <1>14, <3>1
      <3>2. CASE d = c
        <4>1. i = id \/ i \in 1 .. id - 1 BY <1>2, <1>12, <1>14, <3>2
        <4>2. next_id'[d] - 1 = id BY <1>3, <1>6, <3>2
        <4> QED BY <1>3, <4>1, <4>2 DEF NullId, DefaultImpl
      <3> QED BY <3>1, <3>2
    <2>3. \A h, j \in handles' : h.contract = j.contract /\ h.id = j.id => h = j BY <1>8, <1>9, <1>14, <1>15
    <2>4. \A u \in Thread : \A n \in 1 .. Len(stack'[u]) : stack'[u][n].op = "destroy" =>
            \E h \in handles' : h.contract = stack'[u][n].contract /\ h.id = stack'[u][n].id /\ ~h.live
      BY <1>9, <1>14 DEF NoDestroyBegins, SameCall
    <2> QED BY <2>1, <2>2, <2>3, <2>4 DEF HandlesTracked
  <1>17. HandleRoutes'
    <2>1. ASSUME NEW h \in handles'
          PROVE  /\ h.id \in DOMAIN instances'[h.contract] => instances'[h.contract][h.id] = h.object
                 /\ h.live => h.id \in DOMAIN instances'[h.contract]
      <3>1. CASE h = k BY <1>8, <1>12, <3>1
      <3>2. CASE h \in handles
        <4>1. /\ h.id \in DOMAIN instances[h.contract] => instances[h.contract][h.id] = h.object
              /\ h.live => h.id \in DOMAIN instances[h.contract]
              /\ h.contract \in Contract
          BY <1>14, <3>2 DEF HandleInv, HandleRoutes
        <4>2. CASE h.contract = c BY <1>12, <1>15, <3>2, <4>1, <4>2
        <4>3. CASE h.contract # c BY <1>11, <4>1, <4>3
        <4> QED BY <4>2, <4>3
      <3> QED BY <1>9, <3>1, <3>2
    <2> QED BY <2>1 DEF HandleRoutes
  <1> QED BY <1>6, <1>8, <1>9, <1>1, <1>11, <1>13, <1>16, <1>17

\* An id is removed.
LEMMA RemoveHandles ==
  ASSUME TypeOK, HandleInv, NoDestroyBegins, NEW t \in Thread, RemoveInstance(t)
  PROVE  /\ DOMAIN instances' = Contract /\ \A d \in Contract : \A i \in DOMAIN instances'[d] : instances'[d][i] \in Nat
         /\ HandlesTracked' /\ HandleRoutes'
  <1>1. /\ ~Idle(t) /\ Top(t).op = "destroy" /\ UNCHANGED next_id /\ UNCHANGED handles
        /\ instances' = [instances EXCEPT ![Top(t).contract] = [i \in DOMAIN @ \ {Top(t).id} |-> @[i]]]
    BY DEF RemoveInstance, At
  <1>2. Top(t).contract \in Contract /\ Len(stack[t]) \in 1 .. Len(stack[t]) BY <1>1, StackFacts
  <1>3. PICK c \in Contract : c = Top(t).contract BY <1>2
  <1>4. PICK id : id = Top(t).id OBVIOUS
  <1>5. PICK k \in handles : k.contract = c /\ k.id = id /\ ~k.live
    BY <1>1, <1>2, <1>3, <1>4 DEF HandleInv, HandlesTracked, Top
  <1>6. /\ DOMAIN instances = Contract /\ handles \subseteq Handle
        /\ \A d \in Contract : \A i \in DOMAIN instances[d] : instances[d][i] \in Nat
    BY DEF TypeOK
  <1>7. instances' = [instances EXCEPT ![c] = [i \in DOMAIN instances[c] \ {id} |-> instances[c][i]]] BY <1>1, <1>3, <1>4
  <1>8. /\ DOMAIN instances' = Contract
        /\ \A d \in Contract : d # c => instances'[d] = instances[d]
        /\ instances'[c] = [i \in DOMAIN instances[c] \ {id} |-> instances[c][i]]
    BY <1>6, <1>7
  <1>9. /\ DOMAIN instances'[c] = DOMAIN instances[c] \ {id}
        /\ \A i \in DOMAIN instances'[c] : instances'[c][i] = instances[c][i]
    BY <1>8
  <1>10. \A d \in Contract : DOMAIN instances'[d] \subseteq DOMAIN instances[d]
           /\ \A i \in DOMAIN instances'[d] : instances'[d][i] = instances[d][i]
    BY <1>8, <1>9
  <1>11. \A h \in handles : h.contract = c /\ h.id = id => ~h.live BY <1>5 DEF HandleInv, HandlesTracked
  <1>12. HandlesTracked'
    <2>1. \A d \in Contract : DOMAIN instances'[d] \subseteq 1 .. next_id'[d] - 1
      BY <1>1, <1>10 DEF HandleInv, HandlesTracked
    <2>2. \A u \in Thread : \A n \in 1 .. Len(stack'[u]) : stack'[u][n].op = "destroy" =>
            \E h \in handles' : h.contract = stack'[u][n].contract /\ h.id = stack'[u][n].id /\ ~h.live
      BY <1>1 DEF HandleInv, HandlesTracked, NoDestroyBegins, SameCall
    <2> QED BY <1>1, <2>1, <2>2 DEF HandleInv, HandlesTracked
  <1>13. HandleRoutes'
    <2>1. ASSUME NEW h \in handles
          PROVE  /\ h.id \in DOMAIN instances'[h.contract] => instances'[h.contract][h.id] = h.object
                 /\ h.live => h.id \in DOMAIN instances'[h.contract]
      <3>1. /\ h.id \in DOMAIN instances[h.contract] => instances[h.contract][h.id] = h.object
            /\ h.live => h.id \in DOMAIN instances[h.contract]
            /\ h.contract \in Contract
        BY <1>6 DEF HandleInv, HandleRoutes, Handle
      <3>2. CASE h.contract = c BY <1>9, <1>11, <3>1, <3>2
      <3>3. CASE h.contract # c BY <1>8, <3>1, <3>3
      <3> QED BY <3>2, <3>3
    <2> QED BY <1>1, <2>1 DEF HandleRoutes
  <1> QED BY <1>6, <1>8, <1>10, <1>12, <1>13

\* A handle is given up.
LEMMA DestroyHandles ==
  ASSUME CallInv, HandleInv, NEW t \in Thread, NEW h \in handles, DestroyInstance(t, h)
  PROVE  handles' \subseteq Handle /\ HandlesTracked' /\ HandleRoutes'
  <1>1. /\ handles' = (handles \ {h}) \cup {[h EXCEPT !.live = FALSE]}
        /\ UNCHANGED next_id /\ UNCHANGED instances
    BY DEF DestroyInstance
  <1>2. handles \subseteq Handle BY DEF CallInv, TypeOK
  <1>3. PICK k : k = [h EXCEPT !.live = FALSE] OBVIOUS
  <1>4. k \in Handle /\ k.contract = h.contract /\ k.id = h.id /\ k.object = h.object /\ k.live = FALSE
    <2>1. h \in Handle BY <1>2
    <2> QED BY <1>3, <2>1 DEF Handle
  <1>5. handles' = (handles \ {h}) \cup {k} BY <1>1, <1>3
  <1>6. PICK g \in Frame : Begins(t, g) /\ g.op = "destroy" /\ g.contract = h.contract /\ g.id = h.id BY DestroyBegins
  <1>7. \A u \in Thread : \A n \in 1 .. Len(stack'[u]) :
          \/ stack'[u][n] = g
          \/ \E m \in 1 .. Len(stack[u]) : SameCall(stack'[u][n], stack[u][m])
    BY <1>6, BegunCalls
  <1>8. HandlesTracked'
    <2>1. \A j \in handles' : j.id < next_id'[j.contract] BY <1>1, <1>4, <1>5 DEF HandleInv, HandlesTracked
    <2>2. \A i, j \in handles' : i.contract = j.contract /\ i.id = j.id => i = j
      <3>1. \A j \in handles : j # h => ~(j.contract = k.contract /\ j.id = k.id) BY <1>4 DEF HandleInv, HandlesTracked
      <3> QED BY <1>5, <3>1 DEF HandleInv, HandlesTracked
    <2>3. ASSUME NEW u \in Thread, NEW n \in 1 .. Len(stack'[u]), stack'[u][n].op = "destroy"
          PROVE  \E j \in handles' : j.contract = stack'[u][n].contract /\ j.id = stack'[u][n].id /\ ~j.live
      <3>1. CASE stack'[u][n] = g BY <1>4, <1>5, <1>6, <3>1
      <3>2. ASSUME NEW m \in 1 .. Len(stack[u]), SameCall(stack'[u][n], stack[u][m])
            PROVE  \E j \in handles' : j.contract = stack'[u][n].contract /\ j.id = stack'[u][n].id /\ ~j.live
        <4>1. PICK j \in handles : j.contract = stack'[u][n].contract /\ j.id = stack'[u][n].id /\ ~j.live
          BY <2>3, <3>2 DEF SameCall, HandleInv, HandlesTracked
        <4>2. CASE j = h BY <1>4, <1>5, <4>1, <4>2
        <4>3. CASE j # h BY <1>5, <4>1, <4>3
        <4> QED BY <4>2, <4>3
      <3> QED BY <1>7, <3>1, <3>2
    <2>4. \A c \in Contract : DOMAIN instances'[c] \subseteq 1 .. next_id'[c] - 1 BY <1>1 DEF HandleInv, HandlesTracked
    <2> QED BY <2>1, <2>2, <2>3, <2>4 DEF HandlesTracked
  <1>9. HandleRoutes' BY <1>1, <1>4, <1>5 DEF HandleInv, HandleRoutes
  <1> QED BY <1>2, <1>4, <1>5, <1>8, <1>9

-----------------------------------------------------------------------------
(***************************************************************************)
(* Instances that are being looked up.                                     *)
(***************************************************************************)

\* What a step of t must keep for the lookups of others, and for its own.
LookupsKept(t) ==
  /\ OthersKept(t)
  /\ \A n \in 1 .. Len(stack'[t]) : stack'[t][n].phase = "lookup" =>
       /\ holder'[Registry(stack'[t][n].contract)] = t
       /\ stack'[t][n].id = NullId \/ stack'[t][n].id \in DOMAIN instances'[stack'[t][n].contract]
  /\ \A u \in Thread, c \in Contract : u # t /\ IsLua(c) /\ holder[Registry(c)] = u =>
       holder'[Registry(c)] = u /\ DOMAIN instances[c] \subseteq DOMAIN instances'[c]

\* It is enough.
LEMMA KeptLookups ==
  ASSUME CallInv, LookupsHeld, NEW t \in Thread, LookupsKept(t)
  PROVE  LookupsHeld'
  <1>0. TypeOK /\ StackShape BY DEF CallInv
  <1>1. /\ \A u \in Thread : u # t => stack'[u] = stack[u]
        /\ \A n \in 1 .. Len(stack'[t]) : stack'[t][n].phase = "lookup" =>
             /\ holder'[Registry(stack'[t][n].contract)] = t
             /\ stack'[t][n].id = NullId \/ stack'[t][n].id \in DOMAIN instances'[stack'[t][n].contract]
        /\ \A u \in Thread, c \in Contract : u # t /\ IsLua(c) /\ holder[Registry(c)] = u =>
             holder'[Registry(c)] = u /\ DOMAIN instances[c] \subseteq DOMAIN instances'[c]
    BY DEF LookupsKept, OthersKept
  <1>2. ASSUME NEW u \in Thread, NEW n \in 1 .. Len(stack'[u]), stack'[u][n].phase = "lookup"
        PROVE  /\ holder'[Registry(stack'[u][n].contract)] = u
               /\ stack'[u][n].id = NullId \/ stack'[u][n].id \in DOMAIN instances'[stack'[u][n].contract]
    <2>1. CASE u = t BY <1>1, <1>2, <2>1
    <2>2. CASE u # t
      <3>1. stack'[u] = stack[u] /\ n \in 1 .. Len(stack[u]) BY <1>1, <2>2
      <3>2. PICK f : f = stack[u][n] OBVIOUS
      <3>3. f \in Frame BY <1>0, <3>1, <3>2, StackFacts
      <3>4. f.phase = "lookup" /\ f.contract \in Contract BY <1>2, <3>1, <3>2, <3>3 DEF Frame
      <3>5. WellFormed(f) BY <1>0, <3>1, <3>2 DEF StackShape
      <3>6. IsLua(f.contract) BY <3>4, <3>5 DEF WellFormed
      <3>7. holder[Registry(f.contract)] = u /\ (f.id = NullId \/ f.id \in DOMAIN instances[f.contract])
        BY <3>1, <3>2, <3>4 DEF LookupsHeld, Known
      <3>8. holder'[Registry(f.contract)] = u /\ DOMAIN instances[f.contract] \subseteq DOMAIN instances'[f.contract]
        BY <1>1, <2>2, <3>4, <3>6, <3>7
      <3> QED BY <3>1, <3>2, <3>7, <3>8
    <2> QED BY <2>1, <2>2
  <1> QED BY <1>2 DEF LookupsHeld, Known, Registry

\* A call that begins or ends leaves its thread with no lookup.
LEMMA NoLookup ==
  ASSUME CallInv, NEW t \in Thread, Ends(t) \/ \E g \in Frame : Begins(t, g)
  PROVE  OthersKept(t) /\ \A n \in 1 .. Len(stack'[t]) : stack'[t][n].phase # "lookup"
  <1>0. TypeOK /\ StackShape BY DEF CallInv
  <1>1. CASE Ends(t)
    <2>0. Pops(t) BY <1>1 DEF Ends
    <2>1. /\ OthersKept(t) /\ ~Idle(t) /\ Len(stack'[t]) = Len(stack[t]) - 1
          /\ \A n \in 1 .. Len(stack[t]) - 2 : stack'[t][n] = stack[t][n]
          /\ \A n \in 1 .. Len(stack[t]) - 1 : n = Len(stack[t]) - 1 =>
               stack'[t][n] = IF IsPython(stack[t][n].contract) THEN stack[t][n]
                              ELSE [stack[t][n] EXCEPT !.phase = "running"]
      BY <2>0 DEF Pops
    <2>2. Len(stack[t]) \in Nat /\ \A n \in 1 .. Len(stack[t]) : stack[t][n] \in Frame BY <1>0, StackFacts
    <2>3. \A n \in 1 .. Len(stack[t]) - 1 : stack[t][n].phase = "calling" /\ stack[t][n] \in Frame
      BY <1>0, <2>2 DEF StackShape
    <2>4. ASSUME NEW n \in 1 .. Len(stack'[t]) PROVE stack'[t][n].phase # "lookup"
      <3>1. n \in 1 .. Len(stack[t]) - 1 BY <2>1
      <3>2. CASE n = Len(stack[t]) - 1
        <4>1. [stack[t][n] EXCEPT !.phase = "running"].phase = "running" BY <2>3, <3>1, FrameFacts DEF Phase
        <4> QED BY <2>1, <2>3, <3>1, <3>2, <4>1
      <3>3. CASE n # Len(stack[t]) - 1
        <4>1. n \in 1 .. Len(stack[t]) - 2 BY <2>2, <3>1, <3>3
        <4> QED BY <2>1, <2>3, <3>1, <4>1
      <3> QED BY <3>2, <3>3
    <2> QED BY <2>1, <2>4
  <1>2. ASSUME NEW g \in Frame, Begins(t, g) PROVE OthersKept(t) /\ \A n \in 1 .. Len(stack'[t]) : stack'[t][n].phase # "lookup"
    <2>1. OthersKept(t) /\ Len(stack'[t]) = Len(stack[t]) + 1 /\ stack'[t][Len(stack[t]) + 1] = g /\ g.phase = "entered"
      BY <1>2 DEF Begins, Pushes
    <2>2. Len(stack[t]) \in Nat BY <1>0, StackFacts
    <2>3. StackShape' BY <1>2, BeginsKeeps DEF CallsKept
    <2>4. \A n \in 1 .. Len(stack'[t]) : n < Len(stack'[t]) => stack'[t][n].phase = "calling" BY <2>3 DEF StackShape
    <2>5. ASSUME NEW n \in 1 .. Len(stack'[t]) PROVE stack'[t][n].phase # "lookup"
      <3>1. CASE n < Len(stack'[t]) BY <2>4, <3>1
      <3>2. CASE n = Len(stack[t]) + 1 BY <2>1, <3>2
      <3> QED BY <2>1, <2>2, <3>1, <3>2
    <2> QED BY <2>1, <2>5
  <1> QED BY <1>1, <1>2

\* Nor does a call that goes on, but for LuaLookup.
LEMMA LookupOnTop ==
  ASSUME CallInv, NEW t \in Thread, GoesOn(t), ~LuaLookup(t)
  PROVE  OthersKept(t) /\ \A n \in 1 .. Len(stack'[t]) : stack'[t][n].phase # "lookup"
  <1>1. PICK g \in Frame : Rewrites(t, g) /\ g.phase # "lookup" BY DEF GoesOn
  <1>2. OthersKept(t) /\ Len(stack'[t]) = Len(stack[t]) /\ stack'[t][Len(stack[t])] = g BY <1>1 DEF Rewrites
  <1>3. Len(stack[t]) \in Nat BY StackFacts DEF CallInv
  <1>4. StackShape' BY GoesOnKeeps DEF CallsKept
  <1>5. \A n \in 1 .. Len(stack'[t]) : n < Len(stack'[t]) => stack'[t][n].phase = "calling" BY <1>4 DEF StackShape
  <1>6. ASSUME NEW n \in 1 .. Len(stack'[t]) PROVE stack'[t][n].phase # "lookup"
    <2>1. CASE n < Len(stack'[t]) BY <1>5, <2>1
    <2>2. CASE n = Len(stack[t]) BY <1>1, <1>2, <2>2
    <2> QED BY <1>2, <1>3, <2>1, <2>2
  <1> QED BY <1>2, <1>6

\* Lua's own lookup.
LEMMA LuaLookupKept ==
  ASSUME CallInv, LookupsHeld, NEW t \in Thread, LuaLookup(t)
  PROVE  LookupsHeld'
  <1>1. /\ ~Idle(t) /\ Top(t).op = "dispatch" /\ Top(t).phase = "entered" /\ IsLua(Top(t).contract) /\ Top(t).id # NullId
        /\ Known(Top(t)) /\ Ready(t) /\ Take(t) /\ Goto(t, "lookup") /\ UNCHANGED instances
    BY DEF LuaLookup, At
  <1>2. TypeOK /\ Top(t) \in Frame /\ Top(t).contract \in Contract /\ WellFormed(Top(t)) BY <1>1, TopWellFormed
  <1>3. PICK g \in Frame : Rewrites(t, g) /\ SameCall(g, Top(t)) /\ g.phase = "lookup" BY <1>1, <1>2, GotoFacts DEF Phase
  <1>4. ~IsPython(Top(t).contract) /\ Registry(Top(t).contract) \in Lock BY <1>1, <1>2, ContractFacts
  <1>5. Needed(t) = Registry(Top(t).contract) BY <1>1, <1>2, <1>4, NeededFacts DEF Needed
  <1>6. Registry(Top(t).contract) # <<>> BY <1>2, LockFacts
  <1>7. holder[Registry(Top(t).contract)] = None BY <1>1, <1>5, <1>6 DEF Ready
  <1>8. holder \in [Lock -> Thread \cup {None}] BY <1>2 DEF TypeOK
  <1>9. holder' = [holder EXCEPT ![Registry(Top(t).contract)] = t] BY <1>1, <1>5 DEF Take
  <1>10. holder'[Registry(Top(t).contract)] = t BY <1>4, <1>8, <1>9
  <1>11. \A u \in Thread, c \in Contract : holder[Registry(c)] = u => holder'[Registry(c)] = u
    <2> SUFFICES ASSUME NEW u \in Thread, NEW c \in Contract, holder[Registry(c)] = u PROVE holder'[Registry(c)] = u OBVIOUS
    <2>1. Registry(c) # Registry(Top(t).contract) BY <1>7, VmDispatchAssumption
    <2>2. Registry(c) \in Lock BY ContractFacts
    <2> QED BY <1>8, <1>9, <2>1, <2>2
  <1>12. OthersKept(t) /\ Len(stack'[t]) = Len(stack[t]) /\ stack'[t][Len(stack[t])] = g BY <1>3 DEF Rewrites
  <1>13. GoesOn(t) BY LuaLookupGoesOn
  <1>14. StackShape' BY <1>13, GoesOnKeeps DEF CallsKept
  <1>15. \A n \in 1 .. Len(stack'[t]) : n < Len(stack'[t]) => stack'[t][n].phase = "calling" BY <1>14 DEF StackShape
  <1>16. ASSUME NEW n \in 1 .. Len(stack'[t]), stack'[t][n].phase = "lookup"
         PROVE  /\ holder'[Registry(stack'[t][n].contract)] = t
                /\ stack'[t][n].id = NullId \/ stack'[t][n].id \in DOMAIN instances'[stack'[t][n].contract]
    <2>1. Len(stack[t]) \in Nat BY <1>2, StackFacts
    <2>2. n = Len(stack[t]) BY <1>12, <1>15, <1>16, <2>1
    <2>3. stack'[t][n] = g BY <1>12, <2>2
    <2>4. g.contract = Top(t).contract /\ g.id = Top(t).id BY <1>3 DEF SameCall
    <2>5. Top(t).id \in DOMAIN instances'[Top(t).contract] BY <1>1 DEF Known
    <2> QED BY <1>10, <2>3, <2>4, <2>5
  <1>17. LookupsKept(t) BY <1>1, <1>11, <1>12, <1>16 DEF LookupsKept
  <1> QED BY <1>17, KeptLookups

\* Steps that neither take nor remove what another thread looks up.
LEMMA OtherLookups ==
  ASSUME CallInv, LookupsHeld, NEW t \in Thread,
         Ends(t) \/ (\E g \in Frame : Begins(t, g)) \/ (GoesOn(t) /\ ~LuaLookup(t)),
         \A u \in Thread, c \in Contract : u # t /\ IsLua(c) /\ holder[Registry(c)] = u =>
           holder'[Registry(c)] = u /\ DOMAIN instances[c] \subseteq DOMAIN instances'[c]
  PROVE  LookupsHeld'
  <1>1. OthersKept(t) /\ \A n \in 1 .. Len(stack'[t]) : stack'[t][n].phase # "lookup" BY NoLookup, LookupOnTop
  <1>2. LookupsKept(t) BY <1>1 DEF LookupsKept
  <1> QED BY <1>2, KeptLookups

\* Taking a free lock, or releasing a VM and its dispatch lock, leaves the
\* instances mutexes of others.
LEMMA RegistriesKept ==
  ASSUME TypeOK, NEW t \in Thread,
         \/ UNCHANGED holder
         \/ Ready(t) /\ Needed(t) # <<>> /\ Take(t)
         \/ \E d \in Contract : Release({VmLock(d)}) \/ Release({VmLock(d), DispatchLock(d)})
         \/ \E d \in Contract : holder' = [holder EXCEPT ![Registry(d)] = IF @ = t THEN None ELSE @]
  PROVE  \A u \in Thread, c \in Contract : u # t /\ holder[Registry(c)] = u => holder'[Registry(c)] = u
  <1> SUFFICES ASSUME NEW u \in Thread, NEW c \in Contract, u # t, holder[Registry(c)] = u
               PROVE  holder'[Registry(c)] = u
    OBVIOUS
  <1>1. holder \in [Lock -> Thread \cup {None}] /\ Registry(c) \in Lock BY ContractFacts DEF TypeOK
  <1>2. CASE UNCHANGED holder BY <1>2
  <1>3. CASE Ready(t) /\ Needed(t) # <<>> /\ Take(t)
    <2>1. Needed(t) # Registry(c) BY <1>3, VmDispatchAssumption DEF Ready
    <2> QED BY <1>1, <1>3, <2>1 DEF Take
  <1>4. ASSUME NEW d \in Contract, Release({VmLock(d)}) \/ Release({VmLock(d), DispatchLock(d)}) PROVE holder'[Registry(c)] = u
    <2>1. Registry(c) \notin {VmLock(d), DispatchLock(d)} BY LockFacts
    <2> QED BY <1>1, <1>4, <2>1 DEF Release
  <1>5. ASSUME NEW d \in Contract, holder' = [holder EXCEPT ![Registry(d)] = IF @ = t THEN None ELSE @]
        PROVE  holder'[Registry(c)] = u
    BY <1>1, <1>5
  <1> QED BY <1>2, <1>3, <1>4, <1>5

-----------------------------------------------------------------------------
(***************************************************************************)
(* The invariant.                                                          *)
(***************************************************************************)

\* The parts of the invariant.
LEMMA InvParts ==
  ASSUME DispatchInv
  PROVE  CallInv /\ TypeOK /\ LookupsHeld /\ HandleInv
  BY DEF DispatchInv, CallInv, HandleInv

\* The same in the next state.
LEMMA InvNext ==
  ASSUME CallsKept, HandleTypes, LookupsHeld', HandlesTracked', HandleRoutes'
  PROVE  DispatchInv'
  <1>1. TypeOK' BY DEF CallsKept, HandleTypes, TypeOK, LockType
  <1> QED BY <1>1 DEF CallsKept, DispatchInv

\* An object that a handle resolves to.
LEMMA ResolvedObject ==
  ASSUME TypeOK, NEW f \in Frame, Known(f)
  PROVE  Resolve(f) \in Nat
  <1>1. f.contract \in Contract BY DEF Frame
  <1>2. CASE f.id = NullId BY <1>2 DEF Resolve, DefaultImpl
  <1>3. CASE f.id # NullId /\ f.id \in DOMAIN instances[f.contract] BY <1>1, <1>3 DEF Resolve, TypeOK
  <1> QED BY <1>2, <1>3 DEF Known

\* A step that leaves the instances, the handles and the mutexes of others.
LEMMA QuietStep ==
  ASSUME DispatchInv, NEW t \in Thread,
         \/ GoesOn(t) /\ ~LuaLookup(t)
         \/ Ends(t)
         \/ \E g \in Frame : Begins(t, g) /\ g.op # "destroy",
         UNCHANGED <<next_id, instances, handles>>, objects' \in 0 .. MaxObjects,
         \A u \in Thread, c \in Contract : u # t /\ holder[Registry(c)] = u => holder'[Registry(c)] = u
  PROVE  DispatchInv'
  <1>1. CallInv /\ TypeOK /\ LookupsHeld /\ HandleInv BY InvParts
  <1>2. CallsKept BY <1>1, GoesOnKeeps, EndsKeeps, BeginsKeeps
  <1>3. NoDestroyBegins
    <2>1. ASSUME NEW g \in Frame, Begins(t, g), g.op # "destroy" PROVE NoDestroyBegins
      BY <1>1, <2>1, BegunCalls DEF NoDestroyBegins
    <2> QED BY <1>1, <2>1, NoneBegins
  <1>4. HandlesTracked' /\ HandleRoutes' BY <1>1, <1>3, HandlesAlone
  <1>5. HandleTypes BY <1>1 DEF HandleTypes, TypeOK
  <1>6. \A u \in Thread, c \in Contract : u # t /\ IsLua(c) /\ holder[Registry(c)] = u =>
          holder'[Registry(c)] = u /\ DOMAIN instances[c] \subseteq DOMAIN instances'[c]
    OBVIOUS
  <1>7. LookupsHeld'
    <2>1. Ends(t) \/ (\E g \in Frame : Begins(t, g)) \/ (GoesOn(t) /\ ~LuaLookup(t)) OBVIOUS
    <2> QED BY <1>1, <1>6, <2>1, OtherLookups
  <1> QED BY <1>2, <1>4, <1>5, <1>7, InvNext

\* Lua looks an instance up.
LEMMA LookupStep ==
  ASSUME DispatchInv, NEW t \in Thread, LuaLookup(t)
  PROVE  DispatchInv'
  <1>1. CallInv /\ TypeOK /\ LookupsHeld /\ HandleInv BY InvParts
  <1>2. GoesOn(t) BY <1>1, LuaLookupGoesOn
  <1>3. UNCHANGED <<next_id, instances, objects, handles>> BY DEF LuaLookup
  <1>4. CallsKept /\ NoDestroyBegins BY <1>1, <1>2, GoesOnKeeps, NoneBegins
  <1>5. HandlesTracked' /\ HandleRoutes' BY <1>1, <1>3, <1>4, HandlesAlone
  <1>6. HandleTypes BY <1>1, <1>3 DEF HandleTypes, TypeOK
  <1>7. LookupsHeld' BY <1>1, LuaLookupKept
  <1> QED BY <1>4, <1>5, <1>6, <1>7, InvNext

\* The lock that a call on the way into a VM, or to its dispatch lock, takes.
LEMMA TakesLock ==
  ASSUME CallInv, NEW t \in Thread, LuaQueue(t) \/ Run(t) \/ PythonRun(t) \/ Resume(t) \/ RunFactory(t)
  PROVE  /\ ~Idle(t) /\ Top(t).phase \in {"entered", "resolved", "queued", "calling"}
         /\ Ready(t) /\ Take(t) /\ Needed(t) # <<>>
         /\ UNCHANGED <<next_id, instances, objects, handles>>
  <1>1. /\ ~Idle(t) /\ Top(t).phase \in {"entered", "resolved", "queued", "calling"}
        /\ Ready(t) /\ Take(t) /\ UNCHANGED <<next_id, instances, objects, handles>>
    BY DEF LuaQueue, Run, PythonRun, Resume, RunFactory, At
  <1>2. /\ Top(t) \in Frame /\ Top(t).contract \in Contract /\ WellFormed(Top(t))
        /\ Top(t).phase = "calling" => IsPython(Top(t).contract)
    BY <1>1, TopWellFormed
  <1>3. Needed(t) \in {VmLock(Top(t).contract), DispatchLock(Top(t).contract)}
    <2>1. CASE Top(t).phase \in {"resolved", "queued", "calling"} BY <1>2, <2>1, NeededFacts DEF Needed
    <2>2. CASE Top(t).phase = "entered"
      <3>1. (Top(t).op = "create") \/ IsPython(Top(t).contract)
        BY <2>2 DEF LuaQueue, Run, PythonRun, Resume, RunFactory, At
      <3> QED BY <1>2, <2>2, <3>1, NeededFacts DEF Needed
    <2> QED BY <1>1, <2>1, <2>2
  <1>4. VmLock(Top(t).contract) # <<>> /\ DispatchLock(Top(t).contract) # <<>> BY <1>2, LockFacts
  <1> QED BY <1>1, <1>3, <1>4

\* The steps on the way into a VM.
LEMMA TakeStep ==
  ASSUME DispatchInv, NEW t \in Thread, LuaQueue(t) \/ Run(t) \/ PythonRun(t) \/ Resume(t) \/ RunFactory(t)
  PROVE  DispatchInv'
  <1>1. CallInv /\ TypeOK /\ LookupsHeld /\ HandleInv BY InvParts
  <1>2. /\ ~Idle(t) /\ Ready(t) /\ Take(t) /\ Needed(t) # <<>>
        /\ UNCHANGED <<next_id, instances, objects, handles>>
    BY <1>1, TakesLock
  <1>3. GoesOn(t)
    <2>1. CASE LuaQueue(t) BY <1>1, <2>1, LuaQueueGoesOn
    <2>2. CASE Run(t) \/ Resume(t) \/ RunFactory(t) BY <1>1, <2>2, RunGoesOn
    <2>3. CASE PythonRun(t)
      <3>1. Known(Top(t)) /\ Top(t) \in Frame BY <1>1, <1>2, <2>3, TopWellFormed DEF PythonRun
      <3>2. Resolve(Top(t)) \in Nat BY <1>1, <3>1, ResolvedObject
      <3> QED BY <1>1, <2>3, <3>2, RunGoesOn
    <2> QED BY <2>1, <2>2, <2>3
  <1>4. ~LuaLookup(t)
    <2>1. CASE LuaQueue(t) \/ Run(t) \/ Resume(t) BY <2>1 DEF LuaQueue, Run, Resume, LuaLookup, At
    <2>2. CASE RunFactory(t) BY <2>2 DEF RunFactory, LuaLookup, At
    <2>3. CASE PythonRun(t)
      <3>1. Top(t).contract \in Contract /\ IsPython(Top(t).contract) BY <1>1, <1>2, <2>3, TopWellFormed DEF PythonRun
      <3> QED BY <3>1, ContractFacts DEF LuaLookup
    <2> QED BY <2>1, <2>2, <2>3
  <1>5. \A u \in Thread, c \in Contract : u # t /\ holder[Registry(c)] = u => holder'[Registry(c)] = u
    BY <1>1, <1>2, RegistriesKept
  <1>6. objects' \in 0 .. MaxObjects BY <1>1, <1>2 DEF TypeOK
  <1> QED BY <1>2, <1>3, <1>4, <1>5, <1>6, QuietStep

\* The handle is resolved.
LEMMA ResolveStep ==
  ASSUME DispatchInv, NEW t \in Thread, ResolveInstance(t)
  PROVE  DispatchInv'
  <1>1. CallInv /\ TypeOK /\ LookupsHeld /\ HandleInv BY InvParts
  <1>2. /\ ~Idle(t) /\ Top(t).op = "dispatch" /\ (Top(t).phase = "lookup" \/ Known(Top(t)))
        /\ holder' = [holder EXCEPT ![Registry(Top(t).contract)] = IF @ = t THEN None ELSE @]
        /\ UNCHANGED <<next_id, instances, objects, handles>>
    BY DEF ResolveInstance, Resolvable, At
  <1>3. Top(t) \in Frame /\ Top(t).contract \in Contract BY <1>1, <1>2, TopWellFormed
  <1>4. Known(Top(t))
    <2>1. Len(stack[t]) \in 1 .. Len(stack[t]) BY <1>1, <1>2, StackFacts
    <2>2. Top(t).phase = "lookup" => Known(Top(t)) BY <1>1, <2>1 DEF LookupsHeld, Top
    <2> QED BY <1>2, <2>2
  <1>5. Resolve(Top(t)) \in Nat BY <1>1, <1>3, <1>4, ResolvedObject
  <1>6. GoesOn(t) BY <1>1, <1>5, ResolveGoesOn
  <1>7. ~LuaLookup(t)
    <2>1. CASE Top(t).phase # "entered" BY <2>1 DEF LuaLookup, At
    <2>2. CASE Top(t).phase = "entered"
      <3>1. IsJs(Top(t).contract) \/ Top(t).id = NullId BY <2>2 DEF ResolveInstance, Resolvable, At
      <3>2. IsJs(Top(t).contract) => ~IsLua(Top(t).contract) BY <1>3, ContractFacts
      <3> QED BY <3>1, <3>2 DEF LuaLookup
    <2> QED BY <2>1, <2>2
  <1>8. \A u \in Thread, c \in Contract : u # t /\ holder[Registry(c)] = u => holder'[Registry(c)] = u
    BY <1>1, <1>2, <1>3, RegistriesKept
  <1>9. objects' \in 0 .. MaxObjects BY <1>1, <1>2 DEF TypeOK
  <1> QED BY <1>2, <1>6, <1>7, <1>8, <1>9, QuietStep

\* A call ends and leaves the instances alone.
LEMMA ReturnStep ==
  ASSUME DispatchInv, NEW t \in Thread, DispatchFails(t) \/ DispatchReturns(t) \/ FactoryFails(t)
  PROVE  DispatchInv'
  <1>1. CallInv /\ TypeOK /\ LookupsHeld /\ HandleInv BY InvParts
  <1>2. ~Idle(t) /\ UNCHANGED <<next_id, instances, objects, handles>>
    BY DEF DispatchFails, DispatchReturns, FactoryFails, At
  <1>3. PICK d \in Contract : d = Top(t).contract BY <1>1, <1>2, TopWellFormed
  <1>4. \/ holder' = [holder EXCEPT ![Registry(d)] = IF @ = t THEN None ELSE @]
        \/ Release({VmLock(d)}) \/ Release({VmLock(d), DispatchLock(d)})
    BY <1>3 DEF DispatchFails, DispatchReturns, FactoryFails
  <1>5. Ends(t) BY <1>1, DispatchEnds, CallEnds
  <1>6. \A u \in Thread, c \in Contract : u # t /\ holder[Registry(c)] = u => holder'[Registry(c)] = u
    BY <1>1, <1>4, RegistriesKept
  <1>7. objects' \in 0 .. MaxObjects BY <1>1, <1>2 DEF TypeOK
  <1> QED BY <1>2, <1>5, <1>6, <1>7, QuietStep

\* The caller leaves the instances mutexes.
LEMMA CallerRegistries ==
  ASSUME CallInv, NEW t \in Thread, NEW op, NEW d, Caller(t, op, d)
  PROVE  \A u \in Thread, c \in Contract : u # t /\ holder[Registry(c)] = u => holder'[Registry(c)] = u
  <1>1. TypeOK BY DEF CallInv
  <1>2. CASE UNCHANGED holder BY <1>1, <1>2, RegistriesKept
  <1>3. CASE ~Idle(t) /\ Release({VmLock(Top(t).contract)})
    <2>1. PICK e \in Contract : e = Top(t).contract BY <1>3, TopWellFormed
    <2>2. Release({VmLock(e)}) BY <1>3, <2>1
    <2> QED BY <1>1, <2>2, RegistriesKept
  <1> QED BY <1>2, <1>3 DEF Caller

\* A call begins.
LEMMA BeginStep ==
  ASSUME DispatchInv, NEW t \in Thread, Begin(t)
  PROVE  DispatchInv'
  <1>1. CallInv /\ TypeOK /\ LookupsHeld /\ HandleInv BY InvParts
  <1>2. ASSUME NEW c \in Contract, CreateInstance(t, c) PROVE DispatchInv'
    <2>1. \E g \in Frame : Begins(t, g) /\ g.op # "destroy" BY <1>1, <1>2, CreateBegins
    <2>2. Caller(t, "create", c) /\ UNCHANGED <<next_id, instances, objects, handles>> BY <1>2 DEF CreateInstance
    <2>3. objects' \in 0 .. MaxObjects BY <1>1, <2>2 DEF TypeOK
    <2>4. \A u \in Thread, d \in Contract : u # t /\ holder[Registry(d)] = u => holder'[Registry(d)] = u
      BY <1>1, <2>2, CallerRegistries
    <2> QED BY <2>1, <2>2, <2>3, <2>4, QuietStep
  <1>3. ASSUME NEW c \in Contract, NEW id \in Ids(c), Dispatch(t, c, id) PROVE DispatchInv'
    <2>1. \E g \in Frame : Begins(t, g) /\ g.op # "destroy" BY <1>1, <1>3, DispatchBegins
    <2>2. Caller(t, "dispatch", c) /\ UNCHANGED <<next_id, instances, objects, handles>> BY <1>3 DEF Dispatch
    <2>3. objects' \in 0 .. MaxObjects BY <1>1, <2>2 DEF TypeOK
    <2>4. \A u \in Thread, d \in Contract : u # t /\ holder[Registry(d)] = u => holder'[Registry(d)] = u
      BY <1>1, <2>2, CallerRegistries
    <2> QED BY <2>1, <2>2, <2>3, <2>4, QuietStep
  <1>4. ASSUME NEW h \in handles, DestroyInstance(t, h) PROVE DispatchInv'
    <2>1. PICK g \in Frame : Begins(t, g) BY <1>1, <1>4, DestroyBegins
    <2>2. Caller(t, "destroy", h.contract) /\ UNCHANGED <<next_id, instances, objects>> BY <1>4 DEF DestroyInstance
    <2>3. handles' \subseteq Handle /\ HandlesTracked' /\ HandleRoutes' BY <1>1, <1>4, DestroyHandles
    <2>4. HandleTypes BY <1>1, <2>2, <2>3 DEF HandleTypes, TypeOK
    <2>5. CallsKept BY <1>1, <2>1, BeginsKeeps
    <2>6. \A u \in Thread, d \in Contract : u # t /\ holder[Registry(d)] = u => holder'[Registry(d)] = u
      BY <1>1, <2>2, CallerRegistries
    <2>7. \A u \in Thread, d \in Contract : u # t /\ IsLua(d) /\ holder[Registry(d)] = u =>
            holder'[Registry(d)] = u /\ DOMAIN instances[d] \subseteq DOMAIN instances'[d]
      BY <2>2, <2>6
    <2>8. LookupsHeld' BY <1>1, <2>1, <2>7, OtherLookups
    <2> QED BY <2>3, <2>4, <2>5, <2>8, InvNext
  <1> QED BY <1>2, <1>3, <1>4 DEF Begin

\* A factory returns.
LEMMA FactoryStep ==
  ASSUME DispatchInv, NEW t \in Thread, FactoryReturns(t)
  PROVE  DispatchInv'
  <1>1. CallInv /\ TypeOK /\ LookupsHeld /\ HandleInv BY InvParts
  <1>2. /\ ~Idle(t) /\ Top(t).op = "create" /\ objects < MaxObjects /\ objects' = objects + 1
        /\ Release({VmLock(Top(t).contract)})
    BY DEF FactoryReturns, At
  <1>3. PICK d \in Contract : d = Top(t).contract BY <1>1, <1>2, TopWellFormed
  <1>4. objects' \in 0 .. MaxObjects /\ objects' \in Nat BY <1>1, <1>2, VmDispatchAssumption DEF TypeOK
  <1>5. \A u \in Thread, c \in Contract : u # t /\ holder[Registry(c)] = u => holder'[Registry(c)] = u
    <2>1. Release({VmLock(d)}) BY <1>2, <1>3
    <2> QED BY <1>1, <2>1, RegistriesKept
  <1>6. CASE ~IsPython(d)
    <2>1. GoesOn(t) BY <1>1, <1>3, <1>6, BuiltGoesOn
    <2>2. ~LuaLookup(t) BY <1>2 DEF LuaLookup, At
    <2>3. UNCHANGED <<next_id, instances, handles>> BY <1>3, <1>6 DEF FactoryReturns
    <2> QED BY <1>4, <1>5, <2>1, <2>2, <2>3, QuietStep
  <1>7. CASE IsPython(d)
    <2>1. Ends(t) BY <1>1, <1>3, <1>7, CallEnds
    <2>2. Insert(d, objects') BY <1>3, <1>7 DEF FactoryReturns
    <2>3. PICK o \in Nat : o = objects' BY <1>4
    <2>4. Insert(d, o) BY <2>2, <2>3
    <2>5. CallsKept /\ NoDestroyBegins BY <1>1, <2>1, EndsKeeps, NoneBegins
    <2>6. /\ next_id' \in [Contract -> Nat \ {NullId}]
          /\ DOMAIN instances' = Contract /\ \A c \in Contract : \A i \in DOMAIN instances'[c] : instances'[c][i] \in Nat
          /\ handles' \subseteq Handle
          /\ HandlesTracked' /\ HandleRoutes'
      BY <1>1, <2>4, <2>5, InsertHandles
    <2>7. HandleTypes BY <1>4, <2>6 DEF HandleTypes
    <2>8. \A u \in Thread, c \in Contract : u # t /\ IsLua(c) /\ holder[Registry(c)] = u =>
            holder'[Registry(c)] = u /\ DOMAIN instances[c] \subseteq DOMAIN instances'[c]
      <3>1. ASSUME NEW c \in Contract, IsLua(c) PROVE instances'[c] = instances[c]
        <4>1. c # d BY <1>7, <3>1, ContractFacts
        <4> QED BY <1>1, <2>4, <4>1 DEF Insert, TypeOK
      <3> QED BY <1>5, <3>1
    <2>9. LookupsHeld' BY <1>1, <2>1, <2>8, OtherLookups
    <2> QED BY <2>5, <2>6, <2>7, <2>9, InvNext
  <1> QED BY <1>6, <1>7

\* Lua keeps the object in the VM's registry.
LEMMA KeepStep ==
  ASSUME DispatchInv, NEW t \in Thread, KeepObject(t)
  PROVE  DispatchInv'
  <1>1. CallInv /\ TypeOK BY InvParts
  <1>2. GoesOn(t) BY <1>1, KeepGoesOn
  <1>3. Top(t).op = "create" /\ UNCHANGED <<holder, next_id, instances, objects, handles>> BY DEF KeepObject, At
  <1>4. ~LuaLookup(t) BY <1>3 DEF LuaLookup, At
  <1>5. objects' \in 0 .. MaxObjects BY <1>1, <1>3 DEF TypeOK
  <1> QED BY <1>2, <1>3, <1>4, <1>5, QuietStep

\* Lua and JavaScript insert the object.
LEMMA InsertStep ==
  ASSUME DispatchInv, NEW t \in Thread, InsertInstance(t)
  PROVE  DispatchInv'
  <1>1. CallInv /\ TypeOK /\ LookupsHeld /\ HandleInv BY InvParts
  <1>2. ~Idle(t) /\ Insert(Top(t).contract, Top(t).object) /\ UNCHANGED holder /\ UNCHANGED objects
    BY DEF InsertInstance, At
  <1>3. Top(t) \in Frame BY <1>1, <1>2, TopWellFormed
  <1>4. PICK d \in Contract : d = Top(t).contract BY <1>3 DEF Frame
  <1>5. PICK o \in Nat : o = Top(t).object BY <1>3 DEF Frame
  <1>6. Insert(d, o) BY <1>2, <1>4, <1>5
  <1>7. Ends(t) BY <1>1, CallEnds
  <1>8. CallsKept /\ NoDestroyBegins BY <1>1, <1>7, EndsKeeps, NoneBegins
  <1>9. /\ next_id' \in [Contract -> Nat \ {NullId}]
        /\ DOMAIN instances' = Contract /\ \A c \in Contract : \A i \in DOMAIN instances'[c] : instances'[c][i] \in Nat
        /\ handles' \subseteq Handle
        /\ HandlesTracked' /\ HandleRoutes'
    BY <1>1, <1>6, <1>8, InsertHandles
  <1>10. HandleTypes BY <1>1, <1>2, <1>9 DEF HandleTypes, TypeOK
  <1>11. ASSUME NEW c \in Contract PROVE DOMAIN instances[c] \subseteq DOMAIN instances'[c]
    <2>1. instances' = [instances EXCEPT ![d] =
            [i \in DOMAIN instances[d] \cup {MintId(d)} |-> IF i = MintId(d) THEN o ELSE instances[d][i]]]
      BY <1>6 DEF Insert
    <2>2. DOMAIN instances = Contract BY <1>1 DEF TypeOK
    <2>3. CASE c = d
      <3>1. instances'[c] = [i \in DOMAIN instances[d] \cup {MintId(d)} |-> IF i = MintId(d) THEN o ELSE instances[d][i]]
        BY <2>1, <2>2, <2>3
      <3> QED BY <2>3, <3>1
    <2>4. CASE c # d BY <2>1, <2>2, <2>4
    <2> QED BY <2>3, <2>4
  <1>12. \A u \in Thread, c \in Contract : u # t /\ IsLua(c) /\ holder[Registry(c)] = u =>
           holder'[Registry(c)] = u /\ DOMAIN instances[c] \subseteq DOMAIN instances'[c]
    BY <1>2, <1>11
  <1>13. LookupsHeld' BY <1>1, <1>7, <1>12, OtherLookups
  <1> QED BY <1>8, <1>9, <1>10, <1>13, InvNext

\* An instance is removed: none that a Lua dispatch looks up, whose mutex is held.
LEMMA RemoveStep ==
  ASSUME DispatchInv, NEW t \in Thread, RemoveInstance(t)
  PROVE  DispatchInv'
  <1>1. CallInv /\ TypeOK /\ LookupsHeld /\ HandleInv BY InvParts
  <1>2. /\ ~Idle(t) /\ Top(t).op = "destroy" /\ Ready(t)
        /\ UNCHANGED holder /\ UNCHANGED objects /\ UNCHANGED next_id /\ UNCHANGED handles
        /\ instances' = [instances EXCEPT ![Top(t).contract] = [i \in DOMAIN @ \ {Top(t).id} |-> @[i]]]
    BY DEF RemoveInstance, At
  <1>3. Top(t) \in Frame /\ Top(t).contract \in Contract /\ WellFormed(Top(t)) BY <1>1, <1>2, TopWellFormed
  <1>4. Ends(t) BY <1>1, CallEnds
  <1>5. CallsKept /\ NoDestroyBegins BY <1>1, <1>4, EndsKeeps, NoneBegins
  <1>6. /\ DOMAIN instances' = Contract /\ \A d \in Contract : \A i \in DOMAIN instances'[d] : instances'[d][i] \in Nat
        /\ HandlesTracked' /\ HandleRoutes'
    BY <1>1, <1>5, RemoveHandles
  <1>7. HandleTypes BY <1>1, <1>2, <1>6 DEF HandleTypes, TypeOK
  <1>8. ASSUME NEW u \in Thread, NEW c \in Contract, IsLua(c), holder[Registry(c)] = u
        PROVE  DOMAIN instances[c] \subseteq DOMAIN instances'[c]
    <2>1. c # Top(t).contract
      <3>1. SUFFICES ASSUME c = Top(t).contract PROVE FALSE OBVIOUS
      <3>2. ~IsPython(c) BY <1>8, ContractFacts
      <3>3. Needed(t) = Registry(c) BY <1>2, <1>3, <3>1, <3>2, NeededFacts DEF Needed
      <3>4. Registry(c) # <<>> BY LockFacts
      <3> QED BY <1>2, <1>8, <3>3, <3>4, VmDispatchAssumption DEF Ready
    <2>2. DOMAIN instances = Contract BY <1>1 DEF TypeOK
    <2> QED BY <1>2, <2>1, <2>2
  <1>9. \A u \in Thread, c \in Contract : u # t /\ IsLua(c) /\ holder[Registry(c)] = u =>
          holder'[Registry(c)] = u /\ DOMAIN instances[c] \subseteq DOMAIN instances'[c]
    BY <1>2, <1>8
  <1>10. LookupsHeld' BY <1>1, <1>4, <1>9, OtherLookups
  <1> QED BY <1>5, <1>6, <1>7, <1>10, InvNext

\* Nobody has called yet.
LEMMA InitInv == Init => DispatchInv
  <1> SUFFICES ASSUME Init PROVE DispatchInv OBVIOUS
  <1>0. DOMAIN <<>> = {}
    <2>0. <<>> \in Seq(Nat) BY EmptySeq
    <2>1. PICK s \in Seq(Nat) : s = <<>> BY <2>0
    <2>2. Len(s) = 0 /\ DOMAIN s = 1 .. Len(s) BY <2>1
    <2> QED BY <2>1, <2>2
  <1>1. \A t \in Thread : stack[t] = <<>> /\ Len(stack[t]) = 0 BY DEF Init
  <1>2. \A t \in Thread : 1 .. Len(stack[t]) = {} /\ DOMAIN stack[t] = {} BY <1>1
  <1>3. TypeOK
    <2>1. stack \in [Thread -> Seq(Frame)] BY DEF Init
    <2>2. \A t \in Thread : Len(stack[t]) <= MaxDepth BY <1>1, VmDispatchAssumption
    <2>3. in_dispatch_threads \in [Guards -> SUBSET Thread] /\ holder \in [Lock -> Thread \cup {None}] BY DEF Init
    <2>4. next_id \in [Contract -> Nat \ {NullId}] BY DEF Init, NullId, DefaultImpl
    <2>5. DOMAIN instances = Contract /\ \A c \in Contract : instances[c] = <<>> BY DEF Init
    <2>6. \A c \in Contract : DOMAIN instances[c] = {} BY <1>0, <2>5
    <2>7. objects \in 0 .. MaxObjects /\ handles \subseteq Handle BY VmDispatchAssumption DEF Init
    <2> QED BY <2>1, <2>2, <2>3, <2>4, <2>5, <2>6, <2>7 DEF TypeOK
  <1>4. StackShape /\ MarkedOnce /\ LookupsHeld BY <1>2 DEF StackShape, MarkedOnce, LookupsHeld
  <1>5. LocksAccounted BY VmDispatchAssumption DEF LocksAccounted, Init
  <1>6. HandlesTracked
    <2>1. \A c \in Contract : DOMAIN instances[c] = {} BY <1>0 DEF Init
    <2>2. handles = {} BY DEF Init
    <2> QED BY <1>2, <2>1, <2>2 DEF HandlesTracked
  <1>7. GuardExact BY <1>2 DEF GuardExact, Init
  <1>8. HandleRoutes BY DEF HandleRoutes, Init
  <1> QED BY <1>3, <1>4, <1>5, <1>6, <1>7, <1>8 DEF DispatchInv

\* Every step keeps the invariant.
LEMMA NextInv == DispatchInv /\ [Next]_vars => DispatchInv'
  <1> SUFFICES ASSUME DispatchInv, [Next]_vars PROVE DispatchInv' OBVIOUS
  <1>1. ASSUME NEW t \in Thread, Begin(t) PROVE DispatchInv' BY <1>1, BeginStep
  <1>2. ASSUME NEW t \in Thread, Proceed(t) PROVE DispatchInv'
    BY <1>2, LookupStep, TakeStep, ResolveStep, ReturnStep, FactoryStep, KeepStep, InsertStep, RemoveStep DEF Proceed
  <1>3. CASE UNCHANGED vars
    BY <1>3 DEF vars, DispatchInv, TypeOK, StackShape, MarkedOnce, LocksAccounted, LookupsHeld, HandlesTracked,
                GuardExact, HandleRoutes, WellFormed, Marks, Guarded, Holds, Known
  <1> QED BY <1>1, <1>2, <1>3 DEF Next

\* The invariant, for all contracts, threads and calls that guest code makes.
THEOREM DispatchInvariant == Spec => []DispatchInv
  BY InitInv, NextInv, PTL DEF Spec

\* A thread is marked under a guard exactly while it is in a dispatch under it
\* (LuaDispatchGuard, JsDispatchGuard): no way out of a dispatch leaves a mark,
\* and none drops the mark of a call that is still there.
THEOREM GuardsExact == Spec => []GuardExact
  <1>1. DispatchInv => GuardExact BY DEF DispatchInv
  <1> QED BY <1>1, DispatchInvariant, PTL

\* A handle resolves to the object its own create built, a stale one to nothing,
\* whoever creates, destroys and dispatches meanwhile (LuaLoaderData,
\* JsLoaderData and PythonLoaderData, by the ids that next_id mints).
THEOREM HandlesRoute == Spec => []HandleRoutes
  <1>1. DispatchInv => HandleRoutes BY DEF DispatchInv
  <1> QED BY <1>1, DispatchInvariant, PTL

-----------------------------------------------------------------------------
(***************************************************************************)
(* Waiting, for calls that keep to an order of the VMs.                    *)
(***************************************************************************)

\* A set of naturals has a least element.
LEMMA LeastNatural ==
  ASSUME NEW T \in SUBSET Nat, T # {}
  PROVE  \E x \in T : \A y \in T : x <= y
  <1>1. PICK R : R = {ss \in Nat \X Nat : ss[1] < ss[2]} OBVIOUS
  <1>2. IsWellFoundedOn(R, Nat) BY <1>1, NatLessThanWellFounded DEF OpToRel
  <1>3. PICK x \in T : \A y \in T : <<y, x>> \notin R BY <1>2, WFMin
  <1>4. ASSUME NEW y \in T PROVE x <= y
    <2>1. x \in Nat /\ y \in Nat OBVIOUS
    <2>2. y < x => <<y, x>> \in R BY <1>1, <2>1
    <2> QED BY <1>3, <2>1, <2>2
  <1> QED BY <1>4

\* Two VMs of Lua or JavaScript with one rank are the same.
LEMMA SameRank ==
  ASSUME NEW rank, CallsOrdered(rank), NEW c \in Contract, NEW d \in Contract,
         ~IsPython(c), ~IsPython(d), rank[VmOf[c]] = rank[VmOf[d]]
  PROVE  VmOf[c] = VmOf[d]
  <1>1. VmOf[c] \in Lua \cup Js /\ VmOf[d] \in Lua \cup Js BY ContractFacts DEF IsPython, IsLua, IsJs
  <1> QED BY <1>1 DEF CallsOrdered

\* A call is not below another in the order of the VMs.
Above(rank, f, g) == rank[VmOf[f.contract]] <= rank[VmOf[g.contract]]

\* A call that begins is above all calls of its thread.
LEMMA BeginsAbove ==
  ASSUME NEW N \in Nat, NEW rank \in [Vm -> 0 .. N], CallsOrdered(rank), CallInv, StackOrdered(rank),
         NEW t \in Thread, NEW g \in Frame, Begins(t, g), NEW m \in 1 .. Len(stack[t])
  PROVE  Above(rank, stack[t][m], g)
  <1>0. TypeOK BY DEF CallInv
  <1>1. PICK f : f = stack[t][m] OBVIOUS
  <1>2. f \in Frame /\ ~Idle(t) /\ Len(stack[t]) \in Nat BY <1>0, <1>1, StackFacts
  <1>3. PICK p : p = Top(t) OBVIOUS
  <1>4. p \in Frame /\ MayCall(p, g.op, g.contract) BY <1>2, <1>3, TopWellFormed DEF Begins
  <1>5. f.contract \in Contract /\ p.contract \in Contract /\ g.contract \in Contract BY <1>2, <1>4 DEF Frame
  <1>6. /\ rank[VmOf[f.contract]] \in Nat /\ rank[VmOf[p.contract]] \in Nat /\ rank[VmOf[g.contract]] \in Nat
    BY <1>5, ContractFacts
  <1>7. PICK k \in Calls : k.from = p.contract /\ k.to = g.contract BY <1>4 DEF MayCall
  <1>8. Above(rank, p, g) BY <1>7 DEF CallsOrdered, Above
  <1>9. CASE m = Len(stack[t]) BY <1>1, <1>3, <1>8, <1>9 DEF Top
  <1>10. CASE m < Len(stack[t])
    <2>1. Above(rank, f, p) BY <1>1, <1>2, <1>3, <1>10 DEF StackOrdered, Above, Top
    <2> QED BY <1>1, <1>6, <1>8, <2>1 DEF Above
  <1> QED BY <1>2, <1>9, <1>10

\* The order stays when a call begins, goes on or ends.
LEMMA OrderKept ==
  ASSUME NEW N \in Nat, NEW rank \in [Vm -> 0 .. N], CallsOrdered(rank), CallInv, StackOrdered(rank), NEW t \in Thread,
         GoesOn(t) \/ Ends(t) \/ \E g \in Frame : Begins(t, g)
  PROVE  \A u \in Thread : \A m, n \in 1 .. Len(stack'[u]) : m < n => Above(rank, stack'[u][m], stack'[u][n])
  <1>0. TypeOK BY DEF CallInv
  <1>1. \A f, g, h, k : SameCall(f, h) /\ SameCall(g, k) /\ Above(rank, h, k) => Above(rank, f, g)
    BY DEF SameCall, Above
  <1>2. CASE GoesOn(t)
    <2>1. PICK g \in Frame : Rewrites(t, g) /\ SameCall(g, Top(t)) BY <1>2 DEF GoesOn
    <2>2. \A u \in Thread : /\ Len(stack'[u]) = Len(stack[u])
                            /\ \A n \in 1 .. Len(stack[u]) : SameCall(stack'[u][n], stack[u][n])
      BY <1>0, <2>1, RewriteCalls
    <2> QED BY <1>1, <2>2 DEF StackOrdered, Above
  <1>3. CASE Ends(t)
    <2>1. /\ \A n \in 1 .. Len(stack[t]) - 1 : SameCall(stack'[t][n], stack[t][n])
          /\ Len(stack[t]) \in Nat /\ Len(stack'[t]) = Len(stack[t]) - 1
          /\ \A u \in Thread : u # t => stack'[u] = stack[u]
      BY <1>0, <1>3, PopCalls DEF Ends, Pops, OthersKept
    <2>2. \A n \in 1 .. Len(stack'[t]) : n \in 1 .. Len(stack[t]) /\ SameCall(stack'[t][n], stack[t][n]) BY <2>1
    <2>3. \A m, n \in 1 .. Len(stack'[t]) : m < n => Above(rank, stack'[t][m], stack'[t][n])
      BY <1>1, <2>2 DEF StackOrdered, Above
    <2> QED BY <2>1, <2>3 DEF StackOrdered, Above
  <1>4. ASSUME NEW g \in Frame, Begins(t, g)
        PROVE  \A u \in Thread : \A m, n \in 1 .. Len(stack'[u]) : m < n => Above(rank, stack'[u][m], stack'[u][n])
    <2>0. Pushes(t, g) BY <1>4 DEF Begins
    <2>1. /\ \A n \in 1 .. Len(stack[t]) : SameCall(stack'[t][n], stack[t][n])
          /\ Len(stack[t]) \in Nat
      BY <1>0, <2>0, PushCalls
    <2>2. /\ \A u \in Thread : u # t => stack'[u] = stack[u]
          /\ Len(stack'[t]) = Len(stack[t]) + 1 /\ stack'[t][Len(stack[t]) + 1] = g
      BY <2>0 DEF Pushes, OthersKept
    <2>3. ASSUME NEW m \in 1 .. Len(stack'[t]), NEW n \in 1 .. Len(stack'[t]), m < n
          PROVE  Above(rank, stack'[t][m], stack'[t][n])
      <3>1. m \in 1 .. Len(stack[t]) BY <2>1, <2>2, <2>3
      <3>2. SameCall(stack'[t][m], stack[t][m]) BY <2>1, <3>1
      <3>3. CASE n = Len(stack[t]) + 1
        <4>1. Above(rank, stack[t][m], g) BY <1>4, <3>1, BeginsAbove
        <4>2. stack'[t][n] = g /\ SameCall(g, g) BY <2>2, <3>3 DEF SameCall
        <4> QED BY <1>1, <3>2, <4>1, <4>2
      <3>4. CASE n \in 1 .. Len(stack[t])
        <4>1. Above(rank, stack[t][m], stack[t][n]) BY <2>3, <3>1, <3>4 DEF StackOrdered, Above
        <4> QED BY <1>1, <2>1, <3>2, <3>4, <4>1
      <3> QED BY <2>1, <2>2, <3>3, <3>4
    <2> QED BY <2>2, <2>3 DEF StackOrdered, Above
  <1> QED BY <1>2, <1>3, <1>4

\* Each step of a thread is one of the three.
LEMMA StepKind ==
  ASSUME DispatchInv, NEW t \in Thread, Begin(t) \/ Proceed(t)
  PROVE  GoesOn(t) \/ Ends(t) \/ \E g \in Frame : Begins(t, g)
  <1>1. CallInv /\ TypeOK /\ LookupsHeld BY InvParts
  <1>2. CASE Begin(t)
    BY <1>1, <1>2, CreateBegins, DispatchBegins, DestroyBegins DEF Begin
  <1>3. CASE LuaLookup(t) \/ LuaQueue(t) \/ Run(t) \/ Resume(t) \/ RunFactory(t)
    BY <1>1, <1>3, LuaLookupGoesOn, LuaQueueGoesOn, RunGoesOn
  <1>4. CASE PythonRun(t)
    <2>1. Known(Top(t)) /\ ~Idle(t) BY <1>4 DEF PythonRun, At
    <2>2. Resolve(Top(t)) \in Nat BY <1>1, <2>1, TopWellFormed, ResolvedObject
    <2> QED BY <1>1, <1>4, <2>2, RunGoesOn
  <1>5. CASE ResolveInstance(t)
    <2>1. ~Idle(t) /\ (Top(t).phase = "lookup" \/ Known(Top(t))) BY <1>5 DEF ResolveInstance, Resolvable, At
    <2>2. Len(stack[t]) \in 1 .. Len(stack[t]) BY <1>1, <2>1, StackFacts
    <2>3. Top(t).phase = "lookup" => Known(Top(t)) BY <1>1, <2>2 DEF LookupsHeld, Top
    <2>4. Resolve(Top(t)) \in Nat BY <1>1, <2>1, <2>3, TopWellFormed, ResolvedObject
    <2> QED BY <1>1, <1>5, <2>4, ResolveGoesOn
  <1>6. CASE DispatchFails(t) \/ DispatchReturns(t) BY <1>1, <1>6, DispatchEnds
  <1>7. CASE FactoryFails(t) \/ InsertInstance(t) \/ RemoveInstance(t) BY <1>1, <1>7, CallEnds
  <1>8. CASE FactoryReturns(t) \/ KeepObject(t) BY <1>1, <1>8, CallEnds, BuiltGoesOn, KeepGoesOn
  <1> QED BY <1>2, <1>3, <1>4, <1>5, <1>6, <1>7, <1>8 DEF Proceed

\* The calls of each thread go up in the order of the VMs.
THEOREM StackStaysOrdered ==
  ASSUME NEW N \in Nat, NEW rank \in [Vm -> 0 .. N], CallsOrdered(rank)
  PROVE  Spec => []StackOrdered(rank)
  <1>1. Init => StackOrdered(rank)
    <2> SUFFICES ASSUME Init PROVE StackOrdered(rank) OBVIOUS
    <2>1. \A t \in Thread : stack[t] = <<>> /\ Len(stack[t]) = 0 BY DEF Init
    <2>2. \A t \in Thread : 1 .. Len(stack[t]) = {} BY <2>1
    <2> QED BY <2>2 DEF StackOrdered
  <1>2. DispatchInv /\ StackOrdered(rank) /\ [Next]_vars => StackOrdered(rank)'
    <2> SUFFICES ASSUME DispatchInv, StackOrdered(rank), [Next]_vars PROVE StackOrdered(rank)' OBVIOUS
    <2>1. CASE UNCHANGED vars BY <2>1 DEF vars, StackOrdered
    <2>2. ASSUME NEW t \in Thread, Begin(t) \/ Proceed(t) PROVE StackOrdered(rank)'
      <3>1. CallInv BY InvParts
      <3>2. GoesOn(t) \/ Ends(t) \/ \E g \in Frame : Begins(t, g) BY <2>2, StepKind
      <3>3. \A u \in Thread : \A m, n \in 1 .. Len(stack'[u]) : m < n => Above(rank, stack'[u][m], stack'[u][n])
        BY <3>1, <3>2, OrderKept
      <3> QED BY <3>3 DEF StackOrdered, Above
    <2> QED BY <2>1, <2>2 DEF Next
  <1> QED BY <1>1, <1>2, DispatchInvariant, PTL DEF Spec

\* What a thread that waits has on top, and who has what it waits for.
LEMMA HolderFacts ==
  ASSUME CallInv, NEW l \in Lock, NEW u \in Thread, holder[l] = u
  PROVE  \E n \in 1 .. Len(stack[u]) :
           /\ stack[u][n] \in Frame /\ stack[u][n].contract \in Contract /\ ~Idle(u)
           /\ WellFormed(stack[u][n]) /\ Holds(stack[u][n], l)
           /\ \/ n = Len(stack[u]) /\ stack[u][n] = Top(u) /\ (Top(u).phase = "calling" => IsPython(Top(u).contract))
              \/ n < Len(stack[u]) /\ stack[u][n].phase = "calling"
  <1>1. TypeOK /\ StackShape /\ LocksAccounted BY DEF CallInv
  <1>2. PICK n \in 1 .. Len(stack[u]) : Holds(stack[u][n], l) BY <1>1 DEF LocksAccounted
  <1>3. stack[u][n] \in Frame /\ Len(stack[u]) \in Nat /\ ~Idle(u) BY <1>1, StackFacts
  <1>4. /\ WellFormed(stack[u][n]) /\ (n < Len(stack[u]) => stack[u][n].phase = "calling")
        /\ n = Len(stack[u]) /\ stack[u][n].phase = "calling" => IsPython(stack[u][n].contract)
    BY <1>1 DEF StackShape
  <1>5. stack[u][n].contract \in Contract BY <1>3 DEF Frame
  <1>6. n = Len(stack[u]) \/ n < Len(stack[u]) BY <1>3
  <1> QED BY <1>2, <1>3, <1>4, <1>5, <1>6 DEF Top

\* The kinds of locks a thread waits for.
LEMMA WaitFacts ==
  ASSUME CallInv, NEW t \in Thread, ~Idle(t), Needed(t) # <<>>
  PROVE  /\ Needed(t) \in Lock /\ Top(t) \in Frame /\ Top(t).contract \in Contract /\ WellFormed(Top(t))
         /\ Top(t).phase # "running"
         /\ \/ Needed(t) = VmLock(Top(t).contract) /\ (IsPython(Top(t).contract) \/ Top(t).op # "destroy")
            \/ Needed(t) = Registry(Top(t).contract)
            \/ Needed(t) = DispatchLock(Top(t).contract) /\ IsLua(Top(t).contract)
  <1>1. /\ Top(t) \in Frame /\ Top(t).contract \in Contract /\ WellFormed(Top(t))
        /\ Top(t).phase = "calling" => IsPython(Top(t).contract)
    BY TopWellFormed
  <1>2. Top(t).phase \in Phase /\ Top(t).op \in Op BY <1>1 DEF Frame
  <1>3. Top(t).phase # "running" BY <1>1, NeededFacts DEF Needed
  <1>4. \/ Needed(t) = VmLock(Top(t).contract) /\ (IsPython(Top(t).contract) \/ Top(t).op # "destroy")
        \/ Needed(t) = Registry(Top(t).contract)
        \/ Needed(t) = DispatchLock(Top(t).contract) /\ IsLua(Top(t).contract)
    <2>1. CASE IsPython(Top(t).contract) BY <1>1, <1>3, <2>1, NeededFacts DEF Needed
    <2>2. CASE Top(t).op = "destroy" BY <1>1, <2>1, <2>2, NeededFacts DEF Needed
    <2>3. CASE ~IsPython(Top(t).contract) /\ Top(t).phase \in {"lookup", "queued", "returned"} /\ Top(t).op # "destroy"
      BY <1>1, <2>3, NeededFacts DEF Needed
    <2>4. CASE Top(t).phase = "built" BY <1>1, <2>4, NeededFacts DEF Needed
    <2>5. CASE ~IsPython(Top(t).contract) /\ Top(t).phase = "resolved" /\ Top(t).op # "destroy"
      BY <1>1, <2>5, NeededFacts DEF Needed
    <2>6. CASE ~IsPython(Top(t).contract) /\ Top(t).phase = "entered" /\ Top(t).op = "create"
      BY <1>1, <2>6, NeededFacts DEF Needed
    <2>7. CASE ~IsPython(Top(t).contract) /\ Top(t).phase = "entered" /\ Top(t).op = "dispatch"
      BY <1>1, <2>7, NeededFacts DEF Needed
    <2> QED BY <1>1, <1>2, <1>3, <2>1, <2>2, <2>3, <2>4, <2>5, <2>6, <2>7 DEF Phase, Op
  <1>5. Needed(t) \in Lock BY <1>1, <1>4, ContractFacts
  <1> QED BY <1>1, <1>3, <1>4, <1>5

\* A thread asks for a VM it is running in only past the guards.
LEMMA PastGuards ==
  ASSUME CallInv
  PROVE  ReentryUnguarded
  <1> SUFFICES ASSUME NEW t \in Thread, NEW v \in Vm, ~Idle(t), Needed(t) = <<"vm", v>>, holder[Needed(t)] = t
               PROVE  /\ v \notin Python
                      /\ \A n \in 1 .. Len(stack[t]) - 1 : VmOf[stack[t][n].contract] = v =>
                           \/ stack[t][n].op = "create"
                           \/ v \in Lua /\ stack[t][n].contract # Top(t).contract
    BY DEF ReentryUnguarded
  <1>0. TypeOK /\ StackShape /\ MarkedOnce BY DEF CallInv
  <1>1. PICK p : p = Top(t) OBVIOUS
  <1>2. /\ Needed(t) \in Lock /\ p \in Frame /\ p.contract \in Contract /\ p.phase # "running"
        /\ \/ Needed(t) = VmLock(p.contract) /\ (IsPython(p.contract) \/ p.op # "destroy")
           \/ Needed(t) = Registry(p.contract)
           \/ Needed(t) = DispatchLock(p.contract) /\ IsLua(p.contract)
    <2>1. Needed(t) # <<>> OBVIOUS
    <2> QED BY <1>1, <2>1, WaitFacts
  <1>3. Needed(t) = VmLock(p.contract) /\ (IsPython(p.contract) \/ p.op # "destroy") /\ VmOf[p.contract] = v
    BY <1>2 DEF Registry, DispatchLock, VmLock
  <1>4. v \notin Python
    <2>1. PICK n \in 1 .. Len(stack[t]) :
             /\ stack[t][n] \in Frame /\ stack[t][n].contract \in Contract
             /\ Holds(stack[t][n], Needed(t))
             /\ \/ n = Len(stack[t]) /\ stack[t][n] = Top(t) /\ (Top(t).phase = "calling" => IsPython(Top(t).contract))
                \/ n < Len(stack[t]) /\ stack[t][n].phase = "calling"
      BY <1>2, HolderFacts
    <2>2. PICK f : f = stack[t][n] OBVIOUS
    <2>3. Needed(t) # DispatchLock(f.contract) /\ Needed(t) # Registry(f.contract) BY <1>2, <1>3, <2>1, <2>2, LockFacts
    <2>4. VmLock(p.contract) = VmLock(f.contract) /\ (f.phase = "running" \/ (f.phase = "calling" /\ ~IsPython(f.contract)))
      BY <1>3, <2>1, <2>2, <2>3 DEF Holds
    <2>5. f.phase # "running" BY <1>1, <1>2, <2>1, <2>2
    <2>6. VmOf[f.contract] = v BY <1>2, <1>3, <2>1, <2>2, <2>4, LockFacts
    <2> QED BY <2>4, <2>5, <2>6 DEF IsPython
  <1>5. ASSUME NEW n \in 1 .. Len(stack[t]) - 1, VmOf[stack[t][n].contract] = v, stack[t][n].op # "create"
        PROVE  v \in Lua /\ stack[t][n].contract # p.contract
    <2>1. PICK f : f = stack[t][n] OBVIOUS
    <2>2. Len(stack[t]) \in Nat /\ n \in 1 .. Len(stack[t]) /\ Len(stack[t]) \in 1 .. Len(stack[t]) /\ n < Len(stack[t])
      BY <1>0, StackFacts
    <2>3. f \in Frame BY <1>0, <2>1, <2>2, StackFacts
    <2>4. f.phase = "calling" /\ WellFormed(f) BY <1>0, <2>1, <2>2 DEF StackShape
    <2>5. f.op = "dispatch" /\ f.contract \in Contract BY <1>5, <2>1, <2>3, <2>4 DEF Frame, Op, WellFormed
    <2>6. VmOf[f.contract] = VmOf[p.contract] /\ VmOf[p.contract] \in Lua \cup Js
      BY <1>2, <1>3, <1>4, <1>5, <2>1 DEF Vm
    <2>7. ~IsPython(f.contract) /\ ~IsPython(p.contract) /\ p.op # "destroy" BY <1>3, <1>4, <2>6 DEF IsPython
    <2>8. Guard(f.contract) \in Guards /\ Marks(f, Guard(f.contract)) BY <2>5, <2>7, ContractFacts DEF Marks, Guarded
    <2>9. ~Guarded(p, Guard(f.contract)) BY <1>0, <1>1, <2>1, <2>2, <2>8 DEF MarkedOnce, Top
    <2>10. Guard(p.contract) # Guard(f.contract) BY <2>7, <2>9 DEF Guarded
    <2>11. ~IsJs(f.contract) BY <2>6, <2>10 DEF Guard, IsJs
    <2> QED BY <1>3, <2>1, <2>6, <2>10, <2>11 DEF IsJs
  <1> QED BY <1>1, <1>4, <1>5

\* Threads that wait for each other: each waits for a lock that another has.
Entangled(S) == \A t \in S : ~Idle(t) /\ Needed(t) # <<>> /\ holder[Needed(t)] \in S

\* Nobody among them waits for the GIL, whose holder runs, nor for the instances
\* mutex of a JavaScript contract, which nobody has while it waits.
LEMMA EntangledLua ==
  ASSUME CallInv, NEW S \in SUBSET Thread, Entangled(S), NEW t \in S
  PROVE  /\ Needed(t) \in Lock /\ Top(t) \in Frame /\ Top(t).contract \in Contract /\ ~IsPython(Top(t).contract)
         /\ \/ Needed(t) = VmLock(Top(t).contract) /\ Top(t).op # "destroy"
            \/ Needed(t) = Registry(Top(t).contract) /\ IsLua(Top(t).contract)
            \/ Needed(t) = DispatchLock(Top(t).contract) /\ IsLua(Top(t).contract)
  <1>1. PICK p : p = Top(t) OBVIOUS
  <1>2. ~Idle(t) /\ Needed(t) # <<>> BY DEF Entangled
  <1>3. /\ Needed(t) \in Lock /\ p \in Frame /\ p.contract \in Contract /\ WellFormed(p) /\ p.phase # "running"
        /\ \/ Needed(t) = VmLock(p.contract) /\ (IsPython(p.contract) \/ p.op # "destroy")
           \/ Needed(t) = Registry(p.contract)
           \/ Needed(t) = DispatchLock(p.contract) /\ IsLua(p.contract)
    BY <1>1, <1>2, WaitFacts
  <1>4. PICK u \in S : holder[Needed(t)] = u BY DEF Entangled
  <1>5. ~Idle(u) /\ Needed(u) # <<>> BY DEF Entangled
  <1>6. Top(u).phase # "running" BY <1>5, WaitFacts
  <1>7. PICK n \in 1 .. Len(stack[u]) :
           /\ stack[u][n] \in Frame /\ stack[u][n].contract \in Contract
           /\ WellFormed(stack[u][n]) /\ Holds(stack[u][n], Needed(t))
           /\ \/ n = Len(stack[u]) /\ stack[u][n] = Top(u) /\ (Top(u).phase = "calling" => IsPython(Top(u).contract))
              \/ n < Len(stack[u]) /\ stack[u][n].phase = "calling"
    BY <1>3, <1>4, HolderFacts
  <1>8. PICK f : f = stack[u][n] OBVIOUS
  <1>9. f.phase # "running" BY <1>6, <1>7, <1>8
  <1>10. ~IsPython(p.contract)
    <2>1. SUFFICES ASSUME IsPython(p.contract) PROVE FALSE OBVIOUS
    <2>2. Needed(t) = VmLock(p.contract) BY <1>1, <1>3, <2>1, NeededFacts DEF Needed
    <2>3. Needed(t) # DispatchLock(f.contract) /\ Needed(t) # Registry(f.contract) BY <1>3, <1>7, <1>8, <2>2, LockFacts
    <2>4. VmLock(p.contract) = VmLock(f.contract) /\ ~IsPython(f.contract) BY <1>7, <1>8, <1>9, <2>2, <2>3 DEF Holds
    <2>5. VmOf[p.contract] = VmOf[f.contract] BY <1>3, <1>7, <1>8, <2>4, LockFacts
    <2> QED BY <2>1, <2>4, <2>5 DEF IsPython
  <1>11. Needed(t) = Registry(p.contract) => IsLua(p.contract)
    <2>1. SUFFICES ASSUME Needed(t) = Registry(p.contract) PROVE IsLua(p.contract) OBVIOUS
    <2>2. Needed(t) # DispatchLock(f.contract) /\ Needed(t) # VmLock(f.contract) BY <1>3, <1>7, <1>8, <2>1, LockFacts
    <2>3. Registry(p.contract) = Registry(f.contract) /\ f.phase = "lookup" BY <1>7, <1>8, <2>1, <2>2 DEF Holds
    <2>4. p.contract = f.contract BY <1>3, <1>7, <1>8, <2>3, LockFacts
    <2> QED BY <1>7, <1>8, <2>3, <2>4 DEF WellFormed
  <1> QED BY <1>1, <1>3, <1>10, <1>11

\* How far up in the order what a thread waits for is: the instances mutex, the
\* dispatch lock and the lock of a VM, before those of the next.
Level(rank, t) ==
  LET r == 3 * rank[VmOf[Top(t).contract]]
  IN  IF Needed(t) = VmLock(Top(t).contract) THEN r + 3
      ELSE IF Needed(t) = DispatchLock(Top(t).contract) THEN r + 2 ELSE r + 1

\* Whoever has what one of them waits for waits for something higher up, unless
\* it has gone back into a VM.
LEMMA LevelsClimb ==
  ASSUME NEW N \in Nat, NEW rank \in [Vm -> 0 .. N], CallsOrdered(rank), CallInv, StackOrdered(rank),
         NEW S \in SUBSET Thread, Entangled(S), NEW t \in S, NEW u \in S, holder[Needed(t)] = u, ~Reenters(u)
  PROVE  Level(rank, t) < Level(rank, u)
  <1>0. TypeOK BY DEF CallInv
  <1>1. PICK p : p = Top(t) OBVIOUS
  <1>2. PICK q : q = Top(u) OBVIOUS
  <1>3. /\ Needed(t) \in Lock /\ p \in Frame /\ p.contract \in Contract /\ ~IsPython(p.contract)
        /\ \/ Needed(t) = VmLock(p.contract) /\ p.op # "destroy"
           \/ Needed(t) = Registry(p.contract) /\ IsLua(p.contract)
           \/ Needed(t) = DispatchLock(p.contract) /\ IsLua(p.contract)
    BY <1>1, EntangledLua
  <1>4. /\ Needed(u) \in Lock /\ q \in Frame /\ q.contract \in Contract /\ ~IsPython(q.contract)
        /\ \/ Needed(u) = VmLock(q.contract) /\ q.op # "destroy"
           \/ Needed(u) = Registry(q.contract) /\ IsLua(q.contract)
           \/ Needed(u) = DispatchLock(q.contract) /\ IsLua(q.contract)
    BY <1>2, EntangledLua
  <1>5. ~Idle(u) /\ Needed(u) # <<>> /\ q.phase # "running" BY <1>2, WaitFacts DEF Entangled
  <1>6. PICK n \in 1 .. Len(stack[u]) :
           /\ stack[u][n] \in Frame /\ stack[u][n].contract \in Contract
           /\ WellFormed(stack[u][n]) /\ Holds(stack[u][n], Needed(t))
           /\ \/ n = Len(stack[u]) /\ stack[u][n] = q /\ (q.phase = "calling" => IsPython(q.contract))
              \/ n < Len(stack[u]) /\ stack[u][n].phase = "calling"
    BY <1>2, <1>3, HolderFacts
  <1>7. PICK f : f = stack[u][n] OBVIOUS
  <1>8. f.phase # "running" /\ f \in Frame /\ f.contract \in Contract /\ WellFormed(f) /\ Holds(f, Needed(t))
    BY <1>5, <1>6, <1>7
  <1>9. f.phase = "calling" => n < Len(stack[u]) BY <1>4, <1>6, <1>7
  <1>10. PICK r : r = rank[VmOf[p.contract]] OBVIOUS
  <1>11. PICK s : s = rank[VmOf[q.contract]] OBVIOUS
  <1>12. r \in Nat /\ s \in Nat BY <1>3, <1>4, <1>10, <1>11, ContractFacts
  <1>13. /\ Level(rank, t) \in {3 * r + 1, 3 * r + 2, 3 * r + 3}
         /\ Level(rank, u) \in {3 * s + 1, 3 * s + 2, 3 * s + 3}
         /\ Needed(u) = VmLock(q.contract) => Level(rank, u) = 3 * s + 3
         /\ Needed(t) = Registry(p.contract) => Level(rank, t) = 3 * r + 1
         /\ Needed(t) = DispatchLock(p.contract) => Level(rank, t) = 3 * r + 2
    <2>1. /\ VmLock(p.contract) # Registry(p.contract) /\ VmLock(p.contract) # DispatchLock(p.contract)
          /\ Registry(p.contract) # DispatchLock(p.contract)
      BY <1>3, LockFacts
    <2>2. Level(rank, t) = IF Needed(t) = VmLock(p.contract) THEN 3 * r + 3
                           ELSE IF Needed(t) = DispatchLock(p.contract) THEN 3 * r + 2 ELSE 3 * r + 1
      BY <1>1, <1>10 DEF Level
    <2>3. Level(rank, u) = IF Needed(u) = VmLock(q.contract) THEN 3 * s + 3
                           ELSE IF Needed(u) = DispatchLock(q.contract) THEN 3 * s + 2 ELSE 3 * s + 1
      BY <1>2, <1>11 DEF Level
    <2> QED BY <2>1, <2>2, <2>3
  <1>14. r < s => Level(rank, t) < Level(rank, u) BY <1>12, <1>13
  <1>15. ASSUME f.phase = "calling", ~IsPython(f.contract), VmOf[p.contract] = VmOf[f.contract] PROVE r < s
    <2>1. n < Len(stack[u]) /\ Len(stack[u]) \in 1 .. Len(stack[u]) /\ Len(stack[u]) \in Nat
      BY <1>0, <1>5, <1>9, <1>15, StackFacts
    <2>2. r <= s BY <1>2, <1>7, <1>10, <1>11, <1>15, <2>1 DEF StackOrdered, Top
    <2>3. r = s => VmOf[f.contract] = VmOf[q.contract] BY <1>4, <1>8, <1>10, <1>11, <1>15, SameRank
    <2>4. n \in 1 .. Len(stack[u]) - 1 BY <1>6, <2>1
    <2>5. IsLua(q.contract) \/ (IsJs(q.contract) /\ q.op # "destroy")
      <3>1. IsLua(q.contract) \/ IsJs(q.contract) BY <1>4, ContractFacts
      <3> QED BY <1>4, <3>1
    <2>6. VmOf[f.contract] # VmOf[q.contract] BY <1>2, <1>5, <1>7, <2>4, <2>5 DEF Reenters
    <2> QED BY <1>12, <2>2, <2>3, <2>6
  <1>16. CASE Needed(t) = VmLock(p.contract)
    <2>1. Needed(t) # DispatchLock(f.contract) /\ Needed(t) # Registry(f.contract) BY <1>3, <1>8, <1>16, LockFacts
    <2>2. VmLock(p.contract) = VmLock(f.contract) /\ f.phase = "calling" /\ ~IsPython(f.contract)
      BY <1>8, <1>16, <2>1 DEF Holds
    <2>3. VmOf[p.contract] = VmOf[f.contract] BY <1>3, <1>8, <2>2, LockFacts
    <2> QED BY <1>14, <1>15, <2>2, <2>3
  <1>17. CASE Needed(t) = Registry(p.contract)
    <2>1. Needed(t) # DispatchLock(f.contract) /\ Needed(t) # VmLock(f.contract) BY <1>3, <1>8, <1>17, LockFacts
    <2>2. Registry(p.contract) = Registry(f.contract) /\ f.phase = "lookup" BY <1>8, <1>17, <2>1 DEF Holds
    <2>3. p.contract = f.contract BY <1>3, <1>8, <2>2, LockFacts
    <2>4. f = q BY <1>6, <1>7, <2>2
    <2>5. Needed(u) = VmLock(q.contract) BY <1>2, <1>8, <2>2, <2>4, NeededFacts DEF Needed
    <2>6. r = s BY <1>10, <1>11, <2>3, <2>4
    <2> QED BY <1>12, <1>13, <1>17, <2>5, <2>6
  <1>18. CASE Needed(t) = DispatchLock(p.contract)
    <2>1. Needed(t) # Registry(f.contract) /\ Needed(t) # VmLock(f.contract) BY <1>3, <1>8, <1>18, LockFacts
    <2>2. DispatchLock(p.contract) = DispatchLock(f.contract) /\ IsLua(f.contract) /\ f.phase \in {"queued", "calling"}
      BY <1>8, <1>18, <2>1 DEF Holds
    <2>3. p.contract = f.contract BY <1>3, <1>8, <2>2, LockFacts
    <2>4. CASE f.phase = "queued"
      <3>1. f = q BY <1>6, <1>7, <2>4
      <3>2. Needed(u) = VmLock(q.contract) BY <1>2, <1>8, <2>4, <3>1, NeededFacts DEF Needed
      <3>3. r = s BY <1>10, <1>11, <2>3, <3>1
      <3> QED BY <1>12, <1>13, <1>18, <3>2, <3>3
    <2>5. CASE f.phase = "calling"
      <3>1. ~IsPython(f.contract) BY <1>8, <2>2, ContractFacts
      <3> QED BY <1>14, <1>15, <2>3, <2>5, <3>1
    <2> QED BY <2>2, <2>4, <2>5
  <1> QED BY <1>3, <1>16, <1>17, <1>18

\* So among threads that wait for each other one has gone back into a VM.
LEMMA OrderedWaits ==
  ASSUME NEW N \in Nat, NEW rank \in [Vm -> 0 .. N], CallsOrdered(rank), CallInv, StackOrdered(rank)
  PROVE  NoLockCycle
  <1> SUFFICES ASSUME NEW S \in SUBSET Thread, S # {}, Entangled(S), \A t \in S : ~Reenters(t) PROVE FALSE
    BY DEF NoLockCycle, Entangled
  <1>1. ASSUME NEW t \in S PROVE Level(rank, t) \in 0 .. 3 * N + 3
    <2>1. Top(t).contract \in Contract BY EntangledLua
    <2>2. PICK r : r = rank[VmOf[Top(t).contract]] OBVIOUS
    <2>3. r \in 0 .. N BY <2>1, <2>2, ContractFacts
    <2>4. Level(rank, t) \in {3 * r + 1, 3 * r + 2, 3 * r + 3} BY <2>2 DEF Level
    <2>5. 3 * r <= 3 * N BY <2>3
    <2> QED BY <2>3, <2>4, <2>5
  <1>2. PICK T : T = {3 * N + 3 - Level(rank, t) : t \in S} OBVIOUS
  <1>3. T \in SUBSET Nat /\ T # {}
    <2>1. \A t \in S : 3 * N + 3 - Level(rank, t) \in Nat BY <1>1
    <2> QED BY <1>2, <2>1
  <1>4. PICK x \in T : \A y \in T : x <= y BY <1>3, LeastNatural
  <1>5. PICK t \in S : x = 3 * N + 3 - Level(rank, t) BY <1>2, <1>4
  <1>6. PICK u \in S : holder[Needed(t)] = u BY DEF Entangled
  <1>7. Level(rank, t) < Level(rank, u) BY <1>6, LevelsClimb
  <1>8. x <= 3 * N + 3 - Level(rank, u) BY <1>2, <1>4
  <1>9. Level(rank, t) \in 0 .. 3 * N + 3 /\ Level(rank, u) \in 0 .. 3 * N + 3 BY <1>1
  <1> QED BY <1>5, <1>7, <1>8, <1>9

\* Whatever guest code calls, a thread asks for the lock of a VM it is running in
\* only from a factory or, in Lua, from a function of another contract than the
\* one it calls: everything else in_dispatch_threads refuses, and Python gives
\* the interpreter up (lua_dispatch, js_dispatch, python_vm_dispatch).
THEOREM ReentryOnlyUnguarded == Spec => []ReentryUnguarded
  <1>1. DispatchInv => ReentryUnguarded BY InvParts, PastGuards
  <1> QED BY <1>1, DispatchInvariant, PTL

\* No threads, however many, wait for each other through VMs, instances mutexes
\* and dispatch locks without one that has gone back into its VM, if guest code
\* keeps to an order of the VMs: a thread that has what another waits for runs,
\* or waits for something further up.
THEOREM NoWaitingCycle ==
  ASSUME NEW N \in Nat, NEW rank \in [Vm -> 0 .. N], CallsOrdered(rank)
  PROVE  Spec => []NoLockCycle
  <1>1. DispatchInv /\ StackOrdered(rank) => NoLockCycle BY InvParts, OrderedWaits
  <1>2. Spec => []StackOrdered(rank) BY StackStaysOrdered
  <1> QED BY <1>1, <1>2, DispatchInvariant, PTL
=============================================================================

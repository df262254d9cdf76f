-------------------------- MODULE Ops_proofs --------------------------
(***************************************************************************)
(* Proofs about the operation manager, for any operations and goroutines:  *)
(* type correctness, that an operation is decided once, and that the       *)
(* manager implements Approval.                                            *)
(*                                                                         *)
(* DecidedOnce is not inductive: that a held operation stays untouched     *)
(* needs that nothing of it is under way, no task that emits or forwards   *)
(* it and no update, which in turn needs that an operation the manager     *)
(* does not know is nowhere at all.                                        *)
(***************************************************************************)
EXTENDS Ops, TLAPS

\* g is at work on o, other than on a cancel it has yet to carry out.
Working(g, o) == task[g].at \in {"forward", "register", "emit", "deliver"} /\ task[g].op = o

Untouched(o) ==
    /\ inner[o] = "unknown"
    /\ \A g \in Goroutines : ~Working(g, o)
    /\ \A i \in DOMAIN outbox : outbox[i].op # o

OpInv(o) ==
    /\ latest[o] = "unknown" => o \notin held /\ Untouched(o)
    /\ o \in held => latest[o] = "ready" /\ Untouched(o)
    /\ \A g \in Goroutines : Forwarding(g, o) =>
          /\ inner[o] = "unknown"
          /\ \A h \in Goroutines : Forwarding(h, o) => h = g

OpsInv == TypeOK /\ \A o \in Ops : OpInv(o)

-----------------------------------------------------------------------
(* Types.                                                                  *)

\* A new manager is well typed.
LEMMA InitType == Init => TypeOK
BY OpsAssumption DEF Init, TypeOK, Goroutines, Tasks, Idle

\* The tasks the operations give a goroutine.
LEMMA TaskTypes ==
    ASSUME NEW o \in Ops
    PROVE  /\ Idle \in Tasks
           /\ \A at \in {"forward", "register", "decide", "cancel"} : Job(at, o) \in Tasks
           /\ \A at \in {"emit", "deliver"}, s \in Statuses : Emitting(at, o, s) \in Tasks
BY DEF Tasks, Job, Emitting

\* An operation's own steps keep the types.
LEMMA OpType ==
    ASSUME TypeOK, NEW o \in Ops, OpNext(o)
    PROVE  TypeOK'
<1> USE TaskTypes, OpsAssumption DEF TypeOK, Goroutines, Takes, Goes, managerVars, innerVars
<1>1. CASE AddKnown(o)
  <2>1. latest[o] \in Statuses /\ reAdds + 1 \in Nat
    BY <1>1 DEF AddKnown
  <2> QED
    BY <1>1, <2>1 DEF AddKnown
<1>2. CASE AddResumed(o)
  BY <1>2 DEF AddResumed, Statuses
<1>3. ASSUME NEW verdict \in Verdicts, AddReady(o, verdict) PROVE TypeOK'
  BY <1>3 DEF AddReady, Statuses, Final
<1>4. ASSUME NEW g \in Others, NEW allow \in BOOLEAN, Decide(g, o, allow) PROVE TypeOK'
  BY <1>4 DEF Decide, Statuses, Final
<1>5. ASSUME NEW g \in Goroutines, Cancel(g, o) PROVE TypeOK'
  BY <1>5 DEF Cancel
<1>6. CASE LimitFires(o) \/ KillFires(o)
  BY <1>6 DEF LimitFires, KillFires, AskedToStop
<1>7. CASE InnerAwaits(o)
  BY <1>7 DEF InnerAwaits, Snapshots, Statuses
<1>8. ASSUME NEW s \in Final, InnerEnds(o, s) PROVE TypeOK'
  BY <1>8 DEF InnerEnds, Snapshots, Statuses
<1>9. ASSUME NEW g \in Goroutines, Steps(g, o) PROVE TypeOK'
  <2>1. CASE Forward(g, o)
    <3>1. task' \in [Goroutines -> Tasks]
      BY <2>1 DEF Forward
    <3>2. inner' \in [Ops -> {"unknown", "added", "running", "ended"}]
      BY <2>1 DEF Forward
    <3> QED
      BY <2>1, <3>1, <3>2 DEF Forward
  <2>2. CASE ForwardFails(g, o) \/ CancelDecides(g, o)
    <3>1. Emitting("emit", o, "failed") \in Tasks /\ Emitting("emit", o, "canceled") \in Tasks
      BY DEF Statuses, Final
    <3> QED
      BY <2>2, <3>1 DEF ForwardFails, CancelDecides
  <2>4. CASE Register(g, o) \/ CancelForwards(g, o)
    BY <2>4 DEF Register, CancelForwards, AskedToStop
  <2>3. ASSUME NEW s \in Statuses, Emit(g, o, s) \/ Deliver(g, o, s) PROVE TypeOK'
    <3>1. CASE Emit(g, o, s)
      <4>1. task' \in [Goroutines -> Tasks]
        BY <3>1, <2>3, <1>9 DEF Emit
      <4>2. latest' \in [Ops -> Statuses \cup {"unknown"}]
        BY <3>1, <2>3 DEF Emit
      <4>3. timer' \in [Ops -> {"off", "limit", "kill"}]
        BY <3>1 DEF Emit
      <4> QED
        BY <3>1, <4>1, <4>2, <4>3 DEF Emit
    <3>2. CASE Deliver(g, o, s)
      <4>1. [op |-> o, status |-> s] \in Snapshots
        BY <2>3 DEF Snapshots
      <4> QED
        BY <3>2, <4>1, <1>9 DEF Deliver, Tapped
    <3> QED
      BY <2>3, <3>1, <3>2
  <2> QED
    BY <1>9, <2>1, <2>2, <2>3, <2>4 DEF Steps
<1> QED
  BY <1>1, <1>2, <1>3, <1>4, <1>5, <1>6, <1>7, <1>8, <1>9 DEF OpNext

\* Every step keeps the types.
LEMMA TypeStep == TypeOK /\ [Next]_vars => TypeOK'
<1> SUFFICES ASSUME TypeOK, [Next]_vars PROVE TypeOK'
  OBVIOUS
<1>1. CASE PumpTakes
  <2>1. Head(outbox) \in Snapshots /\ Tail(outbox) \in Seq(Snapshots)
    BY <1>1 DEF PumpTakes, TypeOK
  <2>2. Emitting("emit", Head(outbox).op, Head(outbox).status) \in Tasks
    BY <2>1, TaskTypes DEF Snapshots
  <2> QED
    BY <1>1, <2>1, <2>2 DEF PumpTakes, TypeOK, Takes, managerVars
<1>2. CASE Feed
  <2>1. Head(updates) \in Snapshots /\ Tail(updates) \in Seq(Snapshots)
    BY <1>2 DEF Feed, TypeOK
  <2> QED
    BY <1>2, <2>1 DEF Feed, TypeOK, Snapshots, innerVars
<1>3. CASE UNCHANGED vars
  BY <1>3 DEF vars, managerVars, innerVars, TypeOK
<1> QED
  BY <1>1, <1>2, <1>3, OpType DEF Next

\* Type correctness of the operation manager.
THEOREM OpsTypeCorrect == Spec => []TypeOK
BY InitType, TypeStep, PTL DEF Spec

-----------------------------------------------------------------------
(* The invariant.                                                          *)

\* A new manager, which knows no operation, satisfies the invariant.
LEMMA InitInv == Init => OpsInv
<1> SUFFICES ASSUME Init PROVE OpsInv
  OBVIOUS
<1>1. \A g \in Goroutines, o \in Ops : ~Working(g, o) /\ ~Forwarding(g, o)
  BY DEF Init, Idle, Working, Forwarding
<1>2. ASSUME NEW o \in Ops PROVE OpInv(o)
  BY <1>1 DEF Init, OpInv, Untouched
<1> QED
  BY <1>2, InitType DEF OpsInv

\* What the invariant says of an operation.
Same(x) ==
    /\ latest'[x] = latest[x]
    /\ x \in held' <=> x \in held
    /\ inner'[x] = inner[x]
    /\ \A g \in Goroutines : /\ Working(g, x)' <=> Working(g, x)
                             /\ Forwarding(g, x)' <=> Forwarding(g, x)

SameUpdates(x) ==
    (\A i \in DOMAIN outbox : outbox[i].op # x)
        => \A i \in DOMAIN outbox' : outbox'[i].op # x

\* A step that leaves an operation alone keeps its invariant.
LEMMA SameInv ==
    ASSUME NEW x \in Ops, OpInv(x), Same(x), SameUpdates(x)
    PROVE  OpInv(x)'
BY DEF OpInv, Same, SameUpdates, Untouched

\* A step of one operation does not touch another.
LEMMA OthersAreSame ==
    ASSUME TypeOK, NEW o \in Ops, OpNext(o), NEW x \in Ops \ {o}
    PROVE  Same(x) /\ SameUpdates(x)
<1> DEFINE Kept == Same(x) /\ SameUpdates(x)
<1> USE OpsAssumption DEF TypeOK, Same, SameUpdates, Takes, Goes, Working, Forwarding, Idle, Job,
        Emitting, Goroutines, managerVars, innerVars
<1>1. CASE AddKnown(o) \/ AddResumed(o)
  BY <1>1 DEF AddKnown, AddResumed
<1>3. ASSUME NEW verdict \in Verdicts, AddReady(o, verdict) PROVE Kept
  BY <1>3 DEF AddReady
<1>4. ASSUME NEW g \in Others, NEW allow \in BOOLEAN, Decide(g, o, allow) PROVE Kept
  BY <1>4 DEF Decide
<1>5. ASSUME NEW g \in Goroutines, Cancel(g, o) PROVE Kept
  BY <1>5 DEF Cancel
<1>6. CASE LimitFires(o) \/ KillFires(o)
  BY <1>6 DEF LimitFires, KillFires
<1>7. CASE InnerAwaits(o)
  BY <1>7 DEF InnerAwaits
<1>8. ASSUME NEW s \in Final, InnerEnds(o, s) PROVE Kept
  BY <1>8 DEF InnerEnds
<1>9. ASSUME NEW g \in Goroutines, Steps(g, o) PROVE Kept
  <2>1. CASE Forward(g, o) \/ ForwardFails(g, o) \/ Register(g, o)
    BY <1>9, <2>1 DEF Forward, ForwardFails, Register
  <2>2. CASE CancelDecides(g, o) \/ CancelForwards(g, o)
    BY <1>9, <2>2 DEF CancelDecides, CancelForwards
  <2>3. ASSUME NEW s \in Statuses, Emit(g, o, s) \/ Deliver(g, o, s) PROVE Kept
    BY <1>9, <2>3 DEF Emit, Deliver
  <2> QED
    BY <1>9, <2>1, <2>2, <2>3 DEF Steps
<1> QED
  BY <1>1, <1>3, <1>4, <1>5, <1>6, <1>7, <1>8, <1>9 DEF OpNext

\* A step of an operation keeps its own invariant.
LEMMA OwnInv ==
    ASSUME TypeOK, NEW o \in Ops, OpInv(o), OpNext(o)
    PROVE  OpInv(o)'
<1> USE OpsAssumption DEF TypeOK, OpInv, Untouched, Takes, Goes, Working, Forwarding, Idle, Job,
        Emitting, Goroutines, managerVars, innerVars
<1>1. CASE AddKnown(o)
  BY <1>1 DEF AddKnown
<1>2. CASE AddResumed(o)
  BY <1>2 DEF AddResumed
<1>3. ASSUME NEW verdict \in Verdicts, AddReady(o, verdict) PROVE OpInv(o)'
  BY <1>3 DEF AddReady
<1>4. ASSUME NEW g \in Others, NEW allow \in BOOLEAN, Decide(g, o, allow) PROVE OpInv(o)'
  BY <1>4 DEF Decide
<1>5. ASSUME NEW g \in Goroutines, Cancel(g, o) PROVE OpInv(o)'
  BY <1>5 DEF Cancel
<1>6. CASE LimitFires(o) \/ KillFires(o)
  BY <1>6 DEF LimitFires, KillFires
<1>7. CASE InnerAwaits(o)
  BY <1>7 DEF InnerAwaits
<1>8. ASSUME NEW s \in Final, InnerEnds(o, s) PROVE OpInv(o)'
  BY <1>8 DEF InnerEnds
<1>9. ASSUME NEW g \in Goroutines, Steps(g, o) PROVE OpInv(o)'
  <2>1. CASE Forward(g, o)
    BY <1>9, <2>1 DEF Forward
  <2>2. CASE ForwardFails(g, o)
    BY <1>9, <2>2 DEF ForwardFails
  <2>3. CASE Register(g, o)
    BY <1>9, <2>3 DEF Register
  <2>4. CASE CancelDecides(g, o)
    BY <1>9, <2>4 DEF CancelDecides
  <2>5. CASE CancelForwards(g, o)
    BY <1>9, <2>5 DEF CancelForwards
  <2>6. ASSUME NEW s \in Statuses, Emit(g, o, s) \/ Deliver(g, o, s) PROVE OpInv(o)'
    BY <1>9, <2>6 DEF Emit, Deliver, Statuses, Final
  <2> QED
    BY <1>9, <2>1, <2>2, <2>3, <2>4, <2>5, <2>6 DEF Steps
<1> QED
  BY <1>1, <1>2, <1>3, <1>4, <1>5, <1>6, <1>7, <1>8, <1>9 DEF OpNext

\* Taking an update up keeps the invariant: the operation has been forwarded.
LEMMA PumpInv ==
    ASSUME TypeOK, NEW x \in Ops, OpInv(x), PumpTakes
    PROVE  OpInv(x)'
<1> DEFINE u == Head(outbox)
<1>1. /\ outbox # <<>> /\ outbox \in Seq(Snapshots) /\ u = outbox[1]
      /\ task[Pump] = Idle /\ task' = [task EXCEPT ![Pump] = Emitting("emit", u.op, u.status)]
      /\ outbox' = Tail(outbox)
      /\ UNCHANGED <<latest, held, inner>>
  BY DEF PumpTakes, Takes, TypeOK, managerVars
<1>2. \A g \in Goroutines : Forwarding(g, x)' <=> Forwarding(g, x)
  BY <1>1 DEF TypeOK, Forwarding, Idle, Emitting
<1>3. Untouched(x) => Untouched(x)'
  <2> SUFFICES ASSUME Untouched(x) PROVE Untouched(x)'
    OBVIOUS
  <2>1. u.op # x
    BY <1>1 DEF Untouched
  <2>2. \A g \in Goroutines : ~Working(g, x)'
    BY <1>1, <2>1 DEF Untouched, TypeOK, Working, Emitting
  <2>3. \A i \in DOMAIN outbox' : outbox'[i].op # x
    BY <1>1 DEF Untouched
  <2> QED
    BY <1>1, <2>2, <2>3 DEF Untouched
<1> QED
  BY <1>1, <1>2, <1>3 DEF OpInv

\* Every step keeps the invariant.
LEMMA StepInv == OpsInv /\ [Next]_vars => OpsInv'
<1> SUFFICES ASSUME OpsInv, [Next]_vars, NEW x \in Ops PROVE OpInv(x)'
  BY TypeStep DEF OpsInv
<1>0. TypeOK /\ OpInv(x)
  BY DEF OpsInv
<1>1. ASSUME NEW o \in Ops, OpNext(o) PROVE OpInv(x)'
  <2>1. CASE x = o
    BY <1>0, <1>1, <2>1, OwnInv
  <2>2. CASE x # o
    BY <1>0, <1>1, <2>2, OthersAreSame, SameInv
  <2> QED
    BY <2>1, <2>2
<1>2. CASE PumpTakes
  BY <1>0, <1>2, PumpInv
<1>3. CASE Feed \/ UNCHANGED vars
  <2>1. UNCHANGED <<latest, held, inner, task, outbox>>
    BY <1>3 DEF Feed, vars, managerVars, innerVars
  <2> QED
    BY <1>0, <2>1 DEF OpInv, Untouched, Working, Forwarding
<1> QED
  BY <1>1, <1>2, <1>3 DEF Next

\* The invariant holds throughout.
LEMMA OpsInvariant == Spec => []OpsInv
BY InitInv, StepInv, PTL DEF Spec

\* An operation is decided once, for any operations, goroutines and verdicts.
THEOREM OpsDecidedOnce == Spec => []DecidedOnce
<1>1. OpsInv => DecidedOnce
  BY DEF OpsInv, OpInv, Untouched, Working, Forwarding, DecidedOnce
<1> QED
  BY <1>1, OpsInvariant, PTL

-----------------------------------------------------------------------
(* Refinement: what has become of each operation changes as Approval says. *)

Fates == [o \in Ops |-> Fate(o)]

\* The moves of Approval, of one operation.
Moves(from, to) ==
    \/ from = "new"     /\ to \in {"held", "allowed", "dropped"}
    \/ from = "held"    /\ to \in {"allowed", "dropped"}
    \/ from = "allowed" /\ to \in {"started", "dropped"}
    \/ from = "started" /\ to = "ended"

\* A step that leaves an operation alone keeps its fate.
LEMMA SameFate ==
    ASSUME NEW x \in Ops, Same(x)
    PROVE  Fate(x)' = Fate(x)
<1>1. (\E g \in Goroutines : Forwarding(g, x))' <=> \E g \in Goroutines : Forwarding(g, x)
  BY DEF Same
<1> QED
  BY <1>1 DEF Same, Fate

\* A step of an operation keeps its fate, or moves it on.
LEMMA OwnFate ==
    ASSUME TypeOK, NEW o \in Ops, OpInv(o), OpNext(o)
    PROVE  Fate(o)' = Fate(o) \/ Moves(Fate(o), Fate(o)')
<1> DEFINE Goal == Fate(o)' = Fate(o) \/ Moves(Fate(o), Fate(o)')
<1> USE OpsAssumption DEF TypeOK, OpInv, Untouched, Takes, Goes, Working, Forwarding, Idle, Job,
        Emitting, Goroutines, managerVars, innerVars
<1>1. CASE AddKnown(o)
  BY <1>1 DEF AddKnown, Fate
<1>2. CASE AddResumed(o)
  <2>1. Fate(o) = "new"
    BY <1>2 DEF AddResumed, Fate
  <2>2. Fate(o)' = "allowed"
    BY <1>2 DEF AddResumed, Fate
  <2> QED
    BY <2>1, <2>2 DEF Moves
<1>3. ASSUME NEW verdict \in Verdicts, AddReady(o, verdict) PROVE Goal
  <2>1. Fate(o) = "new"
    BY <1>3 DEF AddReady, Fate
  <2>2. Fate(o)' \in {"held", "allowed", "dropped"}
    BY <1>3 DEF AddReady, Fate
  <2> QED
    BY <2>1, <2>2 DEF Moves
<1>4. ASSUME NEW g \in Others, NEW allow \in BOOLEAN, Decide(g, o, allow) PROVE Goal
  <2>1. Fate(o) = "held"
    BY <1>4 DEF Decide, Fate
  <2>2. Fate(o)' \in {"allowed", "dropped"}
    BY <1>4 DEF Decide, Fate
  <2> QED
    BY <2>1, <2>2 DEF Moves
<1>5. ASSUME NEW g \in Goroutines, Cancel(g, o) PROVE Goal
  BY <1>5 DEF Cancel, Fate
<1>6. CASE LimitFires(o) \/ KillFires(o)
  BY <1>6 DEF LimitFires, KillFires, Fate
<1>7. CASE InnerAwaits(o)
  BY <1>7 DEF InnerAwaits, Fate
<1>8. ASSUME NEW s \in Final, InnerEnds(o, s) PROVE Goal
  BY <1>8 DEF InnerEnds, Fate, Moves
<1>9. ASSUME NEW g \in Goroutines, Steps(g, o) PROVE Goal
  <2>1. CASE Forward(g, o)
    <3>1. Fate(o) = "allowed"
      BY <1>9, <2>1 DEF Forward, Fate
    <3>2. Fate(o)' = "started"
      BY <1>9, <2>1 DEF Forward, Fate
    <3> QED
      BY <3>1, <3>2 DEF Moves
  <2>2. CASE ForwardFails(g, o)
    <3>1. Fate(o) = "allowed"
      BY <1>9, <2>2 DEF ForwardFails, Fate
    <3>2. Fate(o)' = "dropped"
      BY <1>9, <2>2 DEF ForwardFails, Fate
    <3> QED
      BY <3>1, <3>2 DEF Moves
  <2>3. CASE Register(g, o) \/ CancelForwards(g, o)
    BY <1>9, <2>3 DEF Register, CancelForwards, Fate
  <2>4. CASE CancelDecides(g, o)
    <3>1. CASE o \in held
      <4>1. Fate(o) = "held"
        BY <3>1 DEF Fate
      <4>2. Fate(o)' = "dropped"
        BY <1>9, <2>4, <3>1 DEF CancelDecides, Fate
      <4> QED
        BY <4>1, <4>2 DEF Moves
    <3>2. CASE o \notin held
      <4>1. task[g] = Job("decide", o) /\ task' = [task EXCEPT ![g] = Idle]
        BY <2>4, <3>2 DEF CancelDecides
      <4>2. \A h \in Goroutines : Forwarding(h, o)' <=> Forwarding(h, o)
        BY <4>1, <1>9
      <4>3. (\E h \in Goroutines : Forwarding(h, o))' <=> \E h \in Goroutines : Forwarding(h, o)
        BY <4>2
      <4>4. UNCHANGED <<latest, held, inner>>
        BY <2>4, <3>2 DEF CancelDecides
      <4> QED
        BY <4>3, <4>4 DEF Fate
    <3> QED
      BY <3>1, <3>2
  <2>5. ASSUME NEW s \in Statuses, Emit(g, o, s) PROVE Goal
    <3>1. latest[o] # "unknown" /\ latest'[o] # "unknown" /\ o \notin held
      BY <1>9, <2>5 DEF Emit, Statuses, Final
    <3> QED
      BY <1>9, <2>5, <3>1 DEF Emit, Fate
  <2>6. ASSUME NEW s \in Statuses, Deliver(g, o, s) PROVE Goal
    BY <1>9, <2>6 DEF Deliver, Fate
  <2> QED
    BY <1>9, <2>1, <2>2, <2>3, <2>4, <2>5, <2>6 DEF Steps
<1> QED
  BY <1>1, <1>2, <1>3, <1>4, <1>5, <1>6, <1>7, <1>8, <1>9 DEF OpNext

\* A move of one operation, the others unchanged, is a step of Approval.
LEMMA MoveIsAStep ==
    ASSUME NEW o \in Ops, Moves(Fate(o), Fate(o)'),
           \A x \in Ops \ {o} : Fate(x)' = Fate(x)
    PROVE  Promise!Next
<1>1. Fates' = [Fates EXCEPT ![o] = Fate(o)'] /\ Fates[o] = Fate(o)
  BY DEF Fates
<1> DEFINE To(from, to) == Fates[o] \in from /\ Fates' = [Fates EXCEPT ![o] = to]
<1>2. \/ To({"new"}, "held")
      \/ To({"new", "held"}, "allowed")
      \/ To({"new", "held", "allowed"}, "dropped")
      \/ To({"allowed"}, "started")
      \/ To({"started"}, "ended")
  BY <1>1 DEF Moves
<1> QED
  BY <1>2 DEF Fates, Promise!Next, Promise!Hold, Promise!Allow, Promise!Drop,
     Promise!Start, Promise!End, Promise!Becomes

\* Every step of the manager is a step of Approval, or changes no fate.
LEMMA FateStep == OpsInv /\ [Next]_vars => [Promise!Next]_Fates
<1> SUFFICES ASSUME OpsInv, [Next]_vars PROVE [Promise!Next]_Fates
  OBVIOUS
<1>0. TypeOK /\ \A o \in Ops : OpInv(o)
  BY DEF OpsInv
<1>1. ASSUME NEW o \in Ops, OpNext(o) PROVE [Promise!Next]_Fates
  <2>1. \A x \in Ops \ {o} : Fate(x)' = Fate(x)
    BY <1>0, <1>1, OthersAreSame, SameFate
  <2>2. CASE Fate(o)' = Fate(o)
    BY <2>1, <2>2 DEF Fates
  <2>3. CASE Moves(Fate(o), Fate(o)')
    BY <2>1, <2>3, MoveIsAStep
  <2> QED
    BY <1>0, <1>1, <2>2, <2>3, OwnFate
<1>2. CASE PumpTakes
  <2>1. ASSUME NEW x \in Ops PROVE Fate(x)' = Fate(x)
    <3>1. \A g \in Goroutines : Forwarding(g, x)' <=> Forwarding(g, x)
      BY <1>0, <1>2 DEF PumpTakes, Takes, TypeOK, Forwarding, Idle, Emitting
    <3>2. (\E g \in Goroutines : Forwarding(g, x))' <=> \E g \in Goroutines : Forwarding(g, x)
      BY <3>1
    <3> QED
      BY <1>2, <3>2 DEF PumpTakes, Fate, managerVars
  <2> QED
    BY <2>1 DEF Fates
<1>3. CASE Feed \/ UNCHANGED vars
  <2>1. UNCHANGED <<latest, held, inner, task>>
    BY <1>3 DEF Feed, vars, managerVars, innerVars
  <2> QED
    BY <2>1 DEF Fates, Fate, Forwarding
<1> QED
  BY <1>1, <1>2, <1>3 DEF Next

\* The operation manager keeps the promise of Approval: a refused or cancelled
\* command never runs, and one that is let through runs once.
THEOREM OpsImplementApproval == Spec => Approved
<1>1. Init => Promise!Init
  BY DEF Init, Promise!Init, Fate
<1> QED
  BY <1>1, OpsInvariant, FateStep, PTL DEF Spec, Approved, Promise!Spec, Fates
=======================================================================

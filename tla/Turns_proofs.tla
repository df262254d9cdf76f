-------------------------- MODULE Turns_proofs --------------------------
(***************************************************************************)
(* Proofs about the turns of a session: the actor decides on a state the   *)
(* coordinator was in, a turn that ends normally has been answered, and    *)
(* what a cancel parks and refuses.                                        *)
(***************************************************************************)
EXTENDS Session_proofs, WellFoundedInduction

-----------------------------------------------------------------------
(* Induction over the natural numbers, for a set of them.  The library's   *)
(* theorem is about an operator, which the provers cannot instantiate; the *)
(* least element of the numbers outside the set does as well.              *)

\* A set with 0 that has n + 1 whenever it has n has every natural number.
LEMMA SetInduction ==
    ASSUME NEW S, 0 \in S, \A n \in Nat : n \in S => n + 1 \in S
    PROVE  \A n \in Nat : n \in S
<1> SUFFICES ASSUME \E n \in Nat : n \notin S PROVE FALSE
  OBVIOUS
<1> DEFINE T == {n \in Nat : n \notin S}
<1>1. PICK x \in T : \A y \in T : ~(<<y, x>> \in OpToRel(<, Nat))
  <2>1. T \subseteq Nat /\ T # {}
    OBVIOUS
  <2> QED
    BY <2>1, NatLessThanWellFounded, WFMin
<1>2. x \in Nat /\ x \notin S
  OBVIOUS
<1>3. x # 0 /\ x - 1 \in Nat
  BY <1>2
<1>4. x - 1 \in S
  <2>1. SUFFICES ASSUME x - 1 \notin S PROVE FALSE
    OBVIOUS
  <2>2. x - 1 \in T
    BY <1>3, <2>1
  <2>3. <<x - 1, x>> \in OpToRel(<, Nat)
    BY <1>2, <1>3 DEF OpToRel
  <2> QED
    BY <1>1, <2>2, <2>3
<1> QED
  BY <1>2, <1>3, <1>4

-----------------------------------------------------------------------
(* The mirrors the actor goes through when it handles its queue.           *)

IsTrail(t, m, es) ==
    t = [i \in 0 .. Len(es) |-> IF i = 0 THEN m ELSE Handled(t[i - 1], es[i])]

\* The recursive definition of Trail has a solution.
LEMMA TrailExists ==
    ASSUME NEW m, NEW es \in Seq(Events)
    PROVE  \E t : IsTrail(t, m, es)
<1> DEFINE Begins(t, n) ==
             t = [i \in 0 .. n |-> IF i = 0 THEN m ELSE Handled(t[i - 1], es[i])]
           S == {n \in Nat : \E t : Begins(t, n)}
<1>1. 0 \in S
  <2> DEFINE t == [i \in 0 .. 0 |-> m]
  <2>1. Begins(t, 0)
    OBVIOUS
  <2> QED
    BY <2>1
<1>2. ASSUME NEW n \in Nat, n \in S PROVE n + 1 \in S
  <2>1. PICK t : Begins(t, n)
    BY <1>2
  <2> DEFINE u == [i \in 0 .. n + 1 |-> IF i <= n THEN t[i] ELSE Handled(t[n], es[n + 1])]
  <2>2. \A i \in 0 .. n + 1 :
           u[i] = IF i = 0 THEN m ELSE Handled(u[i - 1], es[i])
    <3>1. \A i \in 0 .. n : t[i] = IF i = 0 THEN m ELSE Handled(t[i - 1], es[i])
      BY <2>1
    <3>2. ASSUME NEW i \in 0 .. n + 1
          PROVE  u[i] = IF i = 0 THEN m ELSE Handled(u[i - 1], es[i])
      <4>1. CASE i = 0
        BY <3>1, <4>1
      <4>2. CASE i \in 1 .. n
        <5>1. i - 1 \in 0 .. n /\ i \in 0 .. n /\ i # 0
          BY <4>2
        <5> QED
          BY <3>1, <5>1
      <4>3. CASE i = n + 1
        <5>1. n \in 0 .. n /\ n \in 0 .. n + 1 /\ i - 1 = n /\ ~(i <= n) /\ i # 0
          BY <4>3
        <5> QED
          BY <4>3, <5>1
      <4> QED
        BY <4>1, <4>2, <4>3
    <3> QED
      BY <3>2
  <2>3. Begins(u, n + 1)
    BY <2>2
  <2>4. n + 1 \in Nat /\ \E v : Begins(v, n + 1)
    <3> HIDE DEF u, Begins
    <3> QED
      BY <2>3
  <2> QED
    BY <2>4
<1>3. \A n \in Nat : n \in S
  <2> HIDE DEF S
  <2> QED
    BY <1>1, <1>2, SetInduction
<1>4. Len(es) \in S
  BY <1>3
<1> QED
  BY <1>4 DEF IsTrail

\* It has no other.
LEMMA TrailUnique ==
    ASSUME NEW m, NEW es \in Seq(Events), NEW t, NEW u,
           IsTrail(t, m, es), IsTrail(u, m, es)
    PROVE  t = u
<1> DEFINE S == {n \in Nat : n <= Len(es) => t[n] = u[n]}
<1>1. 0 \in S
  BY DEF IsTrail
<1>2. ASSUME NEW n \in Nat, n \in S PROVE n + 1 \in S
  BY <1>2 DEF IsTrail
<1>3. \A n \in Nat : n \in S
  <2> HIDE DEF S
  <2> QED
    BY <1>1, <1>2, SetInduction
<1>4. \A i \in 0 .. Len(es) : t[i] = u[i]
  BY <1>3
<1> QED
  BY <1>4 DEF IsTrail

\* So Trail is it.
LEMMA TrailDef ==
    ASSUME NEW m, NEW es \in Seq(Events)
    PROVE  IsTrail(Trail(m, es), m, es)
BY TrailExists DEF IsTrail, Trail

\* An event that is added leaves the trail as it was and adds a mirror.
LEMMA TrailAppend ==
    ASSUME NEW m, NEW es \in Seq(Events), NEW e \in Events
    PROVE  /\ \A i \in 0 .. Len(es) : Trail(m, Append(es, e))[i] = Trail(m, es)[i]
           /\ Trail(m, Append(es, e))[Len(es) + 1] = Handled(Trail(m, es)[Len(es)], e)
<1> DEFINE t == Trail(m, Append(es, e))
           u == [i \in 0 .. Len(es) |-> t[i]]
           l == Len(es)
<1>0. /\ Append(es, e) \in Seq(Events) /\ Len(Append(es, e)) = l + 1 /\ l \in Nat
      /\ \A i \in 1 .. l : Append(es, e)[i] = es[i]
      /\ Append(es, e)[l + 1] = e
  OBVIOUS
<1>1. IsTrail(t, m, Append(es, e))
  BY <1>0, TrailDef
<1> HIDE DEF t
<1>2. /\ t[0] = m
      /\ \A i \in 1 .. l + 1 : t[i] = Handled(t[i - 1], Append(es, e)[i])
  <2>1. \A i \in 0 .. l + 1 :
           t[i] = IF i = 0 THEN m ELSE Handled(t[i - 1], Append(es, e)[i])
    BY <1>0, <1>1 DEF IsTrail
  <2>2. \A i \in 1 .. l + 1 : i \in 0 .. l + 1 /\ i # 0
    BY <1>0
  <2> QED
    BY <1>0, <2>1, <2>2
<1>3. ASSUME NEW i \in 0 .. l
      PROVE  u[i] = IF i = 0 THEN m ELSE Handled(u[i - 1], es[i])
  <2>1. CASE i = 0
    BY <1>2, <2>1
  <2>2. CASE i \in 1 .. l
    <3>1. i - 1 \in 0 .. l /\ i \in 1 .. l + 1 /\ i # 0
      BY <1>0, <2>2
    <3> QED
      BY <1>0, <1>2, <2>2, <3>1
  <2> QED
    BY <1>0, <2>1, <2>2
<1>4. IsTrail(u, m, es)
  BY <1>3 DEF IsTrail
<1>5. u = Trail(m, es)
  <2> HIDE DEF u
  <2> QED
    BY <1>4, TrailDef, TrailUnique
<1>6. \A i \in 0 .. l : t[i] = Trail(m, es)[i]
  BY <1>5
<1>7. t[l + 1] = Handled(t[l], e)
  BY <1>0, <1>2
<1> QED
  BY <1>0, <1>6, <1>7 DEF t

\* Handling the first event takes its mirror off the trail.
LEMMA TrailTail ==
    ASSUME NEW m, NEW es \in Seq(Events), es # <<>>
    PROVE  \A i \in 0 .. Len(es) - 1 :
             Trail(Handled(m, Head(es)), Tail(es))[i] = Trail(m, es)[i + 1]
<1> DEFINE t == Trail(m, es)
           l == Len(es) - 1
           u == [i \in 0 .. l |-> t[i + 1]]
<1>0. /\ Tail(es) \in Seq(Events) /\ Len(Tail(es)) = l /\ l \in Nat /\ Len(es) = l + 1
      /\ \A i \in 1 .. l : Tail(es)[i] = es[i + 1]
      /\ Head(es) = es[1]
  OBVIOUS
<1>1. IsTrail(t, m, es)
  BY TrailDef
<1> HIDE DEF t
<1>2. /\ t[0] = m
      /\ \A i \in 1 .. l + 1 : t[i] = Handled(t[i - 1], es[i])
  BY <1>0, <1>1 DEF IsTrail
<1>3. ASSUME NEW i \in 0 .. l
      PROVE  u[i] = IF i = 0 THEN Handled(m, Head(es)) ELSE Handled(u[i - 1], Tail(es)[i])
  <2>1. CASE i = 0
    <3>1. t[1] = Handled(t[0], es[1])
      BY <1>0, <1>2
    <3> QED
      BY <1>0, <1>2, <2>1, <3>1
  <2>2. CASE i \in 1 .. l
    <3>1. i - 1 \in 0 .. l /\ i + 1 \in 1 .. l + 1 /\ i # 0 /\ (i - 1) + 1 = i /\ (i + 1) - 1 = i
      BY <1>0, <2>2
    <3>2. t[i + 1] = Handled(t[(i + 1) - 1], es[i + 1])
      BY <1>2, <3>1
    <3> QED
      BY <1>0, <2>2, <3>1, <3>2
  <2> QED
    BY <1>0, <2>1, <2>2
<1>4. IsTrail(u, Handled(m, Head(es)), Tail(es))
  BY <1>0, <1>3 DEF IsTrail
<1>5. u = Trail(Handled(m, Head(es)), Tail(es))
  <2> HIDE DEF u
  <2>1. IsTrail(Trail(Handled(m, Head(es)), Tail(es)), Handled(m, Head(es)), Tail(es))
    BY <1>0, TrailDef
  <2> QED
    BY <1>0, <1>4, <2>1, TrailUnique
<1>6. \A i \in 0 .. l : Trail(Handled(m, Head(es)), Tail(es))[i] = u[i]
  BY <1>5
<1> QED
  BY <1>0, <1>6 DEF t

-----------------------------------------------------------------------
(* Every step is one of few, as far as the log, the queue of the actor and *)
(* the two replicas are concerned.                                         *)

Aside ==
    /\ UNCHANGED <<am, sync, appended>>
    /\ \/ UNCHANGED events
       \/ \E e \in Events : e.kind # "item" /\ Push(e)
       \/ events # <<>> /\ Head(events).kind # "item" /\ events' = Tail(events)

\* The client, the handlers, the timers and the rest of abortTurn push at most
\* a wake or a timer's event.
LEMMA HandlersAreAside ==
    TypeOK /\ (ClientNext \/ (\E p \in Prompts : PromptNext(p)) \/ AbortSteps) => Aside
<1> SUFFICES ASSUME TypeOK, ClientNext \/ (\E p \in Prompts : PromptNext(p)) \/ AbortSteps
             PROVE  Aside
  OBVIOUS
<1> USE DEF Aside, coordVars, logVars, actorVars
<1>1. CASE ClientNext
  <2>1. ASSUME NEW p \in Prompts, NEW id \in MessageIds, SendPrompt(p, id) PROVE Aside
    BY <2>1 DEF SendPrompt
  <2>2. ASSUME NEW how, SendCancel(how) PROVE Aside
    BY <2>2 DEF SendCancel
  <2>3. ASSUME NEW s \in Steers, SteerQueues(s) PROVE Aside
    <3>1. [kind |-> "wake"] \in Events
      BY DEF Events
    <3> QED
      BY <2>3, <3>1 DEF SteerQueues
  <2>4. ASSUME NEW s \in Steers, SteerInterrupts(s) PROVE Aside
    BY <2>4 DEF SteerInterrupts
  <2>5. ASSUME NEW c \in Calls, NEW allow \in BOOLEAN, Decide(c, allow) PROVE Aside
    BY <2>5 DEF Decide
  <2> QED
    BY <1>1, <2>1, <2>2, <2>3, <2>4, <2>5 DEF ClientNext
<1>2. ASSUME NEW p \in Prompts, PromptNext(p) PROVE Aside
  BY <1>2 DEF PromptNext, PromptBusy, PromptKnown, PromptTakesTurn, EnsureGeneration,
     GenerationFails, PromptSubmits, SubmitInput, PromptSeesCancel, PromptMarks,
     PromptAborts, PromptAnswers
<1>3. CASE AbortSteps
  <2>1. ASSUME NEW p \in Prompts, AbortParks(p) \/ AbortStopsRequest(p) PROVE Aside
    BY <2>1 DEF AbortParks, AbortStopsRequest
  <2>2. ASSUME NEW p \in Prompts, AbortStopsOperations(p) PROVE Aside
    <3>1. [kind |-> "wake"] \in Events
      BY DEF Events
    <3> QED
      BY <2>2, <3>1 DEF AbortStopsOperations
  <2>3. ASSUME NEW p \in Prompts, TimerFires(p) PROVE Aside
    <3>1. timer[p] \in {"grace", "flush"}
      BY <2>3 DEF TimerFires, TypeOK, AbortTypeOK
    <3>2. [kind |-> timer[p], prompt |-> p] \in Events
      BY <3>1 DEF Events
    <3> QED
      BY <2>3, <3>1, <3>2 DEF TimerFires
  <2>4. CASE NotifierMarks \/ NotifierAborts
    BY <2>4 DEF NotifierMarks, NotifierAborts
  <2>5. ASSUME NEW s \in Steers, SteerSubmits(s) PROVE Aside
    BY <2>5 DEF SteerSubmits, SubmitInput
  <2> QED
    BY <1>3, <2>1, <2>2, <2>3, <2>4, <2>5 DEF AbortSteps, AbortNext
<1> QED
  BY <1>1, <1>2, <1>3

\* The actor takes one event, and folds the item if it is one.
LEMMA ActorIsAside == ActorNext => Aside \/ HandleItem
<1> USE DEF Aside, coordVars, logVars, actorVars, HandleNext
<1>1. CASE HandleWake \/ HandleModelError
  BY <1>1 DEF HandleWake, HandleModelError
<1>2. ASSUME NEW p \in Prompts, HandleGrace(p) \/ HandleFlush(p) PROVE Aside
  BY <1>2 DEF HandleGrace, HandleFlush
<1>3. CASE ActorAborts \/ ActorAborted \/ EvaluateWaits
  BY <1>3 DEF ActorAborts, ActorAborted, EvaluateWaits
<1>4. CASE EvaluateCancelled \/ EvaluateSteers \/ EvaluateDone
  BY <1>4 DEF EvaluateCancelled, EvaluateSteers, EvaluateDone
<1>5. ASSUME NEW s \in Steers, ActorSubmits(s) PROVE Aside
  BY <1>5 DEF ActorSubmits, SubmitInput
<1> QED
  BY <1>1, <1>2, <1>3, <1>4, <1>5 DEF ActorNext

\* Requests and operations push at most a failure.
LEMMA WorkIsAside ==
    ASSUME \/ \E n \in Requests : RequestNext(n)
           \/ \E c \in Calls : OperationEnds(c) \/ StartsOperation(c)
           \/ \E c \in Calls, verdict \in Verdicts : AddsOperation(c, verdict)
    PROVE  Aside
<1> USE DEF Aside, coordVars, logVars, actorVars, sessionVars
<1>1. ASSUME NEW n \in Requests, Enter(n) PROVE Aside
  BY <1>1 DEF Enter
<1>2. ASSUME NEW n \in Requests, NEW failed \in Failures, RespondReturns(n, failed)
      PROVE  Aside
  <2>1. [kind |-> "modelError"] \in Events
    BY DEF Events
  <2> QED
    BY <1>2, <2>1 DEF RespondReturns
<1>3. ASSUME NEW c \in Calls, OperationEnds(c) \/ StartsOperation(c) PROVE Aside
  BY <1>3 DEF OperationEnds, StartsOperation, OperationAdded
<1>4. ASSUME NEW c \in Calls, NEW verdict \in Verdicts, AddsOperation(c, verdict)
      PROVE  Aside
  BY <1>4 DEF AddsOperation, OperationAdded
<1> QED
  BY <1>1, <1>2, <1>3, <1>4 DEF RequestNext

\* What is left appends an item, or gives one to the actor.
LEMMA QueueKinds ==
    TypeOK /\ [Next]_vars => Aside \/ HandleItem \/ Appends \/ Observe
<1> SUFFICES ASSUME TypeOK, [Next]_vars PROVE Aside \/ HandleItem \/ Appends \/ Observe
  OBVIOUS
<1>1. CASE UNCHANGED vars
  BY <1>1 DEF vars, sessionVars, Aside, coordVars, logVars, actorVars
<1>2. CASE CoordNext
  BY <1>2, WorkIsAside DEF CoordNext, Appends
<1> QED
  BY <1>1, <1>2, HandlersAreAside, ActorIsAside, WorkIsAside DEF Next, AbortSteps

\* An append folds into sync what it gives to the observers.
LEMMA AppendsFold ==
    ASSUME Appends
    PROVE  /\ appended = <<>> /\ appended' # <<>>
           /\ sync' = Apply(sync, Head(appended'))
           /\ UNCHANGED <<am, events>>
BY DEF Appends, AppendsInput, AppendsTurn, AppendsResponse, AppendsStatus, TakeInput, StartTurn,
   TakeResult, TranslateCall, FinishCall, Free, Folded, actorVars

-----------------------------------------------------------------------
(* The actor decides on a state the coordinator was in.                    *)

\* A step keeps the actor behind by its queue.
LEMMA BehindStep ==
    TypeOK /\ ActorIsBehindByItsQueue /\ [Next]_vars => ActorIsBehindByItsQueue'
<1> SUFFICES ASSUME TypeOK, ActorIsBehindByItsQueue, [Next]_vars
             PROVE  ActorIsBehindByItsQueue'
  OBVIOUS
<1> USE DEF ActorIsBehindByItsQueue
<1>0. events \in Seq(Events) /\ Len(events) \in Nat /\ Len(events) \in 0 .. Len(events)
  BY DEF TypeOK, RestTypeOK
<1>1. ASSUME NEW e \in Events, events' = Append(events, e), am' = am
      PROVE  Trail(am, events)'[Len(events')] = Handled(Trail(am, events)[Len(events)], e)
  BY <1>0, <1>1, TrailAppend
<1>2. ASSUME events # <<>>, events' = Tail(events), am' = Handled(am, Head(events))
      PROVE  Trail(am, events)'[Len(events')] = Trail(am, events)[Len(events)]
  <2>1. Len(events') = Len(events) - 1 /\ Len(events) - 1 \in 0 .. Len(events) - 1
    BY <1>0, <1>2
  <2> QED
    BY <1>0, <1>2, <2>1, TrailTail
<1>3. CASE Aside
  <2>1. CASE UNCHANGED events
    BY <1>3, <2>1 DEF Aside
  <2>2. ASSUME NEW e \in Events, e.kind # "item", Push(e)
        PROVE  ActorIsBehindByItsQueue'
    BY <1>1, <1>3, <2>2 DEF Aside, Push, Handled
  <2>3. CASE events # <<>> /\ Head(events).kind # "item" /\ events' = Tail(events)
    BY <1>2, <1>3, <2>3 DEF Aside, Handled
  <2> QED
    BY <1>3, <2>1, <2>2, <2>3 DEF Aside
<1>4. CASE HandleItem
  <2>1. /\ events # <<>> /\ events' = Tail(events)
        /\ am' = Handled(am, Head(events))
        /\ UNCHANGED <<sync, appended>>
    BY <1>4 DEF HandleItem, HandleNext, Handled, coordVars, logVars
  <2> QED
    BY <1>2, <2>1
<1>5. CASE Appends
  BY <1>5, AppendsFold
<1>6. CASE Observe
  <2>1. Head(appended) \in Items /\ appended # <<>>
    BY <1>6, ObservedItemType DEF TypeOK, HarnessTypeOK, Observe, ObserversDone
  <2> DEFINE e == [kind |-> "item", item |-> Head(appended)]
  <2>2. e \in Events /\ Handled(Trail(am, events)[Len(events)], e) =
                          Apply(Trail(am, events)[Len(events)], Head(appended))
    BY <2>1 DEF Events, Handled
  <2>3. events' = Append(events, e) /\ appended' = <<>> /\ UNCHANGED <<am, sync>>
    BY <1>6 DEF Observe, ObserversDone, Push, actorVars
  <2> QED
    BY <1>1, <2>1, <2>2, <2>3
<1> QED
  BY <1>3, <1>4, <1>5, <1>6, QueueKinds

\* Both replicas start alike.
LEMMA InitBehind == Init => ActorIsBehindByItsQueue
<1> SUFFICES ASSUME Init PROVE ActorIsBehindByItsQueue
  OBVIOUS
<1>1. events = <<>> /\ am = New /\ sync = New /\ appended = <<>>
  BY DEF Init, CoordInit
<1>2. Trail(New, events)[Len(events)] = New
  <2>1. ASSUME NEW t, IsTrail(t, New, events) PROVE t[Len(events)] = New
    BY <1>1, <2>1 DEF IsTrail
  <2>2. events \in Seq(Events)
    BY InitType DEF TypeOK, RestTypeOK
  <2>3. IsTrail(Trail(New, events), New, events)
    BY <2>2, TrailDef
  <2> QED
    BY <2>1, <2>3
<1> QED
  BY <1>1, <1>2 DEF ActorIsBehindByItsQueue

\* For any prompts, steers, calls and requests: the actor's replica lags behind
\* the coordinator by the items of its queue and by nothing else.
THEOREM ActorFollowsTheCoordinator == Spec => []ActorIsBehindByItsQueue
BY SessionTypeCorrect, InitBehind, BehindStep, PTL DEF Spec

-----------------------------------------------------------------------
(* Where a prompt's turn is.                                               *)

Early == {"idle", "wait"}
Began(p) == live = p \/ ts[p].finished

EarlyInv ==
    \A p \in Prompts : handler[p] \in Early => ts[p] = Unused /\ live # p

BeganInv ==
    \A p \in Prompts :
        handler[p] \in {"build", "submit", "await", "mark", "abort", "join"} => Began(p)

LiveInv == live # None => ~ts[live].finished

AbortInv == \A p \in Prompts : ts[p].cancelling <=> abort[p].at # "none"

SteerInv ==
    \A s \in Steers :
        /\ steer[s].turn = None <=> steer[s].at = "idle"
        /\ steer[s].turn # None => Began(steer[s].turn)

TurnsInv == EarlyInv /\ BeganInv /\ LiveInv /\ AbortInv /\ SteerInv

\* abortTurn acts on the running turn, once.
LEMMA AbortTurnFacts ==
    ASSUME TypeOK, NEW thread, AbortTurn(thread)
    PROVE  \/ UNCHANGED <<ts, refuseNew, cancelledCalls, abort>>
           \/ /\ live \in Prompts /\ ~ts[live].cancelling
              /\ refuseNew' = TRUE
              /\ cancelledCalls' = cancelledCalls \cup sync.outstanding
              /\ abort'[live].at = "park"
              /\ abort'[live].inputs = inputs \cup ts[live].unobserved
              /\ ts'[live].cancelling = TRUE
              /\ ts'[live].steers = {}
              /\ ts'[live].unobserved = ts[live].unobserved
              /\ ts'[live].clientCancelled = ts[live].clientCancelled
              /\ ts'[live].err = ts[live].err
              /\ ts'[live].finished = ts[live].finished
              /\ \A q \in Prompts \ {live} : ts'[q] = ts[q] /\ abort'[q] = abort[q]
<1>1. CASE live = None \/ ts[live].cancelling
  BY <1>1 DEF AbortTurn
<1>2. CASE ~(live = None \/ ts[live].cancelling)
  <2>1. live \in Prompts /\ ts[live] \in TurnStates /\ abort \in [Prompts -> Aborts]
        /\ ts \in [Prompts -> TurnStates]
    BY <1>2 DEF TypeOK, TurnTypeOK, AbortTypeOK
  <2> DEFINE t == [ts[live] EXCEPT !.cancelling = TRUE, !.steers = {},
                                   !.waitCalls = @ \cup sync.outstanding]
  <2>2. /\ t.cancelling = TRUE /\ t.steers = {} /\ t.unobserved = ts[live].unobserved
        /\ t.clientCancelled = ts[live].clientCancelled /\ t.err = ts[live].err
        /\ t.finished = ts[live].finished
    BY <2>1 DEF TurnStates
  <2>3. ts' = [ts EXCEPT ![live] = t]
    BY <1>2, <2>1 DEF AbortTurn
  <2> DEFINE a == [at |-> "park", by |-> thread, calls |-> sync.waiting,
                   inputs |-> inputs \cup ts[live].unobserved]
  <2>4. abort' = [abort EXCEPT ![live] = a]
    BY <1>2 DEF AbortTurn
  <2>5. a.at = "park" /\ a.inputs = inputs \cup ts[live].unobserved
    OBVIOUS
  <2>6. ts'[live] = t /\ abort'[live] = a
        /\ \A q \in Prompts \ {live} : ts'[q] = ts[q] /\ abort'[q] = abort[q]
    <3> HIDE DEF t, a
    <3> QED
      BY <2>1, <2>3, <2>4
  <2>7. refuseNew' = TRUE /\ cancelledCalls' = cancelledCalls \cup sync.outstanding
    BY <1>2 DEF AbortTurn
  <2> HIDE DEF t, a
  <2> QED
    BY <1>2, <2>1, <2>2, <2>5, <2>6, <2>7
<1> QED
  BY <1>1, <1>2

\* finishLocked ends the turn and leaves the rest of it as it is.
LEMMA FinishFacts ==
    ASSUME TypeOK, NEW p \in Prompts, NEW how, Finish(p, ts[p], how)
    PROVE  /\ live' = None
           /\ ts'[p].finished = TRUE
           /\ ts'[p].cancelling = ts[p].cancelling
           /\ ts'[p].clientCancelled = ts[p].clientCancelled
           /\ ts'[p].unobserved = ts[p].unobserved
           /\ ts'[p].steers = ts[p].steers
           /\ ts'[p].err = ts[p].err
           /\ answer'[p] = IF ts[p].clientCancelled THEN "cancelled" ELSE how
           /\ \A q \in Prompts \ {p} : ts'[q] = ts[q] /\ answer'[q] = answer[q]
BY DEF TypeOK, TurnTypeOK, TurnStates, Finish, ClientTypeOK

\* A turn starts with its prompt's input and nothing else.
LEMMA TakesTurnFacts ==
    ASSUME TypeOK, NEW p \in Prompts, PromptTakesTurn(p)
    PROVE  /\ live = None /\ live' = p /\ handler[p] = "wait" /\ handler'[p] = "build"
           /\ ts'[p].unobserved = {messageId[p]} /\ ts'[p].steers = {}
           /\ ts'[p].cancelling = FALSE /\ ts'[p].clientCancelled = FALSE
           /\ ts'[p].finished = FALSE /\ ts'[p].err = FALSE
           /\ \A q \in Prompts \ {p} : ts'[q] = ts[q] /\ handler'[q] = handler[q]
<1>1. ts'[p] = NewTurn(messageId[p]) /\ \A q \in Prompts \ {p} : ts'[q] = ts[q]
  BY DEF TypeOK, TurnTypeOK, PromptTakesTurn
<1>2. live = None /\ live' = p /\ handler[p] = "wait" /\ handler'[p] = "build"
      /\ \A q \in Prompts \ {p} : handler'[q] = handler[q]
  BY DEF PromptTakesTurn, At, TypeOK, ClientTypeOK
<1> QED
  BY <1>1, <1>2 DEF NewTurn, Unused

\* abortTurn keeps where the turns are.
LEMMA AbortTurnTurns ==
    ASSUME TypeOK, TurnsInv, NEW thread, AbortTurn(thread), UNCHANGED <<live, steer>>,
           \A q \in Prompts : \/ handler'[q] = handler[q]
                              \/ handler[q] = "abort" /\ handler'[q] = "join"
    PROVE  TurnsInv'
<1>0. live \in Prompts \cup {None} /\ None \notin Prompts
      /\ \A s \in Steers : steer[s].turn \in Prompts \cup {None}
  BY SessionAssumption DEF TypeOK, TurnTypeOK, RestTypeOK
<1> USE DEF TurnsInv, EarlyInv, BeganInv, LiveInv, AbortInv, SteerInv, Began, Early
<1>1. CASE UNCHANGED <<ts, abort>>
  BY <1>0, <1>1
<1>2. CASE ~UNCHANGED <<ts, abort>>
  <2>1. /\ live \in Prompts
        /\ ts'[live].cancelling /\ abort'[live].at = "park"
        /\ ts'[live].finished = ts[live].finished
        /\ \A q \in Prompts \ {live} : ts'[q] = ts[q] /\ abort'[q] = abort[q]
    BY <1>2, AbortTurnFacts
  <2> QED
    BY <1>0, <2>1
<1> QED
  BY <1>1, <1>2

\* So does finishLocked.
LEMMA FinishTurns ==
    ASSUME TypeOK, TurnsInv, NEW p \in Prompts, live = p, NEW how, Finish(p, ts[p], how),
           UNCHANGED <<abort, steer>>,
           \A q \in Prompts : \/ handler'[q] = handler[q]
                              \/ handler[q] = "build" /\ handler'[q] = "await"
    PROVE  TurnsInv'
<1>0. live \in Prompts \cup {None} /\ None \notin Prompts
      /\ \A s \in Steers : steer[s].turn \in Prompts \cup {None}
  BY SessionAssumption DEF TypeOK, TurnTypeOK, RestTypeOK
<1>1. /\ live' = None /\ ts'[p].finished /\ ts'[p].cancelling = ts[p].cancelling
      /\ \A q \in Prompts \ {p} : ts'[q] = ts[q]
  BY FinishFacts
<1> QED
  BY <1>0, <1>1 DEF TurnsInv, EarlyInv, BeganInv, LiveInv, AbortInv, SteerInv, Began, Early

\* What the client does keeps this.
LEMMA ClientTurns ==
    TypeOK /\ TurnsInv /\ ClientNext => TurnsInv'
<1> SUFFICES ASSUME TypeOK, TurnsInv, ClientNext PROVE TurnsInv'
  OBVIOUS
<1>0. /\ ts \in [Prompts -> TurnStates] /\ live \in Prompts \cup {None} /\ None \notin Prompts
      /\ handler \in [Prompts -> {"idle", "wait", "build", "submit", "await",
                                   "mark", "abort", "join", "done"}]
      /\ steer \in [Steers -> [at   : {"idle", "submit", "accepted", "refused"},
                                turn : Prompts \cup {None}]]
      /\ abort \in [Prompts -> Aborts]
  BY SessionAssumption DEF TypeOK, TurnTypeOK, ClientTypeOK, RestTypeOK, AbortTypeOK
<1> USE DEF TurnsInv, EarlyInv, BeganInv, LiveInv, AbortInv, SteerInv, Began, Early,
        turnVars, abortVars, clientVars
<1>1. ASSUME NEW p \in Prompts, NEW id \in MessageIds, SendPrompt(p, id) PROVE TurnsInv'
  BY <1>0, <1>1 DEF SendPrompt, At
<1>2. ASSUME NEW how, SendCancel(how) PROVE TurnsInv'
  BY <1>0, <1>2 DEF SendCancel
<1>3. ASSUME NEW s \in Steers, SteerQueues(s) PROVE TurnsInv'
  BY <1>0, <1>3 DEF SteerQueues, Steerable, TurnStates
<1>4. ASSUME NEW s \in Steers, SteerInterrupts(s) PROVE TurnsInv'
  BY <1>0, <1>4 DEF SteerInterrupts, Steerable, TurnStates
<1>5. ASSUME NEW c \in Calls, NEW allow \in BOOLEAN, Decide(c, allow) PROVE TurnsInv'
  BY <1>0, <1>5 DEF Decide
<1> QED
  BY <1>1, <1>2, <1>3, <1>4, <1>5 DEF ClientNext

\* A prompt handler keeps this.
LEMMA PromptTurns ==
    TypeOK /\ TurnsInv /\ (\E p \in Prompts : PromptNext(p)) => TurnsInv'
<1> SUFFICES ASSUME TypeOK, TurnsInv, (\E p \in Prompts : PromptNext(p)) PROVE TurnsInv'
  OBVIOUS
<1>0. /\ ts \in [Prompts -> TurnStates] /\ live \in Prompts \cup {None} /\ None \notin Prompts
      /\ handler \in [Prompts -> {"idle", "wait", "build", "submit", "await",
                                   "mark", "abort", "join", "done"}]
      /\ steer \in [Steers -> [at   : {"idle", "submit", "accepted", "refused"},
                                turn : Prompts \cup {None}]]
      /\ abort \in [Prompts -> Aborts]
  BY SessionAssumption DEF TypeOK, TurnTypeOK, ClientTypeOK, RestTypeOK, AbortTypeOK
<1> USE DEF TurnsInv, EarlyInv, BeganInv, LiveInv, AbortInv, SteerInv, Began, Early,
        turnVars, abortVars, clientVars
<1>1. ASSUME NEW p \in Prompts, PromptBusy(p) PROVE TurnsInv'
  BY <1>0, <1>1 DEF PromptBusy, At
<1>2. ASSUME NEW p \in Prompts, PromptKnown(p) PROVE TurnsInv'
  BY <1>0, <1>2 DEF PromptKnown, At
<1>3. ASSUME NEW p \in Prompts, PromptTakesTurn(p) PROVE TurnsInv'
  <2>1. /\ live = None /\ live' = p /\ handler[p] = "wait" /\ handler'[p] = "build"
        /\ ts'[p].cancelling = FALSE /\ ts'[p].finished = FALSE
        /\ \A q \in Prompts \ {p} : ts'[q] = ts[q] /\ handler'[q] = handler[q]
    BY <1>3, TakesTurnFacts
  <2>2. UNCHANGED <<abort, steer>> /\ ts[p].finished = FALSE /\ ts[p].cancelling = FALSE
    BY <1>3, <2>1 DEF PromptTakesTurn, Unused
  <2> QED
    BY <1>0, <2>1, <2>2
<1>4. ASSUME NEW p \in Prompts, EnsureGeneration(p) PROVE TurnsInv'
  BY <1>0, <1>4 DEF EnsureGeneration, At
<1>5. ASSUME NEW p \in Prompts, GenerationFails(p) PROVE TurnsInv'
  <2>1. CASE ts[p].finished
    BY <1>0, <1>5, <2>1 DEF GenerationFails, At
  <2>2. CASE ~ts[p].finished
    <3>1. Finish(p, ts[p], "error") /\ UNCHANGED <<abort, steer>>
      BY <1>5, <2>2 DEF GenerationFails
    <3>2. handler[p] = "build" /\ live = p
      BY <1>5, <2>2 DEF GenerationFails, At
    <3>3. \A q \in Prompts : \/ handler'[q] = handler[q]
                             \/ handler[q] = "build" /\ handler'[q] = "await"
      BY <1>0, <1>5 DEF GenerationFails, At
    <3> QED
      BY <3>1, <3>2, <3>3, FinishTurns
  <2> QED
    BY <2>1, <2>2
<1>6. ASSUME NEW p \in Prompts, PromptSubmits(p) PROVE TurnsInv'
  BY <1>0, <1>6 DEF PromptSubmits, At
<1>7. ASSUME NEW p \in Prompts, PromptSeesCancel(p) PROVE TurnsInv'
  BY <1>0, <1>7 DEF PromptSeesCancel, At
<1>8. ASSUME NEW p \in Prompts, PromptMarks(p) PROVE TurnsInv'
  BY <1>0, <1>8 DEF PromptMarks, At, MarkCancelled, TurnStates
<1>9. ASSUME NEW p \in Prompts, PromptAborts(p) PROVE TurnsInv'
  <2>1. AbortTurn(p) /\ UNCHANGED <<live, steer>>
    BY <1>9 DEF PromptAborts
  <2>2. \A q \in Prompts : \/ handler'[q] = handler[q]
                           \/ handler[q] = "abort" /\ handler'[q] = "join"
    BY <1>0, <1>9 DEF PromptAborts, At
  <2> QED
    BY <2>1, <2>2, AbortTurnTurns
<1>10. ASSUME NEW p \in Prompts, PromptAnswers(p) PROVE TurnsInv'
  BY <1>0, <1>10 DEF PromptAnswers, At
<1> QED
  BY <1>1, <1>2, <1>3, <1>4, <1>5, <1>6, <1>7, <1>8, <1>9, <1>10 DEF PromptNext

\* The rest of an abort, the timers and the notifier keep this.
LEMMA AbortTurns ==
    TypeOK /\ TurnsInv /\ AbortSteps => TurnsInv'
<1> SUFFICES ASSUME TypeOK, TurnsInv, AbortSteps PROVE TurnsInv'
  OBVIOUS
<1>0. /\ ts \in [Prompts -> TurnStates] /\ live \in Prompts \cup {None} /\ None \notin Prompts
      /\ handler \in [Prompts -> {"idle", "wait", "build", "submit", "await",
                                   "mark", "abort", "join", "done"}]
      /\ steer \in [Steers -> [at   : {"idle", "submit", "accepted", "refused"},
                                turn : Prompts \cup {None}]]
      /\ abort \in [Prompts -> Aborts]
  BY SessionAssumption DEF TypeOK, TurnTypeOK, ClientTypeOK, RestTypeOK, AbortTypeOK
<1> USE DEF TurnsInv, EarlyInv, BeganInv, LiveInv, AbortInv, SteerInv, Began, Early,
        turnVars, abortVars, clientVars
<1>1. ASSUME NEW p \in Prompts, AbortParks(p) PROVE TurnsInv'
  BY <1>0, <1>1 DEF AbortParks, Aborts
<1>2. ASSUME NEW p \in Prompts, AbortStopsRequest(p) PROVE TurnsInv'
  BY <1>0, <1>2 DEF AbortStopsRequest, Aborts
<1>3. ASSUME NEW p \in Prompts, AbortStopsOperations(p) PROVE TurnsInv'
  BY <1>0, <1>3 DEF AbortStopsOperations, Aborts
<1>4. ASSUME NEW p \in Prompts, TimerFires(p) PROVE TurnsInv'
  BY <1>0, <1>4 DEF TimerFires
<1>5. CASE NotifierMarks
  BY <1>0, <1>5 DEF NotifierMarks, MarkCancelled, TurnStates
<1>6. CASE NotifierAborts
  <2>1. AbortTurn("notifier") /\ UNCHANGED <<live, steer>>
    BY <1>6 DEF NotifierAborts
  <2>2. \A q \in Prompts : \/ handler'[q] = handler[q]
                           \/ handler[q] = "abort" /\ handler'[q] = "join"
    BY <1>0, <1>6 DEF NotifierAborts
  <2> QED
    BY <2>1, <2>2, AbortTurnTurns
<1>7. ASSUME NEW s \in Steers, SteerSubmits(s) PROVE TurnsInv'
  BY <1>0, <1>7 DEF SteerSubmits
<1> QED
  BY <1>1, <1>2, <1>3, <1>4, <1>5, <1>6, <1>7 DEF AbortSteps, AbortNext

\* The actor keeps this.
LEMMA ActorTurns ==
    TypeOK /\ TurnsInv /\ ActorNext => TurnsInv'
<1> SUFFICES ASSUME TypeOK, TurnsInv, ActorNext PROVE TurnsInv'
  OBVIOUS
<1>0. /\ ts \in [Prompts -> TurnStates] /\ live \in Prompts \cup {None} /\ None \notin Prompts
      /\ handler \in [Prompts -> {"idle", "wait", "build", "submit", "await",
                                   "mark", "abort", "join", "done"}]
      /\ steer \in [Steers -> [at   : {"idle", "submit", "accepted", "refused"},
                                turn : Prompts \cup {None}]]
      /\ abort \in [Prompts -> Aborts]
  BY SessionAssumption DEF TypeOK, TurnTypeOK, ClientTypeOK, RestTypeOK, AbortTypeOK
<1> USE DEF TurnsInv, EarlyInv, BeganInv, LiveInv, AbortInv, SteerInv, Began, Early,
        turnVars, abortVars, clientVars
<1>1. CASE HandleItem
  BY <1>0, <1>1 DEF HandleItem, Bookkeep, TurnStates
<1>2. CASE HandleWake
  BY <1>0, <1>2 DEF HandleWake
<1>3. CASE HandleModelError
  BY <1>0, <1>3 DEF HandleModelError, TurnStates
<1>4. ASSUME NEW p \in Prompts, HandleGrace(p) PROVE TurnsInv'
  BY <1>0, <1>4 DEF HandleGrace
<1>5. ASSUME NEW p \in Prompts, HandleFlush(p) PROVE TurnsInv'
  <2>1. /\ UNCHANGED <<live, handler, steer, abort>>
        /\ \A q \in Prompts : q # live => ts'[q] = ts[q]
        /\ live # None => ts'[live].finished = ts[live].finished
                          /\ ts'[live].cancelling = ts[live].cancelling
    BY <1>0, <1>5 DEF HandleFlush, TurnStates
  <2> QED
    BY <1>0, <2>1
<1>6. CASE ActorAborts
  <2>1. AbortTurn("actor") /\ UNCHANGED <<live, steer>>
    BY <1>6 DEF ActorAborts
  <2>2. \A q \in Prompts : \/ handler'[q] = handler[q]
                           \/ handler[q] = "abort" /\ handler'[q] = "join"
    BY <1>0, <1>6 DEF ActorAborts
  <2> QED
    BY <2>1, <2>2, AbortTurnTurns
<1>7. CASE ActorAborted
  BY <1>0, <1>7 DEF ActorAborted
<1>8. CASE EvaluateWaits
  BY <1>0, <1>8 DEF EvaluateWaits
<1>9. CASE EvaluateCancelled
  <2>1. live \in Prompts /\ Finish(live, ts[live], "error")
    BY <1>0, <1>9 DEF EvaluateCancelled
  <2>2. UNCHANGED <<abort, steer, handler>>
    BY <1>9 DEF EvaluateCancelled
  <2> QED
    BY <2>1, <2>2, FinishTurns
<1>10. CASE EvaluateSteers
  BY <1>0, <1>10 DEF EvaluateSteers, TurnStates
<1>11. CASE EvaluateDone
  <2>1. live \in Prompts /\ Finish(live, ts[live], IF ts[live].err THEN "error" ELSE "end_turn")
    BY <1>0, <1>11 DEF EvaluateDone
  <2>2. UNCHANGED <<abort, steer, handler>>
    BY <1>11 DEF EvaluateDone
  <2> QED
    BY <2>1, <2>2, FinishTurns
<1>12. ASSUME NEW s \in Steers, ActorSubmits(s) PROVE TurnsInv'
  BY <1>0, <1>12 DEF ActorSubmits
<1> QED
  BY <1>1, <1>2, <1>3, <1>4, <1>5, <1>6, <1>7, <1>8, <1>9, <1>10, <1>11, <1>12 DEF ActorNext

\* The coordinator keeps this.
LEMMA CoordTurns ==
    TypeOK /\ TurnsInv /\ CoordNext => TurnsInv'
<1> SUFFICES ASSUME TypeOK, TurnsInv, CoordNext PROVE TurnsInv'
  OBVIOUS
<1>0. /\ ts \in [Prompts -> TurnStates] /\ live \in Prompts \cup {None} /\ None \notin Prompts
      /\ handler \in [Prompts -> {"idle", "wait", "build", "submit", "await",
                                   "mark", "abort", "join", "done"}]
      /\ steer \in [Steers -> [at   : {"idle", "submit", "accepted", "refused"},
                                turn : Prompts \cup {None}]]
      /\ abort \in [Prompts -> Aborts]
  BY SessionAssumption DEF TypeOK, TurnTypeOK, ClientTypeOK, RestTypeOK, AbortTypeOK
<1> USE DEF TurnsInv, EarlyInv, BeganInv, LiveInv, AbortInv, SteerInv, Began, Early,
        turnVars, abortVars, clientVars
<1>1. CASE AppendsInput
  BY <1>0, <1>1 DEF AppendsInput
<1>2. CASE AppendsTurn
  BY <1>0, <1>2 DEF AppendsTurn
<1>3. ASSUME NEW n \in Requests, NEW calls \in SUBSET (Calls \ known), AppendsResponse(n, calls) PROVE TurnsInv'
  BY <1>0, <1>3 DEF AppendsResponse
<1>4. ASSUME NEW c \in Calls, AppendsStatus(c) PROVE TurnsInv'
  BY <1>0, <1>4 DEF AppendsStatus
<1>5. CASE Observe
  BY <1>0, <1>5 DEF Observe, actorVars
<1>6. ASSUME NEW c \in Calls, NEW verdict \in Verdicts, AddsOperation(c, verdict) PROVE TurnsInv'
  BY <1>0, <1>6 DEF AddsOperation
<1>7. ASSUME NEW c \in Calls, StartsOperation(c) PROVE TurnsInv'
  BY <1>0, <1>7 DEF StartsOperation
<1> QED
  BY <1>1, <1>2, <1>3, <1>4, <1>5, <1>6, <1>7 DEF CoordNext

\* A request in Respond keeps this.
LEMMA RequestTurns ==
    TypeOK /\ TurnsInv /\ (\E n \in Requests : RequestNext(n)) => TurnsInv'
<1> SUFFICES ASSUME TypeOK, TurnsInv, (\E n \in Requests : RequestNext(n)) PROVE TurnsInv'
  OBVIOUS
<1>0. /\ ts \in [Prompts -> TurnStates] /\ live \in Prompts \cup {None} /\ None \notin Prompts
      /\ handler \in [Prompts -> {"idle", "wait", "build", "submit", "await",
                                   "mark", "abort", "join", "done"}]
      /\ steer \in [Steers -> [at   : {"idle", "submit", "accepted", "refused"},
                                turn : Prompts \cup {None}]]
      /\ abort \in [Prompts -> Aborts]
  BY SessionAssumption DEF TypeOK, TurnTypeOK, ClientTypeOK, RestTypeOK, AbortTypeOK
<1> USE DEF TurnsInv, EarlyInv, BeganInv, LiveInv, AbortInv, SteerInv, Began, Early,
        turnVars, abortVars, clientVars
<1>1. ASSUME NEW n \in Requests, Enter(n) PROVE TurnsInv'
  BY <1>0, <1>1 DEF Enter, sessionVars
<1>2. ASSUME NEW n \in Requests, NEW failed \in Failures, RespondReturns(n, failed) PROVE TurnsInv'
  BY <1>0, <1>2 DEF RespondReturns
<1> QED
  BY <1>1, <1>2 DEF RequestNext

\* A tool that ends keeps this.
LEMMA ToolTurns ==
    TypeOK /\ TurnsInv /\ (\E c \in Calls : OperationEnds(c)) => TurnsInv'
<1> SUFFICES ASSUME TypeOK, TurnsInv, NEW c \in Calls, OperationEnds(c) PROVE TurnsInv'
  OBVIOUS
<1>0. /\ ts \in [Prompts -> TurnStates] /\ live \in Prompts \cup {None} /\ None \notin Prompts
      /\ handler \in [Prompts -> {"idle", "wait", "build", "submit", "await",
                                   "mark", "abort", "join", "done"}]
      /\ steer \in [Steers -> [at   : {"idle", "submit", "accepted", "refused"},
                                turn : Prompts \cup {None}]]
      /\ abort \in [Prompts -> Aborts]
  BY SessionAssumption DEF TypeOK, TurnTypeOK, ClientTypeOK, RestTypeOK, AbortTypeOK
<1> USE DEF TurnsInv, EarlyInv, BeganInv, LiveInv, AbortInv, SteerInv, Began, Early,
        turnVars, abortVars, clientVars
<1> QED
  BY <1>0 DEF OperationEnds

\* Every step keeps this.
LEMMA TurnsStep == TypeOK /\ TurnsInv /\ [Next]_vars => TurnsInv'
<1>1. TurnsInv /\ UNCHANGED vars => TurnsInv'
  BY DEF TurnsInv, EarlyInv, BeganInv, LiveInv, AbortInv, SteerInv, Began, Early, vars,
     sessionVars, turnVars, abortVars, clientVars
<1> QED
  BY <1>1, ClientTurns, PromptTurns, AbortTurns, ActorTurns, CoordTurns, RequestTurns, ToolTurns DEF Next, AbortSteps

\* It holds at the start.
LEMMA InitTurns == Init => TurnsInv
BY SessionAssumption DEF Init, TurnsInv, EarlyInv, BeganInv, LiveInv, AbortInv, SteerInv, Began,
   Early, Unused

-----------------------------------------------------------------------
(* What no step undoes, and where the steers and inputs of a turn go.      *)

Takes(p) == live = None /\ live' = p /\ handler[p] = "wait" /\ messageId[p] \notin inputs

Grows ==
    /\ \A p \in Prompts :
          /\ Began(p) => Began(p)' /\ messageId'[p] = messageId[p]
          /\ Began(p)' => Began(p) \/ Takes(p)
          /\ handler'[p] \in Early => handler[p] \in Early
          /\ ts[p].cancelling => ts'[p].cancelling
          /\ ts[p].err => ts'[p].err
          /\ ts[p].finished => ts'[p].finished
    /\ \A s \in Steers :
          \/ steer'[s].turn = steer[s].turn
          \/ /\ steer[s].at = "idle"
             /\ live # None /\ ~ts[live].cancelling /\ steer'[s].turn = live
    /\ live' # None => live' = live \/ Takes(live')

Moves ==
    /\ \A p \in Prompts :
          /\ ts'[p].steers \subseteq ts[p].steers \cup {s \in Steers : steer'[s].turn # None}
          /\ Takes(p) => messageId'[p] = messageId[p] /\ messageId[p] \in ts'[p].unobserved
          /\ ~Takes(p) => \A i \in ts[p].unobserved \ ts'[p].unobserved :
                HandleItem /\ Head(events).item.kind = "input" /\ Head(events).item.id = i
    /\ actor'.steers \subseteq actor.steers \cup UNION {ts[p].steers : p \in Prompts}
    /\ \A s \in Steers : steer'[s].turn # steer[s].turn =>
          live' = live /\ s \in ts'[live].unobserved

\* What the client does does not undo it.
LEMMA ClientGrows ==
    TypeOK /\ TurnsInv /\ ClientNext => Grows /\ Moves
<1> SUFFICES ASSUME TypeOK, TurnsInv, ClientNext PROVE Grows /\ Moves
  OBVIOUS
<1>0. /\ ts \in [Prompts -> TurnStates] /\ live \in Prompts \cup {None} /\ None \notin Prompts
      /\ handler \in [Prompts -> {"idle", "wait", "build", "submit", "await",
                                   "mark", "abort", "join", "done"}]
      /\ steer \in [Steers -> [at   : {"idle", "submit", "accepted", "refused"},
                                turn : Prompts \cup {None}]]
      /\ messageId \in [Prompts -> MessageIds \cup {None}]
      /\ actor \in [at : {"pop", "evaluate", "abort", "aborting", "submit"},
                   steers : SUBSET Steers]
  BY SessionAssumption DEF TypeOK, TurnTypeOK, ClientTypeOK, RestTypeOK, AbortTypeOK, ActorTypeOK
<1> USE DEF TurnsInv, EarlyInv, BeganInv, LiveInv, SteerInv, Began, Early, Grows, Takes,
        turnVars, clientVars, actorVars, Moves
<1>1. ASSUME NEW p \in Prompts, NEW id \in MessageIds, SendPrompt(p, id) PROVE Grows /\ Moves
  BY <1>0, <1>1 DEF SendPrompt, At, Unused
<1>2. ASSUME NEW how, SendCancel(how) PROVE Grows /\ Moves
  BY <1>0, <1>2 DEF SendCancel
<1>3. ASSUME NEW s \in Steers, SteerQueues(s) PROVE Grows /\ Moves
  BY <1>0, <1>3 DEF SteerQueues, Steerable, TurnStates
<1>4. ASSUME NEW s \in Steers, SteerInterrupts(s) PROVE Grows /\ Moves
  BY <1>0, <1>4 DEF SteerInterrupts, Steerable, TurnStates
<1>5. ASSUME NEW c \in Calls, NEW allow \in BOOLEAN, Decide(c, allow) PROVE Grows /\ Moves
  BY <1>0, <1>5 DEF Decide
<1> QED
  BY <1>1, <1>2, <1>3, <1>4, <1>5 DEF ClientNext

\* A prompt handler does not undo it.
LEMMA PromptGrows ==
    TypeOK /\ TurnsInv /\ (\E p \in Prompts : PromptNext(p)) => Grows /\ Moves
<1> SUFFICES ASSUME TypeOK, TurnsInv, (\E p \in Prompts : PromptNext(p)) PROVE Grows /\ Moves
  OBVIOUS
<1>0. /\ ts \in [Prompts -> TurnStates] /\ live \in Prompts \cup {None} /\ None \notin Prompts
      /\ handler \in [Prompts -> {"idle", "wait", "build", "submit", "await",
                                   "mark", "abort", "join", "done"}]
      /\ steer \in [Steers -> [at   : {"idle", "submit", "accepted", "refused"},
                                turn : Prompts \cup {None}]]
      /\ messageId \in [Prompts -> MessageIds \cup {None}]
      /\ actor \in [at : {"pop", "evaluate", "abort", "aborting", "submit"},
                   steers : SUBSET Steers]
  BY SessionAssumption DEF TypeOK, TurnTypeOK, ClientTypeOK, RestTypeOK, AbortTypeOK, ActorTypeOK
<1> USE DEF TurnsInv, EarlyInv, BeganInv, LiveInv, SteerInv, Began, Early, Grows, Takes,
        turnVars, clientVars, actorVars, Moves
<1>1. ASSUME NEW p \in Prompts, PromptBusy(p) PROVE Grows /\ Moves
  BY <1>0, <1>1 DEF PromptBusy, At
<1>2. ASSUME NEW p \in Prompts, PromptKnown(p) PROVE Grows /\ Moves
  BY <1>0, <1>2 DEF PromptKnown, At
<1>3. ASSUME NEW p \in Prompts, PromptTakesTurn(p) PROVE Grows /\ Moves
  <2>1. /\ live = None /\ live' = p /\ handler[p] = "wait" /\ handler'[p] = "build"
        /\ ts'[p].unobserved = {messageId[p]} /\ ts'[p].steers = {}
        /\ \A q \in Prompts \ {p} : ts'[q] = ts[q] /\ handler'[q] = handler[q]
    BY <1>3, TakesTurnFacts
  <2>2. /\ UNCHANGED <<steer, messageId, actor>> /\ messageId[p] \notin inputs
        /\ ~ts[p].finished /\ ~ts[p].cancelling /\ ~ts[p].err
    BY <1>3, <2>1 DEF PromptTakesTurn, Unused, actorVars
  <2> QED
    BY <1>0, <2>1, <2>2
<1>4. ASSUME NEW p \in Prompts, EnsureGeneration(p) PROVE Grows /\ Moves
  BY <1>0, <1>4 DEF EnsureGeneration, At
<1>5. ASSUME NEW p \in Prompts, GenerationFails(p) PROVE Grows /\ Moves
  <2>1. CASE ts[p].finished
    BY <1>0, <1>5, <2>1 DEF GenerationFails, At
  <2>2. CASE ~ts[p].finished
    <3>1. Finish(p, ts[p], "error") /\ UNCHANGED <<steer, messageId, actor>>
      BY <1>5, <2>2 DEF GenerationFails, actorVars
    <3>2. handler[p] = "build" /\ live = p
      BY <1>5, <2>2 DEF GenerationFails, At
    <3>3. \A q \in Prompts : \/ handler'[q] = handler[q]
                             \/ handler[q] = "build" /\ handler'[q] = "await"
      BY <1>0, <1>5 DEF GenerationFails, At
    <3>4. /\ live' = None /\ ts'[p].finished
          /\ ts'[p].cancelling = ts[p].cancelling /\ ts'[p].err = ts[p].err
          /\ ts'[p].steers = ts[p].steers /\ ts'[p].unobserved = ts[p].unobserved
          /\ \A q \in Prompts \ {p} : ts'[q] = ts[q]
      BY <3>1, FinishFacts
    <3> QED
      BY <1>0, <3>1, <3>2, <3>3, <3>4
  <2> QED
    BY <2>1, <2>2
<1>6. ASSUME NEW p \in Prompts, PromptSubmits(p) PROVE Grows /\ Moves
  BY <1>0, <1>6 DEF PromptSubmits, At
<1>7. ASSUME NEW p \in Prompts, PromptSeesCancel(p) PROVE Grows /\ Moves
  BY <1>0, <1>7 DEF PromptSeesCancel, At
<1>8. ASSUME NEW p \in Prompts, PromptMarks(p) PROVE Grows /\ Moves
  BY <1>0, <1>8 DEF PromptMarks, At, MarkCancelled, TurnStates
<1>9. ASSUME NEW p \in Prompts, PromptAborts(p) PROVE Grows /\ Moves
  <2>1. AbortTurn(p) /\ UNCHANGED <<live, steer, messageId>> /\ actor'.steers = actor.steers
    BY <1>0, <1>9 DEF PromptAborts, actorVars
  <2>2. \A q \in Prompts : \/ handler'[q] = handler[q]
                           \/ handler[q] = "abort" /\ handler'[q] = "join"
    BY <1>0, <1>9 DEF PromptAborts, At
  <2>3. \A q \in Prompts : /\ ts[q].cancelling => ts'[q].cancelling
                           /\ ts'[q].err = ts[q].err /\ ts'[q].finished = ts[q].finished
                           /\ ts'[q].steers \subseteq ts[q].steers
                           /\ ts'[q].unobserved = ts[q].unobserved
    BY <1>0, <2>1, AbortTurnFacts
  <2> QED
    BY <1>0, <2>1, <2>2, <2>3
<1>10. ASSUME NEW p \in Prompts, PromptAnswers(p) PROVE Grows /\ Moves
  BY <1>0, <1>10 DEF PromptAnswers, At
<1> QED
  BY <1>1, <1>2, <1>3, <1>4, <1>5, <1>6, <1>7, <1>8, <1>9, <1>10 DEF PromptNext

\* The rest of an abort, the timers and the notifier does not undo it.
LEMMA AbortGrows ==
    TypeOK /\ TurnsInv /\ AbortSteps => Grows /\ Moves
<1> SUFFICES ASSUME TypeOK, TurnsInv, AbortSteps PROVE Grows /\ Moves
  OBVIOUS
<1>0. /\ ts \in [Prompts -> TurnStates] /\ live \in Prompts \cup {None} /\ None \notin Prompts
      /\ handler \in [Prompts -> {"idle", "wait", "build", "submit", "await",
                                   "mark", "abort", "join", "done"}]
      /\ steer \in [Steers -> [at   : {"idle", "submit", "accepted", "refused"},
                                turn : Prompts \cup {None}]]
      /\ messageId \in [Prompts -> MessageIds \cup {None}]
      /\ actor \in [at : {"pop", "evaluate", "abort", "aborting", "submit"},
                   steers : SUBSET Steers]
  BY SessionAssumption DEF TypeOK, TurnTypeOK, ClientTypeOK, RestTypeOK, AbortTypeOK, ActorTypeOK
<1> USE DEF TurnsInv, EarlyInv, BeganInv, LiveInv, SteerInv, Began, Early, Grows, Takes,
        turnVars, clientVars, actorVars, Moves
<1>1. ASSUME NEW p \in Prompts, AbortParks(p) PROVE Grows /\ Moves
  BY <1>0, <1>1 DEF AbortParks
<1>2. ASSUME NEW p \in Prompts, AbortStopsRequest(p) PROVE Grows /\ Moves
  BY <1>0, <1>2 DEF AbortStopsRequest
<1>3. ASSUME NEW p \in Prompts, AbortStopsOperations(p) PROVE Grows /\ Moves
  BY <1>0, <1>3 DEF AbortStopsOperations
<1>4. ASSUME NEW p \in Prompts, TimerFires(p) PROVE Grows /\ Moves
  BY <1>0, <1>4 DEF TimerFires
<1>5. CASE NotifierMarks
  BY <1>0, <1>5 DEF NotifierMarks, MarkCancelled, TurnStates
<1>6. CASE NotifierAborts
  <2>1. AbortTurn("notifier") /\ UNCHANGED <<live, steer, messageId>> /\ actor'.steers = actor.steers
    BY <1>0, <1>6 DEF NotifierAborts, actorVars
  <2>2. \A q \in Prompts : \/ handler'[q] = handler[q]
                           \/ handler[q] = "abort" /\ handler'[q] = "join"
    BY <1>0, <1>6 DEF NotifierAborts
  <2>3. \A q \in Prompts : /\ ts[q].cancelling => ts'[q].cancelling
                           /\ ts'[q].err = ts[q].err /\ ts'[q].finished = ts[q].finished
                           /\ ts'[q].steers \subseteq ts[q].steers
                           /\ ts'[q].unobserved = ts[q].unobserved
    BY <1>0, <2>1, AbortTurnFacts
  <2> QED
    BY <1>0, <2>1, <2>2, <2>3
<1>7. ASSUME NEW s \in Steers, SteerSubmits(s) PROVE Grows /\ Moves
  BY <1>0, <1>7 DEF SteerSubmits
<1> QED
  BY <1>1, <1>2, <1>3, <1>4, <1>5, <1>6, <1>7 DEF AbortSteps, AbortNext

\* The actor does not undo it.
LEMMA ActorGrows ==
    TypeOK /\ TurnsInv /\ ActorNext => Grows /\ Moves
<1> SUFFICES ASSUME TypeOK, TurnsInv, ActorNext PROVE Grows /\ Moves
  OBVIOUS
<1>0. /\ ts \in [Prompts -> TurnStates] /\ live \in Prompts \cup {None} /\ None \notin Prompts
      /\ handler \in [Prompts -> {"idle", "wait", "build", "submit", "await",
                                   "mark", "abort", "join", "done"}]
      /\ steer \in [Steers -> [at   : {"idle", "submit", "accepted", "refused"},
                                turn : Prompts \cup {None}]]
      /\ messageId \in [Prompts -> MessageIds \cup {None}]
      /\ actor \in [at : {"pop", "evaluate", "abort", "aborting", "submit"},
                   steers : SUBSET Steers]
  BY SessionAssumption DEF TypeOK, TurnTypeOK, ClientTypeOK, RestTypeOK, AbortTypeOK, ActorTypeOK
<1> USE DEF TurnsInv, EarlyInv, BeganInv, LiveInv, SteerInv, Began, Early, Grows, Takes,
        turnVars, clientVars, actorVars, Moves
<1>1. CASE HandleItem
  BY <1>0, <1>1 DEF HandleItem, Bookkeep, TurnStates
<1>2. CASE HandleWake
  BY <1>0, <1>2 DEF HandleWake
<1>3. CASE HandleModelError
  BY <1>0, <1>3 DEF HandleModelError, TurnStates
<1>4. ASSUME NEW p \in Prompts, HandleGrace(p) PROVE Grows /\ Moves
  BY <1>0, <1>4 DEF HandleGrace
<1>5. ASSUME NEW p \in Prompts, HandleFlush(p) PROVE Grows /\ Moves
  <2>1. /\ UNCHANGED <<live, handler, steer, messageId>> /\ actor'.steers = actor.steers
        /\ \A q \in Prompts : q # live => ts'[q] = ts[q]
        /\ live # None => /\ ts'[live].finished = ts[live].finished
                          /\ ts'[live].cancelling = ts[live].cancelling
                          /\ ts'[live].err = ts[live].err
                          /\ ts'[live].steers = ts[live].steers
                          /\ ts'[live].unobserved = ts[live].unobserved
    BY <1>0, <1>5 DEF HandleFlush, TurnStates
  <2> QED
    BY <1>0, <2>1
<1>6. CASE ActorAborts
  <2>1. AbortTurn("actor") /\ UNCHANGED <<live, steer, messageId>> /\ actor'.steers = actor.steers
    BY <1>0, <1>6 DEF ActorAborts
  <2>2. \A q \in Prompts : \/ handler'[q] = handler[q]
                           \/ handler[q] = "abort" /\ handler'[q] = "join"
    BY <1>0, <1>6 DEF ActorAborts
  <2>3. \A q \in Prompts : /\ ts[q].cancelling => ts'[q].cancelling
                           /\ ts'[q].err = ts[q].err /\ ts'[q].finished = ts[q].finished
                           /\ ts'[q].steers \subseteq ts[q].steers
                           /\ ts'[q].unobserved = ts[q].unobserved
    BY <1>0, <2>1, AbortTurnFacts
  <2> QED
    BY <1>0, <2>1, <2>2, <2>3
<1>7. CASE ActorAborted
  BY <1>0, <1>7 DEF ActorAborted
<1>8. CASE EvaluateWaits
  BY <1>0, <1>8 DEF EvaluateWaits
<1>9. CASE EvaluateCancelled
  <2>1. live \in Prompts /\ Finish(live, ts[live], "error")
    BY <1>0, <1>9 DEF EvaluateCancelled
  <2>2. UNCHANGED <<steer, handler, messageId>> /\ actor'.steers = actor.steers
    BY <1>0, <1>9 DEF EvaluateCancelled
  <2>3. /\ live' = None /\ ts'[live].finished
        /\ ts'[live].cancelling = ts[live].cancelling /\ ts'[live].err = ts[live].err
        /\ ts'[live].steers = ts[live].steers /\ ts'[live].unobserved = ts[live].unobserved
        /\ \A q \in Prompts \ {live} : ts'[q] = ts[q]
    BY <2>1, FinishFacts
  <2> QED
    BY <1>0, <2>1, <2>2, <2>3
<1>10. CASE EvaluateSteers
  BY <1>0, <1>10 DEF EvaluateSteers, TurnStates
<1>11. CASE EvaluateDone
  <2>1. live \in Prompts /\ Finish(live, ts[live], IF ts[live].err THEN "error" ELSE "end_turn")
    BY <1>0, <1>11 DEF EvaluateDone
  <2>2. UNCHANGED <<steer, handler, messageId>> /\ actor'.steers = actor.steers
    BY <1>0, <1>11 DEF EvaluateDone
  <2>3. /\ live' = None /\ ts'[live].finished
        /\ ts'[live].cancelling = ts[live].cancelling /\ ts'[live].err = ts[live].err
        /\ ts'[live].steers = ts[live].steers /\ ts'[live].unobserved = ts[live].unobserved
        /\ \A q \in Prompts \ {live} : ts'[q] = ts[q]
    BY <2>1, FinishFacts
  <2> QED
    BY <1>0, <2>1, <2>2, <2>3
<1>12. ASSUME NEW s \in Steers, ActorSubmits(s) PROVE Grows /\ Moves
  BY <1>0, <1>12 DEF ActorSubmits
<1> QED
  BY <1>1, <1>2, <1>3, <1>4, <1>5, <1>6, <1>7, <1>8, <1>9, <1>10, <1>11, <1>12 DEF ActorNext

\* The coordinator does not undo it.
LEMMA CoordGrows ==
    TypeOK /\ TurnsInv /\ CoordNext => Grows /\ Moves
<1> SUFFICES ASSUME TypeOK, TurnsInv, CoordNext PROVE Grows /\ Moves
  OBVIOUS
<1>0. /\ ts \in [Prompts -> TurnStates] /\ live \in Prompts \cup {None} /\ None \notin Prompts
      /\ handler \in [Prompts -> {"idle", "wait", "build", "submit", "await",
                                   "mark", "abort", "join", "done"}]
      /\ steer \in [Steers -> [at   : {"idle", "submit", "accepted", "refused"},
                                turn : Prompts \cup {None}]]
      /\ messageId \in [Prompts -> MessageIds \cup {None}]
      /\ actor \in [at : {"pop", "evaluate", "abort", "aborting", "submit"},
                   steers : SUBSET Steers]
  BY SessionAssumption DEF TypeOK, TurnTypeOK, ClientTypeOK, RestTypeOK, AbortTypeOK, ActorTypeOK
<1> USE DEF TurnsInv, EarlyInv, BeganInv, LiveInv, SteerInv, Began, Early, Grows, Takes,
        turnVars, clientVars, actorVars, Moves
<1>1. CASE AppendsInput
  BY <1>0, <1>1 DEF AppendsInput
<1>2. CASE AppendsTurn
  BY <1>0, <1>2 DEF AppendsTurn
<1>3. ASSUME NEW n \in Requests, NEW calls \in SUBSET (Calls \ known), AppendsResponse(n, calls) PROVE Grows /\ Moves
  BY <1>0, <1>3 DEF AppendsResponse
<1>4. ASSUME NEW c \in Calls, AppendsStatus(c) PROVE Grows /\ Moves
  BY <1>0, <1>4 DEF AppendsStatus
<1>5. CASE Observe
  BY <1>0, <1>5 DEF Observe, actorVars
<1>6. ASSUME NEW c \in Calls, NEW verdict \in Verdicts, AddsOperation(c, verdict) PROVE Grows /\ Moves
  BY <1>0, <1>6 DEF AddsOperation
<1>7. ASSUME NEW c \in Calls, StartsOperation(c) PROVE Grows /\ Moves
  BY <1>0, <1>7 DEF StartsOperation
<1> QED
  BY <1>1, <1>2, <1>3, <1>4, <1>5, <1>6, <1>7 DEF CoordNext

\* A request in Respond does not undo it.
LEMMA RequestGrows ==
    TypeOK /\ TurnsInv /\ (\E n \in Requests : RequestNext(n)) => Grows /\ Moves
<1> SUFFICES ASSUME TypeOK, TurnsInv, (\E n \in Requests : RequestNext(n)) PROVE Grows /\ Moves
  OBVIOUS
<1>0. /\ ts \in [Prompts -> TurnStates] /\ live \in Prompts \cup {None} /\ None \notin Prompts
      /\ handler \in [Prompts -> {"idle", "wait", "build", "submit", "await",
                                   "mark", "abort", "join", "done"}]
      /\ steer \in [Steers -> [at   : {"idle", "submit", "accepted", "refused"},
                                turn : Prompts \cup {None}]]
      /\ messageId \in [Prompts -> MessageIds \cup {None}]
      /\ actor \in [at : {"pop", "evaluate", "abort", "aborting", "submit"},
                   steers : SUBSET Steers]
  BY SessionAssumption DEF TypeOK, TurnTypeOK, ClientTypeOK, RestTypeOK, AbortTypeOK, ActorTypeOK
<1> USE DEF TurnsInv, EarlyInv, BeganInv, LiveInv, SteerInv, Began, Early, Grows, Takes,
        turnVars, clientVars, actorVars, Moves
<1>1. ASSUME NEW n \in Requests, Enter(n) PROVE Grows /\ Moves
  BY <1>0, <1>1 DEF Enter, sessionVars
<1>2. ASSUME NEW n \in Requests, NEW failed \in Failures, RespondReturns(n, failed) PROVE Grows /\ Moves
  BY <1>0, <1>2 DEF RespondReturns
<1> QED
  BY <1>1, <1>2 DEF RequestNext

\* A tool that ends does not undo it.
LEMMA ToolGrows ==
    TypeOK /\ TurnsInv /\ (\E c \in Calls : OperationEnds(c)) => Grows /\ Moves
<1> SUFFICES ASSUME TypeOK, TurnsInv, NEW c \in Calls, OperationEnds(c) PROVE Grows /\ Moves
  OBVIOUS
<1>0. /\ ts \in [Prompts -> TurnStates] /\ live \in Prompts \cup {None} /\ None \notin Prompts
      /\ handler \in [Prompts -> {"idle", "wait", "build", "submit", "await",
                                   "mark", "abort", "join", "done"}]
      /\ steer \in [Steers -> [at   : {"idle", "submit", "accepted", "refused"},
                                turn : Prompts \cup {None}]]
      /\ messageId \in [Prompts -> MessageIds \cup {None}]
      /\ actor \in [at : {"pop", "evaluate", "abort", "aborting", "submit"},
                   steers : SUBSET Steers]
  BY SessionAssumption DEF TypeOK, TurnTypeOK, ClientTypeOK, RestTypeOK, AbortTypeOK, ActorTypeOK
<1> USE DEF TurnsInv, EarlyInv, BeganInv, LiveInv, SteerInv, Began, Early, Grows, Takes,
        turnVars, clientVars, actorVars, Moves
<1> QED
  BY <1>0 DEF OperationEnds

\* No step undoes it.
LEMMA GrowsStep == TypeOK /\ TurnsInv /\ [Next]_vars => Grows /\ Moves
<1>1. UNCHANGED vars => Grows /\ Moves
  BY SessionAssumption DEF Grows, Moves, Takes, Began, Early, vars, sessionVars, turnVars,
     clientVars, actorVars
<1> QED
  BY <1>1, ClientGrows, PromptGrows, AbortGrows, ActorGrows, CoordGrows, RequestGrows, ToolGrows DEF Next, AbortSteps

-----------------------------------------------------------------------
(* The way of an input: it is submitted once, read from the inbox, folded  *)
(* into sync, observed, and handled by the actor.                          *)

InInbox == {inbox[k] : k \in DOMAIN inbox}

InputAppended(i) == appended # <<>> /\ Head(appended) = InputItem(i)

InputEvent(i) == [kind |-> "item", item |-> InputItem(i)]

Steered == {s \in Steers : steer[s].turn # None}

Owned == {messageId[p] : p \in {q \in Prompts : Began(q)}} \cup Steered

InboxInv ==
    /\ \A j, k \in DOMAIN inbox : inbox[j] = inbox[k] => j = k
    /\ InInbox \subseteq accepted \ inputs
    /\ inputs \subseteq accepted
    /\ todo \cap Inputs \subseteq accepted
    /\ \A i \in Inputs : InputAppended(i) =>
          i \in todo /\ i \in accepted \ inputs /\ i \notin InInbox

QueueInv ==
    \A i \in Inputs : \A k \in DOMAIN events : events[k] = InputEvent(i) =>
        /\ i \in inputs
        /\ \A j \in DOMAIN events : events[j] = InputEvent(i) => j = k

OwnersInv ==
    /\ accepted \subseteq Owned
    /\ actor.steers \subseteq Steered
    /\ \A p \in Prompts : ts[p].steers \subseteq Steered

InputsInv == InboxInv /\ QueueInv /\ OwnersInv

Still == UNCHANGED <<inbox, accepted, todo, appended, inputs, delivered>>

Submits(id) ==
    /\ SubmitInput(id)
    /\ UNCHANGED <<inputs, delivered>>
    /\ \/ \E p \in Prompts : handler[p] = "submit" /\ id = messageId[p]
       \/ id \in Steers /\ steer[id].at = "submit"
       \/ id \in actor.steers

LogKind == Still \/ (\E id \in Inputs : Submits(id)) \/ Appends \/ Observe

\* As far as inputs are concerned, every step is one of few.
LEMMA LogKinds == TypeOK /\ [Next]_vars => LogKind
<1> SUFFICES ASSUME TypeOK, [Next]_vars PROVE LogKind
  OBVIOUS
<1> USE DEF LogKind, Still, coordVars, logVars
<1>1. CASE UNCHANGED vars
  BY <1>1 DEF vars, sessionVars
<1>2. CASE ClientNext
  <2>1. ASSUME NEW p \in Prompts, NEW id \in MessageIds, SendPrompt(p, id) PROVE LogKind
    BY <2>1 DEF SendPrompt
  <2>2. ASSUME NEW how, SendCancel(how) PROVE LogKind
    BY <2>2 DEF SendCancel
  <2>3. ASSUME NEW s \in Steers, SteerQueues(s) \/ SteerInterrupts(s) PROVE LogKind
    BY <2>3 DEF SteerQueues, SteerInterrupts
  <2>4. ASSUME NEW c \in Calls, NEW allow \in BOOLEAN, Decide(c, allow) PROVE LogKind
    BY <2>4 DEF Decide
  <2> QED
    BY <1>2, <2>1, <2>2, <2>3, <2>4 DEF ClientNext
<1>3. ASSUME NEW p \in Prompts, PromptNext(p) PROVE LogKind
  <2>1. CASE PromptSubmits(p)
    <3>1. messageId[p] \in Inputs
      BY <2>1 DEF TypeOK, ClientTypeOK, PromptSubmits, At, MessageIds
    <3>2. Submits(messageId[p])
      BY <2>1 DEF PromptSubmits, Submits, At
    <3> QED
      BY <3>1, <3>2
  <2>2. CASE ~PromptSubmits(p)
    BY <1>3, <2>2 DEF PromptNext, PromptBusy, PromptKnown, PromptTakesTurn, EnsureGeneration,
       GenerationFails, PromptSeesCancel, PromptMarks, PromptAborts, PromptAnswers
  <2> QED
    BY <2>1, <2>2
<1>4. CASE AbortSteps
  <2>1. ASSUME NEW p \in Prompts, AbortNext(p) \/ TimerFires(p) PROVE LogKind
    BY <2>1 DEF AbortNext, AbortParks, AbortStopsRequest, AbortStopsOperations, TimerFires
  <2>2. CASE NotifierMarks \/ NotifierAborts
    BY <2>2 DEF NotifierMarks, NotifierAborts
  <2>3. ASSUME NEW s \in Steers, SteerSubmits(s) PROVE LogKind
    <3>1. Submits(s) /\ s \in Inputs
      BY <2>3, SessionAssumption DEF SteerSubmits, Submits
    <3> QED
      BY <3>1
  <2> QED
    BY <1>4, <2>1, <2>2, <2>3 DEF AbortSteps
<1>5. CASE ActorNext
  <2>1. CASE HandleItem \/ HandleWake \/ HandleModelError
    BY <2>1 DEF HandleItem, HandleWake, HandleModelError
  <2>2. ASSUME NEW p \in Prompts, HandleGrace(p) \/ HandleFlush(p) PROVE LogKind
    BY <2>2 DEF HandleGrace, HandleFlush
  <2>3. CASE ActorAborts \/ ActorAborted \/ EvaluateWaits
    BY <2>3 DEF ActorAborts, ActorAborted, EvaluateWaits
  <2>4. CASE EvaluateCancelled \/ EvaluateSteers \/ EvaluateDone
    BY <2>4 DEF EvaluateCancelled, EvaluateSteers, EvaluateDone
  <2>5. ASSUME NEW s \in Steers, ActorSubmits(s) PROVE LogKind
    <3>1. Submits(s) /\ s \in Inputs
      BY <2>5, SessionAssumption DEF ActorSubmits, Submits
    <3> QED
      BY <3>1
  <2> QED
    BY <1>5, <2>1, <2>2, <2>3, <2>4, <2>5 DEF ActorNext
<1>6. CASE CoordNext
  <2>1. ASSUME NEW c \in Calls, NEW verdict \in Verdicts, AddsOperation(c, verdict) PROVE LogKind
    BY <2>1 DEF AddsOperation, OperationAdded
  <2>2. ASSUME NEW c \in Calls, StartsOperation(c) PROVE LogKind
    BY <2>2 DEF StartsOperation, OperationAdded
  <2> QED
    BY <1>6, <2>1, <2>2 DEF CoordNext, Appends
<1>7. ASSUME NEW n \in Requests, RequestNext(n) PROVE LogKind
  BY <1>7 DEF RequestNext, Enter, RespondReturns, sessionVars
<1>8. ASSUME NEW c \in Calls, OperationEnds(c) PROVE LogKind
  BY <1>8 DEF OperationEnds
<1> QED
  BY <1>1, <1>2, <1>3, <1>4, <1>5, <1>6, <1>7, <1>8 DEF Next, AbortSteps

\* What a submit does to the inbox.
LEMMA SubmitInbox ==
    ASSUME TypeOK, InboxInv, NEW id \in Inputs, SubmitInput(id), UNCHANGED inputs
    PROVE  InboxInv'
<1>0. inbox \in Seq(Inputs)
  BY DEF TypeOK, HarnessTypeOK, CoordTypeOK
<1>1. CASE id \in accepted
  <2>1. UNCHANGED <<inbox, todo, appended, inputs>> /\ accepted' = accepted
    BY <1>1 DEF SubmitInput
  <2> QED
    BY <2>1 DEF InboxInv, InInbox, InputAppended
<1>2. CASE id \notin accepted
  <2>1. /\ inbox' = Append(inbox, id) /\ accepted' = accepted \cup {id}
        /\ UNCHANGED <<todo, appended, inputs>>
    BY <1>2 DEF SubmitInput
  <2>2. /\ Len(inbox') = Len(inbox) + 1 /\ inbox'[Len(inbox) + 1] = id
        /\ \A k \in 1 .. Len(inbox) : inbox'[k] = inbox[k]
        /\ DOMAIN inbox = 1 .. Len(inbox) /\ DOMAIN inbox' = 1 .. Len(inbox) + 1
        /\ Len(inbox) \in Nat
    BY <1>0, <2>1
  <2>3. InInbox' = InInbox \cup {id}
    BY <2>2 DEF InInbox
  <2>4. \A k \in 1 .. Len(inbox) : inbox[k] # id
    BY <1>2, <2>2 DEF InboxInv, InInbox
  <2>5. \A j, k \in DOMAIN inbox' : inbox'[j] = inbox'[k] => j = k
    BY <2>2, <2>4 DEF InboxInv
  <2> QED
    BY <1>2, <2>1, <2>3, <2>5 DEF InboxInv, InputAppended
<1> QED
  BY <1>1, <1>2

\* What an append does to it.
LEMMA AppendsInbox == TypeOK /\ InboxInv /\ Appends => InboxInv'
<1> SUFFICES ASSUME TypeOK, InboxInv, Appends PROVE InboxInv'
  OBVIOUS
<1>0. inbox \in Seq(Inputs) /\ todo \subseteq Reasons /\ Calls \cap Inputs = {}
  BY ReasonsAreDistinct DEF TypeOK, HarnessTypeOK, CoordTypeOK
<1> USE DEF InboxInv, InInbox, InputAppended, InputItem
<1>1. CASE AppendsInput
  <2>1. /\ inbox # <<>> /\ inbox' = Tail(inbox) /\ todo' = todo \cup {Head(inbox)}
        /\ appended' = <<InputItem(Head(inbox))>> /\ UNCHANGED <<accepted, inputs>>
    BY <1>1 DEF AppendsInput, TakeInput
  <2>2. /\ Len(inbox) \in Nat /\ Len(inbox) # 0 /\ Head(inbox) = inbox[1]
        /\ DOMAIN inbox = 1 .. Len(inbox) /\ DOMAIN inbox' = 1 .. Len(inbox) - 1
        /\ \A k \in 1 .. Len(inbox) - 1 : inbox'[k] = inbox[k + 1]
    BY <1>0, <2>1
  <2>3. \A k \in DOMAIN inbox' : k + 1 \in DOMAIN inbox /\ k + 1 # 1 /\ k \in Nat
    BY <2>2
  <2>4. InInbox' \subseteq InInbox \ {Head(inbox)}
    BY <2>2, <2>3
  <2>5. \A j, k \in DOMAIN inbox' : inbox'[j] = inbox'[k] => j = k
    BY <2>2, <2>3
  <2>6. Head(inbox) \in InInbox
    BY <2>2
  <2>7. Head(appended') = InputItem(Head(inbox))
    BY <2>1
  <2> HIDE DEF InInbox
  <2> QED
    BY <2>1, <2>4, <2>5, <2>6, <2>7
<1>2. CASE AppendsTurn
  BY <1>2 DEF AppendsTurn, StartTurn, TurnItem
<1>3. ASSUME NEW n \in Requests, NEW calls \in SUBSET Calls, AppendsResponse(n, calls)
      PROVE  InboxInv'
  BY <1>3 DEF AppendsResponse, TakeResult, ResponseItem
<1>4. ASSUME NEW c \in Calls, AppendsStatus(c) PROVE InboxInv'
  BY <1>0, <1>4 DEF AppendsStatus, TranslateCall, FinishCall, StatusItem
<1> QED
  BY <1>1, <1>2, <1>3, <1>4 DEF Appends

\* What the observers have seen is in the log.
LEMMA ObserveInputs ==
    ASSUME TypeOK, Observe
    PROVE  /\ appended # <<>> /\ appended' = <<>>
           /\ inputs' = inputs \cup {i \in Inputs : InputAppended(i)}
           /\ Head(appended) \in Items
           /\ UNCHANGED <<inbox, accepted, todo, current, running, fresh, sync, delivered>>
<1>1. /\ Head(appended) \in Items /\ appended # <<>> /\ Index(Head(appended))
      /\ appended' = <<>>
      /\ UNCHANGED <<inbox, accepted, todo, current, running, fresh, sync, delivered>>
  BY ObservedItemType DEF TypeOK, HarnessTypeOK, Observe, ObserversDone
<1>2. CASE Head(appended).kind = "input"
  <2>1. Head(appended).id \in Inputs /\ Head(appended) = InputItem(Head(appended).id)
    BY <1>1, <1>2 DEF Items, InputItem
  <2>2. {i \in Inputs : InputAppended(i)} = {Head(appended).id}
    BY <1>1, <2>1 DEF InputAppended, InputItem
  <2> QED
    BY <1>1, <1>2, <2>2 DEF Index, IndexInput
<1>3. CASE Head(appended).kind # "input"
  <2>1. inputs' = inputs
    BY <1>1, <1>3 DEF Index, IndexTurn, IndexResponse, IndexStatus, Items
  <2>2. \A i \in Inputs : ~InputAppended(i)
    BY <1>3 DEF InputAppended, InputItem
  <2> QED
    BY <1>1, <2>1, <2>2
<1> QED
  BY <1>2, <1>3

\* Every step keeps the inbox in order.
LEMMA InboxStep == TypeOK /\ InboxInv /\ [Next]_vars => InboxInv'
<1> SUFFICES ASSUME TypeOK, InboxInv, [Next]_vars PROVE InboxInv'
  OBVIOUS
<1>1. CASE Still
  BY <1>1 DEF Still, InboxInv, InInbox, InputAppended
<1>2. ASSUME NEW id \in Inputs, Submits(id) PROVE InboxInv'
  BY <1>2, SubmitInbox DEF Submits
<1>3. CASE Observe
  <2>1. /\ appended' = <<>> /\ inputs' = inputs \cup {i \in Inputs : InputAppended(i)}
        /\ UNCHANGED <<inbox, accepted, todo>>
    BY <1>3, ObserveInputs
  <2> QED
    BY <2>1 DEF InboxInv, InInbox, InputAppended
<1> QED
  BY <1>1, <1>2, <1>3, AppendsInbox, LogKinds DEF LogKind

\* The log and what the provider has answered only grow.
LEMMA InputsGrow == TypeOK /\ [Next]_vars => inputs \subseteq inputs' /\ delivered \subseteq delivered'
<1> SUFFICES ASSUME TypeOK, [Next]_vars PROVE inputs \subseteq inputs' /\ delivered \subseteq delivered'
  OBVIOUS
<1>1. CASE Still \/ \E id \in Inputs : Submits(id)
  BY <1>1 DEF Still, Submits
<1>2. CASE Appends
  BY <1>2 DEF Appends, AppendsInput, AppendsTurn, AppendsResponse, AppendsStatus
<1>3. CASE Observe
  BY <1>3, ObserveInputs
<1> QED
  BY <1>1, <1>2, <1>3, LogKinds DEF LogKind

Pops == events # <<>> /\ events' = Tail(events)

\* The actor's queue keeps its order.
LEMMA EventKinds ==
    TypeOK /\ [Next]_vars =>
        \/ UNCHANGED events
        \/ \E e \in Events : e.kind # "item" /\ Push(e)
        \/ Pops
        \/ Observe
BY QueueKinds, AppendsFold DEF Aside, HandleItem, HandleNext, Pops

\* Taking the first event off a queue.
LEMMA PopsFacts ==
    ASSUME TypeOK, Pops
    PROVE  /\ Len(events) \in Nat /\ Len(events') = Len(events) - 1
           /\ DOMAIN events = 1 .. Len(events) /\ DOMAIN events' = 1 .. Len(events) - 1
           /\ Head(events) = events[1] /\ 1 \in DOMAIN events
           /\ \A k \in DOMAIN events' : /\ k + 1 \in DOMAIN events /\ k \in Nat
                                        /\ events'[k] = events[k + 1]
<1>1. events \in Seq(Events)
  BY DEF TypeOK, RestTypeOK
<1> QED
  BY <1>1 DEF Pops

\* Putting one at its end.
LEMMA PushFacts ==
    ASSUME TypeOK, NEW e, Push(e)
    PROVE  /\ Len(events) \in Nat /\ Len(events') = Len(events) + 1
           /\ DOMAIN events = 1 .. Len(events) /\ DOMAIN events' = 1 .. Len(events) + 1
           /\ events'[Len(events) + 1] = e
           /\ \A k \in DOMAIN events : k \in DOMAIN events' /\ events'[k] = events[k]
<1>1. events \in Seq(Events)
  BY DEF TypeOK, RestTypeOK
<1> QED
  BY <1>1 DEF Push

\* The observed input is given to the actor.
LEMMA ObservePushes ==
    ASSUME Observe
    PROVE  Push([kind |-> "item", item |-> Head(appended)])
BY DEF Observe

\* Every step keeps each input in the actor's queue once, and in the log.
LEMMA QueueStep == TypeOK /\ InboxInv /\ QueueInv /\ [Next]_vars => QueueInv'
<1> SUFFICES ASSUME TypeOK, InboxInv, QueueInv, [Next]_vars PROVE QueueInv'
  OBVIOUS
<1>0. inputs \subseteq inputs'
  BY InputsGrow
<1>1. CASE UNCHANGED events
  BY <1>0, <1>1 DEF QueueInv, InputEvent
<1>2. ASSUME NEW e \in Events, e.kind # "item", Push(e) PROVE QueueInv'
  <2>1. \A i \in Inputs : e # InputEvent(i)
    BY <1>2 DEF InputEvent
  <2> QED
    BY <1>0, <1>2, <2>1, PushFacts DEF QueueInv, InputEvent
<1>3. CASE Pops
  <2>1. ASSUME NEW i \in Inputs, NEW k \in DOMAIN events', events'[k] = InputEvent(i)
        PROVE  i \in inputs /\ \A j \in DOMAIN events' : events'[j] = InputEvent(i) => j = k
    <3>1. k + 1 \in DOMAIN events /\ events[k + 1] = InputEvent(i) /\ k \in Nat
      BY <1>3, <2>1, PopsFacts
    <3>2. \A j \in DOMAIN events' : j + 1 \in DOMAIN events /\ events'[j] = events[j + 1] /\ j \in Nat
      BY <1>3, PopsFacts
    <3>3. \A j \in DOMAIN events : events[j] = InputEvent(i) => j = k + 1
      BY <3>1 DEF QueueInv
    <3>4. \A j \in DOMAIN events' : events'[j] = InputEvent(i) => j + 1 = k + 1
      BY <3>2, <3>3
    <3> QED
      BY <3>1, <3>2, <3>4 DEF QueueInv
  <2> QED
    BY <1>0, <2>1 DEF QueueInv, InputEvent
<1>4. CASE Observe
  <2> DEFINE e == [kind |-> "item", item |-> Head(appended)]
  <2>1. Push(e) /\ appended # <<>> /\ inputs' = inputs \cup {i \in Inputs : InputAppended(i)}
    BY <1>4, ObservePushes, ObserveInputs
  <2>2. \A i \in Inputs : e = InputEvent(i) =>
           i \in inputs' /\ \A j \in DOMAIN events : events[j] # InputEvent(i)
    <3>1. \A i \in Inputs : e = InputEvent(i) => InputAppended(i)
      BY <2>1 DEF InputEvent, InputAppended
    <3> QED
      BY <2>1, <3>1 DEF InboxInv, QueueInv
  <2> HIDE DEF e
  <2>3. /\ DOMAIN events = 1 .. Len(events) /\ DOMAIN events' = 1 .. Len(events) + 1
        /\ Len(events) \in Nat /\ events'[Len(events) + 1] = e
        /\ \A k \in DOMAIN events : events'[k] = events[k]
    BY <2>1, PushFacts
  <2> QED
    BY <1>0, <2>2, <2>3 DEF QueueInv, InputEvent
<1> QED
  BY <1>1, <1>2, <1>3, <1>4, EventKinds

\* Every step keeps whose the inputs are.
LEMMA OwnersStep == TypeOK /\ TurnsInv /\ OwnersInv /\ [Next]_vars => OwnersInv'
<1> SUFFICES ASSUME TypeOK, TurnsInv, OwnersInv, [Next]_vars PROVE OwnersInv'
  OBVIOUS
<1>0. Grows /\ Moves
  BY GrowsStep
<1>1. Steered \subseteq Steered'
  <2>1. live \in Prompts \cup {None}
    BY DEF TypeOK, TurnTypeOK
  <2> QED
    BY <1>0, <2>1 DEF Grows, Steered
<1>2. Owned \subseteq Owned'
  BY <1>0, <1>1 DEF Grows, Owned
<1>3. accepted' \subseteq accepted \cup Owned
  <2>1. ASSUME NEW id \in Inputs, Submits(id) PROVE id \in Owned /\ accepted' = accepted \cup {id}
    <3>1. ASSUME NEW p \in Prompts, handler[p] = "submit" PROVE messageId[p] \in Owned
      BY <3>1 DEF TurnsInv, BeganInv, Owned
    <3>2. id \in Steers /\ steer[id].at = "submit" => id \in Owned
      BY DEF TurnsInv, SteerInv, Owned, Steered
    <3> QED
      BY <2>1, <3>1, <3>2 DEF Submits, SubmitInput, OwnersInv, Owned
  <2>2. CASE Appends
    BY <2>2 DEF Appends, AppendsInput, TakeInput, AppendsTurn, StartTurn, AppendsResponse,
       TakeResult, AppendsStatus, TranslateCall, FinishCall
  <2>3. CASE Observe
    BY <2>3, ObserveInputs
  <2> QED
    BY <2>1, <2>2, <2>3, LogKinds DEF LogKind, Still
<1>4. \A p \in Prompts : ts'[p].steers \subseteq Steered'
  BY <1>0, <1>1 DEF Moves, OwnersInv, Steered
<1>5. actor'.steers \subseteq Steered'
  BY <1>0, <1>1 DEF Moves, OwnersInv
<1> QED
  BY <1>2, <1>3, <1>4, <1>5 DEF OwnersInv

\* The way of inputs, at the start.
LEMMA InitInputs == Init => InputsInv
BY DEF Init, CoordInit, InputsInv, InboxInv, QueueInv, OwnersInv, InInbox, InputAppended, Unused

\* Every step keeps it.
LEMMA InputsStep == TypeOK /\ TurnsInv /\ InputsInv /\ [Next]_vars => InputsInv'
BY InboxStep, QueueStep, OwnersStep DEF InputsInv

-----------------------------------------------------------------------
(* What a turn has taken and the actor has not seen of it.                 *)

Taken(p) == {messageId[p]} \cup {s \in Steers : steer[s].turn = p}

Seen(i) == i \in inputs /\ \A k \in DOMAIN events : events[k] # InputEvent(i)

UnobservedInv ==
    live # None => \A i \in Taken(live) : i \in ts[live].unobserved \/ Seen(i)

\* A turn begins with what its prompt has sent.
LEMMA TakesTaken ==
    ASSUME TypeOK, TurnsInv, Grows, Moves, NEW p \in Prompts, Takes(p)
    PROVE  Taken(p)' = {messageId[p]} /\ messageId[p] \in ts'[p].unobserved
<1>1. ~Began(p) /\ None \notin Prompts
  BY SessionAssumption DEF TurnsInv, EarlyInv, Early, Takes, Began, Unused
<1>2. \A s \in Steers : steer'[s].turn = steer[s].turn
  BY DEF Grows, Takes
<1>3. \A s \in Steers : steer[s].turn # p
  BY <1>1 DEF TurnsInv, SteerInv
<1> QED
  BY <1>2, <1>3 DEF Taken, Moves

\* What an unfinished turn has taken was taken by it before, or just now.
LEMMA TakenFacts ==
    ASSUME TypeOK, TurnsInv, Grows, Moves, live # None, live' = live
    PROVE  /\ live \in Prompts
           /\ \A i \in Taken(live)' : i \in Taken(live) \/ i \in ts'[live].unobserved
           /\ Taken(live) \subseteq Taken(live)'
           /\ ~Takes(live)
<1>1. live \in Prompts /\ None \notin Prompts /\ Began(live) /\ ~Takes(live)
  BY SessionAssumption DEF TypeOK, TurnTypeOK, Began, Takes
<1>2. messageId'[live] = messageId[live]
  BY <1>1 DEF Grows
<1>3. \A s \in Steers : steer'[s].turn # steer[s].turn =>
          steer[s].at = "idle" /\ s \in ts'[live].unobserved
  BY DEF Grows, Moves
<1>4. \A s \in Steers : steer[s].at = "idle" => steer[s].turn # live
  BY <1>1 DEF TurnsInv, SteerInv
<1> QED
  BY <1>1, <1>2, <1>3, <1>4 DEF Taken

\* Every step keeps track of it.
LEMMA UnobservedStep ==
    TypeOK /\ TurnsInv /\ InputsInv /\ UnobservedInv /\ [Next]_vars => UnobservedInv'
<1> SUFFICES ASSUME TypeOK, TurnsInv, InputsInv, UnobservedInv, [Next]_vars, live' # None
             PROVE  \A i \in Taken(live)' : i \in ts'[live'].unobserved \/ Seen(i)'
  BY DEF UnobservedInv, Taken
<1>0. Grows /\ Moves /\ live' \in Prompts
  BY GrowsStep, TypeStep DEF TypeOK, TurnTypeOK
<1>1. CASE live' # live
  BY <1>0, <1>1, TakesTaken DEF Grows, Taken
<1>2. CASE live' = live
  <2>0. live \in Prompts /\ ~Takes(live)
        /\ \A i \in Taken(live)' : i \in Taken(live) \/ i \in ts'[live].unobserved
    BY <1>0, <1>2, TakenFacts
  <2>1. ASSUME NEW i \in Inputs, i \in ts[live].unobserved, i \notin ts'[live].unobserved
        PROVE  Seen(i)'
    <3>1. HandleItem /\ Head(events).item.kind = "input" /\ Head(events).item.id = i
      BY <1>0, <2>0, <2>1 DEF Moves
    <3>2. Pops /\ inputs' = inputs /\ Head(events).kind = "item" /\ Head(events) \in Events
      BY <3>1 DEF HandleItem, HandleNext, Pops, logVars, TypeOK, RestTypeOK
    <3>3. Head(events) = InputEvent(i)
      BY <3>1, <3>2 DEF Events, Items, InputEvent, InputItem
    <3>4. i \in inputs /\ \A j \in DOMAIN events : events[j] = InputEvent(i) => j = 1
      BY <3>2, <3>3, PopsFacts DEF InputsInv, QueueInv
    <3>5. \A k \in DOMAIN events' : k + 1 \in DOMAIN events /\ k + 1 # 1 /\ events'[k] = events[k + 1]
      BY <3>2, PopsFacts
    <3> QED
      BY <3>2, <3>4, <3>5 DEF Seen, InputEvent
  <2>2. ASSUME NEW i \in Inputs, Seen(i) PROVE Seen(i)'
    <3>0. i \in inputs'
      BY <2>2, InputsGrow DEF Seen
    <3>1. CASE UNCHANGED events
      BY <2>2, <3>0, <3>1 DEF Seen, InputEvent
    <3>2. ASSUME NEW e \in Events, e.kind # "item", Push(e) PROVE Seen(i)'
      <4>1. e # InputEvent(i)
        BY <3>2 DEF InputEvent
      <4> QED
        BY <2>2, <3>0, <3>2, <4>1, PushFacts DEF Seen, InputEvent
    <3>3. CASE Pops
      BY <2>2, <3>0, <3>3, PopsFacts DEF Seen, InputEvent
    <3>4. CASE Observe
      <4> DEFINE e == [kind |-> "item", item |-> Head(appended)]
      <4>1. Push(e) /\ ~InputAppended(i) /\ appended # <<>>
        BY <2>2, <3>4, ObservePushes, ObserveInputs DEF InputsInv, InboxInv, Seen
      <4>2. e # InputEvent(i)
        BY <4>1 DEF InputEvent, InputAppended
      <4> HIDE DEF e
      <4> QED
        BY <2>2, <3>0, <4>1, <4>2, PushFacts DEF Seen, InputEvent
    <3> QED
      BY <3>1, <3>2, <3>3, <3>4, EventKinds
  <2>3. ASSUME NEW i \in Taken(live) PROVE i \in ts'[live].unobserved \/ Seen(i)'
    <3>1. i \in ts[live].unobserved \/ Seen(i)
      BY <1>2, <2>3 DEF UnobservedInv
    <3>2. i \in Inputs
      BY <2>0, <3>1 DEF TypeOK, TurnTypeOK, TurnStates, LogTypeOK, Seen
    <3> QED
      BY <2>1, <2>2, <3>1, <3>2
  <2> QED
    BY <1>2, <2>0, <2>3
<1> QED
  BY <1>1, <1>2
=======================================================================

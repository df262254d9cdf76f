------------------------ MODULE Session_proofs ------------------------
(***************************************************************************)
(* Proofs about a session: type correctness, that the mirror the Gate and  *)
(* abortTurn read is the coordinator's state, and that the runtime and the *)
(* coordinator use the Gate as GateSpec assumes, so that what is proved of *)
(* the Gate alone holds in a session.                                      *)
(***************************************************************************)
EXTENDS Session, Gate_proofs

-----------------------------------------------------------------------
(* Typing of the operators and of the components' operations.              *)

\* Folding an item of the log into a mirror gives a mirror.
LEMMA ApplyType ==
    ASSUME NEW m \in MirrorType, NEW item \in Items
    PROVE  Apply(m, item) \in MirrorType
<1>1. CASE item.kind = "input"
  <2>1. item.id \in Inputs
    BY <1>1 DEF Items
  <2> QED
    BY <1>1, <2>1 DEF Apply, ApplyInput, MirrorType, Reasons
<1>2. CASE item.kind = "turn"
  <2>1. item.turn \in Nat
    BY <1>2 DEF Items
  <2> QED
    BY <1>2, <2>1 DEF Apply, ApplyTurn, MirrorType
<1>3. CASE item.kind = "response"
  <2>1. item.calls \subseteq Calls
    BY <1>3 DEF Items
  <2> QED
    BY <1>3, <2>1 DEF Apply, ApplyResponse, MirrorType
<1>4. CASE item.kind = "status"
  <2>1. item.call \in Calls
    BY <1>4 DEF Items
  <2> QED
    BY <1>4, <2>1 DEF Apply, ApplyStatus, MirrorType, Reasons
<1> QED
  BY <1>1, <1>2, <1>3, <1>4 DEF Items

\* A part of the state that does not change keeps its type.
LEMMA SameType ==
    /\ HarnessTypeOK /\ UNCHANGED coordVars => HarnessTypeOK'
    /\ GateTypeOK /\ UNCHANGED gateVars => GateTypeOK'
    /\ TurnTypeOK /\ UNCHANGED turnVars => TurnTypeOK'
    /\ LogTypeOK /\ UNCHANGED logVars => LogTypeOK'
    /\ ActorTypeOK /\ UNCHANGED actorVars => ActorTypeOK'
    /\ AbortTypeOK /\ UNCHANGED abortVars => AbortTypeOK'
    /\ ClientTypeOK /\ UNCHANGED clientVars => ClientTypeOK'
    /\ RestTypeOK /\ UNCHANGED <<gen, steer, op, events>> => RestTypeOK'
BY DEF HarnessTypeOK, CoordTypeOK, coordVars, GateTypeOK, gateVars, TurnTypeOK, turnVars,
   LogTypeOK, logVars, ActorTypeOK, actorVars, AbortTypeOK, abortVars,
   ClientTypeOK, clientVars, RestTypeOK

\* finishLocked keeps the types.
LEMMA FinishType ==
    ASSUME TypeOK, NEW p \in Prompts, NEW t \in TurnStates, NEW how \in Answers,
           Finish(p, t, how)
    PROVE  /\ ts' \in [Prompts -> TurnStates]
           /\ live' \in Prompts \cup {None}
           /\ answer' \in [Prompts -> Answers]
<1>1. [t EXCEPT !.finished = TRUE] \in TurnStates
  BY DEF TurnStates
<1>2. ts' \in [Prompts -> TurnStates]
  BY <1>1 DEF Finish, TypeOK, TurnTypeOK
<1>3. answer' \in [Prompts -> Answers]
  BY DEF Finish, TypeOK, ClientTypeOK, Answers
<1> QED
  BY <1>2, <1>3 DEF Finish

\* CancelTurn's mark keeps the types.
LEMMA MarkType ==
    ASSUME TypeOK, MarkCancelled
    PROVE  ts' \in [Prompts -> TurnStates]
BY ZenonT(60) DEF TypeOK, TurnTypeOK, MarkCancelled, TurnStates

\* abortTurn keeps the types, whichever goroutine calls it.
LEMMA AbortTurnType ==
    ASSUME TypeOK, NEW thread \in Prompts \cup {"notifier", "actor"},
           AbortTurn(thread)
    PROVE  /\ ts' \in [Prompts -> TurnStates]
           /\ refuseNew' \in BOOLEAN
           /\ cancelledCalls' \subseteq Calls
           /\ abort' \in [Prompts -> Aborts]
<1> USE DEF TypeOK, TurnTypeOK, LogTypeOK, AbortTypeOK
<1>1. CASE live = None \/ ts[live].cancelling
  BY <1>1 DEF AbortTurn
<1>2. CASE ~(live = None \/ ts[live].cancelling)
  <2>1. live \in Prompts /\ ts[live] \in TurnStates
    BY <1>2
  <2>2. sync.outstanding \subseteq Calls /\ sync.waiting \subseteq Calls
    BY DEF MirrorType
  <2> DEFINE t == [ts[live] EXCEPT !.cancelling = TRUE, !.steers = {},
                                   !.waitCalls = @ \cup sync.outstanding]
  <2>3. t \in TurnStates
    BY <2>1, <2>2 DEF TurnStates
  <2>4. ts' = [ts EXCEPT ![live] = t]
    BY <1>2, <2>1 DEF AbortTurn
  <2> DEFINE a == [at |-> "park", by |-> thread, calls |-> sync.waiting,
                   inputs |-> inputs \cup ts[live].unobserved]
  <2>5. a \in Aborts
    BY <2>1, <2>2 DEF Aborts, TurnStates
  <2>6. abort' = [abort EXCEPT ![live] = a]
    BY <1>2 DEF AbortTurn
  <2> QED
    BY <1>2, <2>1, <2>2, <2>3, <2>4, <2>5, <2>6 DEF AbortTurn
<1> QED
  BY <1>1, <1>2

AbortSteps ==
    \/ \E p \in Prompts : AbortNext(p) \/ TimerFires(p)
    \/ NotifierMarks \/ NotifierAborts
    \/ \E s \in Steers : SteerSubmits(s)

\* Inbox.Submit keeps the types.
LEMMA SubmitType ==
    ASSUME CoordTypeOK, NEW id \in Inputs, SubmitInput(id)
    PROVE  CoordTypeOK'
BY DEF CoordTypeOK, SubmitInput

\* What the client does keeps the types.
LEMMA ClientType == TypeOK /\ ClientNext => TypeOK'
<1> SUFFICES ASSUME TypeOK, ClientNext PROVE TypeOK'
  OBVIOUS
<1> USE DEF TypeOK
<1>1. ASSUME NEW p \in Prompts, NEW id \in MessageIds, SendPrompt(p, id) PROVE TypeOK'
  <2>1. id # None
    BY SessionAssumption DEF MessageIds, Reasons
  <2>2. /\ handler' = [handler EXCEPT ![p] = "wait"] /\ messageId' = [messageId EXCEPT ![p] = id]
        /\ answer' = answer /\ ctxDone' = ctxDone \cup Open /\ asked' = asked \cup Open
    BY <1>1 DEF SendPrompt, At
  <2>3. ClientTypeOK
    OBVIOUS
  <2>4. ClientTypeOK'
    <3> HIDE DEF TypeOK
    <3> QED
      BY <2>1, <2>2, <2>3 DEF ClientTypeOK, Open
  <2> QED
    BY <1>1, <2>4, SameType DEF SendPrompt
<1>2. ASSUME NEW how, SendCancel(how) PROVE TypeOK'
  <2>1. AbortTypeOK'
    BY <1>2 DEF AbortTypeOK, SendCancel
  <2>2. ClientTypeOK'
    BY <1>2 DEF ClientTypeOK, SendCancel, Open
  <2> QED
    BY <1>2, <2>1, <2>2, SameType DEF SendCancel
<1>3. ASSUME NEW s \in Steers, SteerQueues(s) PROVE TypeOK'
  <2>1. TurnTypeOK'
    BY <1>3, SessionAssumption, SMTT(30) DEF TurnTypeOK, SteerQueues, Steerable, TurnStates
  <2>2. RestTypeOK'
    BY <1>3 DEF RestTypeOK, SteerQueues, Steerable, TurnTypeOK, Push, Events
  <2> QED
    BY <1>3, <2>1, <2>2, SameType DEF SteerQueues
<1>4. ASSUME NEW s \in Steers, SteerInterrupts(s) PROVE TypeOK'
  <2>1. TurnTypeOK'
    BY <1>4, SessionAssumption DEF TurnTypeOK, SteerInterrupts, Steerable, TurnStates
  <2>2. RestTypeOK'
    BY <1>4 DEF RestTypeOK, SteerInterrupts, Steerable, TurnTypeOK
  <2> QED
    BY <1>4, <2>1, <2>2, SameType DEF SteerInterrupts
<1>5. ASSUME NEW c \in Calls, NEW allow \in BOOLEAN, Decide(c, allow) PROVE TypeOK'
  <2>1. RestTypeOK'
    BY <1>5 DEF RestTypeOK, Decide
  <2> QED
    BY <1>5, <2>1, SameType DEF Decide
<1> QED
  BY <1>1, <1>2, <1>3, <1>4, <1>5 DEF ClientNext

\* The steps of a prompt handler keep the types.
LEMMA PromptType == TypeOK /\ (\E p \in Prompts : PromptNext(p)) => TypeOK'
<1> SUFFICES ASSUME TypeOK, (\E p \in Prompts : PromptNext(p)) PROVE TypeOK'
  OBVIOUS
<1> USE DEF TypeOK
<1>1. ASSUME NEW p \in Prompts, PromptBusy(p) PROVE TypeOK'
  <2>1. ClientTypeOK'
    BY <1>1 DEF ClientTypeOK, PromptBusy, At, Answers
  <2> QED
    BY <1>1, <2>1, SameType DEF PromptBusy
<1>2. ASSUME NEW p \in Prompts, PromptKnown(p) PROVE TypeOK'
  <2>1. ClientTypeOK'
    BY <1>2 DEF ClientTypeOK, PromptKnown, At, Answers
  <2> QED
    BY <1>2, <2>1, SameType DEF PromptKnown
<1>3. ASSUME NEW p \in Prompts, PromptTakesTurn(p) PROVE TypeOK'
  <2>1. ClientTypeOK'
    BY <1>3 DEF ClientTypeOK, PromptTakesTurn, At, Answers
  <2>2. TurnTypeOK'
    BY <1>3 DEF TurnTypeOK, PromptTakesTurn, At, ClientTypeOK, TurnStates, NewTurn, Unused, MessageIds
  <2> QED
    BY <1>3, <2>1, <2>2, SameType DEF PromptTakesTurn
<1>4. ASSUME NEW p \in Prompts, EnsureGeneration(p) PROVE TypeOK'
  <2>1. ClientTypeOK'
    BY <1>4 DEF ClientTypeOK, EnsureGeneration, At, Answers
  <2>2. RestTypeOK'
    BY <1>4 DEF RestTypeOK, EnsureGeneration
  <2> QED
    BY <1>4, <2>1, <2>2, SameType DEF EnsureGeneration
<1>5. ASSUME NEW p \in Prompts, GenerationFails(p) PROVE TypeOK'
  <2>1. ClientTypeOK'
    BY <1>5, FinishType DEF ClientTypeOK, GenerationFails, TurnTypeOK, Answers, At
  <2>2. TurnTypeOK'
    BY <1>5, FinishType DEF TurnTypeOK, GenerationFails, Answers
  <2> QED
    BY <1>5, <2>1, <2>2, SameType DEF GenerationFails
<1>6. ASSUME NEW p \in Prompts, PromptSubmits(p) PROVE TypeOK'
  <2>1. ClientTypeOK'
    BY <1>6 DEF ClientTypeOK, PromptSubmits, At, Answers
  <2>2. HarnessTypeOK'
    BY <1>6, SubmitType DEF HarnessTypeOK, PromptSubmits, SubmitInput, ClientTypeOK, At, MessageIds
  <2> QED
    BY <1>6, <2>1, <2>2, SameType DEF PromptSubmits
<1>7. ASSUME NEW p \in Prompts, PromptSeesCancel(p) PROVE TypeOK'
  <2>1. ClientTypeOK'
    BY <1>7 DEF ClientTypeOK, PromptSeesCancel, At, Answers
  <2> QED
    BY <1>7, <2>1, SameType DEF PromptSeesCancel
<1>8. ASSUME NEW p \in Prompts, PromptMarks(p) PROVE TypeOK'
  <2>1. ClientTypeOK'
    BY <1>8 DEF ClientTypeOK, PromptMarks, At, Answers
  <2>2. TurnTypeOK'
    BY <1>8, MarkType DEF TurnTypeOK, PromptMarks
  <2> QED
    BY <1>8, <2>1, <2>2, SameType DEF PromptMarks
<1>9. ASSUME NEW p \in Prompts, PromptAborts(p) PROVE TypeOK'
  <2>1. ClientTypeOK'
    BY <1>9 DEF ClientTypeOK, PromptAborts, At, Answers
  <2>2. TurnTypeOK'
    BY <1>9, AbortTurnType DEF TurnTypeOK, PromptAborts, AbortTurn
  <2>3. AbortTypeOK'
    BY <1>9, AbortTurnType DEF AbortTypeOK, PromptAborts
  <2> QED
    BY <1>9, <2>1, <2>2, <2>3, SameType DEF PromptAborts
<1>10. ASSUME NEW p \in Prompts, PromptAnswers(p) PROVE TypeOK'
  <2>1. ClientTypeOK'
    BY <1>10 DEF ClientTypeOK, PromptAnswers, At, Answers
  <2> QED
    BY <1>10, <2>1, SameType DEF PromptAnswers
<1> QED
  BY <1>1, <1>2, <1>3, <1>4, <1>5, <1>6, <1>7, <1>8, <1>9, <1>10 DEF PromptNext

\* What abortTurn parks is a set of reasons.
LEMMA AbortParksType ==
    ASSUME TypeOK, NEW p \in Prompts, AbortParks(p)
    PROVE  /\ CallsOf(sync) \cup abort[p].inputs \in SUBSET Reasons
           /\ abort' \in [Prompts -> Aborts]
<1>1. abort[p] \in Aborts
  BY DEF TypeOK, AbortTypeOK
<1>2. CallsOf(sync) \subseteq Reasons
  BY DEF TypeOK, LogTypeOK, MirrorType, CallsOf, Reasons
<1> DEFINE a == [abort[p] EXCEPT !.at = "stop", !.inputs = {}]
<1>3. a \in Aborts
  BY <1>1 DEF Aborts
<1>4. abort' = [abort EXCEPT ![p] = a]
  BY DEF AbortParks
<1> QED
  BY <1>1, <1>2, <1>3, <1>4 DEF Aborts, Reasons, TypeOK, AbortTypeOK

\* The last step of abortTurn keeps the abort's type.
LEMMA AbortEndsType ==
    ASSUME TypeOK, NEW p \in Prompts, AbortStopsOperations(p)
    PROVE  abort' \in [Prompts -> Aborts]
<1> DEFINE a == [abort[p] EXCEPT !.at = "done", !.calls = {}]
<1>1. a \in Aborts
  BY DEF TypeOK, AbortTypeOK, Aborts
<1>2. abort' = [abort EXCEPT ![p] = a]
  BY DEF AbortStopsOperations
<1> QED
  BY <1>1, <1>2 DEF TypeOK, AbortTypeOK

\* The item the actor handles is an item of the log.
LEMMA HandledItemType ==
    ASSUME TypeOK, HandleItem
    PROVE  Head(events).item \in Items
<1>1. Head(events) \in Events /\ Head(events).kind = "item"
  BY DEF TypeOK, RestTypeOK, HandleItem, HandleNext
<1> QED
  BY <1>1 DEF Events

\* Handling an item keeps the turn's type.
LEMMA BookkeepType ==
    ASSUME TypeOK, NEW item \in Items
    PROVE  Bookkeep(item) \in [Prompts -> TurnStates]
<1> USE DEF TypeOK, TurnTypeOK
<1>1. ASSUME live # None
      PROVE  /\ [ts[live] EXCEPT !.unobserved = @ \ {item.id}] \in TurnStates
             /\ [ts[live] EXCEPT !.waitCalls = @ \ {item.call}] \in TurnStates
  BY <1>1 DEF TurnStates
<1> QED
  BY <1>1 DEF Bookkeep

\* The rest of abortTurn, the timers and the notifier keep the types.
LEMMA AbortType == TypeOK /\ AbortSteps => TypeOK'
<1> SUFFICES ASSUME TypeOK, AbortSteps PROVE TypeOK'
  OBVIOUS
<1> USE DEF TypeOK
<1>1. ASSUME NEW p \in Prompts, AbortParks(p) PROVE TypeOK'
  <2>1. GateTypeOK'
    BY <1>1, ParkType, AbortParksType DEF GateTypeOK, AbortParks
  <2>2. AbortTypeOK'
    BY <1>1, AbortParksType DEF AbortTypeOK, AbortParks
  <2> QED
    BY <1>1, <2>1, <2>2, SameType DEF AbortParks
<1>2. ASSUME NEW p \in Prompts, AbortStopsRequest(p) PROVE TypeOK'
  <2>1. GateTypeOK'
    BY <1>2, CancelInflightType DEF GateTypeOK, AbortStopsRequest
  <2>2. AbortTypeOK'
    BY <1>2 DEF AbortTypeOK, AbortStopsRequest, Aborts
  <2> QED
    BY <1>2, <2>1, <2>2, SameType DEF AbortStopsRequest
<1>3. ASSUME NEW p \in Prompts, AbortStopsOperations(p) PROVE TypeOK'
  <2>1. AbortTypeOK'
    BY <1>3, AbortEndsType DEF AbortTypeOK, AbortStopsOperations
  <2>2. RestTypeOK'
    BY <1>3 DEF RestTypeOK, AbortStopsOperations, Push, Events
  <2> QED
    BY <1>3, <2>1, <2>2, SameType DEF AbortStopsOperations
<1>4. ASSUME NEW p \in Prompts, TimerFires(p) PROVE TypeOK'
  <2>1. AbortTypeOK'
    BY <1>4 DEF AbortTypeOK, TimerFires
  <2>2. RestTypeOK'
    BY <1>4 DEF RestTypeOK, TimerFires, AbortTypeOK, Push, Events
  <2> QED
    BY <1>4, <2>1, <2>2, SameType DEF TimerFires
<1>5. CASE NotifierMarks
  <2>1. AbortTypeOK'
    BY <1>5 DEF AbortTypeOK, NotifierMarks
  <2>2. TurnTypeOK'
    BY <1>5, MarkType DEF TurnTypeOK, NotifierMarks
  <2> QED
    BY <1>5, <2>1, <2>2, SameType DEF NotifierMarks
<1>6. CASE NotifierAborts
  <2>1. AbortTypeOK'
    BY <1>6, AbortTurnType DEF AbortTypeOK, NotifierAborts
  <2>2. TurnTypeOK'
    BY <1>6, AbortTurnType DEF TurnTypeOK, NotifierAborts, AbortTurn
  <2> QED
    BY <1>6, <2>1, <2>2, SameType DEF NotifierAborts
<1>7. ASSUME NEW s \in Steers, SteerSubmits(s) PROVE TypeOK'
  <2>1. HarnessTypeOK'
    BY <1>7, SubmitType, SessionAssumption DEF HarnessTypeOK, SteerSubmits, SubmitInput
  <2>2. RestTypeOK'
    BY <1>7 DEF RestTypeOK, SteerSubmits
  <2> QED
    BY <1>7, <2>1, <2>2, SameType DEF SteerSubmits
<1> QED
  BY <1>1, <1>2, <1>3, <1>4, <1>5, <1>6, <1>7 DEF AbortSteps, AbortNext

\* The actor keeps the types.
LEMMA ActorType == TypeOK /\ ActorNext => TypeOK'
<1> SUFFICES ASSUME TypeOK, ActorNext PROVE TypeOK'
  OBVIOUS
<1> USE DEF TypeOK
<1>1. CASE HandleItem
  <2>1. ActorTypeOK'
    BY <1>1, HandledItemType, ApplyType DEF ActorTypeOK, HandleItem, Final, Items
  <2>2. TurnTypeOK'
    BY <1>1, HandledItemType, BookkeepType DEF TurnTypeOK, HandleItem
  <2>3. RestTypeOK'
    BY <1>1 DEF RestTypeOK, HandleItem, HandleNext
  <2> QED
    BY <1>1, <2>1, <2>2, <2>3, SameType DEF HandleItem
<1>2. CASE HandleWake
  <2>1. ActorTypeOK'
    BY <1>2 DEF ActorTypeOK, HandleWake
  <2>2. RestTypeOK'
    BY <1>2 DEF RestTypeOK, HandleWake, HandleNext
  <2> QED
    BY <1>2, <2>1, <2>2, SameType DEF HandleWake
<1>3. CASE HandleModelError
  <2>1. ActorTypeOK'
    BY <1>3 DEF ActorTypeOK, HandleModelError
  <2>2. TurnTypeOK'
    BY <1>3, ZenonT(60) DEF TurnTypeOK, HandleModelError, TurnStates
  <2>3. RestTypeOK'
    BY <1>3 DEF RestTypeOK, HandleModelError, HandleNext
  <2> QED
    BY <1>3, <2>1, <2>2, <2>3, SameType DEF HandleModelError
<1>4. ASSUME NEW p \in Prompts, HandleGrace(p) PROVE TypeOK'
  <2>1. ActorTypeOK'
    BY <1>4 DEF ActorTypeOK, HandleGrace
  <2>2. AbortTypeOK'
    BY <1>4 DEF AbortTypeOK, HandleGrace
  <2>3. RestTypeOK'
    BY <1>4 DEF RestTypeOK, HandleGrace, HandleNext
  <2> QED
    BY <1>4, <2>1, <2>2, <2>3, SameType DEF HandleGrace
<1>5. ASSUME NEW p \in Prompts, HandleFlush(p) PROVE TypeOK'
  <2>1. ActorTypeOK'
    BY <1>5 DEF ActorTypeOK, HandleFlush, TurnTypeOK, TurnStates
  <2>2. TurnTypeOK'
    BY <1>5 DEF TurnTypeOK, HandleFlush, TurnStates
  <2>3. RestTypeOK'
    BY <1>5 DEF RestTypeOK, HandleFlush, HandleNext
  <2> QED
    BY <1>5, <2>1, <2>2, <2>3, SameType DEF HandleFlush
<1>6. CASE ActorAborts
  <2>1. ActorTypeOK'
    BY <1>6 DEF ActorTypeOK, ActorAborts
  <2>2. TurnTypeOK'
    BY <1>6, AbortTurnType DEF TurnTypeOK, ActorAborts, AbortTurn
  <2>3. AbortTypeOK'
    BY <1>6, AbortTurnType DEF AbortTypeOK, ActorAborts
  <2> QED
    BY <1>6, <2>1, <2>2, <2>3, SameType DEF ActorAborts
<1>7. CASE ActorAborted
  <2>1. ActorTypeOK'
    BY <1>7 DEF ActorTypeOK, ActorAborted
  <2> QED
    BY <1>7, <2>1, SameType DEF ActorAborted
<1>8. CASE EvaluateWaits
  <2>1. ActorTypeOK'
    BY <1>8 DEF ActorTypeOK, EvaluateWaits
  <2> QED
    BY <1>8, <2>1, SameType DEF EvaluateWaits
<1>9. CASE EvaluateCancelled
  <2>1. ActorTypeOK'
    BY <1>9 DEF ActorTypeOK, EvaluateCancelled
  <2>2. TurnTypeOK'
    BY <1>9, FinishType DEF TurnTypeOK, EvaluateCancelled, Answers
  <2>3. ClientTypeOK'
    BY <1>9, FinishType DEF ClientTypeOK, EvaluateCancelled, TurnTypeOK, Answers
  <2> QED
    BY <1>9, <2>1, <2>2, <2>3, SameType DEF EvaluateCancelled
<1>10. CASE EvaluateSteers
  <2>1. ActorTypeOK'
    BY <1>10 DEF ActorTypeOK, EvaluateSteers, TurnTypeOK, TurnStates
  <2>2. TurnTypeOK'
    BY <1>10, ZenonT(60) DEF TurnTypeOK, EvaluateSteers, TurnStates
  <2> QED
    BY <1>10, <2>1, <2>2, SameType DEF EvaluateSteers
<1>11. ASSUME NEW s \in Steers, ActorSubmits(s) PROVE TypeOK'
  <2>1. ActorTypeOK'
    BY <1>11 DEF ActorTypeOK, ActorSubmits
  <2>2. HarnessTypeOK'
    BY <1>11, SubmitType, SessionAssumption DEF HarnessTypeOK, ActorSubmits, SubmitInput
  <2> QED
    BY <1>11, <2>1, <2>2, SameType DEF ActorSubmits
<1>12. CASE EvaluateDone
  <2>1. ActorTypeOK'
    BY <1>12 DEF ActorTypeOK, EvaluateDone
  <2>2. TurnTypeOK'
    BY <1>12, FinishType DEF TurnTypeOK, EvaluateDone, Answers
  <2>3. ClientTypeOK'
    BY <1>12, FinishType DEF ClientTypeOK, EvaluateDone, TurnTypeOK, Answers
  <2> QED
    BY <1>12, <2>1, <2>2, <2>3, SameType DEF EvaluateDone
<1> QED
  BY <1>1, <1>2, <1>3, <1>4, <1>5, <1>6, <1>7, <1>8, <1>9, <1>10, <1>11, <1>12 DEF ActorNext

\* The coordinator's own operations keep its types; the ones that append give
\* the observers one item.
LEMMA TakeInputType ==
    ASSUME CoordTypeOK, TakeInput
    PROVE  CoordTypeOK' /\ appended' # <<>>
<1>1. Head(inbox) \in Inputs /\ Tail(inbox) \in Seq(Inputs)
  BY DEF CoordTypeOK, TakeInput
<1>2. InputItem(Head(inbox)) \in Items
  BY <1>1 DEF InputItem, Items
<1> QED
  BY <1>1, <1>2 DEF CoordTypeOK, TakeInput, Reasons

\* Starting a turn appends its item.
LEMMA StartTurnType ==
    ASSUME CoordTypeOK, StartTurn
    PROVE  CoordTypeOK' /\ appended' # <<>>
<1>1. TurnItem(turns + 1) \in Items
  BY DEF CoordTypeOK, TurnItem, Items
<1> QED
  BY <1>1 DEF CoordTypeOK, StartTurn

\* Taking a result appends a response.
LEMMA TakeResultType ==
    ASSUME CoordTypeOK, NEW n \in Nat, NEW calls \in SUBSET Calls, TakeResult(n, calls)
    PROVE  CoordTypeOK' /\ appended' # <<>>
<1>1. ResponseItem(n, calls) \in Items
  BY DEF ResponseItem, Items
<1> QED
  BY <1>1 DEF CoordTypeOK, TakeResult

\* Translating or finishing a call appends its status.
LEMMA StatusType ==
    ASSUME CoordTypeOK, NEW c \in Calls,
           FinishCall(c) \/ \E status \in {"ready", "error"} : TranslateCall(c, status)
    PROVE  CoordTypeOK' /\ appended' # <<>>
<1>1. \A status \in {"ready", "ended", "error"} : StatusItem(c, status) \in Items
  BY DEF StatusItem, Items
<1>2. ASSUME FinishCall(c) PROVE CoordTypeOK' /\ appended' # <<>>
  BY <1>1, <1>2 DEF CoordTypeOK, FinishCall, Reasons
<1>3. ASSUME NEW status \in {"ready", "error"}, TranslateCall(c, status)
      PROVE  CoordTypeOK' /\ appended' # <<>>
  <2>1. running' \subseteq Calls /\ todo' \subseteq Reasons
    BY <1>3 DEF CoordTypeOK, TranslateCall, Reasons
  <2> QED
    BY <1>1, <1>3, <2>1 DEF CoordTypeOK, TranslateCall
<1> QED
  BY <1>2, <1>3

\* The item the observers are given is an item of the log.
LEMMA ObservedItemType ==
    ASSUME CoordTypeOK, appended # <<>>
    PROVE  Head(appended) \in Items
BY DEF CoordTypeOK

\* Going on once the observers have run keeps the types.
LEMMA ObserversDoneType ==
    ASSUME CoordTypeOK, ObserversDone
    PROVE  CoordTypeOK'
<1>1. Head(appended) \in Items
  BY ObservedItemType DEF ObserversDone
<1>2. Head(appended).kind = "status" => Head(appended).call \in Calls
  BY <1>1 DEF Items
<1> QED
  BY <1>2 DEF CoordTypeOK, ObserversDone

\* The mirror inside the observer folds the appended item.
LEMMA FoldedType ==
    ASSUME TypeOK, HarnessTypeOK', appended' # <<>>, Folded
    PROVE  sync' \in MirrorType
<1>1. Head(appended') \in Items
  BY DEF HarnessTypeOK, CoordTypeOK
<1> QED
  BY <1>1, ApplyType DEF Folded, TypeOK, LogTypeOK

\* Indexing an item, in the rest of the observer, keeps the types.
LEMMA IndexType ==
    ASSUME TypeOK, NEW item \in Items, Index(item)
    PROVE  /\ inputs' \subseteq Inputs
           /\ known' \subseteq Calls
           /\ cancelledCalls' \subseteq Calls
           /\ GateTypeOK'
<1> USE DEF TypeOK, LogTypeOK, TurnTypeOK
<1>1. CASE item.kind = "input"
  <2>1. item.id \in Inputs
    BY <1>1 DEF Items
  <2> QED
    BY <1>1, <2>1, SameType DEF Index, IndexInput
<1>2. CASE item.kind = "turn"
  BY <1>2, CallType DEF Index, IndexTurn
<1>3. CASE item.kind = "response"
  <2>1. item.calls \in SUBSET Calls
    BY <1>3 DEF Items
  <2>2. Park(item.calls) => GateTypeOK'
    BY <2>1, ParkType DEF Reasons
  <2> QED
    BY <1>3, <2>1, <2>2, SameType DEF Index, IndexResponse
<1>4. CASE item.kind = "status"
  BY <1>4, SameType DEF Index, IndexStatus
<1> QED
  BY <1>1, <1>2, <1>3, <1>4 DEF Items

\* The coordinator keeps the types.
LEMMA CoordinatorType == TypeOK /\ CoordNext => TypeOK'
<1> SUFFICES ASSUME TypeOK, CoordNext PROVE TypeOK'
  OBVIOUS
<1> USE DEF TypeOK
<1>1. CASE AppendsInput
  <2>1. HarnessTypeOK'
    BY <1>1, TakeInputType DEF HarnessTypeOK, AppendsInput, TakeInput
  <2>2. LogTypeOK'
    BY <1>1, <2>1, TakeInputType, FoldedType DEF LogTypeOK, AppendsInput, HarnessTypeOK
  <2> QED
    BY <1>1, <2>1, <2>2, SameType DEF AppendsInput
<1>2. CASE AppendsTurn
  <2>1. HarnessTypeOK'
    BY <1>2, StartTurnType DEF HarnessTypeOK, AppendsTurn, StartTurn
  <2>2. LogTypeOK'
    BY <1>2, <2>1, StartTurnType, FoldedType DEF LogTypeOK, AppendsTurn, HarnessTypeOK
  <2>3. GateTypeOK'
    BY <1>2, SupersedeType, SameType DEF GateTypeOK, AppendsTurn, HarnessTypeOK
  <2> QED
    BY <1>2, <2>1, <2>2, <2>3, SameType DEF AppendsTurn
<1>3. ASSUME NEW n \in Requests, NEW calls \in SUBSET (Calls \ known), AppendsResponse(n, calls) PROVE TypeOK'
  <2>1. HarnessTypeOK'
    BY <1>3, TakeResultType, SessionAssumption DEF HarnessTypeOK, AppendsResponse, TakeResult
  <2>2. LogTypeOK'
    BY <1>3, <2>1, TakeResultType, FoldedType, SessionAssumption DEF LogTypeOK, AppendsResponse, HarnessTypeOK
  <2> QED
    BY <1>3, <2>1, <2>2, SameType DEF AppendsResponse
<1>4. ASSUME NEW c \in Calls, AppendsStatus(c) PROVE TypeOK'
  <2>1. HarnessTypeOK'
    BY <1>4, StatusType DEF HarnessTypeOK, AppendsStatus, TranslateCall, FinishCall
  <2>2. LogTypeOK'
    BY <1>4, <2>1, StatusType, FoldedType DEF LogTypeOK, AppendsStatus, HarnessTypeOK
  <2> QED
    BY <1>4, <2>1, <2>2, SameType DEF AppendsStatus
<1>5. CASE Observe
  <2>1. HarnessTypeOK'
    BY <1>5, ObserversDoneType DEF HarnessTypeOK, Observe, ObserversDone
  <2>2. LogTypeOK'
    BY <1>5, ObservedItemType, IndexType DEF LogTypeOK, Observe, HarnessTypeOK, ObserversDone
  <2>3. TurnTypeOK'
    BY <1>5, ObservedItemType, IndexType DEF TurnTypeOK, Observe, HarnessTypeOK, ObserversDone
  <2>4. GateTypeOK'
    BY <1>5, ObservedItemType, IndexType DEF GateTypeOK, Observe, HarnessTypeOK, ObserversDone
  <2>5. RestTypeOK'
    BY <1>5, ObservedItemType DEF RestTypeOK, Observe, HarnessTypeOK, ObserversDone, Push, Events
  <2> QED
    BY <1>5, <2>1, <2>2, <2>3, <2>4, <2>5, SameType DEF Observe
<1>6. ASSUME NEW c \in Calls, NEW verdict \in Verdicts, AddsOperation(c, verdict) PROVE TypeOK'
  <2>1. HarnessTypeOK'
    BY <1>6 DEF HarnessTypeOK, AddsOperation, CoordTypeOK, OperationAdded, coordVars
  <2>2. RestTypeOK'
    BY <1>6 DEF RestTypeOK, AddsOperation
  <2> QED
    BY <1>6, <2>1, <2>2, SameType DEF AddsOperation
<1>7. ASSUME NEW c \in Calls, StartsOperation(c) PROVE TypeOK'
  <2>1. HarnessTypeOK'
    BY <1>7 DEF HarnessTypeOK, StartsOperation, CoordTypeOK, OperationAdded, coordVars
  <2>2. RestTypeOK'
    BY <1>7 DEF RestTypeOK, StartsOperation
  <2> QED
    BY <1>7, <2>1, <2>2, SameType DEF StartsOperation
<1> QED
  BY <1>1, <1>2, <1>3, <1>4, <1>5, <1>6, <1>7 DEF CoordNext

\* Respond keeps the types.
LEMMA RequestType == TypeOK /\ (\E n \in Requests : RequestNext(n)) => TypeOK'
<1> SUFFICES ASSUME TypeOK, (\E n \in Requests : RequestNext(n)) PROVE TypeOK'
  OBVIOUS
<1> USE DEF TypeOK
<1>1. ASSUME NEW n \in Requests, Enter(n) PROVE TypeOK'
  <2>1. GateTypeOK'
    BY <1>1, EnterType DEF GateTypeOK, Enter, sessionVars
  <2> QED
    BY <1>1, <2>1, SameType DEF Enter, sessionVars
<1>2. ASSUME NEW n \in Requests, NEW failed \in Failures, RespondReturns(n, failed) PROVE TypeOK'
  <2>1. GateTypeOK'
    BY <1>2, ReturnType DEF GateTypeOK, RespondReturns
  <2>2. RestTypeOK'
    BY <1>2, SMTT(30) DEF RestTypeOK, RespondReturns, Push, Events
  <2> QED
    BY <1>2, <2>1, <2>2, SameType DEF RespondReturns
<1> QED
  BY <1>1, <1>2 DEF RequestNext
\* The initial state has its type.
LEMMA InitType == Init => TypeOK
<1> SUFFICES ASSUME Init PROVE TypeOK
  OBVIOUS
<1> USE DEF Init
<1>1. New \in MirrorType
  BY DEF New, MirrorType
<1>2. HarnessTypeOK
  BY DEF CoordInit, HarnessTypeOK, CoordTypeOK
<1>3. GateTypeOK
  BY DEF GateInit, GateTypeOK, Stages, Outcomes
<1>4. TurnTypeOK
  BY DEF TurnTypeOK, Unused, TurnStates
<1>5. LogTypeOK /\ ActorTypeOK
  BY <1>1 DEF LogTypeOK, ActorTypeOK
<1>6. AbortTypeOK
  BY DEF AbortTypeOK, Aborts
<1>7. ClientTypeOK
  BY DEF ClientTypeOK, Answers
<1>8. RestTypeOK
  <2>1. events \in Seq(Events)
    OBVIOUS
  <2>2. op \in [Calls -> {"none", "held", "admitted", "running", "ended"}]
    OBVIOUS
  <2> QED
    BY <2>1, <2>2 DEF RestTypeOK
<1> QED
  BY <1>2, <1>3, <1>4, <1>5, <1>6, <1>7, <1>8 DEF TypeOK

\* A tool that ends changes its operation only.
LEMMA ToolType == TypeOK /\ (\E c \in Calls : OperationEnds(c)) => TypeOK'
<1> SUFFICES ASSUME TypeOK, NEW c \in Calls, OperationEnds(c) PROVE TypeOK'
  OBVIOUS
<1>1. RestTypeOK'
  BY DEF TypeOK, RestTypeOK, OperationEnds
<1> QED
  BY <1>1, SameType DEF TypeOK, OperationEnds

\* Every step keeps the types.
LEMMA TypeStep == TypeOK /\ [Next]_vars => TypeOK'
<1>1. TypeOK /\ UNCHANGED vars => TypeOK'
  BY SameType DEF TypeOK, vars, sessionVars
<1> QED
  BY <1>1, ClientType, PromptType, AbortType, ActorType, CoordinatorType,
     RequestType, ToolType DEF Next, AbortSteps

\* Type correctness of a session.
THEOREM SessionTypeCorrect == Spec => []TypeOK
BY InitType, TypeStep, PTL DEF Spec

-----------------------------------------------------------------------
(* Every step is one of few, as far as the coordinator's scheduling state, *)
(* the mirror of the log and the Gate are concerned.                       *)

Scheduling == <<todo, current, turns, running, fresh, appended, sync>>

Answering(n) ==
    \/ \E reasons \in SUBSET Reasons :
          EnterMuted(n, reasons) \/ EnterProvider(n, reasons)
    \/ \E failed \in BOOLEAN : Return(n, failed)

Quiet ==
    /\ UNCHANGED Scheduling
    /\ \/ UNCHANGED gateVars
       \/ \E reasons \in SUBSET Reasons : Park(reasons)
       \/ CancelInflight
       \/ \E n \in Requests : Answering(n)

\* Neither the client nor a prompt handler touches them.
LEMMA HandlersAreQuiet ==
    ClientNext \/ (\E p \in Prompts : PromptNext(p)) => Quiet
<1> USE DEF Quiet, Scheduling, coordVars, logVars
<1>1. ASSUME NEW p \in Prompts, NEW id \in MessageIds, SendPrompt(p, id) PROVE Quiet
  BY <1>1 DEF SendPrompt
<1>2. ASSUME NEW how, SendCancel(how) PROVE Quiet
  BY <1>2 DEF SendCancel
<1>3. ASSUME NEW s \in Steers, SteerQueues(s) \/ SteerInterrupts(s) PROVE Quiet
  BY <1>3 DEF SteerQueues, SteerInterrupts
<1>4. ASSUME NEW c \in Calls, NEW allow \in BOOLEAN, Decide(c, allow) PROVE Quiet
  BY <1>4 DEF Decide
<1>5. ASSUME NEW p \in Prompts, PromptBusy(p) \/ PromptKnown(p) \/ PromptTakesTurn(p)
      PROVE  Quiet
  BY <1>5 DEF PromptBusy, PromptKnown, PromptTakesTurn
<1>6. ASSUME NEW p \in Prompts, EnsureGeneration(p) \/ GenerationFails(p)
      PROVE  Quiet
  BY <1>6 DEF EnsureGeneration, GenerationFails
<1>7. ASSUME NEW p \in Prompts, PromptSubmits(p) PROVE Quiet
  BY <1>7 DEF PromptSubmits, SubmitInput
<1>8. ASSUME NEW p \in Prompts,
             PromptSeesCancel(p) \/ PromptMarks(p) \/ PromptAborts(p) \/ PromptAnswers(p)
      PROVE  Quiet
  BY <1>8 DEF PromptSeesCancel, PromptMarks, PromptAborts, PromptAnswers
<1> QED
  BY <1>1, <1>2, <1>3, <1>4, <1>5, <1>6, <1>7, <1>8 DEF ClientNext, PromptNext

\* A cancel parks the Gate and stops its request, and does nothing else here.
LEMMA AbortsAreQuiet == TypeOK /\ AbortSteps => Quiet
<1> SUFFICES ASSUME TypeOK, AbortSteps PROVE Quiet
  OBVIOUS
<1> USE DEF Quiet, Scheduling, coordVars, logVars
<1>1. ASSUME NEW p \in Prompts, AbortParks(p) PROVE Quiet
  <2>1. CallsOf(sync) \cup abort[p].inputs \in SUBSET Reasons
    BY <1>1, AbortParksType
  <2> QED
    BY <1>1, <2>1 DEF AbortParks
<1>2. ASSUME NEW p \in Prompts, AbortStopsRequest(p) PROVE Quiet
  BY <1>2 DEF AbortStopsRequest
<1>3. ASSUME NEW p \in Prompts, AbortStopsOperations(p) \/ TimerFires(p) PROVE Quiet
  BY <1>3 DEF AbortStopsOperations, TimerFires
<1>4. CASE NotifierMarks \/ NotifierAborts
  BY <1>4 DEF NotifierMarks, NotifierAborts
<1>5. ASSUME NEW s \in Steers, SteerSubmits(s) PROVE Quiet
  BY <1>5 DEF SteerSubmits, SubmitInput
<1> QED
  BY <1>1, <1>2, <1>3, <1>4, <1>5 DEF AbortSteps, AbortNext

\* The actor only submits steers.
LEMMA ActorIsQuiet == ActorNext => Quiet
<1> USE DEF Quiet, Scheduling, coordVars, logVars
<1>1. CASE HandleItem \/ HandleWake \/ HandleModelError
  BY <1>1 DEF HandleItem, HandleWake, HandleModelError
<1>2. ASSUME NEW p \in Prompts, HandleGrace(p) \/ HandleFlush(p) PROVE Quiet
  BY <1>2 DEF HandleGrace, HandleFlush
<1>3. CASE ActorAborts \/ ActorAborted \/ EvaluateWaits
  BY <1>3 DEF ActorAborts, ActorAborted, EvaluateWaits
<1>4. CASE EvaluateCancelled \/ EvaluateSteers \/ EvaluateDone
  BY <1>4 DEF EvaluateCancelled, EvaluateSteers, EvaluateDone
<1>5. ASSUME NEW s \in Steers, ActorSubmits(s) PROVE Quiet
  BY <1>5 DEF ActorSubmits, SubmitInput
<1> QED
  BY <1>1, <1>2, <1>3, <1>4, <1>5 DEF ActorNext

\* Requests in Respond, and operations, do not either.
LEMMA WorkIsQuiet ==
    ASSUME TypeOK,
           \/ \E n \in Requests : RequestNext(n)
           \/ \E c \in Calls : OperationEnds(c) \/ StartsOperation(c)
           \/ \E c \in Calls, verdict \in Verdicts : AddsOperation(c, verdict)
    PROVE  Quiet
<1> USE DEF Quiet, Scheduling, coordVars, logVars
<1>1. ASSUME NEW n \in Requests, Enter(n) PROVE Quiet
  <2>1. sync.turnReasons \in SUBSET Reasons
    BY DEF TypeOK, LogTypeOK, MirrorType
  <2> QED
    BY <1>1, <2>1 DEF Enter, sessionVars, Answering
<1>2. ASSUME NEW n \in Requests, NEW failed \in Failures, RespondReturns(n, failed)
      PROVE  Quiet
  BY <1>2, SessionAssumption DEF RespondReturns, Answering
<1>3. ASSUME NEW c \in Calls, OperationEnds(c) \/ StartsOperation(c) PROVE Quiet
  BY <1>3 DEF OperationEnds, StartsOperation, OperationAdded
<1>4. ASSUME NEW c \in Calls, NEW verdict \in Verdicts, AddsOperation(c, verdict)
      PROVE  Quiet
  BY <1>4 DEF AddsOperation, OperationAdded
<1> QED
  BY <1>1, <1>2, <1>3, <1>4 DEF RequestNext

Appends ==
    \/ AppendsInput
    \/ AppendsTurn
    \/ \E n \in Requests, calls \in SUBSET Calls : AppendsResponse(n, calls)
    \/ \E c \in Calls : AppendsStatus(c)

\* What is left: the coordinator appends an item, or its observers run.
LEMMA StepKinds == TypeOK /\ [Next]_vars => Quiet \/ Appends \/ Observe
<1> SUFFICES ASSUME TypeOK, [Next]_vars PROVE Quiet \/ Appends \/ Observe
  OBVIOUS
<1>1. CASE UNCHANGED vars
  BY <1>1 DEF vars, sessionVars, Quiet, Scheduling, coordVars, logVars
<1>2. CASE CoordNext
  BY <1>2, WorkIsQuiet DEF CoordNext, Appends
<1> QED
  BY <1>1, <1>2, HandlersAreQuiet, AbortsAreQuiet, ActorIsQuiet, WorkIsQuiet
     DEF Next, AbortSteps

-----------------------------------------------------------------------
(* The mirror of the log is the coordinator's state.  By itself that is    *)
(* not inductive: a mirror takes only the newest turn's response, and only *)
(* a status of a call it knows, so the coordinator must not read others.   *)

SchedulingInv ==
    /\ fresh \subseteq running
    /\ current \in {0, turns}
    /\ SyncIsTheCoordinator

\* Each append keeps the mirror and the coordinator equal.
LEMMA AppendsScheduling == TypeOK /\ SchedulingInv /\ Appends => SchedulingInv'
<1> SUFFICES ASSUME TypeOK, SchedulingInv, Appends PROVE SchedulingInv'
  OBVIOUS
<1> USE DEF SchedulingInv, SyncIsTheCoordinator
<1>0. sync \in MirrorType /\ turns \in Nat /\ todo \subseteq Reasons /\ running \subseteq Calls
  BY DEF TypeOK, HarnessTypeOK, CoordTypeOK, LogTypeOK
<1>1. CASE AppendsInput
  <2>1. sync' = ApplyInput(sync, Head(inbox))
    BY <1>1 DEF AppendsInput, Folded, TakeInput, Apply, InputItem
  <2> QED
    BY <1>0, <1>1, <2>1 DEF AppendsInput, TakeInput, ApplyInput, MirrorType
<1>2. CASE AppendsTurn
  <2>1. sync' = ApplyTurn(sync, turns + 1)
    BY <1>2 DEF AppendsTurn, Folded, StartTurn, Apply, TurnItem
  <2>2. /\ todo' = {} /\ turns' = turns + 1 /\ current' = turns + 1
        /\ UNCHANGED <<running, fresh>>
    BY <1>2 DEF AppendsTurn, StartTurn
  <2>3. /\ sync'.reasons = {} /\ sync'.inflight = TRUE
        /\ sync'.lastTurn = turns + 1 /\ sync'.outstanding = running
    BY <1>0, <2>1 DEF ApplyTurn, MirrorType
  <2>4. fresh = {} /\ current' # 0
    BY <1>0, <1>2, <2>2 DEF AppendsTurn, StartTurn
  <2>5. SyncIsTheCoordinator'
    BY <2>2, <2>3, <2>4
  <2> QED
    BY <2>2, <2>4, <2>5
<1>3. ASSUME NEW n \in Requests, NEW calls \in SUBSET Calls, AppendsResponse(n, calls)
      PROVE  SchedulingInv'
  <2>1. sync' = ApplyResponse(sync, n, calls)
    BY <1>3 DEF AppendsResponse, Folded, TakeResult, Apply, ResponseItem
  <2>2. n = turns
    BY <1>3, SessionAssumption DEF AppendsResponse, TakeResult
  <2> QED
    BY <1>0, <1>3, <2>1, <2>2 DEF AppendsResponse, TakeResult, ApplyResponse, MirrorType
<1>4. ASSUME NEW c \in Calls, AppendsStatus(c) PROVE SchedulingInv'
  <2>1. CASE FinishCall(c)
    <3>1. sync' = ApplyStatus(sync, c, "ended")
      BY <1>4, <2>1 DEF AppendsStatus, Folded, FinishCall, Apply, StatusItem
    <3>2. c \in sync.outstanding /\ fresh = {}
      BY <2>1 DEF FinishCall
    <3> QED
      BY <1>0, <2>1, <3>1, <3>2 DEF FinishCall, ApplyStatus, MirrorType
  <2>2. ASSUME NEW status \in {"ready", "error"}, TranslateCall(c, status)
        PROVE  SchedulingInv'
    <3>1. sync' = ApplyStatus(sync, c, status)
      BY <1>4, <2>2 DEF AppendsStatus, Folded, TranslateCall, Apply, StatusItem
    <3>2. c \in sync.outstanding
      BY <2>2 DEF TranslateCall
    <3> QED
      BY <1>0, <2>2, <3>1, <3>2 DEF TranslateCall, ApplyStatus, MirrorType
  <2> QED
    BY <1>4, <2>1, <2>2 DEF AppendsStatus
<1> QED
  BY <1>1, <1>2, <1>3, <1>4 DEF Appends

\* Nothing else changes them.
LEMMA SchedulingStep == TypeOK /\ SchedulingInv /\ [Next]_vars => SchedulingInv'
<1> SUFFICES ASSUME TypeOK, SchedulingInv, [Next]_vars PROVE SchedulingInv'
  OBVIOUS
<1>1. CASE Quiet
  BY <1>1 DEF Quiet, Scheduling, SchedulingInv, SyncIsTheCoordinator
<1>2. CASE Observe
  BY <1>2 DEF Observe, ObserversDone, SchedulingInv, SyncIsTheCoordinator
<1> QED
  BY <1>1, <1>2, StepKinds, AppendsScheduling

\* Both replicas start as the coordinator does.
LEMMA InitScheduling == Init => SchedulingInv
<1> SUFFICES ASSUME Init PROVE SchedulingInv
  OBVIOUS
<1>1. sync = New /\ CoordInit
  BY DEF Init
<1>2. SyncIsTheCoordinator
  BY <1>1 DEF New, CoordInit, SyncIsTheCoordinator
<1> QED
  BY <1>1, <1>2 DEF CoordInit, SchedulingInv

\* The mirror the Gate and abortTurn read is the coordinator's own state, for
\* any prompts, steers, calls and requests.
THEOREM SyncFollowsTheCoordinator == Spec => []SyncIsTheCoordinator
<1>1. SchedulingInv => SyncIsTheCoordinator
  BY DEF SchedulingInv
<1>2. Init => TypeOK /\ SchedulingInv
  BY InitType, InitScheduling
<1>3. TypeOK /\ SchedulingInv /\ [Next]_vars => (TypeOK /\ SchedulingInv)'
  BY TypeStep, SchedulingStep
<1> QED
  BY <1>1, <1>2, <1>3, PTL DEF Spec

-----------------------------------------------------------------------
(* The session uses the Gate as GateSpec assumes.  The coordinator replaces *)
(* a request only by starting a turn, and calls Respond for a turn only     *)
(* when the observers of its item have run; so between the two steps the    *)
(* new request is current and no request is live.                           *)

TurnAppended == appended # <<>> /\ Head(appended).kind = "turn"

RequestsInv ==
    /\ \A m \in Requests : m > turns => stage[m] = "idle" /\ m \notin superseded
    /\ \A m \in Requests : Live(m) => m = current
    /\ TurnAppended =>
          /\ Head(appended).turn = current
          /\ current # 0
          /\ stage[current] = "idle" /\ current \notin superseded
    /\ current # 0 /\ ~TurnAppended =>
          stage[current] # "idle" /\ current \notin superseded

\* No request is live at the start.
LEMMA InitRequests == Init => RequestsInv
BY DEF Init, CoordInit, GateInit, RequestsInv, TurnAppended, Live

\* Steps that leave the log alone only take live requests further.
LEMMA QuietRequests == TypeOK /\ RequestsInv /\ Quiet => RequestsInv'
<1> SUFFICES ASSUME TypeOK, RequestsInv, Quiet PROVE RequestsInv'
  OBVIOUS
<1>0. stage \in [Requests -> Stages]
  BY DEF TypeOK, GateTypeOK
<1>1. CASE UNCHANGED <<stage, superseded>>
  BY <1>1 DEF Quiet, Scheduling, RequestsInv, TurnAppended, Live
<1>2. ASSUME NEW n \in Requests, Answering(n) PROVE RequestsInv'
  <2>1. PICK s \in {"provider", "answered"} :
           /\ stage[n] \in {"called", "provider"}
           /\ stage' = [stage EXCEPT ![n] = s]
           /\ superseded' = superseded
    BY <1>2 DEF Answering, EnterMuted, EnterProvider, Return
  <2> QED
    BY <1>0, <2>1 DEF Quiet, Scheduling, RequestsInv, TurnAppended, Live
<1> QED
  BY <1>1, <1>2 DEF Quiet, gateVars, Park, CancelInflight

\* Appending an item supersedes the request in flight when it starts a turn.
LEMMA AppendsRequests ==
    TypeOK /\ SchedulingInv /\ RequestsInv /\ Appends => RequestsInv'
<1> SUFFICES ASSUME TypeOK, SchedulingInv, RequestsInv, Appends PROVE RequestsInv'
  OBVIOUS
<1>0. /\ stage \in [Requests -> Stages] /\ superseded \subseteq Requests
      /\ turns \in Nat /\ current \in {0, turns} /\ Requests \subseteq Nat \ {0}
  BY SessionAssumption DEF TypeOK, GateTypeOK, HarnessTypeOK, CoordTypeOK, SchedulingInv
<1>1. CASE AppendsInput
  <2>1. /\ UNCHANGED <<stage, superseded, turns, current>>
        /\ ~TurnAppended /\ ~TurnAppended'
    BY <1>1 DEF AppendsInput, TakeInput, Free, TurnAppended, InputItem, gateVars
  <2> QED
    BY <2>1 DEF RequestsInv, Live
<1>2. CASE AppendsTurn
  <2>1. /\ ~TurnAppended /\ TurnAppended'
        /\ Head(appended').turn = turns + 1
        /\ turns' = turns + 1 /\ current' = turns + 1 /\ turns + 1 \in Requests
    BY <1>2 DEF AppendsTurn, StartTurn, Free, TurnAppended, TurnItem
  <2>2. /\ stage' = stage
        /\ superseded' = IF current = 0 THEN superseded ELSE superseded \cup {current}
    BY <1>2 DEF AppendsTurn, Supersede, gateVars
  <2>3. \A m \in Requests : ~Live(m)'
    BY <1>0, <2>1, <2>2 DEF RequestsInv, Live
  <2>4. stage[turns + 1] = "idle" /\ turns + 1 \notin superseded'
    BY <1>0, <2>1, <2>2 DEF RequestsInv
  <2>5. \A m \in Requests : m > turns' => stage'[m] = "idle" /\ m \notin superseded'
    BY <1>0, <2>1, <2>2 DEF RequestsInv
  <2> QED
    BY <1>0, <2>1, <2>2, <2>3, <2>4, <2>5 DEF RequestsInv
<1>3. ASSUME NEW n \in Requests, NEW calls \in SUBSET Calls, AppendsResponse(n, calls)
      PROVE  RequestsInv'
  <2>1. /\ UNCHANGED <<stage, superseded, turns>> /\ current' = 0
        /\ ~TurnAppended' /\ current = n /\ stage[n] = "answered"
    BY <1>3 DEF AppendsResponse, TakeResult, TurnAppended, ResponseItem, gateVars
  <2> QED
    BY <2>1 DEF RequestsInv, Live
<1>4. ASSUME NEW c \in Calls, AppendsStatus(c) PROVE RequestsInv'
  <2>1. /\ UNCHANGED <<stage, superseded, turns, current>>
        /\ ~TurnAppended /\ ~TurnAppended'
    BY <1>4 DEF AppendsStatus, TranslateCall, FinishCall, Free, TurnAppended,
       StatusItem, gateVars
  <2> QED
    BY <2>1 DEF RequestsInv, Live
<1> QED
  BY <1>1, <1>2, <1>3, <1>4 DEF Appends

\* When the observers of a turn have run, its request is called.
LEMMA ObserveRequests ==
    TypeOK /\ SchedulingInv /\ RequestsInv /\ Observe => RequestsInv'
<1> SUFFICES ASSUME TypeOK, SchedulingInv, RequestsInv, Observe PROVE RequestsInv'
  OBVIOUS
<1>0. /\ stage \in [Requests -> Stages]
      /\ ~TurnAppended' /\ UNCHANGED <<turns, current>>
      /\ Head(appended) \in Items /\ appended # <<>> /\ Index(Head(appended))
      /\ turns \in Nat
      /\ current \in Requests \cup {0}
  BY ObservedItemType DEF TypeOK, GateTypeOK, HarnessTypeOK, CoordTypeOK, Observe,
     ObserversDone, TurnAppended
<1>1. CASE TurnAppended
  <2>1. Call(current)
    BY <1>0, <1>1 DEF TurnAppended, RequestsInv, Index, IndexTurn
  <2>2. stage' = [stage EXCEPT ![current] = "called"] /\ superseded' = superseded
    BY <2>1 DEF Call
  <2>3. current \in Requests /\ ~(current > turns)
    BY <1>0, <1>1, SessionAssumption DEF RequestsInv, SchedulingInv
  <2> QED
    BY <1>0, <1>1, <2>2, <2>3 DEF RequestsInv, Live
<1>2. CASE ~TurnAppended
  <2>1. UNCHANGED <<stage, superseded>>
    BY <1>0, <1>2 DEF TurnAppended, Items, Index, IndexInput, IndexResponse,
       IndexStatus, Park, gateVars
  <2> QED
    BY <1>0, <1>2, <2>1 DEF RequestsInv, Live
<1> QED
  BY <1>1, <1>2

\* What a session does to the Gate is a step of GateSpec.
LEMMA GateUse ==
    TypeOK /\ SchedulingInv /\ RequestsInv /\ [Next]_vars => [GateNext]_gateVars
<1> SUFFICES ASSUME TypeOK, SchedulingInv, RequestsInv, [Next]_vars
             PROVE  [GateNext]_gateVars
  OBVIOUS
<1>1. CASE Quiet
  BY <1>1 DEF Quiet, Answering, GateNext
<1>2. CASE Appends
  <2>1. CASE AppendsTurn
    <3>1. current # 0 /\ ~TurnAppended => Replace(current) \/ UNCHANGED gateVars
      BY <2>1 DEF RequestsInv, AppendsTurn, Replace
    <3>2. ~TurnAppended /\ current \in Requests \cup {0}
      BY <2>1 DEF AppendsTurn, StartTurn, Free, TurnAppended, TypeOK, HarnessTypeOK
    <3> QED
      BY <2>1, <3>1, <3>2 DEF AppendsTurn, GateNext
  <2>2. CASE ~AppendsTurn
    BY <1>2, <2>2 DEF Appends, AppendsInput, AppendsResponse, AppendsStatus
  <2> QED
    BY <2>1, <2>2
<1>3. CASE Observe
  <2>0. Head(appended) \in Items /\ appended # <<>> /\ Index(Head(appended))
    BY <1>3, ObservedItemType DEF TypeOK, HarnessTypeOK, Observe, ObserversDone
  <2>1. CASE TurnAppended
    <3>1. Call(current) /\ current \in Requests
      BY <2>0, <2>1 DEF TurnAppended, RequestsInv, Index, IndexTurn, TypeOK, HarnessTypeOK
    <3>2. \A m \in Requests : ~Live(m)
      BY <2>1 DEF RequestsInv, Live
    <3> QED
      BY <3>1, <3>2 DEF GateNext, Start
  <2>2. CASE Head(appended).kind = "response"
    <3>1. Head(appended).calls \in SUBSET Reasons
      BY <2>0, <2>2 DEF Items, Reasons
    <3> QED
      BY <2>0, <2>2, <3>1 DEF Index, IndexResponse, GateNext
  <2>3. CASE Head(appended).kind \in {"input", "status"}
    BY <2>0, <2>3 DEF Index, IndexInput, IndexStatus
  <2> QED
    BY <2>0, <2>1, <2>2, <2>3 DEF Items, TurnAppended
<1> QED
  BY <1>1, <1>2, <1>3, StepKinds

SessionInv == TypeOK /\ SchedulingInv /\ RequestsInv

\* The conjunction is inductive.
LEMMA SessionInvariant == Spec => []SessionInv
<1>1. Init => SessionInv
  BY InitType, InitScheduling, InitRequests DEF SessionInv
<1>2. TypeOK /\ SchedulingInv /\ RequestsInv /\ [Next]_vars => RequestsInv'
  BY StepKinds, QuietRequests, AppendsRequests, ObserveRequests
<1>3. SessionInv /\ [Next]_vars => SessionInv'
  BY <1>2, TypeStep, SchedulingStep DEF SessionInv
<1> QED
  BY <1>1, <1>3, PTL DEF Spec

\* Every step of a session is a step of the Gate under a coordinator that keeps
\* to one live request, or leaves the Gate alone.
LEMMA SessionUsesGate == Spec => [][GateNext]_gateVars
<1>1. SessionInv /\ [Next]_vars => [GateNext]_gateVars
  BY GateUse DEF SessionInv
<1> QED
  BY <1>1, SessionInvariant, PTL DEF Spec

\* A session implements the Gate's specification.
THEOREM SessionImplementsGate == Spec => GateSpec
<1>1. Init => GateInit
  BY DEF Init
<1> QED
  BY <1>1, SessionUsesGate, PTL DEF Spec, GateSpec

\* In a session a cancel never hits a request that was already answered.
THEOREM SessionCancelsWhatIsAtTheProvider == Spec => []InflightIsAtProvider
BY SessionImplementsGate, GateCancelsWhatIsAtTheProvider, PTL

\* In a session a request the client stopped is never reported as a failure.
THEOREM SessionStopIsNoFailure == Spec => []StoppedIsNeverAFailure
BY SessionImplementsGate, GateStopIsNoFailure, PTL
=======================================================================

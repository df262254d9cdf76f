--------------------------- MODULE Cancel_proofs ---------------------------
(***************************************************************************)
(* Proofs about the cancel of a session's turn: what it refuses, what it   *)
(* parks, whom it mutes and whom it reports as cancelled; and, of turns    *)
(* that no cancel touches, what their normal end means.                    *)
(***************************************************************************)
EXTENDS Turns_proofs

-----------------------------------------------------------------------
(* As far as cancels are concerned, every step is one of few.              *)

NoCancel ==
    /\ UNCHANGED <<refuseNew, abort>>
    /\ cancelledCalls \subseteq cancelledCalls'
    /\ live' \in {live, None}
    /\ \A p \in Prompts : ts'[p].cancelling = ts[p].cancelling

Marks(thread) ==
    /\ AbortTurn(thread)
    /\ UNCHANGED <<coordVars, gateVars, live, logVars, answer, messageId, asked, steer>>

CancelKind ==
    \/ NoCancel
    \/ \E thread : Marks(thread)
    \/ \E p \in Prompts : PromptTakesTurn(p) \/ AbortNext(p)

\* What the client does is one of these kinds of step.
LEMMA ClientCancelling ==
    TypeOK /\ ClientNext => CancelKind
<1> SUFFICES ASSUME TypeOK, ClientNext PROVE CancelKind
  OBVIOUS
<1>0. ts \in [Prompts -> TurnStates] /\ live \in Prompts \cup {None} /\ None \notin Prompts
  BY SessionAssumption DEF TypeOK, TurnTypeOK
<1> USE DEF CancelKind, NoCancel, turnVars, abortVars
<1>1. ASSUME NEW p \in Prompts, NEW id \in MessageIds, SendPrompt(p, id) PROVE CancelKind
  BY <1>0, <1>1 DEF SendPrompt
<1>2. ASSUME NEW how, SendCancel(how) PROVE CancelKind
  BY <1>0, <1>2 DEF SendCancel
<1>3. ASSUME NEW s \in Steers, SteerQueues(s) PROVE CancelKind
  BY <1>0, <1>3 DEF SteerQueues, Steerable, TurnStates
<1>4. ASSUME NEW s \in Steers, SteerInterrupts(s) PROVE CancelKind
  BY <1>0, <1>4 DEF SteerInterrupts, Steerable, TurnStates
<1>5. ASSUME NEW c \in Calls, NEW allow \in BOOLEAN, Decide(c, allow) PROVE CancelKind
  BY <1>0, <1>5 DEF Decide
<1> QED
  BY <1>1, <1>2, <1>3, <1>4, <1>5 DEF ClientNext

\* A prompt handler is one of these kinds of step.
LEMMA PromptCancelling ==
    TypeOK /\ (\E p \in Prompts : PromptNext(p)) => CancelKind
<1> SUFFICES ASSUME TypeOK, (\E p \in Prompts : PromptNext(p)) PROVE CancelKind
  OBVIOUS
<1>0. ts \in [Prompts -> TurnStates] /\ live \in Prompts \cup {None} /\ None \notin Prompts
  BY SessionAssumption DEF TypeOK, TurnTypeOK
<1> USE DEF CancelKind, NoCancel, turnVars, abortVars
<1>1. ASSUME NEW p \in Prompts, PromptBusy(p) PROVE CancelKind
  BY <1>0, <1>1 DEF PromptBusy
<1>2. ASSUME NEW p \in Prompts, PromptKnown(p) PROVE CancelKind
  BY <1>0, <1>2 DEF PromptKnown
<1>3. ASSUME NEW p \in Prompts, PromptTakesTurn(p) PROVE CancelKind
  BY <1>3
<1>4. ASSUME NEW p \in Prompts, EnsureGeneration(p) PROVE CancelKind
  BY <1>0, <1>4 DEF EnsureGeneration
<1>5. ASSUME NEW p \in Prompts, GenerationFails(p) PROVE CancelKind
  <2>1. CASE ts[p].finished
    BY <1>0, <1>5, <2>1 DEF GenerationFails
  <2>2. CASE ~ts[p].finished
    <3>1. Finish(p, ts[p], "error") /\ UNCHANGED <<refuseNew, cancelledCalls, abort>>
      BY <1>5, <2>2 DEF GenerationFails
    <3>2. live' = None /\ \A q \in Prompts : ts'[q].cancelling = ts[q].cancelling
      BY <3>1, FinishFacts
    <3> QED
      BY <3>1, <3>2
  <2> QED
    BY <2>1, <2>2
<1>6. ASSUME NEW p \in Prompts, PromptSubmits(p) PROVE CancelKind
  BY <1>0, <1>6 DEF PromptSubmits
<1>7. ASSUME NEW p \in Prompts, PromptSeesCancel(p) PROVE CancelKind
  BY <1>0, <1>7 DEF PromptSeesCancel
<1>8. ASSUME NEW p \in Prompts, PromptMarks(p) PROVE CancelKind
  BY <1>0, <1>8 DEF PromptMarks, MarkCancelled, TurnStates
<1>9. ASSUME NEW p \in Prompts, PromptAborts(p) PROVE CancelKind
  BY <1>9 DEF Marks, clientVars, PromptAborts
<1>10. ASSUME NEW p \in Prompts, PromptAnswers(p) PROVE CancelKind
  BY <1>0, <1>10 DEF PromptAnswers
<1> QED
  BY <1>1, <1>2, <1>3, <1>4, <1>5, <1>6, <1>7, <1>8, <1>9, <1>10 DEF PromptNext

\* The rest of an abort, the timers and the notifier is one of these kinds of step.
LEMMA AbortCancelling ==
    TypeOK /\ AbortSteps => CancelKind
<1> SUFFICES ASSUME TypeOK, AbortSteps PROVE CancelKind
  OBVIOUS
<1>0. ts \in [Prompts -> TurnStates] /\ live \in Prompts \cup {None} /\ None \notin Prompts
  BY SessionAssumption DEF TypeOK, TurnTypeOK
<1> USE DEF CancelKind, NoCancel, turnVars, abortVars
<1>1. ASSUME NEW p \in Prompts, AbortParks(p) PROVE CancelKind
  BY <1>0, <1>1 DEF AbortParks, AbortNext
<1>2. ASSUME NEW p \in Prompts, AbortStopsRequest(p) PROVE CancelKind
  BY <1>0, <1>2 DEF AbortStopsRequest, AbortNext
<1>3. ASSUME NEW p \in Prompts, AbortStopsOperations(p) PROVE CancelKind
  BY <1>0, <1>3 DEF AbortStopsOperations, AbortNext
<1>4. ASSUME NEW p \in Prompts, TimerFires(p) PROVE CancelKind
  BY <1>0, <1>4 DEF TimerFires
<1>5. CASE NotifierMarks
  BY <1>0, <1>5 DEF NotifierMarks, MarkCancelled, TurnStates
<1>6. CASE NotifierAborts
  BY <1>6 DEF Marks, clientVars, NotifierAborts
<1>7. ASSUME NEW s \in Steers, SteerSubmits(s) PROVE CancelKind
  BY <1>0, <1>7 DEF SteerSubmits
<1> QED
  BY <1>1, <1>2, <1>3, <1>4, <1>5, <1>6, <1>7 DEF AbortSteps, AbortNext

\* The actor is one of these kinds of step.
LEMMA ActorCancelling ==
    TypeOK /\ ActorNext => CancelKind
<1> SUFFICES ASSUME TypeOK, ActorNext PROVE CancelKind
  OBVIOUS
<1>0. ts \in [Prompts -> TurnStates] /\ live \in Prompts \cup {None} /\ None \notin Prompts
  BY SessionAssumption DEF TypeOK, TurnTypeOK
<1> USE DEF CancelKind, NoCancel, turnVars, abortVars
<1>1. CASE HandleItem
  BY <1>0, <1>1 DEF HandleItem, Bookkeep, TurnStates
<1>2. CASE HandleWake
  BY <1>0, <1>2 DEF HandleWake
<1>3. CASE HandleModelError
  BY <1>0, <1>3 DEF HandleModelError, TurnStates
<1>4. ASSUME NEW p \in Prompts, HandleGrace(p) PROVE CancelKind
  BY <1>0, <1>4 DEF HandleGrace
<1>5. ASSUME NEW p \in Prompts, HandleFlush(p) PROVE CancelKind
  BY <1>0, <1>5 DEF HandleFlush, TurnStates
<1>6. CASE ActorAborts
  BY <1>6 DEF Marks, clientVars, ActorAborts
<1>7. CASE ActorAborted
  BY <1>0, <1>7 DEF ActorAborted
<1>8. CASE EvaluateWaits
  BY <1>0, <1>8 DEF EvaluateWaits
<1>9. CASE EvaluateCancelled
  <2>1. live \in Prompts /\ Finish(live, ts[live], "error")
        /\ UNCHANGED <<refuseNew, cancelledCalls, abort>>
    BY <1>0, <1>9 DEF EvaluateCancelled
  <2>2. live' = None /\ \A p \in Prompts : ts'[p].cancelling = ts[p].cancelling
    BY <2>1, FinishFacts
  <2> QED
    BY <2>1, <2>2
<1>10. CASE EvaluateSteers
  BY <1>0, <1>10 DEF EvaluateSteers, TurnStates
<1>11. CASE EvaluateDone
  <2>1. live \in Prompts /\ Finish(live, ts[live], IF ts[live].err THEN "error" ELSE "end_turn")
        /\ UNCHANGED <<refuseNew, cancelledCalls, abort>>
    BY <1>0, <1>11 DEF EvaluateDone
  <2>2. live' = None /\ \A p \in Prompts : ts'[p].cancelling = ts[p].cancelling
    BY <2>1, FinishFacts
  <2> QED
    BY <2>1, <2>2
<1>12. ASSUME NEW s \in Steers, ActorSubmits(s) PROVE CancelKind
  BY <1>0, <1>12 DEF ActorSubmits
<1> QED
  BY <1>1, <1>2, <1>3, <1>4, <1>5, <1>6, <1>7, <1>8, <1>9, <1>10, <1>11, <1>12 DEF ActorNext

\* The coordinator is one of these kinds of step.
LEMMA CoordCancelling ==
    TypeOK /\ CoordNext => CancelKind
<1> SUFFICES ASSUME TypeOK, CoordNext PROVE CancelKind
  OBVIOUS
<1>0. ts \in [Prompts -> TurnStates] /\ live \in Prompts \cup {None} /\ None \notin Prompts
  BY SessionAssumption DEF TypeOK, TurnTypeOK
<1> USE DEF CancelKind, NoCancel, turnVars, abortVars
<1>1. CASE AppendsInput
  BY <1>0, <1>1 DEF AppendsInput
<1>2. CASE AppendsTurn
  BY <1>0, <1>2 DEF AppendsTurn
<1>3. ASSUME NEW n \in Requests, NEW calls \in SUBSET (Calls \ known), AppendsResponse(n, calls) PROVE CancelKind
  BY <1>0, <1>3 DEF AppendsResponse
<1>4. ASSUME NEW c \in Calls, AppendsStatus(c) PROVE CancelKind
  BY <1>0, <1>4 DEF AppendsStatus
<1>5. CASE Observe
  <2>1. Head(appended) \in Items
    BY <1>5, ObservedItemType DEF TypeOK, HarnessTypeOK, Observe, ObserversDone
  <2> QED
    BY <1>0, <1>5, <2>1 DEF Observe, Index, IndexInput, IndexTurn, IndexResponse, IndexStatus, Items
<1>6. ASSUME NEW c \in Calls, NEW verdict \in Verdicts, AddsOperation(c, verdict) PROVE CancelKind
  BY <1>0, <1>6 DEF AddsOperation
<1>7. ASSUME NEW c \in Calls, StartsOperation(c) PROVE CancelKind
  BY <1>0, <1>7 DEF StartsOperation
<1> QED
  BY <1>1, <1>2, <1>3, <1>4, <1>5, <1>6, <1>7 DEF CoordNext

\* A request in Respond is one of these kinds of step.
LEMMA RequestCancelling ==
    TypeOK /\ (\E n \in Requests : RequestNext(n)) => CancelKind
<1> SUFFICES ASSUME TypeOK, (\E n \in Requests : RequestNext(n)) PROVE CancelKind
  OBVIOUS
<1>0. ts \in [Prompts -> TurnStates] /\ live \in Prompts \cup {None} /\ None \notin Prompts
  BY SessionAssumption DEF TypeOK, TurnTypeOK
<1> USE DEF CancelKind, NoCancel, turnVars, abortVars
<1>1. ASSUME NEW n \in Requests, Enter(n) PROVE CancelKind
  BY <1>0, <1>1 DEF Enter, sessionVars
<1>2. ASSUME NEW n \in Requests, NEW failed \in Failures, RespondReturns(n, failed) PROVE CancelKind
  BY <1>0, <1>2 DEF RespondReturns
<1> QED
  BY <1>1, <1>2 DEF RequestNext

\* A tool that ends is one of these kinds of step.
LEMMA ToolCancelling ==
    TypeOK /\ (\E c \in Calls : OperationEnds(c)) => CancelKind
<1> SUFFICES ASSUME TypeOK, NEW c \in Calls, OperationEnds(c) PROVE CancelKind
  OBVIOUS
<1>0. ts \in [Prompts -> TurnStates] /\ live \in Prompts \cup {None} /\ None \notin Prompts
  BY SessionAssumption DEF TypeOK, TurnTypeOK
<1> USE DEF CancelKind, NoCancel, turnVars, abortVars
<1> QED
  BY <1>0 DEF OperationEnds

\* Every step is one of these kinds.
LEMMA CancelKinds == TypeOK /\ [Next]_vars => CancelKind
<1> SUFFICES ASSUME TypeOK, [Next]_vars PROVE CancelKind
  OBVIOUS
<1>1. CASE UNCHANGED vars
  BY <1>1 DEF vars, sessionVars, turnVars, abortVars, CancelKind, NoCancel
<1> QED
  BY <1>1, ClientCancelling, PromptCancelling, AbortCancelling, ActorCancelling, CoordCancelling, RequestCancelling, ToolCancelling DEF Next, AbortSteps

-----------------------------------------------------------------------
(* What a cancelled turn refuses.  A call of the turn is running when the  *)
(* turn is cancelled, and then in cancelledCalls; or it comes with a       *)
(* response that raced the cancel, and its observers add it.               *)

Admits ==
    /\ adding' \subseteq adding \/ Observe
    /\ \A c \in Calls : op[c] = "none" /\ op'[c] # "none" =>
          \E verdict \in Verdicts : AddsOperation(c, verdict)
    /\ \A c \in Calls : op'[c] = "held" => op[c] \in {"none", "held"}

\* Only the observers of a status, and ops.Manager.Add, start an operation.
LEMMA AdmitsKinds == TypeOK /\ [Next]_vars => Admits
<1> SUFFICES ASSUME TypeOK, [Next]_vars PROVE Admits
  OBVIOUS
<1>0. op \in [Calls -> {"none", "held", "admitted", "running", "ended"}]
  BY DEF TypeOK, RestTypeOK
<1> USE DEF Admits, coordVars
<1>1. CASE UNCHANGED vars
  BY <1>1 DEF vars, sessionVars
<1>2. CASE ClientNext
  BY <1>0, <1>2 DEF ClientNext, SendPrompt, SendCancel, SteerQueues, SteerInterrupts, Decide
<1>3. ASSUME NEW p \in Prompts, PromptNext(p) PROVE Admits
  BY <1>3 DEF PromptNext, PromptBusy, PromptKnown, PromptTakesTurn, EnsureGeneration,
     GenerationFails, PromptSubmits, SubmitInput, PromptSeesCancel, PromptMarks, PromptAborts,
     PromptAnswers
<1>4. CASE AbortSteps
  BY <1>0, <1>4 DEF AbortSteps, AbortNext, AbortParks, AbortStopsRequest, AbortStopsOperations,
     TimerFires, NotifierMarks, NotifierAborts, SteerSubmits, SubmitInput
<1>5. CASE ActorNext
  BY <1>5 DEF ActorNext, HandleItem, HandleWake, HandleModelError, HandleGrace, HandleFlush,
     ActorAborts, ActorAborted, EvaluateWaits, EvaluateCancelled, EvaluateSteers, EvaluateDone,
     ActorSubmits, SubmitInput
<1>6. CASE Appends
  BY <1>6 DEF Appends, AppendsInput, TakeInput, AppendsTurn, StartTurn, AppendsResponse,
     TakeResult, AppendsStatus, TranslateCall, FinishCall
<1>7. CASE Observe
  BY <1>7 DEF Observe
<1>8. ASSUME NEW c \in Calls, NEW verdict \in Verdicts, AddsOperation(c, verdict) PROVE Admits
  BY <1>0, <1>8 DEF AddsOperation, OperationAdded
<1>9. ASSUME NEW c \in Calls, StartsOperation(c) \/ OperationEnds(c) PROVE Admits
  BY <1>0, <1>9 DEF StartsOperation, OperationEnds, OperationAdded
<1>10. ASSUME NEW n \in Requests, RequestNext(n) PROVE Admits
  BY <1>10 DEF RequestNext, Enter, RespondReturns, sessionVars
<1> QED
  BY <1>1, <1>2, <1>3, <1>4, <1>5, <1>6, <1>7, <1>8, <1>9, <1>10 DEF Next, CoordNext, AbortSteps, Appends

Observing == IF appended # <<>> /\ Head(appended).kind = "response"
             THEN Head(appended).calls ELSE {}

AddingInv ==
    /\ adding \subseteq running
    /\ adding # {} => appended = <<>>
    /\ appended # <<>> /\ Head(appended).kind = "response" => fresh = Head(appended).calls
    /\ appended # <<>> /\ Head(appended).kind = "status" /\ Head(appended).status = "ready"
          => Head(appended).call \in running

RefusedInv ==
    live # None /\ ts[live].cancelling =>
        refuseNew /\ running \ Observing \subseteq cancelledCalls

\* The call whose operation is being added is running.
LEMMA AddingStep == TypeOK /\ SchedulingInv /\ AddingInv /\ [Next]_vars => AddingInv'
<1> SUFFICES ASSUME TypeOK, SchedulingInv, AddingInv, [Next]_vars PROVE AddingInv'
  OBVIOUS
<1> USE DEF AddingInv
<1>1. CASE Quiet /\ ~Observe
  BY <1>1, AdmitsKinds DEF Quiet, Scheduling, Admits
<1>2. CASE Observe
  BY <1>2 DEF Observe, ObserversDone
<1>3. CASE AppendsInput \/ AppendsTurn
  BY <1>3 DEF AppendsInput, TakeInput, AppendsTurn, StartTurn, Free, InputItem, TurnItem
<1>4. ASSUME NEW n \in Requests, NEW calls \in SUBSET Calls, AppendsResponse(n, calls)
      PROVE  AddingInv'
  BY <1>4 DEF AppendsResponse, TakeResult, Free, ResponseItem
<1>5. ASSUME NEW c \in Calls, AppendsStatus(c) PROVE AddingInv'
  BY <1>5 DEF AppendsStatus, TranslateCall, FinishCall, Free, StatusItem, SchedulingInv
<1> QED
  BY <1>1, <1>2, <1>3, <1>4, <1>5, StepKinds DEF Appends

\* The running calls of a cancelled turn are refused, but for those whose
\* response is being observed.
LEMMA RefusedStep ==
    TypeOK /\ SchedulingInv /\ AddingInv /\ RefusedInv /\ [Next]_vars => RefusedInv'
<1> SUFFICES ASSUME TypeOK, SchedulingInv, AddingInv, RefusedInv, [Next]_vars
             PROVE  RefusedInv'
  OBVIOUS
<1>0. live \in Prompts \cup {None} /\ None \notin Prompts /\ sync.outstanding = running
  BY SessionAssumption DEF TypeOK, TurnTypeOK, SchedulingInv, SyncIsTheCoordinator
<1>1. ASSUME NEW thread, Marks(thread) PROVE RefusedInv'
  <2>1. UNCHANGED <<live, running, appended>>
    BY <1>1 DEF Marks, coordVars
  <2> QED
    BY <1>0, <1>1, <2>1, AbortTurnFacts DEF Marks, RefusedInv, Observing
<1>2. ASSUME NEW p \in Prompts, PromptTakesTurn(p) PROVE RefusedInv'
  BY <1>2, TakesTurnFacts DEF RefusedInv
<1>3. ASSUME NEW p \in Prompts, AbortNext(p) PROVE RefusedInv'
  BY <1>3 DEF AbortNext, AbortParks, AbortStopsRequest, AbortStopsOperations, turnVars, coordVars,
     RefusedInv, Observing
<1>4. CASE NoCancel
  <2> SUFFICES ASSUME live' # None, ts'[live'].cancelling
               PROVE  refuseNew' /\ running' \ Observing' \subseteq cancelledCalls'
    BY DEF RefusedInv
  <2>1. /\ live' = live /\ ts[live].cancelling /\ refuseNew' /\ cancelledCalls \subseteq cancelledCalls'
        /\ running \ Observing \subseteq cancelledCalls /\ refuseNew
    BY <1>0, <1>4 DEF NoCancel, RefusedInv
  <2>2. CASE Quiet
    BY <2>1, <2>2 DEF Quiet, Scheduling, Observing
  <2>3. CASE Observe
    <3>1. Head(appended) \in Items /\ appended' = <<>> /\ running' = running /\ appended # <<>>
      BY <2>3, ObserveInputs
    <3>2. Observing \subseteq cancelledCalls'
      BY <2>1, <2>3, <3>1 DEF Observe, Index, IndexResponse, Observing
    <3> QED
      BY <2>1, <3>1, <3>2 DEF Observing
  <2>4. CASE Appends
    <3>1. Observing = {} /\ running' \subseteq running \cup Observing'
      BY <2>4 DEF Appends, AppendsInput, TakeInput, AppendsTurn, StartTurn, AppendsResponse,
         TakeResult, AppendsStatus, TranslateCall, FinishCall, Free, Observing, ResponseItem
    <3> QED
      BY <2>1, <3>1
  <2> QED
    BY <2>2, <2>3, <2>4, StepKinds
<1> QED
  BY <1>1, <1>2, <1>3, <1>4, CancelKinds DEF CancelKind

\* Nothing is added or cancelled at the start.
LEMMA InitRefused == Init => AddingInv /\ RefusedInv
BY DEF Init, CoordInit, AddingInv, RefusedInv

\* For any prompts, steers, calls and requests: the policy lets no tool call
\* through while its turn is being cancelled.
THEOREM CancelledTurnIsRefused == Spec => PolicyRefusesWhileCancelling
<1> DEFINE Inv == SessionInv /\ AddingInv /\ RefusedInv
<1>1. Init => Inv
  BY InitType, InitScheduling, InitRequests, InitRefused DEF SessionInv
<1>2. Inv /\ [Next]_vars => (AddingInv /\ RefusedInv)'
  BY AddingStep, RefusedStep DEF SessionInv
<1>3. ASSUME Inv, [Next]_vars, NEW c \in Calls, op[c] = "none", op'[c] \in {"held", "admitted"}
      PROVE  live = None \/ ~ts[live].cancelling
  <2>1. PICK verdict \in Verdicts : AddsOperation(c, verdict)
    BY <1>3, AdmitsKinds DEF SessionInv, Admits
  <2>2. adding = {c} /\ c \notin cancelledCalls
    BY <1>3, <2>1 DEF AddsOperation, SessionInv, TypeOK, RestTypeOK
  <2>3. c \in running /\ Observing = {}
    BY <1>3, <2>2 DEF AddingInv, Observing
  <2> QED
    BY <1>3, <2>2, <2>3 DEF RefusedInv
<1>4. Inv /\ [Next]_vars => \A c \in Calls :
          op[c] = "none" /\ op'[c] \in {"held", "admitted"} => live = None \/ ~ts[live].cancelling
  BY <1>3
<1> QED
  BY <1>1, <1>2, <1>4, SessionInvariant, PTL DEF Spec, PolicyRefusesWhileCancelling

-----------------------------------------------------------------------
(* What a cancel leaves of the calls that wait for approval.  They are     *)
(* those whose operations the mirror knows: abortTurn has them all.        *)

WaitingInv ==
    /\ running \ Observing \subseteq known
    /\ sync.waiting \subseteq running
    /\ fresh \cap sync.waiting = {}
    /\ adding \subseteq sync.waiting
    /\ appended # <<>> /\ Head(appended).kind = "status" /\ Head(appended).status = "ready"
          => Head(appended).call \in sync.waiting
    /\ \A c \in Calls : op[c] = "held" => c \in sync.waiting

HeldInv ==
    live # None /\ ts[live].cancelling =>
        \A c \in Calls : op[c] = "held" =>
            abort[live].at \in {"park", "stop", "ops"} /\ c \in abort[live].calls

NewCalls ==
    /\ known \subseteq known'
    /\ \/ UNCHANGED <<running, fresh>> \/ AppendsInput \/ AppendsTurn
       \/ \E c \in Calls : AppendsStatus(c)
       \/ \E n \in Requests, calls \in SUBSET (Calls \ known) : AppendsResponse(n, calls)

\* The runtime forgets no call, and only a response brings calls, new ones.
LEMMA NewCallsKinds == TypeOK /\ [Next]_vars => NewCalls
<1> SUFFICES ASSUME TypeOK, [Next]_vars PROVE NewCalls
  OBVIOUS
<1> USE DEF NewCalls, coordVars, logVars
<1>1. CASE UNCHANGED vars
  BY <1>1 DEF vars, sessionVars
<1>2. CASE ClientNext
  BY <1>2 DEF ClientNext, SendPrompt, SendCancel, SteerQueues, SteerInterrupts, Decide
<1>3. ASSUME NEW p \in Prompts, PromptNext(p) PROVE NewCalls
  BY <1>3 DEF PromptNext, PromptBusy, PromptKnown, PromptTakesTurn, EnsureGeneration,
     GenerationFails, PromptSubmits, SubmitInput, PromptSeesCancel, PromptMarks, PromptAborts,
     PromptAnswers
<1>4. CASE AbortSteps
  BY <1>4 DEF AbortSteps, AbortNext, AbortParks, AbortStopsRequest, AbortStopsOperations,
     TimerFires, NotifierMarks, NotifierAborts, SteerSubmits, SubmitInput
<1>5. CASE ActorNext
  BY <1>5 DEF ActorNext, HandleItem, HandleWake, HandleModelError, HandleGrace, HandleFlush,
     ActorAborts, ActorAborted, EvaluateWaits, EvaluateCancelled, EvaluateSteers, EvaluateDone,
     ActorSubmits, SubmitInput
<1>6. CASE CoordNext
  <2>1. CASE Observe
    <3>1. Head(appended) \in Items
      BY <2>1, ObservedItemType DEF TypeOK, HarnessTypeOK, Observe, ObserversDone
    <3> QED
      BY <2>1, <3>1 DEF Observe, ObserversDone, Index, IndexInput, IndexTurn, IndexResponse,
         IndexStatus, Items
  <2>2. CASE AppendsInput \/ AppendsTurn
    BY <2>2 DEF AppendsInput, AppendsTurn
  <2>3. ASSUME NEW c \in Calls, AppendsStatus(c) PROVE NewCalls
    BY <2>3 DEF AppendsStatus
  <2>4. ASSUME NEW n \in Requests, NEW calls \in SUBSET (Calls \ known), AppendsResponse(n, calls)
        PROVE  NewCalls
    BY <2>4 DEF AppendsResponse
  <2>5. ASSUME NEW c \in Calls, NEW verdict \in Verdicts, AddsOperation(c, verdict) PROVE NewCalls
    BY <2>5 DEF AddsOperation, OperationAdded
  <2>6. ASSUME NEW c \in Calls, StartsOperation(c) PROVE NewCalls
    BY <2>6 DEF StartsOperation, OperationAdded
  <2> QED
    BY <1>6, <2>1, <2>2, <2>3, <2>4, <2>5, <2>6 DEF CoordNext
<1>7. ASSUME NEW c \in Calls, OperationEnds(c) PROVE NewCalls
  BY <1>7 DEF OperationEnds
<1>8. ASSUME NEW n \in Requests, RequestNext(n) PROVE NewCalls
  BY <1>8 DEF RequestNext, Enter, RespondReturns, sessionVars
<1> QED
  BY <1>1, <1>2, <1>3, <1>4, <1>5, <1>6, <1>7, <1>8 DEF Next, AbortSteps

\* A call waits for approval only once its operations are known.
LEMMA WaitingStep ==
    TypeOK /\ SchedulingInv /\ AddingInv /\ WaitingInv /\ [Next]_vars => WaitingInv'
<1> SUFFICES ASSUME TypeOK, SchedulingInv, AddingInv, WaitingInv, [Next]_vars
             PROVE  WaitingInv'
  OBVIOUS
<1>0. /\ sync \in MirrorType /\ sync.outstanding = running /\ fresh \subseteq running
      /\ Admits /\ NewCalls
  BY AdmitsKinds, NewCallsKinds DEF TypeOK, LogTypeOK, SchedulingInv, SyncIsTheCoordinator
<1>1. CASE Quiet /\ ~Observe
  <2>1. UNCHANGED <<running, fresh, appended, sync>> /\ adding' \subseteq adding
    BY <1>0, <1>1 DEF Quiet, Scheduling, Admits
  <2>2. ASSUME NEW c \in Calls, op'[c] = "held" PROVE c \in sync.waiting
    <3>1. CASE op[c] = "held"
      BY <3>1 DEF WaitingInv
    <3>2. CASE op[c] # "held"
      <4>1. PICK verdict \in Verdicts : AddsOperation(c, verdict)
        BY <1>0, <2>2, <3>2 DEF Admits
      <4> QED
        BY <4>1 DEF AddsOperation, WaitingInv
    <3> QED
      BY <3>1, <3>2
  <2> QED
    BY <1>0, <2>1, <2>2 DEF WaitingInv, Observing, NewCalls
<1>2. CASE Observe
  <2>1. /\ UNCHANGED <<running, fresh, sync, op>> /\ appended' = <<>> /\ appended # <<>>
        /\ Head(appended) \in Items /\ Index(Head(appended))
        /\ adding' = IF Head(appended).kind = "status" /\ Head(appended).status = "ready"
                     THEN {Head(appended).call} ELSE {}
    BY <1>2, ObserveInputs DEF Observe, ObserversDone
  <2>2. Observing \subseteq known'
    BY <2>1 DEF Observing, Index, IndexResponse
  <2> QED
    BY <1>0, <2>1, <2>2 DEF WaitingInv, Observing, NewCalls
<1>3. CASE Appends
  <2>0. adding = {} /\ adding' = {} /\ Observing = {} /\ op' = op /\ known' = known
    BY <1>3 DEF Appends, AppendsInput, TakeInput, AppendsTurn, StartTurn, AppendsResponse,
       TakeResult, AppendsStatus, TranslateCall, FinishCall, Free, Observing
  <2>1. CASE AppendsInput
    <3>1. /\ sync' = ApplyInput(sync, Head(inbox)) /\ UNCHANGED <<running, fresh>>
          /\ appended' = <<InputItem(Head(inbox))>>
      BY <2>1 DEF AppendsInput, Folded, TakeInput, Apply, InputItem
    <3>2. sync'.waiting = sync.waiting
      BY <1>0, <3>1 DEF ApplyInput, MirrorType
    <3> QED
      BY <2>0, <3>1, <3>2 DEF WaitingInv, Observing, InputItem
  <2>2. CASE AppendsTurn
    <3>1. /\ sync' = ApplyTurn(sync, turns + 1) /\ UNCHANGED <<running, fresh>>
          /\ appended' = <<TurnItem(turns + 1)>>
      BY <2>2 DEF AppendsTurn, Folded, StartTurn, Apply, TurnItem
    <3>2. sync'.waiting = sync.waiting
      BY <1>0, <3>1 DEF ApplyTurn, MirrorType
    <3> QED
      BY <2>0, <3>1, <3>2 DEF WaitingInv, Observing, TurnItem
  <2>3. ASSUME NEW n \in Requests, NEW calls \in SUBSET Calls, AppendsResponse(n, calls)
        PROVE  WaitingInv'
    <3>0. calls \in SUBSET (Calls \ known)
      <4>1. fresh' = calls /\ fresh = {} /\ appended' = <<ResponseItem(n, calls)>>
        BY <2>3 DEF AppendsResponse, TakeResult
      <4>2. ~AppendsInput /\ ~AppendsTurn /\ \A c \in Calls : ~AppendsStatus(c)
        BY <4>1 DEF AppendsInput, TakeInput, AppendsTurn, StartTurn, AppendsStatus, TranslateCall,
           FinishCall, ResponseItem, InputItem, TurnItem, StatusItem
      <4>3. ASSUME NEW m \in Requests, NEW new \in SUBSET (Calls \ known), AppendsResponse(m, new)
            PROVE  calls = new
        BY <4>1, <4>3 DEF AppendsResponse, TakeResult
      <4> QED
        BY <1>0, <4>1, <4>2, <4>3 DEF NewCalls
    <3>1. /\ sync' = ApplyResponse(sync, n, calls) /\ running' = running \cup calls
          /\ fresh' = calls /\ appended' = <<ResponseItem(n, calls)>>
      BY <2>3 DEF AppendsResponse, Folded, TakeResult, Apply, ResponseItem
    <3>2. sync'.waiting = sync.waiting
      BY <1>0, <3>1 DEF ApplyResponse, MirrorType
    <3>3. Observing' = calls /\ Head(appended').kind = "response"
      BY <3>1 DEF Observing, ResponseItem
    <3>4. calls \cap sync.waiting = {}
      BY <2>0, <3>0 DEF WaitingInv
    <3> QED
      BY <2>0, <3>1, <3>2, <3>3, <3>4 DEF WaitingInv
  <2>4. ASSUME NEW c \in Calls, AppendsStatus(c) PROVE WaitingInv'
    <3>0. Observing' = {}
      BY <2>4 DEF AppendsStatus, TranslateCall, FinishCall, StatusItem, Observing
    <3>1. CASE TranslateCall(c, "ready")
      <4>1. /\ sync' = ApplyStatus(sync, c, "ready") /\ running' = running /\ fresh' = fresh \ {c}
            /\ appended' = <<StatusItem(c, "ready")>> /\ c \in fresh
        BY <2>4, <3>1 DEF AppendsStatus, Folded, TranslateCall, Apply, StatusItem
      <4>2. sync'.waiting = sync.waiting \cup {c}
        BY <1>0, <4>1 DEF ApplyStatus, MirrorType
      <4> QED
        BY <1>0, <2>0, <3>0, <4>1, <4>2 DEF WaitingInv, StatusItem
    <3>2. CASE TranslateCall(c, "error") \/ FinishCall(c)
      <4>1. PICK status \in {"error", "ended"} :
               sync' = ApplyStatus(sync, c, status) /\ appended' = <<StatusItem(c, status)>>
        BY <2>4, <3>2 DEF AppendsStatus, Folded, TranslateCall, FinishCall, Apply, StatusItem
      <4>2. c \in running /\ running' = running \ {c} /\ fresh' \subseteq fresh
        BY <1>0, <3>2 DEF TranslateCall, FinishCall
      <4>3. op[c] # "held"
        BY <2>4, <3>2 DEF AppendsStatus, TranslateCall, FinishCall, StatusItem, WaitingInv
      <4>4. sync'.waiting = sync.waiting \ {c}
        BY <1>0, <4>1, <4>2 DEF ApplyStatus, MirrorType
      <4> QED
        BY <2>0, <3>0, <4>1, <4>2, <4>3, <4>4 DEF WaitingInv, StatusItem
    <3> QED
      BY <2>4, <3>1, <3>2 DEF AppendsStatus
  <2> QED
    BY <1>3, <2>1, <2>2, <2>3, <2>4 DEF Appends
<1> QED
  BY <1>1, <1>2, <1>3, StepKinds

\* abortTurn has every call that waits for approval, and withdraws them; the
\* policy lets no other wait while the turn is being cancelled.
LEMMA HeldStep ==
    TypeOK /\ SchedulingInv /\ AddingInv /\ RefusedInv /\ WaitingInv /\ HeldInv /\ [Next]_vars
    => HeldInv'
<1> SUFFICES ASSUME TypeOK, SchedulingInv, AddingInv, RefusedInv, WaitingInv, HeldInv, [Next]_vars
             PROVE  HeldInv'
  OBVIOUS
<1>0. /\ live \in Prompts \cup {None} /\ None \notin Prompts
      /\ ts \in [Prompts -> TurnStates] /\ abort \in [Prompts -> Aborts]
      /\ op \in [Calls -> {"none", "held", "admitted", "running", "ended"}]
  BY SessionAssumption DEF TypeOK, TurnTypeOK, AbortTypeOK, RestTypeOK
<1>1. ASSUME NEW thread, Marks(thread) PROVE HeldInv'
  <2>1. live' = live
    BY <1>1 DEF Marks
  <2>2. \A c \in Calls : op'[c] = "held" => op[c] = "held"
    <3>1. \A c \in Calls, verdict \in Verdicts : ~(op[c] = "none" /\ op'[c] = "held"
                                                   /\ AddsOperation(c, verdict))
      BY <1>1 DEF Marks, AddsOperation, OperationAdded, coordVars
    <3> QED
      BY <3>1, AdmitsKinds DEF Admits
  <2>3. CASE live = None \/ ts[live].cancelling
    BY <1>1, <2>1, <2>2, <2>3 DEF Marks, AbortTurn, HeldInv
  <2>4. CASE ~(live = None \/ ts[live].cancelling)
    <3>1. abort'[live].at = "park" /\ abort'[live].calls = sync.waiting
      BY <1>0, <1>1, <2>4 DEF Marks, AbortTurn
    <3> QED
      BY <2>1, <2>2, <3>1 DEF HeldInv, WaitingInv
  <2> QED
    BY <2>3, <2>4
<1>2. ASSUME NEW p \in Prompts, PromptTakesTurn(p) PROVE HeldInv'
  BY <1>2, TakesTurnFacts DEF HeldInv
<1>3. ASSUME NEW p \in Prompts, AbortParks(p) \/ AbortStopsRequest(p) PROVE HeldInv'
  <2>1. UNCHANGED <<live, ts, op>>
    BY <1>3 DEF AbortParks, AbortStopsRequest, turnVars
  <2>2. /\ abort[p].at \in {"park", "stop"} /\ abort'[p].at \in {"stop", "ops"}
        /\ abort'[p].calls = abort[p].calls /\ \A q \in Prompts \ {p} : abort'[q] = abort[q]
    <3>1. abort[p] \in Aborts
      BY <1>0
    <3>2. CASE AbortParks(p)
      BY <1>0, <3>1, <3>2 DEF AbortParks, Aborts
    <3>3. CASE AbortStopsRequest(p)
      BY <1>0, <3>1, <3>3 DEF AbortStopsRequest, Aborts
    <3> QED
      BY <1>3, <3>2, <3>3
  <2> QED
    BY <1>0, <2>1, <2>2 DEF HeldInv
<1>4. ASSUME NEW p \in Prompts, AbortStopsOperations(p) PROVE HeldInv'
  <2>1. UNCHANGED <<live, ts>> /\ abort[p].at = "ops"
        /\ \A q \in Prompts \ {p} : abort'[q] = abort[q]
    BY <1>0, <1>4 DEF AbortStopsOperations, turnVars
  <2>2. \A c \in Calls : op'[c] = "held" => op[c] = "held" /\ c \notin abort[p].calls
    BY <1>4 DEF AbortStopsOperations
  <2> QED
    BY <1>0, <2>1, <2>2 DEF HeldInv
<1>5. CASE NoCancel
  <2> SUFFICES ASSUME live' # None, ts'[live'].cancelling, NEW c \in Calls, op'[c] = "held"
               PROVE  abort'[live'].at \in {"park", "stop", "ops"} /\ c \in abort'[live'].calls
    BY DEF HeldInv
  <2>1. live' = live /\ live # None /\ ts[live].cancelling /\ abort' = abort
    BY <1>0, <1>5 DEF NoCancel
  <2>2. CASE op[c] = "held"
    BY <2>1, <2>2 DEF HeldInv
  <2>3. CASE op[c] # "held"
    <3>1. PICK verdict \in Verdicts : op[c] = "none" /\ AddsOperation(c, verdict)
      BY <2>3, AdmitsKinds DEF Admits
    <3>2. adding = {c} /\ c \notin cancelledCalls
      BY <1>0, <3>1 DEF AddsOperation
    <3>3. c \in running /\ Observing = {}
      BY <3>2 DEF AddingInv, Observing
    <3> QED
      BY <2>1, <3>2, <3>3 DEF RefusedInv
  <2> QED
    BY <2>2, <2>3
<1> QED
  BY <1>1, <1>2, <1>3, <1>4, <1>5, CancelKinds DEF CancelKind, AbortNext

\* No call waits for approval at the start.
LEMMA InitHeld == Init => WaitingInv /\ HeldInv
BY DEF Init, CoordInit, New, WaitingInv, HeldInv, Observing

\* For any prompts, steers, calls and requests: once the abort of a cancelled
\* turn is over, none of its calls waits for approval.
THEOREM CancelLeavesNoneHeld == Spec => []NoneIsLeftHeld
<1> DEFINE Inv == SessionInv /\ AddingInv /\ RefusedInv /\ WaitingInv /\ HeldInv
<1>1. Init => Inv
  BY InitType, InitScheduling, InitRequests, InitRefused, InitHeld DEF SessionInv
<1>2. SessionInv /\ AddingInv /\ RefusedInv /\ WaitingInv /\ HeldInv /\ [Next]_vars
      => (AddingInv /\ RefusedInv /\ WaitingInv /\ HeldInv)'
  BY AddingStep, RefusedStep, WaitingStep, HeldStep DEF SessionInv
<1>3. SessionInv /\ HeldInv => NoneIsLeftHeld
  <2> SUFFICES ASSUME SessionInv, HeldInv, NEW p \in Prompts, live = p, ts[p].cancelling,
                      abort[p].at = "done", NEW c \in Calls
               PROVE  op[c] # "held"
    BY DEF NoneIsLeftHeld
  <2> QED
    BY SessionAssumption DEF HeldInv
<1> QED
  BY <1>1, <1>2, <1>3, SessionInvariant, PTL DEF Spec

-----------------------------------------------------------------------
(* Whom a cancel is reported to.                                           *)

AskedInv ==
    asked = {} =>
        /\ notifier = "idle" /\ ctxDone = {}
        /\ \A p \in Prompts :
              /\ ~ts[p].clientCancelled
              /\ handler[p] \notin {"mark", "abort", "join"}
              /\ answer[p] # "cancelled"

\* What the client does preserves AskedInv: a cancel begins with its asking.
LEMMA ClientAsked ==
    TypeOK /\ AskedInv /\ ClientNext => AskedInv'
<1> SUFFICES ASSUME TypeOK, AskedInv, ClientNext PROVE AskedInv'
  OBVIOUS
<1>0. /\ ts \in [Prompts -> TurnStates] /\ live \in Prompts \cup {None} /\ None \notin Prompts
      /\ handler \in [Prompts -> {"idle", "wait", "build", "submit", "await",
                                   "mark", "abort", "join", "done"}]
      /\ answer \in [Prompts -> Answers]
  BY SessionAssumption DEF TypeOK, TurnTypeOK, ClientTypeOK
<1> USE DEF AskedInv, turnVars, abortVars, clientVars
<1>1. ASSUME NEW p \in Prompts, NEW id \in MessageIds, SendPrompt(p, id) PROVE AskedInv'
  BY <1>0, <1>1 DEF SendPrompt, At, Open
<1>2. ASSUME NEW how, SendCancel(how) PROVE AskedInv'
  BY <1>0, <1>2 DEF SendCancel, Open
<1>3. ASSUME NEW s \in Steers, SteerQueues(s) PROVE AskedInv'
  BY <1>0, <1>3 DEF SteerQueues, Steerable, TurnStates
<1>4. ASSUME NEW s \in Steers, SteerInterrupts(s) PROVE AskedInv'
  BY <1>0, <1>4 DEF SteerInterrupts, Steerable, TurnStates
<1>5. ASSUME NEW c \in Calls, NEW allow \in BOOLEAN, Decide(c, allow) PROVE AskedInv'
  BY <1>0, <1>5 DEF Decide
<1> QED
  BY <1>1, <1>2, <1>3, <1>4, <1>5 DEF ClientNext

\* A prompt handler preserves AskedInv: it aborts only once its ctx has ended.
LEMMA PromptAsked ==
    TypeOK /\ AskedInv /\ (\E p \in Prompts : PromptNext(p)) => AskedInv'
<1> SUFFICES ASSUME TypeOK, AskedInv, (\E p \in Prompts : PromptNext(p)) PROVE AskedInv'
  OBVIOUS
<1>0. /\ ts \in [Prompts -> TurnStates] /\ live \in Prompts \cup {None} /\ None \notin Prompts
      /\ handler \in [Prompts -> {"idle", "wait", "build", "submit", "await",
                                   "mark", "abort", "join", "done"}]
      /\ answer \in [Prompts -> Answers]
  BY SessionAssumption DEF TypeOK, TurnTypeOK, ClientTypeOK
<1> USE DEF AskedInv, turnVars, abortVars, clientVars
<1>1. ASSUME NEW p \in Prompts, PromptBusy(p) PROVE AskedInv'
  BY <1>0, <1>1 DEF PromptBusy, At
<1>2. ASSUME NEW p \in Prompts, PromptKnown(p) PROVE AskedInv'
  BY <1>0, <1>2 DEF PromptKnown, At
<1>3. ASSUME NEW p \in Prompts, PromptTakesTurn(p) PROVE AskedInv'
  <2>1. UNCHANGED <<notifier, ctxDone, asked, answer>>
        /\ handler' = [handler EXCEPT ![p] = "build"]
    BY <1>3 DEF PromptTakesTurn, At
  <2> QED
    BY <1>0, <1>3, <2>1, TakesTurnFacts
<1>4. ASSUME NEW p \in Prompts, EnsureGeneration(p) PROVE AskedInv'
  BY <1>0, <1>4 DEF EnsureGeneration, At
<1>5. ASSUME NEW p \in Prompts, GenerationFails(p) PROVE AskedInv'
  <2>1. CASE ts[p].finished
    BY <1>0, <1>5, <2>1 DEF GenerationFails, At
  <2>2. CASE ~ts[p].finished
    <3>0. /\ UNCHANGED <<notifier, ctxDone, asked>>
          /\ handler' = [handler EXCEPT ![p] = "await"]
      BY <1>5 DEF GenerationFails, At
    <3>1. Finish(p, ts[p], "error")
      BY <1>5, <2>2 DEF GenerationFails
    <3>2. /\ ts'[p].clientCancelled = ts[p].clientCancelled
          /\ answer'[p] = IF ts[p].clientCancelled THEN "cancelled" ELSE "error"
          /\ \A q \in Prompts \ {p} : ts'[q] = ts[q] /\ answer'[q] = answer[q]
      BY <1>0, <3>1 DEF Finish, TurnStates
    <3> QED
      BY <1>0, <3>0, <3>2
  <2> QED
    BY <2>1, <2>2
<1>6. ASSUME NEW p \in Prompts, PromptSubmits(p) PROVE AskedInv'
  BY <1>0, <1>6 DEF PromptSubmits, At
<1>7. ASSUME NEW p \in Prompts, PromptSeesCancel(p) PROVE AskedInv'
  BY <1>0, <1>7 DEF PromptSeesCancel, At
<1>8. ASSUME NEW p \in Prompts, PromptMarks(p) PROVE AskedInv'
  BY <1>0, <1>8 DEF PromptMarks, At
<1>9. ASSUME NEW p \in Prompts, PromptAborts(p) PROVE AskedInv'
  BY <1>9 DEF PromptAborts, At
<1>10. ASSUME NEW p \in Prompts, PromptAnswers(p) PROVE AskedInv'
  BY <1>0, <1>10 DEF PromptAnswers, At
<1> QED
  BY <1>1, <1>2, <1>3, <1>4, <1>5, <1>6, <1>7, <1>8, <1>9, <1>10 DEF PromptNext

\* The rest of an abort, the timers and the notifier preserve AskedInv.
LEMMA AbortAsked ==
    TypeOK /\ AskedInv /\ AbortSteps => AskedInv'
<1> SUFFICES ASSUME TypeOK, AskedInv, AbortSteps PROVE AskedInv'
  OBVIOUS
<1>0. /\ ts \in [Prompts -> TurnStates] /\ live \in Prompts \cup {None} /\ None \notin Prompts
      /\ handler \in [Prompts -> {"idle", "wait", "build", "submit", "await",
                                   "mark", "abort", "join", "done"}]
      /\ answer \in [Prompts -> Answers]
  BY SessionAssumption DEF TypeOK, TurnTypeOK, ClientTypeOK
<1> USE DEF AskedInv, turnVars, abortVars, clientVars
<1>1. ASSUME NEW p \in Prompts, AbortParks(p) PROVE AskedInv'
  BY <1>0, <1>1 DEF AbortParks
<1>2. ASSUME NEW p \in Prompts, AbortStopsRequest(p) PROVE AskedInv'
  BY <1>0, <1>2 DEF AbortStopsRequest
<1>3. ASSUME NEW p \in Prompts, AbortStopsOperations(p) PROVE AskedInv'
  BY <1>0, <1>3 DEF AbortStopsOperations
<1>4. ASSUME NEW p \in Prompts, TimerFires(p) PROVE AskedInv'
  BY <1>0, <1>4 DEF TimerFires
<1>5. CASE NotifierMarks
  BY <1>0, <1>5 DEF NotifierMarks
<1>6. CASE NotifierAborts
  BY <1>6 DEF NotifierAborts
<1>7. ASSUME NEW s \in Steers, SteerSubmits(s) PROVE AskedInv'
  BY <1>0, <1>7 DEF SteerSubmits
<1> QED
  BY <1>1, <1>2, <1>3, <1>4, <1>5, <1>6, <1>7 DEF AbortSteps, AbortNext

\* The actor preserves AskedInv: the abort it makes of a failure is not a cancel
\* by the client.  (runtime.go:740)
LEMMA ActorAsked ==
    TypeOK /\ AskedInv /\ ActorNext => AskedInv'
<1> SUFFICES ASSUME TypeOK, AskedInv, ActorNext PROVE AskedInv'
  OBVIOUS
<1>0. /\ ts \in [Prompts -> TurnStates] /\ live \in Prompts \cup {None} /\ None \notin Prompts
      /\ handler \in [Prompts -> {"idle", "wait", "build", "submit", "await",
                                   "mark", "abort", "join", "done"}]
      /\ answer \in [Prompts -> Answers]
  BY SessionAssumption DEF TypeOK, TurnTypeOK, ClientTypeOK
<1> USE DEF AskedInv, turnVars, abortVars, clientVars
<1>1. CASE HandleItem
  BY <1>0, <1>1 DEF HandleItem, Bookkeep, TurnStates
<1>2. CASE HandleWake
  BY <1>0, <1>2 DEF HandleWake
<1>3. CASE HandleModelError
  BY <1>0, <1>3 DEF HandleModelError, TurnStates
<1>4. ASSUME NEW p \in Prompts, HandleGrace(p) PROVE AskedInv'
  BY <1>0, <1>4 DEF HandleGrace
<1>5. ASSUME NEW p \in Prompts, HandleFlush(p) PROVE AskedInv'
  BY <1>0, <1>5 DEF HandleFlush, TurnStates
<1>6. CASE ActorAborts
  <2>1. /\ AbortTurn("actor") /\ UNCHANGED <<notifier, ctxDone, asked, handler, answer>>
    BY <1>6 DEF ActorAborts
  <2> QED
    BY <1>0, <2>1, AbortTurnFacts
<1>7. CASE ActorAborted
  BY <1>0, <1>7 DEF ActorAborted
<1>8. CASE EvaluateWaits
  BY <1>0, <1>8 DEF EvaluateWaits
<1>9. CASE EvaluateCancelled
  <2>1. live \in Prompts /\ Finish(live, ts[live], "error")
        /\ UNCHANGED <<notifier, ctxDone, asked, handler>>
    BY <1>0, <1>9 DEF EvaluateCancelled
  <2>2. /\ ts'[live].clientCancelled = ts[live].clientCancelled
        /\ answer'[live] = IF ts[live].clientCancelled THEN "cancelled"
                            ELSE "error"
        /\ \A q \in Prompts \ {live} : ts'[q] = ts[q] /\ answer'[q] = answer[q]
    BY <2>1, FinishFacts
  <2> QED
    BY <1>0, <2>1, <2>2
<1>10. CASE EvaluateSteers
  BY <1>0, <1>10 DEF EvaluateSteers, TurnStates
<1>11. CASE EvaluateDone
  <2>1. live \in Prompts /\ Finish(live, ts[live], IF ts[live].err THEN "error" ELSE "end_turn")
        /\ UNCHANGED <<notifier, ctxDone, asked, handler>>
    BY <1>0, <1>11 DEF EvaluateDone
  <2>2. /\ ts'[live].clientCancelled = ts[live].clientCancelled
        /\ answer'[live] = IF ts[live].clientCancelled THEN "cancelled"
                            ELSE IF ts[live].err THEN "error" ELSE "end_turn"
        /\ \A q \in Prompts \ {live} : ts'[q] = ts[q] /\ answer'[q] = answer[q]
    BY <2>1, FinishFacts
  <2> QED
    BY <1>0, <2>1, <2>2
<1>12. ASSUME NEW s \in Steers, ActorSubmits(s) PROVE AskedInv'
  BY <1>0, <1>12 DEF ActorSubmits
<1> QED
  BY <1>1, <1>2, <1>3, <1>4, <1>5, <1>6, <1>7, <1>8, <1>9, <1>10, <1>11, <1>12 DEF ActorNext

\* The coordinator preserves AskedInv: it answers no prompt.
LEMMA CoordAsked ==
    TypeOK /\ AskedInv /\ CoordNext => AskedInv'
<1> SUFFICES ASSUME TypeOK, AskedInv, CoordNext PROVE AskedInv'
  OBVIOUS
<1>0. /\ ts \in [Prompts -> TurnStates] /\ live \in Prompts \cup {None} /\ None \notin Prompts
      /\ handler \in [Prompts -> {"idle", "wait", "build", "submit", "await",
                                   "mark", "abort", "join", "done"}]
      /\ answer \in [Prompts -> Answers]
  BY SessionAssumption DEF TypeOK, TurnTypeOK, ClientTypeOK
<1> USE DEF AskedInv, turnVars, abortVars, clientVars
<1>1. CASE AppendsInput
  BY <1>0, <1>1 DEF AppendsInput
<1>2. CASE AppendsTurn
  BY <1>0, <1>2 DEF AppendsTurn
<1>3. ASSUME NEW n \in Requests, NEW calls \in SUBSET (Calls \ known), AppendsResponse(n, calls) PROVE AskedInv'
  BY <1>0, <1>3 DEF AppendsResponse
<1>4. ASSUME NEW c \in Calls, AppendsStatus(c) PROVE AskedInv'
  BY <1>0, <1>4 DEF AppendsStatus
<1>5. CASE Observe
  BY <1>0, <1>5 DEF Observe
<1>6. ASSUME NEW c \in Calls, NEW verdict \in Verdicts, AddsOperation(c, verdict) PROVE AskedInv'
  BY <1>0, <1>6 DEF AddsOperation
<1>7. ASSUME NEW c \in Calls, StartsOperation(c) PROVE AskedInv'
  BY <1>0, <1>7 DEF StartsOperation
<1> QED
  BY <1>1, <1>2, <1>3, <1>4, <1>5, <1>6, <1>7 DEF CoordNext

\* A request in Respond preserves AskedInv: it answers no prompt.
LEMMA RequestAsked ==
    TypeOK /\ AskedInv /\ (\E n \in Requests : RequestNext(n)) => AskedInv'
<1> SUFFICES ASSUME TypeOK, AskedInv, (\E n \in Requests : RequestNext(n)) PROVE AskedInv'
  OBVIOUS
<1>0. /\ ts \in [Prompts -> TurnStates] /\ live \in Prompts \cup {None} /\ None \notin Prompts
      /\ handler \in [Prompts -> {"idle", "wait", "build", "submit", "await",
                                   "mark", "abort", "join", "done"}]
      /\ answer \in [Prompts -> Answers]
  BY SessionAssumption DEF TypeOK, TurnTypeOK, ClientTypeOK
<1> USE DEF AskedInv, turnVars, abortVars, clientVars
<1>1. ASSUME NEW n \in Requests, Enter(n) PROVE AskedInv'
  BY <1>0, <1>1 DEF Enter, sessionVars
<1>2. ASSUME NEW n \in Requests, NEW failed \in Failures, RespondReturns(n, failed) PROVE AskedInv'
  BY <1>0, <1>2 DEF RespondReturns
<1> QED
  BY <1>1, <1>2 DEF RequestNext

\* A tool that ends preserves AskedInv: it answers no prompt.
LEMMA ToolAsked ==
    TypeOK /\ AskedInv /\ (\E c \in Calls : OperationEnds(c)) => AskedInv'
<1> SUFFICES ASSUME TypeOK, AskedInv, NEW c \in Calls, OperationEnds(c) PROVE AskedInv'
  OBVIOUS
<1>0. /\ ts \in [Prompts -> TurnStates] /\ live \in Prompts \cup {None} /\ None \notin Prompts
      /\ handler \in [Prompts -> {"idle", "wait", "build", "submit", "await",
                                   "mark", "abort", "join", "done"}]
      /\ answer \in [Prompts -> Answers]
  BY SessionAssumption DEF TypeOK, TurnTypeOK, ClientTypeOK
<1> USE DEF AskedInv, turnVars, abortVars, clientVars
<1> QED
  BY <1>0 DEF OperationEnds

\* Every step preserves AskedInv.
LEMMA AskedStep == TypeOK /\ AskedInv /\ [Next]_vars => AskedInv'
<1>1. AskedInv /\ UNCHANGED vars => AskedInv'
  BY DEF vars, sessionVars, turnVars, abortVars, clientVars, AskedInv
<1> QED
  BY <1>1, ClientAsked, PromptAsked, AbortAsked, ActorAsked, CoordAsked, RequestAsked, ToolAsked DEF Next, AbortSteps

\* Nobody has asked at the start.
LEMMA InitAsked == Init => AskedInv
BY DEF Init, AskedInv, Unused

\* For any prompts, steers, calls and requests: a turn answers "cancelled" only
\* after the client has cancelled, or sent the next prompt, while one was open.
THEOREM CancelledIsTheClients == Spec => []CancelledOnlyByTheClient
<1>1. TypeOK /\ AskedInv => CancelledOnlyByTheClient
  <2> SUFFICES ASSUME TypeOK, AskedInv, NEW p \in Prompts, answer[p] = "cancelled",
                      \A q \in Prompts \ {p} : q \notin asked
               PROVE  p \in asked
    BY DEF CancelledOnlyByTheClient
  <2>1. asked \subseteq Prompts /\ asked # {}
    BY DEF TypeOK, ClientTypeOK, AskedInv
  <2> QED
    BY <2>1
<1> QED
  BY <1>1, InitType, TypeStep, InitAsked, AskedStep, PTL DEF Spec

-----------------------------------------------------------------------
(* What a cancel parks.                                                    *)

Parks ==
    \/ \E p \in Prompts : AbortParks(p)
    \/ Observe
    \/ UNCHANGED <<parked, parkedReasons>>
    \/ ~parked' /\ parkedReasons' = {}

\* The Gate is parked by an abort and by a raced response, and by nothing else.
LEMMA ParksKinds == [Next]_vars => Parks
<1> SUFFICES ASSUME [Next]_vars PROVE Parks
  OBVIOUS
<1> USE DEF Parks, gateVars
<1>1. CASE UNCHANGED vars
  BY <1>1 DEF vars
<1>2. CASE ClientNext
  BY <1>2 DEF ClientNext, SendPrompt, SendCancel, SteerQueues, SteerInterrupts, Decide
<1>3. ASSUME NEW p \in Prompts, PromptNext(p) PROVE Parks
  BY <1>3 DEF PromptNext, PromptBusy, PromptKnown, PromptTakesTurn, EnsureGeneration,
     GenerationFails, PromptSubmits, PromptSeesCancel, PromptMarks, PromptAborts, PromptAnswers
<1>4. CASE AbortSteps
  BY <1>4 DEF AbortSteps, AbortNext, AbortStopsRequest, CancelInflight, AbortStopsOperations,
     TimerFires, NotifierMarks, NotifierAborts, SteerSubmits
<1>5. CASE ActorNext
  BY <1>5 DEF ActorNext, HandleItem, HandleWake, HandleModelError, HandleGrace, HandleFlush,
     ActorAborts, ActorAborted, EvaluateWaits, EvaluateCancelled, EvaluateSteers, EvaluateDone,
     ActorSubmits
<1>6. CASE CoordNext
  BY <1>6 DEF CoordNext, AppendsInput, AppendsTurn, Supersede, AppendsResponse, AppendsStatus,
     AddsOperation, StartsOperation
<1>7. ASSUME NEW n \in Requests, RequestNext(n) PROVE Parks
  BY <1>7 DEF RequestNext, Enter, EnterMuted, EnterProvider, RespondReturns, Return
<1>8. ASSUME NEW c \in Calls, OperationEnds(c) PROVE Parks
  BY <1>8 DEF OperationEnds
<1> QED
  BY <1>1, <1>2, <1>3, <1>4, <1>5, <1>6, <1>7, <1>8 DEF Next, AbortSteps

\* The calls of a response that raced a cancel are parked when it is observed;
\* no other item touches the Gate's parking.
LEMMA ObserveParks ==
    ASSUME TypeOK, Observe
    PROVE  /\ parkedReasons' = parkedReasons \cup (IF refuseNew THEN Observing ELSE {})
           /\ parked' = (parked \/ (refuseNew /\ Observing # {}))
           /\ Observing \subseteq Calls /\ Observing' = {}
<1>1. /\ Head(appended) \in Items /\ appended # <<>> /\ Index(Head(appended)) /\ appended' = <<>>
      /\ parked \in BOOLEAN /\ refuseNew \in BOOLEAN
  BY ObservedItemType DEF TypeOK, HarnessTypeOK, Observe, ObserversDone, GateTypeOK, TurnTypeOK
<1>2. CASE Head(appended).kind = "response"
  BY <1>1, <1>2 DEF Index, IndexResponse, Park, gateVars, Observing, Items
<1>3. CASE Head(appended).kind # "response"
  <2>1. UNCHANGED <<parked, parkedReasons>>
    BY <1>1, <1>3 DEF Index, IndexInput, IndexTurn, Call, IndexStatus, gateVars, Items
  <2> QED
    BY <1>1, <1>3, <2>1 DEF Observing
<1> QED
  BY <1>2, <1>3

AbortedInv == \A p \in Prompts : ts[p].cancelling => Began(p)

GateIdleInv == ~parked => parkedReasons = {}

RefusingInv == \A p \in Prompts : abort[p].at # "none" /\ Alone(p) => refuseNew

TakenInv == \A p \in Prompts : abort[p].at = "park" => Taken(p) \subseteq abort[p].inputs

Parked(p) == parked /\ messageId[p] \in parkedReasons /\ abort[p].at \in {"stop", "ops", "done"}

LeftInv ==
    \A p \in Prompts : Parked(p) /\ Alone(p) =>
        Taken(p) \cup (running \ Observing) \cup (todo \cap Calls) \subseteq parkedReasons

ParkingInv == AbortedInv /\ GateIdleInv /\ RefusingInv /\ TakenInv /\ LeftInv

\* Only a turn that has begun is cancelled.
LEMMA AbortedStep == TypeOK /\ TurnsInv /\ AbortedInv /\ [Next]_vars => AbortedInv'
<1> SUFFICES ASSUME TypeOK, TurnsInv, AbortedInv, [Next]_vars, NEW p \in Prompts, ts'[p].cancelling
             PROVE  Began(p)'
  BY DEF AbortedInv, Began
<1>0. Grows
  BY GrowsStep
<1>1. CASE ts[p].cancelling
  BY <1>0, <1>1 DEF AbortedInv, Grows
<1>2. CASE ~ts[p].cancelling
  <2>1. ~NoCancel /\ ~\E q \in Prompts : AbortNext(q)
    BY <1>2 DEF NoCancel, AbortNext, AbortParks, AbortStopsRequest, AbortStopsOperations, turnVars
  <2>2. ASSUME NEW q \in Prompts, PromptTakesTurn(q) PROVE FALSE
    <3>1. ~ts'[q].cancelling /\ \A r \in Prompts \ {q} : ts'[r] = ts[r]
      BY <2>2, TakesTurnFacts
    <3> QED
      BY <1>2, <3>1
  <2>3. PICK thread : Marks(thread)
    BY <2>1, <2>2, CancelKinds DEF CancelKind
  <2>4. p = live
    <3>1. AbortTurn(thread)
      BY <2>3 DEF Marks
    <3> QED
      BY <1>2, <3>1, AbortTurnFacts
  <2> QED
    BY <2>3, <2>4 DEF Marks, Began
<1> QED
  BY <1>1, <1>2

\* A Gate that is not parked has nothing parked.
LEMMA GateIdleStep == TypeOK /\ GateIdleInv /\ [Next]_vars => GateIdleInv'
<1> SUFFICES ASSUME TypeOK, GateIdleInv, [Next]_vars PROVE GateIdleInv'
  OBVIOUS
<1>1. CASE Observe
  BY <1>1, ObserveParks DEF GateIdleInv
<1>2. ASSUME NEW p \in Prompts, AbortParks(p) PROVE GateIdleInv'
  BY <1>2 DEF AbortParks, Park, GateIdleInv
<1> QED
  BY <1>1, <1>2, ParksKinds DEF Parks, GateIdleInv

\* A prompt that is alone was alone before.
LEMMA AloneBefore ==
    ASSUME TypeOK, TurnsInv, [Next]_vars, NEW p \in Prompts, Alone(p)'
    PROVE  Alone(p)
BY GrowsStep DEF Grows, Alone, Early

\* While p is alone no other prompt's turn is being aborted.
LEMMA AloneAborts ==
    ASSUME TurnsInv, NEW p \in Prompts, Alone(p), NEW q \in Prompts, abort[q].at # "none"
    PROVE  q = p
BY DEF TurnsInv, EarlyInv, AbortInv, Early, Alone, Unused

\* From an abort until the next prompt begins, new calls are refused.
LEMMA RefusingStep == TypeOK /\ TurnsInv /\ RefusingInv /\ [Next]_vars => RefusingInv'
<1> SUFFICES ASSUME TypeOK, TurnsInv, RefusingInv, [Next]_vars, NEW p \in Prompts,
                    abort'[p].at # "none", Alone(p)'
             PROVE  refuseNew'
  BY DEF RefusingInv, Alone
<1>0. Alone(p) /\ abort \in [Prompts -> Aborts]
  BY AloneBefore DEF TypeOK, AbortTypeOK
<1>1. ASSUME abort[p].at # "none", refuseNew' = refuseNew PROVE refuseNew'
  BY <1>0, <1>1 DEF RefusingInv
<1>2. CASE NoCancel
  BY <1>1, <1>2 DEF NoCancel
<1>3. ASSUME NEW thread, Marks(thread) PROVE refuseNew'
  <2>1. AbortTurn(thread)
    BY <1>3 DEF Marks
  <2> QED
    BY <1>1, <2>1, AbortTurnFacts
<1>4. ASSUME NEW q \in Prompts, AbortNext(q) PROVE refuseNew'
  <2>1. UNCHANGED refuseNew /\ abort[p].at # "none"
    BY <1>0, <1>4 DEF AbortNext, AbortParks, AbortStopsRequest, AbortStopsOperations, turnVars
  <2> QED
    BY <1>1, <2>1
<1>5. ASSUME NEW q \in Prompts, PromptTakesTurn(q) PROVE refuseNew'
  <2>1. handler[q] = "wait" /\ handler'[q] = "build" /\ abort' = abort
    BY <1>5, TakesTurnFacts DEF PromptTakesTurn, abortVars
  <2>2. q # p
    BY <2>1 DEF TurnsInv, EarlyInv, AbortInv, Early, Unused
  <2>3. q \in Prompts \ {p} /\ handler'[q] \notin {"idle", "wait"}
    BY <2>1, <2>2
  <2> QED
    BY <2>3 DEF Alone
<1> QED
  BY <1>2, <1>3, <1>4, <1>5, CancelKinds DEF CancelKind

\* What a turn being cancelled has taken is fixed.
LEMMA TakenFixed ==
    ASSUME TypeOK, TurnsInv, AbortedInv, [Next]_vars, NEW p \in Prompts, ts[p].cancelling
    PROVE  Taken(p)' = Taken(p) /\ messageId'[p] = messageId[p]
<1>1. Grows /\ Began(p)
  BY GrowsStep DEF AbortedInv
<1>2. messageId'[p] = messageId[p]
  BY <1>1 DEF Grows
<1>3. \A s \in Steers : steer'[s].turn = p <=> steer[s].turn = p
  <2>1. \A s \in Steers : steer[s].at = "idle" => steer[s].turn = None
    BY DEF TurnsInv, SteerInv
  <2>2. p # None
    BY SessionAssumption
  <2> QED
    BY <1>1, <2>1, <2>2 DEF Grows
<1> QED
  BY <1>2, <1>3 DEF Taken

\* abortTurn has read what its turn has taken: it is in the log or unobserved.
LEMMA TakenStep ==
    TypeOK /\ TurnsInv /\ UnobservedInv /\ AbortedInv /\ TakenInv /\ [Next]_vars => TakenInv'
<1> SUFFICES ASSUME TypeOK, TurnsInv, UnobservedInv, AbortedInv, TakenInv, [Next]_vars,
                    NEW p \in Prompts, abort'[p].at = "park"
             PROVE  Taken(p)' \subseteq abort'[p].inputs
  BY DEF TakenInv, Taken
<1>0. abort \in [Prompts -> Aborts]
  BY DEF TypeOK, AbortTypeOK
<1>1. ASSUME abort'[p] = abort[p] PROVE Taken(p)' \subseteq abort'[p].inputs
  <2>1. ts[p].cancelling
    BY <1>1 DEF TurnsInv, AbortInv
  <2> QED
    BY <1>1, <2>1, TakenFixed DEF TakenInv
<1>2. ASSUME NEW thread, Marks(thread) PROVE Taken(p)' \subseteq abort'[p].inputs
  <2>1. AbortTurn(thread)
    BY <1>2 DEF Marks
  <2>2. CASE abort'[p] # abort[p]
    <3>1. p = live /\ abort'[p].inputs = inputs \cup ts[p].unobserved
      BY <2>1, <2>2, AbortTurnFacts
    <3>2. Taken(p) \subseteq inputs \cup ts[p].unobserved
      BY <3>1, SessionAssumption DEF UnobservedInv, Seen
    <3> QED
      BY <1>2, <3>1, <3>2 DEF Marks, Taken
  <2> QED
    BY <1>1, <2>2
<1>3. ASSUME NEW q \in Prompts, AbortNext(q) PROVE abort'[p] = abort[p]
  BY <1>0, <1>3 DEF AbortNext, AbortParks, AbortStopsRequest, AbortStopsOperations, Aborts
<1>4. ASSUME NEW q \in Prompts, PromptTakesTurn(q) PROVE abort'[p] = abort[p]
  BY <1>4 DEF PromptTakesTurn, abortVars
<1> QED
  BY <1>1, <1>2, <1>3, <1>4, CancelKinds DEF CancelKind, NoCancel

\* What the coordinator has left stays parked.
LEMMA LeftStep ==
    SessionInv /\ TurnsInv /\ AddingInv /\ ParkingInv /\ [Next]_vars => LeftInv'
<1> SUFFICES ASSUME SessionInv, TurnsInv, AddingInv, ParkingInv, [Next]_vars,
                    NEW p \in Prompts, Parked(p)', Alone(p)'
             PROVE  (Taken(p) \cup (running \ Observing) \cup (todo \cap Calls))'
                        \subseteq parkedReasons'
  BY DEF LeftInv
<1> USE DEF SessionInv, ParkingInv
<1>0. /\ abort \in [Prompts -> Aborts] /\ Alone(p)
      /\ sync.outstanding = running /\ sync.reasons = todo /\ fresh \subseteq running
      /\ messageId[p] \notin Calls
  <2>1. abort \in [Prompts -> Aborts] /\ Alone(p)
    BY AloneBefore DEF TypeOK, AbortTypeOK
  <2>2. messageId[p] \notin Calls
    BY ReasonsAreDistinct, SessionAssumption DEF TypeOK, ClientTypeOK, MessageIds, Reasons
  <2> QED
    BY <2>1, <2>2 DEF SchedulingInv, SyncIsTheCoordinator
<1>1. ASSUME NEW q \in Prompts, AbortParks(q) PROVE q = p
  BY <1>0, <1>1, AloneAborts DEF AbortParks
<1>2. CASE AbortParks(p)
  <2>1. /\ parkedReasons' = parkedReasons \cup (CallsOf(sync) \cup abort[p].inputs)
        /\ UNCHANGED <<running, todo, appended>> /\ abort[p].at = "park"
    BY <1>2 DEF AbortParks, Park, coordVars
  <2>2. Taken(p)' = Taken(p) /\ Taken(p) \subseteq abort[p].inputs
    BY <2>1, TakenFixed DEF TakenInv, TurnsInv, AbortInv
  <2> QED
    BY <1>0, <2>1, <2>2 DEF CallsOf, Observing
<1>3. CASE ~AbortParks(p)
  <2>1. abort[p].at = abort'[p].at \/ abort[p].at \in {"stop", "ops"}
    <3>1. ASSUME NEW thread, Marks(thread) PROVE abort'[p].at = abort[p].at
      <4>1. AbortTurn(thread)
        BY <3>1 DEF Marks
      <4>2. abort' = abort \/ (abort'[live].at = "park" /\ \A q \in Prompts \ {live} : abort'[q] = abort[q])
        BY <4>1, AbortTurnFacts
      <4> QED
        BY <4>2 DEF Parked
    <3>2. ASSUME NEW q \in Prompts, AbortNext(q)
          PROVE abort[p].at = abort'[p].at \/ abort[p].at \in {"stop", "ops"}
      BY <1>0, <1>3, <3>2 DEF AbortNext, AbortParks, AbortStopsRequest, AbortStopsOperations, Aborts
    <3>3. ASSUME NEW q \in Prompts, PromptTakesTurn(q) PROVE abort'[p].at = abort[p].at
      BY <3>3 DEF PromptTakesTurn, abortVars
    <3> QED
      BY <3>1, <3>2, <3>3, CancelKinds DEF CancelKind, NoCancel
  <2>2. abort[p].at \in {"stop", "ops", "done"}
    BY <2>1 DEF Parked
  <2>3. ts[p].cancelling /\ refuseNew
    BY <1>0, <2>2 DEF TurnsInv, AbortInv, RefusingInv
  <2>4. Taken(p)' = Taken(p) /\ messageId'[p] = messageId[p]
    BY <2>3, TakenFixed
  <2>5. parkedReasons' = parkedReasons \cup (IF Observe THEN Observing ELSE {})
    <3>1. CASE Observe
      BY <2>3, <3>1, ObserveParks
    <3>2. CASE ~Observe
      BY <1>1, <1>3, <3>2, ParksKinds DEF Parks, Parked
    <3> QED
      BY <3>1, <3>2
  <2>6. messageId[p] \in parkedReasons
    <3>1. messageId[p] \in parkedReasons'
      BY <2>4 DEF Parked
    <3>2. Observe => Observing \subseteq Calls
      BY ObserveParks
    <3> QED
      BY <1>0, <2>5, <3>1, <3>2
  <2>7. Parked(p)
    BY <2>2, <2>6 DEF Parked, GateIdleInv
  <2>8. Taken(p) \cup (running \ Observing) \cup (todo \cap Calls) \subseteq parkedReasons
    BY <1>0, <2>7 DEF LeftInv
  <2>9. CASE Quiet
    BY <2>4, <2>5, <2>8, <2>9 DEF Quiet, Scheduling, Observing
  <2>10. CASE Observe
    BY <2>4, <2>5, <2>8, <2>10, ObserveParks, ObserveInputs
  <2>11. CASE Appends
    <3>1. Observing = {} /\ running' \subseteq running \cup Observing'
      BY <2>11 DEF Appends, AppendsInput, TakeInput, AppendsTurn, StartTurn, AppendsResponse,
         TakeResult, AppendsStatus, TranslateCall, FinishCall, Free, Observing, ResponseItem
    <3>2. todo' \cap Calls \subseteq todo \cup running
      <4>1. inbox # <<>> => Head(inbox) \notin Calls
        BY ReasonsAreDistinct DEF TypeOK, HarnessTypeOK, CoordTypeOK
      <4> QED
        BY <1>0, <2>11, <4>1 DEF Appends, AppendsInput, TakeInput, AppendsTurn, StartTurn,
           AppendsResponse, TakeResult, AppendsStatus, TranslateCall, FinishCall
    <3> QED
      BY <2>4, <2>5, <2>8, <3>1, <3>2
  <2> QED
    BY <2>9, <2>10, <2>11, StepKinds
<1> QED
  BY <1>2, <1>3

\* Nothing is parked at the start.
LEMMA InitParking == Init => ParkingInv
BY DEF Init, GateInit, ParkingInv, AbortedInv, GateIdleInv, RefusingInv, TakenInv, LeftInv,
   Parked, Unused

\* While p is alone every input that is in use is one its turn has taken.
LEMMA AloneOwns ==
    ASSUME TypeOK, TurnsInv, NEW p \in Prompts, Alone(p)
    PROVE  Owned \subseteq Taken(p)
<1>1. \A q \in Prompts : Began(q) => q = p
  BY SessionAssumption DEF TurnsInv, EarlyInv, Early, Alone, Began, Unused
<1>2. \A s \in Steers : steer[s].turn # None => steer[s].turn = p
  BY <1>1 DEF TurnsInv, SteerInv, TypeOK, RestTypeOK
<1> QED
  BY <1>1, <1>2 DEF Owned, Steered, Taken

CancelInv ==
    /\ SessionInv /\ TurnsInv /\ InputsInv /\ UnobservedInv
    /\ AddingInv /\ ParkingInv

\* What is parked, refused and running is as the invariant says, in every state.
LEMMA CancelInvariant == Spec => []CancelInv
<1>1. Init => CancelInv
  <2>1. Init => UnobservedInv
    BY DEF Init, UnobservedInv
  <2> QED
    BY <2>1, InitType, InitScheduling, InitRequests, InitTurns, InitInputs, InitRefused, InitParking
       DEF CancelInv, SessionInv
<1>2. CancelInv /\ [Next]_vars => (TurnsInv /\ InputsInv /\ UnobservedInv /\ AddingInv)'
  BY TurnsStep, InputsStep, UnobservedStep, AddingStep DEF CancelInv, SessionInv
<1>3. CancelInv /\ [Next]_vars => ParkingInv'
  BY AbortedStep, GateIdleStep, RefusingStep, TakenStep, LeftStep DEF CancelInv, SessionInv, ParkingInv
<1>4. CancelInv /\ SessionInv' /\ [Next]_vars => CancelInv'
  BY <1>2, <1>3 DEF CancelInv
<1> QED
  BY <1>1, <1>4, SessionInvariant, PTL DEF Spec

\* For any prompts, steers, calls and requests: what the coordinator can still
\* make a request of is parked, from a cancel until the next prompt begins.
THEOREM CancelParksWhatIsLeft == Spec => []WhatIsLeftIsParked
<1>1. CancelInv => WhatIsLeftIsParked
  <2> SUFFICES ASSUME CancelInv, NEW p \in Prompts, Parked(p), Alone(p)
               PROVE  (todo \cup running \cup {inbox[i] : i \in DOMAIN inbox})
                        \ {c \in fresh : appended # <<>> /\ Head(appended).kind = "response"}
                        \subseteq parkedReasons
    BY DEF WhatIsLeftIsParked, Parked
  <2>1. Taken(p) \cup (running \ Observing) \cup (todo \cap Calls) \subseteq parkedReasons
    BY DEF CancelInv, ParkingInv, LeftInv
  <2>2. {c \in fresh : appended # <<>> /\ Head(appended).kind = "response"} = Observing
    BY DEF CancelInv, AddingInv, Observing
  <2>3. accepted \subseteq Taken(p)
    BY AloneOwns DEF CancelInv, SessionInv, InputsInv, OwnersInv
  <2>4. {inbox[i] : i \in DOMAIN inbox} \subseteq accepted /\ todo \cap Inputs \subseteq accepted
    BY DEF CancelInv, InputsInv, InboxInv, InInbox
  <2>5. todo \subseteq Calls \cup Inputs
    BY DEF CancelInv, SessionInv, TypeOK, HarnessTypeOK, CoordTypeOK, Reasons
  <2> QED
    BY <2>1, <2>2, <2>3, <2>4, <2>5
<1> QED
  BY <1>1, CancelInvariant, PTL

-----------------------------------------------------------------------
(* How prompts and turns progress.                                         *)

Progress ==
    /\ gen => gen'
    /\ \A p \in Prompts :
          /\ ts'[p] # ts[p] => Began(p)'
          /\ ts'[p].unobserved \subseteq
                ts[p].unobserved \cup {messageId'[p]} \cup {s \in Steers : steer'[s].turn = p}
          /\ handler'[p] = "idle" => handler[p] = "idle"
          /\ messageId'[p] # messageId[p] =>
                handler[p] = "idle" /\ handler'[p] = "wait"
          /\ handler'[p] = "build" => handler[p] = "build" \/ Takes(p)
          /\ handler'[p] = "submit" => handler[p] \in {"build", "submit"} /\ (handler[p] = "submit" \/ gen')
          /\ ts[p].finished => answer'[p] = answer[p]
          /\ ts'[p].finished =>
                \/ ts[p].finished
                \/ ts[p].cancelling /\ answer'[p] # "end_turn"
                \/ live = p /\ (EvaluateDone \/ GenerationFails(p))
    /\ \A s \in Steers : steer'[s].at = "submit" => steer[s].at = "submit" \/ gen
    /\ actor'.steers \subseteq actor.steers \/ gen

\* What the client does only makes the progress named above.
LEMMA ClientProgress ==
    TypeOK /\ TurnsInv /\ ClientNext => Progress
<1> SUFFICES ASSUME TypeOK, TurnsInv, ClientNext PROVE Progress
  OBVIOUS
<1>0. /\ ts \in [Prompts -> TurnStates] /\ live \in Prompts \cup {None} /\ None \notin Prompts
      /\ handler \in [Prompts -> {"idle", "wait", "build", "submit", "await",
                                   "mark", "abort", "join", "done"}]
      /\ steer \in [Steers -> [at   : {"idle", "submit", "accepted", "refused"},
                                turn : Prompts \cup {None}]]
      /\ messageId \in [Prompts -> MessageIds \cup {None}]
      /\ answer \in [Prompts -> Answers]
      /\ actor \in [at : {"pop", "evaluate", "abort", "aborting", "submit"},
                   steers : SUBSET Steers]
  BY SessionAssumption DEF TypeOK, TurnTypeOK, ClientTypeOK, RestTypeOK, ActorTypeOK
<1> USE DEF TurnsInv, EarlyInv, BeganInv, LiveInv, SteerInv, Began, Early, Progress, Takes,
        turnVars, clientVars, actorVars
<1>1. ASSUME NEW p \in Prompts, NEW id \in MessageIds, SendPrompt(p, id) PROVE Progress
  BY <1>0, <1>1 DEF SendPrompt, At
<1>2. ASSUME NEW how, SendCancel(how) PROVE Progress
  BY <1>0, <1>2 DEF SendCancel
<1>3. ASSUME NEW s \in Steers, SteerQueues(s) PROVE Progress
  BY <1>0, <1>3 DEF SteerQueues, Steerable, TurnStates
<1>4. ASSUME NEW s \in Steers, SteerInterrupts(s) PROVE Progress
  BY <1>0, <1>4 DEF SteerInterrupts, Steerable, TurnStates
<1>5. ASSUME NEW c \in Calls, NEW allow \in BOOLEAN, Decide(c, allow) PROVE Progress
  BY <1>0, <1>5 DEF Decide
<1> QED
  BY <1>1, <1>2, <1>3, <1>4, <1>5 DEF ClientNext

\* A prompt handler only makes the progress named above.
LEMMA PromptProgress ==
    TypeOK /\ TurnsInv /\ (\E p \in Prompts : PromptNext(p)) => Progress
<1> SUFFICES ASSUME TypeOK, TurnsInv, (\E p \in Prompts : PromptNext(p)) PROVE Progress
  OBVIOUS
<1>0. /\ ts \in [Prompts -> TurnStates] /\ live \in Prompts \cup {None} /\ None \notin Prompts
      /\ handler \in [Prompts -> {"idle", "wait", "build", "submit", "await",
                                   "mark", "abort", "join", "done"}]
      /\ steer \in [Steers -> [at   : {"idle", "submit", "accepted", "refused"},
                                turn : Prompts \cup {None}]]
      /\ messageId \in [Prompts -> MessageIds \cup {None}]
      /\ answer \in [Prompts -> Answers]
      /\ actor \in [at : {"pop", "evaluate", "abort", "aborting", "submit"},
                   steers : SUBSET Steers]
  BY SessionAssumption DEF TypeOK, TurnTypeOK, ClientTypeOK, RestTypeOK, ActorTypeOK
<1> USE DEF TurnsInv, EarlyInv, BeganInv, LiveInv, SteerInv, Began, Early, Progress, Takes,
        turnVars, clientVars, actorVars
<1>1. ASSUME NEW p \in Prompts, PromptBusy(p) PROVE Progress
  BY <1>0, <1>1 DEF PromptBusy, At, Unused
<1>2. ASSUME NEW p \in Prompts, PromptKnown(p) PROVE Progress
  BY <1>0, <1>2 DEF PromptKnown, At, Unused
<1>3. ASSUME NEW p \in Prompts, PromptTakesTurn(p) PROVE Progress
  <2>1. /\ live = None /\ live' = p /\ handler[p] = "wait" /\ handler'[p] = "build"
        /\ ts'[p].unobserved = {messageId[p]} /\ ts'[p].finished = FALSE
        /\ \A q \in Prompts \ {p} : ts'[q] = ts[q] /\ handler'[q] = handler[q]
    BY <1>3, TakesTurnFacts
  <2>2. /\ UNCHANGED <<steer, messageId, actor, gen, answer>> /\ messageId[p] \notin inputs
        /\ ~ts[p].finished
    BY <1>3, <2>1 DEF PromptTakesTurn, Unused, actorVars
  <2> QED
    BY <1>0, <2>1, <2>2
<1>4. ASSUME NEW p \in Prompts, EnsureGeneration(p) PROVE Progress
  BY <1>0, <1>4 DEF EnsureGeneration, At
<1>5. ASSUME NEW p \in Prompts, GenerationFails(p) PROVE Progress
  <2>1. CASE ts[p].finished
    BY <1>0, <1>5, <2>1 DEF GenerationFails, At
  <2>2. CASE ~ts[p].finished
    <3>1. Finish(p, ts[p], "error") /\ UNCHANGED <<steer, messageId, actor, gen>>
      BY <1>5, <2>2 DEF GenerationFails, actorVars
    <3>2. handler[p] = "build" /\ live = p
      BY <1>5, <2>2 DEF GenerationFails, At
    <3>3. \A q \in Prompts : \/ handler'[q] = handler[q]
                             \/ handler[q] = "build" /\ handler'[q] = "await"
      BY <1>0, <1>5 DEF GenerationFails, At
    <3>4. /\ live' = None /\ ts'[p].finished
          /\ ts'[p].unobserved = ts[p].unobserved
          /\ \A q \in Prompts \ {p} : ts'[q] = ts[q] /\ answer'[q] = answer[q]
      BY <3>1, FinishFacts
    <3> QED
      BY <1>0, <1>5, <3>1, <3>2, <3>3, <3>4
  <2> QED
    BY <2>1, <2>2
<1>6. ASSUME NEW p \in Prompts, PromptSubmits(p) PROVE Progress
  BY <1>0, <1>6 DEF PromptSubmits, At
<1>7. ASSUME NEW p \in Prompts, PromptSeesCancel(p) PROVE Progress
  BY <1>0, <1>7 DEF PromptSeesCancel, At
<1>8. ASSUME NEW p \in Prompts, PromptMarks(p) PROVE Progress
  BY <1>0, <1>8 DEF PromptMarks, At, MarkCancelled, TurnStates
<1>9. ASSUME NEW p \in Prompts, PromptAborts(p) PROVE Progress
  <2>1. AbortTurn(p) /\ UNCHANGED <<live, steer, messageId, gen, answer>> /\ actor'.steers = actor.steers
    BY <1>0, <1>9 DEF PromptAborts, actorVars
  <2>2. \A q \in Prompts : \/ handler'[q] = handler[q]
                           \/ handler[q] = "abort" /\ handler'[q] = "join"
    BY <1>0, <1>9 DEF PromptAborts, At
  <2>3. \A q \in Prompts : /\ ts'[q].finished = ts[q].finished
                           /\ ts'[q].unobserved = ts[q].unobserved
                           /\ ts'[q] # ts[q] => q = live
    BY <1>0, <2>1, AbortTurnFacts
  <2> QED
    BY <1>0, <2>1, <2>2, <2>3
<1>10. ASSUME NEW p \in Prompts, PromptAnswers(p) PROVE Progress
  BY <1>0, <1>10 DEF PromptAnswers, At
<1> QED
  BY <1>1, <1>2, <1>3, <1>4, <1>5, <1>6, <1>7, <1>8, <1>9, <1>10 DEF PromptNext

\* The rest of an abort, the timers and the notifier only make the progress named above.
LEMMA AbortProgress ==
    TypeOK /\ TurnsInv /\ AbortSteps => Progress
<1> SUFFICES ASSUME TypeOK, TurnsInv, AbortSteps PROVE Progress
  OBVIOUS
<1>0. /\ ts \in [Prompts -> TurnStates] /\ live \in Prompts \cup {None} /\ None \notin Prompts
      /\ handler \in [Prompts -> {"idle", "wait", "build", "submit", "await",
                                   "mark", "abort", "join", "done"}]
      /\ steer \in [Steers -> [at   : {"idle", "submit", "accepted", "refused"},
                                turn : Prompts \cup {None}]]
      /\ messageId \in [Prompts -> MessageIds \cup {None}]
      /\ answer \in [Prompts -> Answers]
      /\ actor \in [at : {"pop", "evaluate", "abort", "aborting", "submit"},
                   steers : SUBSET Steers]
  BY SessionAssumption DEF TypeOK, TurnTypeOK, ClientTypeOK, RestTypeOK, ActorTypeOK
<1> USE DEF TurnsInv, EarlyInv, BeganInv, LiveInv, SteerInv, Began, Early, Progress, Takes,
        turnVars, clientVars, actorVars
<1>1. ASSUME NEW p \in Prompts, AbortParks(p) PROVE Progress
  BY <1>0, <1>1 DEF AbortParks
<1>2. ASSUME NEW p \in Prompts, AbortStopsRequest(p) PROVE Progress
  BY <1>0, <1>2 DEF AbortStopsRequest
<1>3. ASSUME NEW p \in Prompts, AbortStopsOperations(p) PROVE Progress
  BY <1>0, <1>3 DEF AbortStopsOperations
<1>4. ASSUME NEW p \in Prompts, TimerFires(p) PROVE Progress
  BY <1>0, <1>4 DEF TimerFires
<1>5. CASE NotifierMarks
  BY <1>0, <1>5 DEF NotifierMarks, MarkCancelled, TurnStates
<1>6. CASE NotifierAborts
  <2>1. AbortTurn("notifier") /\ UNCHANGED <<live, steer, messageId, gen, answer>> /\ actor'.steers = actor.steers
    BY <1>0, <1>6 DEF NotifierAborts, actorVars
  <2>2. \A q \in Prompts : \/ handler'[q] = handler[q]
                           \/ handler[q] = "abort" /\ handler'[q] = "join"
    BY <1>0, <1>6 DEF NotifierAborts
  <2>3. \A q \in Prompts : /\ ts'[q].finished = ts[q].finished
                           /\ ts'[q].unobserved = ts[q].unobserved
                           /\ ts'[q] # ts[q] => q = live
    BY <1>0, <2>1, AbortTurnFacts
  <2> QED
    BY <1>0, <2>1, <2>2, <2>3
<1>7. ASSUME NEW s \in Steers, SteerSubmits(s) PROVE Progress
  BY <1>0, <1>7 DEF SteerSubmits
<1> QED
  BY <1>1, <1>2, <1>3, <1>4, <1>5, <1>6, <1>7 DEF AbortSteps, AbortNext

\* The actor only makes the progress named above.
LEMMA ActorProgress ==
    TypeOK /\ TurnsInv /\ ActorNext => Progress
<1> SUFFICES ASSUME TypeOK, TurnsInv, ActorNext PROVE Progress
  OBVIOUS
<1>0. /\ ts \in [Prompts -> TurnStates] /\ live \in Prompts \cup {None} /\ None \notin Prompts
      /\ handler \in [Prompts -> {"idle", "wait", "build", "submit", "await",
                                   "mark", "abort", "join", "done"}]
      /\ steer \in [Steers -> [at   : {"idle", "submit", "accepted", "refused"},
                                turn : Prompts \cup {None}]]
      /\ messageId \in [Prompts -> MessageIds \cup {None}]
      /\ answer \in [Prompts -> Answers]
      /\ actor \in [at : {"pop", "evaluate", "abort", "aborting", "submit"},
                   steers : SUBSET Steers]
  BY SessionAssumption DEF TypeOK, TurnTypeOK, ClientTypeOK, RestTypeOK, ActorTypeOK
<1> USE DEF TurnsInv, EarlyInv, BeganInv, LiveInv, SteerInv, Began, Early, Progress, Takes,
        turnVars, clientVars, actorVars
<1>1. CASE HandleItem
  BY <1>0, <1>1 DEF HandleItem, Bookkeep, TurnStates
<1>2. CASE HandleWake
  BY <1>0, <1>2 DEF HandleWake
<1>3. CASE HandleModelError
  BY <1>0, <1>3 DEF HandleModelError, TurnStates
<1>4. ASSUME NEW p \in Prompts, HandleGrace(p) PROVE Progress
  BY <1>0, <1>4 DEF HandleGrace
<1>5. ASSUME NEW p \in Prompts, HandleFlush(p) PROVE Progress
  <2>1. /\ UNCHANGED <<live, handler, steer, messageId, gen, answer>> /\ actor'.steers = actor.steers
        /\ \A q \in Prompts : q # live => ts'[q] = ts[q]
        /\ live # None => /\ ts'[live].finished = ts[live].finished
                          /\ ts'[live].unobserved = ts[live].unobserved
    BY <1>0, <1>5 DEF HandleFlush, TurnStates
  <2> QED
    BY <1>0, <2>1
<1>6. CASE ActorAborts
  <2>1. AbortTurn("actor") /\ UNCHANGED <<live, steer, messageId, gen, answer>> /\ actor'.steers = actor.steers
    BY <1>0, <1>6 DEF ActorAborts
  <2>2. \A q \in Prompts : \/ handler'[q] = handler[q]
                           \/ handler[q] = "abort" /\ handler'[q] = "join"
    BY <1>0, <1>6 DEF ActorAborts
  <2>3. \A q \in Prompts : /\ ts'[q].finished = ts[q].finished
                           /\ ts'[q].unobserved = ts[q].unobserved
                           /\ ts'[q] # ts[q] => q = live
    BY <1>0, <2>1, AbortTurnFacts
  <2> QED
    BY <1>0, <2>1, <2>2, <2>3
<1>7. CASE ActorAborted
  BY <1>0, <1>7 DEF ActorAborted
<1>8. CASE EvaluateWaits
  BY <1>0, <1>8 DEF EvaluateWaits
<1>9. CASE EvaluateCancelled
  <2>1. live \in Prompts /\ Finish(live, ts[live], "error")
    BY <1>0, <1>9 DEF EvaluateCancelled
  <2>2. UNCHANGED <<steer, handler, messageId, gen>> /\ actor'.steers = actor.steers
    BY <1>0, <1>9 DEF EvaluateCancelled
  <2>3. /\ live' = None /\ ts'[live].finished
        /\ ts'[live].unobserved = ts[live].unobserved
        /\ \A q \in Prompts \ {live} : ts'[q] = ts[q] /\ answer'[q] = answer[q]
    BY <2>1, FinishFacts
  <2>4. ts[live].cancelling /\ answer'[live] # "end_turn"
    BY <1>9, <2>1 DEF EvaluateCancelled, Finish, TypeOK, ClientTypeOK
  <2> QED
    BY <1>0, <2>1, <2>2, <2>3, <2>4
<1>10. CASE EvaluateSteers
  BY <1>0, <1>10 DEF EvaluateSteers, SteersDue, TurnStates
<1>11. CASE EvaluateDone
  <2>1. live \in Prompts /\ Finish(live, ts[live], IF ts[live].err THEN "error" ELSE "end_turn")
    BY <1>0, <1>11 DEF EvaluateDone
  <2>2. UNCHANGED <<steer, handler, messageId, gen>> /\ actor'.steers = actor.steers
    BY <1>0, <1>11 DEF EvaluateDone
  <2>3. /\ live' = None /\ ts'[live].finished
        /\ ts'[live].unobserved = ts[live].unobserved
        /\ \A q \in Prompts \ {live} : ts'[q] = ts[q] /\ answer'[q] = answer[q]
    BY <2>1, FinishFacts
  <2>4. EvaluateDone
    BY <1>11 DEF EvaluateDone
  <2> QED
    BY <1>0, <2>1, <2>2, <2>3, <2>4
<1>12. ASSUME NEW s \in Steers, ActorSubmits(s) PROVE Progress
  BY <1>0, <1>12 DEF ActorSubmits
<1> QED
  BY <1>1, <1>2, <1>3, <1>4, <1>5, <1>6, <1>7, <1>8, <1>9, <1>10, <1>11, <1>12 DEF ActorNext

\* The coordinator only makes the progress named above.
LEMMA CoordProgress ==
    TypeOK /\ TurnsInv /\ CoordNext => Progress
<1> SUFFICES ASSUME TypeOK, TurnsInv, CoordNext PROVE Progress
  OBVIOUS
<1>0. /\ ts \in [Prompts -> TurnStates] /\ live \in Prompts \cup {None} /\ None \notin Prompts
      /\ handler \in [Prompts -> {"idle", "wait", "build", "submit", "await",
                                   "mark", "abort", "join", "done"}]
      /\ steer \in [Steers -> [at   : {"idle", "submit", "accepted", "refused"},
                                turn : Prompts \cup {None}]]
      /\ messageId \in [Prompts -> MessageIds \cup {None}]
      /\ answer \in [Prompts -> Answers]
      /\ actor \in [at : {"pop", "evaluate", "abort", "aborting", "submit"},
                   steers : SUBSET Steers]
  BY SessionAssumption DEF TypeOK, TurnTypeOK, ClientTypeOK, RestTypeOK, ActorTypeOK
<1> USE DEF TurnsInv, EarlyInv, BeganInv, LiveInv, SteerInv, Began, Early, Progress, Takes,
        turnVars, clientVars, actorVars
<1>1. CASE AppendsInput
  BY <1>0, <1>1 DEF AppendsInput
<1>2. CASE AppendsTurn
  BY <1>0, <1>2 DEF AppendsTurn
<1>3. ASSUME NEW n \in Requests, NEW calls \in SUBSET (Calls \ known), AppendsResponse(n, calls) PROVE Progress
  BY <1>0, <1>3 DEF AppendsResponse
<1>4. ASSUME NEW c \in Calls, AppendsStatus(c) PROVE Progress
  BY <1>0, <1>4 DEF AppendsStatus
<1>5. CASE Observe
  BY <1>0, <1>5 DEF Observe, actorVars
<1>6. ASSUME NEW c \in Calls, NEW verdict \in Verdicts, AddsOperation(c, verdict) PROVE Progress
  BY <1>0, <1>6 DEF AddsOperation
<1>7. ASSUME NEW c \in Calls, StartsOperation(c) PROVE Progress
  BY <1>0, <1>7 DEF StartsOperation
<1> QED
  BY <1>1, <1>2, <1>3, <1>4, <1>5, <1>6, <1>7 DEF CoordNext

\* A request in Respond only makes the progress named above.
LEMMA RequestProgress ==
    TypeOK /\ TurnsInv /\ (\E n \in Requests : RequestNext(n)) => Progress
<1> SUFFICES ASSUME TypeOK, TurnsInv, (\E n \in Requests : RequestNext(n)) PROVE Progress
  OBVIOUS
<1>0. /\ ts \in [Prompts -> TurnStates] /\ live \in Prompts \cup {None} /\ None \notin Prompts
      /\ handler \in [Prompts -> {"idle", "wait", "build", "submit", "await",
                                   "mark", "abort", "join", "done"}]
      /\ steer \in [Steers -> [at   : {"idle", "submit", "accepted", "refused"},
                                turn : Prompts \cup {None}]]
      /\ messageId \in [Prompts -> MessageIds \cup {None}]
      /\ answer \in [Prompts -> Answers]
      /\ actor \in [at : {"pop", "evaluate", "abort", "aborting", "submit"},
                   steers : SUBSET Steers]
  BY SessionAssumption DEF TypeOK, TurnTypeOK, ClientTypeOK, RestTypeOK, ActorTypeOK
<1> USE DEF TurnsInv, EarlyInv, BeganInv, LiveInv, SteerInv, Began, Early, Progress, Takes,
        turnVars, clientVars, actorVars
<1>1. ASSUME NEW n \in Requests, Enter(n) PROVE Progress
  BY <1>0, <1>1 DEF Enter, sessionVars
<1>2. ASSUME NEW n \in Requests, NEW failed \in Failures, RespondReturns(n, failed) PROVE Progress
  BY <1>0, <1>2 DEF RespondReturns
<1> QED
  BY <1>1, <1>2 DEF RequestNext

\* A tool that ends only makes the progress named above.
LEMMA ToolProgress ==
    TypeOK /\ TurnsInv /\ (\E c \in Calls : OperationEnds(c)) => Progress
<1> SUFFICES ASSUME TypeOK, TurnsInv, NEW c \in Calls, OperationEnds(c) PROVE Progress
  OBVIOUS
<1>0. /\ ts \in [Prompts -> TurnStates] /\ live \in Prompts \cup {None} /\ None \notin Prompts
      /\ handler \in [Prompts -> {"idle", "wait", "build", "submit", "await",
                                   "mark", "abort", "join", "done"}]
      /\ steer \in [Steers -> [at   : {"idle", "submit", "accepted", "refused"},
                                turn : Prompts \cup {None}]]
      /\ messageId \in [Prompts -> MessageIds \cup {None}]
      /\ answer \in [Prompts -> Answers]
      /\ actor \in [at : {"pop", "evaluate", "abort", "aborting", "submit"},
                   steers : SUBSET Steers]
  BY SessionAssumption DEF TypeOK, TurnTypeOK, ClientTypeOK, RestTypeOK, ActorTypeOK
<1> USE DEF TurnsInv, EarlyInv, BeganInv, LiveInv, SteerInv, Began, Early, Progress, Takes,
        turnVars, clientVars, actorVars
<1> QED
  BY <1>0 DEF OperationEnds

\* Every step only makes the progress named above.
LEMMA ProgressStep == TypeOK /\ TurnsInv /\ [Next]_vars => Progress
<1>1. TypeOK /\ UNCHANGED vars => Progress
  BY DEF vars, sessionVars, turnVars, actorVars, clientVars, Progress
<1> QED
  BY <1>1, ClientProgress, PromptProgress, AbortProgress, ActorProgress, CoordProgress, RequestProgress, ToolProgress DEF Next, AbortSteps

-----------------------------------------------------------------------
(* Whom a cancel mutes.  An input that is parked belongs to a turn that is  *)
(* being cancelled, or to one that is over and whose request is over too.  *)

Sole(p) == messageId[p] # None /\ \A q \in Prompts \ {p} : messageId[q] # messageId[p]

PutAside(i) == i \in parkedReasons \/ \E q \in Prompts : i \in abort[q].inputs

Quitted(m, i) == i \notin m.reasons /\ (m.inflight => i \notin m.turnReasons)

IdleInv == \A p \in Prompts : handler[p] = "idle" => messageId[p] = None

FreshInv ==
    \A p \in Prompts : ts[p].unobserved \subseteq Taken(p) /\ (~Began(p) => ts[p] = Unused)

GenInv ==
    ~gen => /\ accepted = {} /\ actor.steers = {}
            /\ \A p \in Prompts : handler[p] # "submit"
            /\ \A s \in Steers : steer[s].at # "submit"

AsideInv ==
    \A i \in Inputs : PutAside(i) => i \in Owned

MutedInv ==
    \A p \in Prompts : Sole(p) /\ PutAside(messageId[p]) =>
        ts[p].cancelling \/ (messageId[p] \in inputs /\ ts[p].finished)

FinishedInv ==
    \A p \in Prompts : Sole(p) /\ ts[p].finished /\ ~ts[p].cancelling =>
        \/ messageId[p] \in inputs
        \/ messageId[p] \notin accepted /\ handler[p] \notin {"build", "submit"}

QuittedInv ==
    \A p \in Prompts :
        Sole(p) /\ ts[p].finished /\ ~ts[p].cancelling /\ messageId[p] \in inputs
            => Quitted(sync, messageId[p])

HeardInv ==
    IdleInv /\ FreshInv /\ GenInv /\ AsideInv /\ MutedInv /\ FinishedInv /\ QuittedInv

\* A prompt without a request has no id.
LEMMA IdleStep == TypeOK /\ TurnsInv /\ IdleInv /\ [Next]_vars => IdleInv'
BY ProgressStep DEF Progress, IdleInv

\* A turn's unobserved input is its own, and a turn begins unused.
LEMMA FreshStep == TypeOK /\ TurnsInv /\ FreshInv /\ [Next]_vars => FreshInv'
<1> SUFFICES ASSUME TypeOK, TurnsInv, FreshInv, [Next]_vars, NEW p \in Prompts
             PROVE  ts'[p].unobserved \subseteq Taken(p)' /\ (~Began(p)' => ts'[p] = Unused)
  BY DEF FreshInv, Taken, Began
<1>0. Grows /\ Progress
  BY GrowsStep, ProgressStep
<1>1. ~Began(p)' => ts'[p] = Unused
  BY <1>0 DEF Grows, Progress, FreshInv
<1>2. ts'[p].unobserved \subseteq Taken(p)'
  <2>1. CASE Began(p)
    <3>1. messageId'[p] = messageId[p] /\ ts[p].unobserved \subseteq Taken(p)
      BY <1>0, <2>1 DEF Grows, FreshInv
    <3>2. \A s \in Steers : steer[s].turn = p => steer'[s].turn = p
      <4>1. \A s \in Steers : steer[s].at = "idle" => steer[s].turn = None
        BY DEF TurnsInv, SteerInv
      <4> QED
        BY <1>0, <4>1, SessionAssumption DEF Grows
    <3> QED
      BY <1>0, <3>1, <3>2 DEF Progress, Taken
  <2>2. CASE ~Began(p)
    <3>1. ts[p].unobserved = {}
      BY <2>2 DEF FreshInv, Unused
    <3> QED
      BY <1>0, <3>1 DEF Progress, Taken
  <2> QED
    BY <2>1, <2>2
<1> QED
  BY <1>1, <1>2

\* Nothing is submitted before there is a generation.
LEMMA GenStep == TypeOK /\ TurnsInv /\ GenInv /\ [Next]_vars => GenInv'
<1> SUFFICES ASSUME TypeOK, TurnsInv, GenInv, [Next]_vars, ~gen' PROVE GenInv'
  BY DEF GenInv
<1>0. Progress /\ ~gen
  BY ProgressStep DEF Progress, TypeOK, RestTypeOK
<1>1. accepted' = {}
  <2>1. ASSUME NEW id \in Inputs, Submits(id) PROVE FALSE
    BY <1>0, <2>1 DEF Submits, GenInv
  <2>2. accepted' = accepted
    BY <2>1, LogKinds, ObserveInputs DEF LogKind, Still, Appends, AppendsInput, TakeInput, AppendsTurn,
       StartTurn, AppendsResponse, TakeResult, AppendsStatus, TranslateCall, FinishCall
  <2> QED
    BY <1>0, <2>2 DEF GenInv
<1> QED
  BY <1>0, <1>1 DEF GenInv, Progress

\* Who has the only prompt with its id had it before, or has just sent it.
LEMMA SoleBefore ==
    ASSUME TypeOK, TurnsInv, IdleInv, [Next]_vars, NEW p \in Prompts, Sole(p)'
    PROVE  \/ Sole(p) /\ messageId'[p] = messageId[p]
           \/ handler[p] = "idle" /\ handler'[p] = "wait"
BY ProgressStep DEF Progress, Sole, IdleInv

\* An owned input of p is its only one's, if p has the only prompt with its id.
LEMMA SoleOwner ==
    ASSUME TypeOK, NEW p \in Prompts, Sole(p), messageId[p] \in Owned
    PROVE  Began(p)
<1>1. messageId[p] \notin Steers
  BY DEF TypeOK, ClientTypeOK, MessageIds, Sole
<1> QED
  BY <1>1 DEF Owned, Steered, Sole

\* A prompt that is just sent does not own its input yet.
LEMMA NewOwner ==
    ASSUME TypeOK, TurnsInv, [Next]_vars, NEW p \in Prompts, Sole(p)',
           handler[p] = "idle"
    PROVE  messageId'[p] \notin Owned
<1>1. messageId'[p] \notin Steers /\ messageId'[p] # None
  BY TypeStep DEF TypeOK, ClientTypeOK, MessageIds, Sole
<1>2. ~Began(p)
  BY SessionAssumption DEF TurnsInv, EarlyInv, Early, Began, Unused
<1>3. \A q \in Prompts : Began(q) => messageId'[q] = messageId[q]
  BY GrowsStep DEF Grows
<1> QED
  BY <1>1, <1>2, <1>3 DEF Owned, Steered, Sole

\* An input is put aside when its turn is cancelled, and only then.
LEMMA AsideKinds ==
    ASSUME TypeOK, [Next]_vars, NEW i \in Inputs, PutAside(i)'
    PROVE  \/ PutAside(i)
           \/ /\ \E thread : Marks(thread)
              /\ live \in Prompts /\ ts'[live].cancelling
              /\ i \in inputs \cup ts[live].unobserved
<1>0. i \notin Calls /\ abort \in [Prompts -> Aborts]
  BY ReasonsAreDistinct DEF TypeOK, AbortTypeOK
<1>1. CASE i \in parkedReasons'
  <2>1. ASSUME NEW p \in Prompts, AbortParks(p) PROVE PutAside(i)
    <3>1. parkedReasons' = parkedReasons \cup (CallsOf(sync) \cup abort[p].inputs)
      BY <2>1 DEF AbortParks, Park
    <3>2. CallsOf(sync) \subseteq Calls
      BY DEF CallsOf, TypeOK, LogTypeOK, MirrorType
    <3> QED
      BY <1>0, <1>1, <3>1, <3>2 DEF PutAside
  <2>2. CASE Observe
    BY <1>0, <1>1, <2>2, ObserveParks DEF PutAside
  <2> QED
    BY <1>1, <2>1, <2>2, ParksKinds DEF Parks, PutAside
<1>2. ASSUME NEW q \in Prompts, i \in abort'[q].inputs
      PROVE  \/ PutAside(i)
             \/ /\ \E thread : Marks(thread)
                /\ live \in Prompts /\ ts'[live].cancelling
                /\ i \in inputs \cup ts[live].unobserved
  <2>1. CASE i \in abort[q].inputs
    BY <2>1 DEF PutAside
  <2>2. CASE i \notin abort[q].inputs
    <3>1. ASSUME NEW p \in Prompts, AbortNext(p) PROVE FALSE
      BY <1>0, <1>2, <2>2, <3>1 DEF AbortNext, AbortParks, AbortStopsRequest, AbortStopsOperations, Aborts
    <3>2. ASSUME NEW p \in Prompts, PromptTakesTurn(p) PROVE FALSE
      BY <1>2, <2>2, <3>2 DEF PromptTakesTurn, abortVars
    <3>3. PICK thread : Marks(thread)
      BY <1>2, <2>2, <3>1, <3>2, CancelKinds DEF CancelKind, NoCancel
    <3>4. AbortTurn(thread)
      BY <3>3 DEF Marks
    <3> QED
      BY <1>2, <2>2, <3>3, <3>4, AbortTurnFacts
  <2> QED
    BY <2>1, <2>2
<1> QED
  BY <1>1, <1>2 DEF PutAside

\* What is put aside is owned.
LEMMA AsideStep ==
    TypeOK /\ TurnsInv /\ InputsInv /\ FreshInv /\ AsideInv /\ [Next]_vars => AsideInv'
<1> SUFFICES ASSUME TypeOK, TurnsInv, InputsInv, FreshInv, AsideInv, [Next]_vars,
                    NEW i \in Inputs, PutAside(i)'
             PROVE  i \in Owned'
  BY DEF AsideInv
<1>1. Owned \subseteq Owned'
  <2>1. \A s \in Steers : steer[s].turn # None => steer'[s].turn # None
    BY GrowsStep DEF Grows, TypeOK, TurnTypeOK
  <2> QED
    BY <2>1, GrowsStep DEF Grows, Owned, Steered
<1>2. inputs \subseteq Owned
  BY DEF InputsInv, InboxInv, OwnersInv
<1>3. live \in Prompts => ts[live].unobserved \subseteq Owned
  <2>1. ASSUME live \in Prompts PROVE Taken(live) \subseteq Owned
    BY <2>1, SessionAssumption DEF Taken, Owned, Steered, Began
  <2> QED
    BY <2>1 DEF FreshInv
<1> QED
  BY <1>1, <1>2, <1>3, AsideKinds DEF AsideInv

\* What is put aside of a sole prompt is cancelled, or over.
LEMMA MutedStep ==
    TypeOK /\ TurnsInv /\ InputsInv /\ HeardInv /\ [Next]_vars => MutedInv'
<1> SUFFICES ASSUME TypeOK, TurnsInv, InputsInv, HeardInv, [Next]_vars,
                    NEW p \in Prompts, Sole(p)', NEW i, i = messageId'[p],
                    \/ i \in parkedReasons'
                    \/ \E q \in Prompts : i \in abort'[q].inputs
             PROVE  ts'[p].cancelling \/ (i \in inputs' /\ ts'[p].finished)
  BY DEF MutedInv, Sole, PutAside
<1>0. i \in Inputs /\ Grows /\ inputs \subseteq inputs' /\ TypeOK'
  BY TypeStep, GrowsStep, InputsGrow DEF TypeOK, ClientTypeOK, MessageIds, Sole
<1>1. PutAside(i)'
  BY DEF PutAside
<1>2. CASE handler[p] = "idle" /\ handler'[p] = "wait"
  <2>1. ~PutAside(i)
    BY <1>0, <1>2, NewOwner DEF HeardInv, AsideInv
  <2>2. \E thread : Marks(thread)
    BY <1>0, <1>1, <2>1, AsideKinds
  <2>3. messageId'[p] = None
    BY <1>2, <2>2 DEF Marks, HeardInv, IdleInv
  <2> QED
    BY <2>3 DEF Sole
<1>3. CASE Sole(p) /\ messageId'[p] = messageId[p]
  <2>1. CASE PutAside(i)
    BY <1>0, <1>3, <2>1 DEF HeardInv, MutedInv, Grows
  <2>2. CASE live \in Prompts /\ ts'[live].cancelling /\ i \in inputs
    <3>1. Began(p)
      BY <1>3, <2>2, SoleOwner DEF InputsInv, InboxInv, OwnersInv
    <3> QED
      BY <1>0, <2>2, <3>1 DEF Began, Grows
  <2>3. CASE live \in Prompts /\ ts'[live].cancelling /\ i \in ts[live].unobserved
    <3>1. i \in Taken(live) /\ i \notin Steers
      BY <1>0, <1>3, <2>3 DEF HeardInv, FreshInv, TypeOK, ClientTypeOK, MessageIds, Sole
    <3>2. live = p
      BY <1>3, <2>3, <3>1 DEF Taken, Sole
    <3> QED
      BY <2>3, <3>2
  <2>4. \/ PutAside(i)
        \/ live \in Prompts /\ ts'[live].cancelling /\ i \in inputs \cup ts[live].unobserved
    BY <1>0, <1>1, AsideKinds
  <2> QED
    BY <2>1, <2>2, <2>3, <2>4
<1> QED
  BY <1>2, <1>3, SoleBefore DEF HeardInv

\* A sole prompt's input is submitted by its own handler.
LEMMA SoleSubmits ==
    ASSUME TypeOK, InputsInv, NEW p \in Prompts, Sole(p), Submits(messageId[p])
    PROVE  handler[p] = "submit"
<1>1. messageId[p] \notin Steers
  BY DEF TypeOK, ClientTypeOK, MessageIds, Sole
<1> QED
  BY <1>1 DEF Submits, Sole, TypeOK, ActorTypeOK

\* What a turn that ends now, uncancelled, is about.
LEMMA FinishesNow ==
    ASSUME TypeOK, TurnsInv, UnobservedInv, GenInv, [Next]_vars, NEW p \in Prompts,
           ts'[p].finished, ~ts[p].finished, ~ts[p].cancelling
    PROVE  \/ EvaluateDone /\ live = p /\ Seen(messageId[p])
           \/ GenerationFails(p) /\ accepted = {}
<1>1. live = p /\ (EvaluateDone \/ GenerationFails(p))
  BY ProgressStep DEF Progress
<1>2. CASE EvaluateDone
  <2>1. ts[p].unobserved = {}
    BY <1>1, <1>2 DEF EvaluateDone, TurnDone
  <2> QED
    BY <1>1, <1>2, <2>1, SessionAssumption DEF UnobservedInv, Taken
<1>3. CASE GenerationFails(p)
  BY <1>3 DEF GenerationFails, GenInv
<1> QED
  BY <1>1, <1>2, <1>3

\* A turn that is over, uncancelled, has its input in the log, or never will.
LEMMA FinishedStep ==
    TypeOK /\ TurnsInv /\ InputsInv /\ UnobservedInv /\ HeardInv /\ [Next]_vars => FinishedInv'
<1> SUFFICES ASSUME TypeOK, TurnsInv, InputsInv, UnobservedInv, HeardInv, [Next]_vars,
                    NEW p \in Prompts, Sole(p)', ts'[p].finished, ~ts'[p].cancelling
             PROVE  \/ messageId'[p] \in inputs'
                    \/ messageId'[p] \notin accepted' /\ handler'[p] \notin {"build", "submit"}
  BY DEF FinishedInv, Sole
<1>0. Grows /\ Progress /\ inputs \subseteq inputs' /\ ~ts[p].cancelling
  BY GrowsStep, ProgressStep, InputsGrow DEF Grows
<1>1. handler'[p] # "wait"
  BY TurnsStep DEF TurnsInv, EarlyInv, Early, Unused
<1>2. Sole(p) /\ messageId'[p] = messageId[p]
  BY <1>1, SoleBefore DEF HeardInv
<1>3. CASE ts[p].finished
  <2>1. CASE messageId[p] \in inputs
    BY <1>0, <1>2, <2>1
  <2>2. CASE messageId[p] \notin accepted /\ handler[p] \notin {"build", "submit"}
    <3>1. ~Takes(p)
      BY <1>3 DEF TurnsInv, EarlyInv, Early, Takes, Unused
    <3>2. messageId[p] \notin accepted'
      <4>1. ~Submits(messageId[p])
        BY <1>2, <2>2, SoleSubmits
      <4>2. ASSUME NEW id \in Inputs, Submits(id) PROVE accepted' = accepted \cup {id}
        BY <4>2 DEF Submits, SubmitInput
      <4>3. Still \/ Appends \/ Observe => accepted' = accepted
        BY ObserveInputs DEF Still, Appends, AppendsInput, TakeInput, AppendsTurn, StartTurn,
           AppendsResponse, TakeResult, AppendsStatus, TranslateCall, FinishCall
      <4> QED
        BY <2>2, <4>1, <4>2, <4>3, LogKinds DEF LogKind
    <3> QED
      BY <1>0, <1>2, <2>2, <3>1, <3>2 DEF Progress
  <2> QED
    BY <1>0, <1>2, <1>3, <2>1, <2>2 DEF HeardInv, FinishedInv
<1>4. CASE ~ts[p].finished
  <2>1. CASE Seen(messageId[p])
    BY <1>0, <1>2, <2>1 DEF Seen
  <2>2. CASE GenerationFails(p) /\ accepted = {}
    BY <1>2, <2>2 DEF GenerationFails, At, coordVars, TypeOK, ClientTypeOK
  <2> QED
    BY <1>0, <1>4, <2>1, <2>2, FinishesNow DEF HeardInv
<1> QED
  BY <1>3, <1>4

\* Only an input's own item makes it a reason of a request again.
LEMMA ApplyQuits ==
    ASSUME NEW m \in MirrorType, NEW item \in Items, NEW i \in Inputs, Quitted(m, i),
           item # InputItem(i)
    PROVE  Quitted(Apply(m, item), i)
<1>0. i \notin Calls
  BY ReasonsAreDistinct
<1>1. CASE item.kind = "input"
  <2>1. item = InputItem(item.id)
    BY <1>1 DEF Items, InputItem
  <2> QED
    BY <1>1, <2>1 DEF Apply, ApplyInput, MirrorType, Quitted
<1>2. CASE item.kind = "turn"
  BY <1>2 DEF Apply, ApplyTurn, MirrorType, Quitted
<1>3. CASE item.kind = "response"
  BY <1>3 DEF Apply, ApplyResponse, MirrorType, Quitted
<1>4. CASE item.kind = "status"
  BY <1>0, <1>4 DEF Apply, ApplyStatus, MirrorType, Quitted, Items
<1> QED
  BY <1>1, <1>2, <1>3, <1>4 DEF Items

\* What the actor sees quitted, and is not to handle again, is quitted.
LEMMA TrailQuits ==
    ASSUME TypeOK, InputsInv, ActorIsBehindByItsQueue, NEW i \in Inputs, Seen(i), Quitted(am, i)
    PROVE  Quitted(sync, i)
<1> DEFINE t == Trail(am, events)
           S == {n \in Nat : n <= Len(events) => t[n] \in MirrorType /\ Quitted(t[n], i)}
<1>0. events \in Seq(Events) /\ Len(events) \in Nat /\ am \in MirrorType
  BY DEF TypeOK, RestTypeOK, ActorTypeOK
<1>1. \A n \in 0 .. Len(events) : t[n] = IF n = 0 THEN am ELSE Handled(t[n - 1], events[n])
  BY <1>0, TrailDef DEF IsTrail
<1>2. 0 \in S
  BY <1>0, <1>1
<1> HIDE DEF t
<1>3. ASSUME NEW n \in Nat, n \in S PROVE n + 1 \in S
  <2> SUFFICES ASSUME n + 1 <= Len(events)
               PROVE  t[n + 1] \in MirrorType /\ Quitted(t[n + 1], i)
    OBVIOUS
  <2>1. /\ n + 1 \in DOMAIN events /\ n <= Len(events) /\ n + 1 \in 0 .. Len(events) /\ n + 1 # 0
        /\ (n + 1) - 1 = n /\ events[n + 1] \in Events
    BY <1>0
  <2>2. t[n + 1] = Handled(t[n], events[n + 1])
    BY <1>1, <2>1
  <2>3. t[n] \in MirrorType /\ Quitted(t[n], i)
    BY <1>3, <2>1
  <2>4. events[n + 1] # InputEvent(i)
    BY <2>1 DEF Seen
  <2>5. CASE events[n + 1].kind = "item"
    <3>1. events[n + 1].item \in Items /\ events[n + 1].item # InputItem(i)
      BY <2>1, <2>4, <2>5 DEF Events, InputEvent
    <3> QED
      BY <2>2, <2>3, <2>5, <3>1, ApplyQuits, ApplyType DEF Handled
  <2>6. CASE events[n + 1].kind # "item"
    BY <2>2, <2>3, <2>6 DEF Handled
  <2> QED
    BY <2>5, <2>6
<1>4. \A n \in Nat : n \in S
  <2> HIDE DEF S
  <2> QED
    BY <1>2, <1>3, SetInduction
<1>5. t[Len(events)] \in MirrorType /\ Quitted(t[Len(events)], i)
  BY <1>0, <1>4
<1>6. appended # <<>> => Head(appended) \in Items /\ Head(appended) # InputItem(i)
  <2>1. ~InputAppended(i)
    BY DEF InputsInv, InboxInv, Seen
  <2> QED
    BY <2>1, ObservedItemType DEF InputAppended, TypeOK, HarnessTypeOK
<1> QED
  BY <1>5, <1>6, ApplyQuits DEF ActorIsBehindByItsQueue, t

\* A request never answers an input again once it is quitted.
LEMMA QuittedStep ==
    TypeOK /\ TurnsInv /\ InputsInv /\ UnobservedInv /\ ActorIsBehindByItsQueue /\ HeardInv
    /\ [Next]_vars => QuittedInv'
<1> SUFFICES ASSUME TypeOK, TurnsInv, InputsInv, UnobservedInv, ActorIsBehindByItsQueue,
                    HeardInv, [Next]_vars, NEW p \in Prompts,
                    Sole(p)', ts'[p].finished, ~ts'[p].cancelling, messageId'[p] \in inputs'
             PROVE  /\ messageId'[p] \notin sync'.reasons
                    /\ sync'.inflight => messageId'[p] \notin sync'.turnReasons
  BY DEF QuittedInv, Quitted
<1>0. Grows /\ ~ts[p].cancelling
  BY GrowsStep DEF Grows
<1>1. handler'[p] # "wait"
  BY TurnsStep DEF TurnsInv, EarlyInv, Early, Unused
<1>2. Sole(p) /\ messageId'[p] = messageId[p] /\ messageId[p] \in Inputs
  BY <1>1, SoleBefore DEF HeardInv, Sole, TypeOK, ClientTypeOK, MessageIds
<1>3. CASE ts[p].finished
  <2>1. messageId[p] \in inputs
    <3>1. messageId[p] \notin inputs => messageId[p] \notin accepted
      BY <1>0, <1>2, <1>3 DEF HeardInv, FinishedInv
    <3>2. messageId[p] \notin accepted => ~InputAppended(messageId[p])
      BY <1>2 DEF InputsInv, InboxInv
    <3>3. inputs' \subseteq inputs \cup {i \in Inputs : InputAppended(i)}
      BY LogKinds, ObserveInputs DEF LogKind, Still, Submits, Appends, AppendsInput, AppendsTurn,
         AppendsResponse, AppendsStatus
    <3> QED
      BY <1>2, <3>1, <3>2, <3>3
  <2>2. Quitted(sync, messageId[p])
    BY <1>0, <1>2, <1>3, <2>1 DEF HeardInv, QuittedInv
  <2>3. CASE Quiet \/ Observe
    BY <1>2, <2>2, <2>3, ObserveInputs DEF Quiet, Scheduling, Quitted
  <2>4. CASE Appends
    <3>1. sync' = Apply(sync, Head(appended')) /\ appended' # <<>> /\ appended' \in Seq(Items)
      BY <2>4, AppendsFold, TypeStep DEF TypeOK, HarnessTypeOK, CoordTypeOK
    <3>2. Head(appended') \in Items /\ sync \in MirrorType
      BY <3>1 DEF TypeOK, LogTypeOK
    <3>3. Head(appended') # InputItem(messageId[p])
      <4>1. InboxInv' /\ inputs \subseteq inputs'
        BY InboxStep, InputsGrow DEF InputsInv
      <4>2. \A i \in Inputs : InputAppended(i)' => i \notin inputs'
        BY <4>1 DEF InboxInv
      <4> QED
        BY <1>2, <2>1, <3>1, <4>1, <4>2 DEF InputAppended
    <3>4. Quitted(Apply(sync, Head(appended')), messageId[p])
      BY <1>2, <2>2, <3>2, <3>3, ApplyQuits
    <3> QED
      BY <1>2, <3>1, <3>4 DEF Quitted
  <2> QED
    BY <2>3, <2>4, StepKinds
<1>4. CASE ~ts[p].finished
  <2>1. CASE EvaluateDone /\ live = p /\ Seen(messageId[p])
    <3>1. Quitted(am, messageId[p]) /\ sync' = sync
      BY <2>1 DEF EvaluateDone, TurnDone, Quiescent, Quitted, logVars
    <3> QED
      BY <1>2, <2>1, <3>1, TrailQuits DEF Quitted
  <2>2. CASE GenerationFails(p) /\ accepted = {}
    BY <1>2, <2>2 DEF GenerationFails, logVars, InputsInv, InboxInv
  <2> QED
    BY <1>0, <1>4, <2>1, <2>2, FinishesNow DEF HeardInv
<1> QED
  BY <1>3, <1>4

\* Nothing is put aside at the start.
LEMMA InitHeard == Init => HeardInv
BY DEF Init, CoordInit, GateInit, HeardInv, IdleInv, FreshInv, GenInv, AsideInv, MutedInv,
   FinishedInv, QuittedInv, Sole, PutAside, Unused

TurnInv ==
    /\ SessionInv /\ TurnsInv /\ InputsInv /\ UnobservedInv /\ ActorIsBehindByItsQueue
    /\ HeardInv

\* The invariant about turns and their inputs holds in every state.
LEMMA TurnInvariant == Spec => []TurnInv
<1>1. Init => TurnInv
  <2>1. Init => UnobservedInv
    BY DEF Init, UnobservedInv
  <2> QED
    BY <2>1, InitType, InitScheduling, InitRequests, InitTurns, InitInputs, InitBehind, InitHeard
       DEF TurnInv, SessionInv
<1>2. TurnInv /\ [Next]_vars => (TurnsInv /\ InputsInv /\ UnobservedInv /\ ActorIsBehindByItsQueue)'
  BY TurnsStep, InputsStep, UnobservedStep, BehindStep DEF TurnInv, SessionInv
<1>3. TurnInv /\ [Next]_vars => HeardInv'
  <2>1. TurnInv /\ [Next]_vars => (IdleInv /\ FreshInv /\ GenInv /\ AsideInv)'
    BY IdleStep, FreshStep, GenStep, AsideStep DEF TurnInv, SessionInv, HeardInv
  <2>2. TurnInv /\ [Next]_vars => (MutedInv /\ FinishedInv /\ QuittedInv)'
    BY MutedStep, FinishedStep, QuittedStep DEF TurnInv, SessionInv
  <2> QED
    BY <2>1, <2>2 DEF HeardInv
<1>4. TurnInv /\ SessionInv' /\ [Next]_vars => TurnInv'
  BY <1>2, <1>3 DEF TurnInv
<1> QED
  BY <1>1, <1>4, SessionInvariant, PTL DEF Spec

-----------------------------------------------------------------------
(* What becomes of a request.                                              *)

GateKind ==
    \/ UNCHANGED <<userStop, outcome>>
       /\ \A n \in Requests : stage'[n] = "answered" <=> stage[n] = "answered"
    \/ \E p \in Prompts : AbortStopsRequest(p)
    \/ \E n \in Requests : EnterMuted(n, sync.turnReasons)
    \/ \E n \in Requests, failed \in Failures : RespondReturns(n, failed)

\* A request is answered when it enters muted or returns, and stopped by an
\* abort.
LEMMA GateKinds ==
    TypeOK /\ [Next]_vars => GateKind /\ superseded \subseteq superseded'
<1> SUFFICES ASSUME TypeOK, [Next]_vars PROVE GateKind /\ superseded \subseteq superseded'
  OBVIOUS
<1>0. stage \in [Requests -> Stages]
  BY DEF TypeOK, GateTypeOK
<1> USE DEF GateKind
<1>1. ASSUME NEW n \in Requests, RequestNext(n) PROVE GateKind /\ superseded \subseteq superseded'
  BY <1>0, <1>1 DEF RequestNext, Enter, EnterMuted, EnterProvider, RespondReturns, Return
<1>2. CASE UNCHANGED vars
  BY <1>2 DEF vars, gateVars
<1>3. CASE ClientNext \/ \E p \in Prompts : PromptNext(p)
  BY <1>3 DEF ClientNext, SendPrompt, SendCancel, SteerQueues, SteerInterrupts, Decide, gateVars,
     PromptNext, PromptBusy, PromptKnown, PromptTakesTurn, EnsureGeneration,
     GenerationFails, PromptSubmits, PromptSeesCancel, PromptMarks, PromptAborts, PromptAnswers
<1>4. CASE AbortSteps
  BY <1>4 DEF AbortSteps, AbortNext, AbortParks, Park, AbortStopsRequest, CancelInflight,
     AbortStopsOperations, TimerFires, NotifierMarks, NotifierAborts, SteerSubmits, gateVars
<1>5. CASE ActorNext
  BY <1>5 DEF ActorNext, HandleItem, HandleWake, HandleModelError, HandleGrace, HandleFlush,
     ActorAborts, ActorAborted, EvaluateWaits, EvaluateCancelled, EvaluateSteers, EvaluateDone,
     ActorSubmits, gateVars
<1>6. CASE CoordNext
  <2>1. CASE Observe
    <3>1. Head(appended) \in Items /\ Index(Head(appended))
      BY <2>1, ObservedItemType DEF TypeOK, HarnessTypeOK, Observe, ObserversDone
    <3>2. CASE UNCHANGED gateVars
      BY <3>2 DEF gateVars
    <3>3. ASSUME NEW reasons, Park(reasons) PROVE GateKind /\ superseded \subseteq superseded'
      BY <3>3 DEF Park
    <3>4. ASSUME NEW n, Call(n) PROVE GateKind /\ superseded \subseteq superseded'
      BY <1>0, <3>4 DEF Call, Stages
    <3> QED
      BY <3>1, <3>2, <3>3, <3>4 DEF Index, IndexInput, IndexTurn, IndexResponse, IndexStatus, Items
  <2> QED
    BY <1>6, <2>1 DEF CoordNext, AppendsInput, AppendsTurn, Supersede, AppendsResponse, AppendsStatus,
       AddsOperation, StartsOperation, gateVars
<1>7. ASSUME NEW c \in Calls, OperationEnds(c) PROVE GateKind /\ superseded \subseteq superseded'
  BY <1>7 DEF OperationEnds, gateVars
<1> QED
  BY <1>1, <1>2, <1>3, <1>4, <1>5, <1>6, <1>7 DEF Next, AbortSteps

\* Only Respond's entry mutes a request.
LEMMA MutesKinds ==
    ASSUME TypeOK, [Next]_vars, NEW n \in Requests, outcome'[n] # outcome[n], outcome'[n] = "muted"
    PROVE  EnterMuted(n, sync.turnReasons)
<1>0. outcome \in [Requests -> Outcomes]
  BY DEF TypeOK, GateTypeOK
<1>1. ASSUME NEW m \in Requests, EnterMuted(m, sync.turnReasons) PROVE m = n
  BY <1>0, <1>1 DEF EnterMuted
<1>2. ASSUME NEW m \in Requests, NEW failed \in Failures, RespondReturns(m, failed) PROVE FALSE
  <2>1. outcome' = [outcome EXCEPT ![m] = Verdict(m, failed)] /\ Verdict(m, failed) # "muted"
    BY <1>2 DEF RespondReturns, Return, Verdict
  <2> QED
    BY <1>0, <2>1
<1>3. ASSUME NEW p \in Prompts, AbortStopsRequest(p) PROVE FALSE
  BY <1>3 DEF AbortStopsRequest, CancelInflight
<1> QED
  BY <1>1, <1>2, <1>3, GateKinds DEF GateKind

\* For any prompts, steers, calls and requests: the cancel of one prompt never
\* mutes the request that answers another.
THEOREM CancelMutesNoOtherPrompt == Spec => NewPromptIsHeard
<1>1. ASSUME TurnInv, [Next]_vars, NEW n \in Requests, NEW p \in Prompts,
             outcome[n] # outcome'[n], outcome'[n] = "muted", n \notin superseded,
             messageId[p] \in sync.turnReasons,
             \A q \in Prompts \ {p} : messageId[q] # messageId[p]
      PROVE  ts[p].cancelling
  <2>0. sync \in MirrorType /\ None \notin Reasons
    BY <1>1, SessionAssumption DEF TurnInv, SessionInv, TypeOK, LogTypeOK
  <2>1. Sole(p)
    BY <1>1, <2>0 DEF Sole, MirrorType
  <2>2. stage[n] = "called" /\ messageId[p] \in parkedReasons
    BY <1>1, MutesKinds DEF EnterMuted, Muted, TurnInv, SessionInv
  <2>3. sync.inflight
    <3>1. n = current /\ n # 0
      BY <1>1, <2>2, SessionAssumption DEF TurnInv, SessionInv, RequestsInv, Live
    <3> QED
      BY <1>1, <3>1 DEF TurnInv, SessionInv, SchedulingInv, SyncIsTheCoordinator
  <2>4. ~Quitted(sync, messageId[p])
    BY <1>1, <2>3 DEF Quitted
  <2> QED
    BY <1>1, <2>1, <2>2, <2>4 DEF TurnInv, HeardInv, MutedInv, QuittedInv, PutAside
<1>2. TurnInv /\ [Next]_vars => \A n \in Requests, p \in Prompts :
          /\ outcome[n] # outcome'[n] /\ outcome'[n] = "muted" /\ n \notin superseded
          /\ messageId[p] \in sync.turnReasons
          /\ \A q \in Prompts \ {p} : messageId[q] # messageId[p]
          => ts[p].cancelling
  BY <1>1
<1> QED
  BY <1>2, TurnInvariant, PTL DEF Spec, NewPromptIsHeard

-----------------------------------------------------------------------
(* What a normal end of a turn means, when no turn was cancelled: all the   *)
(* turn has taken was answered by the provider.                            *)

NoAbort == \A p \in Prompts : ~ts[p].cancelling

OutcomeInv ==
    \A n \in Requests :
        /\ stage[n] = "answered" <=> outcome[n] # "none"
        /\ outcome[n] = "dropped" => n \in superseded

OpenGateInv ==
    NoAbort => /\ ~parked /\ userStop = None /\ ~refuseNew
               /\ \A n \in Requests : outcome[n] \notin {"muted", "cancelled"}

Failed(k) == \E j \in 1 .. k : events[j].kind = "modelError"

Settled(i, k) == i \in delivered \/ ts[live].err \/ Failed(k)

TodoInv ==
    live # None /\ NoAbort => \A i \in Taken(live) \cap inputs :
        /\ i \in todo \/ current # 0 \/ Settled(i, Len(events))
        /\ current # 0 /\ outcome[current] = "errored" => i \in todo \/ Settled(i, Len(events))

Expected(m, i) == i \in m.reasons \/ m.inflight

ActorInv ==
    live # None /\ NoAbort => \A i \in Taken(live) \cap inputs : \A k \in 0 .. Len(events) :
        \/ Expected(Trail(am, events)[k], i)
        \/ Settled(i, k)
        \/ \E j \in k + 1 .. Len(events) : events[j] = InputEvent(i)

DoneInv ==
    NoAbort => \A p \in Prompts :
        ts[p].finished /\ answer[p] = "end_turn" => Taken(p) \subseteq delivered

AnswerInv == OutcomeInv /\ OpenGateInv /\ TodoInv /\ ActorInv /\ DoneInv

\* A request has an outcome when it is answered.
LEMMA OutcomeStep == TypeOK /\ OutcomeInv /\ [Next]_vars => OutcomeInv'
<1> SUFFICES ASSUME TypeOK, OutcomeInv, [Next]_vars PROVE OutcomeInv'
  OBVIOUS
<1>0. outcome \in [Requests -> Outcomes] /\ stage \in [Requests -> Stages]
      /\ GateKind /\ superseded \subseteq superseded'
  BY GateKinds DEF TypeOK, GateTypeOK
<1>1. CASE UNCHANGED <<userStop, outcome>>
           /\ \A n \in Requests : stage'[n] = "answered" <=> stage[n] = "answered"
  BY <1>0, <1>1 DEF OutcomeInv
<1>2. ASSUME NEW p \in Prompts, AbortStopsRequest(p) PROVE OutcomeInv'
  BY <1>2 DEF AbortStopsRequest, CancelInflight, OutcomeInv
<1>3. ASSUME NEW n \in Requests, EnterMuted(n, sync.turnReasons) PROVE OutcomeInv'
  BY <1>0, <1>3 DEF EnterMuted, OutcomeInv
<1>4. ASSUME NEW n \in Requests, NEW failed \in Failures, RespondReturns(n, failed) PROVE OutcomeInv'
  <2>1. /\ stage' = [stage EXCEPT ![n] = "answered"]
        /\ outcome' = [outcome EXCEPT ![n] = Verdict(n, failed)]
        /\ superseded' = superseded
    BY <1>4 DEF RespondReturns, Return
  <2>2. Verdict(n, failed) # "none" /\ (Verdict(n, failed) = "dropped" => n \in superseded)
    BY DEF Verdict
  <2> QED
    BY <1>0, <2>1, <2>2 DEF OutcomeInv
<1> QED
  BY <1>0, <1>1, <1>2, <1>3, <1>4 DEF GateKind

\* Without an abort the Gate mutes and stops nothing.
LEMMA OpenGateStep ==
    TypeOK /\ TurnsInv /\ OpenGateInv /\ [Next]_vars => OpenGateInv'
<1> SUFFICES ASSUME TypeOK, TurnsInv, OpenGateInv, [Next]_vars, NoAbort'
             PROVE  /\ ~parked' /\ userStop' = None /\ ~refuseNew'
                    /\ \A n \in Requests : outcome'[n] \notin {"muted", "cancelled"}
  BY DEF OpenGateInv
<1>0. NoAbort /\ ~parked /\ userStop = None /\ ~refuseNew
      /\ \A n \in Requests : outcome[n] \notin {"muted", "cancelled"}
  BY GrowsStep DEF Grows, NoAbort, OpenGateInv
<1>1. \A p \in Prompts : abort[p].at = "none"
  BY <1>0 DEF TurnsInv, AbortInv, NoAbort
<1>2. ~parked'
  <2>1. ASSUME NEW p \in Prompts, AbortParks(p) PROVE FALSE
    BY <1>1, <2>1 DEF AbortParks
  <2>2. Observe => ~parked'
    BY <1>0, ObserveParks
  <2> QED
    BY <1>0, <2>1, <2>2, ParksKinds DEF Parks
<1>3. ~refuseNew'
  <2>1. ASSUME NEW thread, Marks(thread) PROVE ~refuseNew'
    <3>1. AbortTurn(thread)
      BY <2>1 DEF Marks
    <3>2. \/ UNCHANGED <<ts, refuseNew, cancelledCalls, abort>>
          \/ live \in Prompts /\ abort'[live].at # "none"
      BY <3>1, AbortTurnFacts
    <3>3. live \in Prompts => abort'[live].at = "none"
      BY TurnsStep DEF TurnsInv, AbortInv, NoAbort
    <3> QED
      BY <1>0, <3>2, <3>3
  <2>2. ASSUME NEW p \in Prompts, PromptTakesTurn(p) PROVE ~refuseNew'
    BY <2>2 DEF PromptTakesTurn
  <2>3. ASSUME NEW p \in Prompts, AbortNext(p) PROVE FALSE
    BY <1>1, <2>3 DEF AbortNext, AbortParks, AbortStopsRequest, AbortStopsOperations
  <2> QED
    BY <1>0, <2>1, <2>2, <2>3, CancelKinds DEF CancelKind, NoCancel
<1>4. userStop' = None /\ \A n \in Requests : outcome'[n] \notin {"muted", "cancelled"}
  <2>0. outcome \in [Requests -> Outcomes]
    BY DEF TypeOK, GateTypeOK
  <2>1. ASSUME NEW p \in Prompts, AbortStopsRequest(p) PROVE FALSE
    BY <1>1, <2>1 DEF AbortStopsRequest
  <2>2. ASSUME NEW n \in Requests, EnterMuted(n, sync.turnReasons) PROVE FALSE
    BY <1>0, <2>2 DEF EnterMuted, Muted
  <2>3. ASSUME NEW n \in Requests, NEW failed \in Failures, RespondReturns(n, failed)
        PROVE  userStop' = None /\ \A m \in Requests : outcome'[m] \notin {"muted", "cancelled"}
    <3>1. outcome' = [outcome EXCEPT ![n] = Verdict(n, failed)] /\ userStop' = userStop
      BY <2>3 DEF RespondReturns, Return
    <3>2. Verdict(n, failed) \notin {"muted", "cancelled"}
      BY <1>0, NoneIsNoRequest DEF Verdict
    <3> QED
      BY <1>0, <2>0, <3>1, <3>2
  <2> QED
    BY <1>0, <2>1, <2>2, <2>3, GateKinds DEF GateKind
<1> QED
  BY <1>2, <1>3, <1>4

\* The actor takes a failure off its queue only to record it.
LEMMA HandlesError ==
    ASSUME TypeOK, [Next]_vars, Pops, Head(events).kind = "modelError"
    PROVE  HandleModelError
<1>0. events \in Seq(Events) /\ events' # events /\ \A e : events' # Append(events, e)
  BY PopsFacts, PushFacts DEF TypeOK, RestTypeOK, Push
<1> USE DEF HandleNext, sessionVars, Push
<1>1. CASE UNCHANGED vars
  BY <1>0, <1>1 DEF vars
<1>2. CASE ClientNext \/ \E p \in Prompts : PromptNext(p)
  BY <1>0, <1>2 DEF ClientNext, SendPrompt, SendCancel, SteerQueues, SteerInterrupts, Decide,
     PromptNext, PromptBusy, PromptKnown, PromptTakesTurn, EnsureGeneration,
     GenerationFails, PromptSubmits, PromptSeesCancel, PromptMarks, PromptAborts, PromptAnswers
<1>3. CASE AbortSteps
  BY <1>0, <1>3 DEF AbortSteps, AbortNext, AbortParks, AbortStopsRequest,
     AbortStopsOperations, TimerFires, NotifierMarks, NotifierAborts, SteerSubmits
<1>4. CASE ActorNext
  BY <1>0, <1>4 DEF ActorNext, HandleItem, HandleWake, HandleGrace, HandleFlush,
     ActorAborts, ActorAborted, EvaluateWaits, EvaluateCancelled, EvaluateSteers, EvaluateDone,
     ActorSubmits
<1>5. CASE CoordNext
  BY <1>0, <1>5 DEF CoordNext, AppendsInput, AppendsTurn, AppendsResponse, AppendsStatus, Observe,
     AddsOperation, StartsOperation
<1>6. ASSUME NEW n \in Requests, RequestNext(n) PROVE FALSE
  BY <1>0, <1>6 DEF RequestNext, Enter, RespondReturns
<1>7. ASSUME NEW c \in Calls, OperationEnds(c) PROVE FALSE
  BY <1>0, <1>7 DEF OperationEnds
<1> QED
  BY <1>1, <1>2, <1>3, <1>4, <1>5, <1>6, <1>7 DEF Next, AbortSteps

\* What the actor does with the event it takes.
LEMMA PopKinds ==
    ASSUME TypeOK, [Next]_vars, Pops
    PROVE  /\ am' = Handled(am, Head(events))
           /\ live \in Prompts /\ live' = live /\ Head(events).kind = "modelError" => ts'[live].err
<1>0. events \in Seq(Events) /\ events' # events /\ \A e : events' # Append(events, e)
  BY PopsFacts, PushFacts DEF TypeOK, RestTypeOK, Push
<1>1. am' = Handled(am, Head(events))
  <2>1. CASE Aside
    BY <1>0, <2>1 DEF Aside, Push, Handled
  <2>2. CASE HandleItem
    BY <2>2 DEF HandleItem, HandleNext, Handled
  <2>3. ~Appends /\ ~Observe
    BY <1>0, AppendsFold, ObservePushes DEF Push
  <2> QED
    BY <2>1, <2>2, <2>3, QueueKinds
<1>2. ASSUME live \in Prompts, Head(events).kind = "modelError" PROVE ts'[live].err
  <2>1. ts' = [ts EXCEPT ![live].err = TRUE] /\ ts[live] \in TurnStates /\ ts \in [Prompts -> TurnStates]
    BY <1>2, HandlesError, SessionAssumption DEF HandleModelError, TypeOK, TurnTypeOK
  <2> QED
    BY <1>2, <2>1 DEF TurnStates
<1> QED
  BY <1>1, <1>2

\* What is settled stays so, while the turn runs.
LEMMA SettledStays ==
    ASSUME TypeOK, TurnsInv, [Next]_vars, live \in Prompts, live' = live,
           NEW i, NEW k \in 0 .. Len(events), Settled(i, k)
    PROVE  /\ ~Pops => Settled(i, k)'
           /\ Pops => IF k = 0 THEN Settled(i, 0)' ELSE Settled(i, k - 1)'
<1>0. /\ delivered \subseteq delivered' /\ (ts[live].err => ts'[live].err)
      /\ events \in Seq(Events) /\ k \in Nat
  BY InputsGrow, GrowsStep DEF Grows, TypeOK, RestTypeOK
<1>1. CASE i \in delivered \/ ts[live].err
  BY <1>0, <1>1 DEF Settled
<1>2. ASSUME NEW j \in 1 .. k, events[j].kind = "modelError"
      PROVE  /\ ~Pops => Settled(i, k)'
             /\ Pops => IF k = 0 THEN Settled(i, 0)' ELSE Settled(i, k - 1)'
  <2>0. j \in DOMAIN events /\ j \in Nat /\ k # 0
    BY <1>0
  <2>1. CASE UNCHANGED events \/ (\E e : Push(e))
    <3>1. events'[j] = events[j]
      BY <2>0, <2>1, PushFacts
    <3>2. ~Pops
      BY <1>0, <2>1 DEF Pops, Push
    <3> QED
      BY <1>2, <3>1, <3>2 DEF Settled, Failed
  <2>2. CASE Pops
    <3>1. CASE j = 1
      BY <1>2, <2>0, <2>2, <3>1, PopKinds, PopsFacts DEF Settled
    <3>2. CASE j # 1
      <4>1. j - 1 \in 1 .. k - 1 /\ j - 1 \in DOMAIN events' /\ (j - 1) + 1 = j
        BY <1>0, <2>0, <2>2, <3>2, PopsFacts
      <4>2. events'[j - 1].kind = "modelError"
        BY <1>2, <2>2, <4>1, PopsFacts
      <4> QED
        BY <2>0, <2>2, <4>1, <4>2 DEF Settled, Failed
    <3> QED
      BY <3>1, <3>2
  <2> QED
    BY <2>1, <2>2, EventKinds, ObservePushes
<1> QED
  BY <1>1, <1>2 DEF Settled, Failed

\* An input of the running turn was its before, and in the log, or is now
\* observed.
LEMMA TakenBefore ==
    ASSUME TypeOK, TurnsInv, InputsInv, [Next]_vars, live # None, live' = live,
           NEW i \in Inputs, i \in Taken(live)', i \in inputs'
    PROVE  i \in Taken(live) /\ (i \in inputs \/ (Observe /\ InputAppended(i)))
<1>0. live \in Prompts /\ Began(live) /\ Grows /\ ~Takes(live)
  BY GrowsStep, SessionAssumption DEF TypeOK, TurnTypeOK, Began, Takes
<1>1. i \in inputs \/ (Observe /\ InputAppended(i))
  BY LogKinds, ObserveInputs DEF LogKind, Still, Submits, Appends, AppendsInput, AppendsTurn,
     AppendsResponse, AppendsStatus
<1>2. i \in Owned
  BY <1>1 DEF InputsInv, InboxInv, OwnersInv
<1>3. ASSUME i \in Steers, steer[i].turn # live, steer'[i].turn = live PROVE FALSE
  <2>1. steer[i].turn = None
    BY <1>0, <1>3 DEF Grows, TurnsInv, SteerInv
  <2>2. \A p \in Prompts : messageId[p] # i
    BY <1>3, SessionAssumption DEF TypeOK, ClientTypeOK, MessageIds, Reasons
  <2> QED
    BY <1>2, <2>1, <2>2 DEF Owned, Steered
<1>4. i \in Taken(live)
  BY <1>0, <1>3 DEF Taken, Grows
<1> QED
  BY <1>1, <1>4

\* A turn begins with an input that is not in the log.
LEMMA TakesNew ==
    ASSUME TypeOK, TurnsInv, [Next]_vars, live' # None, live' # live
    PROVE  Taken(live)' \cap inputs' = {}
<1>0. Grows /\ Moves /\ Takes(live') /\ live' \in Prompts
  BY GrowsStep, TypeStep DEF Grows, TypeOK, TurnTypeOK
<1>1. Taken(live)' = {messageId[live']}
  BY <1>0, TakesTaken DEF Taken
<1>2. ~Observe
  BY DEF Observe
<1>3. inputs' = inputs
  BY <1>2, LogKinds DEF LogKind, Still, Submits, Appends, AppendsInput, AppendsTurn,
     AppendsResponse, AppendsStatus
<1> QED
  BY <1>0, <1>1, <1>3 DEF Takes

\* The provider's failure is in the actor's queue when the request has it.
LEMMA ErrorPushes ==
    ASSUME TypeOK, [Next]_vars, NEW n \in Requests, outcome[n] # "errored", outcome'[n] = "errored"
    PROVE  Push([kind |-> "modelError"]) /\ UNCHANGED coordVars
<1>0. outcome \in [Requests -> Outcomes]
  BY DEF TypeOK, GateTypeOK
<1>1. ASSUME NEW m \in Requests, NEW failed \in Failures, RespondReturns(m, failed)
      PROVE  Push([kind |-> "modelError"]) /\ UNCHANGED coordVars
  <2>1. outcome' = [outcome EXCEPT ![m] = Verdict(m, failed)]
    BY <1>1 DEF RespondReturns, Return
  <2>2. Verdict(m, failed) = "errored"
    BY <1>0, <2>1
  <2> QED
    BY <1>1, <2>2 DEF RespondReturns
<1>2. ASSUME NEW m \in Requests, EnterMuted(m, sync.turnReasons) PROVE FALSE
  BY <1>0, <1>2 DEF EnterMuted
<1>3. ASSUME NEW p \in Prompts, AbortStopsRequest(p) PROVE FALSE
  BY <1>3 DEF AbortStopsRequest, CancelInflight
<1> QED
  BY <1>1, <1>2, <1>3, GateKinds DEF GateKind

\* An input the running turn has in the log is pending, in the request, or
\* answered; and a request that failed leaves a failure behind.
LEMMA TodoStep ==
    TypeOK /\ SchedulingInv /\ RequestsInv /\ TurnsInv /\ InputsInv /\ OutcomeInv /\ OpenGateInv
    /\ TodoInv /\ [Next]_vars => TodoInv'
<1> SUFFICES ASSUME TypeOK, SchedulingInv, RequestsInv, TurnsInv, InputsInv, OutcomeInv, OpenGateInv,
                    TodoInv, [Next]_vars, live' # None, NoAbort',
                    NEW i \in Inputs, i \in Taken(live)', i \in inputs'
             PROVE  /\ i \in todo' \/ current' # 0 \/ Settled(i, Len(events))'
                    /\ current' # 0 /\ outcome'[current'] = "errored" =>
                          i \in todo' \/ Settled(i, Len(events))'
  <2>1. TypeOK /\ [Next]_vars => inputs' \subseteq Inputs
    BY TypeStep DEF TypeOK, LogTypeOK
  <2> QED
    BY <2>1 DEF TodoInv
<1>0. /\ live' = live /\ live \in Prompts /\ NoAbort
      /\ current \in Requests \cup {0} /\ 0 \notin Requests
      /\ events \in Seq(Events) /\ Len(events) \in 0 .. Len(events)
  BY TakesNew, GrowsStep, SessionAssumption
     DEF TypeOK, TurnTypeOK, HarnessTypeOK, NoAbort, Grows, RestTypeOK
<1>1. i \in Taken(live) /\ (i \in inputs \/ (Observe /\ InputAppended(i)))
  BY <1>0, TakenBefore
<1>2. CASE i \notin inputs
  <2>1. i \in todo /\ todo' = todo
    BY <1>1, <1>2, ObserveInputs DEF InputsInv, InboxInv
  <2> QED
    BY <2>1
<1>3. CASE i \in inputs
  <2>0. /\ i \in todo \/ current # 0 \/ Settled(i, Len(events))
        /\ current # 0 /\ outcome[current] = "errored" => i \in todo \/ Settled(i, Len(events))
    BY <1>0, <1>1, <1>3 DEF TodoInv
  <2>1. Settled(i, Len(events)) => Settled(i, Len(events))'
    <3>1. CASE Pops
      <4>1. Len(events') = Len(events) - 1 /\ Len(events) # 0
        BY <1>0, <3>1, PopsFacts
      <4> QED
        BY <1>0, <3>1, <4>1, SettledStays DEF Settled, Failed
    <3>2. CASE ~Pops
      <4>1. Settled(i, Len(events)) => \A k : k = Len(events) => Settled(i, k)'
        BY <1>0, <3>2, SettledStays
      <4>2. Len(events') \in Nat /\ Len(events) \in Nat /\ Len(events') >= Len(events)
        BY <1>0, <3>2, EventKinds, PushFacts, ObservePushes
      <4> QED
        BY <4>1, <4>2 DEF Settled, Failed
    <3> QED
      BY <3>1, <3>2
  <2>2. CASE AppendsTurn
    <3>1. current' = turns + 1 /\ turns + 1 \in Requests /\ outcome' = outcome /\ turns \in Nat
      BY <2>2 DEF AppendsTurn, StartTurn, Supersede, gateVars, TypeOK, HarnessTypeOK, CoordTypeOK
    <3>2. outcome[turns + 1] = "none"
      BY <3>1 DEF RequestsInv, OutcomeInv
    <3> QED
      BY <1>0, <3>1, <3>2
  <2>3. ASSUME NEW n \in Requests, NEW calls \in SUBSET Calls, AppendsResponse(n, calls)
        PROVE  i \in todo' \/ Settled(i, Len(events))'
    <3>1. /\ stage[n] = "answered" /\ n \notin superseded /\ current = n /\ todo' = todo
          /\ outcome[n] = "provider" => delivered' = delivered \cup {j \in inputs : j \notin todo}
      BY <2>3 DEF AppendsResponse, TakeResult
    <3>2. outcome[n] \in {"provider", "errored"}
      BY <1>0, <3>1 DEF OutcomeInv, OpenGateInv, TypeOK, GateTypeOK, Outcomes
    <3>3. CASE outcome[n] = "provider"
      BY <1>3, <3>1, <3>3 DEF Settled
    <3>4. CASE outcome[n] = "errored"
      BY <1>0, <2>0, <2>1, <3>1, <3>4
    <3> QED
      BY <3>2, <3>3, <3>4
  <2>4. CASE todo \subseteq todo' /\ current' = current
    <3>1. ASSUME current # 0, outcome'[current] = "errored", outcome[current] # "errored"
          PROVE  Settled(i, Len(events))'
      <4>1. Push([kind |-> "modelError"])
        BY <1>0, <3>1, ErrorPushes
      <4>2. Len(events') = Len(events) + 1 /\ events'[Len(events) + 1] = [kind |-> "modelError"]
        BY <4>1, PushFacts
      <4>3. Len(events) + 1 \in 1 .. Len(events')
        BY <1>0, <4>2
      <4> QED
        BY <4>2, <4>3 DEF Settled, Failed
    <3> QED
      BY <2>0, <2>1, <2>4, <3>1
  <2>5. CASE Quiet \/ Observe \/ AppendsInput \/ \E c \in Calls : AppendsStatus(c)
    <3>1. todo \subseteq todo' /\ current' = current
      <4>1. CASE Quiet
        BY <4>1 DEF Quiet, Scheduling
      <4>2. CASE Observe
        BY <4>2, ObserveInputs
      <4>3. CASE AppendsInput
        BY <4>3 DEF AppendsInput, TakeInput
      <4>4. ASSUME NEW c \in Calls, AppendsStatus(c) PROVE todo \subseteq todo' /\ current' = current
        BY <4>4 DEF AppendsStatus, TranslateCall, FinishCall
      <4> QED
        BY <2>5, <4>1, <4>2, <4>3, <4>4
    <3> QED
      BY <2>4, <3>1
  <2>6. CASE \E n \in Requests, calls \in SUBSET Calls : AppendsResponse(n, calls)
    <3>1. current' = 0
      BY <2>6 DEF AppendsResponse, TakeResult
    <3> QED
      BY <2>3, <2>6, <3>1
  <2> QED
    BY <2>2, <2>5, <2>6, StepKinds DEF Appends
<1> QED
  BY <1>2, <1>3

\* At every state the actor goes through, an input of the running turn that is
\* in the log is still expected to be answered, is settled, or is in the rest
\* of the queue.
LEMMA ActorStep ==
    TypeOK /\ TurnsInv /\ InputsInv /\ ActorInv /\ [Next]_vars
    /\ ActorIsBehindByItsQueue' /\ SyncIsTheCoordinator' /\ TodoInv' => ActorInv'
<1> DEFINE Holds(i, k) ==
             \/ Expected(Trail(am, events)[k], i)
             \/ Settled(i, k)
             \/ \E j \in k + 1 .. Len(events) : events[j] = InputEvent(i)
<1> SUFFICES ASSUME TypeOK, TurnsInv, InputsInv, ActorInv, [Next]_vars,
                    ActorIsBehindByItsQueue', SyncIsTheCoordinator', TodoInv',
                    live' # None, NoAbort',
                    NEW i \in Inputs, i \in Taken(live)', i \in inputs', NEW k \in 0 .. Len(events')
             PROVE  \/ Expected(Trail(am', events')[k], i)
                    \/ Settled(i, k)'
                    \/ \E j \in k + 1 .. Len(events') : events'[j] = InputEvent(i)
  <2>1. TypeOK /\ [Next]_vars => inputs' \subseteq Inputs
    BY TypeStep DEF TypeOK, LogTypeOK
  <2> QED
    BY <2>1 DEF ActorInv, Expected, InputEvent
<1>0. /\ live' = live /\ live \in Prompts /\ NoAbort
      /\ events \in Seq(Events) /\ Len(events) \in Nat /\ k \in Nat
      /\ \A j \in 0 .. Len(events) : j \in Nat
  BY TakesNew, GrowsStep DEF TypeOK, TurnTypeOK, NoAbort, Grows, RestTypeOK
<1>1. i \in Taken(live) /\ (i \in inputs \/ (Observe /\ InputAppended(i)))
  BY <1>0, TakenBefore
<1>2. i \in inputs => \A j \in 0 .. Len(events) : Holds(i, j)
  BY <1>0, <1>1 DEF ActorInv
<1>3. ASSUME NEW j \in 0 .. Len(events), ~Pops, Settled(i, j) PROVE Settled(i, j)'
  BY <1>0, <1>3, SettledStays
<1>4. ASSUME NEW e \in Events, Push(e), am' = am
      PROVE  /\ k <= Len(events) => Trail(am', events')[k] = Trail(am, events)[k]
             /\ k > Len(events) => /\ k = Len(events) + 1
                                   /\ Trail(am', events')[k] = Handled(Trail(am, events)[Len(events)], e)
  BY <1>0, <1>4, TrailAppend DEF Push
<1>5. ASSUME NEW e \in Events, Push(e)
      PROVE  ~Pops /\ Len(events') = Len(events) + 1 /\ events'[Len(events) + 1] = e
             /\ \A j \in 1 .. Len(events) : events'[j] = events[j]
  BY <1>0, <1>5, PushFacts DEF Pops, Push
<1>6. CASE UNCHANGED events /\ ~Pops
  <2>1. am' = am /\ ~Observe /\ ~HandleItem
    <3>1. ~HandleItem
      BY <1>6 DEF HandleItem, HandleNext, Pops
    <3>2. ~Observe
      BY <1>0, <1>6, ObservePushes DEF Push
    <3> QED
      BY <3>1, <3>2, QueueKinds, AppendsFold DEF Aside
  <2>2. Holds(i, k) /\ k \in 0 .. Len(events)
    BY <1>1, <1>2, <1>6, <2>1
  <2> QED
    BY <1>3, <1>6, <2>1, <2>2
<1>7. ASSUME NEW e \in Events, e.kind # "item", Push(e), ~Observe
      PROVE  \/ Expected(Trail(am', events')[k], i)
             \/ Settled(i, k)'
             \/ \E j \in k + 1 .. Len(events') : events'[j] = InputEvent(i)
  <2>0. ~Pops /\ Len(events') = Len(events) + 1
        /\ \A j \in 1 .. Len(events) : events'[j] = events[j]
    BY <1>5, <1>7
  <2>1. am' = am
    <3>1. ~HandleItem
      BY <2>0 DEF HandleItem, HandleNext, Pops
    <3> QED
      BY <1>7, <3>1, QueueKinds, AppendsFold DEF Aside
  <2>2. CASE k <= Len(events)
    <3>1. Holds(i, k) /\ k \in 0 .. Len(events)
      BY <1>0, <1>1, <1>2, <1>7, <2>2
    <3>2. Trail(am', events')[k] = Trail(am, events)[k]
      BY <1>4, <1>7, <2>1, <2>2
    <3>3. \A j \in k + 1 .. Len(events) : j \in 1 .. Len(events) /\ j \in k + 1 .. Len(events')
      BY <1>0, <2>0
    <3> QED
      BY <1>3, <2>0, <3>1, <3>2, <3>3
  <2>3. CASE k > Len(events)
    <3>1. Holds(i, Len(events)) /\ Len(events) \in 0 .. Len(events)
      BY <1>0, <1>1, <1>2, <1>7
    <3>2. k = Len(events) + 1 /\ Trail(am', events')[k] = Trail(am, events)[Len(events)]
      BY <1>4, <1>7, <2>1, <2>3 DEF Handled
    <3>3. Settled(i, Len(events)) => Settled(i, k)'
      <4>1. \A j : j = Len(events) /\ Settled(i, j) => Settled(i, j)'
        BY <1>3, <2>0, <3>1
      <4> QED
        BY <1>0, <3>2, <4>1 DEF Settled, Failed
    <3>4. ~\E j \in Len(events) + 1 .. Len(events) : events[j] = InputEvent(i)
      BY <1>0
    <3> QED
      BY <3>1, <3>2, <3>3, <3>4
  <2> QED
    BY <1>0, <2>2, <2>3
<1>8. CASE Pops
  <2>0. /\ Len(events') = Len(events) - 1 /\ k + 1 \in 0 .. Len(events) /\ k + 1 # 0
        /\ (k + 1) - 1 = k /\ k \in 0 .. Len(events) - 1
    BY <1>0, <1>8, PopsFacts
  <2>1. i \in inputs
    BY <1>0, <1>1, <1>8, <2>0, ObservePushes, PushFacts
  <2>2. Holds(i, k + 1)
    BY <1>2, <2>0, <2>1
  <2>3. Trail(am', events')[k] = Trail(am, events)[k + 1]
    <3>1. am' = Handled(am, Head(events)) /\ events # <<>> /\ events' = Tail(events)
      BY <1>8, PopKinds DEF Pops
    <3> QED
      BY <1>0, <2>0, <3>1, TrailTail
  <2>4. Settled(i, k + 1) => Settled(i, k)'
    <3>1. \A j \in 0 .. Len(events) : Settled(i, j) /\ j # 0 => Settled(i, j - 1)'
      BY <1>0, <1>8, SettledStays
    <3>2. Settled(i, k + 1) => \A j : j = k => Settled(i, j)'
      BY <1>0, <2>0, <3>1 DEF Settled, Failed
    <3> QED
      BY <3>2
  <2>5. ASSUME NEW j \in (k + 1) + 1 .. Len(events), events[j] = InputEvent(i)
        PROVE  j - 1 \in k + 1 .. Len(events') /\ events'[j - 1] = InputEvent(i)
    <3>1. j - 1 \in k + 1 .. Len(events') /\ j - 1 \in DOMAIN events' /\ (j - 1) + 1 = j
      BY <1>0, <1>8, <2>0, PopsFacts
    <3> QED
      BY <1>8, <2>5, <3>1, PopsFacts
  <2> QED
    BY <2>2, <2>3, <2>4, <2>5
<1>9. CASE Observe
  <2> DEFINE e == [kind |-> "item", item |-> Head(appended)]
  <2>1. Push(e) /\ e \in Events /\ am' = am /\ appended' = <<>> /\ appended # <<>>
    BY <1>9, ObservePushes, ObserveInputs DEF Events, Observe, actorVars
  <2>2. InputAppended(i) => e = InputEvent(i)
    BY DEF InputAppended, InputEvent
  <2> HIDE DEF e
  <2>3. ~Pops /\ Len(events') = Len(events) + 1 /\ events'[Len(events) + 1] = e
        /\ \A j \in 1 .. Len(events) : events'[j] = events[j]
    BY <1>5, <2>1
  <2>4. CASE k <= Len(events)
    <3>1. Trail(am', events')[k] = Trail(am, events)[k] /\ k \in 0 .. Len(events)
      BY <1>0, <1>4, <2>1, <2>4
    <3>2. CASE i \in inputs
      <4>1. Holds(i, k)
        BY <1>2, <3>1, <3>2
      <4>2. \A j \in k + 1 .. Len(events) : j \in 1 .. Len(events) /\ j \in k + 1 .. Len(events')
        BY <1>0, <2>3
      <4> QED
        BY <1>3, <2>3, <3>1, <4>1, <4>2
    <3>3. CASE i \notin inputs
      <4>1. Len(events) + 1 \in k + 1 .. Len(events')
        BY <1>0, <2>3, <2>4
      <4> QED
        BY <1>1, <2>2, <2>3, <3>3, <4>1
    <3> QED
      BY <3>2, <3>3
  <2>5. CASE k > Len(events)
    <3>1. k = Len(events')
      BY <1>0, <2>3, <2>5
    <3>2. sync' = Trail(am', events')[k]
      BY <2>1, <3>1 DEF ActorIsBehindByItsQueue
    <3>3. i \in todo' \/ current' # 0 \/ Settled(i, k)'
      BY <3>1 DEF TodoInv, Settled, Failed
    <3> QED
      BY <3>2, <3>3 DEF SyncIsTheCoordinator, Expected
  <2> QED
    BY <1>0, <2>4, <2>5
<1> QED
  BY <1>6, <1>7, <1>8, <1>9, EventKinds

\* A turn that ends normally leaves nothing unanswered.
LEMMA DoneStep ==
    TypeOK /\ TurnsInv /\ UnobservedInv /\ ActorInv /\ DoneInv /\ [Next]_vars => DoneInv'
<1> SUFFICES ASSUME TypeOK, TurnsInv, UnobservedInv, ActorInv, DoneInv, [Next]_vars, NoAbort',
                    NEW p \in Prompts, ts'[p].finished, answer'[p] = "end_turn"
             PROVE  Taken(p)' \subseteq delivered'
  BY DEF DoneInv
<1>0. Grows /\ Progress /\ NoAbort /\ delivered \subseteq delivered' /\ None \notin Prompts
  BY GrowsStep, ProgressStep, InputsGrow, SessionAssumption DEF Grows, NoAbort
<1>1. CASE ts[p].finished
  <2>1. answer[p] = "end_turn" /\ messageId'[p] = messageId[p]
    BY <1>0, <1>1 DEF Progress, Grows, Began
  <2>2. live # p
    BY <1>0, <1>1 DEF TurnsInv, LiveInv
  <2>3. Taken(p)' = Taken(p)
    BY <1>0, <2>1, <2>2 DEF Taken, Grows, TurnsInv, SteerInv, TypeOK, TurnTypeOK
  <2> QED
    BY <1>0, <1>1, <2>1, <2>3 DEF DoneInv
<1>2. CASE ~ts[p].finished
  <2>1. live = p /\ (EvaluateDone \/ GenerationFails(p))
    BY <1>0, <1>2 DEF Progress, NoAbort
  <2>2. CASE EvaluateDone
    <3>1. Finish(p, ts[p], IF ts[p].err THEN "error" ELSE "end_turn") /\ TurnDone(ts[p])
      BY <2>1, <2>2 DEF EvaluateDone
    <3>2. ~ts[p].err
      <4>1. answer'[p] = IF ts[p].clientCancelled THEN "cancelled"
                         ELSE IF ts[p].err THEN "error" ELSE "end_turn"
        BY <3>1 DEF Finish, TypeOK, ClientTypeOK
      <4> QED
        BY <4>1
    <3>3. Taken(p)' = Taken(p) /\ delivered' = delivered
      BY <2>2 DEF EvaluateDone, Taken, logVars
    <3>4. ASSUME NEW i \in Taken(p) PROVE i \in delivered
      <4>1. Seen(i)
        BY <1>0, <2>1, <3>1, <3>4 DEF UnobservedInv, TurnDone
      <4>2. events \in Seq(Events) /\ 0 \in 0 .. Len(events) /\ am \in MirrorType
            /\ Trail(am, events)[0] = am
        <5>1. events \in Seq(Events) /\ 0 \in 0 .. Len(events)
          BY DEF TypeOK, RestTypeOK
        <5> QED
          BY <5>1, TrailDef DEF IsTrail, TypeOK, ActorTypeOK
      <4>3. \/ Expected(am, i)
            \/ Settled(i, 0)
            \/ \E j \in 0 + 1 .. Len(events) : events[j] = InputEvent(i)
        BY <1>0, <2>1, <3>4, <4>1, <4>2 DEF ActorInv, Seen
      <4>4. ~Expected(am, i)
        BY <3>1 DEF TurnDone, Quiescent, Expected
      <4>5. ~\E j \in 0 + 1 .. Len(events) : events[j] = InputEvent(i)
        BY <4>1, <4>2 DEF Seen
      <4>6. ~Failed(0)
        BY DEF Failed
      <4> QED
        BY <2>1, <3>2, <4>3, <4>4, <4>5, <4>6 DEF Settled
    <3> QED
      BY <3>3, <3>4
  <2>3. CASE GenerationFails(p)
    <3>1. Finish(p, ts[p], "error")
      BY <1>2, <2>3 DEF GenerationFails
    <3>2. answer'[p] \in {"cancelled", "error"}
      BY <3>1 DEF Finish, TypeOK, ClientTypeOK
    <3> QED
      BY <3>2
  <2> QED
    BY <2>1, <2>2, <2>3
<1> QED
  BY <1>1, <1>2

\* A turn that has ended normally was not cancelled.
EndInv == \A p \in Prompts : ts[p].finished /\ answer[p] = "end_turn" => ~ts[p].cancelling

\* A turn that ended normally was not being cancelled, and never is afterwards.
LEMMA EndStep == TypeOK /\ TurnsInv /\ EndInv /\ [Next]_vars => EndInv'
<1> SUFFICES ASSUME TypeOK, TurnsInv, EndInv, [Next]_vars,
                    NEW p \in Prompts, ts'[p].finished, answer'[p] = "end_turn", ts'[p].cancelling
             PROVE  FALSE
  BY DEF EndInv
<1>0. Grows /\ Progress /\ None \notin Prompts
  BY GrowsStep, ProgressStep, SessionAssumption
<1>1. ts[p].cancelling
  <2>1. ASSUME NEW thread, Marks(thread), ~ts[p].cancelling PROVE FALSE
    <3>1. AbortTurn(thread) /\ live' = live
      BY <2>1 DEF Marks
    <3>2. live = p
      <4>1. \/ ts' = ts
            \/ \A q \in Prompts \ {live} : ts'[q] = ts[q]
        BY <3>1, AbortTurnFacts
      <4> QED
        BY <2>1, <4>1
    <3>3. ~ts'[p].finished
      BY <1>0, <3>1, <3>2, TurnsStep DEF TurnsInv, LiveInv
    <3> QED
      BY <3>3
  <2>2. ASSUME NEW q \in Prompts, PromptTakesTurn(q) PROVE ts[p].cancelling
    BY <2>2, TakesTurnFacts
  <2>3. ASSUME NEW q \in Prompts, AbortNext(q) PROVE ts' = ts
    BY <2>3 DEF AbortNext, AbortParks, AbortStopsRequest, AbortStopsOperations, turnVars
  <2> QED
    BY <2>1, <2>2, <2>3, CancelKinds DEF CancelKind, NoCancel
<1>2. CASE ts[p].finished
  BY <1>0, <1>1, <1>2 DEF Progress, EndInv
<1>3. CASE EvaluateDone /\ live = p
  BY <1>1, <1>3 DEF EvaluateDone
<1>4. CASE GenerationFails(p) /\ ~ts[p].finished
  <2>1. Finish(p, ts[p], "error")
    BY <1>4 DEF GenerationFails
  <2>2. answer'[p] \in {"cancelled", "error"}
    BY <2>1 DEF Finish, TypeOK, ClientTypeOK
  <2> QED
    BY <2>2
<1> QED
  BY <1>0, <1>2, <1>3, <1>4 DEF Progress

\* Nothing is answered at the start.
LEMMA InitAnswer == Init => AnswerInv /\ EndInv
BY DEF Init, CoordInit, GateInit, AnswerInv, OutcomeInv, OpenGateInv, TodoInv, ActorInv, DoneInv,
   EndInv, Unused

EndTurnInv == TurnInv /\ AnswerInv /\ EndInv

\* The invariant about answered inputs holds in every state.
LEMMA EndTurnInvariant == Spec => []EndTurnInv
<1>1. TurnInv /\ TurnInv' /\ AnswerInv /\ EndInv /\ [Next]_vars => AnswerInv' /\ EndInv'
  <2> SUFFICES ASSUME TurnInv, TurnInv', AnswerInv, EndInv, [Next]_vars
               PROVE  AnswerInv' /\ EndInv'
    OBVIOUS
  <2>0. /\ TypeOK /\ SchedulingInv /\ RequestsInv /\ TurnsInv /\ InputsInv /\ UnobservedInv
        /\ ActorIsBehindByItsQueue' /\ SyncIsTheCoordinator'
    BY DEF TurnInv, SessionInv, SchedulingInv
  <2>1. OutcomeInv' /\ OpenGateInv'
    BY <2>0, OutcomeStep, OpenGateStep DEF AnswerInv
  <2>2. TodoInv'
    BY <2>0, TodoStep DEF AnswerInv
  <2>3. ActorInv'
    BY <2>0, <2>2, ActorStep DEF AnswerInv
  <2>4. DoneInv' /\ EndInv'
    BY <2>0, DoneStep, EndStep DEF AnswerInv
  <2> QED
    BY <2>1, <2>2, <2>3, <2>4 DEF AnswerInv
<1> QED
  BY <1>1, InitAnswer, TurnInvariant, PTL DEF Spec, EndTurnInv

\* For any prompts, steers, calls and requests: when no other turn was
\* aborted, a turn that ends normally has had its prompt and every steer
\* accepted into it answered by the provider.
THEOREM EndTurnAnswersEverything == Spec => []EndTurnMeansAnswered
<1>1. EndTurnInv => EndTurnMeansAnswered
  <2> SUFFICES ASSUME EndTurnInv, NEW p \in Prompts, ts[p].finished, answer[p] = "end_turn",
                      \A q \in Prompts \ {p} : ~ts[q].cancelling
               PROVE  Taken(p) \subseteq delivered
    BY DEF EndTurnMeansAnswered, Taken
  <2>1. NoAbort
    BY DEF NoAbort, EndTurnInv, EndInv
  <2> QED
    BY <2>1 DEF EndTurnInv, AnswerInv, DoneInv
<1> QED
  BY <1>1, EndTurnInvariant, PTL
=======================================================================

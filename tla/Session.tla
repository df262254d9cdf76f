---------------------------- MODULE Session ----------------------------
(***************************************************************************)
(* internal/runtime: one hosted session.  Prompt handlers, steer calls,    *)
(* the client's cancel, the actor goroutine and the timers of a runtime,   *)
(* composed with the Gate, the two mirrors and the coordinator.            *)
(*                                                                         *)
(* A step is what one goroutine does under one acquisition of r.mu, g.mu   *)
(* or the mirror's lock; between two steps any other goroutine may run.    *)
(* The close of a session and the exit of coordinator.Run are not in this  *)
(* module.                                                                 *)
(***************************************************************************)
EXTENDS Coordinator, Gate

CONSTANTS
    Prompts,    \* session/prompt requests
    Steers,     \* steer requests; a steer is also the id of its input
    Cancels,    \* how the client cancels: "session/cancel", "SIGINT"
    Verdicts,   \* what the permission policy may say: "allow", "ask", "deny"
    Failures,   \* may requests and generations fail? {FALSE}, or {FALSE, TRUE}
    MaxLag,     \* bound: how many events the actor may be behind
    Overlap     \* may the client send a prompt before the last is answered?

ASSUME SessionAssumption ==
    /\ Steers \subseteq Inputs
    /\ None \notin Prompts \cup Reasons
    /\ Cancels \subseteq {"session/cancel", "SIGINT"}
    /\ Verdicts \subseteq {"allow", "ask", "deny"}
    /\ Failures \subseteq BOOLEAN
    /\ Overlap \in BOOLEAN
    /\ Requests \subseteq Nat \ {0}

MessageIds == Inputs \ Steers

VARIABLES
    live,           \* r.turn: the prompt whose turn runs, or None
    ts,             \* the turnState of every prompt
    gen,            \* r.gen # nil
    inputs,         \* r.inputs: external inputs seen in the log
    known,          \* r.calls: tool calls seen in the log
    cancelledCalls, \* r.cancelledCalls
    refuseNew,      \* r.refuseNew
    sync, am,       \* the two mirrors
    events,         \* r.events
    actor,          \* where the actor goroutine is, and the steers it submits
    reported,       \* r.reported: calls whose final update was sent
    abort,          \* abortTurn, per turn
    timer,          \* the cancel-grace and flush timers, per turn
    handler,        \* where the handler of each session/prompt is
    messageId,      \* the input id of each prompt
    answer,         \* its response
    ctxDone,        \* prompts whose request ctx is cancelled
    notifier,       \* the handler of session/cancel, or of SIGINT
    steer,          \* where the handler of each steer request is, and
                    \* (history) the turn that took it
    op,             \* the operation of each call
    delivered,      \* history: inputs the provider has answered
    asked           \* history: prompts open when the client cancelled

turnVars   == <<live, ts, refuseNew, cancelledCalls>>
logVars    == <<sync, inputs, known, delivered>>
actorVars  == <<am, actor, reported>>
abortVars  == <<abort, timer, notifier>>
clientVars == <<handler, messageId, answer, ctxDone, asked>>

sessionVars == <<turnVars, logVars, actorVars, abortVars, clientVars,
                 gen, steer, op, events>>

vars == <<coordVars, gateVars, sessionVars>>

TurnStates ==
    [ unobserved      : SUBSET Inputs,  \* submitted, not yet in the log
      steers          : SUBSET Steers,  \* queued for the next boundary
      cancelling      : BOOLEAN,
      clientCancelled : BOOLEAN,
      flushed         : BOOLEAN,
      waitCalls       : SUBSET Calls,
      err             : BOOLEAN,
      finished        : BOOLEAN ]

Unused ==
    [ unobserved |-> {}, steers |-> {}, cancelling |-> FALSE,
      clientCancelled |-> FALSE, flushed |-> FALSE, waitCalls |-> {},
      err |-> FALSE, finished |-> FALSE ]

\* Mutant: the prompt's id is not the one submitted.
NewTurnAnonymous(id) == [Unused EXCEPT !.unobserved = {None}]

NewTurn(id) == [Unused EXCEPT !.unobserved = {id}]

\* abortTurn of one turn: how far it got, on which goroutine, the running
\* calls with operations and the inputs it read under r.mu.
Aborts ==
    [ at     : {"none", "park", "stop", "ops", "done"},
      by     : Prompts \cup {"notifier", "actor"},
      calls  : SUBSET Calls,
      inputs : SUBSET Inputs ]

Aborting(thread) ==
    \E p \in Prompts : abort[p].by = thread /\ abort[p].at \notin {"none", "done"}

Events == [kind : {"item"}, item : Items]
          \cup [kind : {"wake", "modelError"}]
          \cup [kind : {"grace", "flush"}, prompt : Prompts]

Answers == {"none", "busy", "end_turn", "cancelled", "error"}

HarnessTypeOK == CoordTypeOK /\ current \in Requests \cup {0}

TurnTypeOK ==
    /\ live \in Prompts \cup {None}
    /\ ts \in [Prompts -> TurnStates]
    /\ refuseNew \in BOOLEAN
    /\ cancelledCalls \subseteq Calls

LogTypeOK ==
    /\ sync \in MirrorType
    /\ inputs \subseteq Inputs
    /\ known \subseteq Calls
    /\ delivered \subseteq Inputs

ActorTypeOK ==
    /\ am \in MirrorType
    /\ actor \in [at : {"pop", "evaluate", "abort", "aborting", "submit"},
                  steers : SUBSET Steers]
    /\ reported \subseteq Calls

AbortTypeOK ==
    /\ abort \in [Prompts -> Aborts]
    /\ timer \in [Prompts -> {"off", "grace", "flush"}]
    /\ notifier \in {"idle", "mark", "abort", "done"}

ClientTypeOK ==
    /\ handler \in [Prompts -> {"idle", "wait", "build", "submit", "await",
                                "mark", "abort", "join", "done"}]
    /\ messageId \in [Prompts -> MessageIds \cup {None}]
    /\ \A p \in Prompts : handler[p] = "idle" \/ messageId[p] # None
    /\ answer \in [Prompts -> Answers]
    /\ ctxDone \subseteq Prompts
    /\ asked \subseteq Prompts

RestTypeOK ==
    /\ gen \in BOOLEAN
    /\ steer \in [Steers -> [at   : {"idle", "submit", "accepted", "refused"},
                             turn : Prompts \cup {None}]]
    /\ op \in [Calls -> {"none", "held", "admitted", "running", "ended"}]
    /\ events \in Seq(Events)

TypeOK ==
    /\ HarnessTypeOK
    /\ GateTypeOK
    /\ TurnTypeOK
    /\ LogTypeOK
    /\ ActorTypeOK
    /\ AbortTypeOK
    /\ ClientTypeOK
    /\ RestTypeOK

Init ==
    /\ CoordInit
    /\ GateInit
    /\ live = None
    /\ ts = [p \in Prompts |-> Unused]
    /\ gen = FALSE
    /\ inputs = {}
    /\ known = {}
    /\ cancelledCalls = {}
    /\ refuseNew = FALSE
    /\ sync = New
    /\ am = New
    /\ events = <<>>
    /\ actor = [at |-> "pop", steers |-> {}]
    /\ reported = {}
    /\ abort = [p \in Prompts |->
                  [at |-> "none", by |-> "actor", calls |-> {}, inputs |-> {}]]
    /\ timer = [p \in Prompts |-> "off"]
    /\ handler = [p \in Prompts |-> "idle"]
    /\ messageId = [p \in Prompts |-> None]
    /\ answer = [p \in Prompts |-> "none"]
    /\ ctxDone = {}
    /\ notifier = "idle"
    /\ steer = [s \in Steers |-> [at |-> "idle", turn |-> None]]
    /\ op = [c \in Calls |-> "none"]
    /\ delivered = {}
    /\ asked = {}

Push(e) == events' = Append(events, e)

At(p, from, to) ==
    /\ handler[p] = from
    /\ handler' = [handler EXCEPT ![p] = to]

-----------------------------------------------------------------------
(* finishLocked and turnResult.response.  t is the turn's state, how is    *)
(* what the result says when the client did not cancel.                    *)

\* Mutant: whatever aborts a turn counts as the client's cancel.
FinishAnyAbort(p, t, how) ==
    /\ ts' = [ts EXCEPT ![p] = [t EXCEPT !.finished = TRUE]]
    /\ live' = None
    /\ answer' = [answer EXCEPT ![p] = IF t.cancelling THEN "cancelled" ELSE how]

Finish(p, t, how) ==
    /\ ts' = [ts EXCEPT ![p] = [t EXCEPT !.finished = TRUE]]
    /\ live' = None
    /\ answer' = [answer EXCEPT ![p] = IF t.clientCancelled THEN "cancelled" ELSE how]

-----------------------------------------------------------------------
(* The client and the SDK, which are external: the SDK runs every request  *)
(* on its own goroutine and cancels a prompt's ctx on session/cancel and   *)
(* on a newer prompt for the same session.                                 *)

Open == {p \in Prompts : handler[p] \notin {"idle", "done"}}

SendPrompt(p, id) ==
    /\ Overlap \/ Open = {}
    /\ At(p, "idle", "wait")
    /\ messageId' = [messageId EXCEPT ![p] = id]
    /\ ctxDone' = ctxDone \cup Open
    /\ asked' = asked \cup Open
    /\ UNCHANGED <<coordVars, gateVars, turnVars, logVars, actorVars,
                   abortVars, answer, gen, steer, op, events>>

\* One cancel per behaviour: a second one finds the turn already cancelling,
\* or hits a later turn, which the first may do as well.  SIGINT ends no ctx.
SendCancel(how) ==
    /\ Open # {}
    /\ notifier = "idle"
    /\ notifier' = "mark"
    /\ ctxDone' = IF how = "SIGINT" THEN ctxDone ELSE ctxDone \cup Open
    /\ asked' = asked \cup Open
    /\ UNCHANGED <<coordVars, gateVars, turnVars, logVars, actorVars, abort,
                   timer, handler, messageId, answer, gen, steer, op, events>>

-----------------------------------------------------------------------
(* Runtime.Prompt.                                                         *)

\* Ten seconds of waiting for the running turn are over.
PromptBusy(p) ==
    /\ At(p, "wait", "done")
    /\ live # None
    /\ answer' = [answer EXCEPT ![p] = "busy"]
    /\ UNCHANGED <<coordVars, gateVars, turnVars, logVars, actorVars,
                   abortVars, messageId, ctxDone, asked, gen, steer, op, events>>

\* A redelivered prompt that is in the log already is acknowledged.
PromptKnown(p) ==
    /\ At(p, "wait", "done")
    /\ live = None
    /\ messageId[p] \in inputs
    /\ answer' = [answer EXCEPT ![p] = "end_turn"]
    /\ UNCHANGED <<coordVars, gateVars, turnVars, logVars, actorVars,
                   abortVars, messageId, ctxDone, asked, gen, steer, op, events>>

PromptTakesTurn(p) ==
    /\ At(p, "wait", "build")
    /\ live = None
    /\ messageId[p] \notin inputs
    /\ live' = p
    /\ ts' = [ts EXCEPT ![p] = NewTurn(messageId[p])]
    /\ refuseNew' = FALSE
    /\ cancelledCalls' = {}
    /\ UNCHANGED <<coordVars, gateVars, logVars, actorVars, abortVars,
                   messageId, answer, ctxDone, asked, gen, steer, op, events>>

EnsureGeneration(p) ==
    /\ At(p, "build", "submit")
    /\ gen' = TRUE
    /\ UNCHANGED <<coordVars, gateVars, turnVars, logVars, actorVars,
                   abortVars, messageId, answer, ctxDone, asked, steer, op, events>>

\* The log cannot be resumed, or the inbox not created.
GenerationFails(p) ==
    /\ TRUE \in Failures /\ ~gen
    /\ At(p, "build", "await")
    /\ IF ts[p].finished
       THEN UNCHANGED <<ts, live, answer>>
       ELSE Finish(p, ts[p], "error")
    /\ UNCHANGED <<coordVars, gateVars, refuseNew, cancelledCalls, logVars,
                   actorVars, abortVars, messageId, ctxDone, asked, gen, steer, op,
                   events>>

PromptSubmits(p) ==
    /\ At(p, "submit", "await")
    /\ SubmitInput(messageId[p])
    /\ UNCHANGED <<gateVars, turnVars, logVars, actorVars, abortVars,
                   messageId, answer, ctxDone, asked, gen, steer, op, events>>

\* When the result and the end of ctx are both ready, select takes either.
PromptSeesCancel(p) ==
    /\ At(p, "await", "mark")
    /\ p \in ctxDone
    /\ UNCHANGED <<coordVars, gateVars, turnVars, logVars, actorVars,
                   abortVars, messageId, answer, ctxDone, asked, gen, steer, op,
                   events>>

PromptAnswers(p) ==
    /\ At(p, "await", "done") \/ At(p, "join", "done")
    /\ answer[p] # "none"
    /\ ~Aborting(p)
    /\ UNCHANGED <<coordVars, gateVars, turnVars, logVars, actorVars,
                   abortVars, messageId, answer, ctxDone, asked, gen, steer, op,
                   events>>

-----------------------------------------------------------------------
(* CancelTurn: mark the turn, then abortTurn, each under r.mu.  Two        *)
(* goroutines call it: the handler of session/cancel, and a prompt whose   *)
(* ctx has ended.  Either acts on whatever turn is running by then.        *)

MarkCancelled ==
    ts' = IF live = None THEN ts ELSE [ts EXCEPT ![live].clientCancelled = TRUE]

NotifierMarks ==
    /\ notifier = "mark"
    /\ notifier' = "abort"
    /\ MarkCancelled
    /\ UNCHANGED <<coordVars, gateVars, live, refuseNew, cancelledCalls,
                   logVars, actorVars, abort, timer, clientVars, gen, steer,
                   op, events>>

PromptMarks(p) ==
    /\ At(p, "mark", "abort")
    /\ MarkCancelled
    /\ UNCHANGED <<coordVars, gateVars, live, refuseNew, cancelledCalls,
                   logVars, actorVars, abortVars, messageId, answer, ctxDone, asked,
                   gen, steer, op, events>>

\* Mutant: the operations to cancel are those the actor has handled.
AbortTurnLate(thread) ==
    IF live = None \/ ts[live].cancelling
    THEN UNCHANGED <<ts, refuseNew, cancelledCalls, abort>>
    ELSE /\ ts' = [ts EXCEPT ![live].cancelling = TRUE,
                             ![live].steers = {},
                             ![live].waitCalls = @ \cup sync.outstanding]
         /\ refuseNew' = TRUE
         /\ cancelledCalls' = cancelledCalls \cup sync.outstanding
         /\ abort' = [abort EXCEPT ![live] =
                        [at |-> "park", by |-> thread, calls |-> am.waiting,
                         inputs |-> inputs \cup ts[live].unobserved]]

\* abortTurn up to the first unlock.
AbortTurn(thread) ==
    IF live = None \/ ts[live].cancelling
    THEN UNCHANGED <<ts, refuseNew, cancelledCalls, abort>>
    ELSE /\ ts' = [ts EXCEPT ![live].cancelling = TRUE,
                             ![live].steers = {},
                             ![live].waitCalls = @ \cup sync.outstanding]
         /\ refuseNew' = TRUE
         /\ cancelledCalls' = cancelledCalls \cup sync.outstanding
         /\ abort' = [abort EXCEPT ![live] =
                        [at |-> "park", by |-> thread, calls |-> sync.waiting,
                         inputs |-> inputs \cup ts[live].unobserved]]

NotifierAborts ==
    /\ notifier = "abort"
    /\ notifier' = "done"
    /\ AbortTurn("notifier")
    /\ UNCHANGED <<coordVars, gateVars, live, logVars, actorVars, timer,
                   clientVars, gen, steer, op, events>>

PromptAborts(p) ==
    /\ At(p, "abort", "join")
    /\ AbortTurn(p)
    /\ UNCHANGED <<coordVars, gateVars, live, logVars, actorVars, timer,
                   notifier, messageId, answer, ctxDone, asked, gen, steer, op,
                   events>>

\* Mutant: only what runs is parked, not the finished calls not yet sent.
AbortParksRunning(p) ==
    /\ abort[p].at = "park"
    /\ Park(sync.outstanding \cup abort[p].inputs)
    /\ abort' = [abort EXCEPT ![p].at = "stop", ![p].inputs = {}]
    /\ UNCHANGED <<coordVars, turnVars, logVars, actorVars, timer, notifier,
                   clientVars, gen, steer, op, events>>

\* Mutant: the inputs known when the Gate is parked are parked too.
AbortParksPending(p) ==
    /\ abort[p].at = "park"
    /\ Park(CallsOf(sync) \cup sync.reasons \cup accepted \cup abort[p].inputs)
    /\ abort' = [abort EXCEPT ![p].at = "stop", ![p].inputs = {}]
    /\ UNCHANGED <<coordVars, turnVars, logVars, actorVars, timer, notifier,
                   clientVars, gen, steer, op, events>>

\* The rest of abortTurn, without r.mu.
AbortParks(p) ==
    /\ abort[p].at = "park"
    /\ Park(CallsOf(sync) \cup abort[p].inputs)
    /\ abort' = [abort EXCEPT ![p].at = "stop", ![p].inputs = {}]
    /\ UNCHANGED <<coordVars, turnVars, logVars, actorVars, timer, notifier,
                   clientVars, gen, steer, op, events>>

AbortStopsRequest(p) ==
    /\ abort[p].at = "stop"
    /\ CancelInflight
    /\ abort' = [abort EXCEPT ![p].at = "ops"]
    /\ UNCHANGED <<coordVars, turnVars, logVars, actorVars, timer, notifier,
                   clientVars, gen, steer, op, events>>

\* An operation that waits for approval ends; a running one is asked to end,
\* which it may do or not; one not yet handed to the inner manager runs on.
AbortStopsOperations(p) ==
    /\ abort[p].at = "ops"
    /\ op' = [c \in Calls |->
                IF c \in abort[p].calls /\ op[c] = "held" THEN "ended" ELSE op[c]]
    /\ abort' = [abort EXCEPT ![p].at = "done", ![p].calls = {}]
    /\ timer' = [timer EXCEPT ![p] = "grace"]
    /\ Push([kind |-> "wake"])
    /\ UNCHANGED <<coordVars, gateVars, turnVars, logVars, actorVars, notifier,
                   clientVars, gen, steer>>

\* time.AfterFunc: the timer pushes its event.
TimerFires(p) ==
    /\ timer[p] # "off"
    /\ timer' = [timer EXCEPT ![p] = "off"]
    /\ Push([kind |-> timer[p], prompt |-> p])
    /\ UNCHANGED <<coordVars, gateVars, turnVars, logVars, actorVars, abort,
                   notifier, clientVars, gen, steer, op>>

-----------------------------------------------------------------------
(* Runtime.Steer.  The id becomes unobserved before it is submitted.  A     *)
(* steer that finds no turn, or one being cancelled, is refused and leaves  *)
(* no trace.                                                               *)

Steerable == live # None /\ ~ts[live].cancelling

SteerQueues(s) ==
    /\ steer[s].at = "idle"
    /\ Steerable
    /\ ts' = [ts EXCEPT ![live].unobserved = @ \cup {s},
                        ![live].steers = @ \cup {s}]
    /\ steer' = [steer EXCEPT ![s] = [at |-> "accepted", turn |-> live]]
    /\ Push([kind |-> "wake"])
    /\ UNCHANGED <<coordVars, gateVars, live, refuseNew, cancelledCalls,
                   logVars, actorVars, abortVars, clientVars, gen, op>>

\* Without a generation the steer is refused, but stays unobserved.
SteerInterrupts(s) ==
    /\ steer[s].at = "idle"
    /\ Steerable
    /\ ts' = [ts EXCEPT ![live].unobserved = @ \cup {s}]
    /\ steer' = [steer EXCEPT ![s] = [at |-> IF gen THEN "submit" ELSE "refused",
                                        turn |-> live]]
    /\ UNCHANGED <<coordVars, gateVars, live, refuseNew, cancelledCalls,
                   logVars, actorVars, abortVars, clientVars, gen, op, events>>

SteerSubmits(s) ==
    /\ steer[s].at = "submit"
    /\ SubmitInput(s)
    /\ steer' = [steer EXCEPT ![s].at = "accepted"]
    /\ UNCHANGED <<gateVars, turnVars, logVars, actorVars, abortVars,
                   clientVars, gen, op, events>>

-----------------------------------------------------------------------
(* The actor: it handles one event at a time, and after each applies the   *)
(* close rule.                                                             *)

HandleNext(kind) ==
    /\ actor.at = "pop"
    /\ events # <<>>
    /\ Head(events).kind = kind
    /\ events' = Tail(events)

Final(item) == item.kind = "status" /\ item.status # "ready"

Bookkeep(item) ==
    IF live = None THEN ts
    ELSE IF item.kind = "input" THEN [ts EXCEPT ![live].unobserved = @ \ {item.id}]
    ELSE IF Final(item) THEN [ts EXCEPT ![live].waitCalls = @ \ {item.call}]
    ELSE ts

\* Mutant: an item that belongs to no turn is not folded.
HandleItemOfTurn ==
    /\ HandleNext("item")
    /\ LET item == Head(events).item IN
       /\ am' = IF live = None THEN am ELSE Apply(am, item)
       /\ reported' = IF Final(item) THEN reported \cup {item.call} ELSE reported
       /\ ts' = Bookkeep(item)
    /\ actor' = [actor EXCEPT !.at = "evaluate"]
    /\ UNCHANGED <<coordVars, gateVars, live, refuseNew, cancelledCalls,
                   logVars, abortVars, clientVars, gen, steer, op>>

HandleItem ==
    /\ HandleNext("item")
    /\ LET item == Head(events).item IN
       /\ am' = Apply(am, item)
       /\ reported' = IF Final(item) THEN reported \cup {item.call} ELSE reported
       /\ ts' = Bookkeep(item)
    /\ actor' = [actor EXCEPT !.at = "evaluate"]
    /\ UNCHANGED <<coordVars, gateVars, live, refuseNew, cancelledCalls,
                   logVars, abortVars, clientVars, gen, steer, op>>

HandleWake ==
    /\ HandleNext("wake")
    /\ actor' = [actor EXCEPT !.at = "evaluate"]
    /\ UNCHANGED <<coordVars, gateVars, turnVars, logVars, am, reported,
                   abortVars, clientVars, gen, steer, op>>

\* A provider failure is the running turn's error; with tools outstanding the
\* actor aborts the turn itself.
HandleModelError ==
    /\ HandleNext("modelError")
    /\ ts' = IF live = None THEN ts ELSE [ts EXCEPT ![live].err = TRUE]
    /\ actor' = [actor EXCEPT !.at = IF live # None /\ sync.outstanding # {}
                                     THEN "abort" ELSE "evaluate"]
    /\ UNCHANGED <<coordVars, gateVars, live, refuseNew, cancelledCalls,
                   logVars, am, reported, abortVars, clientVars, gen, steer,
                   op>>

ActorAborts ==
    /\ actor.at = "abort"
    /\ AbortTurn("actor")
    /\ actor' = [actor EXCEPT !.at = "aborting"]
    /\ UNCHANGED <<coordVars, gateVars, live, logVars, am, reported, timer,
                   notifier, clientVars, gen, steer, op, events>>

ActorAborted ==
    /\ actor.at = "aborting"
    /\ ~Aborting("actor")
    /\ actor' = [actor EXCEPT !.at = "evaluate"]
    /\ UNCHANGED <<coordVars, gateVars, turnVars, logVars, am, reported,
                   abortVars, clientVars, gen, steer, op, events>>

\* The tools' process groups are killed; their operations end when they end.
HandleGrace(p) ==
    /\ HandleNext("grace")
    /\ Head(events).prompt = p
    /\ timer' = IF live = p THEN [timer EXCEPT ![p] = "flush"] ELSE timer
    /\ actor' = [actor EXCEPT !.at = "evaluate"]
    /\ UNCHANGED <<coordVars, gateVars, turnVars, logVars, am, reported, abort,
                   notifier, clientVars, gen, steer, op>>

\* Calls that have not ended by now are reported failed.
HandleFlush(p) ==
    /\ HandleNext("flush")
    /\ Head(events).prompt = p
    /\ IF live = p
       THEN /\ reported' = reported \cup ts[p].waitCalls
            /\ ts' = [ts EXCEPT ![p].waitCalls = {}, ![p].flushed = TRUE]
       ELSE UNCHANGED <<reported, ts>>
    /\ actor' = [actor EXCEPT !.at = "evaluate"]
    /\ UNCHANGED <<coordVars, gateVars, live, refuseNew, cancelledCalls,
                   logVars, am, abortVars, clientVars, gen, steer, op>>

\* Mutant: the flush does not end the wait for the request in flight.
CancelSettledIdle(t) == t.waitCalls = {} /\ ~am.inflight

CancelSettled(t) == t.waitCalls = {} /\ (~am.inflight \/ t.flushed)

SteersDue(t) == t.steers # {} /\ ~am.inflight /\ gen

\* Mutant: submitted input that is not in the log yet is forgotten.
TurnQuiescent(t) == Quiescent(am) /\ t.steers = {}

TurnDone(t) == Quiescent(am) /\ t.unobserved = {} /\ t.steers = {}

\* Nothing to close.
EvaluateWaits ==
    /\ actor.at = "evaluate"
    /\ live # None =>
         IF ts[live].cancelling THEN ~CancelSettled(ts[live])
         ELSE ~SteersDue(ts[live]) /\ ~TurnDone(ts[live])
    /\ actor' = [actor EXCEPT !.at = "pop"]
    /\ UNCHANGED <<coordVars, gateVars, turnVars, logVars, am, reported,
                   abortVars, clientVars, gen, steer, op, events>>

\* turnResult.response: without an error an abort nobody asked for is one.
EvaluateCancelled ==
    /\ actor.at = "evaluate"
    /\ live # None /\ ts[live].cancelling /\ CancelSettled(ts[live])
    /\ Finish(live, ts[live], "error")
    /\ actor' = [actor EXCEPT !.at = "pop"]
    /\ UNCHANGED <<coordVars, gateVars, refuseNew, cancelledCalls, logVars, am,
                   reported, abortVars, handler, messageId, ctxDone, asked, gen,
                   steer, op, events>>

EvaluateSteers ==
    /\ actor.at = "evaluate"
    /\ live # None /\ ~ts[live].cancelling /\ SteersDue(ts[live])
    /\ ts' = [ts EXCEPT ![live].steers = {}]
    /\ actor' = [at |-> "submit", steers |-> ts[live].steers]
    /\ UNCHANGED <<coordVars, gateVars, live, refuseNew, cancelledCalls,
                   logVars, am, reported, abortVars, clientVars, gen, steer,
                   op, events>>

ActorSubmits(s) ==
    /\ actor.at = "submit" /\ s \in actor.steers
    /\ SubmitInput(s)
    /\ actor' = [at |-> IF actor.steers = {s} THEN "pop" ELSE "submit",
                 steers |-> actor.steers \ {s}]
    /\ UNCHANGED <<gateVars, turnVars, logVars, am, reported, abortVars,
                   clientVars, gen, steer, op, events>>

EvaluateDone ==
    /\ actor.at = "evaluate"
    /\ live # None /\ ~ts[live].cancelling
    /\ ~SteersDue(ts[live]) /\ TurnDone(ts[live])
    /\ Finish(live, ts[live], IF ts[live].err THEN "error" ELSE "end_turn")
    /\ actor' = [actor EXCEPT !.at = "pop"]
    /\ UNCHANGED <<coordVars, gateVars, refuseNew, cancelledCalls, logVars, am,
                   reported, abortVars, handler, messageId, ctxDone, asked, gen,
                   steer, op, events>>

-----------------------------------------------------------------------
(* The coordinator's goroutine.  Appending an item folds it into sync at   *)
(* once; the rest of Runtime.observe is a step of its own, under r.mu.     *)

Folded == sync' = Apply(sync, Head(appended'))

AppendsInput ==
    /\ gen
    /\ TakeInput
    /\ Folded
    /\ UNCHANGED <<gateVars, turnVars, inputs, known, delivered, actorVars,
                   abortVars, clientVars, gen, steer, op, events>>

\* Requests bounds the number of turns.
AppendsTurn ==
    /\ turns + 1 \in Requests
    /\ StartTurn
    /\ Folded
    /\ IF current = 0 THEN UNCHANGED gateVars ELSE Supersede(current)
    /\ UNCHANGED <<turnVars, inputs, known, delivered, actorVars, abortVars,
                   clientVars, gen, steer, op, events>>

\* Only the provider's own answer carries tool calls.
AppendsResponse(n, calls) ==
    /\ stage[n] = "answered" /\ n \notin superseded
    /\ outcome[n] # "provider" => calls = {}
    /\ TakeResult(n, calls)
    /\ Folded
    /\ delivered' = IF outcome[n] = "provider"
                    THEN delivered \cup {i \in inputs : i \notin todo}
                    ELSE delivered
    /\ UNCHANGED <<gateVars, turnVars, inputs, known, actorVars, abortVars,
                   clientVars, gen, steer, op, events>>

AppendsStatus(c) ==
    /\ \/ \E status \in {"ready", "error"} : TranslateCall(c, status)
       \/ op[c] = "ended" /\ FinishCall(c)
    /\ Folded
    /\ UNCHANGED <<gateVars, turnVars, inputs, known, delivered, actorVars,
                   abortVars, clientVars, gen, steer, op, events>>

IndexInput(item) ==
    /\ inputs' = inputs \cup {item.id}
    /\ UNCHANGED <<known, cancelledCalls, gateVars>>

\* A turn is not indexed; the coordinator goes on to call the model.
IndexTurn(item) ==
    /\ Call(item.turn)
    /\ UNCHANGED <<inputs, known, cancelledCalls>>

\* Mutant: a response that raced a cancel is indexed like any other.
IndexResponseRaced(item) ==
    /\ known' = known \cup item.calls
    /\ UNCHANGED <<inputs, cancelledCalls, gateVars>>

\* The calls of a response that raced a cancel must not start.
IndexResponse(item) ==
    /\ known' = known \cup item.calls
    /\ IF refuseNew /\ item.calls # {}
       THEN cancelledCalls' = cancelledCalls \cup item.calls /\ Park(item.calls)
       ELSE UNCHANGED <<cancelledCalls, gateVars>>
    /\ UNCHANGED inputs

IndexStatus == UNCHANGED <<inputs, known, cancelledCalls, gateVars>>

Index(item) ==
    CASE item.kind = "input"    -> IndexInput(item)
      [] item.kind = "turn"     -> IndexTurn(item)
      [] item.kind = "response" -> IndexResponse(item)
      [] item.kind = "status"   -> IndexStatus

Observe ==
    /\ Len(events) < MaxLag
    /\ ObserversDone
    /\ Index(Head(appended))
    /\ Push([kind |-> "item", item |-> Head(appended)])
    /\ UNCHANGED <<live, ts, refuseNew, sync, delivered, actorVars, abortVars,
                   clientVars, gen, steer, op>>

\* ops.Manager.Add with the runtime's policy.  An allowed operation is handed
\* to the inner manager in a step of its own, outside every lock.
AddsOperation(c, verdict) ==
    /\ adding = {c} /\ op[c] = "none"
    /\ op' = [op EXCEPT ![c] =
                IF c \in cancelledCalls \/ verdict = "deny" THEN "ended"
                ELSE IF verdict = "ask" THEN "held" ELSE "admitted"]
    /\ IF op'[c] = "admitted" THEN UNCHANGED coordVars ELSE OperationAdded
    /\ UNCHANGED <<gateVars, turnVars, logVars, actorVars, abortVars,
                   clientVars, gen, steer, events>>

-----------------------------------------------------------------------
(* Respond, on a goroutine of its own, and the operations.                 *)

Enter(n) ==
    /\ EnterMuted(n, sync.turnReasons) \/ EnterProvider(n, sync.turnReasons)
    /\ UNCHANGED <<coordVars, sessionVars>>

\* OnError is called before Respond returns.
RespondReturns(n, failed) ==
    /\ Return(n, failed)
    /\ IF Verdict(n, failed) = "errored" THEN Push([kind |-> "modelError"])
       ELSE UNCHANGED events
    /\ UNCHANGED <<coordVars, turnVars, logVars, actorVars, abortVars,
                   clientVars, gen, steer, op>>

\* The client answers the permission request, or it times out.
Decide(c, allow) ==
    /\ op[c] = "held"
    /\ op' = [op EXCEPT ![c] = IF allow THEN "admitted" ELSE "ended"]
    /\ UNCHANGED <<coordVars, gateVars, turnVars, logVars, actorVars,
                   abortVars, clientVars, gen, steer, events>>

StartsOperation(c) ==
    /\ op[c] = "admitted"
    /\ op' = [op EXCEPT ![c] = "running"]
    /\ IF adding = {c} THEN OperationAdded ELSE UNCHANGED coordVars
    /\ UNCHANGED <<gateVars, turnVars, logVars, actorVars, abortVars,
                   clientVars, gen, steer, events>>

OperationEnds(c) ==
    /\ op[c] = "running"
    /\ op' = [op EXCEPT ![c] = "ended"]
    /\ UNCHANGED <<coordVars, gateVars, turnVars, logVars, actorVars,
                   abortVars, clientVars, gen, steer, events>>

-----------------------------------------------------------------------
ClientNext ==
    \/ \E p \in Prompts, id \in MessageIds : SendPrompt(p, id)
    \/ \E how \in Cancels : SendCancel(how)
    \/ \E s \in Steers : SteerQueues(s) \/ SteerInterrupts(s)
    \/ \E c \in Calls, allow \in BOOLEAN : Decide(c, allow)

\* The runtime's own goroutines and timers.
PromptNext(p) ==
    \/ PromptBusy(p) \/ PromptKnown(p) \/ PromptTakesTurn(p)
    \/ EnsureGeneration(p) \/ GenerationFails(p) \/ PromptSubmits(p)
    \/ PromptSeesCancel(p) \/ PromptMarks(p) \/ PromptAborts(p)
    \/ PromptAnswers(p)

AbortNext(p) == AbortParks(p) \/ AbortStopsRequest(p) \/ AbortStopsOperations(p)

ActorNext ==
    \/ HandleItem \/ HandleWake \/ HandleModelError
    \/ \E p \in Prompts : HandleGrace(p) \/ HandleFlush(p)
    \/ ActorAborts \/ ActorAborted
    \/ EvaluateWaits \/ EvaluateCancelled \/ EvaluateSteers \/ EvaluateDone
    \/ \E s \in Steers : ActorSubmits(s)

\* The coordinator, its request goroutines, the provider and the tools.
CoordNext ==
    \/ AppendsInput
    \/ AppendsTurn
    \/ \E n \in Requests, calls \in SUBSET (Calls \ known) : AppendsResponse(n, calls)
    \/ \E c \in Calls : AppendsStatus(c)
    \/ Observe
    \/ \E c \in Calls, verdict \in Verdicts : AddsOperation(c, verdict)
    \/ \E c \in Calls : StartsOperation(c)

RequestNext(n) ==
    \/ Enter(n)
    \/ \E failed \in Failures : RespondReturns(n, failed)

Next ==
    \/ ClientNext
    \/ \E p \in Prompts : PromptNext(p) \/ AbortNext(p) \/ TimerFires(p)
    \/ NotifierMarks \/ NotifierAborts
    \/ \E s \in Steers : SteerSubmits(s)
    \/ ActorNext
    \/ CoordNext
    \/ \E n \in Requests : RequestNext(n)
    \/ \E c \in Calls : OperationEnds(c)

Spec == Init /\ [][Next]_vars

\* What the process itself schedules: the handlers once a request is in, the
\* actor and the timers.  Nothing is assumed of the client, the provider, the
\* tools or the coordinator.
RuntimeFairness ==
    /\ \A p \in Prompts :
          /\ WF_vars(PromptTakesTurn(p))
          /\ WF_vars(EnsureGeneration(p))
          /\ WF_vars(PromptSubmits(p))
          /\ WF_vars(PromptSeesCancel(p))
          /\ WF_vars(PromptMarks(p))
          /\ WF_vars(PromptAborts(p))
          /\ WF_vars(PromptAnswers(p))
          /\ WF_vars(AbortNext(p))
          /\ WF_vars(TimerFires(p))
    /\ WF_vars(NotifierMarks \/ NotifierAborts)
    /\ WF_vars(ActorNext)

FairSpec == Spec /\ RuntimeFairness

-----------------------------------------------------------------------
(* Safety.                                                                 *)

\* internal/mirror: the replica the Gate and abortTurn read is exactly the
\* coordinator's scheduling state, at every moment, also while a request is
\* replaced and calls end during one.
SyncIsTheCoordinator ==
    /\ sync.reasons = todo
    /\ sync.inflight = (current # 0)
    /\ sync.lastTurn = turns
    /\ sync.outstanding = running

\* The mirrors an actor goes through when it handles these events, from m on.
Handled(m, e) == IF e.kind = "item" THEN Apply(m, e.item) ELSE m

Trail(m, es) ==
    LET mirror[i \in 0 .. Len(es)] ==
            IF i = 0 THEN m ELSE Handled(mirror[i - 1], es[i])
    IN  mirror

\* The actor's replica, once the items in its queue and the one being observed
\* are folded into it, is the coordinator's: the close rule decides on a state
\* the coordinator was in, never on one it never had.  (runtime.go:337, 719)
ActorIsBehindByItsQueue ==
    LET caughtUp == Trail(am, events)[Len(events)]
    IN  sync = IF appended = <<>> THEN caughtUp ELSE Apply(caughtUp, Head(appended))

\* A turn that ends normally has had all its input answered by the provider
\* and no steer accepted into it is lost.  (runtime.go:839-874)  This is so when
\* no other turn was aborted: the rest of an abort that was delayed past its
\* own turn's answer stops this turn's request, and a steer accepted into an
\* aborted turn, submitted late, replaces it by one that is muted.
EndTurnMeansAnswered ==
    \A p \in Prompts :
        /\ ts[p].finished /\ answer[p] = "end_turn"
        /\ \A q \in Prompts \ {p} : ~ts[q].cancelling
        => /\ messageId[p] \in delivered
           /\ \A s \in Steers :
                 steer[s].turn = p /\ steer[s].at # "refused" => s \in delivered

\* The policy lets no call through while its turn is being cancelled, not even
\* one of a response that raced the cancel: ops.Manager.Add refuses it.  What
\* the policy let through before goes on: a held call may be approved until the
\* abort gets to it (Decide looks at no turn), an admitted one starts.
\* (runtime.go:320-324, 373)
PolicyRefusesWhileCancelling ==
    [][\A c \in Calls :
          op[c] = "none" /\ op'[c] \in {"held", "admitted"} =>
              live = None \/ ~ts[live].cancelling]_vars

\* No prompt other than p has begun: "until the next prompt".
Alone(p) == \A q \in Prompts \ {p} : handler[q] \in {"idle", "wait"}

Sent(n) == stage[n] = "called" /\ stage'[n] = "provider"

\* After a cancel has parked the Gate, and until a request unparks it or the
\* next prompt begins, whatever the coordinator can still make a request of is
\* parked: pending inputs and results, running calls, inputs in the inbox,
\* and the calls of a response that raced the cancel, once it is observed.
\* That the prompt itself is still parked says that nothing has unparked the
\* Gate: a raced response parks it again with its own calls and no others.
\* (runtime.go:320-324, 616-629)
WhatIsLeftIsParked ==
    LET observing == {c \in fresh : appended # <<>> /\ Head(appended).kind = "response"}
        left == todo \cup running \cup {inbox[i] : i \in DOMAIN inbox}
    IN  \A p \in Prompts :
          /\ parked /\ messageId[p] \in parkedReasons
          /\ abort[p].at \in {"stop", "ops", "done"} /\ Alone(p)
          => left \ observing \subseteq parkedReasons

\* The cancel of one prompt never mutes the next one: a request that answers
\* a prompt's own input goes to the provider unless that prompt itself is being
\* cancelled.  A redelivered prompt shares its id with the cancelled one; what
\* becomes of a request that was replaced before it got to the Gate is not
\* read.  (runtime.go:622-629)
NewPromptIsHeard ==
    [][\A n \in Requests, p \in Prompts :
          /\ outcome[n] # outcome'[n] /\ outcome'[n] = "muted" /\ n \notin superseded
          /\ messageId[p] \in sync.turnReasons
          /\ \A q \in Prompts \ {p} : messageId[q] # messageId[p]
          => ts[p].cancelling]_vars

\* README.md, Cancel: "No tokens are spent after a cancel until the next
\* prompt."  The cancel has stopped the request in flight, and still another
\* is sent.
NoTokensAfterCancel ==
    [][\A n \in Requests, p \in Prompts :
          abort[p].at \in {"ops", "done"} /\ Alone(p) => ~Sent(n)]_vars

\* README.md, Cancel: "The in-flight model request is cancelled."  The request
\* the coordinator waits for, if it is at the provider, is the one stopped.
CancelReachesTheRequest ==
    [][\A n \in Requests, p \in Prompts :
          /\ abort[p].at = "stop" /\ abort'[p].at = "ops"
          /\ stage[n] = "provider" /\ Live(n)
          => userStop' = n]_vars

\* A provider's failure, and the abort the actor makes of it, is never answered
\* as a cancel.  A cancel handled after its prompt's answer hits the next turn
\* (session/cancel names no prompt), so this is said of a prompt when no other was
\* open at a cancel.  (runtime.go:594-599)
CancelledOnlyByTheClient ==
    \A p \in Prompts :
        answer[p] = "cancelled" /\ (\A q \in Prompts \ {p} : q \notin asked) => p \in asked

\* A cancel that has run to its end has left no call of its turn waiting for
\* approval, and none comes to wait later: neither one whose operation was being
\* added meanwhile nor one of a response that raced it.  (runtime.go:615-637)
NoneIsLeftHeld ==
    \A p \in Prompts :
        live = p /\ ts[p].cancelling /\ abort[p].at = "done"
        => \A c \in Calls : op[c] # "held"

\* README.md, Cancel: a failed update "is sent for any call not yet reported",
\* then "the prompt is answered".  The calls the actor has announced, and not
\* seen end, have had their last update when the turn answers.
ReportedBeforeAnswer ==
    [][\A p \in Prompts :
          answer[p] = "none" /\ answer'[p] = "cancelled" =>
             am.outstanding \subseteq reported]_vars

\* A prompt the client cancels is answered, whatever the provider, the tools
\* and the coordinator do.
CancelIsAnswered ==
    \A p \in Prompts : p \in ctxDone \/ ts[p].clientCancelled ~> answer[p] # "none"
=======================================================================

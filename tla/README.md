# A TLA+ model of acp-unreal

`acp-unreal` serves the Agent Client Protocol on stdin and stdout and runs the
*Unreal Agent* coordinator in its own process.  A client (an editor, or the `gc`
orchestrator) opens sessions, sends prompts, steers and cancels them; the coordinator
calls a model provider, starts tools, and appends everything that happens to a session
log.  Most of the code here lives between those two: it has to know when a turn is over,
to keep a cancelled turn quiet, and to see that one process at a time hosts a session.
The coordinator has no operation "cancel this turn", and no notion of a turn being over;
the program builds both from the items of the log, on goroutines the coordinator does not
wait for.  That is what these modules are about.

All paths are relative to the repository; `runtime.go` is `internal/runtime/runtime.go`,
`agent.go` is `internal/acpagent/agent.go`, `gate.go` and `ops.go` likewise.

## 1. Inventory

| part | state it keeps | operations | modelled in |
|---|---|---|---|
| **Mirror** (`internal/mirror`) | pending reasons, newest turn, request in flight, outstanding calls and their operations | `Apply`, `Quiescent`, `Sync.Calls`, `Sync.TurnReasons` | `Mirror` |
| **Gate** (`internal/gate`) | parked reasons, the registered cancel function and its number, `userStop` | `Park`, `CancelInflight`, `Respond`, `ObserveDelta` | `Gate`; the text of an answer in `TextUpdates` |
| **Coordinator**, inbox, store (a library, not in the repository) | inbox, pending inputs, the request in flight, running calls | `Submit`, `Run`, the store observers | `Coordinator`, external |
| **Runtime** (`internal/runtime/runtime.go`) | the running turn, known inputs and calls, `refuseNew`, `cancelledCalls`, the generation, the actor's queue and timers | `Prompt`, `CancelTurn`, `abortTurn`, `Steer`, `observe`, `policy`, the actor (`handle`, `evaluate`), `ensureGeneration`, `Close` | `Session`; life of a runtime in `Sessions`; what it tells the client in `CallUpdates` and `TextUpdates` |
| **Operation manager** (`internal/ops`) | held operations, latest snapshots, timers, the update queue; the runtime's `pgids` | `Add`, `Decide`, `Cancel`, `emit`, `pump`, `feed`, `--op-timeout` | `Ops`, promise in `Approval` |
| **Session table** (`internal/acpagent`) | `a.sessions`, the bound mode | `session/new`, `load`, `resume`, `prompt`, `close`, `cancel`, steer, `set_config_option`, `Shutdown` | `Sessions`, `Session`, `Metadata` |
| **Session directory** (`state.go`) | logs, metadata, the `flock` of each session | `Exists`, `AcquireLock`, `Release`, `ReadMeta`, `WriteMeta` | `Sessions` (logs and locks), `Metadata` |
| **Event queue** (`internal/fifo`) | a list and a signal channel of one slot | `Push`, `Pop` | `Fifo`, promise in `Queue` |
| **Updates to the client** (`runtime.go`, `internal/project`) | announced and reported calls, streamed items | `announce`, `projectOperation`, `projectLive`, `projectDelta`, `Replay` | `CallUpdates`, `TextUpdates` |
| **Stream tap** (`internal/tap`) | the number of a request's attempts | tag, count, parse | `TextUpdates`, without the parsing |
| **Flattening**, **credentials** | none | formatting and filtering | not modelled |
| **Descendant sweep** (`internal/sweep`) | none of its own | rounds over `/proc` | `Sweep` |
| **Process** (`cmd/acp-unreal`) | the launch mode | start, signals, shutdown, exit | `Sessions`, `Sweep` |

### How the parts interact

* A **prompt** takes the runtime's turn under `r.mu`, makes sure a coordinator (a
  *generation*) runs, and submits its text to the inbox.  It then waits for a result that
  only the actor, or a failure to start, produces.
* The **coordinator** appends an item to the log.  The store observer runs on the
  coordinator's goroutine: it folds the item into the *sync* mirror under the mirror's own
  lock, indexes it under `r.mu`, and pushes it to the actor.  Then the coordinator goes on:
  it starts `Respond` on a goroutine of its own, or hands an operation to the operation
  manager, which asks the runtime's policy.
* The **Gate** wraps `Respond`.  It reads the reasons of the newest turn from the sync
  mirror and mutes a request that would only answer parked reasons.
* The **actor** handles one event at a time, folds items into its own replica *am*, and
  after each event applies the close rule, which is where a turn ends.
* A **cancel** marks the turn, then runs `abortTurn`: under `r.mu` it copies what is
  outstanding; after the unlock it parks the Gate, stops the request in flight, cancels the
  operations, wakes the actor and starts the cancel-grace timer; the timer of the flush
  follows it.  Three goroutines may run it: the handler of `session/cancel` (or of SIGINT),
  the prompt whose ctx has ended, and the actor after a provider failure.
* **What streams** from the provider reaches the client ahead of the log: the goroutine of a
  request tees it into the Gate, which keeps it for the case of a cancel, and into the
  actor's queue; the logged response comes later, through the observer, by the same queue.
  The actor alone speaks to the client, except that a `session/load` of an open session
  replays the log on the goroutine of the request.
* **Sessions** are opened by steps between which `a.mu` is free; across processes only the
  log on disk and the kernel's lock are shared.

### Where it is hard

The hazards are listed, each at its line, in `PROJECT.json`; in groups:

* *a cancel against a coordinator that does not wait*: reading what to park, parking and
  cancelling are three critical sections, and the coordinator may start a request, or
  receive one's tool calls, between any two of them;
* *goroutines of replaced requests*: after an interrupting steer two `Respond`s run, and
  enter and leave the Gate's one registration in any order;
* *two replicas*, one of them late: the close rule decides on the late one;
* *cancels that arrive late*: `CancelTurn` acts on the turn that runs by then;
* *everything that may never answer*: provider, tool, permission dialogue, coordinator;
* *several goroutines deciding one operation*: permission answer, its timeout, cancel,
  `--op-timeout`, a later generation that adds it again;
* *opening, closing and crashing at once*, in one process or in two, while options are set;
* *two sources of one message*: what streamed and what was logged, over the provider's
  retries, steers that replace a request, and a cancel that ends it half-way;
* *two speakers*: announcing a call is a look and a mark under a lock and a write after it;
* *processes nobody holds still*, while the sweep looks at them and signals them.

### What makes each part correct

* Mirror: it equals the coordinator's scheduling state, replaced requests included.
* Gate: what it cancels is at the provider; a stopped request is never a failure; a muted
  request answers nothing new.
* Runtime: a cancel leaves nothing unparked that could wake the model, has the policy refuse
  every further call, leaves none waiting for approval, and is answered whatever the others
  do; `cancelled` and `end_turn` mean what the README says; the next prompt is not harmed.
* Operation manager: refused means never run, allowed means run at most once, a cancelled
  operation gets its terminal snapshot.
* Session table and directory: one host for a session, no log replaced, no lock left
  behind, every close ends; the options a client chose are stored and used.
* Updates: no text is said twice, what streamed is what a replay says under the same id,
  a call is announced before anything is said of it and ends once.
* Event queue: it is a sequence, and its consumer is never stuck in front of an item.
* Sweep: it ends, kills what it found and nothing that was handed off.

## 2. The modules

`Mirror` and `Coordinator` and `Gate` each keep one component's variables and actions;
`Session` extends all three, so an action of `Session` is a whole step of the program: a
conjunction of what each component does and an `UNCHANGED` for the rest.  `SessionMC` adds
what only TLC needs.  `Ops` stands alone and implements `Approval`; `Fifo` stands alone and
implements `Queue`.  `Sessions`, `Metadata`, `Sweep`, `TextUpdates` and `CallUpdates` stand
alone.  The proofs about `Session` are three modules that extend each other:
`Session_proofs`, `Turns_proofs`, `Cancel_proofs`.  `Parts_proofs` is about `Fifo`,
`Metadata` and `Sweep`, `Updates_proofs` about `TextUpdates` and `CallUpdates`; every other
`*_proofs` module extends the one it is about.  `PartsMC` and `UpdatesMC`
put modules that share no state beside each other for TLC (`Ops`, `Fifo` and `Sweep`, whose
runs need fairness; `TextUpdates`, `CallUpdates` and `Metadata`, whose runs need none): one of
them is chosen in the initial state and runs by itself, so their states add up.

**The grain.**  A step is what one goroutine does under one acquisition of one lock
(`r.mu`, `g.mu`, `m.mu`, `a.mu`, the mirror's), or one call that leaves the component.
Where the code unlocks, another step may come in.  A history variable is named as such in
its declaration.

**`Mirror`**: a mirror is a record, `Apply` folds an item.  The list `Reasons` and the
counter `Pending` of the source always agree, because a reason is raised once and both are
cleared together; a set stands for both.  A call has one operation.  Left out: heartbeat
inputs (the runtime turns them off) and forks (nothing here writes them).  The guards of
`mirror.go:79` and `mirror.go:92`, against a response of an older turn and a status of a call
it does not know, are in `ApplyResponse` and `ApplyStatus`, but no run exercises them: the
coordinator drops such results before it appends anything.

**`Coordinator`** (external): the rules `mirror.go` states, and the use `runtime.go` makes
of it, with scheduling state of its own so that a mirror can be compared with it.  Sharing
the mirror's record would have made that comparison empty.

**`Gate`**: `Respond` is two steps with the provider's work between.  A request is named by
its turn; the Gate only compares its own number for identity.  `GateSpec` is the Gate under
*any* caller that keeps to one live request; that the session's coordinator is such a caller
is one of the rules assumed of the library.

**`Session`**: the correspondence of state is in the comments of its `VARIABLES`; of the
actions:

| code | actions |
|---|---|
| `Prompt` (`runtime.go:492`) | `PromptBusy`, `PromptKnown`, `PromptTakesTurn`, `EnsureGeneration` or `GenerationFails`, `PromptSubmits`, `PromptSeesCancel`, `PromptAnswers` |
| `CancelTurn`, `abortTurn` | `NotifierMarks`/`PromptMarks`, `NotifierAborts`/`PromptAborts`/`ActorAborts` (`AbortTurn`), `AbortParks`, `AbortStopsRequest`, `AbortStopsOperations`, `TimerFires` |
| `Steer` | `SteerQueues`, `SteerInterrupts`, `SteerSubmits`, `EvaluateSteers`, `ActorSubmits` |
| `observe` | `Folded` (in the step that appends), then `Observe` with `Index` |
| `policy` | `AddsOperation` |
| the actor | `HandleItem`, `HandleWake`, `HandleModelError`, `HandleGrace`, `HandleFlush`, then one of `EvaluateWaits`, `EvaluateCancelled`, `EvaluateSteers`, `EvaluateDone` |
| `Gate.Respond` | `Enter`, `RespondReturns` |

Abstractions of it: the permission mode, the allow list and the always flags are the choice
of a verdict; `abortTurn`'s loop over operations, its push and its timer are one step (the
operation manager's own interleavings are in `Ops`); the wake of a queued steer is pushed in
the step that queues it; messages are ids; streamed text and ids of answers are left out;
the session starts empty.  Three things are coarser than the grain: `Enter` reads the reasons
of the newest turn (`gate.go:193`) in the step that then takes `g.mu`; `HandleModelError`
records the error and looks at what is outstanding (`runtime.go:740-743`) in one; and a
submit to the inbox does not fail (`runtime.go:538`, `705`, `860`).

**`Ops`**: a goroutine inside the manager carries a `task`, the step it has still to do
after it released `m.mu`.  `Fate(o)` is the refinement mapping to `Approval`.

**`Sessions`**: a request carries its `stage`.  A runtime is named by the request that
opened it, and so is the open file that holds its lock.  `Dies` is the end of a process
however it comes: memory goes, the kernel drops its locks, the logs stay.  A process that
restarts is the next one in the order of starts.

**`Metadata`**: a call of `set_config_option` is a look in the table, a read, a change of the
runtime together with its own copy, a write of a temporary file, and a rename; an opening is
the same without the change.  `target` is the runtime a call has looked up, which may have
been closed since.  What the client may count on when calls overlap is the ghost `may`: an
option may be what the last call that had the session to itself was answered for, or what
any later call has asked for.  Left out: the refusal of an empty model or of an effort that is
none, which changes nothing, as that of a model that is not offered does.

**`Fifo`**: an item is the number of its push.  `Push` is two steps, because the signal comes
after the unlock; `Pop` is the look under the lock, and the wait.  `Session` and `Ops` use
`Queue`, the sequence, in the form of `Append` and `Tail`.

**`Sweep`**: the marker is a set of live processes, and what `Matches` compares is left out.
A step of `Stop` is one system call; between any two, processes fork, exit, are reaped, are
handed off, or take a free pid.  A process that is sent SIGKILL ends in the same step, where
the kernel may take a moment longer than `Stop`, which does not wait for it.

**`TextUpdates`**: a piece of text is the attempt it came with and its number in it; a
message id is the request and the attempt whose response id it is made of.  The coordinator
may replace a request at any time, its goroutine goes on.  `Verdicts` is the switch at the
end of `Respond`.  Thoughts are left out: of a request that is cancelled the Gate keeps the
text and no thoughts, so what is said of live and logged text does not hold of them.

**`CallUpdates`**: the log is a sequence of responses with calls and of terminal statuses.  An
event of the actor becomes a `duty`, what it has to tell; `announce` is `AnnounceMarks` or
`AnnounceSkips`, then `AnnounceSends`, then `SendsUpdate`.  Correspondence: `HandleCalls` and
`HandleStatus` are the cases of `projectLive`, `HandleOperation` is `projectOperation`,
`HandlePermission` and `HandleFlush` are cases of `handle`, `Replay...` is `Replay` with
`project.Replay`.

## 3. What is checked

Each passing run checks its invariants and properties in every reachable state of its
instance.  A property that only one run checks is checked there because that instance has
the actors it is about.

| run | instance | shows |
|---|---|---|
| `session_cancel` | one prompt, two calls, three requests, SIGINT, failures; 1.5 million states | what a cancel leaves is parked (`WhatIsLeftIsParked`), the policy refuses what it is asked about while the turn is being cancelled (`PolicyRefusesWhileCancelling`), no call is left waiting for approval (`NoneIsLeftHeld`), only a client's cancel is answered `cancelled`, a stopped request is no failure |
| `session_answers` | one prompt, one call, both kinds of cancel, failures, with fairness; 0.4 million | a cancelled prompt is answered (`CancelIsAnswered`) |
| `session_steer` | one prompt, one call, one steer in either mode, SIGINT; 1.5 million | both mirrors follow the coordinator, what the Gate would cancel is at the provider, a turn that ended with `end_turn` has had every input answered (`EndTurnMeansAnswered`) |
| `session_two` | two prompts that overlap, one call; 0.4 million, up to symmetry | the cancel of one prompt never mutes the next (`NewPromptIsHeard`) |
| `parts` | one operation, two deciding goroutines, coordinator, pump, timers, one more `Add`; the queue with two pushers and five items; three pids; 0.1 million | `DecidedOnce`, the manager implements `Approval` (`Approved`), a cancel of a held operation ends it; the queue loses no wake-up and is a sequence; the sweep ends and spares and kills what it should |
| `sessions_table` | two processes, one session id, three requests of any kind, crash and restart anywhere; 0.8 million | one host, no log replaced, no orphaned lock, `--session-id` given once, every close ends |
| `updates` | two requests of two attempts with two pieces each; one new and one old call, a cancel, a `session/load`; two `set_config_option` calls, three openings, crash anywhere; 2.4 million | no text twice, live is replay, a call is announced first and ends once, no final status is lost; choices are stored and used |

The liveness properties are checked under fairness (`FairSpec`, `PartsSpec`), everything else
holds without it.

### Where the code does not do what a document says

These runs each check one sentence of the repository's text and end in a counterexample.
`PROJECT.json` has the sentence and the explanation.

| run | sentence | what happens |
|---|---|---|
| `session_tokens` | "No tokens are spent after a cancel" | a request whose turn is in the log, but whose `Respond` has not registered, is sent after the cancel has stopped "the request in flight" |
| `session_late_request` | "The in-flight model request is cancelled" | the goroutine of a replaced request overwrites, or clears, the registration of the newer one; the cancel misses it |
| `session_report` | failed updates, *then* the answer | a call of a response that raced the cancel is in no `waitCalls`; the prompt is answered before its last update |
| `sessions_close` | close "stops the coordinator ... and releases the lock" | a prompt that looked the runtime up before the close starts a coordinator after the close looked for one |
| `updates_logged` | live and replay "use the same id for the same message" | a cancel that ends a request between the id and the first text of a second attempt logs the first one's text under the second one's id |

Some properties of the passing runs carry such an exception in their own statement, so that
what is left of the sentence is still checked:

* `ToldFirst`: `README.md:134` says the client has seen a `tool_call` before any
  `tool_call_update`.  `send` marks a call and then writes; when it is `Replay`'s goroutine
  that has marked it, the actor finds it announced and its update may be written first
  (`runtime.go:917-923`).  The property holds with "or `Replay` is about to write it" added,
  and without it does not.
* `LiveIsReplay` leaves out what `updates_logged` shows, and one thing more: the actor drops a
  delta it handles after the next request has registered (`runtime.go:929`); the client has
  then seen only a beginning of the text, or all of it under the logged id.
* `CancelledOnlyByTheClient` is said of a prompt when no other one was open at a cancel:
  `session/cancel` names no prompt, and one that is handled late cancels the next
  (`runtime.go:594`), against "`cancelled` is reserved for the client's own cancel".  What the
  property excludes is that the abort which the actor makes of a provider's failure, or any
  order of the three goroutines that may run `abortTurn`, is answered `cancelled`.
* `EndTurnMeansAnswered` is said of a turn while no other turn is being aborted.  Of two
  prompts that overlap, TLC has two counterexamples to more.  The rest of an abort that is
  delayed past its own turn's answer stops the next prompt's request (`runtime.go:630`).  And
  `Steer` submits after its unlock: an interrupting steer accepted into a turn that is then
  aborted is submitted into the next prompt's turn (`runtime.go:693-705`), and replaces its
  request by one that the Gate mutes, since the steer was parked with its turn.
* `PolicyRefusesWhileCancelling` is about the policy, which is asked once, when a call's
  operation is added.  A call that was let through before goes on to run, and one that waits
  for approval may be approved as long as `abortTurn` has not got to its operation: `Decide`
  (`ops.go:180-195`) looks at no turn, and between the mark (`runtime.go:614`) and the cancel
  of the operations (`runtime.go:633`) the lock is free.  That "a call still waiting for
  approval is withdrawn" does not hold in this window; `NoneIsLeftHeld` says that after it
  none waits any more.
* `CancelOfHeldEnds` leaves out an approval between `Manager.Cancel`'s look at `Held` and its
  `Decide`, which makes the cancel do nothing (`ops.go:207-209`).
* `WhatIsLeftIsParked` is said as long as the cancelled prompt is itself still parked.  When
  a response that raced the cancel is observed after a request has unparked the Gate, it
  parks it again, with its own calls and no others.  This takes three calls; the proof failed
  at this step, and TLC then had the behaviour.
* `NewPromptIsHeard` leaves out a request that was replaced before it reached the Gate.  It
  may be muted, and nobody reads what it returns.

### Bounds, and why they are enough

* `Requests`: how many turns the coordinator may start.  Two let a muted request follow the
  one that is cancelled, three let an interrupting steer replace one of them, or a second
  round of tools be answered.
* `MaxLag`: how far the actor's queue may be behind before `Observe` waits.  The actor
  handles events in order, so what matters is that it can be behind a whole response and its
  statuses, two or three items; `session_answers`, which is about progress, allows nine,
  which is never reached.
* One cancel in a behaviour (and one more by ctx for each overlapping prompt): a second
  cancel of a turn finds it `cancelling` and does nothing; one that hits a later turn is what
  a single late one does too.  The delayed abort of *two* cancels is in the plan.
* `Overlap`: by the protocol a client waits for the answer; FALSE except in `session_two`.
* `Failures`: FALSE where only the interleaving of requests is asked about.
* `Verdicts` without `"deny"` in the session runs: a denied call ends as one refused by
  `refuseNew` does; `parts` has all three.
* Symmetry of prompts and of message ids in `session_two`, which checks safety only.
* `MaxReAdds`: one later generation; a second repeats the first with the same state.
* `MaxProcs = 2`: the old and the restarted process, or two at once; a third has the same
  relation to each.  `MaxRequests = 3`: two that race and one that closes, or one each of
  open, prompt and close.  One session id: the sessions share only the table's lock and the
  bound mode, which names one id.  The processes of `sessions_table` are launched in
  the modes `gc` and `create`, and are unbound once their session is open.  `resume` is left
  out: it is `load` with a look for the log before, which is `Launch`'s guard.  So is the
  unbound launch, whose `session/new` takes an id that by its freshness nobody races for;
  `sessions_close` has it.
* `MaxPushes = 5`, two pushers: more items than pushers, so a signal can be dropped and one
  can be older than the look it wakes.
* `MaxOpens = 3`: an opening that a call has looked up, its successor, and one more, whose
  `--model` differs.  `Offered` leaves out one model, so that a refusal happens.
* Three pids: one that is found, one that is handed off or ends, and one that is free, for a
  fork or for a pid that changes hands.
* `MaxAttempts = 2`, `MaxPieces = 2`: a failed attempt with text and one that follows;
  `MaxTextLag = MaxCallLag = 2`: the actor is behind a response and one more event.
  `Calls = {c1}`, `OldCalls = {c0}`: what is said of a call depends on no other call, and the
  two differ in where the runtime has them from; the proofs are for any sets.
* `CHECK_DEADLOCK FALSE` everywhere: the client may send nothing more, a provider and a tool
  may never answer, and bounded requests run out.  That the program itself does not stop is
  what the liveness properties say.

### Fairness

* `RuntimeFairness`: a goroutine of the process that can go on does so, the actor included,
  and a timer fires.  The busy wait of a prompt is not among them: it ends by its deadline or
  because the turn ends, and only the latter is assumed.  *Nothing* is assumed
  of the client, the coordinator, the provider, the tools or the permission dialogue, which
  is the point of `CancelIsAnswered`.
* `Ops`: a goroutine that took a call up finishes it, and the feed delivers what is queued.
  The inner manager and the tools may never end anything.
* `Sessions`: the goroutine of a close goes on and its deadlines pass.
* `PartsMC` has the fairness of `Ops`; besides, a goroutine that has appended goes on to
  signal, the consumer comes back to the queue, `Stop` goes on, and time passes.  The other
  processes need do nothing, and may go on for ever: `SweepEnds` says that they cannot keep
  `Stop` from its end.
* `UpdatesMC` has none: that nothing is left out is the invariant `NoFinalIsLost`.

## 4. What is proved

The theorems hold for every value of the constants that satisfies the named assumptions:
`ReasonsAreDistinct` (a call and an input never share an id), `NoneIsNoRequest`,
`SessionAssumption` (which ids are steers, `None` is neither a prompt nor an id, what the
enumerated choices may be),
`OpsAssumption` (the coordinator and the pump are not among the other goroutines),
`SessionsAssumption` (the bound id is a session id, the bounds are numbers),
`MetadataAssumption` (no value is `Unset`, the opening is no call, what is offered are
models), `SweepAssumption`, `FifoAssumption`, `TextAssumption` (the bounds are numbers, a
request has an attempt) and `CallAssumption` (old calls are not calls of this process).  TLC
evaluates them in the runs too.  Every invariant and every safety action property that a
passing run checks is the statement of a theorem.

**Gate** (`Gate_proofs`).  `GateIInv` adds to the two properties that a stopped request was
sent: without it `StoppedIsNeverAFailure` is not inductive, because a request that is muted
is answered without a look at `userStop`.  Results: `GateInvariant`, `GateTypeCorrect`, the
registered cancel function is that of a request at the provider, and a stopped request is
never answered as a failure.

**Session** (`Session_proofs`).  The inductive invariant is `TypeOK`, `SchedulingInv` and
`RequestsInv`.
`SchedulingInv` adds to `SyncIsTheCoordinator` that the request in flight is the newest turn
and that the calls to be translated are running: a mirror takes only the newest turn's
response and only a status of a call it knows, so equality alone is not preserved.
`RequestsInv` says that only the current request can be live, and that between the append of
a turn and its `Respond` the current one has not started; with it each step of a session is
a step of `GateNext` or leaves the Gate alone (the lemma `SessionUsesGate`; `Session` is
built from the Gate's operators, so what there is to show is the one live request).  Hence
`SessionImplementsGate`, and the Gate's two results hold of a session without being proved
again.  The steps that touch neither the log's scheduling state nor the Gate's requests are
treated once, as `Quiet`.

**Turns** (`Turns_proofs`).  `ActorFollowsTheCoordinator` says of the actor's replica what
`SyncFollowsTheCoordinator` says of the other: with the items of its queue folded into it,
it is the coordinator's.  The fold is the function `Trail`, defined over the length of the
queue; that it exists and is unique, and what an append or a taken head does to it, is shown
by induction over a set of numbers, whose least missing element the library provides, so
that no operator has to be instantiated.  `TurnsInv` then says who owns the turn and who may
still change it, `InputsInv` where an input can be, and that it is there once: on its way,
in the inbox, in the log, or seen.

**Cancel** (`Cancel_proofs`).  Each theorem first sorts the steps by what they can do to the
state it is about (`CancelKind`, `Parks`, `Progress`, ...), so that its invariant is shown
of a few kinds of step in place of forty actions.

* `CancelledTurnIsRefused`: while the running turn is being cancelled `refuseNew` is set
  and every running call is in `cancelledCalls`, but for those of a response that is still
  being observed (`RefusedInv`); and a call is asked for only while it runs, with no
  response under observation (`AddingInv`).  The abort and the observer do not meet: either
  the abort copies the call, or `Index` finds the turn cancelling.
* `CancelLeavesNoneHeld`: a call that waits for approval has an operation the mirror knows,
  because its observers came first (`WaitingInv`); so the abort has it in its snapshot, and
  it waits no longer than until the step that ends what the snapshot holds (`HeldInv`).  By
  the theorem before, no other comes to wait.
* `CancelledIsTheClients`: until the client asks, nobody is in a step that could answer
  `cancelled` (`AskedInv`); the abort of a failure gets to `finish` with the error.
* `CancelParksWhatIsLeft`: what the coordinator can still make a request of belongs to the
  turn (`InputsInv`: nobody else has submitted anything, since the prompt is alone), and what
  the turn has taken is fixed from the moment it is marked (`TakenInv`), is parked by the one
  step that reads it, and stays parked until a request unparks the Gate (`LeftInv`).
* `CancelMutesNoOtherPrompt`: what is parked, or is in the hand of an abort, was taken by a
  cancelled turn (`MutedInv`); the input of another prompt is then never a reason, or is one
  no longer, of a request (`QuittedInv`, for either mirror along the queue).
* `EndTurnAnswersEverything`: an input that the turn has taken and the log has is pending, or
  in the request, or answered, or a failure is on its way to the actor (`TodoInv`); the same
  is said of the actor's replica at every point of its queue (`ActorInv`), so that when the
  close rule holds there, nothing is left but answered inputs.  It is about the prompt and
  the steers, not about results of calls, and about turns while no other is being aborted.

**Operation manager** (`Ops_proofs`).  `OpsInv` strengthens `DecidedOnce` by what a held, or
an unknown, operation implies of everything under way: no task emits or forwards it and no
update of it is queued.  From it: types, `DecidedOnce`, and the step simulation that makes
`OpsImplementApproval` (`Spec => Approved`).

**Session tables** (`Sessions_proofs`).  Four properties (`LogIsNeverReplaced`,
`NoLockIsOrphaned`, `TableHoldsLocks`, `CreatedOnce`) follow from one invariant that says
who may hold a lock, from the side of the handler, of the runtime, of the table and of the
lock.  None of the four is inductive without the other sides.  The theorems are for any
number of processes, restarts, sessions and requests.

**Event queue** (`Parts_proofs`).  `NoLostWakeup` is inductive with the types: the consumer
goes to wait only when there is no item, and whoever brings one then has still to signal.
Each step maps to `Put`, `TakeHead`, `Leave` or a stutter (`QueueIsASequence`).  That an item
is taken in the end is checked by TLC.

**Metadata** (`Parts_proofs`).  `ChoicesAreStored` and `ChoicesAreUsed` are not inductive:
what is on disk next is a copy that a call or an opening has read before.  The invariant
says that every such copy is allowed (`may`), and of a call that has the session to itself
that no other copy is about and that the runtime it has changed is still the open one: that
is what lets its answer settle the option.

**Sweep** (`Parts_proofs`).  The invariant says where each process that is owed its end still
is (to be looked at, being looked at, kept, found, to be killed), and that what is spared is
unmarked, so that no look keeps it.

**Text** (`Updates_proofs`).  That the text shown live is the logged one is a statement about
what a long stream adds up to, but it is proved without induction over the stream, because
the invariant speaks of single pieces.  What is shown of an attempt is its pieces 1, 2, ...
in this order (`Runs`); what the Gate keeps, or a request has returned, is of one attempt,
and each of its pieces is shown or in the actor's queue (`Reaches`), and none beyond it is
(`Exceeds`).  When the actor comes to a response, nothing else of its request is queued, so
the two have the same length.  That a piece has the id of its attempt is `KeyInv`.

**Tool calls** (`Updates_proofs`).  Three facts carry the invariant: a call that is marked
was told or is in the hand of the one who marked it; a call that is reported has its final
update or the actor still owes it; a call that has ended is reported or its status is in the
queue.  `ReplayToldFirst` needs in addition that the log has a call's response before its
status, and so have the items that `Replay` has read.

**Only model-checked**: liveness (`CancelIsAnswered`, `CancelOfHeldEnds`, `ClosesEnd`,
`SweepEnds`, and the fairness in `ImplementsSequence`), because fairness and ENABLED are
beyond the prover; and the sentences of the documents that do not hold.  What
`Queue` promises a consumer is proved without its fairness (`QueueIsASequence`).

## 5. What is not modelled

* The library (coordinator, store, inbox, local operation manager) beyond the rules above:
  it is not in the repository.  What is shown of the program is shown under those rules.
* The text of everything: flattening, titles and diffs of tool calls, the hash behind a
  message id, the filter of credentials, the stream's parser.  These are pure and have tests.
* Flags, hardening, signals other than the three that end a process and SIGINT.
* `session/list` and `initialize`, which change nothing; usage; redaction.
* Test fakes, the smoke test, packaging.
* The parts of `runtime.go` named in the plan: the exit of `Run` inside a turn, turns of a
  session that was opened with history, and the always-allow flags.

## 6. Plan

Done, in this order: `Mirror`, `Gate`, `Coordinator`, `Session` with its cancel, steer and
close rule; `Gate_proofs`, `Session_proofs`; `Approval`, `Ops`, `Ops_proofs`; `Sessions`,
`Sessions_proofs`; `Queue`, `Fifo`, `Metadata`, `Sweep` and `Parts_proofs`; `TextUpdates`,
`CallUpdates`, `Updates_proofs`; `Turns_proofs`, `Cancel_proofs`.  What could follow:

1. **`Session`: the exit of `Run` inside a turn** (`runtime.go:746`), opening a session with
   history (`runtime.go:262`), and the end of a runtime.  Properties: a turn without a cancel
   ends when the generation does; which prompt an error belongs to; a prompt that takes the
   turn after `Close` has looked is answered (`runtime.go:1147`).
2. **Two cancels**, the first delayed past its turn's answer (`runtime.go:630`), with a
   history variable for the turn a cancel was meant for, and one for the turn an input was
   accepted into.
3. **An abstract turn** (asked, cancelled or not, answered once) that `Session` implements,
   and an abstract lock that `Sessions` implements.
The runs of the plan are kept few: where one instance can carry two questions it does, and a
run whose question another has come to answer gives way to it.

## 7. Running it

    tlc -config session_cancel.cfg SessionMC.tla      # the passing session runs
    tlc -config session_tokens.cfg Session.tla        # a counterexample
    tlc -config sessions_table.cfg Sessions.tla
    tlc -config parts.cfg PartsMC.tla
    tlc -config updates.cfg UpdatesMC.tla
    tlapm Sessions_proofs.tla
    tlapm Cancel_proofs.tla                           # the longest, some minutes

The module and configuration of each run, and for each property a *mutant*, a plausible
wrong version of one definition under which TLC finds the property violated, are in
`PROJECT.json`.  A mutant stands in its module right before the definition it varies and is
used by nothing else.

---------------------------- MODULE CallUpdates ----------------------------
(***************************************************************************)
(* What the client of one session is told of the tool calls.               *)
(* (internal/runtime observe, index, announce, send, projectLive,          *)
(* projectOperation, the permission and flush events of handle, Replay;    *)
(* internal/project Replay)                                                *)
(*                                                                         *)
(* The coordinator logs responses with calls and the calls' statuses; its  *)
(* observer indexes each item and queues it.  The operation manager queues *)
(* what Tap sees and the permission requests, the client's cancel queues   *)
(* the end of its patience.  The actor tells what it takes from the queue, *)
(* one event at a time, and a session/load of the open session replays the *)
(* log from a goroutine of its own.  announce marks a call under r.mu and  *)
(* writes its tool_call after the unlock, so each is a step of its own.    *)
(***************************************************************************)
EXTENDS Naturals, Sequences

CONSTANTS
    Calls,        \* the tool calls of this process
    OldCalls,     \* the calls that an earlier process has left in the log
    MaxCallLag,   \* bound: events the actor has not handled yet
    MaxLoads      \* bound: session/loads of the open session

ASSUME CallAssumption ==
    /\ Calls \cap OldCalls = {} /\ "none" \notin Calls \cup OldCalls
    /\ MaxCallLag \in Nat
    /\ MaxLoads \in Nat

AllCalls == Calls \cup OldCalls

VARIABLES
    log,          \* the items of the session that speak of calls
    observing,    \* the item whose observer has not run yet
    known,        \* the calls in r.calls
    ended,        \* the calls whose terminal status the observer has seen
    callEvents,   \* r.events
    asked,        \* calls whose operation has been queued, and as what
    waitCalls,    \* the calls a cancelled turn waits for
    cancel,       \* how far the client's cancel is
    announced,    \* r.announced
    duty,         \* what the actor has yet to tell for the event it handles
    hand,         \* what it is telling
    started, reported,
    replay,       \* the items Replay has read, and how many it has begun
    replayDuty,   \* the calls of its item that it has not sent yet
    replayHand,   \* the call it has marked and not sent yet
    told,         \* the calls of which the client has seen a tool_call
    updates       \* the updates that the actor has sent, per call

logVars    == <<log, observing, known, ended>>
turnVars   == <<asked, cancel>>
actorState == <<started, reported, waitCalls>>
replayVars == <<replay, replayDuty, replayHand>>
callVars   == <<logVars, callEvents, turnVars, announced, duty, hand, actorState,
                replayVars, told, updates>>

Nobody == [call |-> "none", tell |-> "none", step |-> "none"]
NoItem == [kind |-> "none"]
Response(calls) == [kind |-> "response", calls |-> calls]
Status(c)       == [kind |-> "status", call |-> c]

SeenOfHistoryAll(old) == old

\* A session that is opened has told this connection of no call.
SeenOfHistory(old) == {}

\* The session may have been opened, without a replay, on a log that holds
\* calls of an earlier process.
CallInit ==
    /\ \E old \in SUBSET OldCalls :
         /\ log = IF old = {} THEN <<>> ELSE <<Response(old)>>
         /\ known = old
         /\ announced = SeenOfHistory(old)
    /\ observing = NoItem
    /\ ended = {} /\ asked = {} /\ waitCalls = {}
    /\ cancel = "none"
    /\ callEvents = <<>>
    /\ duty = {} /\ hand = Nobody
    /\ started = {} /\ reported = {}
    /\ replay = [at |-> 0, items |-> <<>>, loads |-> 0] /\ replayDuty = {} /\ replayHand = {}
    /\ told = {}
    /\ updates = [c \in AllCalls |-> <<>>]

PushCall(e) ==
    /\ Len(callEvents) < MaxCallLag
    /\ callEvents' = Append(callEvents, e)

-----------------------------------------------------------------------------
(* The coordinator and its observer, the manager, the client's cancel.     *)

ActorIsAside == UNCHANGED <<announced, duty, hand, started, reported, replayVars, told, updates>>

AppendsItem(item) ==
    /\ observing = NoItem
    /\ log' = Append(log, item)
    /\ observing' = item
    /\ UNCHANGED <<known, ended, callEvents, turnVars, waitCalls>> /\ ActorIsAside

AppendsResponse(calls) == calls \cap known = {} /\ AppendsItem(Response(calls))

AppendsStatus(c) == c \in known \ ended /\ AppendsItem(Status(c))

\* observe: index, and the push.
Observes ==
    /\ observing # NoItem
    /\ observing' = NoItem
    /\ known' = IF observing.kind = "response" THEN known \cup observing.calls ELSE known
    /\ ended' = IF observing.kind = "status" THEN ended \cup {observing.call} ELSE ended
    /\ PushCall([kind |-> observing.kind, item |-> observing])
    /\ UNCHANGED <<log, turnVars, waitCalls>> /\ ActorIsAside

Queues(c, what) ==
    /\ c \in known
    /\ <<c, what>> \notin asked
    /\ asked' = asked \cup {<<c, what>>}
    /\ PushCall([kind |-> what, call |-> c])
    /\ UNCHANGED <<logVars, cancel, waitCalls>> /\ ActorIsAside

\* The manager holds the call's operation before it ever runs, and asks.
PermissionQueued(c) == <<c, "op">> \notin asked /\ Queues(c, "permission")

Asked(c) == \E i \in 1 .. Len(updates[c]) : updates[c][i] = "ask"

\* Tap sees it awaiting, possibly after later snapshots (module Ops).
OperationQueued(c) == (<<c, "permission">> \in asked => Asked(c)) /\ Queues(c, "op")

\* abortTurn: the turn waits for the calls that have not ended.
ClientCancels ==
    /\ cancel = "none"
    /\ cancel' = "waiting"
    /\ waitCalls' = known \ ended
    /\ UNCHANGED <<logVars, callEvents, asked>> /\ ActorIsAside

\* The last of the cancel's timers.
CancelTimesOut ==
    /\ cancel = "waiting"
    /\ cancel' = "queued"
    /\ PushCall([kind |-> "flush"])
    /\ UNCHANGED <<logVars, asked, waitCalls>> /\ ActorIsAside

-----------------------------------------------------------------------------
(* The actor: one event, and then what it has to tell because of it.       *)

HandlesCall(kind) ==
    /\ duty = {} /\ hand = Nobody
    /\ callEvents # <<>> /\ Head(callEvents).kind = kind
    /\ callEvents' = Tail(callEvents)
    /\ UNCHANGED <<logVars, turnVars, announced, hand, replayVars, told, updates>>

HandleCalls ==
    /\ HandlesCall("response")
    /\ duty' = {<<c, "none">> : c \in Head(callEvents).item.calls}
    /\ UNCHANGED actorState

ReportsAgain(calls) ==
    /\ duty' = {<<c, "final">> : c \in calls}
    /\ reported' = reported \cup calls
    /\ UNCHANGED started

ReportsOnlyAnnounced(calls) ==
    /\ duty' = {<<c, "final">> : c \in (calls \cap announced) \ reported}
    /\ reported' = reported \cup calls
    /\ UNCHANGED started

\* Every call is reported once, by its status or by the flush.
Reports(calls) ==
    /\ duty' = {<<c, "final">> : c \in calls \ reported}
    /\ reported' = reported \cup calls
    /\ UNCHANGED started

HandleStatus ==
    /\ HandlesCall("status")
    /\ LET c == Head(callEvents).item.call
       IN  Reports({c}) /\ waitCalls' = waitCalls \ {c}

HandleFlush ==
    /\ HandlesCall("flush")
    /\ Reports(waitCalls)
    /\ waitCalls' = {}

SaysItRuns(c) == c \notin started \cup reported

HandleOperation ==
    /\ HandlesCall("op")
    /\ LET c == Head(callEvents).call
       IN  IF SaysItRuns(c)
           THEN duty' = {<<c, "progress">>} /\ started' = started \cup {c}
           ELSE UNCHANGED <<duty, started>>
    /\ UNCHANGED <<reported, waitCalls>>

\* The request itself is sent by a goroutine that starts once the call is
\* announced.
HandlePermission ==
    /\ HandlesCall("permission")
    /\ duty' = {<<Head(callEvents).call, "ask">>}
    /\ UNCHANGED actorState

OthersAreAside == UNCHANGED <<logVars, callEvents, turnVars, actorState, replayVars>>

\* announce looks the call up and marks it under r.mu ...
Fresh(c) == c \in known /\ c \notin announced

TakesDuty(c, tell, step) ==
    /\ hand = Nobody /\ <<c, tell>> \in duty
    /\ duty' = duty \ {<<c, tell>>}
    /\ hand' = [call |-> c, tell |-> tell, step |-> step]

MarkedLater(c) == announced

Marked(c) == announced \cup {c}

AnnounceMarks(c, tell) ==
    /\ Fresh(c)
    /\ TakesDuty(c, tell, "telling")
    /\ announced' = Marked(c)
    /\ UNCHANGED <<told, updates>> /\ OthersAreAside

AnnounceSkips(c, tell) ==
    /\ ~Fresh(c)
    /\ TakesDuty(c, tell, "updating")
    /\ UNCHANGED <<announced, told, updates>> /\ OthersAreAside

\* ... and the tool_call is written after the unlock.
AnnounceSends ==
    /\ hand.step = "telling"
    /\ told' = told \cup {hand.call}
    /\ hand' = [hand EXCEPT !.step = "updating"]
    /\ UNCHANGED <<announced, duty, updates>> /\ OthersAreAside

SendsUpdate ==
    /\ hand.step = "updating"
    /\ updates' = IF hand.tell = "none" THEN updates
                  ELSE [updates EXCEPT ![hand.call] = Append(@, hand.tell)]
    /\ hand' = Nobody
    /\ UNCHANGED <<announced, duty, told>> /\ OthersAreAside

-----------------------------------------------------------------------------
(* Replay of the open session, of what the log holds when it reads it.     *)

LiveIsAside == UNCHANGED <<logVars, callEvents, turnVars, duty, hand, actorState, updates>>

ReplayReads ==
    /\ replay.items = <<>> /\ log # <<>> /\ replay.loads < MaxLoads
    /\ replay' = [at |-> 0, items |-> log, loads |-> replay.loads + 1]
    /\ UNCHANGED <<replayDuty, replayHand, announced, told>> /\ LiveIsAside

ToReplayUnannounced(item) == IF item.kind = "response" THEN item.calls \ announced ELSE {}

\* Every call of a response is sent, also one that the actor has marked.
ToReplay(item) == IF item.kind = "response" THEN item.calls ELSE {}

ReplayItem ==
    /\ replay.at < Len(replay.items) /\ replayDuty = {} /\ replayHand = {}
    /\ replay' = [replay EXCEPT !.at = @ + 1]
    /\ replayDuty' = ToReplay(replay.items[replay.at + 1])
    /\ UNCHANGED <<replayHand, announced, told>> /\ LiveIsAside

ReplayEnds ==
    /\ replay.items # <<>> /\ replay.at = Len(replay.items)
    /\ replayDuty = {} /\ replayHand = {}
    /\ replay' = [replay EXCEPT !.at = 0, !.items = <<>>]
    /\ UNCHANGED <<replayDuty, replayHand, announced, told>> /\ LiveIsAside

\* send marks the call and then writes.
ReplayMarks(c) ==
    /\ c \in replayDuty /\ replayHand = {}
    /\ replayDuty' = replayDuty \ {c}
    /\ replayHand' = {c}
    /\ announced' = Marked(c)
    /\ UNCHANGED <<replay, told>> /\ LiveIsAside

ReplaySends ==
    /\ replayHand # {}
    /\ told' = told \cup replayHand
    /\ replayHand' = {}
    /\ UNCHANGED <<replay, replayDuty, announced>> /\ LiveIsAside

-----------------------------------------------------------------------------
Tells == {"none", "ask", "progress", "final"}

Environment ==
    \/ \E calls \in SUBSET Calls \ {{}} : AppendsResponse(calls)
    \/ \E c \in AllCalls : AppendsStatus(c)
    \/ \E c \in AllCalls : PermissionQueued(c) \/ OperationQueued(c)
    \/ Observes
    \/ ClientCancels
    \/ CancelTimesOut

HandlesAny ==
    \/ HandleCalls \/ HandleStatus \/ HandleFlush \/ HandleOperation \/ HandlePermission

Speaks ==
    \/ \E c \in AllCalls, tell \in Tells : AnnounceMarks(c, tell) \/ AnnounceSkips(c, tell)
    \/ AnnounceSends
    \/ SendsUpdate

CallActor == HandlesAny \/ Speaks

Replays ==
    \/ ReplayReads \/ ReplayItem \/ ReplayEnds
    \/ \E c \in AllCalls : ReplayMarks(c)
    \/ ReplaySends

CallNext == Environment \/ CallActor \/ Replays

CallSpec == CallInit /\ [][CallNext]_callVars

-----------------------------------------------------------------------------
(* Properties. *)

Responses(calls) == [kind : {"response"}, calls : SUBSET calls]
Statuses(calls)  == [kind : {"status"}, call : calls]
Items            == Responses(AllCalls) \cup Statuses(AllCalls)
EventsOf(calls) ==
    [kind : {"response"}, item : Responses(calls)]
    \cup [kind : {"status"}, item : Statuses(calls)]
    \cup [kind : {"op", "permission"}, call : calls]
    \cup [kind : {"flush"}]
HandsOf(calls) ==
    {Nobody} \cup [call : calls, tell : Tells, step : {"telling", "updating"}]

\* Types of the state; the actor speaks only of calls the runtime has
\* indexed, and the client has seen only what the runtime has marked.
CallTypeOK ==
    /\ log \in Seq(Items)
    /\ observing \in Responses(AllCalls) \cup Statuses(known) \cup {NoItem}
    /\ callEvents \in Seq(EventsOf(known))
    /\ known \in SUBSET AllCalls /\ ended \in SUBSET known
    /\ asked \in SUBSET (known \X {"op", "permission"})
    /\ waitCalls \in SUBSET known
    /\ cancel \in {"none", "waiting", "queued"}
    /\ announced \in SUBSET AllCalls /\ told \in SUBSET announced
    /\ duty \in SUBSET (known \X Tells)
    /\ hand \in HandsOf(known)
    /\ started \in SUBSET known /\ reported \in SUBSET known
    /\ replay \in [at : Nat, items : Seq(Items), loads : 0 .. MaxLoads]
    /\ replayDuty \in SUBSET AllCalls /\ replayHand \in SUBSET AllCalls
    /\ updates \in [AllCalls -> Seq(Tells)]

\* "Before any tool_call_update, the client has seen a tool_call for that
\* toolCallId on the same connection": whatever the actor sends of a call,
\* in a bound-mode restart too; except while Replay has marked the call and
\* is about to write its tool_call: the actor then takes it for announced.
ToldFirst == \A c \in AllCalls : updates[c] # <<>> => c \in told \cup replayHand

\* The same of what Replay sends: the tool_call of every status it renders.
ReplayToldFirst ==
    \A i \in 1 .. replay.at : replay.items[i].kind = "status" => replay.items[i].call \in told

\* Nothing is said of a call after its final update, live: not the status
\* that comes after a cancel's synthesized failure, nor the progress of an
\* operation whose snapshot was queued before or comes late.
EndsOnce ==
    \A c \in AllCalls : \A i, j \in 1 .. Len(updates[c]) :
        i < j /\ updates[c][i] = "final" => updates[c][j] = "ask"

\* An actor that has caught up has told the final status of every call that
\* has one in the log, the ones of an earlier process included.
Final(c) == \E i \in 1 .. Len(updates[c]) : updates[c][i] = "final"

CaughtUp == callEvents = <<>> /\ duty = {} /\ hand = Nobody

NoFinalIsLost == CaughtUp => \A c \in ended : Final(c)
=============================================================================

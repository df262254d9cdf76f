------------------------------ MODULE Ops ------------------------------
(***************************************************************************)
(* internal/ops: the decorator of the operation manager, which holds an    *)
(* operation until it is approved, remembers the latest snapshot of each,  *)
(* and bounds its run time.                                                *)
(*                                                                         *)
(* Several goroutines call it.  m.mu is released between the decision      *)
(* about an operation and what follows from it, so a call is a task that   *)
(* its goroutine takes up step by step:                                    *)
(*   forward   inner.Add, then register (the timer of --op-timeout)        *)
(*   emit      the snapshot becomes the latest, then deliver (Tap, Push)   *)
(*   decide    Cancel saw the operation held and calls Decide              *)
(*   cancel    Cancel saw it not held                                      *)
(* Goroutines: the coordinator's (Add), the pump (updates of the inner     *)
(* manager), and any number of others (Decide by a permission answer,      *)
(* Cancel by abortTurn; the coordinator's stop calls Cancel too).  The     *)
(* inner LocalOperationManager is external.                                *)
(***************************************************************************)
EXTENDS Naturals, Sequences

CONSTANTS
    Ops,          \* operation ids
    Others,       \* the goroutines that call Decide and Cancel
    Verdicts,     \* what the policy may say: "allow", "ask", "deny"
    MaxReAdds     \* bound: Adds of known operations, by later generations

Coord == "coord"
Pump  == "pump"
Goroutines == {Coord, Pump} \cup Others

ASSUME OpsAssumption ==
    /\ Coord \notin Others /\ Pump \notin Others
    /\ Verdicts \subseteq {"allow", "ask", "deny"}
    /\ MaxReAdds \in Nat

VARIABLES
    held,     \* m.held
    latest,   \* m.latest, "unknown" if the id has none
    timer,    \* m.timers: "off", or which of the two timers is registered
    task,     \* where each goroutine is
    updates,  \* m.updates
    pgids,    \* r.pgids, kept by Tap: operations with a recorded process group
    inner,    \* external: what the inner manager knows of each operation
    stopping, \* external: operations the inner manager was asked to cancel
    outbox,   \* external: its Updates channel
    seen,     \* external: operations the coordinator has received the end of
    reAdds    \* how many Adds of known operations there were

managerVars == <<held, latest, timer, updates, pgids>>
innerVars   == <<inner, stopping, outbox>>
vars == <<managerVars, task, innerVars, seen, reAdds>>

Final    == {"completed", "failed", "canceled"}
Statuses == {"ready", "awaiting"} \cup Final

Snapshots == [op : Ops, status : Statuses]

Idle == [at |-> "idle"]

Tasks == {Idle}
         \cup [at : {"forward", "register", "decide", "cancel"}, op : Ops]
         \cup [at : {"emit", "deliver"}, op : Ops, status : Statuses]

TypeOK ==
    /\ held \subseteq Ops
    /\ latest \in [Ops -> Statuses \cup {"unknown"}]
    /\ timer \in [Ops -> {"off", "limit", "kill"}]
    /\ task \in [Goroutines -> Tasks]
    /\ updates \in Seq(Snapshots)
    /\ pgids \subseteq Ops
    /\ inner \in [Ops -> {"unknown", "added", "running", "ended"}]
    /\ stopping \subseteq Ops
    /\ outbox \in Seq(Snapshots)
    /\ seen \subseteq Ops
    /\ reAdds \in Nat

Init ==
    /\ held = {}
    /\ latest = [o \in Ops |-> "unknown"]
    /\ timer = [o \in Ops |-> "off"]
    /\ task = [g \in Goroutines |-> Idle]
    /\ updates = <<>>
    /\ pgids = {}
    /\ inner = [o \in Ops |-> "unknown"]
    /\ stopping = {}
    /\ outbox = <<>>
    /\ seen = {}
    /\ reAdds = 0

Takes(g, t) ==
    /\ task[g] = Idle
    /\ task' = [task EXCEPT ![g] = t]

Goes(g, t) == task' = [task EXCEPT ![g] = t]

Job(at, o)         == [at |-> at, op |-> o]
Emitting(at, o, s) == [at |-> at, op |-> o, status |-> s]

Forwarding(g, o) == task[g].at = "forward" /\ task[g].op = o

-----------------------------------------------------------------------
(* Add.  An Add of a held operation changes nothing.                       *)

\* Mutant: a known operation is forwarded again.
AddKnownForwards(o) ==
    /\ reAdds < MaxReAdds
    /\ o \notin held
    /\ latest[o] # "unknown"
    /\ Takes(Coord, Job("forward", o))
    /\ reAdds' = reAdds + 1
    /\ UNCHANGED <<managerVars, innerVars, seen>>

\* A later coordinator generation adds an operation it has restored: the
\* latest snapshot, read under the lock, is emitted after it is released.
AddKnown(o) ==
    /\ reAdds < MaxReAdds
    /\ o \notin held
    /\ latest[o] # "unknown"
    /\ Takes(Coord, Emitting("emit", o, latest[o]))
    /\ reAdds' = reAdds + 1
    /\ UNCHANGED <<managerVars, innerVars, seen>>

\* Mutant: a status no snapshot has.
AddResumedRunning(o) ==
    /\ latest[o] = "unknown"
    /\ latest' = [latest EXCEPT ![o] = "running"]
    /\ Takes(Coord, Job("forward", o))
    /\ UNCHANGED <<held, timer, updates, pgids, innerVars, seen, reAdds>>

\* An operation restored from the log of an earlier process may be past ready;
\* it is the inner manager's to resume.
AddResumed(o) ==
    /\ latest[o] = "unknown"
    /\ latest' = [latest EXCEPT ![o] = "awaiting"]
    /\ Takes(Coord, Job("forward", o))
    /\ UNCHANGED <<held, timer, updates, pgids, innerVars, seen, reAdds>>

AddReady(o, verdict) ==
    /\ task[Coord] = Idle
    /\ latest[o] = "unknown"
    /\ latest' = [latest EXCEPT ![o] = "ready"]
    /\ \/ /\ verdict = "allow"
          /\ Takes(Coord, Job("forward", o))
          /\ UNCHANGED held
       \/ /\ verdict = "ask"
          /\ held' = held \cup {o}
          /\ UNCHANGED task
       \/ /\ verdict = "deny"
          /\ Takes(Coord, Emitting("emit", o, "canceled"))
          /\ UNCHANGED held
    /\ UNCHANGED <<timer, updates, pgids, innerVars, seen, reAdds>>

-----------------------------------------------------------------------
(* forward.                                                                *)

\* The inner manager ignores an id it knows.
Forward(g, o) ==
    /\ Forwarding(g, o)
    /\ Goes(g, Job("register", o))
    /\ inner' = IF inner[o] = "unknown" THEN [inner EXCEPT ![o] = "added"] ELSE inner
    /\ UNCHANGED <<managerVars, stopping, outbox, seen, reAdds>>

\* Add returns the error to the coordinator; Decide answers for it.
ForwardFails(g, o) ==
    /\ Forwarding(g, o)
    /\ Goes(g, IF g = Coord THEN Idle ELSE Emitting("emit", o, "failed"))
    /\ UNCHANGED <<managerVars, innerVars, seen, reAdds>>

Register(g, o) ==
    /\ task[g] = Job("register", o)
    /\ Goes(g, Idle)
    /\ timer' = [timer EXCEPT ![o] = "limit"]
    /\ UNCHANGED <<held, latest, updates, pgids, innerVars, seen, reAdds>>

-----------------------------------------------------------------------
(* Decide and Cancel.  Decide of an operation not held changes nothing.    *)

\* Mutant: the operation stays held until it is forwarded.
DecideKeepsHeld(g, o, allow) ==
    /\ o \in held
    /\ Takes(g, IF allow THEN Job("forward", o) ELSE Emitting("emit", o, "canceled"))
    /\ UNCHANGED <<held, latest, timer, updates, pgids, innerVars, seen, reAdds>>

Decide(g, o, allow) ==
    /\ o \in held
    /\ Takes(g, IF allow THEN Job("forward", o) ELSE Emitting("emit", o, "canceled"))
    /\ held' = held \ {o}
    /\ UNCHANGED <<latest, timer, updates, pgids, innerVars, seen, reAdds>>

Cancel(g, o) ==
    /\ latest[o] # "unknown"
    /\ Takes(g, Job(IF o \in held THEN "decide" ELSE "cancel", o))
    /\ UNCHANGED <<managerVars, innerVars, seen, reAdds>>

\* Mutant: the operation is dropped without a snapshot.
CancelForgets(g, o) ==
    /\ task[g] = Job("decide", o)
    /\ Goes(g, Idle)
    /\ held' = held \ {o}
    /\ UNCHANGED <<latest, timer, updates, pgids, innerVars, seen, reAdds>>

\* By now the operation may have been approved: then the cancel is lost.
CancelDecides(g, o) ==
    /\ task[g] = Job("decide", o)
    /\ IF o \in held
       THEN /\ Goes(g, Emitting("emit", o, "canceled"))
            /\ held' = held \ {o}
       ELSE /\ Goes(g, Idle)
            /\ UNCHANGED held
    /\ UNCHANGED <<latest, timer, updates, pgids, innerVars, seen, reAdds>>

\* The inner manager knows nothing of an operation still to be forwarded.
AskedToStop(o) == IF inner[o] = "unknown" THEN stopping ELSE stopping \cup {o}

CancelForwards(g, o) ==
    /\ task[g] = Job("cancel", o)
    /\ Goes(g, Idle)
    /\ stopping' = IF latest[o] \in Final THEN stopping ELSE AskedToStop(o)
    /\ UNCHANGED <<managerVars, inner, outbox, seen, reAdds>>

-----------------------------------------------------------------------
(* emit, pump and feed.                                                    *)

Emit(g, o, s) ==
    /\ task[g] = Emitting("emit", o, s)
    /\ Goes(g, Emitting("deliver", o, s))
    /\ latest' = [latest EXCEPT ![o] = s]
    /\ timer' = IF s \in Final THEN [timer EXCEPT ![o] = "off"] ELSE timer
    /\ UNCHANGED <<held, updates, pgids, innerVars, seen, reAdds>>

\* tapOperation: an operation that awaits its process has a process group.
Tapped(o, s) == IF s = "awaiting" THEN pgids \cup {o} ELSE pgids \ {o}

\* Tap, then Push.
Deliver(g, o, s) ==
    /\ task[g] = Emitting("deliver", o, s)
    /\ Goes(g, Idle)
    /\ pgids' = Tapped(o, s)
    /\ updates' = Append(updates, [op |-> o, status |-> s])
    /\ UNCHANGED <<held, latest, timer, innerVars, seen, reAdds>>

PumpTakes ==
    /\ outbox # <<>>
    /\ LET u == Head(outbox) IN Takes(Pump, Emitting("emit", u.op, u.status))
    /\ outbox' = Tail(outbox)
    /\ UNCHANGED <<managerVars, inner, stopping, seen, reAdds>>

Feed ==
    /\ updates # <<>>
    /\ seen' = IF Head(updates).status \in Final THEN seen \cup {Head(updates).op}
               ELSE seen
    /\ updates' = Tail(updates)
    /\ UNCHANGED <<held, latest, timer, pgids, task, innerVars, reAdds>>

-----------------------------------------------------------------------
(* The timers of --op-timeout.                                             *)

\* The callback cancels the operation, then under m.mu starts the second timer
\* if the operation's timer is still registered.
LimitFires(o) ==
    /\ timer[o] = "limit"
    /\ stopping' = AskedToStop(o)
    /\ timer' = [timer EXCEPT ![o] = "kill"]
    /\ UNCHANGED <<held, latest, updates, pgids, task, inner, outbox, seen, reAdds>>

\* killOperation signals the group recorded for the operation, if there is one;
\* its process then ends when it ends.
KillFires(o) ==
    /\ timer[o] = "kill"
    /\ timer' = [timer EXCEPT ![o] = "off"]
    /\ UNCHANGED <<held, latest, updates, pgids, task, innerVars, seen, reAdds>>

-----------------------------------------------------------------------
(* The inner manager.                                                      *)

\* The process has started: the snapshot names its process group.
InnerAwaits(o) ==
    /\ inner[o] = "added"
    /\ inner' = [inner EXCEPT ![o] = "running"]
    /\ outbox' = Append(outbox, [op |-> o, status |-> "awaiting"])
    /\ UNCHANGED <<managerVars, task, stopping, seen, reAdds>>

InnerEnds(o, s) ==
    /\ inner[o] \in {"added", "running"}
    /\ s = "canceled" => o \in stopping
    /\ inner' = [inner EXCEPT ![o] = "ended"]
    /\ outbox' = Append(outbox, [op |-> o, status |-> s])
    /\ UNCHANGED <<managerVars, task, stopping, seen, reAdds>>

-----------------------------------------------------------------------
Steps(g, o) ==
    \/ Forward(g, o) \/ ForwardFails(g, o) \/ Register(g, o)
    \/ CancelDecides(g, o) \/ CancelForwards(g, o)
    \/ \E s \in Statuses : Emit(g, o, s) \/ Deliver(g, o, s)

OpNext(o) ==
    \/ AddKnown(o)
    \/ AddResumed(o)
    \/ \E verdict \in Verdicts : AddReady(o, verdict)
    \/ \E g \in Others, allow \in BOOLEAN : Decide(g, o, allow)
    \/ \E g \in Others \cup {Coord} : Cancel(g, o)
    \/ LimitFires(o)
    \/ KillFires(o)
    \/ InnerAwaits(o)
    \/ \E s \in Final : InnerEnds(o, s)
    \/ \E g \in Goroutines : Steps(g, o)

Next == (\E o \in Ops : OpNext(o)) \/ PumpTakes \/ Feed

Spec == Init /\ [][Next]_vars

\* A goroutine that has taken a call up finishes it, and the coordinator reads
\* its updates.  The inner manager and the tools may never end anything.
FairSpec ==
    /\ Spec
    /\ \A g \in Goroutines : WF_vars(\E o \in Ops : Steps(g, o))
    /\ WF_vars(Feed)

-----------------------------------------------------------------------
(* Properties.                                                             *)

\* An operation is decided by one goroutine: while it is held the inner manager
\* has not seen it and nobody forwards it, and two answers, or an answer and a
\* cancel, never both let it through.  (ops.go:180-191)
DecidedOnce ==
    \A o \in Ops :
        /\ \A g \in Goroutines : Forwarding(g, o) =>
              /\ o \notin held /\ inner[o] = "unknown"
              /\ \A h \in Goroutines : Forwarding(h, o) => h = g
        /\ o \in held => inner[o] = "unknown" /\ latest[o] = "ready"

\* What has become of an operation.  One that is neither held, forwarded nor
\* known to the inner manager is dropped: it was refused, or failed to start.
Fate(o) ==
    IF latest[o] = "unknown" THEN "new"
    ELSE IF o \in held THEN "held"
    ELSE IF inner[o] \in {"added", "running"} THEN "started"
    ELSE IF inner[o] = "ended" THEN "ended"
    ELSE IF \E g \in Goroutines : Forwarding(g, o) THEN "allowed"
    ELSE "dropped"

Promise == INSTANCE Approval WITH fate <- [o \in Ops |-> Fate(o)]

\* README.md, Permissions: after a rejection or a timeout "the command never
\* runs"; one that is let through runs once.
Approved == Promise!Spec

\* ops.go:18-20: the coordinator's stop waits until every operation is terminal,
\* so an operation cancelled while it was held is answered with a terminal
\* snapshot, unless an approval that came first has let it through.
CancelOfHeldEnds ==
    \A o \in Ops, g \in Goroutines :
        task[g] = Job("decide", o)
            ~> o \in seen \/ Fate(o) \in {"allowed", "started", "ended"}
=======================================================================

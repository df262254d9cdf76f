---------------------------- MODULE Sessions ----------------------------
(***************************************************************************)
(* The session tables of the acp-unreal processes that share a state       *)
(* directory, and what they share: the session logs and the kernel's       *)
(* locks.  (internal/acpagent, internal/runtime/state.go, Runtime.Close)   *)
(*                                                                         *)
(* A process serves each request on a goroutine of its own.  a.mu is held  *)
(* only for the reads and writes of the table and of the bound mode, so a  *)
(* request that opens a session is a sequence of steps with the others'    *)
(* in between: lookup, locking, checking, creating, opening, registering,  *)
(* and for session/new unbinding.  A runtime is named by the request that  *)
(* opened it, and so is the open file that carries its lock.               *)
(*                                                                         *)
(* Left out: the workspace checks and the metadata, whose refusals and     *)
(* errors are those of OpenFails; the turn a prompt runs (module Session); *)
(* the tools, which write to no log.                                       *)
(***************************************************************************)
EXTENDS Naturals

CONSTANTS
    MaxProcs,     \* bound: processes, restarts included, in the order they start
    SessionIds,
    BoundId,      \* the id the processes are launched for
    Launches,     \* the bound modes they are launched in
    MaxRequests   \* bound: requests, numbered in the order they arrive

BoundModes == {"unbound", "gc", "create", "resume"}

ASSUME SessionsAssumption ==
    /\ BoundId \in SessionIds
    /\ Launches \subseteq BoundModes
    /\ MaxProcs \in Nat /\ MaxRequests \in Nat

Procs    == 1 .. MaxProcs
Requests == 1 .. MaxRequests
NoOne    == 0

VARIABLES
    up,       \* whether each process runs
    bound,    \* a.bound.Mode
    table,    \* a.sessions
    shut,     \* the runtimes that Shutdown waits for
    call,     \* what each request asks for, of which process and session
    stage,    \* how far its handler is
    hand,     \* the runtime in the hands of a prompt's or a close's handler
    logs,     \* disk: the sessions that have a log
    lock,     \* kernel: the request whose open file holds each flock
    runtime,  \* how far each runtime is in its life
    coord     \* the runtime's coordinator: "stopping" once StopHard is in, and
              \* "abandoned" once the close has waited for it in vain

procVars == <<up, bound, table, shut>>
diskVars == <<logs, lock>>
rtVars   == <<runtime, coord>>
vars     == <<procVars, call, stage, hand, diskVars, rtVars>>

Opening == {"lookup", "locking", "checking", "creating", "opening", "registering"}
Holding == {"checking", "creating", "opening", "registering"}
Stages  == Opening \cup {"none", "unbinding", "prompting", "closing",
                         "answered", "failed"}
Modes   == BoundModes \cup {"load", "prompt", "close"}
Calls   == [proc : Procs, id : SessionIds, mode : Modes]
NoCall  == [mode |-> "none"]
Closing == {"told", "stopping", "draining"}

TypeOK ==
    /\ up \in [Procs -> {"down", "up", "stopping", "gone"}]
    /\ bound \in [Procs -> BoundModes]
    /\ table \in [Procs -> [SessionIds -> Requests \cup {NoOne}]]
    /\ shut \in [Procs -> SUBSET Requests]
    /\ call \in [Requests -> Calls \cup {NoCall}]
    /\ stage \in [Requests -> Stages]
    /\ hand \in [Requests -> Requests \cup {NoOne}]
    /\ \A h \in Requests : stage[h] = "none" <=> call[h] = NoCall
    /\ logs \subseteq SessionIds
    /\ lock \in [SessionIds -> Requests \cup {NoOne}]
    /\ runtime \in [Requests -> {"none", "open", "closed"} \cup Closing]
    /\ coord \in [Requests -> {"none", "running", "stopping", "abandoned"}]

Init ==
    /\ up = [p \in Procs |-> "down"]
    /\ bound = [p \in Procs |-> "unbound"]
    /\ table = [p \in Procs |-> [s \in SessionIds |-> NoOne]]
    /\ shut = [p \in Procs |-> {}]
    /\ call = [h \in Requests |-> NoCall]
    /\ stage = [h \in Requests |-> "none"]
    /\ hand = [h \in Requests |-> NoOne]
    /\ logs = {}
    /\ lock = [s \in SessionIds |-> NoOne]
    /\ runtime = [h \in Requests |-> "none"]
    /\ coord = [h \in Requests |-> "none"]

Exists(s)   == s \in logs
Serves(p)   == up[p] \in {"up", "stopping"}
Goes(h, to) == stage' = [stage EXCEPT ![h] = to]

\* A process is launched.  One that is to resume looks for the log first and
\* exits if there is none.
Launch(p, mode) ==
    /\ up[p] = "down"
    /\ \A q \in Procs : q < p => up[q] # "down"
    /\ mode = "resume" => Exists(BoundId)
    /\ up' = [up EXCEPT ![p] = "up"]
    /\ bound' = [bound EXCEPT ![p] = mode]
    /\ UNCHANGED <<table, shut, call, stage, hand, diskVars, rtVars>>

-----------------------------------------------------------------------------
(* session/new, session/load and session/resume                            *)

\* Requests arrive at a running process and are numbered in that order.
Arrives(h, p, s, mode) ==
    /\ Serves(p)
    /\ stage[h] = "none"
    /\ \A g \in Requests : g < h => stage[g] # "none"
    /\ call' = [call EXCEPT ![h] = [proc |-> p, id |-> s, mode |-> mode]]

\* A uuid names no session yet; a later process may be launched for it.
Arrived  == {h \in Requests : stage[h] # "none"}
Fresh(s) ==
    /\ ~Exists(s)
    /\ \A h \in Arrived : call[h].id # s
    /\ s = BoundId => \A p \in Procs : bound[p] = "unbound"

\* session/new reads the bound mode under a.mu and releases it: a second one
\* that comes before the first is done reads the same.
NewSession(h, p, s) ==
    /\ IF bound[p] = "unbound" THEN Fresh(s) ELSE s = BoundId
    /\ Arrives(h, p, s, bound[p])
    /\ Goes(h, "lookup")
    /\ UNCHANGED <<procVars, hand, diskVars, rtVars>>

Attach(h, p, s) ==
    /\ Arrives(h, p, s, "load")
    /\ Goes(h, "lookup")
    /\ UNCHANGED <<procVars, hand, diskVars, rtVars>>

Found(h) == table[call[h].proc][call[h].id]
IsNew(h) == call[h].mode \in BoundModes
Served(h) == Goes(h, IF IsNew(h) THEN "unbinding" ELSE "answered")

\* Mutant: --session-id is given a session that is in the table.
LookupServes(h) ==
    /\ stage[h] = "lookup"
    /\ IF Found(h) = NoOne THEN Goes(h, "locking") ELSE Served(h)
    /\ UNCHANGED <<procVars, call, hand, diskVars, rtVars>>

Lookup(h) ==
    /\ stage[h] = "lookup"
    /\ \/ Found(h) = NoOne /\ Goes(h, "locking")
       \/ Found(h) # NoOne /\ call[h].mode = "create" /\ Goes(h, "failed")
       \/ Found(h) # NoOne /\ call[h].mode # "create" /\ Served(h)
    /\ UNCHANGED <<procVars, call, hand, diskVars, rtVars>>

\* Mutant: the flock is shared.
AcquireShared(h) ==
    /\ stage[h] = "locking"
    /\ lock' = [lock EXCEPT ![call[h].id] = h]
    /\ Goes(h, "checking")
    /\ UNCHANGED <<procVars, call, hand, logs, rtVars>>

\* flock, on a file this request has opened for itself: another request of the
\* same process is refused as well.
AcquireLock(h) ==
    /\ stage[h] = "locking"
    /\ lock[call[h].id] = NoOne
    /\ lock' = [lock EXCEPT ![call[h].id] = h]
    /\ Goes(h, "checking")
    /\ UNCHANGED <<procVars, call, hand, logs, rtVars>>

SessionBusy(h) ==
    /\ stage[h] = "locking"
    /\ lock[call[h].id] # NoOne
    /\ Goes(h, "failed")
    /\ UNCHANGED <<procVars, call, hand, diskVars, rtVars>>

Release(s) == lock' = [lock EXCEPT ![s] = NoOne]

RefusedByMode(mode, exists) ==
    \/ mode = "create" /\ exists
    \/ mode \in {"resume", "load"} /\ ~exists

Check(h) ==
    /\ stage[h] = "checking"
    /\ ~RefusedByMode(call[h].mode, Exists(call[h].id))
    /\ Goes(h, IF Exists(call[h].id) THEN "opening" ELSE "creating")
    /\ UNCHANGED <<procVars, call, hand, diskVars, rtVars>>

\* Mutant: an error path returns without lock.Release.
OpenFailsLocked(h) ==
    /\ stage[h] \in {"creating", "opening"}
    /\ Goes(h, "failed")
    /\ UNCHANGED <<procVars, call, hand, diskVars, rtVars>>

\* The mode refuses the session, or a step on the way to an open runtime fails.
OpenFails(h) ==
    /\ \/ stage[h] = "checking" /\ RefusedByMode(call[h].mode, Exists(call[h].id))
       \/ stage[h] \in {"creating", "opening"}
    /\ Release(call[h].id)
    /\ Goes(h, "failed")
    /\ UNCHANGED <<procVars, call, hand, logs, rtVars>>

\* Create publishes the new log by a rename over whatever has its name.
Create(h) ==
    /\ stage[h] = "creating"
    /\ logs' = logs \cup {call[h].id}
    /\ Goes(h, "opening")
    /\ UNCHANGED <<procVars, call, hand, lock, rtVars>>

Open(h) ==
    /\ stage[h] = "opening"
    /\ runtime' = [runtime EXCEPT ![h] = "open"]
    /\ Goes(h, "registering")
    /\ UNCHANGED <<procVars, call, hand, diskVars, coord>>

Register(h) ==
    /\ stage[h] = "registering"
    /\ table' = [table EXCEPT ![call[h].proc][call[h].id] = h]
    /\ Served(h)
    /\ UNCHANGED <<up, bound, shut, call, hand, diskVars, rtVars>>

Unbind(h) ==
    /\ stage[h] = "unbinding"
    /\ bound' = [bound EXCEPT ![call[h].proc] = "unbound"]
    /\ Goes(h, "answered")
    /\ UNCHANGED <<up, table, shut, call, hand, diskVars, rtVars>>

-----------------------------------------------------------------------------
(* session/prompt, as far as it starts a coordinator                        *)

InTable(p, s) == table[p][s]

Prompt(h, p, s) ==
    /\ Arrives(h, p, s, "prompt")
    /\ hand' = [hand EXCEPT ![h] = InTable(p, s)]
    /\ Goes(h, IF InTable(p, s) = NoOne THEN "failed" ELSE "prompting")
    /\ UNCHANGED <<procVars, diskVars, rtVars>>

\* ensureGeneration: r.ctx, which a close cancels at its very end, is all that
\* keeps a prompt from starting a coordinator.
EnsureGeneration(h) ==
    /\ stage[h] = "prompting"
    /\ LET r == hand[h] IN
       \/ /\ runtime[r] # "closed"
          /\ Goes(h, "answered")
          /\ coord' = [coord EXCEPT ![r] = IF @ = "none" THEN "running" ELSE @]
       \/ runtime[r] = "closed" /\ Goes(h, "failed") /\ UNCHANGED coord
    /\ hand' = [hand EXCEPT ![h] = NoOne]
    /\ UNCHANGED <<procVars, call, diskVars, runtime>>

\* External: Run returns, because it was stopped, its ctx has ended or it failed.
RunEnds(r) ==
    /\ coord[r] # "none"
    /\ coord' = [coord EXCEPT ![r] = "none"]
    /\ UNCHANGED <<procVars, call, stage, hand, diskVars, runtime>>

-----------------------------------------------------------------------------
(* session/close, SIGTERM and the end of a process                          *)

\* closeOnce: the first caller starts the close, every caller waits for it.
Told(rs) == runtime' = [r \in Requests |->
                IF r \in rs /\ runtime[r] = "open" THEN "told" ELSE runtime[r]]

\* Mutant: session/close leaves the runtime in the table.
CloseSessionKeeps(h, p, s) ==
    /\ Arrives(h, p, s, "close")
    /\ hand' = [hand EXCEPT ![h] = InTable(p, s)]
    /\ Told({InTable(p, s)})
    /\ Goes(h, IF InTable(p, s) = NoOne THEN "answered" ELSE "closing")
    /\ UNCHANGED <<procVars, diskVars, coord>>

CloseSession(h, p, s) ==
    /\ Arrives(h, p, s, "close")
    /\ hand' = [hand EXCEPT ![h] = InTable(p, s)]
    /\ table' = [table EXCEPT ![p][s] = NoOne]
    /\ Told({InTable(p, s)})
    /\ Goes(h, IF InTable(p, s) = NoOne THEN "answered" ELSE "closing")
    /\ UNCHANGED <<up, bound, shut, diskVars, coord>>

\* Close cancels the turn and submits StopHard to the generation it finds.
CloseStops(r) ==
    /\ runtime[r] = "told"
    /\ runtime' = [runtime EXCEPT ![r] = "stopping"]
    /\ coord' = [coord EXCEPT ![r] = IF @ = "running" THEN "stopping" ELSE @]
    /\ UNCHANGED <<procVars, call, stage, hand, diskVars>>

\* Mutant: the close waits for the coordinator without a timer.
CloseWaitsForDone(r) ==
    /\ runtime[r] = "stopping"
    /\ coord[r] # "stopping"
    /\ runtime' = [runtime EXCEPT ![r] = "draining"]
    /\ UNCHANGED <<procVars, call, stage, hand, diskVars, coord>>

\* It waits until that generation is done, or to the deadline.
CloseWaited(r) ==
    /\ runtime[r] = "stopping"
    /\ coord' = [coord EXCEPT ![r] = IF @ = "stopping" THEN "abandoned" ELSE @]
    /\ runtime' = [runtime EXCEPT ![r] = "draining"]
    /\ UNCHANGED <<procVars, call, stage, hand, diskVars>>

\* The operation manager has drained, or has not by the deadline: r.ctx is
\* cancelled and the lock released.
CloseReleases(r) ==
    /\ runtime[r] = "draining"
    /\ runtime' = [runtime EXCEPT ![r] = "closed"]
    /\ Release(call[r].id)
    /\ UNCHANGED <<procVars, call, stage, hand, logs, coord>>

CloseAnswers(h) ==
    /\ stage[h] = "closing"
    /\ runtime[hand[h]] = "closed"
    /\ Goes(h, "answered")
    /\ hand' = [hand EXCEPT ![h] = NoOne]
    /\ UNCHANGED <<procVars, call, diskVars, rtVars>>

\* Mutant: entries that are nil are collected too.
InTablesOrNil(p) == {table[p][s] : s \in SessionIds}

InTables(p) == {table[p][s] : s \in SessionIds} \ {NoOne}

Shutdown(p) ==
    /\ up[p] = "up"
    /\ up' = [up EXCEPT ![p] = "stopping"]
    /\ shut' = [shut EXCEPT ![p] = InTables(p)]
    /\ Told(InTables(p))
    /\ UNCHANGED <<bound, table, call, stage, hand, diskVars, coord>>

Of(p) == {h \in Arrived : call[h].proc = p}

\* The end of a process, however it comes: what it kept in memory is gone, and
\* the kernel drops its locks.
Dies(p) ==
    /\ up' = [up EXCEPT ![p] = "gone"]
    /\ bound' = [bound EXCEPT ![p] = "unbound"]
    /\ table' = [table EXCEPT ![p] = [s \in SessionIds |-> NoOne]]
    /\ shut' = [shut EXCEPT ![p] = {}]
    /\ stage' = [h \in Requests |->
           IF h \in Of(p) /\ stage[h] # "answered" THEN "failed" ELSE stage[h]]
    /\ hand' = [h \in Requests |-> IF h \in Of(p) THEN NoOne ELSE hand[h]]
    /\ lock' = [s \in SessionIds |-> IF lock[s] \in Of(p) THEN NoOne ELSE lock[s]]
    /\ runtime' = [r \in Requests |->
           IF r \in Of(p) THEN "none" ELSE runtime[r]]
    /\ coord' = [r \in Requests |-> IF r \in Of(p) THEN "none" ELSE coord[r]]
    /\ UNCHANGED <<call, logs>>

Exit(p) ==
    /\ up[p] = "stopping"
    /\ \A r \in shut[p] : runtime[r] = "closed"
    /\ Dies(p)

Crash(p) == Serves(p) /\ Dies(p)

-----------------------------------------------------------------------------
Handler(h) ==
    \/ Lookup(h) \/ AcquireLock(h) \/ SessionBusy(h) \/ Check(h) \/ OpenFails(h)
    \/ Create(h) \/ Open(h) \/ Register(h) \/ Unbind(h)
    \/ EnsureGeneration(h) \/ CloseAnswers(h)

Close(r) == CloseStops(r) \/ CloseWaited(r) \/ CloseReleases(r)

Client(h, p, s) ==
    NewSession(h, p, s) \/ Attach(h, p, s) \/ Prompt(h, p, s) \/ CloseSession(h, p, s)

Next ==
    \/ \E p \in Procs : \/ \E m \in Launches : Launch(p, m)
                        \/ Shutdown(p) \/ Exit(p) \/ Crash(p)
    \/ \E h \in Requests, p \in Procs, s \in SessionIds : Client(h, p, s)
    \/ \E h \in Requests : Handler(h) \/ Close(h) \/ RunEnds(h)

Spec == Init /\ [][Next]_vars

\* The goroutine of a close goes on, its waits end by their timers at the latest.
\* Nothing is assumed of the coordinator, the tools or the client.
CloseFairness == \A r \in Requests : WF_vars(Close(r))

FairSpec == Spec /\ CloseFairness

-----------------------------------------------------------------------------
(* Properties                                                              *)

\* Create would replace a log that exists: the Exists check that decides to
\* create still holds when it is called, whatever requests of whatever processes
\* race and wherever a process dies.  (agent.go:227-228, contract_test.go:334)
LogIsNeverReplaced == \A h \in Requests : stage[h] = "creating" => ~Exists(call[h].id)

\* A lock is held only where something will release it: by a handler that is
\* still opening the session, a runtime that session/close and Shutdown can
\* find, or a close under way.  Otherwise the session is busy for as long as
\* the process runs.  (agent.go:210-256, 416-426)
NoLockIsOrphaned ==
    \A s \in SessionIds : LET h == lock[s] IN
        h # NoOne => /\ Serves(call[h].proc)
                     /\ \/ stage[h] \in Holding
                        \/ InTable(call[h].proc, s) = h
                        \/ runtime[h] \in Closing

\* What a serving process has in its table is open and holds the session's
\* lock: no second process has it open, and no request is given a runtime whose
\* close has begun.  (README.md:85-87, agent.go:195-203, 416-422)
TableHoldsLocks ==
    \A p \in Procs, s \in SessionIds : LET r == InTable(p, s) IN
        up[p] = "up" /\ r # NoOne => lock[s] = r /\ runtime[r] = "open"

\* --session-id creates: of all session/new requests, of this process or a
\* restarted one, that create a session of that id, at most one is given it.
\* (bound.go:25, agent.go:198-201, 216-217)
CreatedOnce ==
    \A g, h \in Requests :
        /\ {stage[g], stage[h]} \subseteq {"unbinding", "answered"}
        /\ call[g].mode = "create" /\ call[h].mode = "create"
        /\ call[g].id = call[h].id
        => g = h

\* Closes end, and the locks are released with them, even if the coordinators
\* never stop and prompts keep coming: when some are under way, there comes a
\* time when none is.  (runtime.go:1103-1150)
ClosesEnd ==
    (\E r \in Requests : runtime[r] = "told") ~> (\A r \in Requests : runtime[r] \notin Closing)

\* README.md:117 says of session/close that it "cancels the turn, stops the
\* coordinator, drains the tools and releases the lock": no coordinator runs on
\* a session whose lock its runtime no longer holds, the ones a close waited
\* for in vain, to the deadline, aside, and those of a process about to exit.
StoppedBeforeRelease ==
    \A r \in Requests :
        coord[r] \in {"running", "stopping"} /\ up[call[r].proc] = "up"
        => lock[call[r].id] = r
=========================================================================

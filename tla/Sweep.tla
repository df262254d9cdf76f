------------------------------- MODULE Sweep -------------------------------
(***************************************************************************)
(* The sweep of the descendants that escaped their tool's process group,   *)
(* when the agent shuts down.  (internal/sweep)                            *)
(*                                                                         *)
(* Stop works on pids, and nothing holds the processes still while it      *)
(* does: between any two of its system calls they exit, fork, drop the     *)
(* marker because they are handed off (a process without GC_SESSION_ID is  *)
(* no longer the agent's), or take over the pid of one that has gone.      *)
(* "marked" are the live processes whose environment Matches accepts; the  *)
(* agent's own pid, which filter leaves out, is none of Pids.              *)
(***************************************************************************)
EXTENDS FiniteSets

CONSTANTS Pids, None

ASSUME SweepAssumption == None \notin Pids

VARIABLES
    process,   \* what has each pid
    marked,    \* the live processes with this agent's marker
    sweep,     \* how far Stop is
    todo,      \* the pids it has yet to look at, or to signal
    looked,    \* the pid found live whose environ is read next
    kept,      \* what the filter has kept so far
    found,     \* what the first listing found
    late,      \* whether the grace is over
    owed,      \* ghost: processes listed with the marker and still the agent's
    spared     \* ghost: live without the marker since this round began

sweepVars == <<process, marked, sweep, todo, looked, kept, found, late, owed, spared>>
stopVars  == <<sweep, todo, looked, kept, found, late>>

Live == {p \in Pids : process[p] = "live"}

\* Types of the state.
SweepTypeOK ==
    /\ process \in [Pids -> {"absent", "live", "zombie"}]
    /\ marked \subseteq Live
    /\ sweep \in {"idle", "finding", "terminating", "filtering", "sleeping", "killing", "done"}
    /\ todo \subseteq Pids /\ kept \subseteq Pids /\ found \subseteq Pids
    /\ looked \in Pids \cup {None}
    /\ late \in BOOLEAN
    /\ owed \subseteq Pids /\ spared \subseteq Pids

SweepInit ==
    /\ process \in [Pids -> {"absent", "live"}]
    /\ marked \in SUBSET Live
    /\ sweep = "idle"
    /\ todo = {} /\ kept = {} /\ found = {}
    /\ looked = None
    /\ late = FALSE
    /\ owed = {} /\ spared = {}

-----------------------------------------------------------------------------
(* The processes.                                                          *)

Born(q, mark) ==
    /\ process[q] = "absent"
    /\ process' = [process EXCEPT ![q] = "live"]
    /\ marked' = IF mark THEN marked \cup {q} ELSE marked
    /\ UNCHANGED <<stopVars, owed, spared>>

Forks(p, q) == p \in Live /\ Born(q, p \in marked)

HandedOff(p) ==
    /\ p \in marked
    /\ marked' = marked \ {p}
    /\ owed' = owed \ {p}
    /\ UNCHANGED <<process, stopVars, spared>>

Ends(p) ==
    /\ process' = [process EXCEPT ![p] = "zombie"]
    /\ marked' = marked \ {p}
    /\ owed' = owed \ {p}
    /\ spared' = spared \ {p}

\* Of its own, or because it obeys SIGTERM.
Exits(p) == p \in Live /\ Ends(p) /\ UNCHANGED stopVars

Reaped(p) ==
    /\ process[p] = "zombie"
    /\ process' = [process EXCEPT ![p] = "absent"]
    /\ UNCHANGED <<marked, stopVars, owed, spared>>

Surroundings ==
    \E p \in Pids :
        \/ \E q \in Pids : Forks(p, q)
        \/ Born(p, FALSE) \/ HandedOff(p) \/ Exits(p) \/ Reaped(p)

-----------------------------------------------------------------------------
(* Stop                                                                    *)

\* A pass of filter over pids begins.
Filters(stage, pids) ==
    /\ sweep' = stage
    /\ todo' = pids
    /\ kept' = {}
    /\ spared' = Live \ marked

Lists ==
    /\ sweep = "idle"
    /\ Filters("finding", {p \in Pids : process[p] # "absent"})
    /\ owed' = marked
    /\ UNCHANGED <<process, marked, looked, found, late>>

Filtering == sweep \in {"finding", "filtering"}

ChecksLive(p) ==
    /\ Filtering /\ looked = None
    /\ p \in todo
    /\ todo' = todo \ {p}
    /\ looked' = IF p \in Live THEN p ELSE None
    /\ UNCHANGED <<process, marked, sweep, kept, found, late, owed, spared>>

\* The pid may have changed hands since; who has it now is what counts.
ReadsEnviron ==
    /\ looked # None
    /\ kept' = IF looked \in marked THEN kept \cup {looked} ELSE kept
    /\ looked' = None
    /\ UNCHANGED <<process, marked, sweep, todo, found, late, owed, spared>>

Filtered(stage) == sweep = stage /\ todo = {} /\ looked = None

Finishes ==
    /\ Filtered("finding") \/ Filtered("filtering")
    /\ kept = {}
    /\ sweep' = "done"
    /\ UNCHANGED <<process, marked, todo, looked, kept, found, late, owed, spared>>

Found ==
    /\ Filtered("finding") /\ kept # {}
    /\ found' = kept
    /\ sweep' = "terminating"
    /\ todo' = kept
    /\ UNCHANGED <<process, marked, looked, kept, late, owed, spared>>

\* SIGTERM to one pid; whoever has it exits or does not (Exits).
Terminates(p) ==
    /\ sweep = "terminating" /\ p \in todo
    /\ todo' = todo \ {p}
    /\ UNCHANGED <<process, marked, sweep, looked, kept, found, late, owed, spared>>

RoundDue == \/ sweep = "terminating" /\ todo = {}
            \/ sweep = "sleeping"

RoundWithANewGrace ==
    /\ RoundDue
    /\ Filters("filtering", found)
    /\ late' = FALSE
    /\ UNCHANGED <<process, marked, looked, found, owed>>

Round ==
    /\ RoundDue
    /\ Filters("filtering", found)
    /\ UNCHANGED <<process, marked, looked, found, late, owed>>

GraceEnds ==
    /\ sweep \in {"filtering", "sleeping"}
    /\ ~late
    /\ late' = TRUE
    /\ UNCHANGED <<process, marked, sweep, todo, looked, kept, found, owed, spared>>

Waits ==
    /\ Filtered("filtering") /\ kept # {} /\ ~late
    /\ sweep' = "sleeping"
    /\ UNCHANGED <<process, marked, todo, looked, kept, found, late, owed, spared>>

GivesUpOnFound ==
    /\ Filtered("filtering") /\ kept # {} /\ late
    /\ sweep' = "killing"
    /\ todo' = found
    /\ UNCHANGED <<process, marked, looked, kept, found, late, owed, spared>>

GivesUp ==
    /\ Filtered("filtering") /\ kept # {} /\ late
    /\ sweep' = "killing"
    /\ todo' = kept
    /\ UNCHANGED <<process, marked, looked, kept, found, late, owed, spared>>

KillsOne(p) ==
    /\ sweep = "killing" /\ p \in todo
    /\ todo' = {}
    /\ IF p \in Live THEN Ends(p) ELSE UNCHANGED <<process, marked, owed, spared>>
    /\ UNCHANGED <<sweep, looked, kept, found, late>>

\* SIGKILL to one pid, if a live process has it.
Kills(p) ==
    /\ sweep = "killing" /\ p \in todo
    /\ todo' = todo \ {p}
    /\ IF p \in Live THEN Ends(p) ELSE UNCHANGED <<process, marked, owed, spared>>
    /\ UNCHANGED <<sweep, looked, kept, found, late>>

Killed ==
    /\ sweep = "killing" /\ todo = {}
    /\ sweep' = "done"
    /\ UNCHANGED <<process, marked, todo, looked, kept, found, late, owed, spared>>

Stops ==
    \/ Lists \/ ReadsEnviron \/ Finishes \/ Found \/ Round \/ Waits \/ GivesUp \/ Killed
    \/ \E p \in Pids : ChecksLive(p) \/ Terminates(p) \/ Kills(p)

SweepNext == Stops \/ GraceEnds \/ Surroundings

SweepSpec == SweepInit /\ [][SweepNext]_sweepVars

-----------------------------------------------------------------------------
\* When Stop returns, every process that had the marker when /proc was listed
\* has ended or was handed off, whatever it did with SIGTERM and whoever came
\* and went meanwhile.  (A child forked after the listing is not covered.)
NothingOwedIsLeft == sweep = "done" => owed = {}

\* No process is signalled that was without the marker when the pass of filter
\* that picked it began: hand-offs made during the grace are respected.  A pid
\* that a new process has taken since is the one exception.
HandedOffAreSpared ==
    sweep \in {"terminating", "killing"} => todo \cap spared = {}

\* The sweep ends, also when processes ignore SIGTERM and go on forking.
SweepEnds == sweep = "finding" ~> sweep = "done"
=============================================================================

------------------------------ MODULE PartsMC ------------------------------
(***************************************************************************)
(* Three components that share no state with each other or with the        *)
(* sessions, for TLC: one of them is chosen at the start and runs alone,   *)
(* so that their states add up and do not multiply.                        *)
(***************************************************************************)
EXTENDS Ops, Fifo, Sweep

VARIABLE part

partsVars == <<part, vars, queueVars, sweepVars>>

\* Those that do not run are in one of their initial states.
PartsInit ==
    /\ part \in {"ops", "queue", "sweep"}
    /\ Init /\ QueueInit /\ SweepInit
    /\ part # "sweep" => Live = {}

Runs(p) == part = p /\ part' = part

InOps(action)   == Runs("ops")   /\ action /\ UNCHANGED <<queueVars, sweepVars>>
InQueue(action) == Runs("queue") /\ action /\ UNCHANGED <<vars, sweepVars>>
InSweep(action) == Runs("sweep") /\ action /\ UNCHANGED <<vars, queueVars>>

PartsNext == InOps(Next) \/ InQueue(QueueNext) \/ InSweep(SweepNext)

\* A goroutine in the manager finishes what it has taken up, and the coordinator
\* reads its updates.  A goroutine that has appended goes on to signal; the
\* consumer, whose handling of an item ends, goes on to pop; Stop runs on, and
\* time passes.
PartsSpec ==
    /\ PartsInit /\ [][PartsNext]_partsVars
    /\ \A g \in Goroutines : WF_partsVars(InOps(\E o \in Ops : Steps(g, o)))
    /\ WF_partsVars(InOps(Feed))
    /\ WF_partsVars(InQueue(Signals)) /\ WF_partsVars(InQueue(Pops))
    /\ WF_partsVars(InSweep(Stops)) /\ WF_partsVars(InSweep(GraceEnds))
=============================================================================

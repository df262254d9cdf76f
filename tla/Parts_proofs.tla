---------------------------- MODULE Parts_proofs ----------------------------
(***************************************************************************)
(* Proofs about the three components that share no state with each other   *)
(* or with the sessions: the queue, the sweep and the metadata.            *)
(***************************************************************************)
EXTENDS Fifo, Sweep, Metadata, TLAPS

-----------------------------------------------------------------------------
(***************************************************************************)
(* Proofs about the queue, for any pushers and any number of pushes.       *)
(***************************************************************************)

\* The queue's variables keep their types.
LEMMA QueueTypeStep == QueueTypeOK /\ [QueueNext]_queueVars => QueueTypeOK'
<1> SUFFICES ASSUME QueueTypeOK, [QueueNext]_queueVars PROVE QueueTypeOK'
  OBVIOUS
<1> USE FifoAssumption DEF FifoAssumption, QueueTypeOK
<1>1. CASE \E p \in Pushers : Push(p)
  <2>1. PICK p \in Pushers : Push(p)
    BY <1>1
  <2>2. pushes' \in 0 .. MaxPushes /\ pushes' \in 1 .. MaxPushes
    BY <2>1 DEF Push
  <2> QED
    BY <2>1, <2>2 DEF Push
<1>2. CASE Signals
  BY <1>2 DEF Signals, Signal
<1>3. CASE Pops
  <2>1. CASE TakesItem
    <3>1. Tail(items) \in Seq(1 .. MaxPushes)
      BY <2>1 DEF TakesItem
    <3> QED
      BY <2>1, <3>1 DEF TakesItem
  <2>2. CASE CallsPop \/ FindsNothing \/ Woken
    BY <2>2 DEF CallsPop, FindsNothing, Woken
  <2> QED
    BY <1>3, <2>1, <2>2 DEF Pops
<1>4. CASE Leaves \/ ContextEnds
  BY <1>4 DEF Leaves, ContextEnds
<1>5. CASE UNCHANGED queueVars
  BY <1>5 DEF queueVars
<1> QED
  BY <1>1, <1>2, <1>3, <1>4, <1>5 DEF QueueNext

\* Type correctness of the queue.
THEOREM QueueTypeCorrect == QueueSpec => []QueueTypeOK
<1>1. QueueInit => QueueTypeOK
  <2>1. <<>> \in Seq(1 .. MaxPushes)
    OBVIOUS
  <2>2. 0 \in 0 .. MaxPushes
    BY FifoAssumption DEF FifoAssumption
  <2> QED
    BY <2>1, <2>2 DEF QueueInit, QueueTypeOK
<1> QED
  BY <1>1, QueueTypeStep, PTL DEF QueueSpec

-----------------------------------------------------------------------------
(* No wake-up is lost.  The property is inductive: a consumer goes to wait *)
(* only when there is no item, and whoever brings one then has still to    *)
(* signal; the signal stays until the consumer takes it and looks again.   *)

\* No step of the queue loses a wake-up.
LEMMA WakeupStep ==
    QueueTypeOK /\ NoLostWakeup /\ [QueueNext]_queueVars => NoLostWakeup'
<1> SUFFICES ASSUME QueueTypeOK, NoLostWakeup, [QueueNext]_queueVars
             PROVE  NoLostWakeup'
  OBVIOUS
<1> USE DEF NoLostWakeup
<1>1. CASE \E p \in Pushers : Push(p)
  BY <1>1 DEF Push
<1>2. CASE Signals
  BY <1>2 DEF Signals, Signal
<1>3. CASE Pops
  BY <1>3 DEF Pops, CallsPop, TakesItem, FindsNothing, Woken
<1>4. CASE Leaves \/ ContextEnds
  BY <1>4 DEF Leaves, ContextEnds
<1>5. CASE UNCHANGED queueVars
  BY <1>5 DEF queueVars
<1> QED
  BY <1>1, <1>2, <1>3, <1>4, <1>5 DEF QueueNext

\* For any pushers: a consumer that waits in front of an item has a signal
\* coming.
THEOREM QueueLosesNoWakeup == QueueSpec => []NoLostWakeup
<1>1. QueueInit => NoLostWakeup
  BY DEF QueueInit, NoLostWakeup
<1> QED
  BY <1>1, QueueTypeCorrect, WakeupStep, PTL DEF QueueSpec

-----------------------------------------------------------------------------
(* The queue implements the sequence its users take it for.  (That an item *)
(* is taken in the end rests on fairness and is only model-checked.)       *)

\* Every step of the queue is a step of the sequence or leaves it alone.
LEMMA SequenceStep ==
    QueueTypeOK /\ [QueueNext]_queueVars => [Sequence!Next]_(Sequence!queue)
<1> SUFFICES ASSUME QueueTypeOK, [QueueNext]_queueVars
             PROVE  [Sequence!Next]_(Sequence!queue)
  OBVIOUS
<1> USE DEF Sequence!Next, Sequence!queue
<1>1. CASE \E p \in Pushers : Push(p)
  BY <1>1 DEF Push, Sequence!Put
<1>2. CASE TakesItem
  BY <1>2 DEF TakesItem, Sequence!TakeHead
<1>3. CASE Leaves
  BY <1>3 DEF Leaves, Sequence!Leave
<1>4. CASE Signals \/ CallsPop \/ FindsNothing \/ Woken \/ ContextEnds
  BY <1>4 DEF Signals, Signal, CallsPop, FindsNothing, Woken, ContextEnds
<1>5. CASE UNCHANGED queueVars
  BY <1>5 DEF queueVars
<1> QED
  BY <1>1, <1>2, <1>3, <1>4, <1>5 DEF QueueNext, Pops

\* What is pushed is taken in the order of the pushes, each item once.
THEOREM QueueIsASequence ==
    QueueSpec => Sequence!Init /\ [][Sequence!Next]_(Sequence!queue)
<1>1. QueueInit => Sequence!Init
  BY DEF QueueInit, Sequence!Init
<1> QED
  BY <1>1, QueueTypeCorrect, SequenceStep, PTL DEF QueueSpec

-----------------------------------------------------------------------------
(***************************************************************************)
(* Proofs about the sweep, for any pids.  The invariant says where each    *)
(* process that is owed its end still is: among those to be looked at, the *)
(* one being looked at, those kept, those found, or those to be killed.    *)
(***************************************************************************)

LooksOnlyInAPass == looked # None => Filtering

OwedAreMarked == owed \subseteq marked

OwedAreNotForgotten ==
    /\ sweep \in {"idle", "done"} => owed = {}
    /\ Filtering => \A p \in owed : p \in todo \/ p = looked \/ p \in kept
    /\ sweep \in {"terminating", "filtering", "sleeping"} => owed \subseteq found
    /\ sweep = "killing" => owed \subseteq todo

SparedAreUnmarked == spared \subseteq Live \ marked

KeptAreNotSpared ==
    /\ kept \cap spared = {}
    /\ sweep \in {"terminating", "killing"} => todo \subseteq kept

SweepIInv ==
    /\ SweepTypeOK
    /\ LooksOnlyInAPass
    /\ OwedAreMarked /\ OwedAreNotForgotten
    /\ SparedAreUnmarked /\ KeptAreNotSpared

-----------------------------------------------------------------------------
(* The steps.                                                              *)

\* Before the sweep begins nothing is owed.
LEMMA SweepInitIInv == SweepInit => SweepIInv
BY DEF SweepInit, SweepIInv, SweepTypeOK, LooksOnlyInAPass, OwedAreMarked, Filtering, Live,
       OwedAreNotForgotten, SparedAreUnmarked, KeptAreNotSpared

\* The end of a process takes it out of everything that was the process's.
LEMMA ProcessEndsStep ==
    ASSUME SweepIInv, NEW p \in Pids, Ends(p)
    PROVE  /\ process' \in [Pids -> {"absent", "live", "zombie"}]
           /\ Live' = Live \ {p} /\ marked' = marked \ {p}
           /\ owed' = owed \ {p} /\ spared' = spared \ {p}
BY DEF SweepIInv, SweepTypeOK, Ends, Live

\* The other processes' births, deaths and hand-offs preserve the invariant.
LEMMA SurroundingsStep ==
    ASSUME SweepIInv, Surroundings
    PROVE  SweepIInv'
<1> USE DEF SweepIInv
<1>1. ASSUME NEW q \in Pids, NEW mark \in BOOLEAN, Born(q, mark) PROVE SweepIInv'
  <2>1. /\ process' \in [Pids -> {"absent", "live", "zombie"}]
        /\ Live' = Live \cup {q} /\ q \notin Live
        /\ marked' = marked \/ marked' = marked \cup {q}
    BY <1>1 DEF Born, SweepTypeOK, Live
  <2> QED
    BY <1>1, <2>1 DEF Born, stopVars, SweepTypeOK, LooksOnlyInAPass, OwedAreMarked, Filtering,
       OwedAreNotForgotten, SparedAreUnmarked, KeptAreNotSpared
<1>2. ASSUME NEW p \in Pids, HandedOff(p) PROVE SweepIInv'
  <2>1. Live' = Live
    BY <1>2 DEF HandedOff, Live
  <2> QED
    BY <1>2, <2>1 DEF HandedOff, stopVars, SweepTypeOK, LooksOnlyInAPass, OwedAreMarked,
       Filtering, OwedAreNotForgotten, SparedAreUnmarked, KeptAreNotSpared
<1>3. ASSUME NEW p \in Pids, Exits(p) PROVE SweepIInv'
  <2>1. /\ process' \in [Pids -> {"absent", "live", "zombie"}]
        /\ Live' = Live \ {p} /\ marked' = marked \ {p}
        /\ owed' = owed \ {p} /\ spared' = spared \ {p}
    BY <1>3, ProcessEndsStep DEF Exits
  <2> QED
    BY <1>3, <2>1 DEF Exits, stopVars, SweepTypeOK, LooksOnlyInAPass, OwedAreMarked,
       Filtering, OwedAreNotForgotten, SparedAreUnmarked, KeptAreNotSpared
<1>4. ASSUME NEW p \in Pids, Reaped(p) PROVE SweepIInv'
  <2>1. process' \in [Pids -> {"absent", "live", "zombie"}] /\ Live' = Live
    BY <1>4 DEF Reaped, Live, SweepTypeOK
  <2> QED
    BY <1>4, <2>1 DEF Reaped, stopVars, SweepTypeOK, LooksOnlyInAPass, OwedAreMarked,
       Filtering, OwedAreNotForgotten, SparedAreUnmarked, KeptAreNotSpared
<1>5. ASSUME NEW p \in Pids, NEW q \in Pids, Forks(p, q) PROVE SweepIInv'
  <2>1. (p \in marked) \in BOOLEAN
    OBVIOUS
  <2> QED
    BY <1>1, <1>5, <2>1 DEF Forks
<1> QED
  BY <1>1, <1>2, <1>3, <1>4, <1>5 DEF Surroundings

\* A pass of filter begins with every process that is owed its end among the
\* pids it is to look at.
LEMMA PassStep ==
    ASSUME SweepIInv, Lists \/ Round
    PROVE  SweepIInv'
<1> USE DEF SweepIInv
<1>1. looked = None
  BY DEF Lists, Round, RoundDue, LooksOnlyInAPass, Filtering
<1>2. Live' = Live
  BY DEF Lists, Round, Live
<1>3. CASE Lists
  <2>1. marked \subseteq todo'
    BY <1>3 DEF Lists, Filters, SweepTypeOK, Live
  <2> QED
    BY <1>1, <1>2, <1>3, <2>1 DEF Lists, Filters, SweepTypeOK, LooksOnlyInAPass, OwedAreMarked,
       Filtering, OwedAreNotForgotten, SparedAreUnmarked, KeptAreNotSpared, Live
<1>4. CASE Round
  BY <1>1, <1>2, <1>4 DEF Round, RoundDue, Filters, SweepTypeOK, LooksOnlyInAPass,
     OwedAreMarked, Filtering, OwedAreNotForgotten, SparedAreUnmarked, KeptAreNotSpared, Live
<1> QED
  BY <1>3, <1>4

\* Looking at a pid loses no process that is owed its end, and keeps none that
\* is to be spared.
LEMMA LookStep ==
    ASSUME SweepIInv, ReadsEnviron \/ \E p \in Pids : ChecksLive(p)
    PROVE  SweepIInv'
<1> USE SweepAssumption DEF SweepAssumption, SweepIInv, SweepTypeOK, LooksOnlyInAPass, OwedAreMarked,
        Filtering, OwedAreNotForgotten, SparedAreUnmarked, KeptAreNotSpared
<1>1. CASE ReadsEnviron
  <2>1. Live' = Live
    BY <1>1 DEF ReadsEnviron, Live
  <2> QED
    BY <1>1, <2>1 DEF ReadsEnviron
<1>2. ASSUME NEW p \in Pids, ChecksLive(p) PROVE SweepIInv'
  <2>1. Live' = Live
    BY <1>2 DEF ChecksLive, Live
  <2> QED
    BY <1>2, <2>1 DEF ChecksLive
<1> QED
  BY <1>1, <1>2

\* The ends of a pass, and the signals.
LEMMA EndOfPassStep ==
    ASSUME SweepIInv,
           \/ Finishes \/ Found \/ Waits \/ GivesUp \/ Killed \/ GraceEnds
           \/ \E p \in Pids : Terminates(p)
    PROVE  SweepIInv'
<1> USE DEF SweepIInv, SweepTypeOK, LooksOnlyInAPass, OwedAreMarked, Filtering, Filtered,
        OwedAreNotForgotten, SparedAreUnmarked, KeptAreNotSpared
<1>1. CASE Finishes \/ Found
  BY <1>1, SweepAssumption DEF SweepAssumption, Finishes, Found, Live
<1>2. CASE Waits \/ GivesUp \/ Killed
  BY <1>2, SweepAssumption DEF SweepAssumption, Waits, GivesUp, Killed, Live
<1>3. CASE GraceEnds \/ \E p \in Pids : Terminates(p)
  BY <1>3 DEF GraceEnds, Terminates, Live
<1> QED
  BY <1>1, <1>2, <1>3

\* SIGKILL ends the process that has the pid, if there is one.
LEMMA KillsStep ==
    ASSUME SweepIInv, NEW p \in Pids, Kills(p)
    PROVE  SweepIInv'
<1> USE DEF SweepIInv, SweepTypeOK, LooksOnlyInAPass, OwedAreMarked, Filtering,
        OwedAreNotForgotten, SparedAreUnmarked, KeptAreNotSpared
<1>1. CASE p \in Live
  <2>1. /\ process' \in [Pids -> {"absent", "live", "zombie"}]
        /\ Live' = Live \ {p} /\ marked' = marked \ {p}
        /\ owed' = owed \ {p} /\ spared' = spared \ {p}
    BY <1>1, ProcessEndsStep DEF Kills
  <2> QED
    BY <2>1 DEF Kills
<1>2. CASE p \notin Live
  BY <1>2 DEF Kills, Live
<1> QED
  BY <1>1, <1>2

\* Every step preserves the invariant.
LEMMA SweepIInvStep == SweepIInv /\ [SweepNext]_sweepVars => SweepIInv'
<1> SUFFICES ASSUME SweepIInv, [SweepNext]_sweepVars PROVE SweepIInv'
  OBVIOUS
<1>1. CASE UNCHANGED sweepVars
  BY <1>1 DEF sweepVars, SweepIInv, SweepTypeOK, LooksOnlyInAPass, OwedAreMarked, Filtering,
     OwedAreNotForgotten, SparedAreUnmarked, KeptAreNotSpared, Live
<1> QED
  BY <1>1, SurroundingsStep, PassStep, LookStep, EndOfPassStep, KillsStep DEF SweepNext, Stops

-----------------------------------------------------------------------------
\* The invariant holds whatever the other processes do meanwhile.
THEOREM SweepInvariant == SweepSpec => []SweepIInv
BY SweepInitIInv, SweepIInvStep, PTL DEF SweepSpec

\* For any processes: nothing that had the marker when /proc was listed, and
\* was not handed off, is left when Stop returns.
THEOREM SweepLeavesNothing == SweepSpec => []NothingOwedIsLeft
<1>1. SweepIInv => NothingOwedIsLeft
  BY DEF SweepIInv, OwedAreNotForgotten, NothingOwedIsLeft
<1> QED
  BY <1>1, SweepInvariant, PTL

\* For any processes: none that had no marker when the pass began is signalled.
THEOREM SweepSparesHandedOff == SweepSpec => []HandedOffAreSpared
<1>1. SweepIInv => HandedOffAreSpared
  BY DEF SweepIInv, KeptAreNotSpared, HandedOffAreSpared
<1> QED
  BY <1>1, SweepInvariant, PTL

-----------------------------------------------------------------------------
(***************************************************************************)
(* Proofs about the metadata, for any models, efforts, calls and openings. *)
(*                                                                         *)
(* What is on disk and in memory is allowed because every copy that a call *)
(* or an opening has read and not yet written is: that is the invariant's  *)
(* first part.  A call that had the session to itself may settle what is   *)
(* allowed because no other copy is about then, and because the runtime it *)
(* has changed is still the open one: the other three.                     *)
(***************************************************************************)

Holding == {"changing", "writing", "renaming", "starting"}

CopiesAreAllowed ==
    \A w \in Workers : at[w] \in Holding =>
        \A o \in Options : meta[w][o] \in may[o]

OwnIsSet ==
    \A c \in Setters : at[c] \in {"writing", "renaming"} =>
        meta[c][asks[c].option] = asks[c].value

AloneIsAlone ==
    \A w \in alone : \A u \in Workers :
        at[w] \notin Idle /\ at[u] \notin Idle => u = w

AloneIsInForce ==
    \A c \in Setters : c \in alone /\ at[c] \notin Idle /\ hosts # 0 =>
        /\ hosts = target[c]
        /\ at[c] \in {"writing", "renaming"} =>
              memory[asks[c].option] = asks[c].value

MetaIInv ==
    /\ MetaTypeOK
    /\ ChoicesAreStored /\ ChoicesAreUsed
    /\ CopiesAreAllowed /\ OwnIsSet /\ AloneIsAlone /\ AloneIsInForce

-----------------------------------------------------------------------------
(* Facts about the data.                                                   *)

\* A file without choices is a file.
LEMMA NoMetaIsAMeta == NoMeta \in Metas
BY DEF NoMeta, Metas, AllValues

\* What a runtime makes of a file are settings it can use.
LEMMA EffectiveType ==
    ASSUME launch \in Models, NEW m \in Metas
    PROVE  Effective(m) \in Settings
BY MetadataAssumption
   DEF MetadataAssumption, Effective, Used, Settings, Metas, AllValues, Values, Options

\* Setting one option of a file leaves a file, and of settings, settings.
LEMMA ChangeType ==
    ASSUME NEW o \in Options, NEW v \in Values(o)
    PROVE  /\ \A m \in Metas : [m EXCEPT ![o] = v] \in Metas
           /\ \A m \in Settings : [m EXCEPT ![o] = v] \in Settings
<1>1. v \in AllValues
  BY DEF Values, AllValues
<1>2. ASSUME NEW m \in Metas PROVE [m EXCEPT ![o] = v] \in Metas
  BY <1>1 DEF Metas
<1>3. ASSUME NEW m \in Settings PROVE [m EXCEPT ![o] = v] \in Settings
  BY <1>1, <1>2 DEF Settings, Metas
<1> QED
  BY <1>2, <1>3

\* An accepted value is used as it is.
LEMMA ChosenIsUsed ==
    ASSUME NEW o \in Options, NEW v \in Values(o)
    PROVE  Used(o, v) = v
BY MetadataAssumption DEF MetadataAssumption, Used, Values

-----------------------------------------------------------------------------
(* Types.                                                                  *)

\* The ghosts and the stages keep their types.
LEMMA GhostType ==
    ASSUME MetaTypeOK, NEW w \in Workers
    PROVE  /\ Begins(w) => alone' \subseteq Workers
           /\ AllowsUnset => may' \in [Options -> SUBSET AllValues]
           /\ \A stage \in Stages : StepsTo(w, stage) => at' \in [Workers -> Stages]
           /\ \A o \in Options : \A v \in Values(o) :
                Allows(o, v) \/ Settles(o, v) => may' \in [Options -> SUBSET AllValues]
BY DEF MetaTypeOK, Begins, AllowsUnset, StepsTo, Allows, Settles, UnderWay, Values, AllValues

\* A call that goes on is one that asks for something.
LEMMA GoesOn ==
    ASSUME MetaTypeOK, NEW w \in Workers, NEW stage,
           w \in Setters => at[w] # "idle", StepsTo(w, stage), UNCHANGED asks
    PROVE  \A c \in Setters : at'[c] = "idle" \/ asks'[c] \in CallsFor
BY DEF MetaTypeOK, StepsTo, Workers

\* The variables keep their types.
LEMMA MetaTypeStep == MetaTypeOK /\ [MetaNext]_metaVars => MetaTypeOK'
<1> SUFFICES ASSUME MetaTypeOK, [MetaNext]_metaVars PROVE MetaTypeOK'
  OBVIOUS
<1> USE GhostType, NoMetaIsAMeta DEF MetaTypeOK
<1>1. ASSUME NEW c \in Setters, NEW o \in Options, NEW v \in Values(o), Looks(c, o, v)
      PROVE  MetaTypeOK'
  <2>1. c \in Workers /\ "reading" \in Stages
    BY DEF Workers, Stages
  <2>2. [option |-> o, value |-> v, default |-> launch] \in CallsFor
    BY DEF CallsFor, Values, AllValues
  <2>3. hosts \in 0 .. MaxOpens
    BY MetadataAssumption DEF MetadataAssumption
  <2>4. asks' \in [Setters -> CallsFor \cup {NoCall}] /\ target' \in [Setters -> 0 .. MaxOpens]
    BY <1>1, <2>2, <2>3 DEF Looks
  <2>5. \A d \in Setters : at'[d] = "idle" \/ asks'[d] \in CallsFor
    BY <1>1, <2>1, <2>2 DEF Looks, StepsTo
  <2>6. at' \in [Workers -> Stages] /\ alone' \subseteq Workers
    BY <1>1, <2>1 DEF Looks
  <2> QED
    BY <1>1, <2>4, <2>5, <2>6 DEF Looks
<1>2. ASSUME NEW c \in Setters, SetReads(c) PROVE MetaTypeOK'
  <2>1. c \in Workers /\ "changing" \in Stages
    BY DEF Workers, Stages
  <2> QED
    BY <1>2, <2>1 DEF SetReads, Reads, StepsTo, Idle
<1>3. ASSUME NEW c \in Setters, Refuses(c) PROVE MetaTypeOK'
  <2>1. c \in Workers /\ "failed" \in Stages
    BY DEF Workers, Stages, Idle
  <2> QED
    BY <1>3, <2>1 DEF Refuses, StepsTo
<1>4. ASSUME NEW c \in Setters, Changes(c) PROVE MetaTypeOK'
  <2>1. c \in Workers /\ "writing" \in Stages
    BY DEF Workers, Stages
  <2>2. asks[c] \in CallsFor
    BY <1>4 DEF Changes
  <2>3. asks[c].option \in Options /\ asks[c].value \in Values(asks[c].option)
    BY <2>2 DEF CallsFor
  <2>4. memory' \in Settings /\ meta' \in [Workers -> Metas]
    BY <1>4, <2>1, <2>3, ChangeType DEF Changes
  <2> QED
    BY <1>4, <2>1, <2>3, <2>4 DEF Changes, StepsTo
<1>5. ASSUME NEW c \in Setters, SetRenames(c) PROVE MetaTypeOK'
  <2>1. c \in Workers /\ "answered" \in Stages
    BY DEF Workers, Stages, Idle
  <2>2. asks[c] \in CallsFor
    BY <1>5 DEF SetRenames
  <2>3. asks[c].option \in Options /\ asks[c].value \in Values(asks[c].option)
    BY <2>2 DEF CallsFor
  <2> QED
    BY <1>5, <2>1, <2>3 DEF SetRenames, StepsTo
<1>6. ASSUME NEW w \in Workers, WritesTemp(w) \/ WriteFails(w) PROVE MetaTypeOK'
  <2>1. {"renaming", "failed"} \subseteq Stages
    BY DEF Stages, Idle
  <2>2. \A c \in Setters : at'[c] = "idle" \/ asks'[c] \in CallsFor
    BY <1>6, GoesOn DEF WritesTemp, WriteFails
  <2>3. at' \in [Workers -> Stages]
    BY <1>6, <2>1 DEF WritesTemp, WriteFails
  <2> QED
    BY <1>6, <2>2, <2>3 DEF WritesTemp, WriteFails
<1>7. ASSUME NEW l \in Models, OpenReads(l) PROVE MetaTypeOK'
  <2>1. Opener \in Workers /\ Opener \notin Setters /\ "writing" \in Stages
    BY MetadataAssumption DEF MetadataAssumption, Opener, Workers, Stages
  <2>2. opens' \in 0 .. MaxOpens /\ hosts' \in 0 .. opens'
    BY <1>7, MetadataAssumption DEF OpenReads, MetadataAssumption
  <2> QED
    BY <1>7, <2>1, <2>2 DEF OpenReads, Reads, StepsTo
<1>8. CASE Opening
  <2>1. Opener \in Workers /\ Opener \notin Setters
        /\ {"starting", "failed", "answered"} \subseteq Stages
    BY MetadataAssumption DEF MetadataAssumption, Opener, Workers, Stages, Idle
  <2>2. Effective(meta[Opener]) \in Settings
    BY <2>1, EffectiveType
  <2>3. opens \in 0 .. opens
    BY MetadataAssumption DEF MetadataAssumption
  <2>4. \A c \in Setters : at'[c] = "idle" \/ asks'[c] \in CallsFor
    BY <1>8, <2>1, GoesOn DEF Opening, OpenRenames, Starts, StartFails
  <2>5. at' \in [Workers -> Stages]
    BY <1>8, <2>1 DEF Opening, OpenRenames, Starts, StartFails
  <2>6. CASE OpenRenames \/ StartFails
    BY <2>1, <2>4, <2>5, <2>6 DEF OpenRenames, StartFails
  <2>7. CASE Starts
    BY <2>2, <2>3, <2>4, <2>5, <2>7 DEF Starts
  <2> QED
    BY <1>8, <2>6, <2>7 DEF Opening
<1>9. CASE Closes \/ Crashes
  <2>1. 0 \in 0 .. opens /\ "failed" \in Stages
    BY MetadataAssumption DEF MetadataAssumption, Stages, Idle
  <2>2. Crashes => at' \in [Workers -> Stages] /\ \A c \in Setters : at'[c] = "idle" => at[c] = "idle"
    BY <2>1 DEF Crashes, Workers
  <2>3. Crashes => \A c \in Setters : at[c] = "idle" => at'[c] = "idle"
    BY DEF Crashes, Workers, UnderWay, Idle
  <2> QED
    BY <1>9, <2>1, <2>2, <2>3 DEF Closes, Crashes
<1>10. CASE UNCHANGED metaVars
  BY <1>10 DEF metaVars
<1> QED
  BY <1>1, <1>2, <1>3, <1>4, <1>5, <1>6, <1>7, <1>8, <1>9, <1>10 DEF MetaNext, Sets

\* Type correctness of the metadata.
THEOREM MetaTypeCorrect == MetaSpec => []MetaTypeOK
<1>1. MetaInit => MetaTypeOK
  <2> SUFFICES ASSUME MetaInit PROVE MetaTypeOK
    OBVIOUS
  <2>1. memory \in Settings
    BY NoMetaIsAMeta, EffectiveType DEF MetaInit
  <2>2. 0 \in 0 .. MaxOpens /\ 0 \in 0 .. 0
    BY MetadataAssumption DEF MetadataAssumption
  <2>3. may \in [Options -> SUBSET AllValues]
    BY DEF MetaInit, AllValues
  <2>4. at \in [Workers -> Stages] /\ \A c \in Setters : at[c] = "idle"
    BY DEF MetaInit, Workers, Stages, Idle
  <2> QED
    BY <2>1, <2>2, <2>3, <2>4, NoMetaIsAMeta DEF MetaInit, MetaTypeOK
<1> QED
  BY <1>1, MetaTypeStep, PTL DEF MetaSpec

-----------------------------------------------------------------------------
(* The invariant.                                                          *)

\* It holds before the session is opened for the first time.
LEMMA MetaInitIInv ==
    ASSUME MetaInit, MetaTypeOK
    PROVE  MetaIInv
<1>1. ChoicesAreStored /\ ChoicesAreUsed
  BY DEF MetaInit, ChoicesAreStored, ChoicesAreUsed, NoMeta
<1>2. CopiesAreAllowed /\ OwnIsSet /\ AloneIsAlone /\ AloneIsInForce
  BY DEF MetaInit, CopiesAreAllowed, OwnIsSet, AloneIsAlone, AloneIsInForce,
         Holding, Workers
<1> QED
  BY <1>1, <1>2 DEF MetaIInv

\* A worker that begins has the session to itself only if no other is under
\* way, and then those that were alone are so no more.
LEMMA BeginsAlone ==
    ASSUME MetaIInv, NEW w \in Workers, NEW stage \in Stages,
           at[w] \in Idle, Begins(w), StepsTo(w, stage)
    PROVE  /\ AloneIsAlone'
           /\ \A u \in Workers : u # w /\ at'[u] \notin Idle => u \notin alone'
<1>1. alone \subseteq Workers /\ \A u \in Workers : u # w => at'[u] = at[u]
  BY DEF MetaIInv, MetaTypeOK, StepsTo
<1>2. CASE UnderWay = {}
  <2>1. alone' = alone \cup {w} /\ \A u \in Workers : u # w => at'[u] \in Idle
    BY <1>1, <1>2 DEF Begins, UnderWay
  <2> QED
    BY <1>1, <2>1 DEF AloneIsAlone
<1>3. CASE UnderWay # {}
  <2>1. alone' \subseteq alone /\ \A u \in alone' : u # w /\ at[u] \in Idle
    BY <1>1, <1>3 DEF Begins, UnderWay
  <2> QED
    BY <1>1, <2>1 DEF AloneIsAlone
<1> QED
  BY <1>2, <1>3

\* A worker that goes on or ends leaves those that are alone alone.
LEMMA GoesAlone ==
    ASSUME MetaIInv, NEW w \in Workers, NEW stage,
           at[w] \notin Idle, StepsTo(w, stage), UNCHANGED alone
    PROVE  AloneIsAlone'
BY DEF MetaIInv, MetaTypeOK, AloneIsAlone, StepsTo

\* What is read is allowed from then on.
LEMMA ReadsAllowed ==
    ASSUME MetaIInv, NEW w \in Workers, NEW onDisk \in {file, NoMeta}, Reads(w, onDisk)
    PROVE  /\ \A o \in Options : may[o] \subseteq may'[o] /\ meta'[w][o] \in may'[o]
           /\ \A u \in Workers : u # w => meta'[u] = meta[u]
<1>1. meta \in [Workers -> Metas] /\ may \in [Options -> SUBSET AllValues]
  BY DEF MetaIInv, MetaTypeOK
<1>2. \A o \in Options : may[o] \subseteq may'[o]
  BY <1>1 DEF Reads, AllowsUnset
<1>3. \A o \in Options : onDisk[o] \in may'[o]
  <2>1. CASE onDisk = file
    BY <1>2, <2>1 DEF MetaIInv, ChoicesAreStored
  <2>2. CASE onDisk # file
    BY <1>1, <2>2 DEF Reads, AllowsUnset, NoMeta
  <2> QED
    BY <2>1, <2>2
<1> QED
  BY <1>1, <1>2, <1>3 DEF Reads

\* A call that looks the runtime up has changed nothing yet.
LEMMA LooksStep ==
    ASSUME MetaIInv, NEW c \in Setters, NEW o \in Options, NEW v \in Values(o),
           Looks(c, o, v), MetaTypeOK'
    PROVE  MetaIInv'
<1> USE DEF MetaIInv
<1>1. c \in Workers /\ "reading" \in Stages /\ at[c] \in Idle
  BY DEF Workers, Stages, Looks, Idle
<1>2. AloneIsAlone' /\ \A u \in Workers : u # c /\ at'[u] \notin Idle => u \notin alone'
  BY <1>1, BeginsAlone DEF Looks
<1>3. ChoicesAreStored' /\ ChoicesAreUsed'
  BY DEF Looks, ChoicesAreStored, ChoicesAreUsed, Used
<1>4. at'[c] = "reading" /\ \A u \in Workers : u # c => at'[u] = at[u]
  BY <1>1 DEF Looks, StepsTo, MetaTypeOK
<1>5. /\ \A d \in Setters : d # c => asks'[d] = asks[d] /\ target'[d] = target[d]
      /\ target'[c] = hosts
  BY DEF Looks, MetaTypeOK
<1>6. CopiesAreAllowed'
  BY <1>4 DEF Looks, CopiesAreAllowed, Holding
<1>7. OwnIsSet'
  BY <1>4, <1>5 DEF Looks, OwnIsSet, Workers
<1>8. AloneIsInForce'
  BY <1>2, <1>4, <1>5 DEF Looks, AloneIsInForce, Workers
<1> QED
  BY <1>2, <1>3, <1>6, <1>7, <1>8

\* Neither has one that has read the file.
LEMMA SetReadsStep ==
    ASSUME MetaIInv, NEW c \in Setters, SetReads(c), MetaTypeOK'
    PROVE  MetaIInv'
<1> USE DEF MetaIInv
<1>1. c \in Workers /\ at[c] \notin Idle
  BY DEF Workers, SetReads, Idle
<1>2. AloneIsAlone'
  BY <1>1, GoesAlone DEF SetReads
<1>3. at'[c] = "changing" /\ \A u \in Workers : u # c => at'[u] = at[u]
  BY <1>1 DEF SetReads, StepsTo, MetaTypeOK
<1>4. /\ \A o \in Options : may[o] \subseteq may'[o] /\ meta'[c][o] \in may'[o]
      /\ \A u \in Workers : u # c => meta'[u] = meta[u]
  BY <1>1, ReadsAllowed DEF SetReads
<1>5. ChoicesAreStored' /\ ChoicesAreUsed'
  BY <1>4 DEF SetReads, ChoicesAreStored, ChoicesAreUsed, Used
<1>6. CopiesAreAllowed'
  BY <1>3, <1>4 DEF CopiesAreAllowed
<1>7. OwnIsSet'
  BY <1>3, <1>4 DEF SetReads, OwnIsSet, Workers
<1>8. AloneIsInForce'
  BY <1>1, <1>3 DEF SetReads, AloneIsInForce, Workers
<1> QED
  BY <1>2, <1>5, <1>6, <1>7, <1>8

\* A worker that is refused, fails or has written its temporary file changes
\* neither the file nor the runtime.
LEMMA EndsStep ==
    ASSUME MetaIInv, NEW w \in Workers, NEW stage \in Idle \cup {"renaming"}, StepsTo(w, stage),
           at[w] \notin Idle, stage = "renaming" => at[w] = "writing",
           UNCHANGED <<file, meta, asks, target, opens, hosts, launch, memory, may, alone>>,
           MetaTypeOK'
    PROVE  MetaIInv'
<1> USE DEF MetaIInv
<1>1. AloneIsAlone'
  BY GoesAlone
<1>2. at'[w] = stage /\ \A u \in Workers : u # w => at'[u] = at[u]
  BY DEF StepsTo, MetaTypeOK
<1>3. ChoicesAreStored' /\ ChoicesAreUsed'
  BY DEF ChoicesAreStored, ChoicesAreUsed, Used
<1>4. CopiesAreAllowed'
  BY <1>2 DEF CopiesAreAllowed, Holding, Idle
<1>5. OwnIsSet' /\ AloneIsInForce'
  BY <1>2 DEF OwnIsSet, AloneIsInForce, Workers, Idle
<1> QED
  BY <1>1, <1>3, <1>4, <1>5

\* A change is allowed from then on, and only its own copy has it.
LEMMA ChangesStep ==
    ASSUME MetaIInv, NEW c \in Setters, Changes(c), MetaTypeOK'
    PROVE  MetaIInv'
<1> USE DEF MetaIInv
<1> DEFINE o == asks[c].option
           v == asks[c].value
<1>1. c \in Workers /\ at[c] = "changing"
  BY DEF Workers, Changes
<1>2. o \in Options /\ v \in Values(o)
  <2>1. asks[c] \in CallsFor
    BY <1>1 DEF MetaTypeOK
  <2> QED
    BY <2>1 DEF CallsFor
<1>3. AloneIsAlone'
  BY <1>1, GoesAlone DEF Changes, Idle
<1>4. at'[c] = "writing" /\ \A u \in Workers : u # c => at'[u] = at[u]
  BY <1>1 DEF Changes, StepsTo, MetaTypeOK
<1>5. v \in may'[o] /\ \A p \in Options : may[p] \subseteq may'[p]
  BY <1>2 DEF Changes, Allows, MetaTypeOK
<1>6. /\ meta'[c][o] = v /\ \A p \in Options : p # o => meta'[c][p] = meta[c][p]
      /\ \A u \in Workers : u # c => meta'[u] = meta[u]
  BY <1>1, <1>2 DEF Changes, MetaTypeOK, Metas
<1>7. /\ hosts = target[c] => memory'[o] = v /\ \A p \in Options : p # o => memory'[p] = memory[p]
      /\ hosts # target[c] => memory' = memory
  BY <1>2 DEF Changes, MetaTypeOK, Settings, Metas
<1>8. ChoicesAreStored'
  BY <1>5 DEF Changes, ChoicesAreStored
<1>9. ChoicesAreUsed'
  <2>1. o = "model" => v # Unset
    BY <1>2, MetadataAssumption DEF MetadataAssumption, Values
  <2> QED
    BY <1>5, <1>7, <2>1 DEF Changes, ChoicesAreUsed, Used
<1>10. CopiesAreAllowed'
  BY <1>1, <1>4, <1>5, <1>6 DEF CopiesAreAllowed, Holding
<1>11. OwnIsSet'
  BY <1>4, <1>6 DEF Changes, OwnIsSet, Workers
<1>12. AloneIsInForce'
  <2>1. ASSUME NEW d \in Setters, d \in alone', at'[d] \notin Idle, hosts' # 0
        PROVE  /\ hosts' = target'[d]
               /\ at'[d] \in {"writing", "renaming"} => memory'[asks'[d].option] = asks'[d].value
    <3>1. d = c
      BY <1>1, <1>4, <2>1 DEF Changes, AloneIsAlone, Workers, Idle
    <3>2. hosts = target[c]
      BY <1>1, <2>1, <3>1 DEF Changes, AloneIsInForce, Idle
    <3> QED
      BY <1>7, <3>1, <3>2 DEF Changes
  <2> QED
    BY <2>1 DEF AloneIsInForce
<1> QED
  BY <1>3, <1>8, <1>9, <1>10, <1>11, <1>12

\* A call that was alone settles its option: no other copy is about, and the
\* open runtime, if any, is the one it has changed.
LEMMA SetRenamesStep ==
    ASSUME MetaIInv, NEW c \in Setters, SetRenames(c), MetaTypeOK'
    PROVE  MetaIInv'
<1> USE DEF MetaIInv
<1> DEFINE o == asks[c].option
           v == asks[c].value
<1>1. c \in Workers /\ at[c] = "renaming"
  BY DEF Workers, SetRenames
<1>2. o \in Options /\ v \in Values(o)
  <2>1. asks[c] \in CallsFor
    BY <1>1 DEF MetaTypeOK
  <2> QED
    BY <2>1 DEF CallsFor
<1>3. AloneIsAlone'
  BY <1>1, GoesAlone DEF SetRenames, Idle
<1>4. at'[c] = "answered" /\ \A u \in Workers : u # c => at'[u] = at[u]
  BY <1>1 DEF SetRenames, StepsTo, MetaTypeOK
<1>5. meta[c][o] = v /\ \A p \in Options : meta[c][p] \in may[p]
  BY <1>1 DEF OwnIsSet, CopiesAreAllowed, Holding
<1>6. /\ c \in alone => may'[o] = {v} /\ \A p \in Options : p # o => may'[p] = may[p]
      /\ c \notin alone => may' = may
  BY <1>2 DEF SetRenames, Settles, MetaTypeOK
<1>7. ChoicesAreStored'
  BY <1>5, <1>6 DEF SetRenames, ChoicesAreStored
<1>8. ChoicesAreUsed'
  <2>1. o = "model" => v # Unset
    BY <1>2, MetadataAssumption DEF MetadataAssumption, Values
  <2>2. c \in alone /\ hosts # 0 => memory[o] = v
    BY <1>1 DEF AloneIsInForce, Idle
  <2> QED
    BY <1>6, <2>1, <2>2 DEF SetRenames, ChoicesAreUsed, Used
<1>9. CopiesAreAllowed'
  <2>1. CASE c \in alone
    <3>1. \A u \in Workers : at'[u] \in Idle
      BY <1>1, <1>4, <2>1 DEF AloneIsAlone, Idle
    <3> QED
      BY <3>1 DEF CopiesAreAllowed, Holding, Idle
  <2>2. CASE c \notin alone
    BY <1>4, <1>6, <2>2 DEF SetRenames, CopiesAreAllowed, Holding
  <2> QED
    BY <2>1, <2>2
<1>10. OwnIsSet' /\ AloneIsInForce'
  BY <1>4 DEF SetRenames, OwnIsSet, AloneIsInForce, Workers, Idle
<1> QED
  BY <1>3, <1>7, <1>8, <1>9, <1>10

\* An opening that has read the file has changed nothing yet.
LEMMA OpenReadsStep ==
    ASSUME MetaIInv, NEW l \in Models, OpenReads(l), MetaTypeOK'
    PROVE  MetaIInv'
<1> USE DEF MetaIInv
<1>1. Opener \in Workers /\ Opener \notin Setters /\ "writing" \in Stages
  BY MetadataAssumption DEF MetadataAssumption, Opener, Workers, Stages
<1>2. AloneIsAlone' /\ \A u \in Workers : u # Opener /\ at'[u] \notin Idle => u \notin alone'
  BY <1>1, BeginsAlone DEF OpenReads
<1>3. at'[Opener] = "writing" /\ \A u \in Workers : u # Opener => at'[u] = at[u]
  BY <1>1 DEF OpenReads, StepsTo, MetaTypeOK
<1>4. /\ \A o \in Options : may[o] \subseteq may'[o] /\ meta'[Opener][o] \in may'[o]
      /\ \A u \in Workers : u # Opener => meta'[u] = meta[u]
  BY <1>1, ReadsAllowed DEF OpenReads
<1>5. ChoicesAreStored' /\ ChoicesAreUsed'
  BY <1>4 DEF OpenReads, ChoicesAreStored, ChoicesAreUsed
<1>6. CopiesAreAllowed'
  BY <1>3, <1>4 DEF CopiesAreAllowed
<1>7. OwnIsSet' /\ AloneIsInForce'
  BY <1>1, <1>3, <1>4 DEF OpenReads, OwnIsSet, AloneIsInForce, Workers
<1> QED
  BY <1>2, <1>5, <1>6, <1>7

\* What an opening writes back is the copy it has read.
LEMMA OpenRenamesStep ==
    ASSUME MetaIInv, OpenRenames, MetaTypeOK'
    PROVE  MetaIInv'
<1> USE DEF MetaIInv
<1>1. Opener \in Workers /\ Opener \notin Setters
  BY MetadataAssumption DEF MetadataAssumption, Opener, Workers
<1>2. AloneIsAlone'
  BY <1>1, GoesAlone DEF OpenRenames, Idle
<1>3. at'[Opener] = "starting" /\ \A u \in Workers : u # Opener => at'[u] = at[u]
  BY <1>1 DEF OpenRenames, StepsTo, MetaTypeOK
<1>4. ChoicesAreStored' /\ ChoicesAreUsed'
  BY <1>1 DEF OpenRenames, CopiesAreAllowed, Holding, ChoicesAreStored, ChoicesAreUsed, Used
<1>5. CopiesAreAllowed'
  BY <1>1, <1>3 DEF OpenRenames, CopiesAreAllowed, Holding
<1>6. OwnIsSet' /\ AloneIsInForce'
  BY <1>1, <1>3 DEF OpenRenames, OwnIsSet, AloneIsInForce, Workers
<1> QED
  BY <1>2, <1>4, <1>5, <1>6

\* No call that is alone sees the session opened again: it would not be alone.
LEMMA StartsStep ==
    ASSUME MetaIInv, Starts, MetaTypeOK'
    PROVE  MetaIInv'
<1> USE DEF MetaIInv
<1>1. Opener \in Workers /\ Opener \notin Setters /\ at[Opener] = "starting"
  BY MetadataAssumption DEF MetadataAssumption, Opener, Workers, Starts
<1>2. AloneIsAlone'
  BY <1>1, GoesAlone DEF Starts, Idle
<1>3. at'[Opener] = "answered" /\ \A u \in Workers : u # Opener => at'[u] = at[u]
  BY <1>1 DEF Starts, StepsTo, MetaTypeOK
<1>4. ChoicesAreStored'
  BY DEF Starts, ChoicesAreStored
<1>5. ChoicesAreUsed'
  BY <1>1 DEF Starts, CopiesAreAllowed, Holding, ChoicesAreUsed, Effective, Used
<1>6. CopiesAreAllowed' /\ OwnIsSet'
  BY <1>1, <1>3 DEF Starts, CopiesAreAllowed, OwnIsSet, Holding, Workers
<1>7. AloneIsInForce'
  <2>1. ASSUME NEW c \in Setters, c \in alone', at'[c] \notin Idle
        PROVE  FALSE
    BY <1>1, <1>3, <2>1 DEF Starts, AloneIsAlone, Workers, Idle
  <2> QED
    BY <2>1 DEF AloneIsInForce
<1> QED
  BY <1>2, <1>4, <1>5, <1>6, <1>7

\* Nothing runs on in a runtime that was closed or a process that has gone,
\* except, after a close, the calls that are under way.
LEMMA ClosesStep ==
    ASSUME MetaIInv, Closes \/ Crashes, MetaTypeOK'
    PROVE  MetaIInv'
<1> USE DEF MetaIInv
<1>1. \A w \in Workers : at'[w] = at[w] \/ at'[w] = "failed"
  BY DEF Closes, Crashes, MetaTypeOK
<1>2. ChoicesAreStored' /\ ChoicesAreUsed' /\ AloneIsInForce'
  BY DEF Closes, Crashes, ChoicesAreStored, ChoicesAreUsed, AloneIsInForce
<1>3. CopiesAreAllowed' /\ OwnIsSet'
  BY <1>1 DEF Closes, Crashes, CopiesAreAllowed, OwnIsSet, Holding, Workers
<1>4. AloneIsAlone'
  BY <1>1 DEF Closes, Crashes, AloneIsAlone, Idle, MetaTypeOK
<1> QED
  BY <1>2, <1>3, <1>4

\* Every step preserves the invariant.
LEMMA MetaIInvStep ==
    ASSUME MetaIInv, [MetaNext]_metaVars, MetaTypeOK'
    PROVE  MetaIInv'
<1>1. ASSUME NEW c \in Setters, Sets(c) PROVE MetaIInv'
  <2>1. CASE Refuses(c)
    BY <2>1, EndsStep DEF Refuses, Idle, Workers
  <2> QED
    BY <1>1, <2>1, LooksStep, SetReadsStep, ChangesStep, SetRenamesStep DEF Sets
<1>2. ASSUME NEW w \in Workers, WritesTemp(w) \/ WriteFails(w) PROVE MetaIInv'
  BY <1>2, EndsStep DEF WritesTemp, WriteFails, Idle
<1>3. CASE \E l \in Models : OpenReads(l)
  BY <1>3, OpenReadsStep
<1>4. CASE Opening
  <2>1. CASE StartFails
    <3>1. Opener \in Workers
      BY DEF Workers
    <3> QED
      BY <2>1, <3>1, EndsStep DEF StartFails, Idle
  <2> QED
    BY <1>4, <2>1, OpenRenamesStep, StartsStep DEF Opening
<1>5. CASE Closes \/ Crashes
  BY <1>5, ClosesStep
<1>6. CASE UNCHANGED metaVars
  BY <1>6 DEF metaVars, MetaIInv, ChoicesAreStored, ChoicesAreUsed, CopiesAreAllowed,
              OwnIsSet, AloneIsAlone, AloneIsInForce, Used
<1> QED
  BY <1>1, <1>2, <1>3, <1>4, <1>5, <1>6 DEF MetaNext

\* The invariant holds, whoever overlaps with whom and whatever crashes when.
THEOREM MetaInvariant == MetaSpec => []MetaIInv
<1>1. MetaInit /\ MetaTypeOK => MetaIInv
  BY MetaInitIInv
<1>2. MetaIInv /\ [MetaNext]_metaVars /\ MetaTypeOK' => MetaIInv'
  BY MetaIInvStep
<1> QED
  BY <1>1, <1>2, MetaTypeCorrect, PTL DEF MetaSpec

\* For any calls, crashes and reopenings: only the client's choices are stored,
\* and an answered one is kept unless another overlapped with it.
THEOREM MetaStoresChoices == MetaSpec => []ChoicesAreStored
<1>1. MetaIInv => ChoicesAreStored
  BY DEF MetaIInv
<1> QED
  BY <1>1, MetaInvariant, PTL

\* The open runtime uses the client's choices, and else its own --model.
THEOREM MetaUsesChoices == MetaSpec => []ChoicesAreUsed
<1>1. MetaIInv => ChoicesAreUsed
  BY DEF MetaIInv
<1> QED
  BY <1>1, MetaInvariant, PTL
=============================================================================

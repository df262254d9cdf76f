-------------------------------- MODULE Fifo --------------------------------
(***************************************************************************)
(* The unbounded queue between the goroutines that must not block and the  *)
(* one that works.  (internal/fifo)                                        *)
(*                                                                         *)
(* Push appends under q.mu and signals after it has let go of it, on a     *)
(* channel with room for one signal; a signal that finds the channel full  *)
(* is dropped.  Pop looks at the items under q.mu, lets go of it, and only *)
(* then waits for a signal or for the end of its context: items may come   *)
(* between the look and the wait, and a signal may be older than the look. *)
(* Every queue of the program has one consumer, which comes back to Pop    *)
(* when it has dealt with an item.                                         *)
(***************************************************************************)
EXTENDS Naturals, Sequences

CONSTANTS
    Pushers,     \* the goroutines that push
    MaxPushes    \* bound: items pushed in all

ASSUME FifoAssumption == MaxPushes \in Nat

VARIABLES
    items,      \* q.items; an item is the number of its push
    signal,     \* whether q.signal holds a signal
    pushing,    \* the pushers that have appended and not signalled yet
    popper,     \* where the consumer is
    ended,      \* whether the consumer's context has ended
    pushes      \* how many items have been appended

queueVars == <<items, signal, pushing, popper, ended, pushes>>

\* Types of the state.
QueueTypeOK ==
    /\ items \in Seq(1 .. MaxPushes)
    /\ signal \in BOOLEAN
    /\ pushing \subseteq Pushers
    /\ popper \in {"away", "looking", "waiting", "gone"}
    /\ ended \in BOOLEAN
    /\ pushes \in 0 .. MaxPushes

QueueInit ==
    /\ items = <<>>
    /\ signal = FALSE
    /\ pushing = {}
    /\ popper = "away"
    /\ ended = FALSE
    /\ pushes = 0

\* Push, up to the release of q.mu.
Push(p) ==
    /\ pushes < MaxPushes
    /\ p \notin pushing
    /\ pushes' = pushes + 1
    /\ items' = Append(items, pushes')
    /\ pushing' = pushing \cup {p}
    /\ UNCHANGED <<signal, popper, ended>>

\* The rest of Push: a send that gives up when the channel is full.
SignalOnlyTheFirst(p) ==
    /\ p \in pushing
    /\ pushing' = pushing \ {p}
    /\ signal' = (signal \/ Len(items) = 1)
    /\ UNCHANGED <<items, popper, ended, pushes>>

Signal(p) ==
    /\ p \in pushing
    /\ pushing' = pushing \ {p}
    /\ signal' = TRUE
    /\ UNCHANGED <<items, popper, ended, pushes>>

CallsPop ==
    /\ popper = "away"
    /\ popper' = "looking"
    /\ UNCHANGED <<items, signal, pushing, ended, pushes>>

\* An item is taken whether or not the context has ended.
TakesTheLast ==
    /\ popper = "looking"
    /\ items # <<>>
    /\ items' = SubSeq(items, 1, Len(items) - 1)
    /\ popper' = "away"
    /\ UNCHANGED <<signal, pushing, ended, pushes>>

TakesItem ==
    /\ popper = "looking"
    /\ items # <<>>
    /\ items' = Tail(items)
    /\ popper' = "away"
    /\ UNCHANGED <<signal, pushing, ended, pushes>>

FindsNothing ==
    /\ popper = "looking"
    /\ items = <<>>
    /\ popper' = "waiting"
    /\ UNCHANGED <<items, signal, pushing, ended, pushes>>

Woken ==
    /\ popper = "waiting"
    /\ signal
    /\ signal' = FALSE
    /\ popper' = "looking"
    /\ UNCHANGED <<items, pushing, ended, pushes>>

Leaves ==
    /\ popper = "waiting"
    /\ ended
    /\ popper' = "gone"
    /\ UNCHANGED <<items, signal, pushing, ended, pushes>>

ContextEnds ==
    /\ ~ended
    /\ ended' = TRUE
    /\ UNCHANGED <<items, signal, pushing, popper, pushes>>

Signals == \E p \in Pushers : Signal(p)
Pops    == CallsPop \/ TakesItem \/ FindsNothing \/ Woken

QueueNext ==
    \/ \E p \in Pushers : Push(p)
    \/ Signals \/ Pops \/ Leaves \/ ContextEnds

QueueSpec == QueueInit /\ [][QueueNext]_queueVars

-----------------------------------------------------------------------------
\* No lost wake-up: whenever the consumer waits for a signal although there
\* is an item, a signal is in the channel or a pusher is about to send one.
\* (Push signals after q.mu is released, and drops what does not fit.)
NoLostWakeup ==
    popper = "waiting" /\ items # <<>> => signal \/ pushing # {}

\* The queue is the sequence its users take it for: every item is taken, in
\* the order of the pushes, once, unless the consumer leaves first.
Sequence == INSTANCE Queue
              WITH content <- items, count <- pushes, open <- popper # "gone"

ImplementsSequence == Sequence!Spec
=============================================================================

------------------------------- MODULE Queue -------------------------------
(***************************************************************************)
(* What the runtime and the operation manager take an unbounded queue for: *)
(* a sequence that anyone appends to and that one consumer takes from,     *)
(* until the consumer leaves because its context has ended.  Module Fifo   *)
(* implements it; Session and Ops use it as it stands here.                *)
(***************************************************************************)
EXTENDS Naturals, Sequences

VARIABLES
    content,   \* what is in the queue; items are numbered as they come
    count,     \* how many have been appended
    open       \* whether the consumer still takes from it

queue == <<content, count, open>>

Init == content = <<>> /\ count = 0 /\ open = TRUE

Put ==
    /\ count' = count + 1
    /\ content' = Append(content, count')
    /\ UNCHANGED open

TakeHead ==
    /\ open
    /\ content # <<>>
    /\ content' = Tail(content)
    /\ UNCHANGED <<count, open>>

Leave == open /\ open' = FALSE /\ UNCHANGED <<content, count>>

Next == Put \/ TakeHead \/ Leave

\* The consumer is never stuck in front of an item.
Spec == Init /\ [][Next]_queue /\ WF_queue(TakeHead)
=============================================================================

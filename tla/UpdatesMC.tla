----------------------------- MODULE UpdatesMC -----------------------------
(***************************************************************************)
(* What the client is told and what it has chosen, for TLC: the text of    *)
(* the responses (TextUpdates), the tool calls (CallUpdates), the stored   *)
(* options (Metadata).  The first two share the actor and its queue, and   *)
(* none reads anything of another: one state space beside the other says   *)
(* as much as their product.                                               *)
(***************************************************************************)
EXTENDS TextUpdates, CallUpdates, Metadata

VARIABLE side    \* which of them a behaviour is about

vars == <<side, textVars, callVars, metaVars>>

\* The sides that do not run are in one of their initial states.
Init ==
    /\ side \in {"text", "calls", "options"}
    /\ TextInit /\ CallInit /\ MetaInit
    /\ side # "text"    => announces
    /\ side # "calls"   => log = <<>>
    /\ side # "options" => launch \in Offered

Runs(s) == side = s /\ side' = side

InText(step)    == Runs("text")    /\ step /\ UNCHANGED <<callVars, metaVars>>
InCalls(step)   == Runs("calls")   /\ step /\ UNCHANGED <<textVars, metaVars>>
InOptions(step) == Runs("options") /\ step /\ UNCHANGED <<textVars, callVars>>

Next == InText(TextNext) \/ InCalls(CallNext) \/ InOptions(MetaNext)

Spec == Init /\ [][Next]_vars
=============================================================================

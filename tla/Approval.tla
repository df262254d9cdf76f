--------------------------- MODULE Approval ---------------------------
(***************************************************************************)
(* What the operation manager promises of a tool operation, whoever calls  *)
(* it and in whatever order: it is held or decided once, one that was      *)
(* dropped (refused, cancelled before approval, or failed to start) never  *)
(* starts, and one that was allowed starts at most once.                   *)
(***************************************************************************)
CONSTANT Ops

VARIABLE fate

Init == fate = [o \in Ops |-> "new"]

Becomes(o, from, to) ==
    /\ fate[o] \in from
    /\ fate' = [fate EXCEPT ![o] = to]

Hold(o)  == Becomes(o, {"new"}, "held")
Allow(o) == Becomes(o, {"new", "held"}, "allowed")
Drop(o)  == Becomes(o, {"new", "held", "allowed"}, "dropped")
Start(o) == Becomes(o, {"allowed"}, "started")
End(o)   == Becomes(o, {"started"}, "ended")

Next == \E o \in Ops : Hold(o) \/ Allow(o) \/ Drop(o) \/ Start(o) \/ End(o)

Spec == Init /\ [][Next]_fate
=======================================================================

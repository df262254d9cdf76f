---------------------------- MODULE Mirror ----------------------------
(***************************************************************************)
(* internal/mirror: the coordinator's scheduling state, rebuilt from the   *)
(* items of the session log.  Two replicas exist in a runtime: "sync",     *)
(* folded on the coordinator's goroutine inside the store observer, and    *)
(* "am", folded by the actor goroutine when it handles the queued item.    *)
(*                                                                         *)
(* A mirror is a record.  The source keeps Reasons as a list beside a      *)
(* counter Pending; every reason is raised once and both are cleared       *)
(* together, so the set of reasons stands for both.  Of the operations a   *)
(* call waits for only "some are known" matters: Bash, the one tool with   *)
(* operations, starts exactly one operation per call.                      *)
(***************************************************************************)
EXTENDS Naturals

CONSTANTS
    Calls,      \* ids of the model's tool calls
    Inputs      \* ids of external inputs (prompts and steers)

ASSUME ReasonsAreDistinct == Calls \cap Inputs = {}

Reasons == Calls \cup Inputs

MirrorType ==
    [ reasons     : SUBSET Reasons,   \* what the next request would answer
      turnReasons : SUBSET Reasons,   \* what the newest request answers
      lastTurn    : Nat,
      inflight    : BOOLEAN,
      outstanding : SUBSET Calls,     \* calls whose operations have not all ended
      waiting     : SUBSET Calls ]    \* of these, the ones with known operations

New ==
    [ reasons |-> {}, turnReasons |-> {}, lastTurn |-> 0,
      inflight |-> FALSE, outstanding |-> {}, waiting |-> {} ]

(***************************************************************************)
(* The items of the log that a mirror reads.  A status says whether the    *)
(* call's operations were just created ("ready"), have all ended           *)
(* ("ended"), or could not be created at all ("error").                    *)
(***************************************************************************)
InputItem(id)          == [kind |-> "input", id |-> id]
TurnItem(n)            == [kind |-> "turn", turn |-> n]
ResponseItem(n, calls) == [kind |-> "response", turn |-> n, calls |-> calls]
StatusItem(c, status)  == [kind |-> "status", call |-> c, status |-> status]

Items == [kind : {"input"}, id : Inputs]
         \cup [kind : {"turn"}, turn : Nat]
         \cup [kind : {"response"}, turn : Nat, calls : SUBSET Calls]
         \cup [kind : {"status"}, call : Calls, status : {"ready", "ended", "error"}]

ApplyInput(m, id) == [m EXCEPT !.reasons = @ \cup {id}]

\* Mutant: the inputs a request answers stay pending.
ApplyTurnKeepsReasons(m, n) ==
    [m EXCEPT !.lastTurn = n, !.inflight = TRUE, !.turnReasons = m.reasons]

ApplyTurn(m, n) ==
    [m EXCEPT !.lastTurn = n, !.inflight = TRUE,
              !.turnReasons = m.reasons, !.reasons = {}]

ApplyResponse(m, n, calls) ==
    IF n = m.lastTurn
    THEN [m EXCEPT !.inflight = FALSE, !.outstanding = @ \cup calls]
    ELSE m

\* A call with no operations left to wait for becomes an input of the next
\* request; otherwise its operations are remembered.
ApplyStatus(m, c, status) ==
    IF c \notin m.outstanding THEN m
    ELSE IF status = "ready" THEN [m EXCEPT !.waiting = @ \cup {c}]
    ELSE [m EXCEPT !.outstanding = @ \ {c}, !.waiting = @ \ {c},
                   !.reasons = @ \cup {c}]

Apply(m, item) ==
    CASE item.kind = "input"    -> ApplyInput(m, item.id)
      [] item.kind = "turn"     -> ApplyTurn(m, item.turn)
      [] item.kind = "response" -> ApplyResponse(m, item.turn, item.calls)
      [] item.kind = "status"   -> ApplyStatus(m, item.call, item.status)

Quiescent(m) == ~m.inflight /\ m.reasons = {} /\ m.outstanding = {}

\* Sync.Calls: running, or finished and waiting for the next request.
CallsOf(m) == m.outstanding \cup (m.reasons \cap Calls)
=======================================================================

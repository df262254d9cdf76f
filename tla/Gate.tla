----------------------------- MODULE Gate -----------------------------
(***************************************************************************)
(* internal/gate: the decorator between the coordinator and the provider.  *)
(* It mutes requests that only answer what was parked, lets the client     *)
(* stop the request in flight, and answers provider failures empty.        *)
(*                                                                         *)
(* A request is identified by the coordinator's turn number; the Gate's    *)
(* own sequence number is only ever compared for identity.  Respond is two *)
(* steps, with the provider's work in between:                             *)
(*   Enter   reads the reasons, and under g.mu mutes, or unparks and       *)
(*           registers the request as the one in flight;                   *)
(*   Return  the provider has answered or failed: under g.mu the request   *)
(*           is taken out of flight, then Respond decides what the         *)
(*           coordinator is told.                                          *)
(* The standalone specification at the end is the Gate under any           *)
(* coordinator that keeps to one live request.  Session composes the same  *)
(* actions with the runtime.                                               *)
(***************************************************************************)
EXTENDS Mirror

CONSTANTS
    Requests,     \* request identities
    None

ASSUME NoneIsNoRequest == None \notin Requests

VARIABLES
    parked,        \* g.parked
    parkedReasons, \* g.parkedCalls and g.parkedInputs
    inflight,      \* g.inflightCancel # nil
    inflightSeq,   \* g.inflightSeq, the newest request sent
    userStop,      \* g.userStop
    stage,         \* where the goroutine of each Respond is
    superseded,    \* requests whose ctx the coordinator has cancelled
    outcome        \* what each Respond returned

gateVars == <<parked, parkedReasons, inflight, inflightSeq, userStop,
              stage, superseded, outcome>>

Stages   == {"idle", "called", "provider", "answered"}
Outcomes == {"none", "muted", "dropped", "cancelled", "errored", "provider"}

GateTypeOK ==
    /\ parked \in BOOLEAN
    /\ parkedReasons \in SUBSET Reasons
    /\ inflight \in BOOLEAN
    /\ inflightSeq \in Requests \cup {None}
    /\ userStop \in Requests \cup {None}
    /\ stage \in [Requests -> Stages]
    /\ superseded \in SUBSET Requests
    /\ outcome \in [Requests -> Outcomes]

GateInit ==
    /\ parked = FALSE
    /\ parkedReasons = {}
    /\ inflight = FALSE
    /\ inflightSeq = None
    /\ userStop = None
    /\ stage = [n \in Requests |-> "idle"]
    /\ superseded = {}
    /\ outcome = [n \in Requests |-> "none"]

Live(n) == stage[n] \in {"called", "provider"} /\ n \notin superseded
-----------------------------------------------------------------------
(* What the runtime does to the Gate.                                      *)

Park(reasons) ==
    /\ parked' = TRUE
    /\ parkedReasons' = parkedReasons \cup reasons
    /\ UNCHANGED <<inflight, inflightSeq, userStop, stage, superseded, outcome>>

\* Without a registered cancel function the call does nothing.
CancelInflight ==
    /\ userStop' = IF inflight THEN inflightSeq ELSE userStop
    /\ UNCHANGED <<parked, parkedReasons, inflight, inflightSeq, stage,
                   superseded, outcome>>
-----------------------------------------------------------------------
(* What the coordinator does: it starts a goroutine in Respond, and it     *)
(* cancels the ctx of a request that newer input replaces.                 *)

Call(n) ==
    /\ stage[n] = "idle"
    /\ stage' = [stage EXCEPT ![n] = "called"]
    /\ UNCHANGED <<parked, parkedReasons, inflight, inflightSeq, userStop,
                   superseded, outcome>>

Supersede(n) ==
    /\ superseded' = superseded \cup {n}
    /\ UNCHANGED <<parked, parkedReasons, inflight, inflightSeq, userStop,
                   stage, outcome>>
-----------------------------------------------------------------------
(* Respond.                                                                *)

Muted(reasons) == parked /\ reasons \subseteq parkedReasons

EnterMuted(n, reasons) ==
    /\ stage[n] = "called"
    /\ Muted(reasons)
    /\ stage' = [stage EXCEPT ![n] = "answered"]
    /\ outcome' = [outcome EXCEPT ![n] = "muted"]
    /\ UNCHANGED <<parked, parkedReasons, inflight, inflightSeq, userStop,
                   superseded>>

EnterProvider(n, reasons) ==
    /\ stage[n] = "called"
    /\ ~Muted(reasons)
    /\ parked' = FALSE
    /\ parkedReasons' = {}
    /\ inflight' = TRUE
    /\ inflightSeq' = n
    /\ stage' = [stage EXCEPT ![n] = "provider"]
    /\ UNCHANGED <<userStop, superseded, outcome>>

\* Mutant: a failure comes before the client's stop.
ErrorFirst(n, failed) ==
    IF n \in superseded THEN "dropped"
    ELSE IF failed THEN "errored"
    ELSE IF userStop = n THEN "cancelled"
    ELSE "provider"

\* The order of the switch: superseded, stopped by the client, failed.
Verdict(n, failed) ==
    IF n \in superseded THEN "dropped"
    ELSE IF userStop = n THEN "cancelled"
    ELSE IF failed THEN "errored"
    ELSE "provider"

\* Mutant: the answered request stays registered.
ReturnRegistered(n, failed) ==
    /\ stage[n] = "provider"
    /\ stage' = [stage EXCEPT ![n] = "answered"]
    /\ outcome' = [outcome EXCEPT ![n] = Verdict(n, failed)]
    /\ UNCHANGED <<parked, parkedReasons, inflight, inflightSeq, userStop,
                   superseded>>

\* failed: the provider gave an error, its own or that of a cancelled ctx.
Return(n, failed) ==
    /\ stage[n] = "provider"
    /\ inflight' = FALSE
    /\ stage' = [stage EXCEPT ![n] = "answered"]
    /\ outcome' = [outcome EXCEPT ![n] = Verdict(n, failed)]
    /\ UNCHANGED <<parked, parkedReasons, inflightSeq, userStop, superseded>>
-----------------------------------------------------------------------
(* The Gate alone, under any coordinator that starts a request only when   *)
(* the one before is answered or superseded.                               *)

Start(n) == (\A m \in Requests : ~Live(m)) /\ Call(n)

Replace(n) == stage[n] # "idle" /\ n \notin superseded /\ Supersede(n)

GateNext ==
    \/ \E reasons \in SUBSET Reasons : Park(reasons)
    \/ CancelInflight
    \/ \E n \in Requests :
          \/ Start(n)
          \/ Replace(n)
          \/ \E reasons \in SUBSET Reasons :
                EnterMuted(n, reasons) \/ EnterProvider(n, reasons)
          \/ \E failed \in BOOLEAN : Return(n, failed)

GateSpec == GateInit /\ [][GateNext]_gateVars
-----------------------------------------------------------------------
(* Properties.                                                             *)

\* The cancel function the Gate holds belongs to a request still at the
\* provider: a cancel never hits a request that was already answered, whose
\* sequence number would then linger in userStop.  (gate.go:209, 222)
InflightIsAtProvider == inflight => inflightSeq # None /\ stage[inflightSeq] = "provider"

\* A request the client stopped is answered "cancelled", with the text so
\* far; it is never reported as a provider failure and its tool calls never
\* reach the coordinator, even when the provider's answer or error arrived
\* just before the stop.  Only the coordinator's own replacement comes first.
\* (gate.go:223, 239-256)
StoppedIsNeverAFailure ==
    \A n \in Requests :
        userStop = n /\ stage[n] = "answered" => outcome[n] \in {"cancelled", "dropped"}
=======================================================================

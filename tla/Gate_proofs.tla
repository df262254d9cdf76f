-------------------------- MODULE Gate_proofs --------------------------
(***************************************************************************)
(* Proofs about the Gate under any coordinator that keeps to one live      *)
(* request (GateSpec), and about the mirror operators it rests on.         *)
(*                                                                         *)
(* Neither safety property is inductive: that a stopped request is never   *)
(* reported as a failure also needs that the one userStop names has been   *)
(* sent, since a muted request is answered without looking at userStop.    *)
(***************************************************************************)
EXTENDS Gate, TLAPS

StopIsOfASentRequest ==
    userStop # None => stage[userStop] \in {"provider", "answered"}

GateIInv ==
    /\ GateTypeOK
    /\ InflightIsAtProvider
    /\ StopIsOfASentRequest
    /\ StoppedIsNeverAFailure

-----------------------------------------------------------------------
(* The Gate starts in the invariant and every step of it preserves it.     *)

\* What Respond returns is one of the known outcomes.
LEMMA VerdictType ==
    ASSUME NEW n \in Requests, NEW failed
    PROVE  Verdict(n, failed) \in Outcomes
BY DEF Verdict, Outcomes

\* A Gate that was just made satisfies the invariant.
LEMMA GateInitIInv == GateInit => GateIInv
BY NoneIsNoRequest DEF GateInit, GateIInv, GateTypeOK, InflightIsAtProvider,
   StopIsOfASentRequest, StoppedIsNeverAFailure, Stages, Outcomes

\* Each operation keeps the types, whoever calls it.
LEMMA ParkType ==
    ASSUME GateTypeOK, NEW reasons \in SUBSET Reasons, Park(reasons)
    PROVE  GateTypeOK'
BY DEF GateTypeOK, Park

\* The client's stop keeps the types.
LEMMA CancelInflightType == GateTypeOK /\ CancelInflight => GateTypeOK'
BY DEF GateTypeOK, CancelInflight

\* The coordinator's call keeps the types.
LEMMA CallType ==
    ASSUME GateTypeOK, NEW n, Call(n)
    PROVE  GateTypeOK'
BY DEF GateTypeOK, Call, Stages

\* A replacement keeps the types.
LEMMA SupersedeType ==
    ASSUME GateTypeOK, NEW n \in Requests, Supersede(n)
    PROVE  GateTypeOK'
BY DEF GateTypeOK, Supersede

\* Entering Respond keeps the types, muted or not.
LEMMA EnterType ==
    ASSUME GateTypeOK, NEW n \in Requests, NEW reasons,
           EnterMuted(n, reasons) \/ EnterProvider(n, reasons)
    PROVE  GateTypeOK'
BY DEF GateTypeOK, EnterMuted, EnterProvider, Stages, Outcomes

\* Leaving Respond keeps the types.
LEMMA ReturnType ==
    ASSUME GateTypeOK, NEW n \in Requests, NEW failed, Return(n, failed)
    PROVE  GateTypeOK'
BY VerdictType DEF GateTypeOK, Return, Stages

\* Every step of the Gate keeps its type.
LEMMA GateTypeStep == GateTypeOK /\ [GateNext]_gateVars => GateTypeOK'
<1> SUFFICES ASSUME GateTypeOK, [GateNext]_gateVars PROVE GateTypeOK'
  OBVIOUS
<1>1. CASE UNCHANGED gateVars
  BY <1>1 DEF gateVars, GateTypeOK
<1> QED
  BY <1>1, ParkType, CancelInflightType, CallType, SupersedeType, EnterType,
     ReturnType DEF GateNext, Start, Replace

\* The registered cancel function is the one of a request at the provider.
LEMMA InflightStep ==
    GateTypeOK /\ InflightIsAtProvider /\ [GateNext]_gateVars => InflightIsAtProvider'
<1> SUFFICES ASSUME GateTypeOK, InflightIsAtProvider, [GateNext]_gateVars
             PROVE  InflightIsAtProvider'
  OBVIOUS
<1> USE NoneIsNoRequest DEF GateTypeOK, InflightIsAtProvider
<1>1. ASSUME NEW reasons \in SUBSET Reasons, Park(reasons)
      PROVE  InflightIsAtProvider'
  BY <1>1 DEF Park
<1>2. CASE CancelInflight
  BY <1>2 DEF CancelInflight
<1>3. ASSUME NEW n \in Requests, Start(n) PROVE InflightIsAtProvider'
  BY <1>3 DEF Start, Call
<1>4. ASSUME NEW n \in Requests, Replace(n) PROVE InflightIsAtProvider'
  BY <1>4 DEF Replace, Supersede
<1>5. ASSUME NEW n \in Requests, NEW reasons \in SUBSET Reasons,
             EnterMuted(n, reasons)
      PROVE  InflightIsAtProvider'
  BY <1>5 DEF EnterMuted
<1>6. ASSUME NEW n \in Requests, NEW reasons \in SUBSET Reasons,
             EnterProvider(n, reasons)
      PROVE  InflightIsAtProvider'
  BY <1>6 DEF EnterProvider
<1>7. ASSUME NEW n \in Requests, NEW failed \in BOOLEAN, Return(n, failed)
      PROVE  InflightIsAtProvider'
  BY <1>7 DEF Return
<1>8. CASE UNCHANGED gateVars
  BY <1>8 DEF gateVars
<1> QED
  BY <1>1, <1>2, <1>3, <1>4, <1>5, <1>6, <1>7, <1>8 DEF GateNext

\* userStop names a request that was sent, and the one it names is answered
\* as a stopped request.
LEMMA StopStep ==
    GateIInv /\ [GateNext]_gateVars => StopIsOfASentRequest' /\ StoppedIsNeverAFailure'
<1> DEFINE Stop == StopIsOfASentRequest /\ StoppedIsNeverAFailure
<1> SUFFICES ASSUME GateIInv, [GateNext]_gateVars PROVE Stop'
  OBVIOUS
<1> USE NoneIsNoRequest DEF GateIInv, GateTypeOK, StopIsOfASentRequest,
        StoppedIsNeverAFailure
<1>1. ASSUME NEW reasons \in SUBSET Reasons, Park(reasons) PROVE Stop'
  BY <1>1 DEF Park
<1>2. CASE CancelInflight
  BY <1>2 DEF CancelInflight, InflightIsAtProvider
<1>3. ASSUME NEW n \in Requests, Start(n) PROVE Stop'
  BY <1>3 DEF Start, Call
<1>4. ASSUME NEW n \in Requests, Replace(n) PROVE Stop'
  BY <1>4 DEF Replace, Supersede
<1>5. ASSUME NEW n \in Requests, NEW reasons \in SUBSET Reasons,
             EnterMuted(n, reasons)
      PROVE  Stop'
  BY <1>5 DEF EnterMuted
<1>6. ASSUME NEW n \in Requests, NEW reasons \in SUBSET Reasons,
             EnterProvider(n, reasons)
      PROVE  Stop'
  BY <1>6 DEF EnterProvider
<1>7. ASSUME NEW n \in Requests, NEW failed \in BOOLEAN, Return(n, failed)
      PROVE  Stop'
  BY <1>7 DEF Return, Verdict
<1>8. CASE UNCHANGED gateVars
  BY <1>8 DEF gateVars
<1> QED
  BY <1>1, <1>2, <1>3, <1>4, <1>5, <1>6, <1>7, <1>8 DEF GateNext

\* The conjunction is inductive.
LEMMA GateStepIInv == GateIInv /\ [GateNext]_gateVars => GateIInv'
BY GateTypeStep, InflightStep, StopStep DEF GateIInv

-----------------------------------------------------------------------
(* Theorems.                                                               *)

\* The Gate's invariant, for any set of calls, inputs and requests.
THEOREM GateInvariant == GateSpec => []GateIInv
BY GateInitIInv, GateStepIInv, PTL DEF GateSpec

\* Type correctness of the Gate.
THEOREM GateTypeCorrect == GateSpec => []GateTypeOK
<1>1. GateIInv => GateTypeOK
  BY DEF GateIInv
<1> QED
  BY <1>1, GateInvariant, PTL

\* A cancel never hits a request that was already answered.
THEOREM GateCancelsWhatIsAtTheProvider == GateSpec => []InflightIsAtProvider
<1>1. GateIInv => InflightIsAtProvider
  BY DEF GateIInv
<1> QED
  BY <1>1, GateInvariant, PTL

\* A request the client stopped is never reported as a provider failure.
THEOREM GateStopIsNoFailure == GateSpec => []StoppedIsNeverAFailure
<1>1. GateIInv => StoppedIsNeverAFailure
  BY DEF GateIInv
<1> QED
  BY <1>1, GateInvariant, PTL
=======================================================================

-------------------------- MODULE Coordinator --------------------------
(***************************************************************************)
(* The coordinator of the Unreal Agent library, which is not part of this  *)
(* repository.  It is modelled from the rules internal/mirror records of   *)
(* it and from how internal/runtime uses it: the model is called iff       *)
(* inputs are pending and no request is in flight; an external input that  *)
(* arrives during a request replaces it; a finished tool call is an input  *)
(* of the next request; a result that is not the current turn's is         *)
(* dropped; a call's status is appended before its operation is handed to  *)
(* the operation manager; store observers run on the coordinator's         *)
(* goroutine, one item at a time, before it goes on.                       *)
(*                                                                         *)
(* It keeps its own scheduling state, so that a mirror can be compared     *)
(* with it.                                                                *)
(***************************************************************************)
EXTENDS Mirror, Sequences

VARIABLES
    inbox,     \* inputs submitted and not yet read, in order
    accepted,  \* input ids the inbox has seen: a second submit is ignored
    todo,      \* pending inputs of the next request
    current,   \* the turn whose request is in flight, 0 if there is none
    turns,     \* number of turns started
    running,   \* tool calls with operations that have not all ended
    fresh,     \* calls of the last response, not yet translated
    appended,  \* the item whose observers are still to run: <<>> or <<item>>
    adding     \* the call whose operation is being added: {} or {call}

coordVars == <<inbox, accepted, todo, current, turns, running, fresh,
               appended, adding>>

CoordTypeOK ==
    /\ inbox \in Seq(Inputs)
    /\ accepted \subseteq Inputs
    /\ todo \subseteq Reasons
    /\ current \in Nat
    /\ turns \in Nat
    /\ running \subseteq Calls
    /\ fresh \subseteq Calls
    /\ appended \in Seq(Items) /\ Len(appended) <= 1
    /\ adding \subseteq Calls

CoordInit ==
    /\ inbox = <<>>
    /\ accepted = {}
    /\ todo = {}
    /\ current = 0
    /\ turns = 0
    /\ running = {}
    /\ fresh = {}
    /\ appended = <<>>
    /\ adding = {}

Free == appended = <<>> /\ adding = {}

\* Inbox.Submit, called by the runtime.  Ids are deduplicated.
SubmitInput(id) ==
    /\ inbox' = IF id \in accepted THEN inbox ELSE Append(inbox, id)
    /\ accepted' = accepted \cup {id}
    /\ UNCHANGED <<todo, current, turns, running, fresh, appended, adding>>

TakeInput ==
    /\ Free /\ fresh = {} /\ inbox # <<>>
    /\ inbox' = Tail(inbox)
    /\ todo' = todo \cup {Head(inbox)}
    /\ appended' = <<InputItem(Head(inbox))>>
    /\ UNCHANGED <<accepted, current, turns, running, fresh, adding>>

StartTurn ==
    /\ Free /\ fresh = {} /\ todo # {}
    /\ current = 0 \/ todo \cap Inputs # {}
    /\ turns' = turns + 1
    /\ current' = turns + 1
    /\ todo' = {}
    /\ appended' = <<TurnItem(turns + 1)>>
    /\ UNCHANGED <<inbox, accepted, running, fresh, adding>>

\* The result of turn n, carrying these tool calls.
TakeResult(n, calls) ==
    /\ Free /\ fresh = {}
    /\ current = n
    /\ current' = 0
    /\ running' = running \cup calls
    /\ fresh' = calls
    /\ appended' = <<ResponseItem(n, calls)>>
    /\ UNCHANGED <<inbox, accepted, todo, turns, adding>>

\* The call's operation is created, or cannot be.
TranslateCall(c, status) ==
    /\ Free /\ c \in fresh
    /\ status \in {"ready", "error"}
    /\ fresh' = fresh \ {c}
    /\ IF status = "ready"
       THEN UNCHANGED <<todo, running>>
       ELSE todo' = todo \cup {c} /\ running' = running \ {c}
    /\ appended' = <<StatusItem(c, status)>>
    /\ UNCHANGED <<inbox, accepted, current, turns, adding>>

\* The last update of the call's operation arrives.
FinishCall(c) ==
    /\ Free /\ fresh = {} /\ c \in running
    /\ running' = running \ {c}
    /\ todo' = todo \cup {c}
    /\ appended' = <<StatusItem(c, "ended")>>
    /\ UNCHANGED <<inbox, accepted, current, turns, fresh, adding>>

\* The observers have run.  An operation that was created is added next.
ObserversDone ==
    /\ appended # <<>>
    /\ LET item == Head(appended) IN
       adding' = IF item.kind = "status" /\ item.status = "ready"
                 THEN {item.call} ELSE {}
    /\ appended' = <<>>
    /\ UNCHANGED <<inbox, accepted, todo, current, turns, running, fresh>>

OperationAdded ==
    /\ adding' = {}
    /\ UNCHANGED <<inbox, accepted, todo, current, turns, running, fresh,
                   appended>>
=======================================================================

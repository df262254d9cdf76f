---------------------------- MODULE TextUpdates ----------------------------
(***************************************************************************)
(* The text of the responses, as the client of one session sees it live    *)
(* and as the log has it for a session/load. (internal/tap; internal/gate  *)
(* ObserveDelta and what Respond returns; internal/runtime onDelta,        *)
(* projectDelta, liveMessageID, projectLive; internal/project MessageID)   *)
(*                                                                         *)
(* The goroutine of each request tees the provider's stream into the Gate  *)
(* and into the actor's queue, one HTTP attempt after another.  The        *)
(* coordinator logs what a request returned, and its observer queues it    *)
(* for the actor, which alone speaks to the client.                        *)
(*                                                                         *)
(* A piece of text is <<attempt, number>>.  A response id is the request   *)
(* and a key: the attempt whose id it is, Own for one that the Gate made   *)
(* up, Unannounced for the actor's own id of a stream without one.         *)
(* Left out: thoughts, which stream the same way but of which the Gate     *)
(* keeps none for a cancelled request; muted requests, which say nothing   *)
(* (module Gate); usage, wording, splitting and redaction.                 *)
(***************************************************************************)
EXTENDS Naturals, Sequences

CONSTANTS
    MaxRequests,   \* bound: requests
    MaxAttempts,   \* --max-attempts
    MaxPieces,     \* bound: pieces of text of an attempt
    MaxTextLag     \* bound: events the actor has not handled yet

ASSUME TextAssumption ==
    /\ MaxRequests \in Nat /\ MaxAttempts \in Nat \ {0}
    /\ MaxPieces \in Nat /\ MaxTextLag \in Nat

Requests    == 1 .. MaxRequests
Own         == 0
Unannounced == MaxAttempts + 1
Keys        == 0 .. Unannounced
NoOne       == 0

VARIABLES
    announces,    \* whether the provider announces its response ids
    stage,        \* how far each request is
    dropped,      \* the requests the coordinator has replaced
    attempt,      \* the HTTP attempt of each
    pieces,       \* pieces of text the attempt has streamed
    created,      \* g.created: the attempt whose id was announced last, or 0
    partial,      \* g.partial, the text of the last attempt that had any
    newest,       \* g.inflightSeq
    registered,   \* whether CancelInflight would stop it: g.inflightCancel # nil
    userStop,     \* g.userStop
    result,       \* what a request has returned: an id and a text
    logged,       \* the requests whose result is in the log
    textEvents,   \* r.events
    streamed,     \* r.streamedText
    liveKey,      \* r.responseKey, 0 for none
    behind,       \* requests of which the actor has dropped a piece: ghost
    shown         \* the text the actor has sent, per request and key

gateVars  == <<announces, stage, dropped, attempt, pieces, created, partial,
               newest, registered, userStop, result, logged>>
actorVars == <<streamed, liveKey, behind, shown>>
textVars  == <<gateVars, textEvents, actorVars>>

NoResult == [text |-> <<>>, key |-> Own]

TextInit ==
    /\ announces \in BOOLEAN
    /\ stage = [n \in Requests |-> "none"]
    /\ dropped = {} /\ logged = {}
    /\ attempt = [n \in Requests |-> 0] /\ pieces = [n \in Requests |-> 0]
    /\ created = [n \in Requests |-> 0] /\ partial = [n \in Requests |-> <<>>]
    /\ newest = NoOne /\ registered = FALSE /\ userStop = NoOne
    /\ result = [n \in Requests |-> NoResult]
    /\ textEvents = <<>>
    /\ streamed = {} /\ behind = {}
    /\ liveKey = [n \in Requests |-> 0]
    /\ shown = [n \in Requests |-> [k \in Keys |-> <<>>]]

PushText(e) ==
    /\ Len(textEvents) < MaxTextLag
    /\ textEvents' = Append(textEvents, e)

-----------------------------------------------------------------------------
(* A request, from the coordinator's call to its result in the log.        *)

Goes(n, to) == stage' = [stage EXCEPT ![n] = to]
Over(n)     == n \in dropped \cup logged

CallsModel(n) ==
    /\ stage[n] = "none"
    /\ \A m \in 1 .. n - 1 : Over(m)
    /\ Goes(n, "called")
    /\ UNCHANGED <<announces, dropped, attempt, pieces, created, partial, newest,
                   registered, userStop, result, logged, textEvents, actorVars>>

\* Every RoundTrip counts itself.
FirstAttemptUncounted == 0

FirstAttempt == 1

\* Respond registers the request, which is then the newest even when it was
\* replaced before; the first attempt is made.
Enters(n) ==
    /\ stage[n] = "called"
    /\ Goes(n, "provider")
    /\ newest' = n /\ registered' = TRUE
    /\ attempt' = [attempt EXCEPT ![n] = FirstAttempt]
    /\ UNCHANGED <<announces, dropped, pieces, created, partial, userStop, result, logged,
                   textEvents, actorVars>>

\* response.created comes before the text of its attempt.
IsAnnounced(n) == announces => created[n] = attempt[n]

Announces(n) ==
    /\ stage[n] = "provider" /\ ~IsAnnounced(n)
    /\ created' = [created EXCEPT ![n] = attempt[n]]
    /\ PushText([kind |-> "created", req |-> n, attempt |-> attempt[n]])
    /\ UNCHANGED <<announces, stage, dropped, attempt, pieces, partial, newest, registered,
                   userStop, result, logged, actorVars>>

\* A text delta: ObserveDelta, which starts over when the attempt is another
\* than that of the text it has, and the push.
Piece(n) == <<attempt[n], pieces[n] + 1>>

KeptFromAllAttempts(n) == Append(partial[n], Piece(n))

Kept(n) ==
    IF partial[n] # <<>> /\ partial[n][1][1] = attempt[n]
    THEN Append(partial[n], Piece(n)) ELSE <<Piece(n)>>

Streams(n) ==
    /\ stage[n] = "provider" /\ IsAnnounced(n)
    /\ pieces[n] < MaxPieces
    /\ pieces' = [pieces EXCEPT ![n] = @ + 1]
    /\ partial' = [partial EXCEPT ![n] = Kept(n)]
    /\ PushText([kind |-> "text", req |-> n, piece |-> Piece(n)])
    /\ UNCHANGED <<announces, stage, dropped, attempt, created, newest, registered, userStop,
                   result, logged, actorVars>>

\* The adapter makes another attempt, unless it sees that its ctx has ended.
Retries(n) ==
    /\ stage[n] = "provider" /\ attempt[n] < MaxAttempts
    /\ n # userStop /\ n \notin dropped
    /\ attempt' = [attempt EXCEPT ![n] = @ + 1]
    /\ pieces' = [pieces EXCEPT ![n] = 0]
    /\ UNCHANGED <<announces, stage, dropped, created, partial, newest, registered, userStop,
                   result, logged, textEvents, actorVars>>

AttemptText(n) == [k \in 1 .. pieces[n] |-> <<attempt[n], k>>]

\* What Respond makes of the end of its request: an error, or an id and a
\* text.  Nobody reads the result of a request that was replaced.
Verdicts(n) ==
    IF n = userStop
    THEN {[text |-> partial[n], key |-> created[n]]}
    ELSE {NoResult} \cup
         (IF IsAnnounced(n) THEN {[text |-> AttemptText(n), key |-> attempt[n]]} ELSE {})

Returns(n) ==
    /\ stage[n] = "provider"
    /\ Goes(n, "returned")
    /\ registered' = FALSE
    /\ partial' = [partial EXCEPT ![n] = <<>>]
    /\ created' = [created EXCEPT ![n] = 0]
    /\ \E r \in Verdicts(n) : result' = [result EXCEPT ![n] = r]
    /\ UNCHANGED <<announces, dropped, attempt, pieces, newest, userStop, logged, textEvents,
                   actorVars>>

\* An interrupting steer: the coordinator drops the request for a newer one.
Replaces(n) ==
    /\ stage[n] \in {"called", "provider", "returned"} /\ ~Over(n)
    /\ dropped' = dropped \cup {n}
    /\ UNCHANGED <<announces, stage, attempt, pieces, created, partial, newest, registered,
                   userStop, result, logged, textEvents, actorVars>>

\* The coordinator appends the result, and its observer queues it.
Logs(n) ==
    /\ stage[n] = "returned" /\ ~Over(n)
    /\ logged' = logged \cup {n}
    /\ PushText([kind |-> "response", req |-> n])
    /\ UNCHANGED <<announces, stage, dropped, attempt, pieces, created, partial, newest,
                   registered, userStop, result, actorVars>>

\* CancelInflight, once (bound).
Cancels ==
    /\ registered /\ userStop = NoOne
    /\ userStop' = newest
    /\ UNCHANGED <<announces, stage, dropped, attempt, pieces, created, partial, newest,
                   registered, result, logged, textEvents, actorVars>>

-----------------------------------------------------------------------------
(* The actor.                                                              *)

HandlesText(kind) ==
    /\ textEvents # <<>> /\ Head(textEvents).kind = kind
    /\ textEvents' = Tail(textEvents)
    /\ UNCHANGED gateVars

HandleCreated ==
    /\ HandlesText("created")
    /\ LET e == Head(textEvents)
       IN  liveKey' = IF e.req = newest THEN [liveKey EXCEPT ![e.req] = e.attempt]
                      ELSE liveKey
    /\ UNCHANGED <<streamed, behind, shown>>

LiveKey(n) == IF liveKey[n] = 0 THEN Unannounced ELSE liveKey[n]

\* A piece of a request that is not the newest any more is not shown.
HandleText ==
    /\ HandlesText("text")
    /\ LET e == Head(textEvents)
           n == e.req
       IN  IF n = newest
           THEN /\ shown' = [shown EXCEPT ![n][LiveKey(n)] = Append(@, e.piece)]
                /\ liveKey' = [liveKey EXCEPT ![n] = LiveKey(n)]
                /\ streamed' = streamed \cup {n}
                /\ UNCHANGED behind
           ELSE behind' = behind \cup {n} /\ UNCHANGED <<shown, liveKey, streamed>>

UnsaidAlways(n) == result[n].text

\* The text of a logged response is sent now if none of it was streamed.
Unsaid(n) == IF n \in streamed THEN <<>> ELSE result[n].text

HandleResponse ==
    /\ HandlesText("response")
    /\ LET n == Head(textEvents).req
       IN  /\ shown' = [shown EXCEPT ![n][result[n].key] = @ \o Unsaid(n)]
           /\ streamed' = streamed \ {n}
           /\ liveKey' = [liveKey EXCEPT ![n] = 0]
    /\ UNCHANGED behind

-----------------------------------------------------------------------------
TextRequest(n) ==
    \/ CallsModel(n) \/ Enters(n) \/ Announces(n) \/ Streams(n) \/ Retries(n)
    \/ Returns(n) \/ Replaces(n) \/ Logs(n)

TextActor == HandleCreated \/ HandleText \/ HandleResponse

TextNext == (\E n \in Requests : TextRequest(n)) \/ Cancels \/ TextActor

TextSpec == TextInit /\ [][TextNext]_textVars

-----------------------------------------------------------------------------
(* Properties. *)

Pieces == (1 .. MaxAttempts) \X (1 .. MaxPieces)
Texts  == Seq(Pieces)
TextEvents ==
    [kind : {"created"}, req : Requests, attempt : 1 .. MaxAttempts]
    \cup [kind : {"text"}, req : Requests, piece : Pieces]
    \cup [kind : {"response"}, req : Requests]

\* Types of the state.
TextTypeOK ==
    /\ announces \in BOOLEAN
    /\ stage \in [Requests -> {"none", "called", "provider", "returned"}]
    /\ dropped \in SUBSET Requests /\ logged \in SUBSET Requests
    /\ attempt \in [Requests -> 0 .. MaxAttempts] /\ created \in [Requests -> 0 .. MaxAttempts]
    /\ pieces \in [Requests -> 0 .. MaxPieces]
    /\ partial \in [Requests -> Texts]
    /\ newest \in 0 .. MaxRequests /\ registered \in BOOLEAN
    /\ userStop \in 0 .. MaxRequests
    /\ result \in [Requests -> [text : Texts, key : Keys]]
    /\ textEvents \in Seq(TextEvents)
    /\ streamed \in SUBSET Requests /\ behind \in SUBSET Requests
    /\ liveKey \in [Requests -> Keys]
    /\ shown \in [Requests -> [Keys -> Texts]]

\* No piece of text is shown twice, over all the messages of a request: what
\* has streamed is not sent again when its response is logged.
SaidOnce ==
    \A n \in Requests : \A k, l \in Keys :
        \A i \in 1 .. Len(shown[n][k]), j \in 1 .. Len(shown[n][l]) :
            shown[n][k][i] = shown[n][l][j] => k = l /\ i = j

IsBeginningOf(s, t) == Len(s) <= Len(t) /\ s = SubSeq(t, 1, Len(s))

\* The attempt that a logged text comes from, under whose id it streamed.
Source(r) == IF r.text = <<>> THEN r.key ELSE r.text[1][1]

IsHandled(n) ==
    /\ n \in logged
    /\ \A i \in 1 .. Len(textEvents) : textEvents[i] # [kind |-> "response", req |-> n]

\* "The live stream and a session/load replay use the same id for the same
\* message", and have the same text under it, when the provider announces
\* its ids.  Two exceptions.  The actor drops what it handles after another
\* request has entered Respond (behind): the client has seen a beginning of
\* the text, or all of it under the logged id.  A cancel before the first text
\* of a second attempt leaves the first one's text under the second one's id.
\* LiveIsLogged, which does not hold, is the sentence without them.
LiveIsReplay ==
    announces => \A n \in Requests : IsHandled(n) =>
        LET r    == result[n]
            live == shown[n][Source(r)]
        IN  /\ live = r.text \/ (n \in behind /\ IsBeginningOf(live, r.text))
            /\ Source(r) # r.key => n = userStop /\ Source(r) < r.key

\* README.md:104: "The live stream and a session/load replay therefore use the
\* same id for the same message".  The message that the client has seen under a
\* logged id is the logged one, when the provider announces its ids.
LiveIsLogged ==
    announces => \A n \in Requests :
        IsHandled(n) => shown[n][result[n].key] = result[n].text
=============================================================================

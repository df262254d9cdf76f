--------------------------- MODULE Updates_proofs ---------------------------
(***************************************************************************)
(* Proofs about what the client is told: the text of the responses, for    *)
(* any number of requests, attempts and pieces and any queue, and then the *)
(* tool calls, for any calls, any queue and any loads.                     *)
(*                                                                         *)
(* That the text shown live is the one that is logged is a statement about *)
(* what a long stream adds up to.  It needs no induction over the stream,  *)
(* because the invariant speaks of single pieces: what is shown of an      *)
(* attempt has the pieces 1, 2, ... in this order (Runs); what the Gate    *)
(* keeps, or a request has returned, is of one attempt, and each of its    *)
(* pieces is shown or in the queue (Reaches), and nothing beyond it is     *)
(* (Exceeds).  When the actor comes to the response nothing is queued of   *)
(* its request any more (LastInv, OrderInv), so the two have the same      *)
(* length.  That a piece is shown under the id of its attempt is KeyInv:   *)
(* that id is the actor's key, or it is queued before the piece.           *)
(*                                                                         *)
(* Of the calls, three facts carry the invariant: a call that is marked as *)
(* announced was told the client or is in the hand of the one who marked   *)
(* it; a call that is reported has its final update, or the actor still    *)
(* owes it; a call that has ended is reported, or its status is in the     *)
(* actor's queue.                                                          *)
(***************************************************************************)
EXTENDS TextUpdates, CallUpdates, TLAPS

\* The first pieces of an attempt.
Run(a, m) == [k \in 1 .. m |-> <<a, k>>]

Earlier(p, q) == p[1] < q[1] \/ (p[1] = q[1] /\ p[2] < q[2])
Said(n, p)    == p[1] < attempt[n] \/ (p[1] = attempt[n] /\ p[2] <= pieces[n])

Queue == 1 .. Len(textEvents)

QueuesText(i, n)     == textEvents[i].kind = "text" /\ textEvents[i].req = n
QueuesCreated(i, n)  == textEvents[i].kind = "created" /\ textEvents[i].req = n
QueuesResponse(i, n) == textEvents[i].kind = "response" /\ textEvents[i].req = n

QueuesPiece(n, a, k) == \E i \in Queue : QueuesText(i, n) /\ textEvents[i].piece = <<a, k>>
QueuesId(j, n, a)    == QueuesCreated(j, n) /\ textEvents[j].attempt = a

\* How far a request is, and what was made of it.
StageInv ==
    \A n \in Requests :
        /\ stage[n] \in {"none", "called"} =>
              attempt[n] = 0 /\ pieces[n] = 0 /\ created[n] = 0 /\ newest # n /\ userStop # n
        /\ stage[n] # "provider" => partial[n] = <<>>
        /\ stage[n] = "provider" => attempt[n] >= 1
        /\ n \in logged => stage[n] = "returned"
        /\ n \in behind => n # newest /\ stage[n] \in {"provider", "returned"}
        /\ created[n] <= attempt[n]

\* What the Gate keeps of a stream is the text of one attempt: this one, if it
\* has said anything.
PartialInv ==
    \A n \in Requests :
        /\ pieces[n] > 0 /\ stage[n] = "provider" => partial[n] = Run(attempt[n], pieces[n])
        /\ partial[n] # <<>> =>
              \E a \in 1 .. attempt[n] :
                  /\ partial[n] = Run(a, Len(partial[n]))
                  /\ pieces[n] = 0 => a < attempt[n]
                  /\ announces => a <= created[n]

\* What a request has returned is the text of one attempt, under its own id but
\* for the exception that LiveIsReplay names.
ResultInv ==
    \A n \in Requests : stage[n] = "returned" =>
        LET r == result[n]
        IN  /\ Source(r) \in 0 .. MaxAttempts
            /\ r.text = Run(Source(r), Len(r.text))
            /\ announces /\ Source(r) # r.key => n = userStop /\ Source(r) < r.key

\* What is queued of a request was said by it, in this order.
OriginInv ==
    \A i \in Queue : \A n \in Requests :
        /\ textEvents[i].req = n => stage[n] \in {"provider", "returned"}
        /\ QueuesText(i, n) => Said(n, textEvents[i].piece)
        /\ QueuesCreated(i, n) => textEvents[i].attempt <= attempt[n]
        /\ QueuesResponse(i, n) => n \in logged

\* It is queued in the order in which it was said, and its response is the last.
OrderInv ==
    \A i, j \in Queue : \A n \in Requests :
        /\ i < j /\ textEvents[j].req = n => ~QueuesResponse(i, n)
        /\ i < j /\ QueuesText(i, n) /\ QueuesText(j, n) =>
              Earlier(textEvents[i].piece, textEvents[j].piece)
        /\ i < j /\ QueuesCreated(i, n) /\ QueuesText(j, n) =>
              textEvents[i].attempt <= textEvents[j].piece[1]
        /\ i < j /\ QueuesCreated(i, n) /\ QueuesCreated(j, n) =>
              textEvents[i].attempt <= textEvents[j].attempt

\* The response of a request that is logged follows all that is queued of it.
LastInv ==
    \A i \in Queue : \A n \in logged :
        textEvents[i].req = n => \E j \in Queue : j >= i /\ QueuesResponse(j, n)

QueueInv == OriginInv /\ OrderInv /\ LastInv

\* What is shown of a request was said, and is earlier than what is queued of it.
ShownInv ==
    \A n \in Requests : ~IsHandled(n) => \A k \in Keys :
        /\ \A i \in 1 .. Len(shown[n][k]) :
              /\ Said(n, shown[n][k][i])
              /\ \A j \in Queue : QueuesText(j, n) => Earlier(shown[n][k][i], textEvents[j].piece)
        /\ n \notin streamed => shown[n][k] = <<>>

\* A piece of the newest request is shown under the id of its attempt: that is
\* the actor's key, or it is queued before the piece.
KeyInv ==
    announces => \A n \in Requests :
        /\ liveKey[n] <= attempt[n]
        /\ n = newest => \A i \in Queue :
              /\ QueuesCreated(i, n) => textEvents[i].attempt >= liveKey[n]
              /\ QueuesText(i, n) =>
                    /\ textEvents[i].piece[1] >= liveKey[n]
                    /\ \/ textEvents[i].piece[1] = liveKey[n]
                       \/ \E j \in Queue : j < i /\ QueuesId(j, n, textEvents[i].piece[1])
        /\ n = newest /\ stage[n] = "provider" /\ created[n] = attempt[n] =>
               \/ liveKey[n] = attempt[n]
               \/ \E j \in Queue : QueuesId(j, n, attempt[n])

\* The first m pieces of an attempt are shown or queued, and none beyond them.
Reaches(n, a, m) ==
    \A k \in 1 .. m : k <= Len(shown[n][a]) \/ QueuesPiece(n, a, k)
Exceeds(n, a, m) ==
    Len(shown[n][a]) > m \/ \E k \in 1 .. MaxPieces : k > m /\ QueuesPiece(n, a, k)
Covers(n, a, m) == ~Exceeds(n, a, m) /\ (n \notin behind => Reaches(n, a, m))

\* What is shown of an attempt are its first pieces, and what the Gate keeps, or
\* the request has returned, is what is shown and queued of its attempt.  A
\* request of which the actor has dropped a piece lacks some.
Runs(n) ==
    /\ \A a \in 0 .. MaxAttempts : shown[n][a] = Run(a, Len(shown[n][a]))
    /\ n \notin behind => \A a \in 0 .. MaxAttempts, k \in 1 .. MaxPieces :
           QueuesPiece(n, a, k) => Reaches(n, a, k)
    /\ stage[n] # "returned" /\ partial[n] = <<>> =>
           \A a \in 0 .. MaxAttempts : ~Exceeds(n, a, 0)
    /\ stage[n] # "returned" /\ partial[n] # <<>> =>
           Covers(n, partial[n][1][1], Len(partial[n]))
    /\ stage[n] = "returned" => Covers(n, Source(result[n]), Len(result[n].text))

RunsInv == announces => \A n \in Requests : ~IsHandled(n) => Runs(n)

-----------------------------------------------------------------------------
(* Types. *)

\* An event has the fields of its kind.
LEMMA EventFields ==
    ASSUME NEW e \in TextEvents
    PROVE  /\ e.kind \in {"created", "text", "response"} /\ e.req \in Requests
           /\ e.kind = "created" => e.attempt \in 1 .. MaxAttempts
           /\ e.kind = "text" => e.piece \in Pieces
           /\ \A n : e.kind = "response" /\ e.req = n <=> e = [kind |-> "response", req |-> n]
BY DEF TextEvents

\* The head of the queue is of the kind it is handled as, and the rest of the
\* queue moves up by one.
LEMMA Handled ==
    ASSUME TextTypeOK, NEW kind, HandlesText(kind)
    PROVE  /\ Len(textEvents) \in Nat \ {0}
           /\ 1 \in Queue /\ textEvents[1] = Head(textEvents)
           /\ textEvents[1] \in TextEvents /\ textEvents[1].kind = kind
           /\ textEvents' \in Seq(TextEvents)
           /\ Len(textEvents') = Len(textEvents) - 1
           /\ \A i \in Queue' : i + 1 \in Queue /\ textEvents'[i] = textEvents[i + 1]
           /\ \A i \in Queue : i # 1 => i - 1 \in Queue' /\ textEvents'[i - 1] = textEvents[i]
BY DEF TextTypeOK, HandlesText, Queue

\* An event that is pushed is the last one.
LEMMA Pushed ==
    ASSUME TextTypeOK, NEW e \in TextEvents, PushText(e)
    PROVE  /\ Len(textEvents) \in Nat
           /\ textEvents' \in Seq(TextEvents)
           /\ Len(textEvents') = Len(textEvents) + 1
           /\ \A i \in Queue : i \in Queue' /\ textEvents'[i] = textEvents[i]
           /\ Len(textEvents') \in Queue' /\ textEvents'[Len(textEvents')] = e
           /\ \A i \in Queue' : i \in Queue \/ i = Len(textEvents')
BY DEF TextTypeOK, PushText, Queue

\* The numbers of the model are numbers, and no request is no one.
LEMMA TextNumbers ==
    /\ MaxRequests \in Nat /\ MaxAttempts \in Nat \ {0} /\ MaxPieces \in Nat
    /\ \A n \in Requests : n \in Nat /\ n # NoOne /\ n \in 0 .. MaxRequests
    /\ 0 .. MaxAttempts \subseteq Keys /\ Unannounced \in Keys /\ Keys \subseteq Nat
    /\ NoOne \in 0 .. MaxRequests /\ 0 \in Keys /\ 0 \in 0 .. MaxAttempts /\ 0 \in 0 .. MaxPieces
BY TextAssumption DEF Requests, Keys, Unannounced, NoOne

\* A piece is a pair of numbers.
LEMMA PieceNumbers == \A q \in Pieces : q[1] \in Nat /\ q[2] \in Nat
BY TextNumbers DEF Pieces

\* A run is a text.
LEMMA RunIsText ==
    ASSUME NEW a \in 1 .. MaxAttempts, NEW m \in 0 .. MaxPieces
    PROVE  Run(a, m) \in Texts /\ Len(Run(a, m)) = m /\ \A k \in 1 .. m : Run(a, m)[k] = <<a, k>>
<1>1. \A k \in 1 .. m : <<a, k>> \in Pieces
  BY TextNumbers DEF Pieces
<1> QED
  BY <1>1, TextNumbers DEF Run, Texts

\* The state has its types, and a request at the provider makes an attempt.
Attempted == \A n \in Requests : stage[n] = "provider" => attempt[n] >= 1

\* The initial state has its types.
LEMMA TextInitType == TextInit => TextTypeOK /\ Attempted
<1> SUFFICES ASSUME TextInit PROVE TextTypeOK /\ Attempted
  OBVIOUS
<1>1. <<>> \in Texts /\ 0 \in Keys
  BY TextNumbers DEF Texts
<1>2. NoResult \in [text : Texts, key : Keys]
  BY <1>1 DEF NoResult, Own
<1>3. textEvents \in Seq(TextEvents) /\ shown \in [Requests -> [Keys -> Texts]]
  BY <1>1 DEF TextInit
<1>4. /\ attempt \in [Requests -> 0 .. MaxAttempts] /\ created \in [Requests -> 0 .. MaxAttempts]
      /\ pieces \in [Requests -> 0 .. MaxPieces] /\ partial \in [Requests -> Texts]
      /\ liveKey \in [Requests -> Keys]
  BY <1>1, TextNumbers DEF TextInit
<1>5. /\ stage \in [Requests -> {"none", "called", "provider", "returned"}]
      /\ result \in [Requests -> [text : Texts, key : Keys]]
  BY <1>2 DEF TextInit
<1>6. \A n \in Requests : stage[n] = "none"
  BY DEF TextInit
<1> QED
  BY <1>3, <1>4, <1>5, <1>6, TextNumbers DEF TextInit, TextTypeOK, Attempted

\* So has every state that a step leads to.
LEMMA TextTypeStep == TextTypeOK /\ Attempted /\ [TextNext]_textVars => TextTypeOK' /\ Attempted'
<1> SUFFICES ASSUME TextTypeOK, Attempted, [TextNext]_textVars
             PROVE  TextTypeOK' /\ Attempted'
  OBVIOUS
<1> USE DEF TextTypeOK, Attempted
<1>1. ASSUME NEW n \in Requests, CallsModel(n) PROVE TextTypeOK' /\ Attempted'
  BY <1>1 DEF CallsModel, Goes, actorVars
<1>2. ASSUME NEW n \in Requests, Enters(n) PROVE TextTypeOK' /\ Attempted'
  BY <1>2, TextNumbers DEF Enters, Goes, actorVars, FirstAttempt
<1>3. ASSUME NEW n \in Requests, Announces(n) PROVE TextTypeOK' /\ Attempted'
  <2> DEFINE e == [kind |-> "created", req |-> n, attempt |-> attempt[n]]
  <2>1. attempt[n] \in 1 .. MaxAttempts
    BY <1>3, TextNumbers DEF Announces
  <2>2. e \in TextEvents
    BY <2>1 DEF TextEvents
  <2>3. textEvents' \in Seq(TextEvents)
    BY <1>3, <2>2, Pushed DEF Announces
  <2> QED
    BY <1>3, <2>3 DEF Announces, actorVars
<1>4. ASSUME NEW n \in Requests, Streams(n) PROVE TextTypeOK' /\ Attempted'
  <2> DEFINE e == [kind |-> "text", req |-> n, piece |-> Piece(n)]
  <2>1. Piece(n) \in Pieces /\ pieces[n] + 1 \in 0 .. MaxPieces
    BY <1>4, TextNumbers DEF Streams, Pieces, Piece
  <2>2. e \in TextEvents
    BY <2>1 DEF TextEvents
  <2>3. textEvents' \in Seq(TextEvents)
    BY <1>4, <2>2, Pushed DEF Streams
  <2>4. Kept(n) \in Texts
    BY <2>1 DEF Kept, Texts
  <2> QED
    BY <1>4, <2>1, <2>3, <2>4 DEF Streams, actorVars
<1>5. ASSUME NEW n \in Requests, Retries(n) PROVE TextTypeOK' /\ Attempted'
  BY <1>5, TextNumbers, SMTT(30) DEF Retries, actorVars
<1>6. ASSUME NEW n \in Requests, Returns(n) PROVE TextTypeOK' /\ Attempted'
  <2>1. attempt[n] \in 1 .. MaxAttempts /\ pieces[n] \in 0 .. MaxPieces
    BY <1>6, TextNumbers DEF Returns
  <2>2. AttemptText(n) \in Texts
    BY <2>1, RunIsText DEF AttemptText, Run
  <2>3. Verdicts(n) \subseteq [text : Texts, key : Keys]
    <3>1. NoResult \in [text : Texts, key : Keys]
      BY TextNumbers DEF NoResult, Own, Texts
    <3>2. [text |-> partial[n], key |-> created[n]] \in [text : Texts, key : Keys]
      BY TextNumbers
    <3>3. [text |-> AttemptText(n), key |-> attempt[n]] \in [text : Texts, key : Keys]
      BY <2>1, <2>2, TextNumbers
    <3> QED
      BY <3>1, <3>2, <3>3 DEF Verdicts
  <2>4. PICK r \in Verdicts(n) : result' = [result EXCEPT ![n] = r]
    BY <1>6 DEF Returns
  <2>5. result' \in [Requests -> [text : Texts, key : Keys]]
    BY <2>3, <2>4
  <2>6. partial' \in [Requests -> Texts] /\ created' \in [Requests -> 0 .. MaxAttempts]
    BY <1>6, TextNumbers, SMTT(30) DEF Returns, Texts
  <2>7. stage' = [stage EXCEPT ![n] = "returned"]
    BY <1>6 DEF Returns, Goes
  <2>8. UNCHANGED <<announces, dropped, attempt, pieces, newest, userStop, logged, textEvents,
                    streamed, liveKey, behind, shown>> /\ registered' = FALSE
    BY <1>6 DEF Returns, actorVars
  <2> QED
    BY <2>5, <2>6, <2>7, <2>8
<1>7. ASSUME NEW n \in Requests, Replaces(n) PROVE TextTypeOK' /\ Attempted'
  BY <1>7 DEF Replaces, actorVars
<1>8. ASSUME NEW n \in Requests, Logs(n) PROVE TextTypeOK' /\ Attempted'
  <2>1. [kind |-> "response", req |-> n] \in TextEvents
    BY DEF TextEvents
  <2>2. textEvents' \in Seq(TextEvents)
    BY <1>8, <2>1, Pushed DEF Logs
  <2> QED
    BY <1>8, <2>2 DEF Logs, actorVars
<1>9. CASE Cancels
  BY <1>9 DEF Cancels, actorVars
<1>10. CASE HandleCreated
  <2> DEFINE e == Head(textEvents)
  <2>1. textEvents' \in Seq(TextEvents) /\ e \in TextEvents /\ e.kind = "created"
    BY <1>10, Handled DEF HandleCreated
  <2>2. e.req \in Requests /\ e.attempt \in Keys
    BY <2>1, EventFields, TextNumbers
  <2> HIDE DEF e
  <2>3. liveKey' = (IF e.req = newest THEN [liveKey EXCEPT ![e.req] = e.attempt] ELSE liveKey)
    BY <1>10 DEF HandleCreated, e
  <2> QED
    BY <1>10, <2>1, <2>2, <2>3 DEF HandleCreated, HandlesText, gateVars
<1>11. CASE HandleText
  <2> DEFINE e == Head(textEvents)
             n == e.req
  <2>1. textEvents' \in Seq(TextEvents) /\ e \in TextEvents /\ e.kind = "text"
    BY <1>11, Handled DEF HandleText
  <2>2. n \in Requests /\ e.piece \in Pieces /\ LiveKey(n) \in Keys
    BY <2>1, EventFields, TextNumbers DEF LiveKey
  <2>3. IF n = newest
        THEN /\ shown' = [shown EXCEPT ![n][LiveKey(n)] = Append(@, e.piece)]
             /\ liveKey' = [liveKey EXCEPT ![n] = LiveKey(n)]
             /\ streamed' = streamed \cup {n}
             /\ UNCHANGED behind
        ELSE behind' = behind \cup {n} /\ UNCHANGED <<shown, liveKey, streamed>>
    BY <1>11 DEF HandleText
  <2> HIDE DEF e
  <2>4. shown' \in [Requests -> [Keys -> Texts]]
    <3>1. Append(shown[n][LiveKey(n)], e.piece) \in Texts
      BY <2>2 DEF Texts
    <3>2. [shown[n] EXCEPT ![LiveKey(n)] = Append(@, e.piece)] \in [Keys -> Texts]
      BY <2>2, <3>1
    <3>3. n = newest =>
             shown' = [shown EXCEPT ![n] = [shown[n] EXCEPT ![LiveKey(n)] = Append(@, e.piece)]]
      BY <2>3
    <3> HIDE DEF n
    <3> QED
      BY <2>2, <2>3, <3>2, <3>3
  <2> QED
    BY <1>11, <2>1, <2>2, <2>3, <2>4, ZenonT(60) DEF HandleText, HandlesText, gateVars
<1>12. CASE HandleResponse
  <2> DEFINE n == Head(textEvents).req
  <2>1. textEvents' \in Seq(TextEvents) /\ n \in Requests
    BY <1>12, Handled, EventFields DEF HandleResponse
  <2>2. /\ shown' = [shown EXCEPT ![n][result[n].key] = @ \o Unsaid(n)]
        /\ streamed' = streamed \ {n}
        /\ liveKey' = [liveKey EXCEPT ![n] = 0]
    BY <1>12 DEF HandleResponse
  <2> HIDE DEF n
  <2>3. shown' \in [Requests -> [Keys -> Texts]]
    <3> result[n].key \in Keys /\ Unsaid(n) \in Texts
      BY <2>1 DEF Unsaid, Texts
    <3> shown[n][result[n].key] \o Unsaid(n) \in Texts
      BY <2>1 DEF Texts
    <3> QED
      BY <2>1, <2>2
  <2>4. liveKey' \in [Requests -> Keys] /\ streamed' \in SUBSET Requests
    BY <2>1, <2>2, TextNumbers
  <2>5. UNCHANGED gateVars /\ UNCHANGED behind
    BY <1>12 DEF HandleResponse, HandlesText
  <2> QED
    BY <2>1, <2>3, <2>4, <2>5 DEF gateVars
<1>13. CASE UNCHANGED textVars
  BY <1>13 DEF textVars, gateVars, actorVars
<1> QED
  BY <1>1, <1>2, <1>3, <1>4, <1>5, <1>6, <1>7, <1>8, <1>9, <1>10, <1>11, <1>12, <1>13
     DEF TextNext, TextRequest, TextActor

-----------------------------------------------------------------------------
(* A request and what the Gate keeps of it. *)

\* No request has begun.
LEMMA StageInit == TextInit => StageInv /\ PartialInv /\ ResultInv
BY TextNumbers DEF TextInit, StageInv, PartialInv, ResultInv

\* How far a request is bounds its attempts and what the Gate keeps of it.
LEMMA StageStep ==
    TextTypeOK /\ StageInv /\ QueueInv /\ [TextNext]_textVars => StageInv'
<1> SUFFICES ASSUME TextTypeOK, StageInv, QueueInv, [TextNext]_textVars
             PROVE  StageInv'
  OBVIOUS
<1>0. /\ stage \in [Requests -> {"none", "called", "provider", "returned"}]
      /\ attempt \in [Requests -> 0 .. MaxAttempts] /\ created \in [Requests -> 0 .. MaxAttempts]
      /\ pieces \in [Requests -> 0 .. MaxPieces] /\ partial \in [Requests -> Texts]
      /\ newest \in 0 .. MaxRequests
  BY DEF TextTypeOK
<1>1. ASSUME NEW n \in Requests, CallsModel(n) PROVE StageInv'
  BY <1>0, <1>1, TextNumbers DEF CallsModel, Goes, actorVars, StageInv
<1>2. ASSUME NEW n \in Requests, Enters(n) PROVE StageInv'
  BY <1>0, <1>2, TextNumbers DEF Enters, Goes, actorVars, FirstAttempt, StageInv
<1>3. ASSUME NEW n \in Requests, Announces(n) PROVE StageInv'
  BY <1>0, <1>3, TextNumbers DEF Announces, actorVars, StageInv
<1>4. ASSUME NEW n \in Requests, Streams(n) PROVE StageInv'
  BY <1>0, <1>4, TextNumbers DEF Streams, actorVars, StageInv
<1>5. ASSUME NEW n \in Requests, Retries(n) PROVE StageInv'
  BY <1>0, <1>5, TextNumbers DEF Retries, actorVars, StageInv
<1>6. ASSUME NEW n \in Requests, Returns(n) PROVE StageInv'
  BY <1>0, <1>6, TextNumbers DEF Returns, Goes, actorVars, StageInv
<1>7. ASSUME NEW n \in Requests, Replaces(n) PROVE StageInv'
  BY <1>0, <1>7, TextNumbers DEF Replaces, actorVars, StageInv
<1>8. ASSUME NEW n \in Requests, Logs(n) PROVE StageInv'
  BY <1>0, <1>8, TextNumbers DEF Logs, actorVars, StageInv
<1>9. CASE Cancels
  <2>1. \A n \in Requests : userStop' = n => n = newest
    BY <1>9 DEF Cancels
  <2> QED
    BY <1>9, <2>1 DEF Cancels, actorVars, StageInv
<1>10. ASSUME UNCHANGED gateVars,
              \A n \in behind' : n \in behind \/ (n # newest /\ stage[n] \in {"provider", "returned"})
       PROVE  StageInv'
  BY <1>10 DEF gateVars, StageInv
<1>11. CASE TextActor
  <2>1. CASE HandleText
    <3>1. Head(textEvents).req \in Requests
          /\ stage[Head(textEvents).req] \in {"provider", "returned"}
      BY <2>1, Handled, EventFields DEF HandleText, QueueInv, OriginInv, Queue
    <3> QED
      BY <1>10, <2>1, <3>1 DEF HandleText, HandlesText
  <2> QED
    BY <1>10, <1>11, <2>1 DEF TextActor, HandleCreated, HandleResponse, HandlesText
<1>12. CASE UNCHANGED textVars
  BY <1>10, <1>12 DEF textVars, actorVars
<1> QED
  BY <1>1, <1>2, <1>3, <1>4, <1>5, <1>6, <1>7, <1>8, <1>9, <1>11, <1>12
     DEF TextNext, TextRequest

\* The attempt of a text is that of its first piece.
LEMMA PartialOf ==
    ASSUME NEW t, NEW a \in Nat, t = Run(a, Len(t)), t # <<>>, Len(t) \in Nat
    PROVE  Len(t) >= 1 /\ t[1][1] = a
<1>1. Len(t) # 0
  BY DEF Run
<1> QED
  BY <1>1 DEF Run

\* ObserveDelta keeps the text of one attempt.
LEMMA PartialStep ==
    TextTypeOK /\ StageInv /\ PartialInv /\ [TextNext]_textVars => PartialInv'
<1> SUFFICES ASSUME TextTypeOK, StageInv, PartialInv, [TextNext]_textVars
             PROVE  PartialInv'
  OBVIOUS
<1>0. /\ stage \in [Requests -> {"none", "called", "provider", "returned"}]
      /\ attempt \in [Requests -> 0 .. MaxAttempts] /\ created \in [Requests -> 0 .. MaxAttempts]
      /\ pieces \in [Requests -> 0 .. MaxPieces] /\ partial \in [Requests -> Texts]
  BY DEF TextTypeOK
<1>1. ASSUME NEW n \in Requests, CallsModel(n) PROVE PartialInv'
  BY <1>0, <1>1 DEF CallsModel, Goes, actorVars, PartialInv
<1>2. ASSUME NEW n \in Requests, Enters(n) PROVE PartialInv'
  <2>1. pieces[n] = 0 /\ partial[n] = <<>>
    BY <1>2 DEF Enters, StageInv
  <2> QED
    BY <1>0, <1>2, <2>1, TextNumbers DEF Enters, Goes, actorVars, PartialInv
<1>3. ASSUME NEW n \in Requests, Announces(n) PROVE PartialInv'
  <2>1. UNCHANGED <<announces, stage, attempt, pieces, partial>>
        /\ created' = [created EXCEPT ![n] = attempt[n]]
    BY <1>3 DEF Announces
  <2> SUFFICES ASSUME NEW m \in Requests, partial[m] # <<>>, announces
               PROVE  \E a \in 1 .. attempt[m] :
                        /\ partial[m] = Run(a, Len(partial[m]))
                        /\ pieces[m] = 0 => a < attempt[m]
                        /\ a <= created'[m]
    BY <1>0, <2>1 DEF PartialInv
  <2> QED
    BY <1>0, <2>1, TextNumbers DEF PartialInv, StageInv
<1>4. ASSUME NEW n \in Requests, Streams(n) PROVE PartialInv'
  <2>1. /\ UNCHANGED <<announces, stage, attempt, created>>
        /\ stage[n] = "provider" /\ IsAnnounced(n)
        /\ pieces' = [pieces EXCEPT ![n] = @ + 1]
        /\ partial' = [partial EXCEPT ![n] = Kept(n)]
    BY <1>4 DEF Streams
  <2>2. attempt[n] \in 1 .. MaxAttempts /\ attempt[n] \in Nat /\ pieces[n] \in Nat
    BY <1>0, <2>1, TextNumbers DEF StageInv
  <2>3. Kept(n) = Run(attempt[n], pieces[n] + 1)
    <3>1. CASE pieces[n] > 0
      <4>1. partial[n] = Run(attempt[n], pieces[n]) /\ partial[n] # <<>>
        BY <2>1, <2>2, <3>1 DEF PartialInv, Run
      <4>2. partial[n][1][1] = attempt[n]
        BY <2>2, <3>1, <4>1 DEF Run
      <4>3. Append(Run(attempt[n], pieces[n]), <<attempt[n], pieces[n] + 1>>)
              = Run(attempt[n], pieces[n] + 1)
        BY <2>2 DEF Run
      <4> QED
        BY <4>1, <4>2, <4>3 DEF Kept, Piece
    <3>2. CASE pieces[n] = 0
      <4>1. ~(partial[n] # <<>> /\ partial[n][1][1] = attempt[n])
        <5> SUFFICES ASSUME partial[n] # <<>> PROVE partial[n][1][1] # attempt[n]
          OBVIOUS
        <5>1. PICK a \in 1 .. attempt[n] : partial[n] = Run(a, Len(partial[n])) /\ a < attempt[n]
          BY <3>2 DEF PartialInv
        <5>2. Len(partial[n]) \in Nat /\ a \in Nat /\ a # attempt[n]
          BY <1>0, <2>2, <5>1 DEF Texts
        <5> QED
          BY <5>1, <5>2, PartialOf
      <4> QED
        BY <2>2, <3>2, <4>1 DEF Kept, Piece, Run
    <3> QED
      BY <2>2, <3>1, <3>2
  <2>4. Len(Kept(n)) = pieces[n] + 1
    BY <2>2, <2>3 DEF Run
  <2>5. announces => created[n] = attempt[n]
    BY <2>1 DEF IsAnnounced
  <2> SUFFICES ASSUME NEW m \in Requests
               PROVE  PartialInv!(m)'
    BY DEF PartialInv
  <2>6. CASE m = n
    <3>1. /\ partial'[n] = Run(attempt[n], pieces[n] + 1) /\ pieces'[n] = pieces[n] + 1
          /\ attempt'[n] = attempt[n] /\ created'[n] = created[n] /\ announces' = announces
          /\ attempt[n] \in 1 .. attempt[n]
      BY <1>0, <2>1, <2>2, <2>3
    <3>2. Len(partial'[n]) = pieces[n] + 1
      BY <2>3, <2>4, <3>1
    <3>3. announces => attempt[n] <= created[n]
      BY <2>2, <2>5
    <3> QED
      BY <2>2, <2>6, <3>1, <3>2, <3>3
  <2>7. CASE m # n
    BY <1>0, <2>1, <2>7 DEF PartialInv
  <2> QED
    BY <2>6, <2>7
<1>5. ASSUME NEW n \in Requests, Retries(n) PROVE PartialInv'
  <2>1. /\ UNCHANGED <<announces, stage, created, partial>>
        /\ attempt' = [attempt EXCEPT ![n] = @ + 1] /\ pieces' = [pieces EXCEPT ![n] = 0]
    BY <1>5 DEF Retries
  <2> SUFFICES ASSUME NEW m \in Requests
               PROVE  PartialInv!(m)'
    BY DEF PartialInv
  <2>6. CASE m = n
    <3>1. /\ partial'[n] = partial[n] /\ pieces'[n] = 0
          /\ attempt'[n] = attempt[n] + 1 /\ created'[n] = created[n] /\ announces' = announces
      BY <1>0, <2>1
    <3>2. ASSUME partial[n] # <<>>
          PROVE  \E a \in 1 .. attempt[n] + 1 :
                  /\ partial[n] = Run(a, Len(partial[n]))
                  /\ a < attempt[n] + 1
                  /\ announces => a <= created[n]
      <4>1. PICK a \in 1 .. attempt[n] :
                partial[n] = Run(a, Len(partial[n])) /\ (announces => a <= created[n])
        BY <3>2 DEF PartialInv
      <4>2. a \in 1 .. attempt[n] + 1 /\ a < attempt[n] + 1
        BY <1>0, TextNumbers
      <4> QED
        BY <4>1, <4>2
    <3> QED
      BY <2>6, <3>1, <3>2
  <2>7. CASE m # n
    BY <1>0, <2>1, <2>7 DEF PartialInv
  <2> QED
    BY <2>6, <2>7
<1>6. ASSUME NEW n \in Requests, Returns(n) PROVE PartialInv'
  BY <1>0, <1>6 DEF Returns, Goes, PartialInv
<1>7. ASSUME NEW n \in Requests, Replaces(n) PROVE PartialInv'
  BY <1>7 DEF Replaces, PartialInv
<1>8. ASSUME NEW n \in Requests, Logs(n) PROVE PartialInv'
  BY <1>8 DEF Logs, PartialInv
<1>9. CASE Cancels
  BY <1>9 DEF Cancels, PartialInv
<1>10. ASSUME UNCHANGED gateVars PROVE PartialInv'
  BY <1>10 DEF gateVars, PartialInv
<1> QED
  BY <1>1, <1>2, <1>3, <1>4, <1>5, <1>6, <1>7, <1>8, <1>9, <1>10
     DEF TextNext, TextRequest, TextActor, HandleCreated, HandleText, HandleResponse,
         HandlesText, textVars

\* What Respond returns is the text of one attempt.
LEMMA ResultStep ==
    TextTypeOK /\ StageInv /\ PartialInv /\ ResultInv /\ [TextNext]_textVars => ResultInv'
<1> SUFFICES ASSUME TextTypeOK, StageInv, PartialInv, ResultInv, [TextNext]_textVars
             PROVE  ResultInv'
  OBVIOUS
<1>0. /\ stage \in [Requests -> {"none", "called", "provider", "returned"}]
      /\ attempt \in [Requests -> 0 .. MaxAttempts] /\ created \in [Requests -> 0 .. MaxAttempts]
      /\ pieces \in [Requests -> 0 .. MaxPieces] /\ partial \in [Requests -> Texts]
      /\ result \in [Requests -> [text : Texts, key : Keys]]
  BY DEF TextTypeOK
<1>1. ASSUME UNCHANGED <<announces, userStop, result>>,
             \A n \in Requests : stage'[n] = "returned" => stage[n] = "returned"
      PROVE  ResultInv'
  BY <1>1 DEF ResultInv
<1>2. ASSUME NEW n \in Requests, Returns(n) PROVE ResultInv'
  <2>1. /\ UNCHANGED <<announces, userStop>> /\ stage[n] = "provider"
        /\ \A m \in Requests : stage'[m] = "returned" => m = n \/ stage[m] = "returned"
    BY <1>0, <1>2 DEF Returns, Goes
  <2>2. PICK r \in Verdicts(n) : result' = [result EXCEPT ![n] = r]
    BY <1>2 DEF Returns
  <2> DEFINE Good(v) ==
        /\ Source(v) \in 0 .. MaxAttempts
        /\ v.text = Run(Source(v), Len(v.text))
        /\ announces /\ Source(v) # v.key => n = userStop /\ Source(v) < v.key
  <2>3. \A a \in 0 .. MaxAttempts : Good([text |-> <<>>, key |-> a])
    BY DEF Run, Source
  <2> HIDE DEF Good
  <2>4. ASSUME n = userStop PROVE Good(r)
    <3>1. r = [text |-> partial[n], key |-> created[n]]
      BY <2>2, <2>4 DEF Verdicts
    <3>2. CASE partial[n] = <<>>
      BY <1>0, <2>3, <3>1, <3>2
    <3>3. CASE partial[n] # <<>>
      <4>1. PICK a \in 1 .. attempt[n] :
                partial[n] = Run(a, Len(partial[n])) /\ (announces => a <= created[n])
        BY <3>3 DEF PartialInv
      <4>2. Source(r) = a /\ r.text = partial[n] /\ r.key = created[n]
        BY <1>0, <3>1, <3>3, <4>1, PartialOf, TextNumbers DEF Source, Texts
      <4>3. a \in 0 .. MaxAttempts /\ (announces /\ a # created[n] => a < created[n])
        BY <1>0, <4>1, TextNumbers
      <4> QED
        BY <2>4, <4>1, <4>2, <4>3 DEF Good
    <3> QED
      BY <3>2, <3>3
  <2>5. ASSUME n # userStop PROVE Good(r)
    <3>1. CASE r = NoResult
      BY <2>3, <3>1, TextNumbers DEF NoResult, Own
    <3>2. CASE r = [text |-> AttemptText(n), key |-> attempt[n]]
      <4>1. AttemptText(n) = Run(attempt[n], pieces[n]) /\ pieces[n] \in Nat /\ attempt[n] \in Nat
        BY <1>0, TextNumbers DEF AttemptText, Run
      <4>2. Len(AttemptText(n)) = pieces[n]
        BY <4>1 DEF Run
      <4>3. Source(r) = attempt[n]
        BY <3>2, <4>1, <4>2, PartialOf DEF Source
      <4>4. attempt[n] \in 0 .. MaxAttempts /\ r.text = AttemptText(n) /\ r.key = attempt[n]
        BY <1>0, <3>2
      <4> QED
        BY <4>1, <4>2, <4>3, <4>4 DEF Good
    <3> QED
      BY <2>2, <2>5, <3>1, <3>2 DEF Verdicts
  <2>6. Good(r)
    BY <2>4, <2>5
  <2>7. result'[n] = r /\ \A m \in Requests \ {n} : result'[m] = result[m]
    BY <1>0, <2>2
  <2> SUFFICES ASSUME NEW m \in Requests, stage'[m] = "returned"
               PROVE  ResultInv!(m)!2'
    BY DEF ResultInv
  <2>8. CASE m = n
    BY <2>1, <2>6, <2>7, <2>8 DEF Good, Source
  <2>9. CASE m # n
    BY <2>1, <2>7, <2>9 DEF ResultInv, Source
  <2> QED
    BY <2>8, <2>9
<1>3. CASE Cancels
  BY <1>3 DEF Cancels, ResultInv, NoOne, Requests
<1>4. ASSUME NEW n \in Requests, TextRequest(n), ~Returns(n) PROVE ResultInv'
  <2>1. CASE CallsModel(n)
    BY <1>0, <1>1, <2>1 DEF CallsModel, Goes
  <2>2. CASE Enters(n)
    BY <1>0, <1>1, <2>2 DEF Enters, Goes
  <2>3. CASE Announces(n) \/ Streams(n) \/ Retries(n) \/ Replaces(n) \/ Logs(n)
    BY <1>1, <2>3 DEF Announces, Streams, Retries, Replaces, Logs
  <2> QED
    BY <1>4, <2>1, <2>2, <2>3 DEF TextRequest
<1>5. ASSUME UNCHANGED gateVars PROVE ResultInv'
  BY <1>1, <1>5 DEF gateVars
<1> QED
  BY <1>2, <1>3, <1>4, <1>5
     DEF TextNext, TextActor, HandleCreated, HandleText, HandleResponse, HandlesText, textVars

-----------------------------------------------------------------------------
(* What is queued. *)

\* What a request has said stays said.
LEMMA SaidStays ==
    ASSUME TextTypeOK, StageInv, [TextNext]_textVars, NEW n \in Requests
    PROVE  /\ attempt[n] < attempt'[n] \/ (attempt[n] = attempt'[n] /\ pieces[n] <= pieces'[n])
           /\ \A p \in Pieces : Said(n, p) => Said(n, p)'
           /\ attempt[n] \in Nat /\ attempt'[n] \in Nat /\ attempt[n] <= attempt'[n]
<1>0. attempt \in [Requests -> 0 .. MaxAttempts] /\ pieces \in [Requests -> 0 .. MaxPieces]
  BY DEF TextTypeOK
<1>1. attempt[n] < attempt'[n] \/ (attempt[n] = attempt'[n] /\ pieces[n] <= pieces'[n])
  <2>1. ASSUME UNCHANGED <<attempt, pieces>> PROVE <1>1
    BY <1>0, <2>1, TextNumbers
  <2>2. ASSUME NEW m \in Requests, Enters(m) PROVE <1>1
    BY <1>0, <2>2, TextNumbers DEF Enters, FirstAttempt, StageInv
  <2>3. ASSUME NEW m \in Requests, Streams(m) PROVE <1>1
    BY <1>0, <2>3, TextNumbers DEF Streams
  <2>4. ASSUME NEW m \in Requests, Retries(m) PROVE <1>1
    BY <1>0, <2>4, TextNumbers DEF Retries
  <2> QED
    BY <2>1, <2>2, <2>3, <2>4
       DEF TextNext, TextRequest, CallsModel, Announces, Returns, Replaces, Logs, Cancels,
           TextActor, HandleCreated, HandleText, HandleResponse, HandlesText, gateVars, textVars
<1>2. \A p \in Pieces : p[1] \in Nat /\ p[2] \in Nat
  BY TextNumbers DEF Pieces
<1>3. attempt[n] \in Nat /\ pieces[n] \in Nat /\ attempt'[n] \in Nat /\ pieces'[n] \in Nat
  <2>1. TextTypeOK'
    BY TextTypeStep DEF Attempted, StageInv
  <2> QED
    BY <1>0, <2>1, TextNumbers DEF TextTypeOK
<1> QED
  BY <1>1, <1>2, <1>3 DEF Said

\* The events of the queue have the fields of their kind.
LEMMA QueuedFields ==
    ASSUME TextTypeOK, NEW i \in Queue
    PROVE  /\ textEvents[i] \in TextEvents /\ i \in Nat /\ i >= 1
           /\ textEvents[i].req \in Requests
           /\ textEvents[i].kind \in {"created", "text", "response"}
           /\ textEvents[i].kind = "created" => textEvents[i].attempt \in 1 .. MaxAttempts
           /\ textEvents[i].kind = "text" =>
                 /\ textEvents[i].piece \in Pieces
                 /\ textEvents[i].piece[1] \in 1 .. MaxAttempts
                 /\ textEvents[i].piece[2] \in 1 .. MaxPieces
<1>1. textEvents[i] \in TextEvents /\ i \in Nat /\ i >= 1
  BY DEF TextTypeOK, Queue
<1>2. \A p \in Pieces : p[1] \in 1 .. MaxAttempts /\ p[2] \in 1 .. MaxPieces
  BY DEF Pieces
<1> QED
  BY <1>1, <1>2, EventFields

\* A response that is queued is not handled yet, and nothing else is queued of
\* a request whose response is.
LEMMA HandledHasNothing ==
    ASSUME TextTypeOK, QueueInv, NEW n \in Requests, IsHandled(n), NEW i \in Queue
    PROVE  textEvents[i].req # n
<1> SUFFICES ASSUME textEvents[i].req = n PROVE FALSE
  OBVIOUS
<1>1. PICK j \in Queue : QueuesResponse(j, n)
  BY DEF QueueInv, LastInv, IsHandled
<1>2. textEvents[j] = [kind |-> "response", req |-> n]
  BY <1>1, QueuedFields, EventFields DEF QueuesResponse
<1> QED
  BY <1>2 DEF IsHandled, Queue

\* A request is handled when it is logged and no response of it is queued.
LEMMA HandledIs ==
    ASSUME TextTypeOK, NEW n \in Requests
    PROVE  IsHandled(n) <=> n \in logged /\ \A i \in Queue : ~QueuesResponse(i, n)
<1>1. \A i \in Queue : textEvents[i] = [kind |-> "response", req |-> n] <=> QueuesResponse(i, n)
  BY QueuedFields, EventFields DEF QueuesResponse
<1> QED
  BY <1>1 DEF IsHandled, Queue

\* What a request says is queued: the id of its attempt, or the next piece.
LEMMA WhatIsAnnounced ==
    ASSUME TextTypeOK, StageInv, NEW n \in Requests, Announces(n)
    PROVE  \E e \in TextEvents :
              PushText(e) /\ e.kind = "created" /\ e.req = n /\ e.attempt = attempt[n]
<1>1. attempt[n] \in 1 .. MaxAttempts
  BY TextNumbers DEF Announces, StageInv, TextTypeOK
<1>2. PICK e \in TextEvents : e = [kind |-> "created", req |-> n, attempt |-> attempt[n]]
  BY <1>1 DEF TextEvents
<1> QED
  BY <1>2 DEF Announces

\* A piece that is queued now has not been said before.
LEMMA WhatIsStreamed ==
    ASSUME TextTypeOK, StageInv, NEW n \in Requests, Streams(n)
    PROVE  \E e \in TextEvents :
              /\ PushText(e) /\ e.kind = "text" /\ e.req = n
              /\ e.piece = <<attempt[n], pieces[n] + 1>> /\ e.piece \in Pieces
              /\ Said(n, e.piece)' /\ ~Said(n, e.piece)
<1>1. /\ attempt[n] \in 1 .. MaxAttempts /\ pieces[n] \in Nat /\ pieces[n] + 1 \in 1 .. MaxPieces
      /\ attempt' = attempt /\ pieces'[n] = pieces[n] + 1
  BY TextNumbers DEF Streams, StageInv, TextTypeOK
<1>2. Piece(n) = <<attempt[n], pieces[n] + 1>> /\ Piece(n) \in Pieces
  BY <1>1 DEF Piece, Pieces
<1>3. PICK e \in TextEvents : e = [kind |-> "text", req |-> n, piece |-> Piece(n)]
  BY <1>2 DEF TextEvents
<1>4. e.piece = <<attempt[n], pieces[n] + 1>>
  BY <1>2, <1>3
<1>5. Said(n, e.piece)' /\ ~Said(n, e.piece)
  BY <1>1, <1>4, TextNumbers DEF Said
<1> QED
  BY <1>2, <1>3, <1>4, <1>5 DEF Streams

\* Nothing is queued.
LEMMA QueueInit == TextInit => QueueInv
BY DEF TextInit, QueueInv, OriginInv, OrderInv, LastInv, Queue

\* The actor takes the first event.
LEMMA QueuePopped ==
    ASSUME TextTypeOK, QueueInv, NEW kind, HandlesText(kind)
    PROVE  QueueInv'
<1>1. /\ \A i \in Queue' : i + 1 \in Queue /\ i \in Nat /\ textEvents'[i] = textEvents[i + 1]
      /\ \A i \in Queue : i # 1 => i - 1 \in Queue' /\ textEvents'[i - 1] = textEvents[i]
      /\ 1 \in Queue /\ \A i \in Queue : i \in Nat
  BY Handled DEF Queue
<1>2. UNCHANGED <<stage, attempt, pieces, logged>> /\ logged \subseteq Requests
  BY DEF HandlesText, gateVars, TextTypeOK
<1>3. OriginInv'
  BY <1>1, <1>2
     DEF QueueInv, OriginInv, QueuesText, QueuesCreated, QueuesResponse, Said
<1>4. OrderInv'
  <2> SUFFICES ASSUME NEW i \in Queue', NEW j \in Queue', i < j, NEW n \in Requests
               PROVE  OrderInv!(i, j)!(n)'
    BY DEF OrderInv
  <2>1. i + 1 \in Queue /\ j + 1 \in Queue /\ i + 1 < j + 1
        /\ textEvents'[i] = textEvents[i + 1] /\ textEvents'[j] = textEvents[j + 1]
    BY <1>1
  <2> QED
    BY <2>1 DEF QueueInv, OrderInv, QueuesText, QueuesCreated, QueuesResponse, Earlier
<1>5. LastInv'
  <2> SUFFICES ASSUME NEW i \in Queue', NEW n \in logged, textEvents'[i].req = n
               PROVE  \E j \in Queue' : j >= i /\ QueuesResponse(j, n)'
    BY <1>2 DEF LastInv
  <2>1. PICK j \in Queue : j >= i + 1 /\ QueuesResponse(j, n)
    BY <1>1 DEF QueueInv, LastInv
  <2>2. j - 1 \in Queue' /\ j - 1 >= i /\ textEvents'[j - 1] = textEvents[j]
    BY <1>1, <2>1
  <2> QED
    BY <2>1, <2>2 DEF QueuesResponse
<1> QED
  BY <1>3, <1>4, <1>5 DEF QueueInv

\* A request that says something, or whose result is logged, is the last in
\* the queue.
LEMMA QueuePushed ==
    ASSUME TextTypeOK, StageInv, QueueInv, [TextNext]_textVars,
           NEW n \in Requests, NEW e \in TextEvents, PushText(e), e.req = n,
           stage' = stage, stage[n] \in {"provider", "returned"}, n \notin logged,
           IF e.kind = "response" THEN logged' = logged \cup {n} ELSE logged' = logged,
           e.kind = "text" => Said(n, e.piece)' /\ ~Said(n, e.piece) /\ attempt[n] <= e.piece[1],
           e.kind = "created" => e.attempt = attempt[n] /\ attempt'[n] = attempt[n]
    PROVE  QueueInv'
<1> DEFINE last == Len(textEvents')
<1>1. /\ \A i \in Queue : i \in Queue' /\ textEvents'[i] = textEvents[i] /\ i < last /\ i \in Nat
      /\ last \in Queue' /\ textEvents'[last] = e /\ last \in Nat
      /\ \A i \in Queue' : (i \in Queue \/ i = last) /\ i \in Nat /\ i <= last
  BY Pushed DEF Queue
<1>2. logged \subseteq logged' /\ logged' \subseteq logged \cup {n} /\ logged' \subseteq Requests
  BY DEF TextTypeOK
<1>3. /\ e.kind \in {"created", "text", "response"}
      /\ e.kind = "text" => e.piece[1] \in Nat /\ e.piece[2] \in Nat
      /\ e.kind = "created" => e.attempt \in Nat
  BY EventFields, TextNumbers DEF Pieces
<1>4. /\ \A i \in Queue : QueuesText(i, n) => Said(n, textEvents[i].piece)
      /\ \A i \in Queue : QueuesCreated(i, n) => textEvents[i].attempt <= attempt[n]
      /\ \A i \in Queue : ~QueuesResponse(i, n)
  BY DEF QueueInv, OriginInv
<1>5. attempt[n] \in Nat /\ pieces[n] \in Nat
  BY DEF TextTypeOK
<1> HIDE DEF last
<1>6. OriginInv'
  <2> SUFFICES ASSUME NEW i \in Queue', NEW m \in Requests, textEvents'[i].req = m
               PROVE  OriginInv!(i)!(m)'
    BY DEF OriginInv, QueuesText, QueuesCreated, QueuesResponse
  <2>1. CASE i \in Queue
    <3>1. textEvents'[i] = textEvents[i]
      BY <1>1, <2>1
    <3>2. textEvents[i].kind = "text" => textEvents[i].piece \in Pieces
      BY <2>1, QueuedFields
    <3>3. QueuesCreated(i, m) => textEvents[i].attempt <= attempt[m] /\ textEvents[i].attempt \in Nat
      BY <2>1, QueuedFields, TextNumbers DEF QueueInv, OriginInv, QueuesCreated
    <3>4. attempt[m] <= attempt'[m] /\ attempt[m] \in Nat /\ attempt'[m] \in Nat
      BY SaidStays
    <3>5. QueuesCreated(i, m) => textEvents[i].attempt <= attempt'[m]
      BY <3>3, <3>4
    <3>6. QueuesText(i, m) => Said(m, textEvents[i].piece)'
      BY <2>1, <3>1, <3>2, SaidStays DEF QueueInv, OriginInv, QueuesText
    <3> QED
      BY <1>2, <2>1, <3>1, <3>5, <3>6
         DEF QueueInv, OriginInv, QueuesText, QueuesCreated, QueuesResponse, Said
  <2>2. CASE i = last
    <3>1. textEvents'[i] = e /\ m = n
      BY <1>1, <2>2
    <3> QED
      BY <1>5, <3>1 DEF QueuesText, QueuesCreated, QueuesResponse, Said
  <2> QED
    BY <1>1, <2>1, <2>2
<1>7. OrderInv'
  <2> SUFFICES ASSUME NEW i \in Queue', NEW j \in Queue', i < j, NEW m \in Requests
               PROVE  OrderInv!(i, j)!(m)'
    BY DEF OrderInv
  <2>1. i \in Queue
    <3>1. i \in Nat /\ j \in Nat /\ last \in Nat /\ j <= last
      BY <1>1
    <3>2. i # last
      BY <3>1
    <3> QED
      BY <1>1, <3>2
  <2>2. CASE j \in Queue
    BY <1>1, <2>1, <2>2 DEF QueueInv, OrderInv, QueuesText, QueuesCreated, QueuesResponse, Earlier
  <2>3. CASE j = last
    <3>1. textEvents'[i] = textEvents[i] /\ textEvents'[j] = e
      BY <1>1, <2>1, <2>3
    <3>2. /\ textEvents[i].kind = "text" => textEvents[i].piece[1] \in Nat /\ textEvents[i].piece[2] \in Nat
          /\ textEvents[i].kind = "created" => textEvents[i].attempt \in Nat
      BY <2>1, QueuedFields, TextNumbers
    <3>3. QueuesText(i, n) /\ e.kind = "text" => Earlier(textEvents[i].piece, e.piece)
      BY <1>3, <1>4, <1>5, <2>1, <3>2 DEF Earlier, Said, QueuesText
    <3>4. QueuesCreated(i, n) /\ e.kind = "text" => textEvents[i].attempt <= e.piece[1]
      BY <1>3, <1>4, <1>5, <2>1, <3>2 DEF QueuesCreated
    <3>5. QueuesCreated(i, n) /\ e.kind = "created" => textEvents[i].attempt <= e.attempt
      BY <1>3, <1>4, <1>5, <2>1, <3>2 DEF QueuesCreated
    <3> QED
      BY <1>4, <2>1, <3>1, <3>3, <3>4, <3>5 DEF QueuesText, QueuesCreated, QueuesResponse, Earlier
  <2> QED
    BY <1>1, <2>2, <2>3
<1>8. LastInv'
  <2> SUFFICES ASSUME NEW i \in Queue', NEW m \in logged', textEvents'[i].req = m
               PROVE  \E j \in Queue' : j >= i /\ QueuesResponse(j, m)'
    BY DEF LastInv
  <2>1. CASE m = n
    <3>1. e.kind = "response"
      BY <2>1
    <3> QED
      BY <1>1, <2>1, <3>1 DEF QueuesResponse
  <2>2. CASE m # n
    <3>1. i \in Queue /\ m \in logged /\ textEvents[i].req = m
      BY <1>1, <1>2, <2>2
    <3>2. PICK j \in Queue : j >= i /\ QueuesResponse(j, m)
      BY <3>1 DEF QueueInv, LastInv
    <3> QED
      BY <1>1, <3>2 DEF QueuesResponse
  <2> QED
    BY <2>1, <2>2
<1> QED
  BY <1>6, <1>7, <1>8 DEF QueueInv

\* A step that leaves the queue alone leaves what is queued where it was.
LEMMA QueueStays ==
    ASSUME TextTypeOK, StageInv, QueueInv, [TextNext]_textVars,
           UNCHANGED <<textEvents, logged>>,
           \A n \in Requests : stage[n] \in {"provider", "returned"} =>
                                  stage'[n] \in {"provider", "returned"}
    PROVE  QueueInv'
<1>1. OriginInv'
  <2> SUFFICES ASSUME NEW i \in Queue, NEW n \in Requests, textEvents[i].req = n
               PROVE  OriginInv!(i)!(n)'
    BY DEF OriginInv, Queue, QueuesText, QueuesCreated, QueuesResponse
  <2>1. textEvents[i].kind = "text" => textEvents[i].piece \in Pieces
    BY QueuedFields
  <2>2. QueuesText(i, n) => Said(n, textEvents[i].piece)'
    BY <2>1, SaidStays DEF QueueInv, OriginInv, QueuesText
  <2>3. QueuesCreated(i, n) => textEvents[i].attempt <= attempt'[n]
    <3>1. QueuesCreated(i, n) => textEvents[i].attempt <= attempt[n] /\ textEvents[i].attempt \in Nat
      BY QueuedFields, TextNumbers DEF QueueInv, OriginInv, QueuesCreated
    <3> QED
      BY <3>1, SaidStays
  <2> QED
    BY <2>2, <2>3 DEF QueueInv, OriginInv, QueuesText, QueuesCreated, QueuesResponse, Said
<1>2. OrderInv' /\ LastInv'
  BY DEF QueueInv, OrderInv, LastInv, Queue, QueuesText, QueuesCreated, QueuesResponse
<1> QED
  BY <1>1, <1>2 DEF QueueInv

\* The queue has what was said, in order.
LEMMA QueueStep ==
    TextTypeOK /\ StageInv /\ QueueInv /\ [TextNext]_textVars => QueueInv'
<1> SUFFICES ASSUME TextTypeOK, StageInv, QueueInv, [TextNext]_textVars
             PROVE  QueueInv'
  OBVIOUS
<1>0. stage \in [Requests -> {"none", "called", "provider", "returned"}]
  BY DEF TextTypeOK
<1>1. ASSUME NEW n \in Requests, CallsModel(n) \/ Enters(n) \/ Returns(n) PROVE QueueInv'
  <2>1. UNCHANGED <<textEvents, logged>>
        /\ \A m \in Requests : stage[m] \in {"provider", "returned"} =>
                                  stage'[m] \in {"provider", "returned"}
    BY <1>0, <1>1 DEF CallsModel, Enters, Returns, Goes
  <2> QED
    BY <2>1, QueueStays
<1>2. ASSUME NEW n \in Requests, Retries(n) \/ Replaces(n) PROVE QueueInv'
  BY <1>2, QueueStays DEF Retries, Replaces
<1>3. ASSUME NEW n \in Requests, Announces(n) PROVE QueueInv'
  <2>1. PICK e \in TextEvents :
            PushText(e) /\ e.kind = "created" /\ e.req = n /\ e.attempt = attempt[n]
    BY <1>3, WhatIsAnnounced
  <2>2. /\ UNCHANGED <<stage, logged, attempt>>
        /\ stage[n] \in {"provider", "returned"} /\ n \notin logged
    BY <1>3 DEF Announces, StageInv
  <2> QED
    BY <2>1, <2>2, QueuePushed
<1>4. ASSUME NEW n \in Requests, Streams(n) PROVE QueueInv'
  <2>1. PICK e \in TextEvents :
            /\ PushText(e) /\ e.kind = "text" /\ e.req = n
            /\ e.piece = <<attempt[n], pieces[n] + 1>>
            /\ Said(n, e.piece)' /\ ~Said(n, e.piece)
    BY <1>4, WhatIsStreamed
  <2>2. /\ UNCHANGED <<stage, logged>>
        /\ stage[n] \in {"provider", "returned"} /\ n \notin logged
    BY <1>4 DEF Streams, StageInv
  <2>3. attempt[n] <= e.piece[1]
    BY <2>1 DEF TextTypeOK
  <2> QED
    BY <2>1, <2>2, <2>3, QueuePushed
<1>5. ASSUME NEW n \in Requests, Logs(n) PROVE QueueInv'
  <2> DEFINE e == [kind |-> "response", req |-> n]
  <2>1. e \in TextEvents
    BY DEF TextEvents
  <2>2. /\ PushText(e) /\ stage' = stage /\ logged' = logged \cup {n}
        /\ stage[n] \in {"provider", "returned"} /\ n \notin logged
    BY <1>5 DEF Logs, Over
  <2>3. e.kind = "response" /\ e.req = n
    OBVIOUS
  <2> HIDE DEF e
  <2> QED
    BY <2>1, <2>2, <2>3, QueuePushed
<1>6. CASE Cancels
  BY <1>6, QueueStays DEF Cancels
<1>7. CASE TextActor
  BY <1>7, QueuePopped DEF TextActor, HandleCreated, HandleText, HandleResponse
<1>8. CASE UNCHANGED textVars
  BY <1>8, QueueStays DEF textVars, gateVars
<1> QED
  BY <1>1, <1>2, <1>3, <1>4, <1>5, <1>6, <1>7, <1>8 DEF TextNext, TextRequest

-----------------------------------------------------------------------------
(* What is shown. *)

\* A response that is handled stays handled.
LEMMA HandledStays ==
    ASSUME TextTypeOK, StageInv, [TextNext]_textVars, NEW n \in Requests, IsHandled(n)
    PROVE  IsHandled(n)'
<1>0. n \in logged /\ \A i \in Queue : ~QueuesResponse(i, n)
  BY HandledIs
<1>1. ASSUME n \in logged', \A i \in Queue' : ~QueuesResponse(i, n)' PROVE IsHandled(n)'
  BY <1>1 DEF IsHandled, Queue, QueuesResponse
<1>2. ASSUME UNCHANGED <<textEvents, logged>> PROVE IsHandled(n)'
  BY <1>0, <1>1, <1>2 DEF Queue, QueuesResponse
<1>3. ASSUME NEW e \in TextEvents, PushText(e), logged \subseteq logged',
             ~(e.kind = "response" /\ e.req = n)
      PROVE  IsHandled(n)'
  BY <1>0, <1>1, <1>3, Pushed DEF QueuesResponse
<1>4. ASSUME NEW m \in Requests, Announces(m) PROVE IsHandled(n)'
  <2>1. PICK e \in TextEvents : PushText(e) /\ e.kind = "created"
    BY <1>4, WhatIsAnnounced
  <2> QED
    BY <1>3, <1>4, <2>1 DEF Announces
<1>5. ASSUME NEW m \in Requests, Streams(m) PROVE IsHandled(n)'
  <2>1. PICK e \in TextEvents : PushText(e) /\ e.kind = "text"
    BY <1>5, WhatIsStreamed
  <2> QED
    BY <1>3, <1>5, <2>1 DEF Streams
<1>6. ASSUME NEW m \in Requests, Logs(m) PROVE IsHandled(n)'
  <2>1. PICK e \in TextEvents : e = [kind |-> "response", req |-> m]
    BY DEF TextEvents
  <2>2. m # n
    BY <1>0, <1>6 DEF Logs, Over
  <2> QED
    BY <1>3, <1>6, <2>1, <2>2 DEF Logs
<1>7. ASSUME NEW kind, HandlesText(kind) PROVE IsHandled(n)'
  <2>1. \A i \in Queue' : i + 1 \in Queue /\ textEvents'[i] = textEvents[i + 1]
    BY <1>7, Handled
  <2>2. logged' = logged
    BY <1>7 DEF HandlesText, gateVars
  <2> QED
    BY <1>0, <1>1, <2>1, <2>2 DEF QueuesResponse
<1> QED
  BY <1>2, <1>4, <1>5, <1>6, <1>7
     DEF TextNext, TextRequest, CallsModel, Enters, Retries, Returns, Replaces, Cancels,
         TextActor, HandleCreated, HandleText, HandleResponse, textVars, gateVars

\* Nothing is shown.
LEMMA ShownInit == TextInit => ShownInv /\ SaidOnce
BY DEF TextInit, ShownInv, SaidOnce

\* The text that is shown is made of pieces.
LEMMA ShownPieces ==
    ASSUME TextTypeOK, NEW n \in Requests, NEW k \in Keys
    PROVE  /\ shown[n][k] \in Texts /\ Len(shown[n][k]) \in Nat
           /\ \A i \in 1 .. Len(shown[n][k]) :
                 /\ shown[n][k][i] \in Pieces
                 /\ shown[n][k][i][1] \in 1 .. MaxAttempts
                 /\ shown[n][k][i][2] \in 1 .. MaxPieces
<1>1. shown[n][k] \in Texts
  BY DEF TextTypeOK
<1>2. \A p \in Pieces : p[1] \in 1 .. MaxAttempts /\ p[2] \in 1 .. MaxPieces
  BY DEF Pieces
<1> QED
  BY <1>1, <1>2 DEF Texts

\* A step of a request: what is shown was said, and what is said now is later.
LEMMA ShownWhileSaying ==
    ASSUME TextTypeOK, StageInv, QueueInv, ShownInv, [TextNext]_textVars,
           UNCHANGED <<shown, streamed>>,
           \A m \in Requests : \A i \in Queue' : QueuesText(i, m)' =>
              \/ \E j \in Queue : QueuesText(j, m) /\ textEvents[j].piece = textEvents'[i].piece
              \/ textEvents'[i].piece \in Pieces /\ ~Said(m, textEvents'[i].piece)
    PROVE  ShownInv'
<1> SUFFICES ASSUME NEW n \in Requests, ~IsHandled(n)', NEW k \in Keys
             PROVE  ShownInv!(n)!2!(k)'
  BY DEF ShownInv
<1>1. ~IsHandled(n)
  BY HandledStays
<1>2. \A p \in Pieces : Said(n, p) => Said(n, p)'
  BY SaidStays
<1>3. ASSUME NEW i \in 1 .. Len(shown[n][k]), NEW j \in Queue', QueuesText(j, n)'
      PROVE  Earlier(shown[n][k][i], textEvents'[j].piece)
  <2>1. Said(n, shown[n][k][i])
    BY <1>1 DEF ShownInv
  <2>2. ASSUME textEvents'[j].piece \in Pieces, ~Said(n, textEvents'[j].piece)
        PROVE  Earlier(shown[n][k][i], textEvents'[j].piece)
    <3>1. textEvents'[j].piece[1] \in Nat /\ textEvents'[j].piece[2] \in Nat
      BY <2>2, PieceNumbers
    <3>2. shown[n][k][i][1] \in 1 .. MaxAttempts /\ shown[n][k][i][2] \in 1 .. MaxPieces
      BY ShownPieces
    <3>3. attempt[n] \in Nat /\ pieces[n] \in Nat
      BY DEF TextTypeOK
    <3> QED
      BY <2>1, <2>2, <3>1, <3>2, <3>3, SMTT(30) DEF Said, Earlier
  <2> QED
    BY <1>1, <1>3, <2>2 DEF ShownInv
<1> QED
  BY <1>1, <1>2, <1>3, ShownPieces DEF ShownInv

\* The actor shows the first of what is queued of a request.
LEMMA ShownByText ==
    ASSUME TextTypeOK, StageInv, QueueInv, ShownInv, SaidOnce, HandleText, [TextNext]_textVars
    PROVE  ShownInv' /\ SaidOnce'
<1>1. HandlesText("text") /\ UNCHANGED <<attempt, pieces>>
  BY DEF HandleText, HandlesText, gateVars
<1>0. PICK e, m, a : e = Head(textEvents) /\ m = e.req /\ a = LiveKey(m)
  OBVIOUS
<1>2. /\ 1 \in Queue /\ e = textEvents[1] /\ e.kind = "text" /\ e \in TextEvents
      /\ \A i \in Queue' : i + 1 \in Queue /\ 1 < i + 1 /\ textEvents'[i] = textEvents[i + 1]
  BY <1>0, <1>1, Handled DEF Queue
<1>3. m \in Requests /\ a \in Keys /\ e.piece \in Pieces
  BY <1>0, <1>2, EventFields, TextNumbers DEF LiveKey, TextTypeOK
<1>4. IF m = newest
        THEN /\ shown' = [shown EXCEPT ![m] = [shown[m] EXCEPT ![a] = Append(@, e.piece)]]
             /\ streamed' = streamed \cup {m}
        ELSE UNCHANGED <<shown, streamed>>
  BY <1>0 DEF HandleText
<1>5. QueuesText(1, m) /\ ~IsHandled(m)
  BY <1>0, <1>2, <1>3, HandledHasNothing DEF QueuesText
<1>6. \A n \in Requests : \A i \in Queue' : QueuesText(i, n)' => QueuesText(i + 1, n)
  BY <1>2 DEF QueuesText
<1>7. \A i \in Queue' : QueuesText(i, m)' => Earlier(e.piece, textEvents'[i].piece)
  BY <1>2, <1>3, <1>5, <1>6 DEF QueueInv, OrderInv
<1>8. Said(m, e.piece)
  BY <1>2, <1>3, <1>5 DEF QueueInv, OriginInv
<1>9. \A k \in Keys : \A i \in 1 .. Len(shown[m][k]) :
          Said(m, shown[m][k][i]) /\ Earlier(shown[m][k][i], e.piece)
  BY <1>2, <1>3, <1>5 DEF ShownInv
<1>10. \A n \in Requests, k \in Keys :
          shown'[n][k] = IF n = m /\ k = a /\ m = newest THEN Append(shown[m][a], e.piece)
                         ELSE shown[n][k]
  <2> SUFFICES ASSUME NEW n \in Requests, NEW k \in Keys
               PROVE  shown'[n][k] = IF n = m /\ k = a /\ m = newest
                                     THEN Append(shown[m][a], e.piece) ELSE shown[n][k]
    OBVIOUS
  <2>1. shown \in [Requests -> [Keys -> Texts]] /\ shown[m] \in [Keys -> Texts]
    BY <1>3 DEF TextTypeOK
  <2>2. CASE m = newest
    <3>1. shown'[n] = IF n = m THEN [shown[m] EXCEPT ![a] = Append(@, e.piece)] ELSE shown[n]
      BY <1>4, <2>1, <2>2
    <3> QED
      BY <1>3, <2>1, <2>2, <3>1
  <2>3. CASE m # newest
    BY <1>4, <2>3
  <2> QED
    BY <2>2, <2>3
<1>11. ShownInv'
  <2> SUFFICES ASSUME NEW n \in Requests, ~IsHandled(n)', NEW k \in Keys
               PROVE  ShownInv!(n)!2!(k)'
    BY DEF ShownInv
  <2>1. ~IsHandled(n)
    BY HandledStays
  <2>2. \A p : Said(n, p)' <=> Said(n, p)
    BY <1>1 DEF Said
  <2>3. CASE n = m /\ k = a /\ m = newest
    <3>1. shown'[n][k] = Append(shown[m][a], e.piece) /\ shown[m][a] \in Seq(Pieces)
      BY <1>3, <1>10, <2>3, ShownPieces DEF Texts
    <3>2. \A i \in 1 .. Len(shown'[n][k]) :
             \/ i \in 1 .. Len(shown[m][a]) /\ shown'[n][k][i] = shown[m][a][i]
             \/ shown'[n][k][i] = e.piece
      BY <1>3, <3>1
    <3>3. \A i \in 1 .. Len(shown'[n][k]) : Said(n, shown[n][k][i])'
      <4>1. \A i \in 1 .. Len(shown'[n][k]) : Said(n, shown'[n][k][i])
        BY <1>3, <1>8, <1>9, <2>3, <3>2
      <4> QED
        BY <1>1, <4>1 DEF Said
    <3>4. \A i \in 1 .. Len(shown[m][a]) : \A j \in Queue' :
             QueuesText(j, n)' => Earlier(shown[m][a][i], textEvents'[j].piece)
      BY <1>2, <1>3, <1>5, <1>6, <2>3 DEF ShownInv
    <3>5. n \in streamed'
      BY <1>4, <2>3
    <3> QED
      BY <1>7, <2>3, <3>2, <3>3, <3>4, <3>5
  <2>4. CASE ~(n = m /\ k = a /\ m = newest)
    <3>1. shown'[n][k] = shown[n][k] /\ streamed \subseteq streamed'
      BY <1>4, <1>10, <2>4
    <3> QED
      BY <1>2, <1>6, <2>1, <2>2, <3>1 DEF ShownInv
  <2> QED
    BY <2>3, <2>4
<1>12. SaidOnce'
  <2>1. \A k \in Keys : \A i \in 1 .. Len(shown[m][k]) : shown[m][k][i] # e.piece
    <3> SUFFICES ASSUME NEW k \in Keys, NEW i \in 1 .. Len(shown[m][k]), shown[m][k][i] = e.piece
                 PROVE  FALSE
      OBVIOUS
    <3>1. Earlier(e.piece, e.piece)
      BY <1>9
    <3>2. e.piece[1] \in Nat /\ e.piece[2] \in Nat
      BY <1>3, PieceNumbers
    <3> QED
      BY <3>1, <3>2 DEF Earlier
  <2>2. shown[m][a] \in Seq(Pieces) /\ e.piece \in Pieces
    BY <1>3, ShownPieces DEF Texts
  <2>3. LET t == Append(shown[m][a], e.piece)
        IN  \A i \in 1 .. Len(t) : \/ i \in 1 .. Len(shown[m][a]) /\ t[i] = shown[m][a][i]
                                   \/ i = Len(shown[m][a]) + 1 /\ t[i] = e.piece
    BY <2>2
  <2> SUFFICES ASSUME NEW n \in Requests, NEW k \in Keys, NEW l \in Keys,
                      NEW i \in 1 .. Len(shown'[n][k]), NEW j \in 1 .. Len(shown'[n][l]),
                      shown'[n][k][i] = shown'[n][l][j]
               PROVE  k = l /\ i = j
    BY DEF SaidOnce
  <2>4. CASE n = m /\ m = newest
    <3>1. \/ i \in 1 .. Len(shown[m][k]) /\ shown'[n][k][i] = shown[m][k][i]
          \/ k = a /\ i = Len(shown[m][a]) + 1 /\ shown'[n][k][i] = e.piece
      BY <1>3, <1>10, <2>3, <2>4
    <3>2. \/ j \in 1 .. Len(shown[m][l]) /\ shown'[n][l][j] = shown[m][l][j]
          \/ l = a /\ j = Len(shown[m][a]) + 1 /\ shown'[n][l][j] = e.piece
      BY <1>3, <1>10, <2>3, <2>4
    <3> QED
      BY <1>3, <2>1, <3>1, <3>2 DEF SaidOnce
  <2>5. CASE ~(n = m /\ m = newest)
    BY <1>10, <2>5 DEF SaidOnce
  <2> QED
    BY <2>4, <2>5
<1> QED
  BY <1>11, <1>12

\* The response is the last that is handled of a request.
LEMMA WhatIsAnswered ==
    ASSUME TextTypeOK, StageInv, QueueInv, HandleResponse
    PROVE  \E m \in Requests :
              /\ m = Head(textEvents).req
              /\ QueuesResponse(1, m) /\ m \in logged /\ ~IsHandled(m) /\ IsHandled(m)'
              /\ \A i \in Queue : i # 1 => textEvents[i].req # m
              /\ shown' = [shown EXCEPT ![m] =
                              [shown[m] EXCEPT ![result[m].key] = @ \o Unsaid(m)]]
              /\ streamed' = streamed \ {m} /\ liveKey' = [liveKey EXCEPT ![m] = 0]
              /\ result[m].key \in Keys /\ result[m].text \in Texts
              /\ stage[m] = "returned"
<1>1. HandlesText("response") /\ UNCHANGED logged
  BY DEF HandleResponse, HandlesText, gateVars
<1>2. /\ 1 \in Queue /\ Head(textEvents) = textEvents[1] /\ textEvents[1].kind = "response"
      /\ textEvents[1] \in TextEvents
      /\ \A i \in Queue' : i + 1 \in Queue /\ 1 < i + 1 /\ textEvents'[i] = textEvents[i + 1]
      /\ \A i \in Queue : i # 1 => 1 < i
  BY <1>1, Handled DEF Queue
<1>3. PICK m \in Requests : m = Head(textEvents).req
  BY <1>2, EventFields
<1>4. QueuesResponse(1, m) /\ m \in logged /\ ~IsHandled(m)
  BY <1>2, <1>3, HandledIs DEF QueuesResponse, QueueInv, OriginInv
<1>5. \A i \in Queue : i # 1 => textEvents[i].req # m
  BY <1>2, <1>4 DEF QueueInv, OrderInv
<1>6. IsHandled(m)'
  <2>1. \A i \in Queue' : textEvents'[i].req # m
    BY <1>2, <1>5
  <2> QED
    BY <1>1, <1>4, <2>1 DEF IsHandled, Queue
<1>7. result[m] \in [text : Texts, key : Keys]
  BY DEF TextTypeOK
<1> QED
  BY <1>3, <1>4, <1>5, <1>6, <1>7 DEF HandleResponse, StageInv

\* The text of a response is sent if nothing of its request is shown.
LEMMA ShownByResponse ==
    ASSUME TextTypeOK, StageInv, ResultInv, QueueInv, ShownInv, SaidOnce, HandleResponse,
           [TextNext]_textVars
    PROVE  ShownInv' /\ SaidOnce'
<1>1. PICK m \in Requests :
          /\ ~IsHandled(m) /\ IsHandled(m)'
          /\ shown' = [shown EXCEPT ![m] =
                          [shown[m] EXCEPT ![result[m].key] = @ \o Unsaid(m)]]
          /\ streamed' = streamed \ {m}
          /\ result[m].key \in Keys /\ result[m].text \in Texts
          /\ stage[m] = "returned"
  BY WhatIsAnswered
<1>2. /\ \A i \in Queue' : i + 1 \in Queue /\ textEvents'[i] = textEvents[i + 1]
      /\ UNCHANGED <<attempt, pieces>>
  BY Handled DEF HandleResponse, HandlesText, gateVars
<1>3. shown \in [Requests -> [Keys -> Texts]] /\ shown[m] \in [Keys -> Texts]
  BY DEF TextTypeOK
<1>4. \A n \in Requests : n # m => shown'[n] = shown[n]
  BY <1>1, <1>3
<1>5. ShownInv'
  <2> SUFFICES ASSUME NEW n \in Requests, ~IsHandled(n)', NEW k \in Keys
               PROVE  ShownInv!(n)!2!(k)'
    BY DEF ShownInv
  <2>1. ~IsHandled(n) /\ n # m
    BY <1>1, HandledStays
  <2>2. shown'[n][k] = shown[n][k] /\ (n \in streamed' <=> n \in streamed)
    BY <1>1, <1>4, <2>1
  <2> QED
    BY <1>2, <2>1, <2>2 DEF ShownInv, QueuesText, Said
<1>6. SaidOnce'
  <2> SUFFICES ASSUME NEW k \in Keys, NEW l \in Keys,
                      NEW i \in 1 .. Len(shown'[m][k]), NEW j \in 1 .. Len(shown'[m][l]),
                      shown'[m][k][i] = shown'[m][l][j]
               PROVE  k = l /\ i = j
    BY <1>4 DEF SaidOnce
  <2>1. CASE m \in streamed
    <3>1. \A x \in Keys : shown'[m][x] = shown[m][x]
      <4>1. Unsaid(m) = <<>>
        BY <2>1 DEF Unsaid
      <4>2. shown[m][result[m].key] \o <<>> = shown[m][result[m].key]
        <5>1. shown[m][result[m].key] \in Seq(Pieces)
          BY <1>1, <1>3 DEF Texts
        <5> QED
          BY <5>1
      <4> QED
        BY <1>1, <1>3, <4>1, <4>2
    <3> QED
      BY <3>1 DEF SaidOnce
  <2>2. CASE m \notin streamed
    <3> DEFINE r == result[m]
    <3>1. Unsaid(m) = r.text /\ r.text \in Texts /\ r.key \in Keys
      BY <1>1, <2>2 DEF Unsaid
    <3>2. \A x \in Keys : shown[m][x] = <<>>
      BY <1>1, <2>2 DEF ShownInv
    <3>3. \A x \in Keys : shown'[m][x] = IF x = r.key THEN r.text ELSE <<>>
      <4>1. <<>> \o r.text = r.text
        BY <3>1 DEF Texts
      <4> QED
        BY <1>1, <1>3, <3>1, <3>2, <4>1
    <3>4. r.text = Run(Source(r), Len(r.text))
      BY <1>1 DEF ResultInv
    <3>5. \A x \in 1 .. Len(r.text) : r.text[x] = <<Source(r), x>>
      BY <3>4 DEF Run
    <3> HIDE DEF r
    <3>6. k = r.key /\ l = r.key
      BY <3>3
    <3>7. i \in 1 .. Len(r.text) /\ j \in 1 .. Len(r.text) /\ r.text[i] = r.text[j]
      BY <3>3, <3>6
    <3> QED
      BY <3>5, <3>6, <3>7
  <2> QED
    BY <2>1, <2>2
<1> QED
  BY <1>5, <1>6

\* What is shown is early and said once.
LEMMA ShownStep ==
    TextTypeOK /\ StageInv /\ ResultInv /\ QueueInv /\ ShownInv /\ SaidOnce
    /\ [TextNext]_textVars => ShownInv' /\ SaidOnce'
<1> SUFFICES ASSUME TextTypeOK, StageInv, ResultInv, QueueInv, ShownInv, SaidOnce,
                    [TextNext]_textVars
             PROVE  ShownInv' /\ SaidOnce'
  OBVIOUS
<1>1. ASSUME UNCHANGED <<shown, streamed>>,
             \A m \in Requests : \A i \in Queue' : QueuesText(i, m)' =>
                \/ \E j \in Queue : QueuesText(j, m) /\ textEvents[j].piece = textEvents'[i].piece
                \/ textEvents'[i].piece \in Pieces /\ ~Said(m, textEvents'[i].piece)
      PROVE  ShownInv' /\ SaidOnce'
  <2>1. SaidOnce'
    BY <1>1 DEF SaidOnce
  <2> QED
    BY <1>1, <2>1, ShownWhileSaying
<1>2. ASSUME UNCHANGED <<shown, streamed, textEvents>> PROVE ShownInv' /\ SaidOnce'
  BY <1>1, <1>2 DEF Queue, QueuesText
<1>3. ASSUME UNCHANGED <<shown, streamed>>, NEW e \in TextEvents, PushText(e),
             e.kind = "text" => e.piece \in Pieces /\ ~Said(e.req, e.piece)
      PROVE  ShownInv' /\ SaidOnce'
  <2>1. \A i \in Queue' : textEvents'[i] = e \/ (i \in Queue /\ textEvents'[i] = textEvents[i])
    BY <1>3, Pushed
  <2> QED
    BY <1>1, <1>3, <2>1 DEF QueuesText
<1>4. ASSUME NEW n \in Requests, Announces(n) PROVE ShownInv' /\ SaidOnce'
  BY <1>3, <1>4, WhatIsAnnounced DEF Announces, actorVars
<1>5. ASSUME NEW n \in Requests, Streams(n) PROVE ShownInv' /\ SaidOnce'
  BY <1>3, <1>5, WhatIsStreamed DEF Streams, actorVars
<1>6. ASSUME NEW n \in Requests, Logs(n) PROVE ShownInv' /\ SaidOnce'
  <2>1. PICK e \in TextEvents : e = [kind |-> "response", req |-> n]
    BY DEF TextEvents
  <2> QED
    BY <1>3, <1>6, <2>1 DEF Logs, actorVars
<1>7. CASE HandleCreated
  <2>1. \A i \in Queue' : i + 1 \in Queue /\ textEvents'[i] = textEvents[i + 1]
    BY <1>7, Handled DEF HandleCreated
  <2> QED
    BY <1>1, <1>7, <2>1 DEF HandleCreated, QueuesText
<1>8. CASE HandleText \/ HandleResponse
  BY <1>8, ShownByText, ShownByResponse
<1> QED
  BY <1>2, <1>4, <1>5, <1>6, <1>7, <1>8
     DEF TextNext, TextRequest, CallsModel, Enters, Retries, Returns, Replaces, Cancels,
         TextActor, textVars, actorVars

-----------------------------------------------------------------------------
(* Under which id the actor shows a text. *)

\* There are no keys.
LEMMA KeyInit == TextInit => KeyInv
BY TextNumbers DEF TextInit, KeyInv, Queue

\* The numbers that are compared are numbers.
LEMMA KeyNumbers ==
    ASSUME TextTypeOK, NEW n \in Requests
    PROVE  liveKey[n] \in Nat /\ attempt[n] \in Nat /\ created[n] \in Nat /\ MaxAttempts \in Nat
BY TextNumbers DEF TextTypeOK

\* What leaves the queue, the newest request and the keys alone.
LEMMA KeyStays ==
    ASSUME TextTypeOK, StageInv, KeyInv, [TextNext]_textVars,
           UNCHANGED <<announces, textEvents, newest, liveKey>>,
           \A n \in Requests : stage'[n] = "provider" /\ created'[n] = attempt'[n] =>
              stage[n] = "provider" /\ created[n] = attempt[n] /\ attempt'[n] = attempt[n]
    PROVE  KeyInv'
<1> SUFFICES ASSUME announces, NEW n \in Requests
             PROVE  KeyInv!2!(n)'
  BY DEF KeyInv
<1>1. liveKey[n] <= attempt'[n]
  BY KeyNumbers, SaidStays DEF KeyInv
<1> QED
  BY <1>1 DEF KeyInv, Queue, QueuesText, QueuesCreated, QueuesId

\* An id is queued before the text of its attempt.
LEMMA KeyPushed ==
    ASSUME TextTypeOK, StageInv, KeyInv,
           UNCHANGED <<announces, stage, attempt, newest, liveKey>>,
           NEW e \in TextEvents, PushText(e), NEW m \in Requests, m = e.req,
           e.kind = "created" => e.attempt = attempt[m] /\ created' = [created EXCEPT ![m] = attempt[m]],
           e.kind = "text" =>
              e.piece[1] = attempt[m] /\ stage[m] = "provider" /\ (announces => created[m] = attempt[m]),
           e.kind # "created" => created' = created
    PROVE  KeyInv'
<1> SUFFICES ASSUME announces, NEW n \in Requests
             PROVE  KeyInv!2!(n)'
  BY DEF KeyInv
<1>1. /\ \A i \in Queue : i \in Queue' /\ textEvents'[i] = textEvents[i] /\ i < Len(textEvents')
      /\ Len(textEvents') \in Queue' /\ textEvents'[Len(textEvents')] = e
      /\ \A i \in Queue' : i \in Queue \/ i = Len(textEvents')
  BY Pushed DEF Queue
<1>2. \A j \in Queue : \A a : QueuesId(j, n, a) => QueuesId(j, n, a)'
  BY <1>1 DEF QueuesId, QueuesCreated
<1>3. liveKey[n] <= attempt[n] /\ liveKey[n] \in Nat /\ attempt[n] \in Nat
  BY KeyNumbers DEF KeyInv
<1>4. ASSUME n = newest, NEW i \in Queue', QueuesCreated(i, n)'
      PROVE  textEvents'[i].attempt >= liveKey[n]
  <2>1. CASE i \in Queue
    BY <1>1, <1>4, <2>1 DEF KeyInv, QueuesCreated
  <2>2. CASE i = Len(textEvents')
    BY <1>1, <1>3, <1>4, <2>2 DEF QueuesCreated
  <2> QED
    BY <1>1, <2>1, <2>2
<1>5. ASSUME n = newest, NEW i \in Queue', QueuesText(i, n)'
      PROVE  /\ textEvents'[i].piece[1] >= liveKey[n]
             /\ \/ textEvents'[i].piece[1] = liveKey[n]
                \/ \E j \in Queue' : j < i /\ QueuesId(j, n, textEvents[i].piece[1])'
  <2>1. CASE i \in Queue
    <3>1. QueuesText(i, n) /\ textEvents'[i] = textEvents[i]
      BY <1>1, <1>5, <2>1 DEF QueuesText
    <3> QED
      BY <1>1, <1>5, <2>1, <3>1 DEF KeyInv, QueuesId, QueuesCreated
  <2>2. CASE i = Len(textEvents')
    <3>1. textEvents'[i] = e /\ e.kind = "text" /\ m = n
      BY <1>1, <1>5, <2>2 DEF QueuesText
    <3>2. liveKey[n] = attempt[n] \/ \E j \in Queue : QueuesId(j, n, attempt[n])
      BY <1>5, <3>1 DEF KeyInv
    <3> QED
      BY <1>1, <1>3, <2>2, <3>1, <3>2 DEF QueuesId, QueuesCreated
  <2> QED
    BY <1>1, <2>1, <2>2
<1>6. ASSUME n = newest, stage[n] = "provider", created'[n] = attempt[n]
      PROVE  liveKey[n] = attempt[n] \/ \E j \in Queue' : QueuesId(j, n, attempt[n])'
  <2>1. CASE e.kind = "created" /\ m = n
    BY <1>1, <2>1 DEF QueuesId, QueuesCreated
  <2>2. CASE ~(e.kind = "created" /\ m = n)
    <3>1. created'[n] = created[n]
      BY <2>2 DEF TextTypeOK
    <3>2. liveKey[n] = attempt[n] \/ \E j \in Queue : QueuesId(j, n, attempt[n])
      BY <1>6, <3>1 DEF KeyInv
    <3>3. ASSUME NEW j \in Queue, QueuesId(j, n, attempt[n])
          PROVE  j \in Queue' /\ QueuesId(j, n, attempt[n])'
      BY <1>1, <1>2, <3>3 DEF QueuesId, QueuesCreated
    <3> QED
      BY <3>2, <3>3
  <2> QED
    BY <2>1, <2>2
<1> QED
  BY <1>3, <1>4, <1>5, <1>6 DEF KeyInv

\* The actor takes an event; an id of the newest request becomes its key.
LEMMA KeyPopped ==
    ASSUME TextTypeOK, StageInv, QueueInv, KeyInv, TextActor
    PROVE  KeyInv'
<1> SUFFICES ASSUME announces, NEW n \in Requests
             PROVE  KeyInv!2!(n)'
  BY DEF KeyInv, TextActor, HandleCreated, HandleText, HandleResponse, HandlesText, gateVars
<1>1. PICK kind : HandlesText(kind)
  BY DEF TextActor, HandleCreated, HandleText, HandleResponse
<1>2. /\ \A i \in Queue' : i + 1 \in Queue /\ 1 < i + 1 /\ i + 1 # 1 /\ textEvents'[i] = textEvents[i + 1]
      /\ \A i \in Queue : i \in Nat /\ (i # 1 => i - 1 \in Queue' /\ textEvents'[i - 1] = textEvents[i])
      /\ \A i \in Queue' : i \in Nat
      /\ 1 \in Queue /\ Head(textEvents) = textEvents[1] /\ textEvents[1].kind = kind
      /\ textEvents[1] \in TextEvents
  <2>1. \A i \in Queue' : i \in Nat /\ 1 < i + 1 /\ i + 1 # 1
    BY DEF Queue
  <2>2. \A i \in Queue : i \in Nat
    BY DEF Queue
  <2> QED
    BY <1>1, <2>1, <2>2, Handled
<1>3. UNCHANGED <<stage, attempt, created, newest>>
  BY <1>1 DEF HandlesText, gateVars
<1>4. liveKey[n] \in Nat /\ attempt[n] \in Nat /\ liveKey[n] <= attempt[n]
  BY KeyNumbers DEF KeyInv
<1>5. CASE QueuesCreated(1, n) /\ n = newest
  <2>1. kind = "created" /\ liveKey'[n] = textEvents[1].attempt
    <3>1. kind = "created" /\ HandleCreated
      BY <1>1, <1>2, <1>5
         DEF TextActor, HandleCreated, HandleText, HandleResponse, HandlesText, QueuesCreated
    <3>2. liveKey' = [liveKey EXCEPT ![n] = textEvents[1].attempt]
      BY <1>2, <1>5, <3>1 DEF HandleCreated, QueuesCreated
    <3> QED
      BY <3>1, <3>2 DEF TextTypeOK
  <2>2. textEvents[1].attempt <= attempt[n] /\ textEvents[1].attempt \in Nat
        /\ textEvents[1].attempt >= liveKey[n]
    BY <1>2, <1>5, QueuedFields, TextNumbers DEF QueueInv, OriginInv, QueuesCreated, KeyInv
  <2>3. ASSUME NEW i \in Queue', QueuesCreated(i, n)'
        PROVE  textEvents'[i].attempt >= liveKey'[n]
    <3>1. QueuesCreated(i + 1, n) /\ textEvents'[i].attempt \in Nat
      BY <1>2, <2>3, QueuedFields, TextNumbers DEF QueuesCreated
    <3>2. textEvents[1].attempt <= textEvents[i + 1].attempt
      BY <1>2, <1>5, <3>1 DEF QueueInv, OrderInv
    <3> QED
      BY <1>2, <2>1, <2>2, <3>1, <3>2
  <2>4. ASSUME NEW i \in Queue', QueuesText(i, n)'
        PROVE  /\ textEvents'[i].piece[1] >= liveKey'[n]
               /\ \/ textEvents'[i].piece[1] = liveKey'[n]
                  \/ \E j \in Queue' : j < i /\ QueuesId(j, n, textEvents[i].piece[1])'
    <3>1. QueuesText(i + 1, n) /\ textEvents'[i].piece[1] \in Nat
      BY <1>2, <2>4, QueuedFields, TextNumbers DEF QueuesText
    <3>2. textEvents[1].attempt <= textEvents[i + 1].piece[1]
      BY <1>2, <1>5, <3>1 DEF QueueInv, OrderInv
    <3>3. CASE textEvents[i + 1].piece[1] = liveKey[n]
      BY <1>2, <1>4, <2>1, <2>2, <3>1, <3>2, <3>3
    <3>4. CASE \E j \in Queue : j < i + 1 /\ QueuesId(j, n, textEvents[i + 1].piece[1])
      <4>1. PICK j \in Queue : j < i + 1 /\ QueuesId(j, n, textEvents[i + 1].piece[1])
        BY <3>4
      <4>2. CASE j = 1
        BY <1>2, <2>1, <2>2, <3>1, <4>1, <4>2 DEF QueuesId
      <4>3. CASE j # 1
        <5>1. j - 1 \in Queue' /\ textEvents'[j - 1] = textEvents[j] /\ j - 1 < i
          BY <1>2, <4>1, <4>3
        <5> QED
          BY <1>2, <2>1, <2>2, <3>1, <3>2, <4>1, <5>1 DEF QueuesId, QueuesCreated
      <4> QED
        BY <4>2, <4>3
    <3> QED
      BY <1>2, <1>5, <3>1, <3>3, <3>4 DEF KeyInv
  <2>5. ASSUME stage[n] = "provider", created[n] = attempt[n]
        PROVE  liveKey'[n] = attempt[n] \/ \E j \in Queue' : QueuesId(j, n, attempt[n])'
    <3>1. CASE liveKey[n] = attempt[n]
      BY <1>4, <2>1, <2>2, <3>1
    <3>2. CASE \E j \in Queue : QueuesId(j, n, attempt[n])
      <4>1. PICK j \in Queue : QueuesId(j, n, attempt[n])
        BY <3>2
      <4>2. CASE j = 1
        BY <2>1, <4>1, <4>2 DEF QueuesId
      <4>3. CASE j # 1
        <5>1. j - 1 \in Queue' /\ textEvents'[j - 1] = textEvents[j]
          BY <1>2, <4>3
        <5> QED
          BY <1>3, <4>1, <5>1 DEF QueuesId, QueuesCreated
      <4> QED
        BY <4>2, <4>3
    <3> QED
      BY <1>5, <2>5, <3>1, <3>2 DEF KeyInv
  <2> QED
    BY <1>3, <2>1, <2>2, <2>3, <2>4, <2>5 DEF KeyInv
<1>6. CASE QueuesResponse(1, n)
  <2>1. HandleResponse
    BY <1>1, <1>2, <1>6 DEF TextActor, HandleCreated, HandleText, HandlesText, QueuesResponse
  <2>2. liveKey'[n] = 0 /\ stage[n] = "returned"
    BY <1>2, <1>6, <2>1, WhatIsAnswered DEF QueuesResponse, TextTypeOK
  <2>3. \A i \in Queue' : textEvents'[i].req # n
    BY <1>2, <1>6 DEF QueueInv, OrderInv
  <2> QED
    BY <1>3, <1>4, <2>2, <2>3 DEF QueuesText, QueuesCreated
<1>7. CASE ~(QueuesCreated(1, n) /\ n = newest) /\ ~QueuesResponse(1, n)
  <2>1. n = newest => \A a : ~QueuesId(1, n, a)
    BY <1>7 DEF QueuesId
  <2>2. liveKey'[n] = liveKey[n] \/ (liveKey'[n] <= attempt[n] /\ n # newest)
    <3>1. CASE HandleCreated
      BY <1>2, <1>7, <3>1 DEF HandleCreated, HandlesText, QueuesCreated, TextTypeOK
    <3>2. CASE HandleText
      <4>1. CASE QueuesText(1, n) /\ n = newest
        <5>1. textEvents[1].piece[1] = liveKey[n] /\ textEvents[1].piece[1] \in 1 .. MaxAttempts
          BY <1>2, <4>1, QueuedFields DEF KeyInv, QueuesText, Queue
        <5>2. LiveKey(n) = liveKey[n]
          BY <5>1, TextNumbers DEF LiveKey
        <5> QED
          BY <1>2, <3>2, <4>1, <5>2 DEF HandleText, QueuesText, TextTypeOK
      <4>2. CASE ~(QueuesText(1, n) /\ n = newest)
        BY <1>2, <3>2, <4>2 DEF HandleText, HandlesText, QueuesText, TextTypeOK
      <4> QED
        BY <4>1, <4>2
    <3>3. CASE HandleResponse
      BY <1>2, <1>7, <3>3 DEF HandleResponse, HandlesText, QueuesResponse, TextTypeOK
    <3> QED
      BY <3>1, <3>2, <3>3 DEF TextActor
  <2>3. CASE n = newest
    <3>1. liveKey'[n] = liveKey[n]
      BY <2>2, <2>3
    <3>2. ASSUME NEW i \in Queue', QueuesText(i, n)'
          PROVE  /\ textEvents'[i].piece[1] >= liveKey[n]
                 /\ \/ textEvents'[i].piece[1] = liveKey[n]
                    \/ \E j \in Queue' : j < i /\ QueuesId(j, n, textEvents[i].piece[1])'
      <4>1. i + 1 \in Queue /\ QueuesText(i + 1, n) /\ textEvents'[i] = textEvents[i + 1]
        BY <1>2, <3>2 DEF QueuesText
      <4>2. ASSUME NEW j \in Queue, j < i + 1, QueuesId(j, n, textEvents[i + 1].piece[1])
            PROVE  \E l \in Queue' : l < i /\ QueuesId(l, n, textEvents[i].piece[1])'
        <5>1. j - 1 \in Queue' /\ textEvents'[j - 1] = textEvents[j] /\ j - 1 < i
          BY <1>2, <2>1, <2>3, <4>2
        <5> QED
          BY <4>1, <4>2, <5>1 DEF QueuesId, QueuesCreated
      <4> QED
        BY <2>3, <4>1, <4>2 DEF KeyInv
    <3>3. ASSUME NEW i \in Queue', QueuesCreated(i, n)'
          PROVE  textEvents'[i].attempt >= liveKey[n]
      <4>1. i + 1 \in Queue /\ QueuesCreated(i + 1, n) /\ textEvents'[i] = textEvents[i + 1]
        BY <1>2, <3>3 DEF QueuesCreated
      <4> QED
        BY <2>3, <4>1 DEF KeyInv
    <3>4. ASSUME stage[n] = "provider", created[n] = attempt[n]
          PROVE  liveKey[n] = attempt[n] \/ \E j \in Queue' : QueuesId(j, n, attempt[n])'
      <4>1. ASSUME NEW j \in Queue, QueuesId(j, n, attempt[n])
            PROVE  \E l \in Queue' : QueuesId(l, n, attempt[n])'
        <5>1. j - 1 \in Queue' /\ textEvents'[j - 1] = textEvents[j]
          BY <1>2, <2>1, <2>3, <4>1
        <5> QED
          BY <1>3, <4>1, <5>1 DEF QueuesId, QueuesCreated
      <4> QED
        BY <2>3, <3>4, <4>1 DEF KeyInv
    <3> QED
      BY <1>3, <1>4, <3>1, <3>2, <3>3, <3>4
  <2>4. CASE n # newest
    BY <1>3, <1>4, <2>2, <2>4
  <2> QED
    BY <2>3, <2>4
<1> QED
  BY <1>5, <1>6, <1>7

\* The key is that of the piece that comes next.
LEMMA KeyStep ==
    TextTypeOK /\ StageInv /\ QueueInv /\ KeyInv /\ [TextNext]_textVars => KeyInv'
<1> SUFFICES ASSUME TextTypeOK, StageInv, QueueInv, KeyInv, [TextNext]_textVars
             PROVE  KeyInv'
  OBVIOUS
<1>0. /\ stage \in [Requests -> {"none", "called", "provider", "returned"}]
      /\ attempt \in [Requests -> 0 .. MaxAttempts] /\ created \in [Requests -> 0 .. MaxAttempts]
  BY DEF TextTypeOK
<1>1. ASSUME NEW n \in Requests, CallsModel(n) \/ Returns(n) PROVE KeyInv'
  <2>1. /\ UNCHANGED <<announces, textEvents, newest, liveKey, attempt>>
        /\ \A m \in Requests : stage'[m] = "provider" =>
              stage[m] = "provider" /\ created'[m] = created[m]
    BY <1>0, <1>1 DEF CallsModel, Returns, Goes, actorVars
  <2> QED
    BY <2>1, KeyStays
<1>2. ASSUME NEW n \in Requests, Retries(n) PROVE KeyInv'
  <2>1. /\ UNCHANGED <<announces, textEvents, newest, liveKey, created, stage>>
        /\ \A m \in Requests : attempt'[m] = IF m = n THEN attempt[m] + 1 ELSE attempt[m]
    BY <1>0, <1>2 DEF Retries, actorVars
  <2>2. created[n] <= attempt[n] /\ created[n] \in Nat /\ attempt[n] \in Nat
    BY KeyNumbers DEF StageInv
  <2>3. \A m \in Requests : created'[m] = attempt'[m] => m # n
    BY <2>1, <2>2
  <2> QED
    BY <2>1, <2>3, KeyStays
<1>3. ASSUME NEW n \in Requests, Replaces(n) PROVE KeyInv'
  BY <1>3, KeyStays DEF Replaces, actorVars
<1>4. CASE Cancels
  BY <1>4, KeyStays DEF Cancels, actorVars
<1>5. CASE UNCHANGED textVars
  BY <1>5, KeyStays DEF textVars, gateVars, actorVars
<1>6. ASSUME NEW n \in Requests, Enters(n) PROVE KeyInv'
  <2>1. /\ UNCHANGED <<announces, textEvents, liveKey, created>>
        /\ newest' = n /\ created[n] = 0 /\ attempt[n] = 0
        /\ \A m \in Requests : attempt'[m] = IF m = n THEN 1 ELSE attempt[m]
    BY <1>0, <1>6 DEF Enters, actorVars, FirstAttempt, StageInv
  <2>2. \A i \in Queue : textEvents[i].req # n
    BY <1>6 DEF Enters, QueueInv, OriginInv
  <2>3. announces => \A m \in Requests : liveKey[m] <= attempt'[m]
    <3> SUFFICES ASSUME NEW m \in Requests, announces PROVE liveKey[m] <= attempt'[m]
      BY <2>1 DEF KeyInv
    <3>1. liveKey[m] <= attempt[m] /\ liveKey[m] \in Nat /\ attempt[m] \in Nat
      BY KeyNumbers DEF KeyInv
    <3> QED
      BY <2>1, <3>1
  <2>4. created[n] # attempt'[n]
    BY <2>1
  <2> QED
    BY <2>1, <2>2, <2>3, <2>4 DEF KeyInv, Queue, QueuesText, QueuesCreated
<1>7. ASSUME NEW n \in Requests, Announces(n) PROVE KeyInv'
  <2>1. PICK e \in TextEvents :
            PushText(e) /\ e.kind = "created" /\ e.req = n /\ e.attempt = attempt[n]
    BY <1>7, WhatIsAnnounced
  <2> QED
    BY <1>7, <2>1, KeyPushed DEF Announces, actorVars
<1>8. ASSUME NEW n \in Requests, Streams(n) PROVE KeyInv'
  <2>1. PICK e \in TextEvents :
            PushText(e) /\ e.kind = "text" /\ e.req = n /\ e.piece = <<attempt[n], pieces[n] + 1>>
    BY <1>8, WhatIsStreamed
  <2>2. e.piece[1] = attempt[n]
    BY <2>1
  <2> QED
    BY <1>8, <2>1, <2>2, KeyPushed DEF Streams, IsAnnounced, actorVars
<1>9. ASSUME NEW n \in Requests, Logs(n) PROVE KeyInv'
  <2>1. PICK e \in TextEvents : e = [kind |-> "response", req |-> n]
    BY DEF TextEvents
  <2>2. e.kind = "response" /\ e.req = n
    BY <2>1
  <2>3. PushText(e) /\ UNCHANGED <<announces, stage, attempt, newest, liveKey, created>>
    BY <1>9, <2>1 DEF Logs, actorVars
  <2> QED
    BY <2>2, <2>3, KeyPushed
<1>10. CASE TextActor
  BY <1>10, KeyPopped
<1> QED
  BY <1>1, <1>2, <1>3, <1>4, <1>5, <1>6, <1>7, <1>8, <1>9, <1>10 DEF TextNext, TextRequest

-----------------------------------------------------------------------------
(* That the text that is shown is the one that is logged. *)

\* Nothing is shown, queued or handled.
LEMMA RunsInit == TextInit => RunsInv /\ LiveIsReplay
<1> SUFFICES ASSUME TextInit, NEW n \in Requests PROVE Runs(n) /\ ~IsHandled(n)
  BY DEF RunsInv, LiveIsReplay
<1>1. \A k \in Keys : shown[n][k] = <<>>
  BY DEF TextInit
<1>2. \A a \in 0 .. MaxAttempts : shown[n][a] = <<>> /\ ~Exceeds(n, a, 0)
  <2>1. Queue = {}
    BY DEF TextInit, Queue
  <2> QED
    BY <1>1, <2>1, TextNumbers DEF Exceeds, QueuesPiece
<1>3. ~IsHandled(n) /\ stage[n] = "none" /\ partial[n] = <<>> /\ \A a, k : ~QueuesPiece(n, a, k)
  BY DEF TextInit, IsHandled, QueuesPiece, Queue
<1> QED
  BY <1>2, <1>3 DEF Runs, Run

\* What says nothing of a request keeps what is shown and queued of it, or
\* moves a piece from the queue to the client.
LEMMA RunsCarried ==
    ASSUME NEW n, Runs(n),
           partial'[n] = partial[n], result'[n] = result[n],
           stage'[n] = "returned" <=> stage[n] = "returned",
           \A a \in 0 .. MaxAttempts : shown'[n][a] = Run(a, Len(shown'[n][a])),
           \A a, m : Exceeds(n, a, m)' => Exceeds(n, a, m),
           \A a, m : QueuesPiece(n, a, m)' => QueuesPiece(n, a, m),
           n \notin behind' => n \notin behind /\ \A a, m : Reaches(n, a, m) => Reaches(n, a, m)'
    PROVE  Runs(n)'
<1>1. \A a, m : Covers(n, a, m) => Covers(n, a, m)'
  BY DEF Covers
<1>2. stage'[n] # "returned" /\ partial'[n] # <<>> => Covers(n, partial'[n][1][1], Len(partial'[n]))
  BY DEF Runs
<1>3. stage'[n] = "returned" => Covers(n, Source(result'[n]), Len(result'[n].text))
  BY DEF Runs
<1>4. stage'[n] # "returned" /\ partial'[n] # <<>> => Covers(n, partial[n][1][1], Len(partial[n]))'
  <2>1. PICK a, m : a = partial'[n][1][1] /\ m = Len(partial'[n])
    OBVIOUS
  <2> QED
    BY <1>1, <1>2, <2>1 DEF Covers, Exceeds, Reaches, QueuesPiece
<1>5. stage'[n] = "returned" => Covers(n, Source(result[n]), Len(result[n].text))'
  <2>1. PICK a, m : a = Source(result'[n]) /\ m = Len(result'[n].text)
    OBVIOUS
  <2> QED
    BY <1>1, <1>3, <2>1 DEF Covers, Exceeds, Reaches, QueuesPiece
<1> QED
  BY <1>4, <1>5 DEF Runs

\* Nothing is shown or queued of an attempt that it has not said, and nothing
\* at all of an attempt 0.
LEMMA NothingUnsaid ==
    ASSUME TextTypeOK, QueueInv, ShownInv, NEW n \in Requests, ~IsHandled(n), Runs(n)
    PROVE  ~Exceeds(n, attempt[n], pieces[n]) /\ ~Exceeds(n, 0, 0)
<1>1. attempt[n] \in 0 .. MaxAttempts /\ attempt[n] \in Nat /\ pieces[n] \in Nat
      /\ attempt[n] \in Keys /\ 0 \in Keys /\ 0 \in 0 .. MaxAttempts
  BY TextNumbers DEF TextTypeOK
<1>2. Len(shown[n][attempt[n]]) <= pieces[n]
  <2> DEFINE t == shown[n][attempt[n]]
  <2>1. Len(t) \in Nat /\ t = Run(attempt[n], Len(t))
    BY <1>1, ShownPieces DEF Runs
  <2>2. \A i \in 1 .. Len(t) : Said(n, t[i])
    BY <1>1 DEF ShownInv
  <2> HIDE DEF t
  <2>3. ASSUME Len(t) >= 1 PROVE Len(t) <= pieces[n]
    <3>1. Len(t) \in 1 .. Len(t)
      BY <2>1, <2>3
    <3>2. t[Len(t)] = <<attempt[n], Len(t)>>
      BY <2>1, <3>1 DEF Run
    <3>3. Said(n, t[Len(t)])
      BY <2>2, <3>1
    <3>4. Said(n, <<attempt[n], Len(t)>>)
      BY <3>2, <3>3
    <3> QED
      BY <1>1, <2>1, <3>4 DEF Said
  <2> QED
    BY <1>1, <2>1, <2>3 DEF t
<1>3. Len(shown[n][0]) = 0
  <2> DEFINE t == shown[n][0]
  <2>1. Len(t) \in Nat /\ t = Run(0, Len(t))
    BY <1>1, ShownPieces DEF Runs
  <2>2. \A i \in 1 .. Len(t) : t[i][1] \in 1 .. MaxAttempts
    BY <1>1, ShownPieces
  <2> HIDE DEF t
  <2>3. ASSUME Len(t) >= 1 PROVE FALSE
    <3>1. 1 \in 1 .. Len(t)
      BY <2>1, <2>3
    <3>2. t[1][1] = 0
      BY <2>1, <3>1 DEF Run
    <3> QED
      BY <2>2, <3>1, <3>2, TextNumbers
  <2> QED
    BY <2>1, <2>3 DEF t
<1>4. \A k \in 1 .. MaxPieces : QueuesPiece(n, attempt[n], k) => k <= pieces[n]
  <2> SUFFICES ASSUME NEW k \in 1 .. MaxPieces, NEW i \in Queue, QueuesText(i, n),
                      textEvents[i].piece = <<attempt[n], k>>
               PROVE  k <= pieces[n]
    BY DEF QueuesPiece
  <2>1. Said(n, <<attempt[n], k>>)
    BY DEF QueueInv, OriginInv
  <2> QED
    BY <1>1, <2>1 DEF Said
<1>5. \A k : ~QueuesPiece(n, 0, k)
  <2> SUFFICES ASSUME NEW k, NEW i \in Queue, QueuesText(i, n), textEvents[i].piece = <<0, k>>
               PROVE  FALSE
    BY DEF QueuesPiece
  <2> QED
    BY QueuedFields, TextNumbers DEF QueuesText
<1> QED
  BY <1>1, <1>2, <1>3, <1>4, <1>5, TextNumbers DEF Exceeds

\* What an attempt has said is shown or queued, unless the actor has dropped some.
LEMMA SaidReaches ==
    ASSUME TextTypeOK, StageInv, PartialInv, NEW n \in Requests, stage[n] = "provider", Runs(n),
           n \notin behind
    PROVE  Reaches(n, attempt[n], pieces[n])
<1>1. attempt[n] \in Nat /\ pieces[n] \in Nat
  BY TextNumbers DEF TextTypeOK
<1>2. CASE pieces[n] = 0
  BY <1>2 DEF Reaches
<1>3. CASE pieces[n] > 0
  <2>1. partial[n] = Run(attempt[n], pieces[n])
    BY <1>3 DEF PartialInv
  <2>2. Len(partial[n]) = pieces[n] /\ partial[n][1][1] = attempt[n] /\ partial[n] # <<>>
    BY <1>1, <1>3, <2>1 DEF Run
  <2> QED
    BY <2>2 DEF Runs, Covers
<1> QED
  BY <1>1, <1>2, <1>3

\* The result of a request is what is shown or queued of it.
LEMMA RunsByReturn ==
    ASSUME TextTypeOK, StageInv, PartialInv, QueueInv, ShownInv, NEW n \in Requests,
           ~IsHandled(n), Runs(n), Returns(n)
    PROVE  Runs(n)'
<1>1. /\ UNCHANGED <<shown, textEvents, behind, pieces, attempt>> /\ stage[n] = "provider"
      /\ stage'[n] = "returned"
  BY DEF Returns, Goes, actorVars, TextTypeOK
<1>2. PICK r \in Verdicts(n) : result'[n] = r
  BY DEF Returns, TextTypeOK
<1>3. /\ attempt[n] \in 0 .. MaxAttempts /\ created[n] \in 0 .. MaxAttempts
      /\ pieces[n] \in Nat /\ attempt[n] \in Nat /\ partial[n] \in Texts
  BY TextNumbers DEF TextTypeOK
<1>4. \A a : Reaches(n, a, 0)
  BY DEF Reaches
<1>5. Covers(n, Source(r), Len(r.text))
  <2>1. CASE r = [text |-> partial[n], key |-> created[n]] /\ partial[n] = <<>>
    <3>1. Source(r) = created[n] /\ Len(r.text) = 0
      BY <2>1 DEF Source
    <3> QED
      BY <1>1, <1>3, <1>4, <2>1, <3>1 DEF Runs, Covers
  <2>2. CASE r = [text |-> partial[n], key |-> created[n]] /\ partial[n] # <<>>
    <3>1. Source(r) = partial[n][1][1] /\ r.text = partial[n]
      BY <2>2 DEF Source
    <3> QED
      BY <1>1, <2>2, <3>1 DEF Runs
  <2>3. CASE r = NoResult
    <3>1. Source(r) = 0 /\ Len(r.text) = 0
      BY <2>3 DEF Source, NoResult, Own
    <3> QED
      BY <1>4, <3>1, NothingUnsaid DEF Covers
  <2>4. CASE r = [text |-> AttemptText(n), key |-> attempt[n]]
    <3>1. AttemptText(n) = Run(attempt[n], pieces[n])
      BY DEF AttemptText, Run
    <3>2. Len(AttemptText(n)) = pieces[n]
      BY <1>3, <3>1 DEF Run
    <3>3. Source(r) = attempt[n]
      BY <1>3, <2>4, <3>1, <3>2, PartialOf DEF Source
    <3> QED
      BY <1>1, <2>4, <3>2, <3>3, NothingUnsaid, SaidReaches DEF Covers
  <2> QED
    BY <2>1, <2>2, <2>3, <2>4 DEF Verdicts
<1>6. Covers(n, Source(result[n]), Len(result[n].text))'
  BY <1>1, <1>2, <1>5 DEF Covers, Exceeds, Reaches, QueuesPiece, QueuesText, Queue, Source
<1> QED
  BY <1>1, <1>6 DEF Runs, QueuesPiece, Reaches, QueuesText, Queue

\* A piece that is queued comes after all that is shown or queued of its attempt.
LEMMA RunsByPiece ==
    ASSUME TextTypeOK, StageInv, PartialInv, QueueInv, ShownInv, NEW n \in Requests,
           ~IsHandled(n), Runs(n), Streams(n), PartialInv'
    PROVE  Runs(n)'
<1>1. PICK e \in TextEvents :
          /\ PushText(e) /\ e.kind = "text" /\ e.req = n
          /\ e.piece = <<attempt[n], pieces[n] + 1>>
  BY WhatIsStreamed
<1>2. /\ \A i \in Queue : i \in Queue' /\ textEvents'[i] = textEvents[i]
      /\ Len(textEvents') \in Queue' /\ textEvents'[Len(textEvents')] = e
      /\ \A i \in Queue' : i \in Queue \/ i = Len(textEvents')
  BY <1>1, Pushed
<1>3. /\ UNCHANGED <<shown, behind, stage, attempt>> /\ stage[n] = "provider"
      /\ pieces'[n] = pieces[n] + 1 /\ attempt[n] \in Nat /\ pieces[n] \in Nat
      /\ attempt[n] \in 0 .. MaxAttempts /\ attempt[n] \in Keys
  BY TextNumbers DEF Streams, actorVars, TextTypeOK
<1>4. \A a, k : QueuesPiece(n, a, k)' <=> QueuesPiece(n, a, k) \/ (a = attempt[n] /\ k = pieces[n] + 1)
  <2>1. \A i \in Queue : QueuesText(i, n)' <=> QueuesText(i, n)
    BY <1>2 DEF QueuesText
  <2>3. PICK l : l = Len(textEvents')
    OBVIOUS
  <2>4. QueuesText(l, n)' /\ l \in Queue' /\ textEvents'[l].piece = <<attempt[n], pieces[n] + 1>>
    BY <1>1, <1>2, <2>3 DEF QueuesText
  <2> QED
    BY <1>2, <2>1, <2>3, <2>4 DEF QueuesPiece
<1>5. \A a, m : Reaches(n, a, m) => Reaches(n, a, m)'
  BY <1>3, <1>4 DEF Reaches
<1>6. ~Exceeds(n, attempt[n], pieces[n])
  BY NothingUnsaid
<1>7. PICK a, m : a = attempt[n] /\ m = pieces[n] + 1
  OBVIOUS
<1>8. ~Exceeds(n, a, m)'
  <2>1. Len(shown[n][a]) <= pieces[n] /\ \A k \in 1 .. MaxPieces : QueuesPiece(n, a, k) => k <= pieces[n]
    BY <1>3, <1>6, <1>7, TextNumbers, ShownPieces, SMTT(30) DEF Exceeds
  <2>2. Len(shown[n][a]) \in Nat
    BY <1>3, <1>7, ShownPieces
  <2> QED
    <3>1. ~(Len(shown'[n][a]) > m)
      BY <1>3, <1>7, <2>1, <2>2
    <3>2. ASSUME NEW k \in 1 .. MaxPieces, k > m, QueuesPiece(n, a, k)' PROVE FALSE
      <4>1. QueuesPiece(n, a, k) /\ k \in Nat
        BY <1>3, <1>4, <1>7, <3>2, TextNumbers
      <4> QED
        BY <1>3, <1>7, <2>1, <3>2, <4>1
    <3> QED
      BY <3>1, <3>2 DEF Exceeds
<1>9. n \notin behind => Reaches(n, a, m)'
  <2>1. n \notin behind => Reaches(n, attempt[n], pieces[n])
    BY <1>3, SaidReaches
  <2>2. QueuesPiece(n, a, m)'
    BY <1>4, <1>7
  <2>3. \A k \in 1 .. m : k \in 1 .. pieces[n] \/ k = m
    BY <1>3, <1>7
  <2> QED
    BY <1>3, <1>4, <1>7, <2>1, <2>2, <2>3 DEF Reaches
<1>10. partial'[n] # <<>> /\ partial'[n][1][1] = a /\ Len(partial'[n]) = m
  <2>1. pieces'[n] > 0 /\ stage'[n] = "provider"
    BY <1>3
  <2>2. partial'[n] = Run(a, m)
    BY <1>3, <1>7, <2>1 DEF PartialInv
  <2>3. m \in Nat /\ m >= 1
    BY <1>3, <1>7
  <2>4. Len(Run(a, m)) = m
    BY <2>3 DEF Run
  <2>5. Run(a, m)[1] = <<a, 1>> /\ Run(a, m) # <<>>
    BY <2>3, <2>4 DEF Run
  <2>6. <<a, 1>>[1] = a
    OBVIOUS
  <2> QED
    BY <2>2, <2>4, <2>5, <2>6
<1>11. Covers(n, partial[n][1][1], Len(partial[n]))'
  BY <1>3, <1>8, <1>9, <1>10 DEF Covers, Exceeds, Reaches, QueuesPiece
<1>12. n \notin behind' => \A b \in 0 .. MaxAttempts, k \in 1 .. MaxPieces :
            QueuesPiece(n, b, k)' => Reaches(n, b, k)'
  BY <1>3, <1>4, <1>5, <1>7, <1>9 DEF Runs
<1> QED
  BY <1>3, <1>10, <1>11, <1>12 DEF Runs

\* A step of another request, or one that says nothing, leaves what is shown of
\* a request, and adds no piece to it.
LEMMA RunsStay ==
    ASSUME TextTypeOK, NEW n \in Requests, Runs(n),
           partial'[n] = partial[n], result'[n] = result[n],
           stage'[n] = "returned" <=> stage[n] = "returned",
           shown'[n] = shown[n],
           n \notin behind' => n \notin behind,
           \A a, k : QueuesPiece(n, a, k)' => QueuesPiece(n, a, k),
           n \notin behind' => \A a, k : QueuesPiece(n, a, k) => QueuesPiece(n, a, k)'
    PROVE  Runs(n)'
<1>1. \A a \in 0 .. MaxAttempts : shown'[n][a] = Run(a, Len(shown'[n][a]))
  BY DEF Runs
<1>2. \A a, m : Exceeds(n, a, m)' => Exceeds(n, a, m)
  BY DEF Exceeds
<1>3. n \notin behind' => \A a, m : Reaches(n, a, m) => Reaches(n, a, m)'
  BY DEF Reaches
<1> QED
  BY <1>1, <1>2, <1>3, RunsCarried

\* The actor shows the piece that follows those it has shown.
LEMMA RunsByText ==
    ASSUME TextTypeOK, StageInv, QueueInv, ShownInv, KeyInv, announces,
           NEW n \in Requests, ~IsHandled(n), Runs(n), HandleText
    PROVE  Runs(n)'
<1>1. HandlesText("text") /\ UNCHANGED <<stage, partial, result>>
  BY DEF HandleText, HandlesText, gateVars
<1>2. /\ \A i \in Queue' : i + 1 \in Queue /\ textEvents'[i] = textEvents[i + 1]
      /\ \A i \in Queue : i # 1 => i - 1 \in Queue' /\ textEvents'[i - 1] = textEvents[i]
      /\ 1 \in Queue /\ Head(textEvents) = textEvents[1] /\ textEvents[1].kind = "text"
      /\ textEvents[1] \in TextEvents
  BY <1>1, Handled
<1>3. \A a, k : QueuesPiece(n, a, k)' => QueuesPiece(n, a, k)
  BY <1>2 DEF QueuesPiece, QueuesText
<1>4. \A a, k : QueuesPiece(n, a, k) =>
          QueuesPiece(n, a, k)' \/ (QueuesText(1, n) /\ textEvents[1].piece = <<a, k>>)
  <2> SUFFICES ASSUME NEW a, NEW k, NEW i \in Queue, QueuesText(i, n),
                      textEvents[i].piece = <<a, k>>, i # 1
               PROVE  QueuesPiece(n, a, k)'
    BY DEF QueuesPiece
  <2>1. i - 1 \in Queue' /\ textEvents'[i - 1] = textEvents[i]
    BY <1>2
  <2> QED
    BY <2>1 DEF QueuesPiece, QueuesText
<1>5. PICK e, m : e = textEvents[1] /\ m = e.req
  OBVIOUS
<1>6. m \in Requests /\ QueuesText(1, m) /\ (m = n <=> QueuesText(1, n))
  BY <1>2, <1>5, EventFields DEF QueuesText
<1>7. CASE m # newest
  <2>1. behind' = behind \cup {m} /\ shown' = shown
    BY <1>2, <1>5, <1>7 DEF HandleText
  <2> QED
    BY <1>1, <1>3, <1>4, <1>6, <2>1, RunsStay
<1>8. CASE m = newest /\ m # n
  <2>1. behind' = behind /\ shown'[n] = shown[n]
    BY <1>2, <1>5, <1>6, <1>8 DEF HandleText, TextTypeOK
  <2> QED
    BY <1>1, <1>3, <1>4, <1>6, <1>8, <2>1, RunsStay
<1>9. CASE m = newest /\ m = n
  <2>1. PICK a \in 1 .. MaxAttempts, k \in 1 .. MaxPieces : textEvents[1].piece = <<a, k>>
    <3>1. textEvents[1].piece \in Pieces
      BY <1>2, EventFields
    <3> QED
      BY <3>1 DEF Pieces
  <2>2. a \in Keys /\ a \in 0 .. MaxAttempts /\ a \in Nat /\ k \in Nat /\ n \notin behind
    BY <1>9, TextNumbers DEF StageInv
  <2>3. LiveKey(n) = a
    <3>1. a = liveKey[n] \/ \E j \in Queue : j < 1 /\ QueuesId(j, n, a)
      BY <1>2, <1>6, <1>9, <2>1 DEF KeyInv
    <3>2. a = liveKey[n]
      BY <3>1 DEF Queue
    <3> QED
      BY <2>1, <3>2, TextNumbers DEF LiveKey
  <2>4. /\ shown' = [shown EXCEPT ![n] = [shown[n] EXCEPT ![a] = Append(@, <<a, k>>)]]
        /\ UNCHANGED behind
    BY <1>2, <1>5, <1>9, <2>1, <2>3 DEF HandleText
  <2>5. shown[n] \in [Keys -> Texts] /\ shown \in [Requests -> [Keys -> Texts]]
    BY DEF TextTypeOK
  <2>6. \A b \in Keys : shown'[n][b] = IF b = a THEN Append(shown[n][a], <<a, k>>) ELSE shown[n][b]
    <3>1. shown'[n] = [shown[n] EXCEPT ![a] = Append(@, <<a, k>>)]
      BY <2>4, <2>5
    <3> QED
      BY <2>2, <2>5, <3>1
  <2> DEFINE t == shown[n][a]
  <2>7. t \in Texts /\ Len(t) \in Nat /\ t = Run(a, Len(t))
    BY <2>2, ShownPieces DEF Runs
  <2>8. QueuesPiece(n, a, k)
    BY <1>2, <1>6, <1>9, <2>1 DEF QueuesPiece
  <2>9. k = Len(t) + 1
    <3>1. ~(k <= Len(t))
      <4> SUFFICES ASSUME k \in 1 .. Len(t) PROVE FALSE
        BY <2>2, <2>7
      <4>1. t[k] = <<a, k>>
        BY <2>7 DEF Run
      <4>2. Earlier(t[k], <<a, k>>)
        BY <1>2, <1>6, <1>9, <2>1, <2>2 DEF ShownInv
      <4> QED
        BY <2>2, <4>1, <4>2 DEF Earlier
    <3>2. ~(Len(t) + 1 < k)
      <4> SUFFICES ASSUME Len(t) + 1 < k PROVE FALSE
        OBVIOUS
      <4>1. Reaches(n, a, k)
        BY <2>2, <2>8 DEF Runs
      <4>2. k - 1 \in 1 .. k /\ ~(k - 1 <= Len(t))
        BY <2>2, <2>7
      <4>3. PICK j \in Queue : QueuesText(j, n) /\ textEvents[j].piece = <<a, k - 1>>
        BY <4>1, <4>2 DEF Reaches, QueuesPiece
      <4>4. j # 1 /\ 1 < j
        <5>1. j # 1
          BY <2>1, <2>2, <4>3
        <5> QED
          BY <5>1 DEF Queue
      <4>5. Earlier(<<a, k>>, <<a, k - 1>>)
        BY <1>2, <1>6, <1>9, <2>1, <4>3, <4>4 DEF QueueInv, OrderInv
      <4> QED
        BY <2>2, <4>5 DEF Earlier
    <3> QED
      BY <2>2, <2>7, <3>1, <3>2
  <2>10. shown'[n][a] = Run(a, k) /\ Len(shown'[n][a]) = k
    <3>1. Append(Run(a, Len(t)), <<a, Len(t) + 1>>) = Run(a, Len(t) + 1)
      BY <2>7 DEF Run
    <3>2. shown'[n][a] = Run(a, k)
      BY <2>2, <2>6, <2>7, <2>9, <3>1
    <3> QED
      BY <2>2, <3>2 DEF Run
  <2>11. \A b \in 0 .. MaxAttempts : shown'[n][b] = Run(b, Len(shown'[n][b]))
    BY <2>2, <2>6, <2>10, TextNumbers DEF Runs
  <2>12. \A b, m2 : Exceeds(n, b, m2)' => Exceeds(n, b, m2)
    <3> SUFFICES ASSUME NEW b, NEW m2, Exceeds(n, b, m2)' PROVE Exceeds(n, b, m2)
      OBVIOUS
    <3>1. CASE \E l \in 1 .. MaxPieces : l > m2 /\ QueuesPiece(n, b, l)'
      BY <1>3, <3>1 DEF Exceeds
    <3>2. CASE Len(shown'[n][b]) > m2
      <4>1. CASE b = a
        BY <2>8, <2>10, <3>2, <4>1 DEF Exceeds
      <4>2. CASE b # a
        <5>1. shown'[n][b] = shown[n][b]
          BY <2>4, <2>5, <4>2
        <5> QED
          BY <3>2, <5>1 DEF Exceeds
      <4> QED
        BY <4>1, <4>2
    <3> QED
      BY <3>1, <3>2 DEF Exceeds
  <2>13. \A b, m2 : Reaches(n, b, m2) => Reaches(n, b, m2)'
    <3> SUFFICES ASSUME NEW b, NEW m2, Reaches(n, b, m2), NEW l \in 1 .. m2
                 PROVE  l <= Len(shown'[n][b]) \/ QueuesPiece(n, b, l)'
      BY DEF Reaches
    <3>1. l <= Len(shown[n][b]) \/ QueuesPiece(n, b, l)
      BY DEF Reaches
    <3>2. CASE b = a
      BY <1>4, <2>1, <2>2, <2>7, <2>9, <2>10, <3>1, <3>2
    <3>3. CASE b # a
      <4>1. shown'[n][b] = shown[n][b]
        BY <2>4, <2>5, <3>3
      <4> QED
        BY <1>4, <2>1, <3>1, <3>3, <4>1
    <3> QED
      BY <3>2, <3>3
  <2> QED
    BY <1>1, <1>3, <2>4, <2>11, <2>12, <2>13, RunsCarried
<1> QED
  BY <1>7, <1>8, <1>9

\* What is shown and queued of a request is what it has said.
LEMMA RunsStep ==
    TextTypeOK /\ StageInv /\ PartialInv /\ QueueInv /\ ShownInv /\ KeyInv /\ RunsInv
    /\ [TextNext]_textVars => RunsInv'
<1> SUFFICES ASSUME TextTypeOK, StageInv, PartialInv, QueueInv, ShownInv, KeyInv, RunsInv,
                    [TextNext]_textVars,
                    announces', NEW n \in Requests, ~IsHandled(n)'
             PROVE  Runs(n)'
  BY DEF RunsInv
<1>0. /\ stage \in [Requests -> {"none", "called", "provider", "returned"}]
      /\ partial \in [Requests -> Texts] /\ result \in [Requests -> [text : Texts, key : Keys]]
      /\ shown \in [Requests -> [Keys -> Texts]]
  BY DEF TextTypeOK
<1>1. announces
  BY DEF TextNext, TextRequest, CallsModel, Enters, Announces, Streams, Retries, Returns, Replaces,
         Logs, Cancels, TextActor, HandleCreated, HandleText, HandleResponse, HandlesText,
         gateVars, textVars
<1>2. ~IsHandled(n) /\ Runs(n)
  BY <1>1, HandledStays DEF RunsInv
<1>3. ASSUME partial'[n] = partial[n], result'[n] = result[n],
             stage'[n] = "returned" <=> stage[n] = "returned",
             UNCHANGED <<shown, behind, textEvents>>
      PROVE  Runs(n)'
  <2>1. \A a, k : QueuesPiece(n, a, k)' <=> QueuesPiece(n, a, k)
    BY <1>3 DEF QueuesPiece, QueuesText, Queue
  <2> QED
    BY <1>2, <1>3, <2>1, RunsStay
<1>4. ASSUME UNCHANGED <<partial, result, stage, shown, behind>>, NEW e \in TextEvents, PushText(e),
             e.kind # "text" \/ e.req # n
      PROVE  Runs(n)'
  <2>1. \A a, k : QueuesPiece(n, a, k)' <=> QueuesPiece(n, a, k)
    BY <1>4, Pushed DEF QueuesPiece, QueuesText
  <2> QED
    BY <1>2, <1>4, <2>1, RunsStay
<1>5. ASSUME NEW m \in Requests, CallsModel(m) \/ Enters(m) PROVE Runs(n)'
  BY <1>0, <1>3, <1>5 DEF CallsModel, Enters, Goes, actorVars
<1>6. ASSUME NEW m \in Requests, Retries(m) \/ Replaces(m) PROVE Runs(n)'
  BY <1>3, <1>6 DEF Retries, Replaces, actorVars
<1>7. ASSUME NEW m \in Requests, Announces(m) PROVE Runs(n)'
  BY <1>4, <1>7, WhatIsAnnounced DEF Announces, actorVars
<1>8. ASSUME NEW m \in Requests, Streams(m) PROVE Runs(n)'
  <2>1. CASE m = n
    BY <1>2, <1>8, <2>1, PartialStep, RunsByPiece
  <2>2. CASE m # n
    <3>1. PICK e \in TextEvents : PushText(e) /\ e.req = m
      BY <1>8, WhatIsStreamed
    <3>2. UNCHANGED <<result, stage, shown, behind>> /\ partial'[n] = partial[n]
      BY <1>0, <1>8, <2>2 DEF Streams, actorVars
    <3>3. \A a, k : QueuesPiece(n, a, k)' <=> QueuesPiece(n, a, k)
      BY <2>2, <3>1, Pushed DEF QueuesPiece, QueuesText
    <3> QED
      BY <1>2, <3>2, <3>3, RunsStay
  <2> QED
    BY <2>1, <2>2
<1>9. ASSUME NEW m \in Requests, Returns(m) PROVE Runs(n)'
  <2>1. CASE m = n
    BY <1>2, <1>9, <2>1, RunsByReturn
  <2>2. CASE m # n
    <3>1. /\ UNCHANGED <<shown, behind, textEvents>>
          /\ partial'[n] = partial[n] /\ stage'[n] = stage[n] /\ result'[n] = result[n]
      BY <1>0, <1>9, <2>2 DEF Returns, Goes, actorVars
    <3> QED
      BY <1>3, <3>1
  <2> QED
    BY <2>1, <2>2
<1>10. ASSUME NEW m \in Requests, Logs(m) PROVE Runs(n)'
  <2>1. PICK e \in TextEvents : e = [kind |-> "response", req |-> m]
    BY DEF TextEvents
  <2> QED
    BY <1>4, <1>10, <2>1 DEF Logs, actorVars
<1>11. CASE Cancels
  BY <1>3, <1>11 DEF Cancels, actorVars
<1>12. CASE HandleCreated \/ HandleResponse
  <2>1. PICK kind \in {"created", "response"} : HandlesText(kind)
    BY <1>12 DEF HandleCreated, HandleResponse
  <2>2. /\ \A i \in Queue' : i + 1 \in Queue /\ textEvents'[i] = textEvents[i + 1]
        /\ \A i \in Queue : i # 1 => i - 1 \in Queue' /\ textEvents'[i - 1] = textEvents[i]
        /\ textEvents[1].kind = kind
    BY <2>1, Handled
  <2>3. \A i \in Queue : QueuesText(i, n) => i # 1
    BY <2>1, <2>2 DEF QueuesText
  <2>4. \A a, k : QueuesPiece(n, a, k)' => QueuesPiece(n, a, k)
    BY <2>2 DEF QueuesPiece, QueuesText
  <2>5. \A a, k : QueuesPiece(n, a, k) => QueuesPiece(n, a, k)'
    <3> SUFFICES ASSUME NEW a, NEW k, NEW i \in Queue, QueuesText(i, n),
                        textEvents[i].piece = <<a, k>>
                 PROVE  QueuesPiece(n, a, k)'
      BY DEF QueuesPiece
    <3>1. i - 1 \in Queue' /\ textEvents'[i - 1] = textEvents[i]
      BY <2>2, <2>3
    <3> QED
      BY <3>1 DEF QueuesPiece, QueuesText
  <2>6. UNCHANGED <<stage, partial, result, behind>>
    BY <1>12, <2>1 DEF HandleCreated, HandleResponse, HandlesText, gateVars
  <2>7. shown'[n] = shown[n]
    <3>1. CASE HandleCreated
      BY <3>1 DEF HandleCreated
    <3>2. CASE HandleResponse
      <4>1. PICK m \in Requests : /\ IsHandled(m)'
                                  /\ shown' = [shown EXCEPT ![m] =
                                        [shown[m] EXCEPT ![result[m].key] = @ \o Unsaid(m)]]
        BY <3>2, WhatIsAnswered
      <4>2. m # n
        BY <4>1
      <4> QED
        BY <1>0, <4>1, <4>2
    <3> QED
      BY <1>12, <3>1, <3>2
  <2> QED
    BY <1>2, <2>4, <2>5, <2>6, <2>7, RunsStay
<1>13. CASE HandleText
  BY <1>1, <1>2, <1>13, RunsByText
<1>14. CASE UNCHANGED textVars
  BY <1>3, <1>14 DEF textVars, gateVars, actorVars
<1> QED
  BY <1>5, <1>6, <1>7, <1>8, <1>9, <1>10, <1>11, <1>12, <1>13, <1>14
     DEF TextNext, TextRequest, TextActor

\* Only the actor's look at the response makes a request handled.
LEMMA HandledBy ==
    ASSUME TextTypeOK, StageInv, QueueInv, [TextNext]_textVars,
           NEW n \in Requests, ~IsHandled(n), IsHandled(n)'
    PROVE  HandleResponse /\ n = Head(textEvents).req
<1>1. n \in logged' /\ \A i \in Queue' : ~(textEvents'[i].kind = "response" /\ textEvents'[i].req = n)
  <2>1. \A i \in Queue' : textEvents'[i].kind = "response" /\ textEvents'[i].req = n =>
                             textEvents'[i] = [kind |-> "response", req |-> n]
    <3>1. \A i \in Queue' : textEvents'[i] \in TextEvents
      BY TextTypeStep, SMTT(30) DEF TextTypeOK, Attempted, StageInv, Queue
    <3> QED
      BY <3>1, EventFields
  <2> QED
    BY <2>1 DEF IsHandled, Queue
<1>2. n \notin logged \/ \E i \in Queue : QueuesResponse(i, n)
  BY HandledIs
<1>3. ASSUME UNCHANGED <<textEvents, logged>> PROVE FALSE
  BY <1>1, <1>2, <1>3 DEF Queue, QueuesResponse
<1>4. ASSUME NEW e \in TextEvents, PushText(e),
             logged' = logged \/ (e.kind = "response" /\ logged' \subseteq logged \cup {e.req})
      PROVE  FALSE
  <2>1. /\ \A i \in Queue : i \in Queue' /\ textEvents'[i] = textEvents[i]
        /\ Len(textEvents') \in Queue' /\ textEvents'[Len(textEvents')] = e
    BY <1>4, Pushed
  <2> QED
    BY <1>1, <1>2, <1>4, <2>1 DEF QueuesResponse
<1>5. ASSUME NEW m \in Requests, Announces(m) PROVE FALSE
  BY <1>4, <1>5, WhatIsAnnounced DEF Announces
<1>6. ASSUME NEW m \in Requests, Streams(m) PROVE FALSE
  BY <1>4, <1>6, WhatIsStreamed DEF Streams
<1>7. ASSUME NEW m \in Requests, Logs(m) PROVE FALSE
  <2>1. PICK e \in TextEvents : e = [kind |-> "response", req |-> m]
    BY DEF TextEvents
  <2> QED
    BY <1>4, <1>7, <2>1 DEF Logs
<1>8. ASSUME TextActor, ~(HandleResponse /\ n = Head(textEvents).req) PROVE FALSE
  <2>1. PICK kind : HandlesText(kind)
    BY <1>8 DEF TextActor, HandleCreated, HandleText, HandleResponse
  <2>2. /\ \A i \in Queue : i # 1 => i - 1 \in Queue' /\ textEvents'[i - 1] = textEvents[i]
        /\ textEvents[1] = Head(textEvents) /\ textEvents[1].kind = kind
        /\ logged' = logged
    BY <2>1, Handled DEF HandlesText, gateVars
  <2>3. ~QueuesResponse(1, n)
    BY <1>8, <2>2
       DEF TextActor, HandleCreated, HandleText, HandlesText, QueuesResponse
  <2> QED
    BY <1>1, <1>2, <2>2, <2>3 DEF QueuesResponse
<1> QED
  BY <1>3, <1>5, <1>6, <1>7, <1>8
     DEF TextNext, TextRequest, CallsModel, Enters, Retries, Returns, Replaces, Cancels,
         textVars, gateVars

\* The text of a response whose stream was shown is not sent again, and is
\* what was shown unless the actor has dropped a piece.
LEMMA LiveByResponse ==
    ASSUME TextTypeOK, StageInv, ResultInv, QueueInv, ShownInv, RunsInv, announces,
           NEW n \in Requests, HandleResponse, n = Head(textEvents).req
    PROVE  LET r    == result[n]
               live == shown'[n][Source(r)]
           IN  live = r.text \/ (n \in behind /\ IsBeginningOf(live, r.text))
<1>1. /\ ~IsHandled(n) /\ QueuesResponse(1, n) /\ stage[n] = "returned"
      /\ \A i \in Queue : i # 1 => textEvents[i].req # n
      /\ shown' = [shown EXCEPT ![n] = [shown[n] EXCEPT ![result[n].key] = @ \o Unsaid(n)]]
      /\ result[n].key \in Keys /\ result[n].text \in Texts
  BY WhatIsAnswered
<1>2. shown \in [Requests -> [Keys -> Texts]] /\ shown[n] \in [Keys -> Texts]
  BY DEF TextTypeOK
<1>3. Runs(n) /\ Covers(n, Source(result[n]), Len(result[n].text))
  BY <1>1 DEF RunsInv, Runs
<1>4. Source(result[n]) \in 0 .. MaxAttempts
      /\ result[n].text = Run(Source(result[n]), Len(result[n].text))
  BY <1>1 DEF ResultInv
<1>5. \A a, k : ~QueuesPiece(n, a, k)
  <2> SUFFICES ASSUME NEW i \in Queue, QueuesText(i, n) PROVE FALSE
    BY DEF QueuesPiece
  <2>1. i = 1
    BY <1>1 DEF QueuesText
  <2> QED
    BY <1>1, <2>1 DEF QueuesText, QueuesResponse
<1>6. PICK t, a, s : t = result[n].text /\ a = Source(result[n]) /\ s = shown[n][a]
  OBVIOUS
<1>12. /\ a \in Keys /\ s \in Texts /\ Len(s) \in Nat /\ s = Run(a, Len(s))
       /\ t \in Texts /\ Len(t) \in Nat /\ t = Run(a, Len(t))
  <2>1. a \in Keys /\ a \in 0 .. MaxAttempts
    BY <1>4, <1>6, TextNumbers
  <2>2. s \in Texts /\ Len(s) \in Nat
    BY <1>6, <2>1, ShownPieces
  <2>3. s = Run(a, Len(s))
    BY <1>3, <1>6, <2>1 DEF Runs
  <2>4. t \in Texts /\ t = Run(a, Len(t))
    BY <1>1, <1>4, <1>6
  <2> QED
    BY <2>1, <2>2, <2>3, <2>4 DEF Texts
<1>7. Len(s) <= Len(t)
  BY <1>3, <1>6, <1>12 DEF Covers, Exceeds
<1>8. n \notin behind => Len(s) = Len(t)
  <2>1. n \notin behind => Reaches(n, a, Len(t))
    BY <1>3, <1>6 DEF Covers
  <2>2. n \notin behind /\ Len(t) >= 1 => Len(t) <= Len(s)
    <3> SUFFICES ASSUME n \notin behind, Len(t) >= 1 PROVE Len(t) <= Len(s)
      OBVIOUS
    <3>1. Len(t) \in 1 .. Len(t)
      BY <1>12
    <3>2. Len(t) <= Len(shown[n][a]) \/ QueuesPiece(n, a, Len(t))
      BY <2>1, <3>1 DEF Reaches
    <3> QED
      BY <1>5, <1>6, <3>2
  <2> QED
    BY <1>7, <1>12, <2>2
<1>9. s = SubSeq(t, 1, Len(s))
  <2>1. SubSeq(Run(a, Len(t)), 1, Len(s)) = Run(a, Len(s))
    BY <1>7, <1>12 DEF Run
  <2> QED
    BY <1>12, <2>1
<1>13. \A k \in Keys : shown'[n][k] = IF k = result[n].key THEN shown[n][k] \o Unsaid(n)
                                      ELSE shown[n][k]
  <2>1. shown'[n] = [shown[n] EXCEPT ![result[n].key] = @ \o Unsaid(n)]
    BY <1>1, <1>2
  <2> QED
    BY <1>1, <1>2, <2>1
<1>10. CASE n \in streamed
  <2>1. shown'[n][a] = s
    <3>1. Unsaid(n) = <<>>
      BY <1>10 DEF Unsaid
    <3>2. s \o <<>> = s
      BY <1>12 DEF Texts
    <3> QED
      BY <1>6, <1>12, <1>13, <3>1, <3>2
  <2>2. n \notin behind => s = t
    BY <1>8, <1>12
  <2> QED
    BY <1>6, <1>7, <1>9, <2>1, <2>2 DEF IsBeginningOf
<1>11. CASE n \notin streamed
  <2>1. Unsaid(n) = t /\ \A k \in Keys : shown[n][k] = <<>>
    BY <1>1, <1>6, <1>11 DEF Unsaid, ShownInv
  <2>2. CASE a = result[n].key
    <3>1. <<>> \o t = t
      BY <1>12 DEF Texts
    <3>2. shown'[n][a] = t
      BY <1>12, <1>13, <2>1, <2>2, <3>1
    <3> QED
      BY <1>6, <3>2
  <2>3. CASE a # result[n].key
    <3>1. shown'[n][a] = s /\ s = <<>>
      BY <1>6, <1>12, <1>13, <2>1, <2>3
    <3>2. t # <<>>
      BY <1>6, <2>3 DEF Source
    <3>3. Len(s) # Len(t)
      BY <1>12, <3>1, <3>2
    <3>4. n \in behind
      BY <1>8, <3>3
    <3> QED
      BY <1>6, <1>7, <1>9, <3>1, <3>4 DEF IsBeginningOf
  <2> QED
    BY <2>2, <2>3
<1> QED
  BY <1>10, <1>11

\* What was handled is not touched again.
LEMMA LiveStep ==
    TextTypeOK /\ StageInv /\ ResultInv /\ ResultInv' /\ StageInv' /\ QueueInv /\ ShownInv /\ RunsInv
    /\ LiveIsReplay /\ [TextNext]_textVars => LiveIsReplay'
<1> SUFFICES ASSUME TextTypeOK, StageInv, ResultInv, ResultInv', StageInv', QueueInv, ShownInv,
                    RunsInv, LiveIsReplay, [TextNext]_textVars,
                    announces', NEW n \in Requests, IsHandled(n)'
             PROVE  LiveIsReplay!2!(n)!2'
  BY DEF LiveIsReplay
<1>1. announces
  BY DEF TextNext, TextRequest, CallsModel, Enters, Announces, Streams, Retries, Returns, Replaces,
         Logs, Cancels, TextActor, HandleCreated, HandleText, HandleResponse, HandlesText,
         gateVars, textVars
<1>2. Source(result'[n]) # result'[n].key => n = userStop' /\ Source(result'[n]) < result'[n].key
  <2>1. n \in logged'
    BY DEF IsHandled
  <2>2. stage'[n] = "returned"
    BY <2>1 DEF StageInv
  <2> QED
    BY <2>2 DEF ResultInv, Source
<1>3. behind \subseteq behind' /\ (stage[n] = "returned" => result'[n] = result[n])
  <2>1. behind \subseteq behind'
    BY DEF TextNext, TextRequest, CallsModel, Enters, Announces, Streams, Retries, Returns, Replaces,
           Logs, Cancels, TextActor, HandleCreated, HandleText, HandleResponse, HandlesText,
           gateVars, actorVars, textVars
  <2>2. ASSUME NEW m \in Requests, Returns(m), stage[n] = "returned" PROVE result'[n] = result[n]
    BY <2>2 DEF Returns, TextTypeOK
  <2>3. CASE UNCHANGED result
    BY <2>1, <2>3
  <2> QED
    BY <2>1, <2>2, <2>3
       DEF TextNext, TextRequest, CallsModel, Enters, Announces, Streams, Retries, Replaces,
           Logs, Cancels, TextActor, HandleCreated, HandleText, HandleResponse, HandlesText,
           gateVars, textVars
<1>4. LET r    == result'[n]
          live == shown'[n][Source(r)]
      IN  live = r.text \/ (n \in behind' /\ IsBeginningOf(live, r.text))
  <2>1. CASE IsHandled(n)
    <3>1. stage[n] = "returned"
      BY <2>1 DEF IsHandled, StageInv
    <3>2. shown'[n] = shown[n]
      <4>1. ASSUME TextActor PROVE Head(textEvents).req # n
        <5>1. PICK kind : HandlesText(kind)
          BY <4>1 DEF TextActor, HandleCreated, HandleText, HandleResponse
        <5> QED
          BY <2>1, <5>1, Handled, HandledHasNothing
      <4>2. ASSUME HandleText PROVE shown'[n] = shown[n]
        <5>1. Head(textEvents).req # n
          BY <4>1, <4>2 DEF TextActor
        <5> QED
          BY <4>2, <5>1 DEF HandleText, TextTypeOK
      <4>3. ASSUME HandleResponse PROVE shown'[n] = shown[n]
        <5>1. Head(textEvents).req # n
          BY <4>1, <4>3 DEF TextActor
        <5> QED
          BY <4>3, <5>1 DEF HandleResponse, TextTypeOK
      <4>4. CASE UNCHANGED shown
        BY <4>4
      <4> QED
        BY <4>2, <4>3, <4>4
           DEF TextNext, TextRequest, CallsModel, Enters, Announces, Streams, Retries, Returns,
               Replaces, Logs, Cancels, TextActor, HandleCreated, actorVars, textVars
    <3> QED
      BY <1>1, <1>3, <2>1, <3>1, <3>2 DEF LiveIsReplay, Source
  <2>2. CASE ~IsHandled(n)
    <3>1. HandleResponse /\ n = Head(textEvents).req
      BY <2>2, HandledBy
    <3>2. UNCHANGED <<result, behind>>
      BY <3>1 DEF HandleResponse, HandlesText, gateVars
    <3> QED
      BY <1>1, <3>1, <3>2, LiveByResponse DEF Source
  <2> QED
    BY <2>1, <2>2
<1> QED
  BY <1>2, <1>4 DEF Source

-----------------------------------------------------------------------------
(* What holds of the text. *)

TextIInv ==
    /\ TextTypeOK /\ StageInv /\ PartialInv /\ ResultInv
    /\ QueueInv /\ ShownInv /\ SaidOnce
    /\ KeyInv /\ RunsInv /\ LiveIsReplay

\* All of it holds of every state.
LEMMA TextInvariant == TextSpec => []TextIInv
<1>1. TextInit => TextIInv
  BY TextInitType, StageInit, QueueInit, ShownInit, KeyInit, RunsInit DEF TextIInv
<1>2. TextIInv /\ [TextNext]_textVars => TextIInv'
  <2> SUFFICES ASSUME TextIInv, [TextNext]_textVars PROVE TextIInv'
    OBVIOUS
  <2>1. TextTypeOK'
    BY TextTypeStep DEF TextIInv, Attempted, StageInv
  <2>2. StageInv' /\ PartialInv' /\ ResultInv'
    BY StageStep, PartialStep, ResultStep DEF TextIInv
  <2>3. QueueInv' /\ ShownInv' /\ SaidOnce'
    BY QueueStep, ShownStep DEF TextIInv
  <2>4. KeyInv' /\ RunsInv'
    BY KeyStep, RunsStep DEF TextIInv
  <2>5. LiveIsReplay'
    BY <2>2, LiveStep DEF TextIInv
  <2> QED
    BY <2>1, <2>2, <2>3, <2>4, <2>5 DEF TextIInv
<1> QED
  BY <1>1, <1>2, PTL DEF TextSpec

\* The types, and with them that a request at the provider makes an attempt.
THEOREM TextTypeCorrect == TextSpec => []TextTypeOK
BY TextInvariant, PTL DEF TextIInv

\* For any number of requests, attempts and pieces, and any queue: no piece of
\* text is shown twice, and it is not sent again when its response is logged.
THEOREM TextSaidOnce == TextSpec => []SaidOnce
BY TextInvariant, PTL DEF TextIInv

\* Likewise the text a client has seen live is the one that a session/load
\* shows, with the two exceptions that the property names.
THEOREM TextLiveIsReplay == TextSpec => []LiveIsReplay
BY TextInvariant, PTL DEF TextIInv

-----------------------------------------------------------------------------
(* The tool calls. *)

Telling == IF hand.step = "telling" THEN {hand.call} ELSE {}

MarkedIsTold ==
    /\ announced \subseteq told \cup replayHand \cup Telling
    /\ hand.step = "updating" => hand.call \in told \cup replayHand
    /\ replayHand \cup Telling \subseteq announced

Due(c, tell) == <<c, tell>> \in duty \/ (hand.call = c /\ hand.tell = tell)

\* What the actor owes of a call: its final update once, and then nothing.
FinalIsLast ==
    \A c \in AllCalls :
        /\ Due(c, "final") \/ Final(c) => c \in reported
        /\ Final(c) => ~Due(c, "final") /\ ~Due(c, "progress")
        /\ ~(Due(c, "final") /\ Due(c, "progress"))
        /\ hand.call = c /\ hand.tell = "final" => <<c, "final">> \notin duty

StatusIsQueued(c) ==
    \E i \in 1 .. Len(callEvents) : callEvents[i].kind = "status" /\ callEvents[i].item.call = c

EndedIsReported == \A c \in ended : c \in reported \/ StatusIsQueued(c)

ReportedIsOwed == \A c \in reported : Final(c) \/ Due(c, "final")

CallIInv ==
    /\ CallTypeOK
    /\ MarkedIsTold /\ ToldFirst
    /\ FinalIsLast /\ EndsOnce
    /\ EndedIsReported /\ ReportedIsOwed

-----------------------------------------------------------------------------
(* The tool calls: types. *)

\* The record that says that nothing is in hand has no call, and no item is
\* not an item.
LEMMA NobodyHasNoCall ==
    Nobody.call \notin AllCalls /\ Nobody.tell = "none" /\ Nobody.step = "none"
BY CallAssumption DEF Nobody, AllCalls

\* A runtime that knows more calls still knows what it has queued.
LEMMA MoreEvents ==
    ASSUME NEW S, NEW T, S \subseteq T
    PROVE  EventsOf(S) \subseteq EventsOf(T) /\ Seq(EventsOf(S)) \subseteq Seq(EventsOf(T))
<1>1. EventsOf(S) \subseteq EventsOf(T)
  BY DEF EventsOf, Responses, Statuses
<1> QED
  BY <1>1

\* The head of the queue is of its kind.
LEMMA HeadTypes ==
    ASSUME CallTypeOK, callEvents # <<>>
    PROVE  /\ Head(callEvents) \in EventsOf(known)
           /\ Tail(callEvents) \in Seq(EventsOf(known))
           /\ Head(callEvents).kind = "response" => Head(callEvents).item.calls \subseteq known
           /\ Head(callEvents).kind = "status" => Head(callEvents).item.call \in known
           /\ Head(callEvents).kind \in {"op", "permission"} => Head(callEvents).call \in known
<1>1. Head(callEvents) \in EventsOf(known) /\ Tail(callEvents) \in Seq(EventsOf(known))
  BY DEF CallTypeOK
<1> QED
  BY <1>1 DEF EventsOf, Responses, Statuses

\* Initially all is typed.
LEMMA CallInitType == CallInit => CallTypeOK
BY CallAssumption DEF CallInit, CallTypeOK, SeenOfHistory, NoItem, Items, Responses, Statuses,
   HandsOf, Nobody, AllCalls, Response, EventsOf

\* What the coordinator, the manager and the client do.
LEMMA EnvironmentType == CallTypeOK /\ Environment => CallTypeOK'
<1> SUFFICES ASSUME CallTypeOK, Environment PROVE CallTypeOK'
  OBVIOUS
<1> USE DEF CallTypeOK, turnVars, replayVars, ActorIsAside
<1>1. ASSUME NEW calls \in SUBSET Calls \ {{}}, AppendsResponse(calls) PROVE CallTypeOK'
  <2>1. Response(calls) \in Responses(AllCalls)
    BY <1>1 DEF Response, Responses, AllCalls
  <2> QED
    BY <1>1, <2>1 DEF AppendsResponse, AppendsItem, Items
<1>2. ASSUME NEW c \in AllCalls, AppendsStatus(c) PROVE CallTypeOK'
  <2>1. Status(c) \in Statuses(known) /\ Status(c) \in Statuses(AllCalls)
    BY <1>2 DEF AppendsStatus, Status, Statuses
  <2> QED
    BY <1>2, <2>1 DEF AppendsStatus, AppendsItem, Items
<1>3. ASSUME NEW c \in AllCalls, PermissionQueued(c) \/ OperationQueued(c) PROVE CallTypeOK'
  <2>1. PICK what \in {"op", "permission"} : Queues(c, what)
    BY <1>3 DEF PermissionQueued, OperationQueued
  <2>2. [kind |-> what, call |-> c] \in EventsOf(known)
    BY <2>1 DEF Queues, EventsOf
  <2> QED
    BY <2>1, <2>2 DEF Queues, PushCall, logVars
<1>4. CASE Observes
  <2>1. known \subseteq known' /\ known' \subseteq AllCalls /\ ended' \subseteq known'
    BY <1>4 DEF Observes, Responses, Statuses, NoItem
  <2>2. [kind |-> observing.kind, item |-> observing] \in EventsOf(known')
    BY <1>4, <2>1 DEF Observes, Responses, Statuses, NoItem, EventsOf
  <2>3. callEvents' \in Seq(EventsOf(known'))
    BY <1>4, <2>1, <2>2, MoreEvents, SMTT(30) DEF Observes, PushCall
  <2>4. HandsOf(known) \subseteq HandsOf(known')
    BY <2>1 DEF HandsOf
  <2> QED
    BY <1>4, <2>1, <2>3, <2>4 DEF Observes
<1>5. CASE ClientCancels
  BY <1>5 DEF ClientCancels, logVars
<1>6. CASE CancelTimesOut
  <2>1. [kind |-> "flush"] \in EventsOf(known)
    BY DEF EventsOf
  <2> QED
    BY <1>6, <2>1 DEF CancelTimesOut, PushCall, logVars
<1> QED
  BY <1>1, <1>2, <1>3, <1>4, <1>5, <1>6 DEF Environment

\* What the actor does.
LEMMA ActorType == CallTypeOK /\ MarkedIsTold /\ CallActor => CallTypeOK'
<1> SUFFICES ASSUME CallTypeOK, MarkedIsTold, CallActor PROVE CallTypeOK'
  OBVIOUS
<1> USE DEF CallTypeOK, turnVars, replayVars, logVars, actorState
<1>1. CASE HandlesAny
  <2>1. callEvents # <<>> /\ callEvents' = Tail(callEvents)
    BY <1>1 DEF HandlesAny, HandleCalls, HandleStatus, HandleFlush, HandleOperation,
       HandlePermission, HandlesCall
  <2>2. callEvents' \in Seq(EventsOf(known))
    BY <2>1, HeadTypes
  <2>3. duty' \in SUBSET (known \X Tells) /\ started' \in SUBSET known
        /\ reported' \in SUBSET known /\ waitCalls' \in SUBSET known
    BY <1>1, <2>1, HeadTypes, SMTT(30) DEF HandlesAny, HandleCalls, HandleStatus, HandleFlush,
       HandleOperation, HandlePermission, HandlesCall, Reports, Tells
  <2> QED
    BY <1>1, <2>2, <2>3 DEF HandlesAny, HandleCalls, HandleStatus, HandleFlush,
       HandleOperation, HandlePermission, HandlesCall
<1>2. ASSUME NEW c \in AllCalls, NEW tell \in Tells, AnnounceMarks(c, tell) PROVE CallTypeOK'
  BY <1>2 DEF AnnounceMarks, TakesDuty, Marked, OthersAreAside, HandsOf
<1>3. ASSUME NEW c \in AllCalls, NEW tell \in Tells, AnnounceSkips(c, tell) PROVE CallTypeOK'
  BY <1>3 DEF AnnounceSkips, TakesDuty, OthersAreAside, HandsOf
<1>4. CASE AnnounceSends
  <2>1. hand \in [call : known, tell : Tells, step : {"telling", "updating"}]
    BY <1>4, NobodyHasNoCall DEF AnnounceSends, HandsOf
  <2>2. hand' \in HandsOf(known)
    BY <1>4, <2>1 DEF AnnounceSends, HandsOf
  <2>3. told' \in SUBSET announced
    BY <1>4 DEF AnnounceSends, MarkedIsTold, Telling
  <2> QED
    BY <1>4, <2>2, <2>3 DEF AnnounceSends, OthersAreAside
<1>5. CASE SendsUpdate
  BY <1>5 DEF SendsUpdate, OthersAreAside, HandsOf, Nobody
<1> QED
  BY <1>1, <1>2, <1>3, <1>4, <1>5 DEF CallActor, Speaks

\* What Replay does.
LEMMA ReplayType == CallTypeOK /\ MarkedIsTold /\ Replays => CallTypeOK'
<1> SUFFICES ASSUME CallTypeOK, MarkedIsTold, Replays PROVE CallTypeOK'
  OBVIOUS
<1> USE DEF CallTypeOK, LiveIsAside, turnVars, logVars, actorState
<1>1. CASE ReplayReads
  <2>1. replay' \in [at : Nat, items : Seq(Items), loads : 0 .. MaxLoads]
    BY <1>1, CallAssumption DEF ReplayReads
  <2> QED
    BY <1>1, <2>1 DEF ReplayReads
<1>2. CASE ReplayItem
  <2>1. replay.at \in Nat /\ replay.at + 1 \in 1 .. Len(replay.items)
    BY <1>2 DEF ReplayItem
  <2>2. replay.items[replay.at + 1] \in Items
    BY <2>1
  <2>3. replayDuty' \in SUBSET AllCalls
    BY <1>2, <2>2 DEF ReplayItem, ToReplay, Items, Responses, Statuses
  <2>4. replay' = [at |-> replay.at + 1, items |-> replay.items, loads |-> replay.loads]
    BY <1>2 DEF ReplayItem
  <2>5. replay' \in [at : Nat, items : Seq(Items), loads : 0 .. MaxLoads]
    BY <2>1, <2>4
  <2> QED
    BY <1>2, <2>3, <2>5 DEF ReplayItem
<1>3. CASE ReplayEnds
  <2>1. replay' = [at |-> 0, items |-> <<>>, loads |-> replay.loads]
    BY <1>3 DEF ReplayEnds
  <2>2. replay' \in [at : Nat, items : Seq(Items), loads : 0 .. MaxLoads]
    BY <2>1
  <2> QED
    BY <1>3, <2>2 DEF ReplayEnds
<1>4. ASSUME NEW c \in AllCalls, ReplayMarks(c) PROVE CallTypeOK'
  BY <1>4 DEF ReplayMarks, Marked
<1>5. CASE ReplaySends
  BY <1>5 DEF ReplaySends, MarkedIsTold
<1> QED
  BY <1>1, <1>2, <1>3, <1>4, <1>5 DEF Replays

-----------------------------------------------------------------------------
(* What the client has been told. *)

\* Only the actor's speaking and Replay change what was told.
LEMMA AsideTold ==
    CallTypeOK /\ MarkedIsTold /\ ToldFirst /\ (Environment \/ HandlesAny)
        => MarkedIsTold' /\ ToldFirst'
<1> SUFFICES ASSUME Environment \/ HandlesAny
             PROVE  UNCHANGED <<announced, told, replayHand, hand, updates>>
  BY DEF MarkedIsTold, ToldFirst, Telling
<1> QED
  BY DEF Environment, AppendsResponse, AppendsStatus, AppendsItem, PermissionQueued,
     OperationQueued, Queues, Observes, ClientCancels, CancelTimesOut, ActorIsAside,
     HandlesAny, HandleCalls, HandleStatus, HandleFlush, HandleOperation, HandlePermission,
     HandlesCall, replayVars

\* The actor writes an update only once the call is told or marked by Replay.
LEMMA SpeaksTold ==
    CallTypeOK /\ MarkedIsTold /\ ToldFirst /\ Speaks => MarkedIsTold' /\ ToldFirst'
<1> SUFFICES ASSUME CallTypeOK, MarkedIsTold, ToldFirst, Speaks
             PROVE  MarkedIsTold' /\ ToldFirst'
  OBVIOUS
<1> USE DEF MarkedIsTold, ToldFirst, Telling
<1>1. ASSUME NEW c \in AllCalls, NEW tell \in Tells, AnnounceMarks(c, tell)
      PROVE  MarkedIsTold' /\ ToldFirst'
  BY <1>1, NobodyHasNoCall DEF AnnounceMarks, TakesDuty, Marked, OthersAreAside, replayVars
<1>2. ASSUME NEW c \in AllCalls, NEW tell \in Tells, AnnounceSkips(c, tell)
      PROVE  MarkedIsTold' /\ ToldFirst'
  <2>1. c \in known
    BY <1>2 DEF AnnounceSkips, TakesDuty, CallTypeOK
  <2>2. c \in told \cup replayHand
    BY <1>2, <2>1, NobodyHasNoCall DEF AnnounceSkips, Fresh, TakesDuty
  <2> QED
    BY <1>2, <2>2, NobodyHasNoCall DEF AnnounceSkips, TakesDuty, OthersAreAside, replayVars
<1>3. CASE AnnounceSends
  <2>1. hand' = [call |-> hand.call, tell |-> hand.tell, step |-> "updating"]
    BY <1>3, NobodyHasNoCall DEF AnnounceSends, CallTypeOK, HandsOf
  <2> QED
    BY <1>3, <2>1 DEF AnnounceSends, OthersAreAside, replayVars
<1>4. CASE SendsUpdate
  BY <1>4, NobodyHasNoCall DEF SendsUpdate, OthersAreAside, replayVars, CallTypeOK
<1> QED
  BY <1>1, <1>2, <1>3, <1>4 DEF Speaks

\* Replay marks a call and then tells it.
LEMMA ReplayTold ==
    CallTypeOK /\ MarkedIsTold /\ ToldFirst /\ Replays => MarkedIsTold' /\ ToldFirst'
<1> SUFFICES ASSUME CallTypeOK, MarkedIsTold, ToldFirst, Replays
             PROVE  MarkedIsTold' /\ ToldFirst'
  OBVIOUS
<1> USE DEF MarkedIsTold, ToldFirst, Telling, LiveIsAside
<1>1. CASE ReplayReads
  BY <1>1 DEF ReplayReads
<1>2. CASE ReplayItem
  BY <1>2 DEF ReplayItem
<1>3. CASE ReplayEnds
  BY <1>3 DEF ReplayEnds
<1>4. ASSUME NEW c \in AllCalls, ReplayMarks(c) PROVE MarkedIsTold' /\ ToldFirst'
  BY <1>4 DEF ReplayMarks, Marked
<1>5. CASE ReplaySends
  BY <1>5 DEF ReplaySends
<1> QED
  BY <1>1, <1>2, <1>3, <1>4, <1>5 DEF Replays

-----------------------------------------------------------------------------
(* The final updates. *)

\* What a sequence ends in after one more element.
LEMMA AppendTold ==
    ASSUME NEW S, NEW s \in Seq(S), NEW t \in S
    PROVE  /\ Append(s, t) \in Seq(S) /\ Len(Append(s, t)) = Len(s) + 1
           /\ \A i \in 1 .. Len(s) : Append(s, t)[i] = s[i]
           /\ Append(s, t)[Len(s) + 1] = t
OBVIOUS

\* What is in the hand is said; nothing is said of other calls.
LEMMA SaidUpdate ==
    ASSUME CallTypeOK, SendsUpdate
    PROVE  /\ hand.call \in AllCalls /\ hand.tell \in Tells
           /\ updates[hand.call] \in Seq(Tells)
           /\ hand.tell # "none" => updates'[hand.call] = Append(updates[hand.call], hand.tell)
           /\ hand.tell = "none" => updates' = updates
           /\ \A c \in AllCalls : c # hand.call => updates'[c] = updates[c]
           /\ duty' = duty /\ reported' = reported /\ hand' = Nobody
<1>1. hand.call \in AllCalls /\ hand.tell \in Tells
  BY NobodyHasNoCall DEF SendsUpdate, CallTypeOK, HandsOf
<1>2. updates[hand.call] \in Seq(Tells)
  BY <1>1 DEF CallTypeOK
<1> QED
  BY <1>1, <1>2 DEF SendsUpdate, OthersAreAside, actorState, CallTypeOK

\* A call has its final update when it had it or is given it now.
LEMMA SaidFinal ==
    ASSUME CallTypeOK, SendsUpdate, NEW c \in AllCalls
    PROVE  Final(c)' <=> Final(c) \/ (c = hand.call /\ hand.tell = "final")
<1>1. CASE c # hand.call \/ hand.tell = "none"
  BY <1>1, SaidUpdate DEF Final
<1>2. CASE c = hand.call /\ hand.tell # "none"
  <2> DEFINE s == updates[c]
             t == hand.tell
  <2>1. s \in Seq(Tells) /\ t \in Tells /\ updates'[c] = Append(s, t)
    BY <1>2, SaidUpdate
  <2>2. /\ Len(Append(s, t)) = Len(s) + 1 /\ Len(s) \in Nat
        /\ \A i \in 1 .. Len(s) : Append(s, t)[i] = s[i]
        /\ Append(s, t)[Len(s) + 1] = t
    BY <2>1, AppendTold
  <2> HIDE DEF s, t
  <2>3. (\E i \in 1 .. Len(Append(s, t)) : Append(s, t)[i] = "final")
          <=> (\E i \in 1 .. Len(s) : s[i] = "final") \/ t = "final"
    BY <2>2
  <2> QED
    BY <1>2, <2>1, <2>3 DEF Final, s, t
<1> QED
  BY <1>1, <1>2

ReportInv == FinalIsLast /\ EndsOnce /\ ReportedIsOwed

\* Neither the others nor Replay touch what the actor reports.
LEMMA AsideReport == CallTypeOK /\ ReportInv /\ (Environment \/ Replays) => ReportInv'
<1> SUFFICES ASSUME Environment \/ Replays
             PROVE  UNCHANGED <<reported, duty, hand, updates>>
  BY DEF ReportInv, FinalIsLast, EndsOnce, ReportedIsOwed, Final, Due
<1> QED
  BY DEF Environment, AppendsResponse, AppendsStatus, AppendsItem, PermissionQueued,
     OperationQueued, Queues, Observes, ClientCancels, CancelTimesOut, ActorIsAside,
     Replays, ReplayReads, ReplayItem, ReplayEnds, ReplayMarks, ReplaySends, LiveIsAside,
     actorState

\* The actor takes an event when it owes nothing: a final update is due only
\* of calls that had none, progress only of calls that are not reported.
LEMMA HandlesReport == CallTypeOK /\ ReportInv /\ HandlesAny => ReportInv'
<1> SUFFICES ASSUME CallTypeOK, ReportInv, HandlesAny PROVE ReportInv'
  OBVIOUS
<1> USE DEF ReportInv
<1>1. duty = {} /\ hand = Nobody /\ hand' = Nobody /\ updates' = updates
  BY DEF HandlesAny, HandleCalls, HandleStatus, HandleFlush, HandleOperation,
     HandlePermission, HandlesCall
<1>2. \A c \in AllCalls : ~Due(c, "final") /\ ~Due(c, "progress")
  BY <1>1, NobodyHasNoCall DEF Due
<1>3. \A c \in AllCalls, tell \in Tells : Due(c, tell)' <=> <<c, tell>> \in duty'
  BY <1>1, NobodyHasNoCall DEF Due
<1>4. \A c \in AllCalls : Final(c)' <=> Final(c)
  BY <1>1 DEF Final
<1>5. EndsOnce'
  BY <1>1 DEF EndsOnce
<1>6. \A c \in AllCalls : Final(c) <=> c \in reported
  BY <1>2 DEF FinalIsLast, ReportedIsOwed
<1>7. reported \subseteq AllCalls /\ known \subseteq AllCalls /\ waitCalls \subseteq known
  BY DEF CallTypeOK
<1>8. ASSUME NEW calls \in SUBSET known, Reports(calls) PROVE ReportInv'
  <2>1. duty' = {<<c, "final">> : c \in calls \ reported} /\ reported' = reported \cup calls
    BY <1>8 DEF Reports
  <2>2. \A c \in AllCalls : /\ <<c, "final">> \in duty' <=> c \in calls \ reported
                            /\ <<c, "progress">> \notin duty'
    BY <2>1
  <2>3. \A c \in AllCalls : /\ Due(c, "final")' <=> c \in calls \ reported
                            /\ ~Due(c, "progress")'
    BY <1>3, <2>2 DEF Tells
  <2>4. FinalIsLast'
    BY <1>1, <1>4, <1>6, <2>1, <2>3, NobodyHasNoCall DEF FinalIsLast
  <2>5. ReportedIsOwed'
    BY <1>4, <1>6, <1>7, <2>1, <2>3 DEF ReportedIsOwed
  <2> QED
    BY <1>5, <2>4, <2>5
<1>9. ASSUME reported' = reported,
             \A c \in AllCalls : /\ <<c, "final">> \notin duty'
                                 /\ <<c, "progress">> \in duty' => c \notin reported
      PROVE  ReportInv'
  <2>1. \A c \in AllCalls : ~Due(c, "final")' /\ (Due(c, "progress")' => c \notin reported)
    BY <1>3, <1>9 DEF Tells
  <2>2. FinalIsLast'
    BY <1>1, <1>4, <1>6, <1>9, <2>1, NobodyHasNoCall DEF FinalIsLast
  <2>3. ReportedIsOwed'
    BY <1>4, <1>6, <1>7, <1>9 DEF ReportedIsOwed
  <2> QED
    BY <1>5, <2>2, <2>3
<1>10. CASE HandleCalls
  BY <1>9, <1>10 DEF HandleCalls, actorState
<1>11. CASE HandleStatus
  <2>1. Head(callEvents).item.call \in known
    BY <1>11, HeadTypes DEF HandleStatus, HandlesCall
  <2> QED
    BY <1>8, <1>11, <2>1 DEF HandleStatus
<1>12. CASE HandleFlush
  BY <1>7, <1>8, <1>12 DEF HandleFlush
<1>13. CASE HandleOperation
  BY <1>1, <1>9, <1>13 DEF HandleOperation, SaysItRuns
<1>14. CASE HandlePermission
  BY <1>9, <1>14 DEF HandlePermission, actorState
<1> QED
  BY <1>10, <1>11, <1>12, <1>13, <1>14 DEF HandlesAny

\* What is due moves from the duty to the hand, and from there to the client.
LEMMA SpeaksReport == CallTypeOK /\ ReportInv /\ Speaks => ReportInv'
<1> SUFFICES ASSUME CallTypeOK, ReportInv, Speaks PROVE ReportInv'
  OBVIOUS
<1> USE DEF ReportInv
<1>1. ASSUME NEW c \in AllCalls, NEW tell \in Tells, NEW step, TakesDuty(c, tell, step),
             reported' = reported, updates' = updates
      PROVE  ReportInv'
  <2>1. \A d \in AllCalls : Final(d)' <=> Final(d)
    BY <1>1 DEF Final
  <2>2. EndsOnce'
    BY <1>1 DEF EndsOnce
  <2>3. /\ hand = Nobody /\ hand'.call = c /\ hand'.tell = tell
        /\ <<c, tell>> \in duty /\ duty' = duty \ {<<c, tell>>}
    BY <1>1 DEF TakesDuty
  <2>4. \A d \in AllCalls, t \in Tells : Due(d, t)' <=> Due(d, t)
    BY <2>3, NobodyHasNoCall DEF Due
  <2>5. \A d \in AllCalls : hand'.call = d /\ hand'.tell = "final" => <<d, "final">> \notin duty'
    BY <2>3
  <2>6. FinalIsLast'
    BY <1>1, <2>1, <2>4, <2>5 DEF FinalIsLast, Tells
  <2>7. ReportedIsOwed'
    BY <1>1, <2>1, <2>4 DEF ReportedIsOwed, Tells, CallTypeOK
  <2> QED
    BY <2>2, <2>6, <2>7
<1>2. ASSUME NEW c \in AllCalls, NEW tell \in Tells, AnnounceMarks(c, tell) PROVE ReportInv'
  BY <1>1, <1>2 DEF AnnounceMarks, OthersAreAside, actorState
<1>3. ASSUME NEW c \in AllCalls, NEW tell \in Tells, AnnounceSkips(c, tell) PROVE ReportInv'
  BY <1>1, <1>3 DEF AnnounceSkips, OthersAreAside, actorState
<1>4. CASE AnnounceSends
  <2>1. hand' = [call |-> hand.call, tell |-> hand.tell, step |-> "updating"]
    BY <1>4, NobodyHasNoCall DEF AnnounceSends, CallTypeOK, HandsOf
  <2>2. UNCHANGED <<updates, duty, reported>> /\ hand'.call = hand.call /\ hand'.tell = hand.tell
    BY <1>4, <2>1 DEF AnnounceSends, OthersAreAside, actorState
  <2> QED
    BY <2>2 DEF FinalIsLast, EndsOnce, ReportedIsOwed, Final, Due
<1>5. CASE SendsUpdate
  <2> DEFINE h == hand.call
             t == hand.tell
  <2>1. /\ h \in AllCalls /\ t \in Tells /\ updates[h] \in Seq(Tells)
        /\ t # "none" => updates'[h] = Append(updates[h], t)
        /\ t = "none" => updates' = updates
        /\ \A c \in AllCalls : c # h => updates'[c] = updates[c]
        /\ duty' = duty /\ reported' = reported /\ hand' = Nobody
    BY <1>5, SaidUpdate
  <2>2. \A c \in AllCalls : Final(c)' <=> Final(c) \/ (c = h /\ t = "final")
    BY <1>5, SaidFinal
  <2>3. \A c \in AllCalls, u \in Tells : Due(c, u)' <=> <<c, u>> \in duty
    BY <2>1, NobodyHasNoCall DEF Due
  <2>4. \A c \in AllCalls, u \in Tells : Due(c, u) <=> <<c, u>> \in duty \/ (c = h /\ u = t)
    BY DEF Due
  <2>5. FinalIsLast'
    BY <2>1, <2>2, <2>3, <2>4, NobodyHasNoCall DEF FinalIsLast, Tells
  <2>6. ReportedIsOwed'
    BY <2>1, <2>2, <2>3, <2>4 DEF ReportedIsOwed, Tells, CallTypeOK
  <2>7. EndsOnce'
    <3> SUFFICES ASSUME NEW c \in AllCalls, NEW i \in 1 .. Len(updates'[c]),
                        NEW j \in 1 .. Len(updates'[c]), i < j, updates'[c][i] = "final"
                 PROVE  updates'[c][j] = "ask"
      BY DEF EndsOnce
    <3>1. CASE c # h \/ t = "none"
      BY <2>1, <3>1 DEF EndsOnce
    <3>2. CASE c = h /\ t # "none"
      <4>1. /\ Len(updates'[c]) = Len(updates[c]) + 1 /\ Len(updates[c]) \in Nat
            /\ \A k \in 1 .. Len(updates[c]) : updates'[c][k] = updates[c][k]
            /\ updates'[c][Len(updates[c]) + 1] = t
        BY <2>1, <3>2, AppendTold, SMTT(30)
      <4>2. CASE j \in 1 .. Len(updates[c])
        BY <4>1, <4>2, SMTT(30) DEF EndsOnce
      <4>3. CASE j = Len(updates[c]) + 1
        <5>1. Final(c)
          BY <4>1, <4>3 DEF Final
        <5>2. t # "final" /\ t # "progress"
          BY <2>4, <3>2, <5>1 DEF FinalIsLast, Tells
        <5> QED
          BY <2>1, <3>2, <4>1, <4>3, <5>2 DEF Tells
      <4> QED
        BY <4>1, <4>2, <4>3
    <3> QED
      BY <3>1, <3>2
  <2> QED
    BY <2>5, <2>6, <2>7
<1> QED
  BY <1>2, <1>3, <1>4, <1>5 DEF Speaks

-----------------------------------------------------------------------------
(* The statuses. *)

StatusOf(c, e) == e.kind = "status" /\ e.item.call = c

\* A sequence of some elements is one of more elements.
LEMMA MoreElements ==
    ASSUME NEW S, NEW e, NEW s \in Seq(S)
    PROVE  s \in Seq(S \cup {e})
OBVIOUS

\* What is pushed leaves in the queue what was there.
LEMMA PushKeeps ==
    ASSUME NEW S, callEvents \in Seq(S), NEW e, PushCall(e), NEW c
    PROVE  /\ StatusIsQueued(c) => StatusIsQueued(c)'
           /\ StatusOf(c, e) => StatusIsQueued(c)'
<1> DEFINE s == callEvents
<1>1. /\ callEvents' = Append(s, e) /\ Len(s) \in Nat
      /\ Len(Append(s, e)) = Len(s) + 1
      /\ \A i \in 1 .. Len(s) : Append(s, e)[i] = s[i]
      /\ Append(s, e)[Len(s) + 1] = e
  <2>1. s \in Seq(S \cup {e}) /\ e \in S \cup {e}
    BY MoreElements
  <2> QED
    BY <2>1, AppendTold DEF PushCall
<1> QED
  BY <1>1 DEF StatusIsQueued, StatusOf

\* What is taken is the head.
LEMMA TakeKeeps ==
    ASSUME NEW S, callEvents \in Seq(S), callEvents # <<>>, callEvents' = Tail(callEvents),
           NEW c, StatusIsQueued(c)
    PROVE  StatusOf(c, Head(callEvents)) \/ StatusIsQueued(c)'
<1>1. PICK i \in 1 .. Len(callEvents) : StatusOf(c, callEvents[i])
  BY DEF StatusIsQueued, StatusOf
<1>2. CASE i = 1
  BY <1>1, <1>2 DEF StatusOf
<1>3. CASE i > 1
  <2>1. i - 1 \in 1 .. Len(callEvents') /\ callEvents'[i - 1] = callEvents[i]
    BY <1>3
  <2> QED
    BY <1>1, <2>1 DEF StatusIsQueued, StatusOf
<1> QED
  BY <1>1, <1>2, <1>3

\* The observer queues the status of the call that it counts as ended.
LEMMA EnvironmentEnded ==
    CallTypeOK /\ EndedIsReported /\ Environment => EndedIsReported'
<1> SUFFICES ASSUME CallTypeOK, EndedIsReported, Environment PROVE EndedIsReported'
  OBVIOUS
<1>1. callEvents \in Seq(EventsOf(known))
  BY DEF CallTypeOK
<1>2. ASSUME UNCHANGED <<ended, callEvents, reported>> PROVE EndedIsReported'
  BY <1>2 DEF EndedIsReported, StatusIsQueued
<1>3. ASSUME NEW e, PushCall(e), UNCHANGED <<ended, reported>> PROVE EndedIsReported'
  BY <1>1, <1>3, PushKeeps DEF EndedIsReported
<1>4. ASSUME NEW calls, AppendsResponse(calls) PROVE EndedIsReported'
  BY <1>2, <1>4 DEF AppendsResponse, AppendsItem, ActorIsAside
<1>5. ASSUME NEW c, AppendsStatus(c) PROVE EndedIsReported'
  BY <1>2, <1>5 DEF AppendsStatus, AppendsItem, ActorIsAside
<1>6. ASSUME NEW c, PermissionQueued(c) \/ OperationQueued(c) PROVE EndedIsReported'
  <2>1. PICK what : Queues(c, what)
    BY <1>6 DEF PermissionQueued, OperationQueued
  <2> QED
    BY <2>1, <1>3 DEF Queues, ActorIsAside, logVars
<1>7. CASE Observes
  <2> DEFINE e == [kind |-> observing.kind, item |-> observing]
  <2>1. PushCall(e) /\ reported' = reported
    BY <1>7 DEF Observes, ActorIsAside
  <2>2. SUFFICES ASSUME NEW c \in ended' PROVE c \in reported' \/ StatusIsQueued(c)'
    BY DEF EndedIsReported
  <2>3. CASE c \in ended
    BY <1>1, <2>1, <2>3, PushKeeps DEF EndedIsReported
  <2>4. CASE c \notin ended
    <3>1. StatusOf(c, e)
      BY <1>7, <2>4 DEF Observes, StatusOf
    <3> QED
      BY <1>1, <2>1, <3>1, PushKeeps
  <2> QED
    BY <2>3, <2>4
<1>8. CASE ClientCancels
  BY <1>2, <1>8 DEF ClientCancels, ActorIsAside, logVars
<1>9. CASE CancelTimesOut
  BY <1>3, <1>9 DEF CancelTimesOut, ActorIsAside, logVars
<1> QED
  BY <1>4, <1>5, <1>6, <1>7, <1>8, <1>9 DEF Environment

\* The actor reports the call whose status it takes.
LEMMA HandlesEnded ==
    CallTypeOK /\ EndedIsReported /\ HandlesAny => EndedIsReported'
<1> SUFFICES ASSUME CallTypeOK, EndedIsReported, HandlesAny, NEW c \in ended'
             PROVE  c \in reported' \/ StatusIsQueued(c)'
  BY DEF EndedIsReported
<1>1. /\ callEvents # <<>> /\ callEvents' = Tail(callEvents)
      /\ ended' = ended /\ reported \subseteq reported'
  BY DEF HandlesAny, HandleCalls, HandleStatus, HandleFlush, HandleOperation,
     HandlePermission, HandlesCall, Reports, actorState, logVars
<1>2. StatusOf(c, Head(callEvents)) => c \in reported'
  BY DEF HandlesAny, HandleCalls, HandleStatus, HandleFlush, HandleOperation,
     HandlePermission, HandlesCall, Reports, StatusOf
<1>3. callEvents \in Seq(EventsOf(known))
  BY DEF CallTypeOK
<1> QED
  BY <1>1, <1>2, <1>3, TakeKeeps DEF EndedIsReported

\* Neither speaking nor Replay touch the queue.
LEMMA AsideEnded == EndedIsReported /\ (Speaks \/ Replays) => EndedIsReported'
<1> SUFFICES ASSUME Speaks \/ Replays PROVE UNCHANGED <<ended, callEvents, reported>>
  BY DEF EndedIsReported, StatusIsQueued
<1> QED
  BY DEF Speaks, AnnounceMarks, AnnounceSkips, AnnounceSends, SendsUpdate, OthersAreAside,
     Replays, ReplayReads, ReplayItem, ReplayEnds, ReplayMarks, ReplaySends, LiveIsAside,
     actorState, logVars

-----------------------------------------------------------------------------
(* What Replay tells. *)

Announcing(s, c, i) == \E j \in 1 .. i - 1 : s[j].kind = "response" /\ c \in s[j].calls

\* A status comes after the response that made its call.
Ordered(s) == \A i \in 1 .. Len(s) : s[i].kind = "status" => Announcing(s, s[i].call, i)

LogIsOrdered ==
    /\ Ordered(log)
    /\ \A c \in known : Announcing(log, c, Len(log) + 1)
    /\ observing # NoItem => log # <<>> /\ observing = log[Len(log)]

\* Of the responses that Replay has begun it has told every call, except of
\* the last one those still to be sent.
ReplayIsOrdered ==
    /\ Ordered(replay.items)
    /\ replay.at <= Len(replay.items)
    /\ \A j \in 1 .. replay.at : replay.items[j].kind = "response" =>
          replay.items[j].calls \subseteq
              told \cup (IF j = replay.at THEN replayDuty \cup replayHand ELSE {})

\* An item at the end of a log leaves its beginning as it was.
LEMMA AppendItem ==
    ASSUME log \in Seq(Items), NEW item \in Items, AppendsItem(item)
    PROVE  /\ Len(log) \in Nat /\ Len(log') = Len(log) + 1
           /\ \A i \in 1 .. Len(log) : log'[i] = log[i]
           /\ log'[Len(log) + 1] = item
           /\ observing = NoItem /\ observing' = item /\ known' = known
BY AppendTold DEF AppendsItem

\* The coordinator appends a status only of a call that is known.
LEMMA AppendOrdered ==
    ASSUME CallTypeOK, LogIsOrdered, NEW item \in Items, AppendsItem(item),
           item.kind = "status" => item.call \in known
    PROVE  LogIsOrdered'
<1>1. /\ Len(log) \in Nat /\ Len(log') = Len(log) + 1
      /\ \A i \in 1 .. Len(log) : log'[i] = log[i]
      /\ log'[Len(log) + 1] = item
      /\ observing' = item /\ known' = known
  BY AppendItem DEF CallTypeOK
<1>2. \A c, i : i \in 1 .. Len(log) + 1 /\ Announcing(log, c, i) => Announcing(log', c, i)
  BY <1>1 DEF Announcing
<1>3. \A c \in known : Announcing(log', c, Len(log) + 1)
  BY <1>1, <1>2 DEF LogIsOrdered
<1>4. \A c : Announcing(log', c, Len(log) + 1) => Announcing(log', c, Len(log') + 1)
  BY <1>1 DEF Announcing
<1>5. Ordered(log')
  <2> SUFFICES ASSUME NEW i \in 1 .. Len(log'), log'[i].kind = "status"
               PROVE  Announcing(log', log'[i].call, i)
    BY DEF Ordered
  <2>1. CASE i \in 1 .. Len(log)
    BY <1>1, <1>2, <2>1 DEF LogIsOrdered, Ordered
  <2>2. CASE i = Len(log) + 1
    BY <1>1, <1>3, <2>2
  <2> QED
    BY <1>1, <2>1, <2>2
<1>6. log' # <<>> /\ observing' = log'[Len(log')]
  BY <1>1
<1> QED
  BY <1>1, <1>3, <1>4, <1>5, <1>6 DEF LogIsOrdered

\* Neither the actor nor Replay touch the log.
LEMMA LogOrdered == CallTypeOK /\ LogIsOrdered /\ CallNext => LogIsOrdered'
<1> SUFFICES ASSUME CallTypeOK, LogIsOrdered, CallNext PROVE LogIsOrdered'
  OBVIOUS
<1>1. ASSUME UNCHANGED <<log, observing, known>> PROVE LogIsOrdered'
  BY <1>1 DEF LogIsOrdered, Ordered, Announcing
<1>2. CASE CallActor \/ Replays
  <2>1. UNCHANGED <<log, observing, known>>
    BY <1>2 DEF CallActor, HandlesAny, HandleCalls, HandleStatus, HandleFlush,
       HandleOperation, HandlePermission, HandlesCall, Speaks, AnnounceMarks, AnnounceSkips,
       AnnounceSends, SendsUpdate, OthersAreAside, Replays, ReplayReads, ReplayItem,
       ReplayEnds, ReplayMarks, ReplaySends, LiveIsAside, logVars
  <2> QED
    BY <1>1, <2>1
<1>3. ASSUME NEW calls \in SUBSET Calls \ {{}}, AppendsResponse(calls) PROVE LogIsOrdered'
  <2>1. Response(calls) \in Items /\ Response(calls).kind = "response"
    BY DEF Response, Items, Responses, AllCalls
  <2> QED
    BY <1>3, <2>1, AppendOrdered DEF AppendsResponse
<1>4. ASSUME NEW c \in AllCalls, AppendsStatus(c) PROVE LogIsOrdered'
  <2>1. Status(c) \in Items /\ Status(c).call = c
    BY DEF Status, Items, Statuses
  <2> QED
    BY <1>4, <2>1, AppendOrdered DEF AppendsStatus
<1>5. ASSUME NEW c \in AllCalls, PermissionQueued(c) \/ OperationQueued(c) PROVE LogIsOrdered'
  BY <1>1, <1>5 DEF PermissionQueued, OperationQueued, Queues, logVars
<1>6. CASE Observes
  <2>1. log' = log /\ observing' = NoItem /\ log # <<>> /\ observing = log[Len(log)]
    BY <1>6 DEF Observes, LogIsOrdered
  <2>2. ASSUME NEW c \in known' PROVE Announcing(log, c, Len(log) + 1)
    <3>1. CASE c \in known
      BY <3>1 DEF LogIsOrdered
    <3>2. CASE c \notin known
      <4>1. observing.kind = "response" /\ c \in observing.calls
        BY <1>6, <2>2, <3>2 DEF Observes
      <4>2. Len(log) \in 1 .. Len(log) + 1 - 1
        BY <2>1 DEF CallTypeOK
      <4> QED
        BY <2>1, <4>1, <4>2 DEF Announcing
    <3> QED
      BY <3>1, <3>2
  <2> QED
    BY <2>1, <2>2 DEF LogIsOrdered, Ordered, Announcing
<1>7. CASE ClientCancels \/ CancelTimesOut
  BY <1>1, <1>7 DEF ClientCancels, CancelTimesOut, logVars
<1> QED
  BY <1>2, <1>3, <1>4, <1>5, <1>6, <1>7 DEF CallNext, Environment

\* Replay begins an item when it has told all calls of the one before.
LEMMA ReplayOrdered ==
    CallTypeOK /\ LogIsOrdered /\ ReplayIsOrdered /\ CallNext => ReplayIsOrdered'
<1> SUFFICES ASSUME CallTypeOK, LogIsOrdered, ReplayIsOrdered, CallNext PROVE ReplayIsOrdered'
  OBVIOUS
<1> USE DEF ReplayIsOrdered
<1>1. CASE Environment \/ CallActor
  <2>1. UNCHANGED replayVars /\ told \subseteq told'
    BY <1>1 DEF Environment, AppendsResponse, AppendsStatus, AppendsItem, PermissionQueued,
       OperationQueued, Queues, Observes, ClientCancels, CancelTimesOut, ActorIsAside,
       CallActor, HandlesAny, HandleCalls, HandleStatus, HandleFlush, HandleOperation,
       HandlePermission, HandlesCall, Speaks, AnnounceMarks, AnnounceSkips, AnnounceSends,
       SendsUpdate, OthersAreAside
  <2> QED
    BY <2>1 DEF replayVars
<1>2. CASE ReplayReads
  BY <1>2 DEF ReplayReads, LogIsOrdered, CallTypeOK
<1>3. CASE ReplayItem
  <2>1. /\ replay.at \in Nat /\ replay'.at = replay.at + 1 /\ replay'.items = replay.items
        /\ replay.at < Len(replay.items) /\ Len(replay.items) \in Nat
        /\ replayDuty = {} /\ replayHand = {} /\ replayHand' = {} /\ told' = told
        /\ replayDuty' = ToReplay(replay.items[replay'.at])
    BY <1>3 DEF ReplayItem, CallTypeOK
  <2>2. ASSUME NEW j \in 1 .. replay'.at, replay.items[j].kind = "response"
        PROVE  replay.items[j].calls \subseteq
                 told \cup (IF j = replay'.at THEN replayDuty' \cup replayHand' ELSE {})
    BY <2>1, <2>2 DEF ToReplay
  <2> QED
    BY <2>1, <2>2
<1>4. CASE ReplayEnds
  <2>1. replay'.at = 0 /\ replay'.items = <<>>
    BY <1>4 DEF ReplayEnds, CallTypeOK
  <2> QED
    BY <2>1 DEF Ordered
<1>5. ASSUME NEW c \in AllCalls, ReplayMarks(c) PROVE ReplayIsOrdered'
  BY <1>5 DEF ReplayMarks, LiveIsAside
<1>6. CASE ReplaySends
  BY <1>6 DEF ReplaySends, LiveIsAside
<1> QED
  BY <1>1, <1>2, <1>3, <1>4, <1>5, <1>6 DEF CallNext, Replays

-----------------------------------------------------------------------------
(* The theorems. *)

\* The invariant holds initially.
LEMMA CallInitInv == CallInit => CallIInv
<1> SUFFICES ASSUME CallInit PROVE CallIInv
  OBVIOUS
<1>1. CallTypeOK
  BY CallInitType
<1>2. \A c \in AllCalls : updates[c] = <<>> /\ ~Final(c)
  BY DEF CallInit, Final
<1>3. MarkedIsTold /\ ToldFirst
  BY <1>2, NobodyHasNoCall DEF CallInit, SeenOfHistory, MarkedIsTold, Telling, ToldFirst
<1>4. FinalIsLast /\ EndsOnce /\ ReportedIsOwed /\ EndedIsReported
  BY <1>2, NobodyHasNoCall DEF CallInit, FinalIsLast, Due, EndsOnce, ReportedIsOwed,
     EndedIsReported
<1> QED
  BY <1>1, <1>3, <1>4 DEF CallIInv

\* Every step preserves it.
LEMMA CallNextInv == CallIInv /\ [CallNext]_callVars => CallIInv'
<1> SUFFICES ASSUME CallIInv, [CallNext]_callVars PROVE CallIInv'
  OBVIOUS
<1> USE DEF CallIInv
<1>1. CASE Environment
  BY <1>1, EnvironmentType, AsideTold, AsideReport, EnvironmentEnded DEF ReportInv
<1>2. CASE HandlesAny
  BY <1>2, ActorType, AsideTold, HandlesReport, HandlesEnded DEF CallActor, ReportInv
<1>3. CASE Speaks
  BY <1>3, ActorType, SpeaksTold, SpeaksReport, AsideEnded DEF CallActor, ReportInv
<1>4. CASE Replays
  BY <1>4, ReplayType, ReplayTold, AsideReport, AsideEnded DEF ReportInv
<1>5. CASE UNCHANGED callVars
  BY <1>5 DEF callVars, logVars, turnVars, actorState, replayVars, CallTypeOK, MarkedIsTold,
     Telling, ToldFirst, FinalIsLast, Due, Final, EndsOnce, EndedIsReported, StatusIsQueued,
     ReportedIsOwed
<1> QED
  BY <1>1, <1>2, <1>3, <1>4, <1>5 DEF CallNext, CallActor

\* The invariant: what is marked is told or about to be, what is reported is
\* final or about to be, what has ended is reported or queued.
THEOREM CallInvariant == CallSpec => []CallIInv
BY CallInitInv, CallNextInv, PTL DEF CallSpec

\* The types of the state, for any calls and bounds.
THEOREM CallTypeCorrect == CallSpec => []CallTypeOK
<1>1. CallIInv => CallTypeOK
  BY DEF CallIInv
<1> QED
  BY <1>1, CallInvariant, PTL

\* The client has seen the tool_call of every call the actor says anything
\* of, or Replay is about to write it.
THEOREM CallToldFirst == CallSpec => []ToldFirst
<1>1. CallIInv => ToldFirst
  BY DEF CallIInv
<1> QED
  BY <1>1, CallInvariant, PTL

\* After its final update nothing more is said of a call.
THEOREM CallEndsOnce == CallSpec => []EndsOnce
<1>1. CallIInv => EndsOnce
  BY DEF CallIInv
<1> QED
  BY <1>1, CallInvariant, PTL

\* An actor that has caught up has reported every call that has ended.
THEOREM CallNoFinalIsLost == CallSpec => []NoFinalIsLost
<1>1. CallIInv => NoFinalIsLost
  <2> SUFFICES ASSUME CallIInv, CaughtUp, NEW c \in ended PROVE Final(c)
    BY DEF NoFinalIsLost
  <2>1. c \in AllCalls
    BY DEF CallIInv, CallTypeOK
  <2>2. ~StatusIsQueued(c) /\ ~Due(c, "final")
    BY <2>1, NobodyHasNoCall DEF CaughtUp, StatusIsQueued, Due
  <2> QED
    BY <2>2 DEF CallIInv, EndedIsReported, ReportedIsOwed
<1> QED
  BY <1>1, CallInvariant, PTL

\* Replay's invariant holds of every state.
LEMMA ReplayInvariant == CallSpec => [](LogIsOrdered /\ ReplayIsOrdered)
<1> DEFINE RInv == LogIsOrdered /\ ReplayIsOrdered
<1>1. CallInit => RInv
  BY DEF CallInit, LogIsOrdered, ReplayIsOrdered, Ordered, Announcing, Response, NoItem
<1>2. CallTypeOK /\ RInv /\ [CallNext]_callVars => RInv'
  <2> SUFFICES ASSUME CallTypeOK, RInv, [CallNext]_callVars PROVE RInv'
    OBVIOUS
  <2>1. CASE CallNext
    BY <2>1, LogOrdered, ReplayOrdered
  <2>2. CASE UNCHANGED callVars
    BY <2>2 DEF callVars, logVars, replayVars, LogIsOrdered, ReplayIsOrdered, Ordered,
       Announcing
  <2> QED
    BY <2>1, <2>2
<1> QED
  BY <1>1, <1>2, CallTypeCorrect, PTL DEF CallSpec

\* Replay has told the call of every status it renders.
THEOREM CallReplayToldFirst == CallSpec => []ReplayToldFirst
<1>1. CallTypeOK /\ ReplayIsOrdered => ReplayToldFirst
  <2> SUFFICES ASSUME CallTypeOK, ReplayIsOrdered, NEW i \in 1 .. replay.at,
                      replay.items[i].kind = "status"
               PROVE  replay.items[i].call \in told
    BY DEF ReplayToldFirst
  <2>1. replay.at \in Nat /\ Len(replay.items) \in Nat /\ i \in 1 .. Len(replay.items)
    BY DEF CallTypeOK, ReplayIsOrdered
  <2>2. PICK j \in 1 .. i - 1 : /\ replay.items[j].kind = "response"
                                /\ replay.items[i].call \in replay.items[j].calls
    BY <2>1 DEF ReplayIsOrdered, Ordered, Announcing
  <2>3. j \in 1 .. replay.at /\ j # replay.at
    BY <2>1, <2>2
  <2> QED
    BY <2>2, <2>3 DEF ReplayIsOrdered
<1> QED
  BY <1>1, CallTypeCorrect, ReplayInvariant, PTL
=============================================================================

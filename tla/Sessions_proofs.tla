------------------------ MODULE Sessions_proofs ------------------------
(***************************************************************************)
(* Proofs about the session tables, for any number of processes, sessions  *)
(* and requests: types, that no log is replaced, no lock orphaned, that    *)
(* what is registered is open and locked, and that a session is created    *)
(* for one request only.                                                   *)
(*                                                                         *)
(* None of the four is inductive by itself: each rests on who may hold the *)
(* lock at which stage, which HandlersInv, RuntimesInv, TablesInv and      *)
(* LocksInv state from the side of each of the four kinds of owner.        *)
(***************************************************************************)
EXTENDS Sessions, TLAPS

Live == {"open"} \cup Closing

\* A handler from the lock to the registration has the lock, and a runtime only
\* at the end.
HandlersInv ==
    \A h \in Requests :
        /\ stage[h] \in Opening => Serves(call[h].proc)
        /\ stage[h] \in Holding => lock[call[h].id] = h
        /\ stage[h] = "registering" => runtime[h] = "open"
        /\ stage[h] = "prompting" => call[h].mode = "prompt"
        /\ stage[h] = "closing" => call[h].mode = "close"
        /\ stage[h] \in Opening \cup {"none"} /\ stage[h] # "registering" => runtime[h] = "none"

\* A runtime that is not closed has the lock, and is in the table of its process
\* until its close begins.
RuntimesInv ==
    \A r \in Requests : runtime[r] \in Live =>
        /\ lock[call[r].id] = r
        /\ Serves(call[r].proc)
        /\ runtime[r] = "open" =>
             stage[r] = "registering" \/ InTable(call[r].proc, call[r].id) = r

TablesInv ==
    \A p \in Procs, s \in SessionIds : LET r == InTable(p, s) IN
        r # NoOne => /\ Serves(p)
                     /\ stage[r] \notin Opening \cup {"none"}
                     /\ call[r].proc = p /\ call[r].id = s
                     /\ up[p] = "up" => runtime[r] = "open"

LocksInv ==
    \A s \in SessionIds : LET h == lock[s] IN
        h # NoOne => /\ stage[h] # "none" /\ call[h].id = s
                     /\ stage[h] \in Holding \/ runtime[h] \in Live

\* A session/new that is to create has the session to itself from its check on.
Made == {"creating", "opening", "registering", "unbinding", "answered"}

CreatesInv ==
    /\ \A h \in Requests :
         call[h].mode = "create" /\ stage[h] \in Made \ {"creating"} => Exists(call[h].id)
    /\ \A g, h \in Requests :
         /\ g # h
         /\ {stage[g], stage[h]} \subseteq Made
         /\ call[g].mode = "create" /\ call[h].mode = "create"
         => call[g].id # call[h].id

SessionsInv ==
    TypeOK /\ HandlersInv /\ RuntimesInv /\ TablesInv /\ LocksInv
    /\ LogIsNeverReplaced /\ CreatesInv

-----------------------------------------------------------------------
(* Types.                                                                  *)

\* Before any process starts the types hold.
LEMMA InitType == Init => TypeOK
BY SessionsAssumption DEF Init, TypeOK, Procs, Requests, NoOne, Stages, BoundModes, NoCall

\* What the processes do of their own keeps the types.
LEMMA ProcessType ==
    ASSUME TypeOK, NEW p \in Procs,
           (\E m \in Launches : Launch(p, m)) \/ Shutdown(p) \/ Dies(p)
    PROVE  TypeOK'
<1> USE SessionsAssumption DEF TypeOK, Requests, NoOne, procVars, diskVars, rtVars
<1>1. ASSUME NEW m \in Launches, Launch(p, m) PROVE TypeOK'
  BY <1>1 DEF Launch
<1>2. CASE Shutdown(p)
  BY <1>2 DEF Shutdown, InTables, Told, Closing
<1>3. CASE Dies(p)
  BY <1>3 DEF Dies, Of, Arrived, BoundModes, Stages
<1> QED
  BY <1>1, <1>2, <1>3

\* A request that arrives is a call, at the stage it starts from.
LEMMA ClientType ==
    ASSUME TypeOK, NEW h \in Requests, NEW p \in Procs, NEW s \in SessionIds, Client(h, p, s)
    PROVE  TypeOK'
<1> USE DEF TypeOK, NoOne, Arrives, Goes, Stages, Opening, Calls, NoCall, procVars, diskVars, rtVars
<1>1. CASE NewSession(h, p, s)
  BY <1>1 DEF NewSession, Modes, BoundModes
<1>2. CASE Attach(h, p, s)
  BY <1>2 DEF Attach, Modes
<1>3. CASE Prompt(h, p, s)
  BY <1>3 DEF Prompt, InTable, Modes
<1>4. CASE CloseSession(h, p, s)
  BY <1>4 DEF CloseSession, InTable, Told, Modes, Closing
<1> QED
  BY <1>1, <1>2, <1>3, <1>4 DEF Client

\* The steps of handlers, closes and coordinators keep the types.
LEMMA HandlerType ==
    ASSUME TypeOK, NEW h \in Requests, Handler(h) \/ Close(h) \/ RunEnds(h)
    PROVE  TypeOK'
<1> USE DEF TypeOK, Requests, NoOne, Goes, Stages, Opening, Closing, procVars, diskVars, rtVars
<1>1. stage[h] # "none" => call[h] \in Calls
  OBVIOUS
<1>2. CASE Lookup(h)
  BY <1>2, ZenonT(60) DEF Lookup, Served
<1>3. CASE AcquireLock(h)
  BY <1>1, <1>3 DEF AcquireLock, Calls
<1>4. CASE SessionBusy(h) \/ Check(h)
  BY <1>4, ZenonT(60) DEF SessionBusy, Check
<1>5. CASE OpenFails(h)
  <2>1. lock' \in [SessionIds -> Requests \cup {NoOne}]
    BY <1>5 DEF OpenFails, Release
  <2> QED
    BY <1>5, <2>1 DEF OpenFails
<1>6. CASE Create(h)
  BY <1>1, <1>6 DEF Create, Calls
<1>7. CASE Open(h)
  BY <1>7 DEF Open
<1>8. CASE Register(h)
  BY <1>1, <1>8 DEF Register, Served, Calls
<1>9. CASE Unbind(h)
  BY <1>9 DEF Unbind, BoundModes
<1>10. CASE EnsureGeneration(h)
  <2>1. coord' \in [Requests -> {"none", "running", "stopping", "abandoned"}]
    BY <1>10 DEF EnsureGeneration
  <2>2. PICK to \in {"answered", "failed"} : Goes(h, to)
    BY <1>10 DEF EnsureGeneration
  <2>3. hand' \in [Requests -> Requests \cup {NoOne}]
    BY <1>10 DEF EnsureGeneration
  <2>4. stage[h] = "prompting" /\ UNCHANGED <<procVars, call, diskVars, runtime>>
    BY <1>10 DEF EnsureGeneration
  <2> QED
    BY <2>1, <2>2, <2>3, <2>4
<1>11. CASE CloseAnswers(h)
  BY <1>11 DEF CloseAnswers
<1>12. CASE RunEnds(h)
  BY <1>12 DEF RunEnds
<1>13. CASE CloseStops(h) \/ CloseWaited(h) \/ CloseReleases(h)
  BY <1>13, ZenonT(60) DEF CloseStops, CloseWaited, CloseReleases, Release
<1> QED
  BY <1>2, <1>3, <1>4, <1>5, <1>6, <1>7, <1>8, <1>9, <1>10, <1>11, <1>12, <1>13 DEF Handler, Close

\* Every step keeps the types.
LEMMA TypeStep == TypeOK /\ [Next]_vars => TypeOK'
<1> SUFFICES ASSUME TypeOK, [Next]_vars PROVE TypeOK'
  OBVIOUS
<1>1. CASE UNCHANGED vars
  BY <1>1 DEF vars, procVars, diskVars, rtVars, TypeOK
<1> QED
  BY <1>1, ProcessType, ClientType, HandlerType DEF Next, Exit, Crash

\* The session tables are well typed.
THEOREM SessionsTypeCorrect == Spec => []TypeOK
BY InitType, TypeStep, PTL DEF Spec

-----------------------------------------------------------------------
(* The invariant.                                                          *)

\* A request that has arrived asks for a session of a process.
LEMMA CallTypes ==
    TypeOK => \A h \in Requests : stage[h] # "none" =>
        call[h].proc \in Procs /\ call[h].id \in SessionIds
BY DEF TypeOK, Calls

\* Before any process starts nothing is open and no lock is held.
LEMMA InitInv == Init => SessionsInv
<1> SUFFICES ASSUME Init PROVE SessionsInv
  OBVIOUS
<1>1. TypeOK
  BY InitType
<1> QED
  BY <1>1 DEF Init, SessionsInv, HandlersInv, RuntimesInv, TablesInv, LocksInv, Holding, Opening,
              Live, Closing, InTable, LogIsNeverReplaced, CreatesInv, Made, NoCall

\* What a client asks for says nothing yet of what is open: only session/close
\* touches the table, and what it takes out has begun to close.
LEMMA ClientStep ==
    ASSUME SessionsInv, TypeOK', NEW h \in Requests, NEW p \in Procs, NEW s \in SessionIds,
           Client(h, p, s)
    PROVE  SessionsInv'
<1> USE DEF SessionsInv, HandlersInv, RuntimesInv, TablesInv, LocksInv, LogIsNeverReplaced,
        CreatesInv, TypeOK, Requests, NoOne, Arrives, Goes, Opening, Holding, Live,
        Closing, Made, InTable, Serves,
        Exists, procVars, diskVars, rtVars
<1>1. CASE NewSession(h, p, s)
  BY <1>1 DEF NewSession
<1>2. CASE Attach(h, p, s)
  BY <1>2 DEF Attach
<1>3. CASE Prompt(h, p, s)
  BY <1>3 DEF Prompt
<1>4. CASE CloseSession(h, p, s)
  <2> USE <1>4 DEF CloseSession, Told
  <2>1. HandlersInv'
    OBVIOUS
  <2>2. RuntimesInv'
    OBVIOUS
  <2>3. TablesInv'
    OBVIOUS
  <2>4. LocksInv'
    OBVIOUS
  <2>5. LogIsNeverReplaced' /\ CreatesInv'
    OBVIOUS
  <2> QED
    BY <2>1, <2>2, <2>3, <2>4, <2>5 DEF SessionsInv
<1> QED
  BY <1>1, <1>2, <1>3, <1>4 DEF Client

\* The steps that open a session.
LEMMA OpeningStep ==
    ASSUME SessionsInv, TypeOK', NEW h \in Requests,
           \/ Lookup(h) \/ AcquireLock(h) \/ SessionBusy(h) \/ Check(h) \/ OpenFails(h)
           \/ Create(h) \/ Open(h) \/ Register(h) \/ Unbind(h)
    PROVE  SessionsInv'
<1> USE DEF SessionsInv, HandlersInv, RuntimesInv, TablesInv, LocksInv, LogIsNeverReplaced,
        CreatesInv, TypeOK, Requests, NoOne, Goes, Opening, Holding, Live, Closing,
        Made, InTable, Serves, Exists,
        procVars, diskVars, rtVars
<1>1. CASE Lookup(h)
  <2>1. PICK to \in {"locking", "failed", "unbinding", "answered"} :
           Goes(h, to) /\ (to \in {"unbinding", "answered"} => call[h].mode # "create")
    BY <1>1 DEF Lookup, Served
  <2> QED
    BY <1>1, <2>1 DEF Lookup
<1>2. CASE AcquireLock(h)
  <2> USE <1>2 DEF AcquireLock
  <2>1. call[h].id \in SessionIds
    BY DEF Calls
  <2>2. HandlersInv'
    BY <2>1
  <2>3. RuntimesInv'
    BY <2>1
  <2>4. TablesInv'
    OBVIOUS
  <2>5. LocksInv'
    BY <2>1 DEF Calls
  <2>6. LogIsNeverReplaced' /\ CreatesInv'
    OBVIOUS
  <2> QED
    BY <2>2, <2>3, <2>4, <2>5, <2>6
<1>3. CASE SessionBusy(h)
  BY <1>3 DEF SessionBusy
<1>4. CASE Check(h)
  BY <1>4 DEF Check, RefusedByMode
<1>5. CASE OpenFails(h)
  BY <1>5 DEF OpenFails, Release
<1>6. CASE Create(h)
  BY <1>6 DEF Create
<1>7. CASE Open(h)
  BY <1>7 DEF Open
<1>8. CASE Register(h)
  <2> USE <1>8 DEF Register, Served
  <2>1. call[h].proc \in Procs /\ call[h].id \in SessionIds
    BY CallTypes
  <2>2. HandlersInv'
    BY <2>1
  <2>3. RuntimesInv'
    BY <2>1
  <2>4. TablesInv'
    <3> SUFFICES ASSUME NEW q \in Procs, NEW s \in SessionIds, table'[q][s] # NoOne
                 PROVE  /\ Serves(q)'
                        /\ stage'[table'[q][s]] \notin Opening \cup {"none"}
                        /\ call'[table'[q][s]].proc = q /\ call'[table'[q][s]].id = s
                        /\ up'[q] = "up" => runtime'[table'[q][s]] = "open"
      OBVIOUS
    <3>1. Serves(call[h].proc) /\ runtime[h] = "open" /\ stage[h] \in Opening
      OBVIOUS
    <3>2. /\ \A r \in Requests : r # h => stage'[r] = stage[r]
          /\ stage'[h] \notin Opening \cup {"none"}
          /\ \A t \in Procs : Serves(t)' = Serves(t)
          /\ UNCHANGED <<up, call, runtime>>
      OBVIOUS
    <3>3. table' = [table EXCEPT ![call[h].proc][call[h].id] = h]
          /\ table \in [Procs -> [SessionIds -> Requests \cup {NoOne}]]
      OBVIOUS
    <3>4. table[q][s] # NoOne =>
             /\ Serves(q) /\ stage[table[q][s]] \notin Opening \cup {"none"}
             /\ call[table[q][s]].proc = q /\ call[table[q][s]].id = s
             /\ up[q] = "up" => runtime[table[q][s]] = "open"
      OBVIOUS
    <3> HIDE <1>8 DEF Register, Served, SessionsInv, HandlersInv, RuntimesInv, TablesInv,
             LocksInv, CreatesInv, LogIsNeverReplaced, TypeOK, Opening, Serves
    <3>5. CASE q = call[h].proc /\ s = call[h].id
      BY <2>1, <3>1, <3>2, <3>3, <3>5
    <3>6. CASE ~(q = call[h].proc /\ s = call[h].id)
      <4>1. table'[q][s] = table[q][s] /\ table[q][s] \in Requests /\ table[q][s] # h
        BY <2>1, <3>1, <3>3, <3>4, <3>6
      <4> QED
        BY <3>2, <3>4, <4>1
    <3> QED
      BY <3>5, <3>6
  <2>5. LocksInv' /\ LogIsNeverReplaced'
    BY <2>1
  <2>6. CreatesInv'
    BY <2>1
  <2> QED
    BY <2>2, <2>3, <2>4, <2>5, <2>6
<1>9. CASE Unbind(h)
  BY <1>9 DEF Unbind
<1> QED
  BY <1>1, <1>2, <1>3, <1>4, <1>5, <1>6, <1>7, <1>8, <1>9

\* Prompts start coordinators, which the invariant does not speak of; a close
\* moves its runtime on and gives up the lock that nobody else can have.
LEMMA RuntimeStep ==
    ASSUME SessionsInv, TypeOK', NEW h \in Requests,
           EnsureGeneration(h) \/ CloseAnswers(h) \/ Close(h) \/ RunEnds(h)
    PROVE  SessionsInv'
<1> USE DEF SessionsInv, HandlersInv, RuntimesInv, TablesInv, LocksInv, LogIsNeverReplaced,
        CreatesInv, TypeOK, Requests, NoOne, Goes, Opening, Holding, Live, Closing,
        Made, InTable, Serves, Exists,
        procVars, diskVars, rtVars
<1>1. CASE EnsureGeneration(h)
  <2>1. PICK to \in {"answered", "failed"} : Goes(h, to)
    BY <1>1 DEF EnsureGeneration
  <2>2. stage[h] = "prompting" /\ UNCHANGED <<procVars, call, diskVars, runtime>>
    BY <1>1 DEF EnsureGeneration
  <2> QED
    BY <2>1, <2>2
<1>2. CASE CloseAnswers(h)
  BY <1>2 DEF CloseAnswers
<1>3. CASE CloseStops(h)
  BY <1>3 DEF CloseStops
<1>4. CASE CloseWaited(h)
  BY <1>4 DEF CloseWaited
<1>5. CASE CloseReleases(h)
  BY <1>5 DEF CloseReleases, Release
<1>6. CASE RunEnds(h)
  BY <1>6 DEF RunEnds
<1> QED
  BY <1>1, <1>2, <1>3, <1>4, <1>5, <1>6 DEF Close

\* A process that ends takes its handlers, its runtimes and its locks with it,
\* and nothing else.
LEMMA ProcessStep ==
    ASSUME SessionsInv, TypeOK', NEW p \in Procs,
           (\E m \in Launches : Launch(p, m)) \/ Shutdown(p) \/ Dies(p)
    PROVE  SessionsInv'
<1> USE DEF SessionsInv, HandlersInv, RuntimesInv, TablesInv, LocksInv, LogIsNeverReplaced,
        CreatesInv, TypeOK, Requests, NoOne, Opening, Holding, Live, Closing, Made,
        InTable, Serves, Exists, Arrived,
        procVars, diskVars, rtVars
<1>1. ASSUME NEW m \in Launches, Launch(p, m) PROVE SessionsInv'
  <2> USE <1>1 DEF Launch
  <2>1. \A q \in Procs : Serves(q) => Serves(q)' /\ up'[q] = up[q]
    OBVIOUS
  <2>2. UNCHANGED <<table, call, stage, logs, lock, runtime>>
    OBVIOUS
  <2>3. HandlersInv' /\ LocksInv' /\ LogIsNeverReplaced' /\ CreatesInv'
    BY <2>1, <2>2 DEF Calls
  <2>4. RuntimesInv'
    BY <2>1, <2>2 DEF Calls
  <2>5. TablesInv'
    BY <2>1, <2>2
  <2> QED
    BY <2>3, <2>4, <2>5
<1>2. CASE Shutdown(p)
  <2> USE <1>2 DEF Shutdown, InTables, Told
  <2>1. \A q \in Procs : (Serves(q) <=> Serves(q)') /\ (up'[q] = "up" => up[q] = "up")
    OBVIOUS
  <2>2. \A r \in Requests : \/ runtime'[r] = runtime[r]
                            \/ /\ runtime[r] = "open" /\ runtime'[r] = "told"
                               /\ \E s \in SessionIds : table[p][s] = r
    OBVIOUS
  <2>3. UNCHANGED <<table, call, stage, logs, lock>>
    OBVIOUS
  <2> HIDE <1>2 DEF Shutdown, InTables, Told
  <2>4. \A r \in Requests : stage[r] \in Opening \cup {"none"} => runtime'[r] = runtime[r]
    BY <2>2
  <2>5. \A h \in Requests : stage[h] # "none" => call[h].proc \in Procs
    BY CallTypes
  <2>6. HandlersInv'
    <3> SUFFICES ASSUME NEW g \in Requests
                 PROVE  HandlersInv!(g)'
      BY DEF HandlersInv
    <3> QED
      BY <2>1, <2>3, <2>4, <2>5
  <2>7. RuntimesInv'
    BY <2>1, <2>2, <2>3, <2>4, <2>5
  <2>8. TablesInv'
    BY <1>2, <2>1, <2>3 DEF Shutdown, InTables, Told
  <2>9. LocksInv' /\ LogIsNeverReplaced' /\ CreatesInv'
    BY <2>2, <2>3
  <2> QED
    BY <2>6, <2>7, <2>8, <2>9
<1>3. CASE Dies(p)
  <2> USE <1>3 DEF Dies, Of
  <2>1. \A q \in Procs : q # p => (Serves(q) <=> Serves(q)') /\ up'[q] = up[q]
    OBVIOUS
  <2>2. \A h \in Requests : stage[h] # "none" /\ call[h].proc = p =>
          stage'[h] \in {"answered", "failed"} /\ runtime'[h] = "none"
    OBVIOUS
  <2>3. \A h \in Requests : stage[h] # "none" /\ call[h].proc # p =>
          /\ stage'[h] = stage[h] /\ runtime'[h] = runtime[h]
          /\ \A s \in SessionIds : lock[s] = h => lock'[s] = h
    OBVIOUS
  <2>4. \A h \in Requests : stage[h] = "none" =>
          stage'[h] = "none" /\ runtime'[h] = runtime[h]
    OBVIOUS
  <2>5. HandlersInv'
    BY <2>1, <2>2, <2>3, <2>4, CallTypes
  <2>6. RuntimesInv'
    BY <2>1, <2>2, <2>3, <2>4, CallTypes
  <2>7. TablesInv'
    OBVIOUS
  <2>8. LocksInv'
    <3> SUFFICES ASSUME NEW s \in SessionIds, lock'[s] # NoOne
                 PROVE  /\ stage'[lock'[s]] # "none" /\ call[lock'[s]].id = s
                        /\ stage'[lock'[s]] \in Holding \/ runtime'[lock'[s]] \in Live
      OBVIOUS
    <3>1. lock'[s] = lock[s] /\ lock[s] \in Requests /\ lock[s] \notin Of(p)
      OBVIOUS
    <3>2. stage'[lock[s]] = stage[lock[s]] /\ runtime'[lock[s]] = runtime[lock[s]]
      BY <3>1
    <3> QED
      BY <3>1, <3>2
  <2>9. LogIsNeverReplaced' /\ CreatesInv'
    OBVIOUS
  <2> QED
    BY <2>5, <2>6, <2>7, <2>8, <2>9
<1> QED
  BY <1>1, <1>2, <1>3

\* Every step keeps the invariant.
LEMMA InvStep == SessionsInv /\ [Next]_vars => SessionsInv'
<1> SUFFICES ASSUME SessionsInv, [Next]_vars PROVE SessionsInv'
  OBVIOUS
<1>1. TypeOK'
  BY TypeStep DEF SessionsInv
<1>2. CASE UNCHANGED vars
  BY <1>2 DEF SessionsInv, HandlersInv, RuntimesInv, TablesInv, LocksInv, LogIsNeverReplaced,
          CreatesInv, TypeOK, vars, procVars, diskVars, rtVars, InTable, Exists, Serves
<1> QED
  BY <1>1, <1>2, ClientStep, OpeningStep, RuntimeStep, ProcessStep DEF Next, Handler, Exit, Crash

\* The invariant holds of the session tables.
THEOREM SessionsInvariant == Spec => []SessionsInv
BY InitInv, InvStep, PTL DEF Spec

-----------------------------------------------------------------------
(* What follows from it.                                                   *)

\* No request of any process creates a log over one that exists.
THEOREM SessionsReplaceNoLog == Spec => []LogIsNeverReplaced
<1>1. SessionsInv => LogIsNeverReplaced
  BY DEF SessionsInv
<1> QED
  BY <1>1, SessionsInvariant, PTL

\* Every lock is held by a handler, a registered runtime or a close that will
\* release it.
THEOREM SessionsOrphanNoLock == Spec => []NoLockIsOrphaned
<1>1. SessionsInv => NoLockIsOrphaned
  BY DEF SessionsInv, HandlersInv, RuntimesInv, LocksInv, NoLockIsOrphaned, TypeOK, NoOne, Live,
         Holding, Opening
<1> QED
  BY <1>1, SessionsInvariant, PTL

\* What a serving process has registered is open and has the lock.
THEOREM SessionsRegisteredAreOpen == Spec => []TableHoldsLocks
<1>1. SessionsInv => TableHoldsLocks
  BY DEF SessionsInv, RuntimesInv, TablesInv, TableHoldsLocks, TypeOK, NoOne, Live, InTable
<1> QED
  BY <1>1, SessionsInvariant, PTL

\* Of all requests that create a session, one at most is given it.
THEOREM SessionsCreateOnce == Spec => []CreatedOnce
<1>1. SessionsInv => CreatedOnce
  BY DEF SessionsInv, CreatesInv, CreatedOnce, Made
<1> QED
  BY <1>1, SessionsInvariant, PTL
=========================================================================

------------------------ MODULE VanitySearch_proofs ------------------------
(***************************************************************************)
(* The safety properties of VanitySearch, proved for every number of       *)
(* workers, both clients and any number of signals.                        *)
(***************************************************************************)
EXTENDS VanitySearch, TLAPS

ClientSteps == {"init", "reset", "create", "ignore", "poll", "look", "wait", "get", "stop",
                "join", "free", "forget", "report"}

\* Where a worker holds result_mutex, and where it is about to write under it.
Storing == {"store_wif", "store_address", "set_found"}
Holding == Storing \cup {"unlock"}

WorkerSteps == {"unborn", "begin", "check", "search", "lock", "leave", "exited"} \cup Holding

Results == [wif : 0 .. Workers, address : 0 .. Workers]

TypeOK ==
  /\ client \in Clients
  /\ cpc \in ClientSteps
  /\ created \in 0 .. Workers
  /\ joining \in 1 .. (Workers + 1)
  /\ stops \in Int
  /\ copied \in Results
  /\ counted \in BOOLEAN
  /\ contexts \in {"none", "live", "freed"}
  /\ should_exit \in [Worker -> BOOLEAN]
  /\ wpc \in [Worker -> WorkerSteps]
  /\ result \in Results
  /\ found \in BOOLEAN
  /\ lock \in 0 .. Workers
  /\ sigint \in {"default", "handler", "ignore"}
  /\ signals \in Nat
  /\ stopFile \in BOOLEAN
  /\ joins \in [Worker -> Nat]
  /\ outcome \in {"running", "failed", "crashed", "found", "interrupted"}

Gone(k) == wpc[k] \in {"unborn", "exited"}

(***************************************************************************)
(* Threads exist in the order they are created in, the join loop leaves    *)
(* none behind it that runs, and only a client past its creation loop has  *)
(* freed the contexts: created cannot reach Workers afterwards.            *)
(***************************************************************************)
ThreadInv ==
  /\ \A k \in Worker : wpc[k] = "unborn" <=> k > created
  /\ cpc \in {"init", "reset"} => created = 0
  /\ cpc \in {"init", "reset", "create"} => contexts # "freed"
  /\ cpc = "join" => \A k \in Worker : k < joining => Gone(k)
  /\ cpc \in {"free", "forget", "report"} => \A k \in Worker : Gone(k)
  /\ ContextsOutliveWorkers

(***************************************************************************)
(* One worker at a time stands between taking and releasing the mutex,     *)
(* what it has written so far is its own, and once found is set nobody     *)
(* writes any more.                                                        *)
(***************************************************************************)
ResultInv ==
  /\ \A k \in Worker : lock = k <=> wpc[k] \in Holding
  /\ cpc \in {"init", "reset"} => ~found
  /\ found => /\ result.wif = result.address
              /\ \A k \in Worker : wpc[k] \notin Storing
  /\ \A k \in Worker : /\ wpc[k] = "store_address" => result.wif = k
                       /\ wpc[k] = "set_found" => result.wif = k /\ result.address = k
  /\ ResultOfOneKey

IInv == TypeOK /\ ThreadInv /\ ResultInv

FirstResultStep == found => UNCHANGED <<result, found>>

-----------------------------------------------------------------------------
(* The invariant holds at the start, and every step preserves each part.   *)

\* Worker 0 does not exist: a free mutex is held by nobody.
LEMMA Numbers ==
  /\ Workers \in Nat /\ Workers > 0
  /\ Worker = 1 .. Workers /\ 0 \notin Worker /\ Worker \subseteq 0 .. Workers
  /\ NoResult \in Results /\ NoResult.wif = NoResult.address
BY SearchAssumption DEF Worker, NoResult, NoKey, Results

\* No thread exists yet, and nothing has been found.
LEMMA InitIInv == Init => IInv
<1> SUFFICES ASSUME Init PROVE IInv
  OBVIOUS
<1>1. TypeOK
  <2>1. should_exit \in [Worker -> BOOLEAN] /\ stopFile \in BOOLEAN /\ counted \in BOOLEAN
        /\ found \in BOOLEAN
    BY Zenon DEF Init
  <2>2. wpc \in [Worker -> WorkerSteps] /\ joins \in [Worker -> Nat]
    BY DEF Init, WorkerSteps
  <2>3. cpc \in ClientSteps /\ copied \in Results /\ result \in Results
    BY Numbers DEF Init, ClientSteps
  <2> QED
    BY Numbers, <2>1, <2>2, <2>3 DEF Init, TypeOK
<1>2. ThreadInv
  BY Numbers DEF Init, ThreadInv, ContextsOutliveWorkers, Gone
<1>3. ResultInv
  BY Numbers DEF Init, ResultInv, ResultOfOneKey, Holding, Storing
<1> QED
  BY <1>1, <1>2, <1>3 DEF IInv

\* A worker that only goes on changes nothing but its own place.
LEMMA GoesFacts ==
  ASSUME TypeOK, NEW k \in Worker, WorkerStep(k)
  PROVE  /\ wpc[k] \notin {"unborn", "exited"}
         /\ wpc' = [wpc EXCEPT ![k] = wpc'[k]]
         /\ wpc'[k] \in WorkerSteps \ {"unborn"}
         /\ UNCHANGED <<clientVars, moduleVars, worldVars, joins, outcome>>
BY DEF TypeOK, WorkerStep, WorkerSteps, Holding, Storing, Begin, GoOn, LeaveLoop, NoMatch, Match,
       TakeLock, StoreWif, StoreAddress, SetFound, Unlock, Leave, WorkerGoes, WorkerAt, First

LEMMA TypeStep == TypeOK /\ [Next]_vars => TypeOK'
<1> SUFFICES ASSUME TypeOK, [Next]_vars PROVE TypeOK'
  OBVIOUS
<1> USE Numbers DEF clientVars, moduleVars, resultVars, worldVars
<1>1. CASE Client
  <2> USE <1>1 DEF ClientAt, TypeOK
  <2>1. CASE InitModule \/ InitFails \/ RefusePattern \/ Reset
    <3>1. counted' \in BOOLEAN /\ found' \in BOOLEAN
      BY <2>1, Zenon DEF InitModule, InitFails, RefusePattern, Reset
    <3> QED
      BY <2>1, <3>1 DEF InitModule, InitFails, RefusePattern, Reset, ClientSteps
  <2>2. CASE CreateWorker
    <3>1. created + 1 \in Worker
      BY <2>2 DEF CreateWorker, MoreThreads
    <3> QED
      BY <2>2, <3>1 DEF CreateWorker, WorkerSteps, ClientSteps
  <2>3. CASE CreateFails \/ Created \/ IgnoreSigint \/ GetResult \/ LookForStopFile \/ SeeFound
    BY <2>3 DEF CreateFails, Created, IgnoreSigint, GetResult, LookForStopFile, SeeFound, ClientSteps
  <2>4. CASE TellWorkers \/ TellNull
    <3>1. should_exit' \in [Worker -> BOOLEAN]
      BY <2>4, Zenon DEF TellWorkers, TellNull, StopEverybody
    <3> QED
      BY <2>4, <3>1 DEF TellWorkers, TellNull, ClientSteps
  <2>5. CASE Join \/ JoinNoThread \/ Joined
    BY <2>5 DEF Join, JoinNoThread, Joined, ClientSteps
  <2>6. CASE FreeContexts \/ ForgetThreads \/ Report
    BY <2>6 DEF FreeContexts, ForgetThreads, Report, ClientSteps
  <2> QED
    BY <2>1, <2>2, <2>3, <2>4, <2>5, <2>6 DEF Client
<1>2. CASE World
  <2>1. should_exit' \in [Worker -> BOOLEAN] /\ stopFile' \in BOOLEAN
    BY <1>2, Zenon DEF World, Signal, TouchStopFile, TypeOK
  <2> QED
    BY <1>2, <2>1 DEF World, Signal, TouchStopFile, TypeOK
<1>3. ASSUME NEW k \in Worker, WorkerStep(k) PROVE TypeOK'
  <2>1. wpc' \in [Worker -> WorkerSteps]
    BY <1>3, GoesFacts DEF TypeOK
  <2>2. result' \in Results /\ found' \in BOOLEAN /\ lock' \in 0 .. Workers
    <3>1. found' \in BOOLEAN
      BY <1>3, Zenon DEF TypeOK, WorkerStep, Begin, GoOn, LeaveLoop, NoMatch, Match, TakeLock,
                         StoreWif, StoreAddress, SetFound, Unlock, Leave, WorkerGoes
    <3>2. lock' \in 0 .. Workers
      BY <1>3 DEF TypeOK, WorkerStep, Begin, GoOn, LeaveLoop, NoMatch, Match, TakeLock,
                  StoreWif, StoreAddress, SetFound, Unlock, Leave, WorkerGoes, Release
    <3>3. \/ result' = result
          \/ result' = [result EXCEPT !.wif = k]
          \/ result' = [result EXCEPT !.address = k]
      BY <1>3 DEF WorkerStep, Begin, GoOn, LeaveLoop, NoMatch, Match, TakeLock,
                  StoreWif, StoreAddress, SetFound, Unlock, Leave, WorkerGoes
    <3>4. result' \in Results
      BY <3>3 DEF TypeOK, Results
    <3> QED
      BY <3>1, <3>2, <3>4
  <2> QED
    BY <1>3, <2>1, <2>2, GoesFacts DEF TypeOK
<1>4. CASE UNCHANGED vars
  BY <1>4 DEF vars, TypeOK
<1> QED
  BY <1>1, <1>2, <1>3, <1>4 DEF Next

LEMMA ThreadStep == IInv /\ [Next]_vars => ThreadInv'
<1> SUFFICES ASSUME IInv, [Next]_vars PROVE ThreadInv'
  OBVIOUS
<1> USE Numbers DEF clientVars, moduleVars, resultVars, worldVars
<1>1. TypeOK /\ ThreadInv
  BY DEF IInv
<1>2. CASE Client
  <2> USE <1>1 DEF ClientAt, ThreadInv, ContextsOutliveWorkers, Gone
  <2>1. CASE InitModule \/ InitFails \/ RefusePattern \/ Reset
    BY <2>1 DEF InitModule, InitFails, RefusePattern, Reset
  <2>2. CASE CreateWorker
    <3>1. /\ created + 1 \in Worker /\ created' = created + 1
          /\ wpc' = [wpc EXCEPT ![created + 1] = "begin"]
          /\ cpc = "create" /\ cpc' = cpc /\ contexts' = contexts
      BY <2>2 DEF CreateWorker, MoreThreads, TypeOK
    <3>2. \A k \in Worker : wpc'[k] = "unborn" <=> k > created'
      BY <3>1 DEF TypeOK
    <3> QED
      BY <3>1, <3>2
  <2>3. CASE CreateFails
    BY <2>3 DEF CreateFails, MoreThreads, TypeOK
  <2>4. CASE Created \/ IgnoreSigint \/ GetResult \/ LookForStopFile \/ SeeFound
    BY <2>4 DEF Created, IgnoreSigint, GetResult, LookForStopFile, SeeFound
  <2>5. CASE TellWorkers \/ TellNull
    BY <2>5 DEF TellWorkers, TellNull
  <2>6. CASE Join
    <3>1. /\ cpc = "join" /\ cpc' = cpc /\ joining' = joining + 1 /\ joining \in Worker
          /\ Gone(joining) /\ UNCHANGED <<created, contexts, wpc>>
      BY <2>6 DEF Join, Joinable, TypeOK
    <3>2. \A k \in Worker : k < joining' => Gone(k)
      BY <3>1
    <3> QED
      BY <3>1, <3>2
  <2>7. CASE JoinNoThread
    BY <2>7 DEF JoinNoThread
  <2>8. CASE Joined
    <3>1. \A k \in Worker : Gone(k)
      BY <2>8 DEF Joined, TypeOK
    <3> QED
      BY <2>8, <3>1 DEF Joined
  <2>9. CASE FreeContexts
    <3>1. created = Workers => \A k \in Worker : wpc[k] = "exited"
      BY <2>9 DEF FreeContexts
    <3> QED
      BY <2>9, <3>1 DEF FreeContexts
  <2>10. CASE ForgetThreads \/ Report
    BY <2>10 DEF ForgetThreads, Report
  <2> QED
    BY <1>2, <2>1, <2>2, <2>3, <2>4, <2>5, <2>6, <2>7, <2>8, <2>9, <2>10 DEF Client
<1>3. CASE World
  BY <1>1, <1>3 DEF World, Signal, TouchStopFile, ThreadInv, ContextsOutliveWorkers, Gone
<1>4. ASSUME NEW k \in Worker, WorkerStep(k) PROVE ThreadInv'
  <2>1. /\ ~Gone(k) /\ wpc'[k] # "unborn"
        /\ wpc' = [wpc EXCEPT ![k] = wpc'[k]]
        /\ UNCHANGED <<cpc, created, joining, contexts>>
    BY <1>1, <1>4, GoesFacts DEF Gone
  <2>2. \A j \in Worker : j # k => wpc'[j] = wpc[j]
    BY <2>1, <1>1 DEF TypeOK
  <2> QED
    BY <1>1, <2>1, <2>2 DEF ThreadInv, ContextsOutliveWorkers, Gone
<1>5. CASE UNCHANGED vars
  BY <1>1, <1>5 DEF vars, ThreadInv, ContextsOutliveWorkers, Gone
<1> QED
  BY <1>2, <1>3, <1>4, <1>5 DEF Next

LEMMA ResultStep == IInv /\ [Next]_vars => ResultInv' /\ FirstResultStep
<1> SUFFICES ASSUME IInv, [Next]_vars PROVE ResultInv' /\ FirstResultStep
  OBVIOUS
<1> USE Numbers DEF clientVars, moduleVars, resultVars, worldVars, FirstResultStep
<1>1. TypeOK /\ ThreadInv /\ ResultInv
  BY DEF IInv
<1>2. CASE Client
  <2> USE <1>1 DEF ClientAt, ResultInv, ResultOfOneKey
  <2>1. CASE Reset
    \* no worker exists yet
    <3>1. \A k \in Worker : wpc[k] = "unborn"
      BY <2>1 DEF Reset, ThreadInv
    <3> QED
      BY <2>1, <3>1 DEF Reset, Holding, Storing
  <2>2. CASE CreateWorker
    <3>1. /\ created + 1 \in Worker /\ wpc[created + 1] = "unborn"
          /\ wpc' = [wpc EXCEPT ![created + 1] = "begin"]
          /\ cpc = "create" /\ UNCHANGED <<cpc, result, found, lock, copied>>
      BY <2>2 DEF CreateWorker, MoreThreads, TypeOK, ThreadInv
    <3>2. \A k \in Worker : IF k = created + 1 THEN wpc[k] = "unborn" /\ wpc'[k] = "begin"
                            ELSE wpc'[k] = wpc[k]
      BY <3>1 DEF TypeOK
    <3> QED
      BY <3>1, <3>2 DEF Holding, Storing
  <2>3. CASE GetResult
    BY <2>3 DEF GetResult
  <2>4. CASE InitModule \/ InitFails \/ RefusePattern \/ CreateFails \/ Created
    BY <2>4 DEF InitModule, InitFails, RefusePattern, CreateFails, Created
  <2>5. CASE IgnoreSigint \/ LookForStopFile \/ SeeFound \/ TellWorkers \/ TellNull
    BY <2>5 DEF IgnoreSigint, LookForStopFile, SeeFound, TellWorkers, TellNull
  <2>6. CASE Join \/ JoinNoThread \/ Joined \/ FreeContexts \/ ForgetThreads \/ Report
    BY <2>6 DEF Join, JoinNoThread, Joined, FreeContexts, ForgetThreads, Report
  <2> QED
    BY <1>2, <2>1, <2>2, <2>3, <2>4, <2>5, <2>6 DEF Client
<1>3. CASE World
  BY <1>1, <1>3 DEF World, Signal, TouchStopFile, ResultInv, ResultOfOneKey
<1>4. ASSUME NEW k \in Worker, WorkerStep(k) PROVE ResultInv' /\ FirstResultStep
  <2>1. /\ UNCHANGED <<cpc, copied>>
        /\ \A j \in Worker : j # k => wpc'[j] = wpc[j]
    BY <1>1, <1>4, GoesFacts DEF TypeOK
  \* away from the mutex
  <2>2. CASE /\ UNCHANGED <<result, found, lock>>
             /\ wpc[k] \notin Holding /\ wpc'[k] \notin Holding
    BY <1>1, <2>1, <2>2 DEF ResultInv, ResultOfOneKey, Holding, Storing
  <2>3. CASE Begin(k) \/ GoOn(k) \/ LeaveLoop(k) \/ NoMatch(k) \/ Match(k) \/ Leave(k)
    <3>1. UNCHANGED <<result, found, lock>> /\ wpc[k] \notin Holding /\ wpc'[k] \notin Holding
      BY <1>1, <2>3 DEF TypeOK, Begin, GoOn, LeaveLoop, NoMatch, Match, Leave, WorkerGoes, WorkerAt,
                   Holding, Storing
    <3> QED
      BY <3>1, <2>2
  \* the mutex is free, so that no other worker holds it
  <2>4. CASE TakeLock(k)
    <3>1. /\ lock = 0 /\ lock' = k /\ UNCHANGED <<result, found>>
          /\ wpc'[k] = IF found THEN "unlock" ELSE "store_wif"
      BY <1>1, <2>4 DEF TakeLock, Free, First, TypeOK
    <3> QED
      BY <1>1, <2>1, <3>1 DEF ResultInv, ResultOfOneKey, Holding, Storing
  \* the mutex is this worker's, so that nobody else writes
  <2>5. ASSUME wpc[k] \in Holding
        PROVE  lock = k /\ \A j \in Worker : j # k => wpc[j] \notin Holding /\ wpc'[j] \notin Holding
    BY <1>1, <2>1, <2>5 DEF ResultInv
  <2>6. CASE StoreWif(k)
    <3>1. /\ wpc[k] = "store_wif" /\ wpc'[k] = "store_address"
          /\ result'.wif = k /\ UNCHANGED <<found, lock>>
      BY <1>1, <2>6 DEF StoreWif, WorkerAt, TypeOK, Results
    <3>2. ~found
      BY <1>1, <3>1 DEF ResultInv, Storing
    <3> QED
      BY <1>1, <2>1, <2>5, <3>1, <3>2 DEF ResultInv, ResultOfOneKey, Holding, Storing
  <2>7. CASE StoreAddress(k)
    <3>1. /\ wpc[k] = "store_address" /\ wpc'[k] = "set_found"
          /\ result'.wif = k /\ result'.address = k /\ UNCHANGED <<found, lock>>
      BY <1>1, <2>7 DEF StoreAddress, WorkerAt, TypeOK, Results, ResultInv
    <3>2. ~found
      BY <1>1, <3>1 DEF ResultInv, Storing
    <3> QED
      BY <1>1, <2>1, <2>5, <3>1, <3>2 DEF ResultInv, ResultOfOneKey, Holding, Storing
  <2>8. CASE SetFound(k)
    <3>1. /\ wpc[k] = "set_found" /\ wpc'[k] = "unlock"
          /\ found' = TRUE /\ UNCHANGED <<result, lock>>
          /\ result.wif = result.address
      BY <1>1, <2>8 DEF SetFound, WorkerAt, TypeOK, ResultInv
    <3>2. cpc \notin {"init", "reset"}
      BY <1>1, <3>1 DEF ThreadInv, TypeOK
    <3>3. ~found
      BY <1>1, <3>1 DEF ResultInv, Storing
    <3> QED
      BY <1>1, <2>1, <2>5, <3>1, <3>2, <3>3 DEF ResultInv, ResultOfOneKey, Holding, Storing
  <2>9. CASE Unlock(k)
    <3>1. /\ wpc[k] = "unlock" /\ wpc'[k] = "leave"
          /\ lock' = 0 /\ UNCHANGED <<result, found>>
      BY <1>1, <2>9 DEF Unlock, Release, WorkerAt, TypeOK
    <3> QED
      BY <1>1, <2>1, <2>5, <3>1 DEF ResultInv, ResultOfOneKey, Holding, Storing
  <2> QED
    BY <1>4, <2>3, <2>4, <2>6, <2>7, <2>8, <2>9 DEF WorkerStep
<1>5. CASE UNCHANGED vars
  BY <1>1, <1>5 DEF vars, ResultInv, ResultOfOneKey
<1> QED
  BY <1>2, <1>3, <1>4, <1>5 DEF Next

-----------------------------------------------------------------------------
(* The theorems.                                                           *)

\* The threads, the mutex and the result stay as IInv says (gd_vanity.c).
THEOREM SearchInvariant == Spec => []IInv
<1>1. IInv /\ [Next]_vars => IInv'
  BY TypeStep, ThreadStep, ResultStep DEF IInv
<1> QED
  BY InitIInv, <1>1, PTL DEF Spec

\* The key and the address that are reported come from one worker, however many
\* workers find a match at once (thread_worker, gd_vanity_get_result).
THEOREM OneKey == Spec => []ResultOfOneKey
<1>1. IInv => ResultOfOneKey
  BY DEF IInv, ResultInv
<1> QED
  BY SearchInvariant, <1>1, PTL

\* If every thread was created, none runs when the contexts are freed, wherever
\* signals and the stop file cut in (gd_vanity_stop, gd_vanity_cleanup).
THEOREM ContextsSafe == Spec => []ContextsOutliveWorkers
<1>1. IInv => ContextsOutliveWorkers
  BY DEF IInv, ThreadInv
<1> QED
  BY SearchInvariant, <1>1, PTL

\* No step replaces a result once it is announced (thread_worker).
THEOREM FirstStands == Spec => FirstResultWins
<1>1. IInv /\ [Next]_vars => [FirstResultStep]_vars
  BY ResultStep
<1>2. Spec => [][FirstResultStep]_vars
  BY SearchInvariant, <1>1, PTL DEF Spec
<1> QED
  BY <1>2 DEF FirstResultWins, FirstResultStep
=============================================================================

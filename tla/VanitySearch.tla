---------------------------- MODULE VanitySearch ----------------------------
(***************************************************************************)
(* The vanity address search (mods/gd_vanity.c) under its two clients:     *)
(* btk_vanity_main (ctrl_mods/btk_vanity.c, lines 50-149), and the main    *)
(* function gd_vanity.c brings along (lines 387-436).                      *)
(*                                                                         *)
(* The client initialises the module, starts Workers threads, waits until  *)
(* one of them has found an address, stops and joins the threads and frees *)
(* what they use.  A worker generates keys until it is told to exit, some  *)
(* thread has found a match, or it finds one itself.  SIGINT may arrive at *)
(* any moment; its handler, too, tells the workers to exit.                *)
(*                                                                         *)
(* A key is named after the worker that generated it, and its address is   *)
(* taken to be derived from it alone.  The static variable "stopped",      *)
(* which nothing reads, and the attempt counters are left out.             *)
(***************************************************************************)
EXTENDS Integers

CONSTANTS
  Workers,      \* number of worker threads
  Clients,      \* which of the clients may run
  MaxSignals    \* bound: how often SIGINT arrives

ASSUME SearchAssumption ==
  /\ Workers \in Nat \ {0}
  /\ Clients \subseteq {"btk", "main"}
  /\ MaxSignals \in Nat

NoKey  == 0
Worker == 1 .. Workers

VARIABLES
  client,      \* the client that runs
  cpc,         \* what it does next
  created,     \* number of threads created
  joining,     \* the thread it is joining
  stops,       \* how many calls of gd_vanity_stop are still to come
  copied,      \* the key and the address it got from gd_vanity_get_result
  counted,     \* thread_count > 0
  contexts,    \* thread_contexts: "none", "live" or "freed"
  should_exit, \* thread_contexts[i].should_exit
  wpc,         \* what each worker does next
  result,      \* result_wif and result_address
  found,       \* the flag of that name
  lock,        \* the worker that holds result_mutex, or 0
  sigint,      \* what SIGINT does: "default" (it kills), "handler" or "ignore"
  signals,     \* bound: signals so far
  stopFile,    \* whether /tmp/vanity_stop exists
  joins,       \* history: how often each thread was joined
  outcome      \* how the program ended, if it did

clientVars == <<client, cpc, created, joining, stops, copied>>
moduleVars == <<counted, contexts, should_exit>>
resultVars == <<result, found, lock>>
worldVars  == <<sigint, signals, stopFile>>
vars == <<clientVars, moduleVars, wpc, resultVars, worldVars, joins, outcome>>

NoResult == [wif |-> NoKey, address |-> NoKey]

Init ==
  /\ client \in Clients
  /\ cpc = "init"
  /\ created = 0
  /\ joining = 1
  /\ stops = IF client = "btk" THEN 2 ELSE 1
  /\ copied = NoResult
  /\ counted = FALSE
  /\ contexts = "none"
  /\ should_exit = [k \in Worker |-> FALSE]
  /\ wpc = [k \in Worker |-> "unborn"]
  /\ result = NoResult
  /\ found = FALSE
  /\ lock = 0
  /\ sigint = "default"
  /\ signals = 0
  /\ stopFile \in BOOLEAN
  /\ joins = [k \in Worker |-> 0]
  /\ outcome = "running"

Running     == outcome = "running"
ClientAt(s) == Running /\ cpc = s
WorkerAt(k, s) == Running /\ wpc[k] = s

MoreThreads == created < Workers

\* result_mutex is free.
FreeIgnored == TRUE

Free == lock = 0

\* No thread has stored a result yet.
FirstIgnored == TRUE

First == ~found

-----------------------------------------------------------------------------
(* The client, and the functions of the module it calls.                   *)

\* gd_vanity_init: threads and contexts are allocated, the handler installed.
InitModule ==
  /\ ClientAt("init")
  /\ contexts' = "live"
  /\ counted' = TRUE
  /\ sigint' = "handler"
  /\ cpc' = "reset"
  /\ UNCHANGED <<client, created, joining, stops, copied, should_exit, wpc, resultVars,
                 signals, stopFile, joins, outcome>>

InitFails ==
  /\ ClientAt("init")
  /\ outcome' = "failed"
  /\ UNCHANGED <<clientVars, moduleVars, wpc, resultVars, worldVars, joins>>

\* gd_vanity_start refuses the pattern before there is any thread.
RefusePattern ==
  /\ ClientAt("reset")
  /\ stops' = 1
  /\ cpc' = "stop"
  /\ UNCHANGED <<client, created, joining, copied, moduleVars, wpc, resultVars,
                 worldVars, joins, outcome>>

\* gd_vanity_start up to its loop.
Reset ==
  /\ ClientAt("reset")
  /\ found' = FALSE
  /\ result' = NoResult
  /\ cpc' = "create"
  /\ UNCHANGED <<client, created, joining, stops, copied, moduleVars, wpc, lock,
                 worldVars, joins, outcome>>

\* The loop of gd_vanity_start, once: what a signal wrote is overwritten.
CreateWorker ==
  /\ ClientAt("create")
  /\ MoreThreads
  /\ created' = created + 1
  /\ should_exit' = [should_exit EXCEPT ![created + 1] = FALSE]
  /\ wpc' = [wpc EXCEPT ![created + 1] = "begin"]
  /\ UNCHANGED <<client, cpc, joining, stops, copied, counted, contexts, resultVars,
                 worldVars, joins, outcome>>

\* pthread_create fails: the contexts are freed under the threads that run.
CreateFails ==
  /\ ClientAt("create")
  /\ MoreThreads
  /\ contexts' = "freed"
  /\ stops' = 1
  /\ cpc' = "stop"
  /\ UNCHANGED <<client, created, joining, copied, counted, should_exit, wpc,
                 resultVars, worldVars, joins, outcome>>

Created ==
  /\ ClientAt("create")
  /\ ~MoreThreads
  /\ cpc' = IF client = "btk" THEN "ignore" ELSE "wait"
  /\ UNCHANGED <<client, created, joining, stops, copied, moduleVars, wpc, resultVars,
                 worldVars, joins, outcome>>

\* btk_vanity_main: sigaction(SIGINT, SIG_IGN).
IgnoreSigint ==
  /\ ClientAt("ignore")
  /\ sigint' = "ignore"
  /\ cpc' = "poll"
  /\ UNCHANGED <<client, created, joining, stops, copied, moduleVars, wpc, resultVars,
                 signals, stopFile, joins, outcome>>

\* gd_vanity_get_result, under result_mutex.
GetResult ==
  /\ ClientAt("poll") \/ ClientAt("get")
  /\ Free
  /\ copied' = IF found THEN result ELSE NoResult
  /\ cpc' = IF cpc = "get" \/ found THEN "stop" ELSE "look"
  /\ UNCHANGED <<client, created, joining, stops, moduleVars, wpc, resultVars,
                 worldVars, joins, outcome>>

\* access("/tmp/vanity_stop"), then a nap of 100 ms.
LookForStopFile ==
  /\ ClientAt("look")
  /\ cpc' = IF stopFile THEN "stop" ELSE "poll"
  /\ UNCHANGED <<client, created, joining, stops, copied, moduleVars, wpc, resultVars,
                 worldVars, joins, outcome>>

\* main: while (!atomic_load(&found)) sleep(1).
SeeFound ==
  /\ ClientAt("wait")
  /\ found
  /\ cpc' = "get"
  /\ UNCHANGED <<client, created, joining, stops, copied, moduleVars, wpc, resultVars,
                 worldVars, joins, outcome>>

\* gd_vanity_stop, first loop; thread_contexts may be NULL here.
StopNobody == UNCHANGED should_exit

StopEverybody == should_exit' = [k \in Worker |-> TRUE]

TellWorkers ==
  /\ ClientAt("stop")
  /\ contexts = "live"
  /\ StopEverybody
  /\ joining' = 1
  /\ cpc' = "join"
  /\ UNCHANGED <<client, created, stops, copied, counted, contexts, wpc, resultVars,
                 worldVars, joins, outcome>>

TellNull ==
  /\ ClientAt("stop")
  /\ contexts = "freed"
  /\ outcome' = "crashed"
  /\ UNCHANGED <<clientVars, moduleVars, wpc, resultVars, worldVars, joins>>

\* pthread_join returns when the thread has ended.
JoinableAtOnce(k) == wpc[k] # "unborn"

Joinable(k) == wpc[k] = "exited"

\* gd_vanity_stop, second loop.
Join ==
  /\ ClientAt("join")
  /\ joining <= Workers
  /\ Joinable(joining) \/ wpc[joining] = "unborn"
  /\ joins' = [joins EXCEPT ![joining] = @ + 1]
  /\ joining' = joining + 1
  /\ UNCHANGED <<client, cpc, created, stops, copied, moduleVars, wpc, resultVars,
                 worldVars, outcome>>

(***************************************************************************)
(* To join a thread that was joined before, or that never was, is          *)
(* undefined: the C library reports an error, as in Join, or follows a     *)
(* dead pointer.                                                           *)
(***************************************************************************)
JoinNoThread ==
  /\ ClientAt("join")
  /\ joining <= Workers
  /\ joins[joining] > 0 \/ wpc[joining] = "unborn"
  /\ outcome' = "crashed"
  /\ UNCHANGED <<clientVars, moduleVars, wpc, resultVars, worldVars, joins>>

\* btk_vanity_main calls gd_vanity_stop, and again through gd_vanity_cleanup.
Joined ==
  /\ ClientAt("join")
  /\ joining > Workers
  /\ stops' = stops - 1
  /\ cpc' = IF stops > 1 THEN "stop" ELSE "free"
  /\ UNCHANGED <<client, created, joining, copied, moduleVars, wpc, resultVars,
                 worldVars, joins, outcome>>

\* gd_vanity_cleanup after its call of gd_vanity_stop.
FreeContexts ==
  /\ ClientAt("free")
  /\ contexts' = "freed"
  /\ cpc' = "forget"
  /\ UNCHANGED <<client, created, joining, stops, copied, counted, should_exit, wpc,
                 resultVars, worldVars, joins, outcome>>

ForgetThreads ==
  /\ ClientAt("forget")
  /\ counted' = FALSE
  /\ cpc' = "report"
  /\ UNCHANGED <<client, created, joining, stops, copied, contexts, should_exit, wpc,
                 resultVars, worldVars, joins, outcome>>

\* The result, or that there is none; btk removes the stop file first.
Report ==
  /\ ClientAt("report")
  /\ outcome' = IF copied # NoResult THEN "found" ELSE "interrupted"
  /\ stopFile' = (stopFile /\ client # "btk")
  /\ UNCHANGED <<clientVars, moduleVars, wpc, resultVars, sigint, signals, joins>>

Client == InitModule \/ InitFails \/ RefusePattern \/ Reset \/ CreateWorker \/ CreateFails \/ Created
          \/ IgnoreSigint \/ GetResult \/ LookForStopFile \/ SeeFound \/ TellWorkers
          \/ TellNull \/ Join \/ JoinNoThread \/ Joined \/ FreeContexts \/ ForgetThreads \/ Report

-----------------------------------------------------------------------------
(* The workers, thread_worker.                                             *)

\* A step of worker k that changes nothing but where it stands.
WorkerGoes(k, from, to) ==
  /\ WorkerAt(k, from)
  /\ wpc' = [wpc EXCEPT ![k] = to]
  /\ UNCHANGED <<clientVars, moduleVars, resultVars, worldVars, joins, outcome>>

\* Memory for the keys; without it the thread ends.
Begin(k) == WorkerGoes(k, "begin", "check") \/ WorkerGoes(k, "begin", "exited")

\* The loop condition; a freed context may hold anything.
GoOn(k) ==
  /\ ~found
  /\ ~should_exit[k] \/ contexts = "freed"
  /\ WorkerGoes(k, "check", "search")

LeaveLoop(k) ==
  /\ found \/ should_exit[k] \/ contexts = "freed"
  /\ WorkerGoes(k, "check", "leave")

\* A key that does not match, or that could not be made.
NoMatch(k) == WorkerGoes(k, "search", "check")

Match(k) == WorkerGoes(k, "search", "lock")

TakeLock(k) ==
  /\ WorkerAt(k, "lock")
  /\ Free
  /\ lock' = k
  /\ wpc' = [wpc EXCEPT ![k] = IF First THEN "store_wif" ELSE "unlock"]
  /\ UNCHANGED <<clientVars, moduleVars, result, found, worldVars, joins, outcome>>

StoreWif(k) ==
  /\ WorkerAt(k, "store_wif")
  /\ result' = [result EXCEPT !.wif = k]
  /\ wpc' = [wpc EXCEPT ![k] = "store_address"]
  /\ UNCHANGED <<clientVars, moduleVars, found, lock, worldVars, joins, outcome>>

StoreAddress(k) ==
  /\ WorkerAt(k, "store_address")
  /\ result' = [result EXCEPT !.address = k]
  /\ wpc' = [wpc EXCEPT ![k] = "set_found"]
  /\ UNCHANGED <<clientVars, moduleVars, found, lock, worldVars, joins, outcome>>

SetFound(k) ==
  /\ WorkerAt(k, "set_found")
  /\ found' = TRUE
  /\ wpc' = [wpc EXCEPT ![k] = "unlock"]
  /\ UNCHANGED <<clientVars, moduleVars, result, lock, worldVars, joins, outcome>>

UnlockForgotten == UNCHANGED lock

Release == lock' = 0

Unlock(k) ==
  /\ WorkerAt(k, "unlock")
  /\ Release
  /\ wpc' = [wpc EXCEPT ![k] = "leave"]
  /\ UNCHANGED <<clientVars, moduleVars, result, found, worldVars, joins, outcome>>

\* The last use of the context is the farewell message.
Leave(k) == WorkerGoes(k, "leave", "exited")

WorkerStep(k) == Begin(k) \/ GoOn(k) \/ LeaveLoop(k) \/ NoMatch(k) \/ Match(k)
                 \/ TakeLock(k) \/ StoreWif(k) \/ StoreAddress(k) \/ SetFound(k)
                 \/ Unlock(k) \/ Leave(k)

-----------------------------------------------------------------------------
(* The world outside.                                                      *)

(***************************************************************************)
(* handle_signal.  Once the contexts are gone it writes to freed memory or *)
(* through a null pointer, as long as thread_count is not zero.            *)
(***************************************************************************)
Signal ==
  /\ Running
  /\ sigint = "handler"
  /\ signals < MaxSignals
  /\ signals' = signals + 1
  /\ IF counted /\ contexts = "live"
       THEN should_exit' = [k \in Worker |-> TRUE]
       ELSE UNCHANGED should_exit
  /\ \/ UNCHANGED outcome
     \/ counted /\ contexts = "freed" /\ outcome' = "crashed"
  /\ UNCHANGED <<clientVars, counted, contexts, wpc, resultVars, sigint, stopFile, joins>>

TouchStopFile ==
  /\ Running
  /\ ~stopFile
  /\ stopFile' = TRUE
  /\ UNCHANGED <<clientVars, moduleVars, wpc, resultVars, sigint, signals, joins,
                 outcome>>

World == Signal \/ TouchStopFile

Next == Client \/ World \/ \E k \in Worker : WorkerStep(k)

Spec == Init /\ [][Next]_vars

(***************************************************************************)
(* Every thread runs.  A worker takes result_mutex at most once, so that   *)
(* nobody waits for it forever.  No signal and no stop file has to come.   *)
(***************************************************************************)
FairSpec ==
  /\ Spec
  /\ WF_vars(Client)
  /\ \A k \in Worker : WF_vars(WorkerStep(k))

-----------------------------------------------------------------------------
(* What the search promises.                                               *)

(***************************************************************************)
(* The private key and the address the client reports were stored by one   *)
(* and the same worker, however many find a match at once (thread_worker   *)
(* 160-170, gd_vanity_get_result).  That a worker's address is the one of  *)
(* its key is not said here: see PublicKeyRace.                            *)
(***************************************************************************)
ResultOfOneKey == copied.wif = copied.address

\* When all threads were created, none of them runs any more once the memory
\* they work on is freed (gd_vanity_cleanup).
ContextsOutliveWorkers ==
  created = Workers /\ contexts = "freed" => \A k \in Worker : wpc[k] = "exited"

\* The first match stands: no later match replaces what the client may have
\* read already (thread_worker 162).
FirstResultWins == [][found => UNCHANGED <<result, found>>]_vars

\* A search that found an address ends: the client sees it, every worker leaves
\* its loop, or gets past result_mutex and leaves, and is joined.  So does the
\* stop file end a search of btk that may never find anything.
SearchEnds == /\ found ~> ~Running
              /\ (client = "btk" /\ stopFile) ~> ~Running
=============================================================================

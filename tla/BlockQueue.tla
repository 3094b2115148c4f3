----------------------------- MODULE BlockQueue -----------------------------
(***************************************************************************)
(* The download and process threads of "btk balance --create/--update"     *)
(* (ctrl_mods/btk_balance.c, lines 197-251 and 293-557).                   *)
(*                                                                         *)
(* The main thread creates both threads and joins them.  The download      *)
(* thread fetches blocks from the bitcoin node and appends them to a       *)
(* singly linked list; the process thread applies the block at the head to *)
(* the databases, advances the head and frees the node it leaves.  They    *)
(* share args->bc_head, args->bc_tail, args->bc_len and the list itself    *)
(* without any lock, so every access that the other thread can observe is  *)
(* a step of its own.  Stores become visible in program order (the build   *)
(* uses no optimisation and the leveldb build targets x86).                *)
(* pthread_create stores the id of a thread before the thread runs, as     *)
(* that of Linux does, so that each finds itself at line 302 or 311.       *)
(*                                                                         *)
(* The node created for block b is named b: malloc may hand an address out *)
(* again, but a pointer to a freed node is dangling whatever is there now. *)
(* What applying a block does to the databases is BalanceUpdate's subject; *)
(* here it is one step, which cancellation may cut short.                  *)
(***************************************************************************)
EXTENDS Integers

CONSTANTS
  LastBlock,   \* args->last_block, 0 for --create
  BlockCount,  \* args->block_count
  Cap,         \* the queue length that pauses the download (100 in the code)
  Fresh        \* the values the status word of malloc'ed memory may hold

NULL  == 0     \* no node has number 0: the first is LastBlock + 1
EMPTY == 0     \* status of a node whose block is not there yet
READY == 1     \* CHAIN_STATUS_READY
FINAL == 2     \* CHAIN_STATUS_FINAL

ASSUME QueueAssumption ==
  /\ LastBlock \in Nat
  /\ BlockCount \in Nat
  /\ Cap \in Nat \ {0, 1}
  /\ Fresh \subseteq Nat

\* Mutant of First: the run starts with the block already applied.
FirstRepeated == LastBlock

\* for (i = args->last_block + 1; i <= args->block_count; i++)
First  == LastBlock + 1
Blocks == First .. BlockCount

VARIABLES
  main,      \* what the main thread does next
  dpc, ppc,  \* what the download and the process thread do next
  i,         \* loop variable of the download thread
  head,      \* args->bc_head
  tail,      \* args->bc_tail
  len,       \* args->bc_len
  node,      \* the list nodes
  dLen,      \* the download thread's register during bc_len += 1
  pLen,      \* the process thread's register during bc_len -= 1
  pStatus,   \* the process thread's copy of the head's status
  pBlock,    \* ... and of its block and block_num
  cancelD,   \* pthread_cancel(download_thread) was called
  cancelP,   \* pthread_cancel(process_thread) was called
  stored,    \* the "__last_block" record of the txoa database
  applied,   \* history: blocks applied in this run
  incs,      \* history: how often bc_len += 1 was carried out
  decs,      \* history: how often bc_len -= 1 was carried out
  outcome    \* how the program ended, if it did

mainVars     == <<main, outcome>>
downloadVars == <<dpc, i, tail, dLen>>
processVars  == <<ppc, head, pLen, pStatus, pBlock, stored, applied>>
sharedVars   == <<len, node, incs, decs>>
cancelVars   == <<cancelD, cancelP>>
vars == <<mainVars, downloadVars, processVars, sharedVars, cancelVars>>

(***************************************************************************)
(* mem is where the node's memory stands: not allocated, allocated with    *)
(* whatever malloc left in it, cleared by memset, or freed.                *)
(***************************************************************************)
Node == [mem    : {"none", "raw", "live", "freed"},
         status : Nat,
         block  : Blocks \cup {NULL},
         next   : Blocks \cup {NULL}]

NoNode  == [mem |-> "none", status |-> EMPTY, block |-> NULL, next |-> NULL]
Raw(s)  == [mem |-> "raw",  status |-> s,     block |-> NULL, next |-> NULL]
Cleared == [mem |-> "live", status |-> EMPTY, block |-> NULL, next |-> NULL]

DownloadEnds == {"returned", "failed", "cancelled"}
ProcessEnds  == {"returned", "failed", "cancelled"}

DownloadPc == {"unborn", "alloc", "clear", "fetch", "inc_load", "inc_store",
               "fill", "publish", "throttle", "error", "leave"} \cup DownloadEnds
ProcessPc  == {"unborn", "wait", "load_status", "load_block", "apply",
               "dec_load", "dec_store", "wait_next", "error", "leave"}
              \cup ProcessEnds

Init ==
  /\ main = "create_download"
  /\ dpc = "unborn"
  /\ ppc = "unborn"
  /\ i = First
  /\ head = NULL
  /\ tail = NULL
  /\ len = 0
  /\ node = [b \in Blocks |-> NoNode]
  /\ dLen = 0
  /\ pLen = 0
  /\ pStatus = EMPTY
  /\ pBlock = NULL
  /\ cancelD = FALSE
  /\ cancelP = FALSE
  /\ stored = LastBlock
  /\ applied = 0
  /\ incs = 0
  /\ decs = 0
  /\ outcome = "running"

-----------------------------------------------------------------------------
(* The end of the program, by any thread, is the end of all of them.       *)

Running       == outcome = "running"
MainAt(s)     == Running /\ main = s
DownloadAt(s) == Running /\ dpc = s
ProcessAt(s)  == Running /\ ppc = s

\* A step of one thread that changes nothing but where it stands.
DownloadGoes(from, to) ==
  /\ DownloadAt(from)
  /\ dpc' = to
  /\ UNCHANGED <<mainVars, processVars, sharedVars, cancelVars, i, tail, dLen>>

ProcessGoes(from, to) ==
  /\ ProcessAt(from)
  /\ ppc' = to
  /\ UNCHANGED <<mainVars, downloadVars, sharedVars, cancelVars, head, pLen,
                 pStatus, pBlock, stored, applied>>

-----------------------------------------------------------------------------
(* The main thread.                                                        *)

CreateDownload ==
  /\ MainAt("create_download")
  /\ main' = "create_process"
  /\ dpc' = "alloc"
  /\ UNCHANGED <<processVars, sharedVars, cancelVars, i, tail, dLen, outcome>>

CreateProcess ==
  /\ MainAt("create_process")
  /\ main' = "join_download"
  /\ ppc' = "wait"
  /\ UNCHANGED <<downloadVars, sharedVars, cancelVars, head, pLen, pStatus,
                 pBlock, stored, applied, outcome>>

\* pthread_create fails: main returns and the program exits.
CreateFails ==
  /\ MainAt("create_download") \/ MainAt("create_process")
  /\ outcome' = "failed"
  /\ UNCHANGED <<main, downloadVars, processVars, sharedVars, cancelVars>>

\* An error result ends the program at once: the process thread is not joined.
JoinDownload ==
  /\ MainAt("join_download")
  /\ dpc \in DownloadEnds
  /\ IF dpc = "failed"
       THEN outcome' = "failed" /\ UNCHANGED main
       ELSE main' = "join_process" /\ UNCHANGED outcome
  /\ UNCHANGED <<downloadVars, processVars, sharedVars, cancelVars>>

\* Mutant of JoinProcess: the thread's result is not looked at.
JoinProcessUnchecked ==
  /\ MainAt("join_process")
  /\ ppc \in ProcessEnds
  /\ main' = "joined"
  /\ outcome' = "complete"
  /\ UNCHANGED <<downloadVars, processVars, sharedVars, cancelVars>>

\* A cancelled thread has no result to check, so it counts as a success.
JoinProcess ==
  /\ MainAt("join_process")
  /\ ppc \in ProcessEnds
  /\ main' = "joined"
  /\ outcome' = IF ppc = "failed" THEN "failed" ELSE "complete"
  /\ UNCHANGED <<downloadVars, processVars, sharedVars, cancelVars>>

Main == CreateDownload \/ CreateProcess \/ CreateFails \/ JoinDownload
        \/ JoinProcess

-----------------------------------------------------------------------------
(* The download thread, btk_balance_download.                              *)

\* Mutant of MoreBlocks: one block too many.
MoreBlocksInclusive == i <= BlockCount + 1

MoreBlocks == i <= BlockCount

\* The new node is linked into the list before its memory is cleared.
AllocNode ==
  /\ DownloadAt("alloc")
  /\ MoreBlocks
  /\ dpc' = "clear"
  /\ \E s \in Fresh :
       IF i = First
         THEN /\ head' = i
              /\ node' = [node EXCEPT ![i] = Raw(s)]
         ELSE /\ node' = [node EXCEPT ![i] = Raw(s), ![tail].next = i]
              /\ UNCHANGED head
  /\ UNCHANGED <<mainVars, cancelVars, i, tail, dLen, ppc, pLen, pStatus, pBlock,
                 stored, applied, len, incs, decs>>

(***************************************************************************)
(* memset of the new node, which later iterations reach as bc_tail->next:  *)
(* the old tail is read again, four times, although its successor is       *)
(* already visible to the process thread, which may have freed it.  The    *)
(* freed memory still holds the link, or it has been reused and the        *)
(* program is lost.  One step for lines 361-366: the process thread sees   *)
(* only the status the memset clears, and when the old tail is freed       *)
(* between two of the reads, those behind it are of freed memory as well.  *)
(***************************************************************************)
ClearNode ==
  /\ DownloadAt("clear")
  /\ \/ /\ node' = [node EXCEPT ![i] = Cleared]
        /\ tail' = i
        /\ dpc' = "fetch"
        /\ UNCHANGED outcome
     \/ /\ i # First
        /\ node[tail].mem = "freed"
        /\ outcome' = "crashed"
        /\ UNCHANGED <<node, tail, dpc>>
  /\ UNCHANGED <<main, processVars, cancelVars, i, dLen, len, incs, decs>>

\* jsonrpc_get_blockhash, jsonrpc_get_block and block_from_raw succeed.
FetchBlock == DownloadGoes("fetch", "inc_load")

\* args->bc_len += 1 is a load, an addition and a store.
IncLoad ==
  /\ DownloadAt("inc_load")
  /\ dLen' = len
  /\ dpc' = "inc_store"
  /\ UNCHANGED <<mainVars, processVars, sharedVars, cancelVars, i, tail>>

IncStore ==
  /\ DownloadAt("inc_store")
  /\ len' = dLen + 1
  /\ incs' = incs + 1
  /\ dpc' = "fill"
  /\ UNCHANGED <<mainVars, processVars, cancelVars, i, tail, dLen, node, decs>>

FillNode ==
  /\ DownloadAt("fill")
  /\ node' = [node EXCEPT ![tail].block = i]
  /\ dpc' = "publish"
  /\ UNCHANGED <<mainVars, processVars, cancelVars, i, tail, dLen, len, incs, decs>>

PublishNode ==
  /\ DownloadAt("publish")
  /\ node' = [node EXCEPT ![tail].status = IF i = BlockCount THEN FINAL
                                                             ELSE READY]
  /\ dpc' = "throttle"
  /\ UNCHANGED <<mainVars, processVars, cancelVars, i, tail, dLen, len, incs, decs>>

\* Mutant of QueueFull: the cap is checked with > instead of >=.
QueueFullLate == len > Cap

QueueFull == len >= Cap

\* while (args->bc_len >= 100) sleep(1), and the loop's increment.
Throttle ==
  /\ DownloadAt("throttle")
  /\ ~QueueFull
  /\ i' = i + 1
  /\ dpc' = "alloc"
  /\ UNCHANGED <<mainVars, processVars, sharedVars, cancelVars, tail, dLen>>

DownloadReturns == ~MoreBlocks /\ DownloadGoes("alloc", "returned")

\* Memory runs out, or the node does not answer or answers with an error.
DownloadFails == \/ MoreBlocks /\ DownloadGoes("alloc", "error")
                 \/ DownloadGoes("fetch", "error")

\* process_thread is not a thread until the main thread has created it.
CancelProcess ==
  /\ DownloadAt("error")
  /\ IF main = "create_process"
       THEN outcome' = "crashed" /\ UNCHANGED <<dpc, cancelP>>
       ELSE cancelP' = TRUE /\ dpc' = "leave" /\ UNCHANGED outcome
  /\ UNCHANGED <<main, processVars, sharedVars, i, tail, dLen, cancelD>>

DownloadLeaves == DownloadGoes("leave", "failed")

Download == AllocNode \/ ClearNode \/ FetchBlock \/ IncLoad \/ IncStore
            \/ FillNode \/ PublishNode \/ Throttle \/ DownloadReturns
            \/ DownloadFails \/ CancelProcess \/ DownloadLeaves

-----------------------------------------------------------------------------
(* The process thread, btk_balance_process.                                *)

\* while (args->bc_head == NULL || !args->bc_head->status)
SeeNode ==
  /\ head # NULL
  /\ node[head].status # EMPTY
  /\ ProcessGoes("wait", "load_status")

LoadStatus ==
  /\ ProcessAt("load_status")
  /\ pStatus' = node[head].status
  /\ ppc' = "load_block"
  /\ UNCHANGED <<mainVars, downloadVars, sharedVars, cancelVars, head, pLen,
                 pBlock, stored, applied>>

\* A status read from memory that was not cleared leads to a wild pointer.
LoadBlock ==
  /\ ProcessAt("load_block")
  /\ IF node[head].block = NULL
       THEN outcome' = "crashed" /\ UNCHANGED <<ppc, pBlock>>
       ELSE pBlock' = node[head].block /\ ppc' = "apply" /\ UNCHANGED outcome
  /\ UNCHANGED <<main, downloadVars, sharedVars, cancelVars, head, pLen, pStatus,
                 stored, applied>>

\* The transactions of the block, then txoa_set_last_block.
ApplyBlock ==
  /\ ProcessAt("apply")
  /\ stored' = pBlock
  /\ applied' = applied + 1
  /\ ppc' = IF pStatus = FINAL THEN "returned" ELSE "dec_load"
  /\ UNCHANGED <<mainVars, downloadVars, sharedVars, cancelVars, head, pLen,
                 pStatus, pBlock>>

\* args->bc_len -= 1 is a load, a subtraction and a store.
DecLoad ==
  /\ ProcessAt("dec_load")
  /\ pLen' = len
  /\ ppc' = "dec_store"
  /\ UNCHANGED <<mainVars, downloadVars, sharedVars, cancelVars, head, pStatus,
                 pBlock, stored, applied>>

\* Mutant of DecStore: the decrement is forgotten.
DecStoreForgotten == ProcessGoes("dec_store", "wait_next")

DecStore ==
  /\ ProcessAt("dec_store")
  /\ len' = pLen - 1
  /\ decs' = decs + 1
  /\ ppc' = "wait_next"
  /\ UNCHANGED <<mainVars, downloadVars, cancelVars, head, pLen, pStatus, pBlock,
                 stored, applied, node, incs>>

\* Mutant of NextLinked: the process thread does not wait for the next node.
NextLinkedIgnored == TRUE

NextLinked == node[head].next # NULL

\* while (args->bc_head->next == NULL), then the head moves and is freed.
Advance ==
  /\ ProcessAt("wait_next")
  /\ NextLinked
  /\ head' = node[head].next
  /\ node' = [node EXCEPT ![head].mem = "freed"]
  /\ ppc' = "wait"
  /\ UNCHANGED <<mainVars, downloadVars, cancelVars, pLen, pStatus, pBlock,
                 stored, applied, len, incs, decs>>

\* A database call fails somewhere in the block.
ProcessFails == ProcessGoes("apply", "error")

\* Mutant of CancelDownload: the other thread is left running.
CancelDownloadForgotten == ProcessGoes("error", "leave")

\* download_thread is no thread any more once the main thread has joined it:
\* that is undefined, nothing happens or the program is lost.
CancelDownload ==
  /\ ProcessAt("error")
  /\ \/ cancelD' = TRUE /\ ppc' = "leave" /\ UNCHANGED outcome
     \/ main = "join_process" /\ outcome' = "crashed" /\ UNCHANGED <<ppc, cancelD>>
  /\ UNCHANGED <<main, downloadVars, sharedVars, cancelP, head, pLen, pStatus,
                 pBlock, stored, applied>>

ProcessLeaves == ProcessGoes("leave", "failed")

Process == SeeNode \/ LoadStatus \/ LoadBlock \/ ApplyBlock \/ DecLoad
           \/ DecStore \/ Advance \/ ProcessFails \/ CancelDownload
           \/ ProcessLeaves

-----------------------------------------------------------------------------
(* Cancellation is asynchronous: it takes effect at any later instruction  *)
(* of the target, unless the target has already returned.                  *)

DownloadCancelled ==
  cancelD /\ \E s \in DownloadPc \ DownloadEnds : DownloadGoes(s, "cancelled")

ProcessCancelled ==
  cancelP /\ \E s \in ProcessPc \ ProcessEnds : ProcessGoes(s, "cancelled")

Cancellation == DownloadCancelled \/ ProcessCancelled

Next == Main \/ Download \/ Process \/ Cancellation

Spec == Init /\ [][Next]_vars

(***************************************************************************)
(* Each thread runs, every sleep ends and a requested cancellation is      *)
(* delivered.  That FetchBlock is taken assumes that the node answers:     *)
(* node_read (mods/node.c:130) blocks without a time limit.                *)
(***************************************************************************)
Fairness ==
  /\ WF_vars(Main)
  /\ WF_vars(Download)
  /\ WF_vars(Process)
  /\ WF_vars(DownloadCancelled)
  /\ WF_vars(ProcessCancelled)

FairSpec == Spec /\ Fairness

-----------------------------------------------------------------------------
(* Properties.                                                             *)

\* Every variable keeps its type; bc_len and the registers may go negative.
TypeOK ==
  /\ main \in {"create_download", "create_process", "join_download",
               "join_process", "joined"}
  /\ dpc \in DownloadPc
  /\ ppc \in ProcessPc
  /\ i \in Nat
  /\ head \in Blocks \cup {NULL}
  /\ tail \in Blocks \cup {NULL}
  /\ len \in Int
  /\ node \in [Blocks -> Node]
  /\ dLen \in Int
  /\ pLen \in Int
  /\ pStatus \in Nat
  /\ pBlock \in Blocks \cup {NULL}
  /\ cancelD \in BOOLEAN
  /\ cancelP \in BOOLEAN
  /\ stored \in Nat
  /\ applied \in Nat
  /\ incs \in Nat
  /\ decs \in Nat
  /\ outcome \in {"running", "complete", "failed", "crashed"}

(***************************************************************************)
(* Number of blocks whose download is complete: all nodes up to the tail,  *)
(* less the tail while its block is missing.                               *)
(***************************************************************************)
Fetched ==
  IF tail = NULL THEN 0
  ELSE tail - LastBlock - (IF node[tail].block = NULL THEN 1 ELSE 0)

(***************************************************************************)
(* The two threads, racing on an unlocked list that is published before it *)
(* is initialised, still apply the blocks of the run in order, each once,  *)
(* none before its download, and none after the program ended              *)
(* (btk_balance.c:325-548).                                                *)
(***************************************************************************)
Feed == INSTANCE BlockFeed WITH fetched <- Fetched,
                                ended <- (outcome # "running")
ImplementsFeed == Feed!FeedSpec

(***************************************************************************)
(* The process thread frees the node it leaves (btk_balance.c:541-544)     *)
(* while the download thread appends through args->bc_tail.  The tail is   *)
(* never a freed node when the download thread uses it, except between     *)
(* the store that links a new node (line 358) and the store that moves the *)
(* tail (line 364).                                                        *)
(***************************************************************************)
TailFreedOnlyInWindow ==
  /\ dpc \notin {"clear", "cancelled"}
  /\ tail # NULL
  => node[tail].mem = "live"

(***************************************************************************)
(* How far bc_len is from the number of blocks it counts: every decrement  *)
(* that an overlapping increment overwrites adds one, and the converse     *)
(* takes one away.                                                         *)
(***************************************************************************)
Drift == len - (incs - decs)

(***************************************************************************)
(* Memory held by the list.  bc_len never passes the cap, so the nodes not *)
(* yet freed are at most the cap, plus the one being appended, plus the    *)
(* increments that the unlocked updates of bc_len lost (negative Drift).   *)
(***************************************************************************)
Held == {b \in Blocks : node[b].mem \in {"raw", "live"}}

QueueBounded ==
  /\ len <= Cap
  /\ \A b, c \in Held : c - b <= Cap - Drift

(***************************************************************************)
(* The download thread sleeps because bc_len says the queue is full, while *)
(* the process thread waits for a block that was never appended, or has    *)
(* already returned: neither will ever wake.                               *)
(***************************************************************************)
Stalled ==
  /\ dpc = "throttle" /\ QueueFull
  /\ \/ ppc = "wait_next" /\ ~NextLinked
     \/ ppc = "returned"

(***************************************************************************)
(* The threads stall only after Cap - 1 decrements of bc_len were lost to  *)
(* overlapping updates (btk_balance.c:387, 403 and 531, 536): with the     *)
(* code's cap of 100, ninety-nine of them.  This and the next property     *)
(* need fresh memory not to look like a node that is FINAL.                *)
(***************************************************************************)
StallNeedsDrift == Stalled => Drift >= Cap - 1

(***************************************************************************)
(* When the program prints "Complete" (btk_balance.c:250) every block up   *)
(* to the node's height has been applied, unless both threads failed and   *)
(* each cancelled the other before it could return its error.              *)
(***************************************************************************)
CompleteMeansApplied ==
  outcome = "complete" =>
    \/ stored = BlockCount
    \/ dpc = "cancelled" /\ ppc = "cancelled"

\* The process thread waits behind the last block: the status it copied was not
\* the one the download thread stored, but what malloc had left there.
Misled == ppc = "wait_next" /\ head = BlockCount

Ended == outcome # "running"

(***************************************************************************)
(* As long as fewer than Cap - 1 decrements have been lost, and the status *)
(* of the last block was not read from uncleared memory, the program ends: *)
(* complete or with an error, whatever fails and in whatever order the     *)
(* threads run (btk_balance.c:224-246, 299-319).                           *)
(***************************************************************************)
Termination == [](Drift < Cap - 1 /\ ~Misled) => <>Ended

(***************************************************************************)
(* With no condition: "--update" ends, also when no new block has arrived  *)
(* since the last run (man/btk-balance.1:70).                              *)
(***************************************************************************)
UpdateEnds == <>Ended
=============================================================================

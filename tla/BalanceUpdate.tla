--------------------------- MODULE BalanceUpdate ---------------------------
(***************************************************************************)
(* What "btk balance --create" and "--update" do to the two databases      *)
(* (ctrl_mods/btk_balance.c, lines 205-228, 412-548 and 571-622;           *)
(* mods/balance.c and mods/txoa.c).  The balance database maps an address  *)
(* to its balance; the txoa database maps an output to its address and     *)
(* amount, and "__last_block" to the last block applied.                   *)
(*                                                                         *)
(* Blocks arrive in order, one at a time (BlockQueue shows it).  For each  *)
(* transaction the process thread gathers the effect of the inputs in two  *)
(* write batches, writes one and then the other, and does the same for the *)
(* outputs.  A batch is written atomically, but nothing makes the two      *)
(* databases agree: the run may be interrupted between any two writes, by  *)
(* a kill, a failing database call, or the cancellation that follows a     *)
(* download error.  A later --update starts after the last recorded block. *)
(***************************************************************************)
EXTENDS Chain, KeyValue

CONSTANTS
  Chains,          \* the chains the node may serve
  NoAmount,        \* amount of a txoa record that --create-from-chainstate made
  MaxInterrupts    \* bound: how many runs are interrupted

ASSUME UpdateAssumption ==
  /\ \A c \in Chains : WellFormed(c)
  /\ NoAddress \notin Addr
  /\ NoAmount \notin Nat
  /\ Missing \notin Nat \cup [addr : Addr \cup {NoAddress}, amt : Nat \cup {NoAmount}]
  /\ MaxInterrupts \in Nat

VARIABLES
  chain,       \* the node's chain; it never changes
  height,      \* how much of it the node has: what getblockcount returns
  made,        \* which database directories exist
  bal,         \* the balance database
  txoa,        \* the txoa database, "__last_block" apart
  last,        \* its "__last_block" record
  pc,          \* what the run does next, "idle" when there is none
  target,      \* args->block_count
  b,           \* the block being applied
  n,           \* the transaction being applied
  txoaBatch,   \* the write batch of the txoa database
  balBatch,    \* the write batch of the balance database
  interrupts,  \* bound: runs interrupted so far
  torn         \* history: addresses of blocks that were interrupted half-way

nodeVars  == <<chain, height>>
dbVars    == <<made, bal, txoa, last>>
runVars   == <<target, b, n>>
batchVars == <<txoaBatch, balBatch>>
boundVars == <<interrupts, torn>>
vars == <<nodeVars, dbVars, pc, runVars, batchVars, boundVars>>

\* A key of the txoa database: a transaction hash and an output position.
Keys == Int \X Nat

\* Every key that the transactions of c can use.
KeysOf(c) == UNION {{HashOf(c, m), m} \X DOMAIN c.tx[m].outs : m \in DOMAIN c.tx}

Init ==
  /\ chain \in Chains
  /\ height \in 1 .. Height(chain)
  /\ made = {}
  /\ bal = EmptyDb(Addr)
  /\ txoa = EmptyDb(KeysOf(chain))
  /\ last = Missing
  /\ pc = "idle"
  /\ target = 0
  /\ b = 0
  /\ n = 0
  /\ txoaBatch = EmptyBatch
  /\ balBatch = EmptyBatch
  /\ interrupts = 0
  /\ torn = {}

-----------------------------------------------------------------------------

\* A new block reaches the node.
NewBlock ==
  /\ height < Height(chain)
  /\ height' = height + 1
  /\ UNCHANGED <<chain, dbVars, pc, runVars, batchVars, boundVars>>

(***************************************************************************)
(* btk_balance_init.  --create insists that the databases do not exist,    *)
(* --update that they do and that a last block is on record.               *)
(***************************************************************************)
BalanceOpen(create) == MayOpen(made, "balance", create) /\ made' = made \cup {"balance"}

TxoaOpen(create) == MayOpen(made, "txoa", create) /\ made' = made \cup {"txoa"}

OpenCreate ==
  /\ pc = "idle"
  /\ BalanceOpen(TRUE)
  /\ pc' = "open_txoa"
  /\ UNCHANGED <<nodeVars, bal, txoa, last, runVars, batchVars, boundVars>>

OpenTxoa ==
  /\ pc = "open_txoa"
  /\ TxoaOpen(TRUE)
  /\ pc' = "begin"
  /\ UNCHANGED <<nodeVars, bal, txoa, last, runVars, batchVars, boundVars>>

OpenUpdate ==
  /\ pc = "idle"
  /\ MayOpen(made, "balance", FALSE) /\ TxoaOpen(FALSE)
  /\ last # Missing
  /\ pc' = "begin"
  /\ UNCHANGED <<nodeVars, bal, txoa, last, runVars, batchVars, boundVars>>

\* txoa_get_last_block; 0 when there is no record.
LastBlock == IF last = Missing THEN 0 ELSE last

FirstBlock == LastBlock + 1

\* Mutant of HasBlocks: the download loop stops one block early.
HasBlocksStrict == FirstBlock < height

HasBlocks == FirstBlock <= height

\* getblockcount; with no block to download the process thread waits for ever.
Begin ==
  /\ pc = "begin"
  /\ target' = height
  /\ IF HasBlocks
       THEN pc' = "inputs" /\ b' = FirstBlock /\ n' = End(chain, FirstBlock - 1) + 1
       ELSE pc' = "starved" /\ UNCHANGED <<b, n>>
  /\ UNCHANGED <<nodeVars, dbVars, batchVars, boundVars>>

\* The txoa record that input j of the current transaction refers to.
Found(j) == txoa[chain.tx[n].ins[j]]

FoundInputs == {j \in DOMAIN chain.tx[n].ins : Found(j) # Missing}

(***************************************************************************)
(* A record without an amount is taken apart as if it had one: the address *)
(* read is cut short, names no record, and nothing is deducted.            *)
(***************************************************************************)
Debits(a) == {j \in FoundInputs : Found(j).addr = a /\ Found(j).amt # NoAmount}

Stored(a) == IF bal[a] = Missing THEN 0 ELSE bal[a]

\* Mutant of Debited: the balance is not kept from going below zero.
DebitedUnchecked(a) == Stored(a) - Found(Max(Debits(a))).amt

(***************************************************************************)
(* Each input takes its amount off the balance in the database, not off    *)
(* the one an earlier input left in the batch: the last input of an        *)
(* address decides.                                                        *)
(***************************************************************************)
Debited(a) ==
  LET amount == Found(Max(Debits(a))).amt
  IN IF Stored(a) > amount THEN Stored(a) - amount ELSE Missing

\* Mutant of Deletions: spent outputs stay in the txoa database.
DeletionsForgotten == EmptyBatch

Deletions == [o \in {chain.tx[n].ins[j] : j \in FoundInputs} |-> Missing]

ReadInputs ==
  /\ pc = "inputs"
  /\ txoaBatch' = Deletions
  /\ balBatch' = [a \in {x \in Addr : Debits(x) # {}} |-> Debited(a)]
  /\ pc' = "txoa_in"
  /\ UNCHANGED <<nodeVars, dbVars, runVars, boundVars>>

Credits(a) == {j \in DOMAIN chain.tx[n].outs :
                 Tracked(chain.tx[n].outs[j]) /\ chain.tx[n].outs[j].addr = a}

\* Mutant of Credited: the balance is replaced instead of increased.
CreditedAfresh(a) == chain.tx[n].outs[Max(Credits(a))].amt

\* As for the inputs, the last output to an address decides.
Credited(a) == Stored(a) + chain.tx[n].outs[Max(Credits(a))].amt

ReadOutputs ==
  /\ pc = "outputs"
  /\ txoaBatch' = [o \in {<<HashOf(chain, n), k[2]>> :
                            k \in TrackedOutputs(chain, n)}
                     |-> chain.tx[n].outs[o[2]]]
  /\ balBatch' = [a \in {x \in Addr : Credits(x) # {}} |-> Credited(a)]
  /\ pc' = "txoa_out"
  /\ UNCHANGED <<nodeVars, dbVars, runVars, boundVars>>

WriteTxoa ==
  /\ pc \in {"txoa_in", "txoa_out"}
  /\ txoa' = Written(txoa, txoaBatch)
  /\ txoaBatch' = EmptyBatch
  /\ pc' = IF pc = "txoa_in" THEN "bal_in" ELSE "bal_out"
  /\ UNCHANGED <<nodeVars, made, bal, last, runVars, balBatch, boundVars>>

\* Mutant of MoreTransactions: the last transaction of a block is skipped.
MoreTransactionsButOne == n + 1 < End(chain, b)

MoreTransactions == n < End(chain, b)

WriteBalance ==
  /\ pc \in {"bal_in", "bal_out"}
  /\ bal' = Written(bal, balBatch)
  /\ balBatch' = EmptyBatch
  /\ IF pc = "bal_in" THEN pc' = "outputs" /\ UNCHANGED n
     ELSE IF MoreTransactions THEN pc' = "inputs" /\ n' = n + 1
     ELSE pc' = "set_last" /\ UNCHANGED n
  /\ UNCHANGED <<nodeVars, made, txoa, last, target, b, txoaBatch, boundVars>>

\* The block is recorded; after the last one of the run the program ends.
SetLastBlock ==
  /\ pc = "set_last"
  /\ last' = b
  /\ IF b = target
       THEN pc' = "idle" /\ UNCHANGED <<b, n>>
       ELSE pc' = "inputs" /\ b' = b + 1 /\ n' = End(chain, b) + 1
  /\ UNCHANGED <<nodeVars, made, bal, txoa, target, batchVars, boundVars>>

\* Some transaction of the block has been applied, at least in part.
HalfWay ==
  \/ pc \in {"bal_in", "outputs", "txoa_out", "bal_out", "set_last"}
  \/ pc \in {"inputs", "txoa_in"} /\ n > End(chain, b - 1) + 1

BlockTxs(c, h) == (End(c, h - 1) + 1) .. End(c, h)

TouchedBy(c, m) ==
  {Coin(c, o).addr : o \in TrackedOutputs(c, m) \cup Inputs(c, m)}

\* The process ends between two writes; batches not yet written are lost.
Interrupt ==
  /\ pc # "idle"
  /\ interrupts < MaxInterrupts
  /\ interrupts' = interrupts + 1
  /\ torn' = torn \cup (IF HalfWay THEN UNION {TouchedBy(chain, m) :
                                                m \in BlockTxs(chain, b)}
                        ELSE {})
  /\ pc' = "idle"
  /\ txoaBatch' = EmptyBatch
  /\ balBatch' = EmptyBatch
  /\ UNCHANGED <<nodeVars, dbVars, runVars>>

Step == OpenTxoa \/ Begin \/ ReadInputs \/ ReadOutputs \/ WriteTxoa
        \/ WriteBalance \/ SetLastBlock

Next == NewBlock \/ OpenCreate \/ OpenUpdate \/ Step \/ Interrupt

Spec == Init /\ [][Next]_vars

(***************************************************************************)
(* A run that was started goes on, and the user keeps running --update.    *)
(***************************************************************************)
FairSpec == Spec /\ WF_vars(Step) /\ WF_vars(OpenUpdate)

-----------------------------------------------------------------------------
(* Properties.                                                             *)

(***************************************************************************)
(* What the txoa database should hold after the first m transactions: the  *)
(* unspent outputs of the legacy transactions, and every output of the     *)
(* segwit ones, which are stored under a hash no input refers to.          *)
(***************************************************************************)
Expected(c, m) ==
  LET made_by(x) == IF x < 0 THEN -x ELSE x
      coin(o)    == <<made_by(o[1]), o[2]>>
  IN [o \in KeysOf(c) |->
        IF /\ coin(o)[1] <= m
           /\ HashOf(c, coin(o)[1]) = o[1]
           /\ Tracked(Coin(c, coin(o)))
           /\ \A k \in 1 .. m : o \notin Inputs(c, k)
          THEN Coin(c, coin(o))
          ELSE Missing]

(***************************************************************************)
(* However often a run was interrupted and a block applied again from its  *)
(* start, once all transactions of a block are applied the txoa database   *)
(* is exactly what the chain says (btk_balance.c:433-523): replaying first *)
(* brings back outputs the block itself spends, then spends them again.    *)
(***************************************************************************)
TxoaExact == pc = "set_last" => txoa = Expected(chain, End(chain, b))

\* Addresses met twice among the coins one transaction spends, or its outputs.
Repeated(c, m) ==
  {a \in Addr : \E k \in 1 .. m :
     \/ \E o, p \in TrackedOutputs(c, k) :
          o # p /\ Coin(c, o).addr = a /\ Coin(c, p).addr = a
     \/ \E o, p \in Inputs(c, k) :
          o # p /\ Coin(c, o).addr = a /\ Coin(c, p).addr = a}

\* Addresses whose coins were created by a segwit transaction and spent.
Untraced(c, m) ==
  {a \in Addr : \E k \in 1 .. m : \E o \in Inputs(c, k) :
     c.tx[o[1]].segwit /\ Coin(c, o).addr = a}

TrueRecord(a, m) ==
  IF Balance(chain, a, m) = 0 THEN Missing ELSE Balance(chain, a, m)

(***************************************************************************)
(* Where the balances can be wrong, and nowhere else.  Once a block is     *)
(* applied, the balance of an address is what the chain says, and an       *)
(* address without a balance has no record, unless one transaction paid or *)
(* spent it twice (btk_balance.c:464-475 and 507-511 read the database,    *)
(* not the batch), or it spent an output of a segwit transaction           *)
(* (transaction.c:102), or a run was interrupted half-way through a block  *)
(* that touches it (btk_balance.c:480-523).                                *)
(***************************************************************************)
BalanceExactElsewhere ==
  pc = "set_last" =>
    LET m == End(chain, b)
    IN \A a \in Addr \ (torn \cup Repeated(chain, m) \cup Untraced(chain, m)) :
         bal[a] = TrueRecord(a, m)

\* The claim of the manual page: the database holds every balance.
BalanceExact ==
  pc = "set_last" =>
    \A a \in Addr : bal[a] = TrueRecord(a, End(chain, b))

(***************************************************************************)
(* No block is recorded before all of its transactions were applied in     *)
(* this run, and none is skipped or recorded twice, across all runs.       *)
(***************************************************************************)
RecordsInOrder ==
  [][last' # last => /\ last' = (IF last = Missing THEN 0 ELSE last) + 1
                     /\ n = End(chain, last')]_vars

MaxHeight == Max({Height(c) : c \in Chains})

(***************************************************************************)
(* Once a first block is on record, every block that reaches the node is   *)
(* eventually recorded, whatever was interrupted before, or else a run     *)
(* that started when it had nothing to do, before that block arrived, is   *)
(* waiting for a block that no one will download (btk_balance.c:424-427).  *)
(***************************************************************************)
CatchesUp ==
  \A h \in 1 .. MaxHeight :
    (last # Missing /\ height >= h) ~>
      \/ last # Missing /\ last >= h
      \/ pc = "starved" /\ target < h
=============================================================================

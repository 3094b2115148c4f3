---------------------- MODULE ChainstateImport_proofs ----------------------
(***************************************************************************)
(* What BalanceUpdate promises of the txoa database, of the balances and   *)
(* of the record of the last block, and what ChainstateImport promises of  *)
(* the balances: proved for every chain, every order of the records of the *)
(* chainstate and any number of interrupted runs.                          *)
(***************************************************************************)
EXTENDS ChainstateImport, SequenceTheorems, FiniteSetTheorems, WellFoundedInduction, TLAPS

(***************************************************************************)
(* First the databases from the first block on: BalanceUpdate.             *)
(***************************************************************************)

InBlock == {"inputs", "txoa_in", "bal_in", "outputs", "txoa_out", "bal_out", "set_last"}

\* The transactions of recorded blocks, and those any run may have touched.
Base  == End(chain, LastBlock)
Limit == IF LastBlock < Height(chain) THEN End(chain, FirstBlock) ELSE Base

\* Up to which transaction this run, or a recorded block, has applied the inputs
\* and the outputs.
InDone == IF pc \in {"inputs", "txoa_in"} THEN n - 1 ELSE IF pc \in InBlock THEN n ELSE Base

OutDone == IF pc \in {"bal_out", "set_last"} THEN n ELSE IF pc \in InBlock THEN n - 1 ELSE Base

\* The transaction a key belongs to, and its output.
Maker(o)  == IF o[1] < 0 THEN -o[1] ELSE o[1]
CoinOf(o) == Coin(chain, <<Maker(o), o[2]>>)

\* The key under which the code would store that output.
Kept(o) == HashOf(chain, Maker(o)) = o[1] /\ Tracked(CoinOf(o))

SpentBy(o, m) == \E k \in 1 .. m : o \in Inputs(chain, k)

(***************************************************************************)
(* Where a run stands, and that it applies the block after the last one on *)
(* record.                                                                 *)
(***************************************************************************)
RunInv ==
  /\ chain \in Chains
  /\ height \in 1 .. Height(chain)
  /\ last \in Nat \cup {Missing}
  /\ LastBlock <= height
  /\ txoa = [o \in KeysOf(chain) |-> txoa[o]]
  /\ pc \in InBlock => /\ b = FirstBlock
                       /\ target \in b .. height
                       /\ n \in (Base + 1) .. Limit
  /\ pc = "set_last" => n = Limit

OutputBatch ==
  [o \in {<<HashOf(chain, n), k[2]>> : k \in TrackedOutputs(chain, n)} |-> chain.tx[n].outs[o[2]]]

BatchInv ==
  /\ pc = "txoa_in" => txoaBatch = Deletions
  /\ pc = "txoa_out" => txoaBatch = OutputBatch

(***************************************************************************)
(* The record of every key, in the middle of a block that may have been    *)
(* applied in part before: what is spent so far is gone; what is made so   *)
(* far is there, unless the block itself spends it; and what is made later *)
(* may be there already, but not if it belongs to a later block.           *)
(***************************************************************************)
KeyInv(o) ==
  /\ txoa[o] \in {Missing, CoinOf(o)}
  /\ ~Kept(o) => txoa[o] = Missing
  /\ Maker(o) > Limit => txoa[o] = Missing
  /\ SpentBy(o, InDone) => txoa[o] = Missing
  /\ Kept(o) /\ Maker(o) <= OutDone /\ ~SpentBy(o, Limit) => txoa[o] = CoinOf(o)

TxoaInv == \A o \in KeysOf(chain) : KeyInv(o)

IInv == RunInv /\ BatchInv /\ TxoaInv

-----------------------------------------------------------------------------
(* The chain.                                                              *)

\* Blocks end in order, at transactions that exist.
LEMMA Ends ==
  ASSUME NEW c \in Chains
  PROVE  /\ Height(c) \in Nat
         /\ \A h \in 0 .. Height(c) : End(c, h) \in Nat /\ End(c, h) <= Len(c.tx)
         /\ \A h \in 1 .. Height(c) : End(c, h - 1) < End(c, h)
<1>1. WellFormed(c) /\ c.end \in Seq(Nat) /\ Len(c.tx) \in Nat
  <2>1. WellFormed(c)
    BY UpdateAssumption
  <2>2. c.tx \in Seq([ins : Seq(Nat \X Nat), outs : Seq([addr : Addr \cup {NoAddress}, amt : Nat]),
                      segwit : BOOLEAN])
    BY <2>1 DEF WellFormed
  <2>3. Len(c.tx) \in Nat
    BY <2>2
  <2> QED
    BY <2>1, <2>3 DEF WellFormed
<1>2. Height(c) \in Nat /\ \A h \in 1 .. Height(c) : End(c, h) = c.end[h] /\ c.end[h] \in Nat
  BY <1>1 DEF Height, End
<1>3. End(c, 0) = 0
  BY DEF End
<1> QED
  BY <1>1, <1>2, <1>3 DEF WellFormed

\* A transaction, its outputs, and what it spends: outputs of earlier ones.
LEMMA Transactions ==
  ASSUME NEW c \in Chains, NEW k \in DOMAIN c.tx
  PROVE  /\ DOMAIN c.tx = 1 .. Len(c.tx) /\ Len(c.tx) \in Nat /\ k \in Nat /\ k > 0
         /\ DOMAIN c.tx[k].outs \subseteq Nat
         /\ \A o \in Inputs(c, k) :
              /\ o = <<o[1], o[2]>>
              /\ o[1] \in DOMAIN c.tx /\ o[1] < k
              /\ o[2] \in DOMAIN c.tx[o[1]].outs
<1> DEFINE Out == [addr : Addr \cup {NoAddress}, amt : Nat]
<1>1. WellFormed(c) /\ c.tx \in Seq([ins : Seq(Nat \X Nat), outs : Seq(Out), segwit : BOOLEAN])
  BY UpdateAssumption DEF WellFormed
<1>2. DOMAIN c.tx = 1 .. Len(c.tx) /\ Len(c.tx) \in Nat
  BY <1>1
<1>3. c.tx[k] \in [ins : Seq(Nat \X Nat), outs : Seq(Out), segwit : BOOLEAN]
  BY <1>1, <1>2, ElementOfSeq
<1>4. c.tx[k].outs \in Seq(Out) /\ c.tx[k].ins \in Seq(Nat \X Nat)
  BY <1>3
<1>5. DOMAIN c.tx[k].outs \subseteq Nat
  BY <1>4
<1>6. ASSUME NEW j \in DOMAIN c.tx[k].ins, NEW o, o = c.tx[k].ins[j]
      PROVE  /\ o = <<o[1], o[2]>>
             /\ o[1] \in DOMAIN c.tx /\ o[1] < k
             /\ o[2] \in DOMAIN c.tx[o[1]].outs
  <2>1. o \in Nat \X Nat
    BY <1>4, <1>6
  <2>2. o[1] \in 1 .. (k - 1) /\ o[2] \in DOMAIN c.tx[o[1]].outs
    BY <1>1, <1>6 DEF WellFormed
  <2> QED
    BY <2>1, <2>2, <1>2
<1> QED
  BY <1>2, <1>5, <1>6 DEF Inputs

\* A key is a pair, and belongs to an output of the chain.
LEMMA KeyFacts ==
  ASSUME NEW c \in Chains, c = chain, NEW o \in KeysOf(c)
  PROVE  /\ o = <<o[1], o[2]>> /\ o[1] \in Int
         /\ Maker(o) \in DOMAIN c.tx /\ o[2] \in DOMAIN c.tx[Maker(o)].outs
<1>1. PICK k \in DOMAIN c.tx : o \in {HashOf(c, k), k} \X DOMAIN c.tx[k].outs
  BY DEF KeysOf
<1>2. k \in Nat /\ k > 0
  BY Transactions
<1>3. o = <<o[1], o[2]>> /\ o[1] \in {-k, k} /\ o[2] \in DOMAIN c.tx[k].outs
  BY <1>1 DEF HashOf
<1>4. Maker(o) = k /\ o[1] \in Int
  BY <1>2, <1>3 DEF Maker
<1> QED
  BY <1>3, <1>4

\* The key an output is stored under belongs to that output.
LEMMA HashKey ==
  ASSUME NEW c \in Chains, c = chain, NEW k \in DOMAIN c.tx, NEW j \in DOMAIN c.tx[k].outs,
         NEW o, o = <<HashOf(c, k), j>>
  PROVE  Maker(o) = k /\ CoinOf(o) = c.tx[k].outs[j] /\ HashOf(c, Maker(o)) = o[1]
<1>1. k \in Nat /\ k > 0
  BY Transactions
<1>2. o[1] \in {-k, k} /\ o[1] = HashOf(c, k) /\ o[2] = j
  BY DEF HashOf
<1>3. Maker(o) = k
  BY <1>1, <1>2 DEF Maker
<1> QED
  BY <1>2, <1>3 DEF CoinOf, Coin

\* Where the recorded blocks and the next one end.
LEMMA Marks ==
  ASSUME RunInv
  PROVE  /\ chain \in Chains /\ LastBlock \in Nat /\ FirstBlock = LastBlock + 1
         /\ Base \in Nat /\ Limit \in Nat /\ Base <= Limit /\ Limit <= Len(chain.tx)
         /\ Len(chain.tx) \in Nat /\ DOMAIN chain.tx = 1 .. Len(chain.tx)
         /\ LastBlock < Height(chain) => Limit = End(chain, FirstBlock) /\ Base < Limit
         /\ pc \in InBlock => /\ n \in Nat /\ n > Base /\ n <= Limit /\ n \in DOMAIN chain.tx
                              /\ b = FirstBlock /\ b \in Nat /\ target \in Nat
                              /\ Limit = End(chain, b) /\ Base = End(chain, b - 1)
                              /\ b <= target /\ target <= height /\ height <= Height(chain)
<1>1. chain \in Chains /\ LastBlock \in Nat /\ FirstBlock = LastBlock + 1
  BY UpdateAssumption DEF RunInv, LastBlock, FirstBlock
<1>2. /\ Height(chain) \in Nat /\ height \in Nat /\ LastBlock <= height /\ height <= Height(chain)
      /\ LastBlock \in 0 .. Height(chain)
  BY <1>1, Ends DEF RunInv
<1>3. Base \in Nat /\ Base <= Len(chain.tx)
  BY <1>1, <1>2, Ends DEF Base
<1>4. LastBlock < Height(chain) =>
        /\ Limit = End(chain, FirstBlock) /\ Limit \in Nat /\ Limit <= Len(chain.tx)
        /\ Base < Limit
  <2> SUFFICES ASSUME LastBlock < Height(chain)
               PROVE  /\ Limit = End(chain, FirstBlock) /\ Limit \in Nat
                      /\ Limit <= Len(chain.tx) /\ Base < Limit
    OBVIOUS
  <2>1. FirstBlock \in 1 .. Height(chain) /\ FirstBlock - 1 = LastBlock
    BY <1>1, <1>2
  <2> QED
    BY <1>1, <2>1, Ends DEF Limit, Base
<1>5. Limit \in Nat /\ Base <= Limit /\ Limit <= Len(chain.tx)
  BY <1>2, <1>3, <1>4 DEF Limit
<1>6. Len(chain.tx) \in Nat /\ DOMAIN chain.tx = 1 .. Len(chain.tx)
  BY <1>1, UpdateAssumption DEF WellFormed
<1>7. ASSUME pc \in InBlock
      PROVE  /\ n \in Nat /\ n > Base /\ n <= Limit /\ n \in DOMAIN chain.tx
             /\ b = FirstBlock /\ b \in Nat /\ target \in Nat
             /\ Limit = End(chain, b) /\ Base = End(chain, b - 1)
             /\ b <= target /\ target <= height
  <2>1. b = FirstBlock /\ target \in b .. height /\ n \in (Base + 1) .. Limit
    BY <1>7 DEF RunInv
  <2>2. b \in Nat /\ target \in Nat /\ b - 1 = LastBlock /\ LastBlock < Height(chain)
    BY <1>1, <1>2, <2>1
  <2> QED
    BY <1>3, <1>4, <1>5, <1>6, <2>1, <2>2 DEF Base
<1> QED
  BY <1>1, <1>2, <1>3, <1>4, <1>5, <1>6, <1>7

-----------------------------------------------------------------------------
(* The invariant holds at the start, and every step preserves each part.   *)

\* The databases are empty, and no transaction has been applied.
LEMMA InitIInv == Init => IInv
<1> SUFFICES ASSUME Init PROVE IInv
  OBVIOUS
<1>1. RunInv
  <2>1. LastBlock = 0 /\ pc \notin InBlock /\ pc # "set_last"
    BY DEF Init, LastBlock, InBlock
  <2>2. txoa = [o \in KeysOf(chain) |-> txoa[o]] /\ last \in Nat \cup {Missing}
    BY DEF Init, EmptyDb
  <2>3. chain \in Chains /\ height \in 1 .. Height(chain)
    BY DEF Init
  <2>4. Height(chain) \in Nat
    BY <2>3, Ends
  <2> QED
    BY <2>1, <2>2, <2>3, <2>4 DEF RunInv
<1>2. BatchInv
  BY DEF Init, BatchInv
<1>3. ASSUME NEW o \in KeysOf(chain) PROVE KeyInv(o)
  <2>1. txoa[o] = Missing
    BY <1>3 DEF Init, EmptyDb
  <2>2. InDone = 0 /\ OutDone = 0
    BY DEF Init, InDone, OutDone, InBlock, Base, LastBlock, End
  <2>3. Maker(o) > 0
    BY <1>1, <1>3, KeyFacts, Transactions, Marks
  <2>4. Maker(o) \in Nat
    BY <1>1, <1>3, KeyFacts, Transactions, Marks
  <2> QED
    BY <2>1, <2>2, <2>3, <2>4 DEF KeyInv
<1> QED
  BY <1>1, <1>2, <1>3 DEF IInv, TxoaInv

LEMMA RunStep == RunInv /\ [Next]_vars => RunInv'
<1> SUFFICES ASSUME RunInv, [Next]_vars PROVE RunInv'
  OBVIOUS
<1> USE DEF nodeVars, dbVars, runVars, batchVars, boundVars
<1>1. RunInv
  OBVIOUS
<1>2. /\ chain \in Chains /\ Height(chain) \in Nat /\ height \in Nat /\ height > 0
      /\ height <= Height(chain) /\ LastBlock \in Nat /\ FirstBlock = LastBlock + 1
      /\ LastBlock <= height
  BY <1>1, Marks, Ends DEF RunInv
\* What Base and Limit are made of stays, and the run is not within a block.
<1>3. ASSUME UNCHANGED <<chain, last, txoa>>, pc' \notin InBlock, height' \in height .. Height(chain)
      PROVE  RunInv'
  <2>1. pc' # "set_last" /\ LastBlock' = LastBlock
    BY <1>3 DEF InBlock, LastBlock
  <2> QED
    BY <1>1, <1>2, <1>3, <2>1 DEF RunInv
\* The run goes on in its block.
<1>4. ASSUME UNCHANGED <<chain, height, last, b, target>>,
             txoa' = [o \in KeysOf(chain) |-> txoa'[o]],
             pc \in InBlock, n' \in n .. Limit, pc' = "set_last" => n' = Limit
      PROVE  RunInv'
  <2>1. LastBlock' = LastBlock /\ FirstBlock' = FirstBlock /\ Base' = Base /\ Limit' = Limit
    BY <1>4 DEF LastBlock, FirstBlock, Base, Limit
  <2>2. n' \in (Base + 1) .. Limit
    BY <1>1, <1>4, Marks
  <2> QED
    BY <1>1, <1>4, <2>1, <2>2 DEF RunInv
<1>5. CASE NewBlock
  <2>1. height' \in height .. Height(chain)
    BY <1>2, <1>5 DEF NewBlock
  <2>2. CASE pc \notin InBlock
    BY <1>3, <1>5, <2>1, <2>2 DEF NewBlock
  <2>3. CASE pc \in InBlock
    <3>1. /\ LastBlock' = LastBlock /\ FirstBlock' = FirstBlock /\ Base' = Base /\ Limit' = Limit
          /\ height' = height + 1
      BY <1>5 DEF NewBlock, LastBlock, FirstBlock, Base, Limit
    <3>2. target' \in b' .. height'
      BY <1>1, <1>2, <1>5, <2>3, <3>1, Marks DEF NewBlock
    <3> QED
      BY <1>1, <1>2, <1>5, <2>1, <2>3, <3>1, <3>2 DEF NewBlock, RunInv
  <2> QED
    BY <2>2, <2>3
<1>6. CASE OpenCreate \/ OpenUpdate \/ OpenTxoa
  <2>1. UNCHANGED <<chain, height, last, txoa>> /\ pc' \in {"open_txoa", "begin"}
    BY <1>6 DEF OpenCreate, OpenUpdate, OpenTxoa
  <2>2. pc' \notin InBlock /\ height' \in height .. Height(chain)
    BY <1>2, <2>1 DEF InBlock
  <2> QED
    BY <1>3, <2>1, <2>2
<1>7. CASE Begin
  <2>1. CASE HasBlocks
    <3>1. /\ UNCHANGED <<chain, height, last, txoa>>
          /\ pc' = "inputs" /\ b' = FirstBlock /\ n' = End(chain, FirstBlock - 1) + 1
          /\ target' = height /\ FirstBlock <= height
      BY <1>7, <2>1 DEF Begin, HasBlocks
    <3>2. LastBlock' = LastBlock /\ FirstBlock' = FirstBlock /\ Base' = Base /\ Limit' = Limit
      BY <3>1 DEF LastBlock, FirstBlock, Base, Limit
    <3>3. LastBlock < Height(chain) /\ n' = Base + 1
      BY <1>2, <3>1 DEF Base
    <3>4. n' \in (Base + 1) .. Limit
      BY <1>1, <3>3, Marks
    <3> QED
      BY <1>1, <1>2, <3>1, <3>2, <3>4 DEF RunInv
  <2>2. CASE ~HasBlocks
    BY <1>2, <1>3, <1>7, <2>2 DEF Begin, InBlock
  <2> QED
    BY <2>1, <2>2
<1>8. CASE ReadInputs \/ ReadOutputs \/ WriteTxoa
  <2>1. pc \in InBlock /\ n' = n /\ pc' # "set_last" /\ UNCHANGED <<chain, height, last, b, target>>
    BY <1>8 DEF ReadInputs, ReadOutputs, WriteTxoa, InBlock
  <2>2. txoa' = [o \in KeysOf(chain) |-> txoa'[o]]
    BY <1>1, <1>8 DEF RunInv, ReadInputs, ReadOutputs, WriteTxoa, Written
  <2>3. n' \in n .. Limit
    BY <1>1, <2>1, Marks
  <2> QED
    BY <1>4, <2>1, <2>2, <2>3
<1>9. CASE WriteBalance
  <2>1. pc \in InBlock /\ UNCHANGED <<chain, height, last, b, target, txoa>>
    BY <1>9 DEF WriteBalance, InBlock
  <2>2. n \in Nat /\ n <= Limit /\ Limit \in Nat /\ Limit = End(chain, b)
    BY <1>1, <2>1, Marks
  <2>3. \/ n' = n /\ pc' = "outputs"
        \/ n' = n + 1 /\ n < End(chain, b) /\ pc' = "inputs"
        \/ n' = n /\ ~(n < End(chain, b)) /\ pc' = "set_last"
    BY <1>9 DEF WriteBalance, MoreTransactions
  <2>4. n' \in n .. Limit /\ (pc' = "set_last" => n' = Limit)
    BY <2>2, <2>3
  <2> QED
    BY <1>1, <1>4, <2>1, <2>4 DEF RunInv
<1>10. CASE SetLastBlock
  <2>1. /\ pc \in InBlock /\ last' = b /\ UNCHANGED <<chain, height, txoa, target>>
    BY <1>10 DEF SetLastBlock, InBlock
  <2>2. b \in Nat /\ target \in Nat /\ b <= target /\ target <= height
    BY <1>1, <2>1, Marks
  <2>3. last' \in Nat /\ LastBlock' = b /\ FirstBlock' = b + 1
    BY <2>1, <2>2, UpdateAssumption DEF LastBlock, FirstBlock
  <2>4. LastBlock' <= height
    BY <1>2, <2>2, <2>3
  <2>5. CASE b = target
    <3>1. pc' = "idle"
      BY <1>10, <2>5 DEF SetLastBlock
    <3> QED
      BY <1>1, <2>1, <2>3, <2>4, <3>1 DEF RunInv, InBlock
  <2>6. CASE b # target
    <3>1. pc' = "inputs" /\ b' = b + 1 /\ n' = End(chain, b) + 1
      BY <1>10, <2>6 DEF SetLastBlock
    <3>2. Base' = End(chain, b) /\ b < Height(chain) /\ b + 1 \in 1 .. Height(chain)
      BY <1>2, <2>1, <2>2, <2>3, <2>6 DEF Base
    <3>3. Limit' = End(chain, b + 1)
      BY <2>1, <2>3, <3>2 DEF Limit
    <3>4. End(chain, b) < End(chain, b + 1) /\ End(chain, b) \in Nat /\ End(chain, b + 1) \in Nat
      <4>1. b \in 0 .. Height(chain) /\ b + 1 \in 0 .. Height(chain) /\ (b + 1) - 1 = b
        BY <1>2, <2>2, <3>2
      <4> QED
        BY <1>2, <3>2, <4>1, Ends
    <3>5. n' \in (Base' + 1) .. Limit'
      BY <3>1, <3>2, <3>3, <3>4
    <3>6. target' \in b' .. height'
      BY <1>2, <2>1, <2>2, <2>6, <3>1
    <3> QED
      BY <1>1, <2>1, <2>3, <2>4, <3>1, <3>5, <3>6 DEF RunInv
  <2> QED
    BY <2>5, <2>6
<1>11. CASE Interrupt
  BY <1>2, <1>3, <1>11 DEF Interrupt, InBlock
<1>12. CASE UNCHANGED vars
  <2>1. UNCHANGED <<chain, height, last, txoa, pc, b, target, n>>
    BY <1>12 DEF vars
  <2>2. LastBlock' = LastBlock /\ FirstBlock' = FirstBlock /\ Base' = Base /\ Limit' = Limit
    BY <2>1 DEF LastBlock, FirstBlock, Base, Limit
  <2> QED
    BY <1>1, <2>1, <2>2 DEF RunInv
<1> QED
  BY <1>5, <1>6, <1>7, <1>8, <1>9, <1>10, <1>11, <1>12 DEF Next, Step

\* A batch stays what it was made as until it is written or lost.
LEMMA BatchStep == BatchInv /\ [Next]_vars => BatchInv'
<1> SUFFICES ASSUME BatchInv, [Next]_vars PROVE BatchInv'
  OBVIOUS
<1> USE DEF nodeVars, dbVars, runVars, batchVars, boundVars
<1>1. CASE ReadInputs
  BY <1>1 DEF ReadInputs, BatchInv, Deletions, FoundInputs, Found
<1>2. CASE ReadOutputs
  BY <1>2 DEF ReadOutputs, BatchInv, OutputBatch
<1>3. CASE NewBlock \/ UNCHANGED vars
  <2>1. UNCHANGED <<chain, n, txoa, txoaBatch, pc>>
    BY <1>3 DEF NewBlock, vars
  <2>2. Deletions' = Deletions /\ OutputBatch' = OutputBatch
    BY <2>1 DEF Deletions, FoundInputs, Found, OutputBatch
  <2> QED
    BY <2>1, <2>2 DEF BatchInv
<1>4. CASE OpenCreate \/ OpenUpdate \/ OpenTxoa \/ Begin \/ WriteTxoa \/ WriteBalance
           \/ SetLastBlock \/ Interrupt
  <2>1. pc' \notin {"txoa_in", "txoa_out"}
    BY <1>4 DEF OpenCreate, OpenUpdate, OpenTxoa, Begin, WriteTxoa, WriteBalance, SetLastBlock, Interrupt
  <2> QED
    BY <2>1 DEF BatchInv
<1> QED
  BY <1>1, <1>2, <1>3, <1>4 DEF Next, Step

\* Spent by some transaction, and so by one of more.
LEMMA SpentMore ==
  ASSUME NEW o, NEW k \in Int, NEW m \in Int, k <= m, SpentBy(o, k)
  PROVE  SpentBy(o, m)
BY DEF SpentBy

\* What the run has applied lies between the recorded blocks and the next one.
LEMMA DoneTypes ==
  ASSUME RunInv
  PROVE  /\ InDone \in Nat /\ OutDone \in Nat
         /\ Base <= InDone /\ InDone <= Limit /\ Base <= OutDone /\ OutDone <= InDone
<1>1. CASE pc \in InBlock
  BY <1>1, Marks DEF InDone, OutDone, InBlock
<1>2. CASE pc \notin InBlock
  BY <1>2, Marks DEF InDone, OutDone, InBlock
<1> QED
  BY <1>1, <1>2

\* A step that writes nothing, and after which no more is taken for applied.
LEMMA KeysKept ==
  ASSUME IInv, UNCHANGED <<chain, last, txoa>>,
         InDone' \in Nat, OutDone' \in Nat, InDone' <= InDone, OutDone' <= OutDone
  PROVE  TxoaInv'
<1>1. RunInv /\ TxoaInv
  BY DEF IInv
<1>2. KeysOf(chain)' = KeysOf(chain) /\ Base' = Base /\ Limit' = Limit
  BY DEF Base, Limit, LastBlock, FirstBlock
<1> SUFFICES ASSUME NEW o \in KeysOf(chain) PROVE KeyInv(o)'
  BY <1>2 DEF TxoaInv
<1>3. KeyInv(o) /\ Maker(o) \in Nat
  BY <1>1, KeyFacts, Marks DEF TxoaInv
<1>4. CoinOf(o)' = CoinOf(o) /\ Kept(o)' = Kept(o) /\ SpentBy(o, Limit)' = SpentBy(o, Limit)
  BY <1>2 DEF CoinOf, Kept, SpentBy
<1>5. SpentBy(o, InDone)' => SpentBy(o, InDone)
  <2>1. SpentBy(o, InDone)' => SpentBy(o, InDone')
    BY DEF SpentBy
  <2>2. SpentBy(o, InDone') => SpentBy(o, InDone)
    BY <1>1, DoneTypes, SpentMore
  <2> QED
    BY <2>1, <2>2
<1>6. Maker(o) <= OutDone' => Maker(o) <= OutDone
  BY <1>1, <1>3, DoneTypes
<1> QED
  BY <1>2, <1>3, <1>4, <1>5, <1>6 DEF KeyInv

\* The inputs of transaction n: what they name is deleted, or was gone already.
LEMMA KeysSpent ==
  ASSUME IInv, WriteTxoa, pc = "txoa_in"
  PROVE  TxoaInv'
<1>1. RunInv /\ TxoaInv /\ txoaBatch = Deletions
  BY DEF IInv, BatchInv
<1>2. /\ UNCHANGED <<chain, last, n>> /\ pc' = "bal_in"
      /\ txoa' = [o \in KeysOf(chain) |-> IF o \in DOMAIN Deletions THEN Deletions[o] ELSE txoa[o]]
  BY <1>1 DEF WriteTxoa, Written, nodeVars, runVars, RunInv
<1>3. KeysOf(chain)' = KeysOf(chain) /\ Base' = Base /\ Limit' = Limit
  BY <1>2 DEF Base, Limit, LastBlock, FirstBlock
<1>4. InDone = n - 1 /\ InDone' = n /\ OutDone = n - 1 /\ OutDone' = n - 1
  BY <1>2 DEF InDone, OutDone, InBlock
<1>5. n \in DOMAIN chain.tx /\ n \in Nat /\ n > 0 /\ n <= Limit /\ Limit \in Nat
  BY <1>1, Marks DEF InBlock
<1> SUFFICES ASSUME NEW o \in KeysOf(chain) PROVE KeyInv(o)'
  BY <1>3 DEF TxoaInv
<1>6. KeyInv(o)
  BY <1>1 DEF TxoaInv
<1>7. CoinOf(o)' = CoinOf(o) /\ Kept(o)' = Kept(o) /\ SpentBy(o, Limit)' = SpentBy(o, Limit)
      /\ (SpentBy(o, InDone)' <=> SpentBy(o, n))
  BY <1>2, <1>3, <1>4 DEF CoinOf, Kept, SpentBy
<1>8. o \in DOMAIN Deletions => txoa'[o] = Missing /\ o \in Inputs(chain, n)
  BY <1>2 DEF Deletions, Inputs, FoundInputs
<1>9. o \notin DOMAIN Deletions => txoa'[o] = txoa[o]
  BY <1>2
<1>10. o \in Inputs(chain, n) => txoa'[o] = Missing
  <2> SUFFICES ASSUME o \in Inputs(chain, n), o \notin DOMAIN Deletions PROVE txoa[o] = Missing
    BY <1>8, <1>9
  <2>1. PICK j \in DOMAIN chain.tx[n].ins : o = chain.tx[n].ins[j]
    BY DEF Inputs
  <2> QED
    BY <2>1 DEF Deletions, FoundInputs, Found
<1>11. SpentBy(o, n) => txoa'[o] = Missing
  <2> SUFFICES ASSUME NEW k \in 1 .. n, o \in Inputs(chain, k) PROVE txoa'[o] = Missing
    BY DEF SpentBy
  <2>1. CASE k = n
    BY <1>10, <2>1
  <2>2. CASE k # n
    <3>1. SpentBy(o, InDone)
      BY <1>4, <1>5, <2>2 DEF SpentBy
    <3> QED
      BY <1>6, <1>8, <1>9, <3>1 DEF KeyInv
  <2> QED
    BY <2>1, <2>2
<1>12. o \in Inputs(chain, n) => SpentBy(o, Limit)
  BY <1>5 DEF SpentBy
<1> QED
  BY <1>3, <1>4, <1>6, <1>7, <1>8, <1>9, <1>11, <1>12 DEF KeyInv

\* The batch of transaction n holds a record of each output the code stores.
LEMMA OutputRecords ==
  ASSUME RunInv, pc \in InBlock, NEW o \in KeysOf(chain)
  PROVE  /\ o \in DOMAIN OutputBatch <=> Maker(o) = n /\ Kept(o)
         /\ o \in DOMAIN OutputBatch => OutputBatch[o] = CoinOf(o)
<1>1. chain \in Chains /\ n \in DOMAIN chain.tx
  BY Marks
<1>2. ASSUME o \in DOMAIN OutputBatch
      PROVE  Maker(o) = n /\ Kept(o) /\ OutputBatch[o] = CoinOf(o)
  <2>1. PICK k \in TrackedOutputs(chain, n) : o = <<HashOf(chain, n), k[2]>>
    BY <1>2 DEF OutputBatch
  <2>2. k[2] \in DOMAIN chain.tx[n].outs /\ Tracked(chain.tx[n].outs[k[2]])
    BY <2>1 DEF TrackedOutputs
  <2>3. Maker(o) = n /\ CoinOf(o) = chain.tx[n].outs[k[2]] /\ HashOf(chain, Maker(o)) = o[1]
    BY <1>1, <2>1, <2>2, HashKey
  <2>4. OutputBatch[o] = chain.tx[n].outs[o[2]] /\ o[2] = k[2]
    BY <1>2, <2>1 DEF OutputBatch
  <2> QED
    BY <2>2, <2>3, <2>4 DEF Kept
<1>3. ASSUME Maker(o) = n, Kept(o) PROVE o \in DOMAIN OutputBatch
  <2>1. /\ o = <<o[1], o[2]>> /\ o[2] \in DOMAIN chain.tx[n].outs
    BY <1>1, <1>3, KeyFacts
  <2>2. o[1] = HashOf(chain, n) /\ Tracked(chain.tx[n].outs[o[2]])
    BY <1>3 DEF Kept, CoinOf, Coin
  <2>3. <<n, o[2]>> \in TrackedOutputs(chain, n)
    BY <2>1, <2>2 DEF TrackedOutputs
  <2> QED
    BY <2>1, <2>2, <2>3 DEF OutputBatch
<1> QED
  BY <1>2, <1>3

\* The outputs of transaction n: each gets its record, under a key that no
\* transaction so far has spent.
LEMMA KeysMade ==
  ASSUME IInv, WriteTxoa, pc = "txoa_out"
  PROVE  TxoaInv'
<1>1. RunInv /\ TxoaInv /\ txoaBatch = OutputBatch
  BY DEF IInv, BatchInv
<1>2. /\ UNCHANGED <<chain, last, n>> /\ pc' = "bal_out"
      /\ txoa' = [o \in KeysOf(chain) |-> IF o \in DOMAIN OutputBatch THEN OutputBatch[o] ELSE txoa[o]]
  BY <1>1 DEF WriteTxoa, Written, nodeVars, runVars, RunInv
<1>3. KeysOf(chain)' = KeysOf(chain) /\ Base' = Base /\ Limit' = Limit
  BY <1>2 DEF Base, Limit, LastBlock, FirstBlock
<1>4. InDone = n /\ InDone' = n /\ OutDone = n - 1 /\ OutDone' = n
  BY <1>2 DEF InDone, OutDone, InBlock
<1>5. /\ chain \in Chains /\ n \in DOMAIN chain.tx /\ n \in Nat /\ n > 0 /\ n <= Limit
      /\ Limit \in Nat /\ DOMAIN chain.tx = 1 .. Len(chain.tx) /\ Len(chain.tx) \in Nat
  BY <1>1, Marks DEF InBlock
<1> SUFFICES ASSUME NEW o \in KeysOf(chain) PROVE KeyInv(o)'
  BY <1>3 DEF TxoaInv
<1>6. KeyInv(o)
  BY <1>1 DEF TxoaInv
<1>7. CoinOf(o)' = CoinOf(o) /\ Kept(o)' = Kept(o) /\ SpentBy(o, Limit)' = SpentBy(o, Limit)
      /\ (SpentBy(o, InDone)' <=> SpentBy(o, n))
  BY <1>2, <1>3, <1>4 DEF CoinOf, Kept, SpentBy
<1>8. /\ o = <<o[1], o[2]>> /\ Maker(o) \in Nat
      /\ Maker(o) \in DOMAIN chain.tx /\ o[2] \in DOMAIN chain.tx[Maker(o)].outs
  BY <1>5, KeyFacts
<1>9. ASSUME o \in DOMAIN OutputBatch
      PROVE  Maker(o) = n /\ Kept(o) /\ txoa'[o] = CoinOf(o) /\ ~SpentBy(o, n)
  <2>1. Maker(o) = n /\ Kept(o) /\ OutputBatch[o] = CoinOf(o)
    BY <1>1, <1>9, OutputRecords DEF InBlock
  <2>2. ASSUME NEW m \in 1 .. n, o \in Inputs(chain, m) PROVE FALSE
    <3>1. m \in DOMAIN chain.tx
      BY <1>5
    <3>2. o[1] \in DOMAIN chain.tx /\ o[1] < m
      BY <1>5, <2>2, <3>1, Transactions
    <3>3. o[1] \in Nat /\ o[1] > 0 /\ o[1] < n
      BY <1>5, <3>2
    <3> QED
      BY <1>5, <2>1, <3>3 DEF Maker
  <2> QED
    BY <1>2, <1>9, <2>1, <2>2 DEF SpentBy
<1>10. o \notin DOMAIN OutputBatch => txoa'[o] = txoa[o]
  BY <1>2
<1>11. Maker(o) = n /\ Kept(o) => o \in DOMAIN OutputBatch
  BY <1>1, OutputRecords DEF InBlock
<1>12. CASE o \in DOMAIN OutputBatch
  <2>1. Maker(o) <= Limit
    BY <1>5, <1>9, <1>12
  <2> QED
    BY <1>3, <1>5, <1>7, <1>9, <1>12, <2>1 DEF KeyInv
<1>13. CASE o \notin DOMAIN OutputBatch
  <2>1. Kept(o) /\ Maker(o) <= n => Maker(o) <= n - 1
    BY <1>5, <1>8, <1>11, <1>13
  <2> QED
    BY <1>3, <1>4, <1>6, <1>7, <1>10, <1>13, <2>1 DEF KeyInv
<1> QED
  BY <1>12, <1>13

\* The block is recorded: the next one may spend more, and make more.
LEMMA KeysRecorded ==
  ASSUME IInv, SetLastBlock
  PROVE  TxoaInv'
<1>1. RunInv /\ TxoaInv
  BY DEF IInv
<1>2. pc = "set_last" /\ last' = b /\ UNCHANGED <<chain, txoa>>
  BY DEF SetLastBlock, nodeVars
<1>3. /\ chain \in Chains /\ b \in Nat /\ n = Limit /\ Limit = End(chain, b) /\ Limit \in Nat
      /\ b <= height /\ height <= Height(chain) /\ height \in Nat /\ Height(chain) \in Nat
      /\ target \in Nat /\ b <= target /\ target <= height
  BY <1>1, <1>2, Marks, Ends DEF InBlock, RunInv
<1>4. LastBlock' = b /\ FirstBlock' = b + 1 /\ Base' = Limit
  BY <1>2, <1>3, UpdateAssumption DEF LastBlock, FirstBlock, Base
<1>5. Limit' \in Nat /\ Limit <= Limit'
  <2>1. CASE b < Height(chain)
    <3>1. b + 1 \in 1 .. Height(chain) /\ b + 1 \in 0 .. Height(chain) /\ (b + 1) - 1 = b
      BY <1>3, <2>1
    <3>2. Limit' = End(chain, b + 1)
      BY <1>2, <1>4, <2>1 DEF Limit
    <3>3. End(chain, b) < End(chain, b + 1) /\ End(chain, b + 1) \in Nat
      BY <1>3, <3>1, Ends
    <3> QED
      BY <1>3, <3>2, <3>3
  <2>2. CASE ~(b < Height(chain))
    BY <1>2, <1>3, <1>4, <2>2 DEF Limit
  <2> QED
    BY <2>1, <2>2
<1>6. InDone = Limit /\ OutDone = Limit /\ InDone' = Limit /\ OutDone' = Limit
  <2>1. InDone = Limit /\ OutDone = Limit
    BY <1>2, <1>3 DEF InDone, OutDone, InBlock
  <2>2. CASE b = target
    <3>1. pc' = "idle"
      BY <2>2 DEF SetLastBlock
    <3> QED
      BY <1>4, <2>1, <3>1 DEF InDone, OutDone, InBlock
  <2>3. CASE b # target
    <3>1. pc' = "inputs" /\ n' = Limit + 1
      BY <1>3, <2>3 DEF SetLastBlock
    <3> QED
      BY <1>3, <2>1, <3>1 DEF InDone, OutDone, InBlock
  <2> QED
    BY <2>1, <2>2, <2>3
<1> SUFFICES ASSUME NEW o \in KeysOf(chain) PROVE KeyInv(o)'
  BY <1>2 DEF TxoaInv
<1>7. KeyInv(o) /\ Maker(o) \in Nat
  BY <1>1, KeyFacts, Marks DEF TxoaInv
<1>8. /\ CoinOf(o)' = CoinOf(o) /\ Kept(o)' = Kept(o)
      /\ (SpentBy(o, InDone)' <=> SpentBy(o, Limit)) /\ (SpentBy(o, Limit)' <=> SpentBy(o, Limit'))
  BY <1>2, <1>6 DEF CoinOf, Kept, SpentBy
<1>9. SpentBy(o, Limit) => SpentBy(o, Limit')
  BY <1>3, <1>5, SpentMore
<1>10. Maker(o) > Limit' => Maker(o) > Limit
  BY <1>3, <1>5, <1>7
<1> QED
  BY <1>2, <1>6, <1>7, <1>8, <1>9, <1>10 DEF KeyInv

LEMMA KeyStep == IInv /\ [Next]_vars => TxoaInv'
<1> SUFFICES ASSUME IInv, [Next]_vars PROVE TxoaInv'
  OBVIOUS
<1> USE DEF nodeVars, dbVars, runVars, batchVars, boundVars
<1>1. RunInv
  BY DEF IInv
<1>2. /\ Base \in Nat /\ InDone \in Nat /\ OutDone \in Nat
      /\ Base <= InDone /\ Base <= OutDone
      /\ pc \in InBlock => n \in Nat /\ n > Base
  BY <1>1, DoneTypes, Marks
\* Steps that leave their block, or never were in one.
<1>3. ASSUME UNCHANGED <<chain, last, txoa>>, pc' \notin InBlock PROVE TxoaInv'
  <2>1. InDone' = Base /\ OutDone' = Base
    BY <1>3 DEF InDone, OutDone, InBlock, Base, LastBlock
  <2> QED
    BY <1>2, <1>3, <2>1, KeysKept
<1>4. CASE NewBlock \/ UNCHANGED vars
  <2>1. UNCHANGED <<chain, last, txoa, pc, n>>
    BY <1>4 DEF NewBlock, vars
  <2>2. InDone' = InDone /\ OutDone' = OutDone
    BY <2>1 DEF InDone, OutDone, Base, LastBlock
  <2> QED
    BY <1>2, <2>1, <2>2, KeysKept
<1>5. CASE OpenCreate \/ OpenUpdate \/ OpenTxoa \/ Interrupt
  <2>1. UNCHANGED <<chain, last, txoa>> /\ pc' \in {"open_txoa", "begin", "idle"}
    BY <1>5 DEF OpenCreate, OpenUpdate, OpenTxoa, Interrupt
  <2> QED
    BY <1>3, <2>1 DEF InBlock
<1>6. CASE Begin
  <2>1. CASE HasBlocks
    <3>1. /\ UNCHANGED <<chain, last, txoa>> /\ pc = "begin" /\ pc' = "inputs"
          /\ n' = End(chain, FirstBlock - 1) + 1
      BY <1>6, <2>1 DEF Begin
    <3>2. n' = Base + 1
      BY <1>1, <3>1, Marks DEF Base
    <3>3. InDone' = Base /\ OutDone' = Base
      BY <1>2, <3>1, <3>2 DEF InDone, OutDone, InBlock
    <3> QED
      BY <1>2, <3>1, <3>3, KeysKept
  <2>2. CASE ~HasBlocks
    BY <1>3, <1>6, <2>2 DEF Begin, InBlock
  <2> QED
    BY <2>1, <2>2
<1>7. CASE ReadInputs \/ ReadOutputs
  <2>1. /\ UNCHANGED <<chain, last, txoa, n>>
        /\ \/ pc = "inputs" /\ pc' = "txoa_in"
           \/ pc = "outputs" /\ pc' = "txoa_out"
    BY <1>7 DEF ReadInputs, ReadOutputs
  <2>2. InDone' = InDone /\ OutDone' = OutDone
    BY <2>1 DEF InDone, OutDone, InBlock
  <2> QED
    BY <1>2, <2>1, <2>2, KeysKept
<1>8. CASE WriteTxoa
  BY <1>8, KeysSpent, KeysMade DEF WriteTxoa
<1>9. CASE WriteBalance
  <2>1. /\ UNCHANGED <<chain, last, txoa>>
        /\ \/ pc = "bal_in" /\ pc' = "outputs" /\ n' = n
           \/ pc = "bal_out" /\ pc' = "inputs" /\ n' = n + 1
           \/ pc = "bal_out" /\ pc' = "set_last" /\ n' = n
    BY <1>9 DEF WriteBalance
  <2>2. InDone' = InDone /\ OutDone' = OutDone
    BY <1>2, <2>1 DEF InDone, OutDone, InBlock
  <2> QED
    BY <1>2, <2>1, <2>2, KeysKept
<1>10. CASE SetLastBlock
  BY <1>10, KeysRecorded
<1> QED
  BY <1>4, <1>5, <1>6, <1>7, <1>8, <1>9, <1>10 DEF Next, Step

-----------------------------------------------------------------------------
(* Sums of coins.  Each lemma is an induction over finite sets, carried    *)
(* out on a smallest counterexample.                                       *)

\* What a set of coins amounts to: the sum of which Balance is a case.
AmountOf(c, S) == MapThenSumSet(LAMBDA o : Coin(c, o).amt, S)

AmountsNat(c, S) == IsFiniteSet(S) /\ \A o \in S : Coin(c, o).amt \in Nat

\* The function of all subsets of S by which that sum is defined.
PickCoin(S) == CHOOSE o \in S : TRUE

IsSum(c, S, f) ==
  f = [T \in SUBSET S |->
         IF T = {} THEN 0 ELSE Coin(c, PickCoin(T)).amt + f[T \ {PickCoin(T)}]]

SumOf(c, S) == CHOOSE f : IsSum(c, S, f)

\* Among subsets of a finite set there is one with no smaller one: induction.
LEMMA SmallestSet ==
  ASSUME NEW S, IsFiniteSet(S), NEW F, F \subseteq SUBSET S, F # {}
  PROVE  \E T \in F : \A U \in F : U \subseteq T => U = T
<1>1. F \subseteq FiniteSubsetsOf(S)
  BY FS_Subset DEF FiniteSubsetsOf
<1>2. PICK T \in F : \A U \in F : ~(<<U, T>> \in StrictSubsetOrdering(S))
  BY <1>1, FS_StrictSubsetOrderingWellFounded, WFMin
<1> QED
  BY <1>1, <1>2 DEF StrictSubsetOrdering

LEMMA AmountIsSum ==
  ASSUME NEW c, NEW S
  PROVE  AmountOf(c, S) = SumOf(c, S)[S]
BY DEF AmountOf, MapThenSumSet, MapThenFoldSet, SumOf, IsSum, PickCoin

LEMMA SumStep ==
  ASSUME NEW c, NEW S, NEW f, IsSum(c, S, f), NEW T \in SUBSET S
  PROVE  /\ T = {} => f[T] = 0
         /\ T # {} => /\ PickCoin(T) \in T
                      /\ f[T] = Coin(c, PickCoin(T)).amt + f[T \ {PickCoin(T)}]
<1>1. T # {} => PickCoin(T) \in T
  BY DEF PickCoin
<1>2. f[T] = IF T = {} THEN 0 ELSE Coin(c, PickCoin(T)).amt + f[T \ {PickCoin(T)}]
  BY DEF IsSum
<1> QED
  BY <1>1, <1>2

\* It does not matter of which set the subsets are taken.
LEMMA SumsAgree ==
  ASSUME NEW c, NEW S, NEW f, IsSum(c, S, f), NEW R, NEW g, IsSum(c, R, g),
         NEW T, IsFiniteSet(T), T \subseteq S, T \subseteq R
  PROVE  f[T] = g[T]
<1> DEFINE F == {U \in SUBSET T : f[U] # g[U]}
<1> SUFFICES ASSUME F # {} PROVE FALSE
  OBVIOUS
<1> HIDE DEF F
<1>0. F \subseteq SUBSET T
  BY DEF F
<1>1. PICK U \in F : \A V \in F : V \subseteq U => V = U
  BY <1>0, SmallestSet
<1>2. U \in SUBSET S /\ U \in SUBSET R /\ U \in SUBSET T /\ f[U] # g[U]
  BY DEF F
<1>3. U # {}
  BY <1>2, SumStep
<1>4. PickCoin(U) \in U /\ U \ {PickCoin(U)} \notin F
  BY <1>1, <1>2, <1>3, SumStep
<1>5. f[U \ {PickCoin(U)}] = g[U \ {PickCoin(U)}]
  BY <1>2, <1>4 DEF F
<1>6. f[U] = Coin(c, PickCoin(U)).amt + f[U \ {PickCoin(U)}]
  <2>1. U \in SUBSET S
    BY <1>2
  <2> QED
    BY <1>3, <2>1, SumStep
<1>7. g[U] = Coin(c, PickCoin(U)).amt + g[U \ {PickCoin(U)}]
  <2>1. U \in SUBSET R
    BY <1>2
  <2> QED
    BY <1>3, <2>1, SumStep
<1> QED
  BY <1>2, <1>5, <1>6, <1>7

\* There is such a function.
LEMMA SumExists ==
  ASSUME NEW c, NEW S, IsFiniteSet(S)
  PROVE  IsSum(c, S, SumOf(c, S))
<1> DEFINE F == {T \in SUBSET S : ~ \E f : IsSum(c, T, f)}
<1> SUFFICES ASSUME F # {} PROVE FALSE
  BY DEF SumOf
<1> HIDE DEF F
<1>0. F \subseteq SUBSET S
  BY DEF F
<1>1. PICK T \in F : \A U \in F : U \subseteq T => U = T
  BY <1>0, SmallestSet
<1>2. T \in SUBSET S /\ ~ \E f : IsSum(c, T, f)
  BY DEF F
<1>3. ASSUME NEW U \in SUBSET T, U # T
      PROVE  IsSum(c, U, SumOf(c, U))
  <2>1. U \notin F
    BY <1>1, <1>3
  <2>2. \E f : IsSum(c, U, f)
    BY <1>2, <2>1 DEF F
  <2> QED
    BY <2>2 DEF SumOf
<1> DEFINE g == [U \in SUBSET T |->
                   IF U = {} THEN 0
                   ELSE Coin(c, PickCoin(U)).amt
                          + SumOf(c, U \ {PickCoin(U)})[U \ {PickCoin(U)}]]
<1>4. ASSUME NEW U \in SUBSET T, U # T
      PROVE  g[U] = SumOf(c, U)[U]
  <2>1. IsSum(c, U, SumOf(c, U))
    BY <1>3, <1>4
  <2>2. CASE U = {}
    BY <2>1, <2>2, SumStep
  <2>3. CASE U # {}
    <3> DEFINE V == U \ {PickCoin(U)}
    <3>1. PickCoin(U) \in U /\ SumOf(c, U)[U] = Coin(c, PickCoin(U)).amt + SumOf(c, U)[V]
      BY <2>1, <2>3, SumStep
    <3>2. V \in SUBSET T /\ V # T /\ V \subseteq U /\ IsFiniteSet(V)
      BY <1>2, <3>1, FS_Subset
    <3>3. IsSum(c, V, SumOf(c, V))
      BY <1>3, <3>2
    <3>4. SumOf(c, U)[V] = SumOf(c, V)[V]
      BY <2>1, <3>2, <3>3, SumsAgree
    <3> QED
      BY <2>3, <3>1, <3>4
  <2> QED
    BY <2>2, <2>3
<1>5. ASSUME NEW U \in SUBSET T, U # {}
      PROVE  g[U] = Coin(c, PickCoin(U)).amt + g[U \ {PickCoin(U)}]
  <2> DEFINE V == U \ {PickCoin(U)}
  <2>1. PickCoin(U) \in U
    BY <1>5 DEF PickCoin
  <2>2. V \in SUBSET T /\ V # T
    BY <2>1
  <2>3. g[V] = SumOf(c, V)[V]
    BY <1>4, <2>2
  <2>4. g[U] = Coin(c, PickCoin(U)).amt + SumOf(c, V)[V]
    BY <1>5
  <2> QED
    BY <2>3, <2>4
<1>6. g = [U \in SUBSET T |-> IF U = {} THEN 0 ELSE Coin(c, PickCoin(U)).amt + g[U \ {PickCoin(U)}]]
  <2>1. \A U \in SUBSET T : g[U] = IF U = {} THEN 0 ELSE Coin(c, PickCoin(U)).amt + g[U \ {PickCoin(U)}]
    BY <1>5
  <2>2. g = [U \in SUBSET T |-> g[U]]
    OBVIOUS
  <2> HIDE DEF g
  <2> QED
    BY <2>1, <2>2
<1> HIDE DEF g
<1> QED
  BY <1>2, <1>6 DEF IsSum

\* The sum, coin by coin: no coins amount to nothing, and the one that is taken
\* first does not matter.
LEMMA AmountFirst ==
  ASSUME NEW c, NEW S, IsFiniteSet(S)
  PROVE  /\ S = {} => AmountOf(c, S) = 0
         /\ S # {} => /\ PickCoin(S) \in S
                      /\ AmountOf(c, S) = Coin(c, PickCoin(S)).amt + AmountOf(c, S \ {PickCoin(S)})
<1> DEFINE R == S \ {PickCoin(S)}
<1>1. IsSum(c, S, SumOf(c, S)) /\ IsSum(c, R, SumOf(c, R)) /\ IsFiniteSet(R)
  BY SumExists, FS_Subset
<1>2. SumOf(c, S)[R] = SumOf(c, R)[R]
  BY <1>1, SumsAgree
<1> HIDE DEF R
<1>3. AmountOf(c, S) = SumOf(c, S)[S] /\ AmountOf(c, R) = SumOf(c, R)[R]
  BY AmountIsSum
<1>4. /\ S = {} => SumOf(c, S)[S] = 0
      /\ S # {} => /\ PickCoin(S) \in S
                   /\ SumOf(c, S)[S] = Coin(c, PickCoin(S)).amt + SumOf(c, S)[R]
  BY <1>1, SumStep DEF R
<1> QED
  BY <1>2, <1>3, <1>4 DEF R

LEMMA AmountType ==
  ASSUME NEW c, NEW S, AmountsNat(c, S)
  PROVE  AmountOf(c, S) \in Nat
<1> DEFINE F == {T \in SUBSET S : AmountOf(c, T) \notin Nat}
<1> SUFFICES ASSUME F # {} PROVE FALSE
  OBVIOUS
<1> HIDE DEF F
<1>0. F \subseteq SUBSET S /\ IsFiniteSet(S)
  BY DEF F, AmountsNat
<1>1. PICK T \in F : \A U \in F : U \subseteq T => U = T
  BY <1>0, SmallestSet
<1>2. T \in SUBSET S /\ AmountOf(c, T) \notin Nat /\ IsFiniteSet(T)
  BY FS_Subset DEF F, AmountsNat
<1>3. T # {}
  <2>1. T = {} => AmountOf(c, T) = 0
    BY <1>2, AmountFirst
  <2> QED
    BY <1>2, <2>1
<1>4. /\ PickCoin(T) \in T
      /\ AmountOf(c, T) = Coin(c, PickCoin(T)).amt + AmountOf(c, T \ {PickCoin(T)})
  BY <1>2, <1>3, AmountFirst
<1>5. AmountOf(c, T \ {PickCoin(T)}) \in Nat
  BY <1>1, <1>2, <1>4 DEF F
<1>6. Coin(c, PickCoin(T)).amt \in Nat
  BY <1>2, <1>4 DEF AmountsNat
<1> QED
  BY <1>2, <1>4, <1>5, <1>6

LEMMA AmountWithout ==
  ASSUME NEW c, NEW S, AmountsNat(c, S), NEW o \in S
  PROVE  /\ AmountOf(c, S) = Coin(c, o).amt + AmountOf(c, S \ {o})
         /\ AmountOf(c, S \ {o}) \in Nat
<1> DEFINE F == {T \in SUBSET S : \E x \in T : AmountOf(c, T) # Coin(c, x).amt + AmountOf(c, T \ {x})}
<1>1. AmountOf(c, S \ {o}) \in Nat
  BY AmountType, FS_Subset DEF AmountsNat
<1> SUFFICES ASSUME F # {} PROVE FALSE
  BY <1>1
<1> HIDE DEF F
<1>0. F \subseteq SUBSET S /\ IsFiniteSet(S)
  BY DEF F, AmountsNat
<1>2. PICK T \in F : \A U \in F : U \subseteq T => U = T
  BY <1>0, SmallestSet
<1>3. PICK x \in T : T \in SUBSET S /\ AmountOf(c, T) # Coin(c, x).amt + AmountOf(c, T \ {x})
  BY DEF F
<1> DEFINE y == PickCoin(T)
<1>4. y \in T /\ AmountOf(c, T) = Coin(c, y).amt + AmountOf(c, T \ {y})
  BY <1>3, AmountFirst, FS_Subset DEF AmountsNat
<1> HIDE DEF y
<1>5. x # y
  BY <1>3, <1>4
<1>6. T \ {x} \in SUBSET S /\ T \ {y} \in SUBSET S /\ T \ {x} \notin F /\ T \ {y} \notin F
  BY <1>2, <1>3, <1>4
<1>7. /\ AmountOf(c, T \ {x}) = Coin(c, y).amt + AmountOf(c, (T \ {x}) \ {y})
      /\ AmountOf(c, T \ {y}) = Coin(c, x).amt + AmountOf(c, (T \ {y}) \ {x})
  BY <1>4, <1>5, <1>6 DEF F
<1> DEFINE U == (T \ {x}) \ {y}
<1>8. U = (T \ {y}) \ {x} /\ U \in SUBSET S
  BY <1>3
<1>9. Coin(c, x).amt \in Nat /\ Coin(c, y).amt \in Nat
  BY <1>3, <1>4 DEF AmountsNat
<1>10. AmountOf(c, U) \in Nat
  BY <1>8, AmountType, FS_Subset DEF AmountsNat
<1>11. /\ AmountOf(c, T) = Coin(c, y).amt + (Coin(c, x).amt + AmountOf(c, U))
       /\ AmountOf(c, T \ {x}) = Coin(c, y).amt + AmountOf(c, U)
  BY <1>4, <1>7, <1>8
<1> HIDE DEF U
<1> QED
  BY <1>3, <1>9, <1>10, <1>11

-----------------------------------------------------------------------------
(* The balances.                                                           *)

\* Up to which transaction the inputs are taken off the balances, and up to
\* which the outputs are added to them.
TakenOff == IF pc \in {"inputs", "txoa_in", "bal_in"} THEN n - 1
            ELSE IF pc \in InBlock THEN n ELSE Base

Added == IF pc = "set_last" THEN n ELSE IF pc \in InBlock THEN n - 1 ELSE Base

\* The coins of a that are made by transaction m and not spent by transaction k.
MadeUpTo(c, m)  == UNION {TrackedOutputs(c, t) : t \in 1 .. m}
SpentUpTo(c, k) == UNION {Inputs(c, t) : t \in 1 .. k}

Coins(c, a, k, m) == {o \in MadeUpTo(c, m) \ SpentUpTo(c, k) : Coin(c, o).addr = a}

Record(c, a, k, m) ==
  IF AmountOf(c, Coins(c, a, k, m)) = 0 THEN Missing ELSE AmountOf(c, Coins(c, a, k, m))

\* The addresses that nothing has happened to, up to transaction m, that
\* BalanceExactElsewhere excepts.
Clean(m) == Addr \ (torn \cup Repeated(chain, m) \cup Untraced(chain, m))

\* What the batch makes of a record.
After(a) == IF a \in DOMAIN balBatch THEN balBatch[a] ELSE bal[a]

(***************************************************************************)
(* What TxoaInv leaves open: the coins that are made after transaction s,  *)
(* for an address that no interruption has touched, are all on record      *)
(* until they are spent.                                                   *)
(***************************************************************************)
FreshFrom(s) ==
  \A o \in KeysOf(chain) :
    /\ CoinOf(o).addr \notin torn
    /\ Kept(o) /\ Maker(o) > s /\ Maker(o) <= OutDone /\ ~SpentBy(o, InDone)
    => txoa[o] = CoinOf(o)

FreshInv == FreshFrom(0)

\* Within a transaction the balances are those between its inputs and outputs.
BalanceInv ==
  /\ bal = [a \in Addr |-> bal[a]]
  /\ \A a \in Clean(TakenOff) : bal[a] = Record(chain, a, TakenOff, Added)
  /\ pc \in {"txoa_in", "bal_in"} => \A a \in Clean(n) : After(a) = Record(chain, a, n, n - 1)
  /\ pc \in {"txoa_out", "bal_out"} => \A a \in Clean(n) : After(a) = Record(chain, a, n, n)

BInv == IInv /\ FreshInv /\ BalanceInv

\* An address that is clean after more transactions is clean after fewer.
LEMMA CleanLess ==
  ASSUME NEW k \in Int, NEW m \in Int, k <= m
  PROVE  Clean(m) \subseteq Clean(k)
<1>1. 1 .. k \subseteq 1 .. m
  OBVIOUS
<1>2. Repeated(chain, k) \subseteq Repeated(chain, m)
  BY <1>1 DEF Repeated
<1>3. Untraced(chain, k) \subseteq Untraced(chain, m)
  BY <1>1 DEF Untraced
<1> QED
  BY <1>2, <1>3 DEF Clean

\* A finite set of numbers has its maximum.
LEMMA MaxIn ==
  ASSUME NEW S, S \subseteq Nat, IsFiniteSet(S), S # {}
  PROVE  Max(S) \in S
<1> DEFINE Greater(x) == {y \in S : y > x}
           F == {Greater(x) : x \in S}
<1> HIDE DEF F, Greater
<1>1. F \subseteq SUBSET S
  BY DEF F, Greater
<1>2. F # {}
  BY DEF F
<1>3. PICK T \in F : \A U \in F : U \subseteq T => U = T
  <2>1. \E T \in F : \A U \in F : U \subseteq T => U = T
    <3>1. IsFiniteSet(S)
      OBVIOUS
    <3> QED
      BY ONLY <1>1, <1>2, <3>1, SmallestSet
  <2> QED
    BY <2>1
<1>4. PICK x \in S : T = Greater(x)
  BY <1>3 DEF F
<1>5. ASSUME NEW y \in S, y > x PROVE FALSE
  <2> USE DEF Greater
  <2>1. Greater(y) \in F
    BY DEF F
  <2>2. \A z \in S : z > y => z > x
    BY <1>5
  <2>3. Greater(y) \subseteq T /\ y \in T
    BY <1>4, <1>5, <2>2
  <2>4. y \notin Greater(y)
    BY <1>5
  <2> HIDE DEF Greater
  <2> QED
    BY <1>3, <2>1, <2>3, <2>4
<1>6. \A y \in S : x >= y
  BY <1>5
<1> QED
  BY <1>6 DEF Max

\* What an input names is a key, and the coin it names is that key's.
LEMMA InputKey ==
  ASSUME chain \in Chains, NEW k \in DOMAIN chain.tx, NEW o \in Inputs(chain, k)
  PROVE  /\ o = <<o[1], o[2]>> /\ o[1] \in Nat /\ 0 < o[1] /\ o[1] < k
         /\ o[1] \in DOMAIN chain.tx /\ o[2] \in DOMAIN chain.tx[o[1]].outs
         /\ o \in KeysOf(chain) /\ Maker(o) = o[1] /\ CoinOf(o) = Coin(chain, o)
<1>1. /\ o = <<o[1], o[2]>> /\ o[1] \in DOMAIN chain.tx /\ o[1] < k
      /\ o[2] \in DOMAIN chain.tx[o[1]].outs
  BY Transactions
<1>2. o[1] \in Nat /\ 0 < o[1]
  BY <1>1, Transactions
<1>3. Maker(o) = o[1]
  BY <1>2 DEF Maker
<1>4. CoinOf(o) = Coin(chain, o)
  BY <1>3 DEF CoinOf, Coin
<1>5. o \in KeysOf(chain)
  BY <1>1 DEF KeysOf
<1> QED
  BY <1>1, <1>2, <1>3, <1>4, <1>5

\* Outputs and their coins.
LEMMA Outputs ==
  ASSUME NEW c \in Chains, NEW k \in DOMAIN c.tx
  PROVE  /\ IsFiniteSet(TrackedOutputs(c, k))
         /\ IsFiniteSet(DOMAIN c.tx[k].outs) /\ DOMAIN c.tx[k].outs \subseteq Nat
         /\ IsFiniteSet(DOMAIN c.tx[k].ins) /\ DOMAIN c.tx[k].ins \subseteq Nat
         /\ \A j \in DOMAIN c.tx[k].outs :
              /\ c.tx[k].outs[j] \in [addr : Addr \cup {NoAddress}, amt : Nat]
              /\ c.tx[k].outs[j].amt \in Nat
         /\ \A o \in TrackedOutputs(c, k) :
              /\ o = <<k, o[2]>> /\ o[2] \in DOMAIN c.tx[k].outs
              /\ Coin(c, o) \in [addr : Addr \cup {NoAddress}, amt : Nat]
              /\ Tracked(Coin(c, o)) /\ Coin(c, o).amt \in Nat /\ Coin(c, o).amt > 0
<1> DEFINE Out == [addr : Addr \cup {NoAddress}, amt : Nat]
<1>1. c.tx \in Seq([ins : Seq(Nat \X Nat), outs : Seq(Out), segwit : BOOLEAN])
  BY UpdateAssumption DEF WellFormed
<1>2. k \in 1 .. Len(c.tx)
  BY <1>1
<1>3. c.tx[k] \in [ins : Seq(Nat \X Nat), outs : Seq(Out), segwit : BOOLEAN]
  BY <1>1, <1>2, ElementOfSeq
<1>4. c.tx[k].outs \in Seq(Out) /\ c.tx[k].ins \in Seq(Nat \X Nat)
  BY <1>3
<1> DEFINE D == DOMAIN c.tx[k].outs
           E == DOMAIN c.tx[k].ins
<1>5. D = 1 .. Len(c.tx[k].outs) /\ Len(c.tx[k].outs) \in Nat
  BY <1>4
<1>6. E = 1 .. Len(c.tx[k].ins) /\ Len(c.tx[k].ins) \in Nat
  BY <1>4
<1>7. IsFiniteSet(D) /\ D \subseteq Nat
  BY <1>5, FS_Interval
<1>8. IsFiniteSet(E) /\ E \subseteq Nat
  BY <1>6, FS_Interval
<1>9. ASSUME NEW j \in D PROVE c.tx[k].outs[j] \in Out /\ c.tx[k].outs[j].amt \in Nat
  <2>1. c.tx[k].outs[j] \in Out
    BY <1>4, <1>5, <1>9, ElementOfSeq
  <2> QED
    BY <2>1
<1>10. ASSUME NEW o \in TrackedOutputs(c, k)
       PROVE  /\ o = <<k, o[2]>> /\ o[2] \in D
              /\ Coin(c, o) \in Out
              /\ Tracked(Coin(c, o)) /\ Coin(c, o).amt \in Nat /\ Coin(c, o).amt > 0
  <2>1. o = <<k, o[2]>> /\ o[2] \in D /\ Tracked(c.tx[k].outs[o[2]])
    BY <1>10 DEF TrackedOutputs
  <2>2. Coin(c, o) = c.tx[k].outs[o[2]]
    BY <2>1 DEF Coin
  <2> QED
    BY <1>9, <2>1, <2>2 DEF Tracked
<1>11. IsFiniteSet(TrackedOutputs(c, k))
  <2>1. TrackedOutputs(c, k) \in SUBSET ({k} \X D)
    BY DEF TrackedOutputs
  <2>2. IsFiniteSet({k} \X D)
    BY <1>7, FS_Singleton, FS_Product
  <2> QED
    BY <2>1, <2>2, FS_Subset
<1> QED
  BY <1>7, <1>8, <1>9, <1>10, <1>11

\* The coins of an address can be added up.
LEMMA CoinsNat ==
  ASSUME NEW c \in Chains, NEW a, NEW k, NEW m \in Nat, m <= Len(c.tx)
  PROVE  AmountsNat(c, Coins(c, a, k, m))
<1> DEFINE T(t) == TrackedOutputs(c, t)
           All == {T(t) : t \in 1 .. m}
<1>1. \A t \in 1 .. m : t \in DOMAIN c.tx
  <2>1. Len(c.tx) \in Nat /\ DOMAIN c.tx = 1 .. Len(c.tx)
    BY UpdateAssumption DEF WellFormed
  <2> QED
    BY <2>1
<1>2. IsFiniteSet(All)
  <2> DEFINE f == [t \in 1 .. m |-> T(t)]
  <2>1. f \in Surjection(1 .. m, All)
    BY DEF Surjection
  <2> QED
    BY <2>1, FS_Interval, FS_Surjection
<1>3. \A S \in All : IsFiniteSet(S)
  BY <1>1, Outputs
<1>4. IsFiniteSet(UNION All)
  BY <1>2, <1>3, FS_UNION
<1>5. Coins(c, a, k, m) \in SUBSET UNION All
  BY DEF Coins, MadeUpTo
<1>6. \A o \in UNION All : Coin(c, o).amt \in Nat
  BY <1>1, Outputs
<1> QED
  BY <1>4, <1>5, <1>6, FS_Subset DEF AmountsNat

\* Taking off the inputs of a transaction leaves fewer coins.
LEMMA CoinsSpent ==
  ASSUME NEW c \in Chains, NEW a, NEW m \in Nat, m > 0
  PROVE  Coins(c, a, m, m - 1) = Coins(c, a, m - 1, m - 1) \ Inputs(c, m)
<1>1. SpentUpTo(c, m) = SpentUpTo(c, m - 1) \cup Inputs(c, m)
  <2>1. 1 .. m = (1 .. (m - 1)) \cup {m}
    OBVIOUS
  <2> QED
    BY <2>1 DEF SpentUpTo
<1> QED
  BY <1>1 DEF Coins

\* Adding its outputs adds those of the address; nothing has spent them yet.
LEMMA CoinsMade ==
  ASSUME NEW c \in Chains, NEW a, NEW m \in DOMAIN c.tx
  PROVE  /\ Coins(c, a, m, m) = Coins(c, a, m, m - 1) \cup {o \in TrackedOutputs(c, m) : Coin(c, o).addr = a}
         /\ \A o \in TrackedOutputs(c, m) : o \notin Coins(c, a, m, m - 1)
<1>0. m \in Nat /\ m > 0 /\ DOMAIN c.tx = 1 .. Len(c.tx) /\ Len(c.tx) \in Nat
  BY Transactions
<1>1. MadeUpTo(c, m) = MadeUpTo(c, m - 1) \cup TrackedOutputs(c, m)
  <2>1. 1 .. m = (1 .. (m - 1)) \cup {m}
    BY <1>0
  <2> QED
    BY <2>1 DEF MadeUpTo
<1>2. ASSUME NEW o \in TrackedOutputs(c, m), NEW t \in 1 .. m, o \in Inputs(c, t) PROVE FALSE
  <2>1. o[1] = m
    BY Outputs
  <2>2. o[1] < t /\ t <= m
    BY <1>0, <1>2, Transactions
  <2> QED
    BY <1>0, <2>1, <2>2
<1>3. ASSUME NEW o \in TrackedOutputs(c, m), NEW t \in 1 .. (m - 1), o \in TrackedOutputs(c, t) PROVE FALSE
  <2>1. t \in DOMAIN c.tx
    BY <1>0
  <2>2. o[1] = m /\ o[1] = t
    BY <1>3, <2>1, Outputs
  <2> QED
    BY <1>0, <2>2
<1>4. \A o \in TrackedOutputs(c, m) : o \notin SpentUpTo(c, m) /\ o \notin MadeUpTo(c, m - 1)
  BY <1>2, <1>3 DEF SpentUpTo, MadeUpTo
<1> QED
  BY <1>1, <1>4 DEF Coins

\* Where a run stands when it reads what a transaction spends or makes.
LEMMA AtTransaction ==
  ASSUME RunInv, pc \in InBlock
  PROVE  /\ chain \in Chains /\ n \in Nat /\ n > 0 /\ n \in DOMAIN chain.tx /\ n <= Len(chain.tx)
         /\ DOMAIN chain.tx = 1 .. Len(chain.tx) /\ Len(chain.tx) \in Nat
         /\ \A a \in Clean(n) : a \in Clean(n - 1) /\ a \in Addr /\ a \notin torn
<1>2. /\ chain \in Chains /\ n \in Nat /\ n > 0 /\ n \in DOMAIN chain.tx /\ n <= Len(chain.tx)
      /\ DOMAIN chain.tx = 1 .. Len(chain.tx) /\ Len(chain.tx) \in Nat
  BY Marks
<1>3. Clean(n) \subseteq Clean(n - 1)
  BY <1>2, CleanLess
<1> QED
  BY <1>2, <1>3 DEF Clean

\* A coin that is on record and that an input names is taken off the balance.
LEMMA CoinDebited ==
  ASSUME chain \in Chains, NEW t \in DOMAIN chain.tx, NEW x \in TrackedOutputs(chain, t),
         x \in Inputs(chain, n), txoa[x] = Coin(chain, x)
  PROVE  \E j \in Debits(Coin(chain, x).addr) : chain.tx[n].ins[j] = x
<1>1. PICK j \in DOMAIN chain.tx[n].ins : chain.tx[n].ins[j] = x
  BY DEF Inputs
<1>2. /\ Coin(chain, x) \in [addr : Addr \cup {NoAddress}, amt : Nat]
  BY Outputs
<1>3. Coin(chain, x) # Missing /\ Coin(chain, x).amt # NoAmount
  BY <1>2, UpdateAssumption
<1> QED
  BY <1>1, <1>3 DEF Debits, FoundInputs, Found

(***************************************************************************)
(* What the inputs of a transaction take off the balance of an address     *)
(* that has the coins S: the one coin of S that they spend, if any.        *)
(***************************************************************************)
LEMMA Deducted ==
  ASSUME chain \in Chains, n \in DOMAIN chain.tx, NEW a, NEW S, AmountsNat(chain, S),
         Stored(a) = AmountOf(chain, S),
         \A j \in Debits(a) : /\ chain.tx[n].ins[j] \in S
                              /\ Found(j) = Coin(chain, chain.tx[n].ins[j]),
         \A x \in S \cap Inputs(chain, n) : \E j \in Debits(a) : chain.tx[n].ins[j] = x,
         \A x, y \in S \cap Inputs(chain, n) : x = y
  PROVE  LET after == IF Debits(a) # {} THEN Debited(a) ELSE bal[a]
             left  == AmountOf(chain, S \ Inputs(chain, n))
         IN  /\ (IF after = Missing THEN 0 ELSE after) = left
             /\ bal[a] = (IF AmountOf(chain, S) = 0 THEN Missing ELSE AmountOf(chain, S))
                  => after = IF left = 0 THEN Missing ELSE left
<1> DEFINE D == S \cap Inputs(chain, n)
           left == AmountOf(chain, S \ Inputs(chain, n))
<1>1. ASSUME NEW j \in Debits(a) PROVE chain.tx[n].ins[j] \in D
  <2>1. j \in DOMAIN chain.tx[n].ins
    BY DEF Debits, FoundInputs
  <2> QED
    BY <2>1 DEF Inputs
<1>2. CASE D = {}
  <2>1. Debits(a) = {} /\ S \ Inputs(chain, n) = S
    BY <1>1, <1>2
  <2> QED
    BY <2>1 DEF Stored
<1>3. CASE D # {}
  <2>1. PICK x \in D : TRUE
    BY <1>3
  <2>2. x \in S /\ S \ Inputs(chain, n) = S \ {x}
    BY <2>1
  <2>3. Debits(a) # {}
    BY <2>1
  <2>4. Max(Debits(a)) \in Debits(a)
    <3>1. Debits(a) \subseteq DOMAIN chain.tx[n].ins
      BY DEF Debits, FoundInputs
    <3>2. Debits(a) \subseteq Nat /\ IsFiniteSet(Debits(a))
      BY <3>1, Outputs, FS_Subset
    <3> QED
      BY <2>3, <3>2, MaxIn
  <2>5. Found(Max(Debits(a))) = Coin(chain, x)
    BY <1>1, <2>1, <2>4
  <2> DEFINE amount == Coin(chain, x).amt
  <2>6. AmountOf(chain, S) = amount + left /\ left \in Nat /\ amount \in Nat
    BY <2>2, AmountWithout DEF AmountsNat
  <2>7. Debited(a) = IF Stored(a) > amount THEN Stored(a) - amount ELSE Missing
    BY <2>5 DEF Debited
  <2> HIDE DEF amount, left
  <2>8. Stored(a) = amount + left
    BY <2>6
  <2>9. Debited(a) = IF left = 0 THEN Missing ELSE left
    BY <2>6, <2>7, <2>8
  <2> QED
    BY <2>3, <2>6, <2>9, UpdateAssumption DEF left
<1> QED
  BY <1>2, <1>3

\* A coin that the inputs are found to spend is one that the chain made, and
\* that nothing has spent.
LEMMA InputsDeducted ==
  ASSUME BInv, pc = "inputs", NEW a \in Clean(n)
  PROVE  (IF Debits(a) # {} THEN Debited(a) ELSE bal[a]) = Record(chain, a, n, n - 1)
<1> DEFINE S == Coins(chain, a, n - 1, n - 1)
           o(j) == chain.tx[n].ins[j]
<1>1. /\ chain \in Chains /\ n \in Nat /\ n > 0 /\ n \in DOMAIN chain.tx /\ n <= Len(chain.tx)
      /\ DOMAIN chain.tx = 1 .. Len(chain.tx) /\ Len(chain.tx) \in Nat
      /\ a \in Clean(n - 1) /\ a \in Addr /\ a \notin torn
  BY AtTransaction DEF BInv, IInv, InBlock
<1>2. InDone = n - 1 /\ OutDone = n - 1 /\ TakenOff = n - 1 /\ Added = n - 1
  BY DEF InDone, OutDone, TakenOff, Added, InBlock
<1>3. bal[a] = Record(chain, a, n - 1, n - 1)
  BY <1>1, <1>2 DEF BInv, BalanceInv
<1>4. Coins(chain, a, n, n - 1) = S \ Inputs(chain, n) /\ AmountsNat(chain, S)
  <2>1. n - 1 \in Nat /\ n - 1 <= Len(chain.tx)
    BY <1>1
  <2> QED
    BY <1>1, <2>1, CoinsSpent, CoinsNat
<1>5. ASSUME NEW j \in Debits(a)
      PROVE  o(j) \in S /\ Found(j) = Coin(chain, o(j))
  <2>1. j \in DOMAIN chain.tx[n].ins /\ txoa[o(j)] # Missing /\ Found(j) = txoa[o(j)]
        /\ Found(j).addr = a /\ o(j) \in Inputs(chain, n)
    BY <1>5 DEF Debits, FoundInputs, Found, Inputs
  <2>2. /\ o(j) = <<o(j)[1], o(j)[2]>> /\ o(j)[1] \in 1 .. (n - 1)
        /\ o(j)[2] \in DOMAIN chain.tx[o(j)[1]].outs
        /\ o(j) \in KeysOf(chain) /\ Maker(o(j)) = o(j)[1] /\ CoinOf(o(j)) = Coin(chain, o(j))
    BY <1>1, <2>1, InputKey
  <2>3. KeyInv(o(j))
    BY <2>2 DEF BInv, IInv, TxoaInv
  <2>4. Kept(o(j)) /\ ~SpentBy(o(j), n - 1) /\ txoa[o(j)] = Coin(chain, o(j))
    BY <1>2, <2>1, <2>2, <2>3 DEF KeyInv
  <2>5. o(j) \in TrackedOutputs(chain, o(j)[1])
    BY <2>2, <2>4 DEF TrackedOutputs, Kept, Coin
  <2>6. o(j) \notin SpentUpTo(chain, n - 1)
    BY <2>4 DEF SpentBy, SpentUpTo
  <2>7. o(j) \in MadeUpTo(chain, n - 1)
    BY <2>2, <2>5 DEF MadeUpTo
  <2>8. o(j) \in S
    BY <2>1, <2>4, <2>6, <2>7 DEF Coins
  <2> QED
    BY <2>1, <2>4, <2>8
<1>6. ASSUME NEW x \in S \cap Inputs(chain, n)
      PROVE  \E j \in Debits(a) : o(j) = x
  <2>1. PICK t \in 1 .. (n - 1) : x \in TrackedOutputs(chain, t)
    BY DEF Coins, MadeUpTo
  <2>2. Coin(chain, x).addr = a /\ ~SpentBy(x, n - 1) /\ x \in Inputs(chain, n)
    <3>1. Coin(chain, x).addr = a /\ x \notin SpentUpTo(chain, n - 1)
      BY DEF Coins
    <3> QED
      BY <3>1 DEF SpentBy, SpentUpTo
  <2>3. /\ x[1] = t /\ Tracked(Coin(chain, x)) /\ t > 0
        /\ x \in KeysOf(chain) /\ Maker(x) = x[1] /\ CoinOf(x) = Coin(chain, x)
    BY <1>1, <2>1, <2>2, Outputs, InputKey
  <2>4. ~chain.tx[x[1]].segwit
    BY <1>1, <2>2 DEF Clean, Untraced
  <2>5. Kept(x)
    BY <2>3, <2>4 DEF Kept, HashOf
  <2>6. txoa[x] = Coin(chain, x)
    BY <1>1, <1>2, <2>2, <2>3, <2>5 DEF BInv, FreshInv, FreshFrom
  <2> QED
    BY <1>1, <2>1, <2>2, <2>6, CoinDebited
<1>7. \A x, y \in S \cap Inputs(chain, n) : x = y
  BY <1>1 DEF Clean, Repeated, Coins
<1>8. Stored(a) = AmountOf(chain, S)
  <2>1. AmountOf(chain, S) \in Nat
    BY <1>4, AmountType
  <2> QED
    BY <1>3, <2>1, UpdateAssumption DEF Record, Stored
<1> HIDE DEF S
<1>9. bal[a] = (IF AmountOf(chain, S) = 0 THEN Missing ELSE AmountOf(chain, S))
  BY <1>3 DEF Record, S
<1> QED
  BY <1>1, <1>4, <1>5, <1>6, <1>7, <1>8, <1>9, Deducted DEF Record

(***************************************************************************)
(* What its outputs add to the balance of an address that has the coins S: *)
(* the one that pays the address, if any.                                  *)
(***************************************************************************)
LEMMA Increased ==
  ASSUME chain \in Chains, n \in DOMAIN chain.tx, NEW a \in Addr, NEW S,
         Stored(a) = AmountOf(chain, S),
         NEW M, M = {o \in TrackedOutputs(chain, n) : Coin(chain, o).addr = a},
         \A o \in M : o \notin S, \A o, p \in M : o = p, AmountsNat(chain, S \cup M)
  PROVE  /\ Credits(a) = {} => M = {}
         /\ Credits(a) # {} => /\ Credited(a) = AmountOf(chain, S \cup M)
                               /\ Credited(a) \in Nat /\ Credited(a) > 0
<1>1. Credits(a) = {j \in DOMAIN chain.tx[n].outs : <<n, j>> \in M}
  BY DEF Credits, TrackedOutputs, Coin
<1>2. ASSUME NEW o \in M
      PROVE  /\ o = <<n, o[2]>> /\ o[2] \in Credits(a)
             /\ Coin(chain, o).amt \in Nat /\ Coin(chain, o).amt > 0
  <2>1. /\ o = <<n, o[2]>> /\ o[2] \in DOMAIN chain.tx[n].outs
        /\ Coin(chain, o).amt \in Nat /\ Coin(chain, o).amt > 0
    BY Outputs
  <2> QED
    BY <1>1, <2>1
<1>3. Credits(a) = {} => M = {}
  BY <1>2
<1>4. ASSUME Credits(a) # {}
      PROVE  /\ Credited(a) = AmountOf(chain, S \cup M)
             /\ Credited(a) \in Nat /\ Credited(a) > 0
  <2>1. PICK o \in M : TRUE
    BY <1>1, <1>4
  <2>2. M = {o} /\ (S \cup M) \ {o} = S /\ o \in S \cup M
    BY <2>1
  <2>3. Max(Credits(a)) \in Credits(a)
    <3>1. Credits(a) \subseteq Nat /\ IsFiniteSet(Credits(a))
      BY Outputs, FS_Subset DEF Credits
    <3> QED
      BY <1>4, <3>1, MaxIn
  <2>4. <<n, Max(Credits(a))>> = o
    BY <1>1, <2>1, <2>3
  <2> DEFINE amount == Coin(chain, o).amt
             before == AmountOf(chain, S)
  <2>5. chain.tx[n].outs[Max(Credits(a))].amt = amount
    <3>1. o[1] = n /\ o[2] = Max(Credits(a))
      BY <2>4
    <3> QED
      BY <3>1 DEF Coin
  <2>6. AmountOf(chain, S \cup M) = amount + before /\ before \in Nat
    BY <2>2, AmountWithout
  <2>7. amount \in Nat /\ amount > 0
    BY <1>2, <2>1
  <2>8. Credited(a) = before + amount
    BY <2>5 DEF Credited
  <2> HIDE DEF amount, before
  <2> QED
    BY <2>6, <2>7, <2>8
<1> QED
  BY <1>3, <1>4

LEMMA OutputsAdded ==
  ASSUME BInv, pc = "outputs", NEW a \in Clean(n)
  PROVE  (IF Credits(a) # {} THEN Credited(a) ELSE bal[a]) = Record(chain, a, n, n)
<1> DEFINE S == Coins(chain, a, n, n - 1)
           M == {o \in TrackedOutputs(chain, n) : Coin(chain, o).addr = a}
<1>1. /\ chain \in Chains /\ n \in Nat /\ n > 0 /\ n \in DOMAIN chain.tx /\ n <= Len(chain.tx)
      /\ DOMAIN chain.tx = 1 .. Len(chain.tx) /\ Len(chain.tx) \in Nat /\ a \in Addr
  BY AtTransaction DEF BInv, IInv, InBlock
<1>2. bal[a] = Record(chain, a, n, n - 1)
  BY DEF BInv, BalanceInv, TakenOff, Added, InBlock
<1>3. Coins(chain, a, n, n) = S \cup M /\ \A o \in M : o \notin S
  BY <1>1, CoinsMade
<1>4. AmountsNat(chain, S) /\ AmountsNat(chain, S \cup M)
  <2>1. n - 1 \in Nat /\ n - 1 <= Len(chain.tx)
    BY <1>1
  <2>2. AmountsNat(chain, S)
    BY <1>1, <2>1, CoinsNat
  <2>3. AmountsNat(chain, Coins(chain, a, n, n))
    BY <1>1, CoinsNat
  <2> QED
    BY <1>3, <2>2, <2>3
<1>5. \A o, p \in M : o = p
  BY <1>1 DEF Clean, Repeated
<1>6. Stored(a) = AmountOf(chain, S)
  <2>1. AmountOf(chain, S) \in Nat
    BY <1>4, AmountType
  <2> QED
    BY <1>2, <2>1, UpdateAssumption DEF Record, Stored
<1>7. /\ Credits(a) = {} => M = {}
      /\ Credits(a) # {} => /\ Credited(a) = AmountOf(chain, S \cup M)
                            /\ Credited(a) \in Nat /\ Credited(a) > 0
  BY <1>1, <1>3, <1>4, <1>5, <1>6, Increased
<1>8. Record(chain, a, n, n) = IF AmountOf(chain, S \cup M) = 0 THEN Missing
                               ELSE AmountOf(chain, S \cup M)
  BY <1>3 DEF Record
<1>9. bal[a] = IF AmountOf(chain, S) = 0 THEN Missing ELSE AmountOf(chain, S)
  BY <1>2 DEF Record
<1> HIDE DEF S, M
<1>10. M = {} => S \cup M = S
  OBVIOUS
<1> QED
  BY <1>7, <1>8, <1>9, <1>10

\* An address that no transaction of the block being applied touches.
LEMMA Untouched ==
  ASSUME RunInv, NEW a, \A t \in (Base + 1) .. Limit : a \notin TouchedBy(chain, t),
         NEW k \in Nat, Base <= k, k <= Limit, NEW m \in Nat, Base <= m, m <= Limit
  PROVE  /\ a \in Repeated(chain, k) => a \in Repeated(chain, Base)
         /\ a \in Untraced(chain, k) => a \in Untraced(chain, Base)
         /\ Coins(chain, a, k, m) = Coins(chain, a, Base, Base)
         /\ \A o : Coin(chain, o).addr = a =>
              /\ o \in MadeUpTo(chain, m) <=> o \in MadeUpTo(chain, Base)
              /\ o \in SpentUpTo(chain, k) <=> o \in SpentUpTo(chain, Base)
<1>1. Base \in Nat /\ Limit \in Nat
  BY Marks
<1>2. \A t \in 1 .. k : t \in 1 .. Base \/ t \in (Base + 1) .. Limit
  BY <1>1
<1>3. \A t \in 1 .. m : t \in 1 .. Base \/ t \in (Base + 1) .. Limit
  BY <1>1
<1>4. \A t \in 1 .. Base : t \in 1 .. k /\ t \in 1 .. m
  BY <1>1
<1>5. \A t \in (Base + 1) .. Limit : \A o \in TrackedOutputs(chain, t) \cup Inputs(chain, t) :
        Coin(chain, o).addr # a
  BY DEF TouchedBy
<1>6. a \in Repeated(chain, k) => a \in Repeated(chain, Base)
  BY <1>2, <1>5 DEF Repeated
<1>7. a \in Untraced(chain, k) => a \in Untraced(chain, Base)
  BY <1>2, <1>5 DEF Untraced
<1>8. ASSUME NEW o, Coin(chain, o).addr = a
      PROVE  /\ o \in MadeUpTo(chain, m) <=> o \in MadeUpTo(chain, Base)
             /\ o \in SpentUpTo(chain, k) <=> o \in SpentUpTo(chain, Base)
  <2>1. o \in MadeUpTo(chain, m) <=> o \in MadeUpTo(chain, Base)
    BY <1>3, <1>4, <1>5, <1>8 DEF MadeUpTo
  <2>2. o \in SpentUpTo(chain, k) <=> o \in SpentUpTo(chain, Base)
    BY <1>2, <1>4, <1>5, <1>8 DEF SpentUpTo
  <2> QED
    BY <2>1, <2>2
<1>9. Coins(chain, a, k, m) = Coins(chain, a, Base, Base)
  BY <1>8 DEF Coins
<1> QED
  BY <1>6, <1>7, <1>8, <1>9

\* An interruption takes the run back to the recorded blocks; if it had begun
\* to apply the next one, the addresses of that block are torn.
LEMMA Interrupted ==
  ASSUME RunInv, Interrupt
  PROVE  /\ UNCHANGED <<chain, bal, txoa>> /\ Base' = Base /\ torn \subseteq torn'
         /\ InDone' = Base /\ OutDone' = Base /\ TakenOff' = Base /\ Added' = Base /\ pc' = "idle"
         /\ Base \in Nat /\ Limit \in Nat /\ InDone \in Nat /\ OutDone \in Nat
         /\ Base <= InDone /\ InDone <= Limit /\ Base <= OutDone
         /\ TakenOff \in Base .. Limit /\ Added \in Base .. Limit
         /\ \/ InDone = Base /\ OutDone = Base /\ TakenOff = Base /\ Added = Base
            \/ \A t \in (Base + 1) .. Limit : TouchedBy(chain, t) \subseteq torn'
<1>1. RunInv
  OBVIOUS
<1>2. /\ UNCHANGED <<chain, bal, txoa, last>> /\ pc' = "idle"
      /\ torn' = torn \cup (IF HalfWay THEN UNION {TouchedBy(chain, m) : m \in BlockTxs(chain, b)}
                            ELSE {})
  BY DEF Interrupt, nodeVars, dbVars
<1>3. Base' = Base /\ InDone' = Base /\ OutDone' = Base /\ TakenOff' = Base /\ Added' = Base
  BY <1>2 DEF Base, LastBlock, InDone, OutDone, TakenOff, Added, InBlock
<1>4. /\ Base \in Nat /\ Limit \in Nat /\ InDone \in Nat /\ OutDone \in Nat
      /\ Base <= InDone /\ InDone <= Limit /\ Base <= OutDone /\ Base <= Limit
  BY <1>1, DoneTypes, Marks
<1>5. CASE pc \notin InBlock
  <2>1. InDone = Base /\ OutDone = Base /\ TakenOff = Base /\ Added = Base
    BY <1>5 DEF InDone, OutDone, TakenOff, Added, InBlock
  <2> QED
    BY <1>2, <1>3, <1>4, <2>1
<1>6. CASE pc \in InBlock
  <2>1. /\ n \in Nat /\ n > Base /\ n <= Limit
        /\ Limit = End(chain, b) /\ Base = End(chain, b - 1)
    BY <1>1, <1>6, Marks
  <2>2. TakenOff \in Base .. Limit /\ Added \in Base .. Limit
    BY <1>4, <2>1 DEF TakenOff, Added
  <2>3. CASE HalfWay
    <3>1. BlockTxs(chain, b) = (Base + 1) .. Limit
      BY <2>1 DEF BlockTxs
    <3> QED
      BY <1>2, <1>3, <1>4, <2>2, <2>3, <3>1
  <2>4. CASE ~HalfWay
    <3>1. pc \in {"inputs", "txoa_in"} /\ n = Base + 1
      BY <1>4, <1>6, <2>1, <2>4 DEF HalfWay, InBlock
    <3>2. InDone = Base /\ OutDone = Base /\ TakenOff = Base /\ Added = Base
      BY <1>4, <2>1, <3>1 DEF InDone, OutDone, TakenOff, Added, InBlock
    <3> QED
      BY <1>2, <1>3, <1>4, <2>2, <3>2
  <2> QED
    BY <2>3, <2>4
<1> QED
  BY <1>5, <1>6

\* A step after which the same transactions are taken for applied.
LEMMA FreshKept ==
  ASSUME NEW s, FreshFrom(s), UNCHANGED <<chain, txoa>>, torn \subseteq torn',
         InDone' = InDone, OutDone' = OutDone
  PROVE  FreshFrom(s)'
<1> SUFFICES ASSUME NEW o \in KeysOf(chain), CoinOf(o).addr \notin torn,
                    Kept(o)', Maker(o) > s, Maker(o) <= OutDone, ~SpentBy(o, InDone)'
             PROVE  txoa'[o] = CoinOf(o)'
  BY DEF FreshFrom, CoinOf
<1>1. Kept(o) /\ ~SpentBy(o, InDone) /\ CoinOf(o)' = CoinOf(o)
  BY DEF Kept, CoinOf, SpentBy
<1> QED
  BY <1>1 DEF FreshFrom

LEMMA FreshInterrupted ==
  ASSUME RunInv, NEW s, FreshFrom(s), Interrupt
  PROVE  FreshFrom(s)'
<1> SUFFICES ASSUME NEW o \in KeysOf(chain), CoinOf(o).addr \notin torn',
                    Kept(o), Maker(o) > s, Maker(o) <= Base, ~SpentBy(o, Base)
             PROVE  txoa[o] = CoinOf(o)
  BY Interrupted DEF FreshFrom, CoinOf, Kept, SpentBy
<1>1. /\ chain \in Chains /\ Maker(o) \in Nat /\ Limit <= Len(chain.tx)
      /\ Len(chain.tx) \in Nat /\ DOMAIN chain.tx = 1 .. Len(chain.tx)
  BY KeyFacts, Marks
<1>2. ~SpentBy(o, InDone)
  <2> SUFFICES ASSUME NEW k \in 1 .. InDone, o \in Inputs(chain, k) PROVE FALSE
    BY DEF SpentBy
  <2>1. k \notin 1 .. Base
    BY DEF SpentBy
  <2>2. k \in (Base + 1) .. Limit /\ k \in DOMAIN chain.tx
    BY <1>1, <2>1, Interrupted
  <2>3. CoinOf(o).addr \in TouchedBy(chain, k)
    BY <1>1, <2>2, InputKey DEF TouchedBy
  <2> QED
    BY <2>1, <2>2, <2>3, Interrupted
<1>3. Maker(o) <= OutDone /\ CoinOf(o).addr \notin torn
  BY <1>1, Interrupted
<1> QED
  BY <1>2, <1>3 DEF FreshFrom

LEMMA FreshWritten ==
  ASSUME RunInv, BatchInv, NEW s, FreshFrom(s), WriteTxoa
  PROVE  FreshFrom(s)'
<1>1. RunInv /\ BatchInv /\ chain \in Chains
  BY DEF RunInv
<1>2. /\ UNCHANGED <<chain, n, torn>> /\ pc \in {"txoa_in", "txoa_out"}
      /\ txoa' = [o \in KeysOf(chain) |-> IF o \in DOMAIN txoaBatch THEN txoaBatch[o] ELSE txoa[o]]
      /\ pc' = IF pc = "txoa_in" THEN "bal_in" ELSE "bal_out"
  BY <1>1 DEF WriteTxoa, Written, nodeVars, runVars, boundVars, RunInv
<1>3. n \in Nat /\ n > 0
  BY <1>1, <1>2, Marks DEF InBlock
<1> SUFFICES ASSUME NEW o \in KeysOf(chain), CoinOf(o).addr \notin torn,
                    Kept(o), Maker(o) > s, Maker(o) <= OutDone', ~SpentBy(o, InDone)'
             PROVE  txoa'[o] = CoinOf(o)
  BY <1>2 DEF FreshFrom, CoinOf, Kept
<1>4. Maker(o) \in Nat
  BY <1>1, KeyFacts, Marks
<1>5. CASE pc = "txoa_in"
  <2>1. InDone' = n /\ OutDone' = n - 1 /\ InDone = n - 1 /\ OutDone = n - 1
    BY <1>2, <1>5 DEF InDone, OutDone, InBlock
  <2>2. ~SpentBy(o, n)
    BY <1>2, <2>1 DEF SpentBy
  <2>3. ~SpentBy(o, n - 1)
    BY <1>3, <2>2, SpentMore
  <2>4. o \notin DOMAIN txoaBatch
    <3>1. o \notin Inputs(chain, n)
      BY <1>3, <2>2 DEF SpentBy
    <3> QED
      BY <1>1, <1>5, <3>1 DEF BatchInv, Deletions, FoundInputs, Inputs
  <2> QED
    BY <1>2, <2>1, <2>3, <2>4 DEF FreshFrom
<1>6. CASE pc = "txoa_out"
  <2>1. InDone' = n /\ OutDone' = n /\ InDone = n /\ OutDone = n - 1
    BY <1>2, <1>6 DEF InDone, OutDone, InBlock
  <2>2. ~SpentBy(o, InDone)
    BY <1>2, <2>1 DEF SpentBy
  <2>3. /\ o \in DOMAIN txoaBatch <=> Maker(o) = n
        /\ o \in DOMAIN txoaBatch => txoaBatch[o] = CoinOf(o)
    BY <1>1, <1>2, <1>6, OutputRecords DEF BatchInv, InBlock
  <2> QED
    BY <1>2, <1>3, <1>4, <2>1, <2>2, <2>3 DEF FreshFrom
<1> QED
  BY <1>2, <1>5, <1>6

\* Whatever a step does but write or be interrupted, it takes the same
\* transactions for applied, to the txoa database and to the balances.
LEMMA SameDone ==
  ASSUME RunInv, [Next]_vars, ~WriteTxoa, ~WriteBalance, ~Interrupt
  PROVE  /\ UNCHANGED <<chain, bal, txoa, torn>>
         /\ InDone' = InDone /\ OutDone' = OutDone /\ TakenOff' = TakenOff /\ Added' = Added
<1> USE DEF nodeVars, dbVars, runVars, batchVars, boundVars
<1>1. RunInv
  OBVIOUS
<1>2. CASE NewBlock \/ UNCHANGED vars
  <2>1. UNCHANGED <<chain, last, bal, txoa, torn, pc, n>>
    BY <1>2 DEF NewBlock, vars
  <2> QED
    BY <2>1 DEF InDone, OutDone, TakenOff, Added, Base, LastBlock
<1>3. CASE OpenCreate \/ OpenUpdate \/ OpenTxoa \/ (Begin /\ ~HasBlocks)
  <2>1. /\ UNCHANGED <<chain, last, bal, txoa, torn>>
        /\ pc \in {"idle", "open_txoa", "begin"} /\ pc' \in {"open_txoa", "begin", "starved"}
    BY <1>3 DEF OpenCreate, OpenUpdate, OpenTxoa, Begin
  <2> QED
    BY <2>1 DEF InDone, OutDone, TakenOff, Added, Base, LastBlock, InBlock
<1>4. CASE Begin /\ HasBlocks
  <2>1. /\ UNCHANGED <<chain, last, bal, txoa, torn>> /\ pc = "begin" /\ pc' = "inputs"
        /\ n' = End(chain, FirstBlock - 1) + 1
    BY <1>4 DEF Begin
  <2>2. n' = Base + 1 /\ Base \in Nat /\ Base' = Base
    BY <1>1, <2>1, Marks DEF Base, LastBlock
  <2>3. n' - 1 = Base
    BY <2>2
  <2> QED
    BY <2>1, <2>2, <2>3 DEF InDone, OutDone, TakenOff, Added, InBlock
<1>5. CASE ReadInputs \/ ReadOutputs
  <2>1. /\ UNCHANGED <<chain, last, bal, txoa, torn, n>>
        /\ \/ pc = "inputs" /\ pc' = "txoa_in"
           \/ pc = "outputs" /\ pc' = "txoa_out"
    BY <1>5 DEF ReadInputs, ReadOutputs
  <2> QED
    BY <2>1 DEF InDone, OutDone, TakenOff, Added, InBlock
<1>6. CASE SetLastBlock
  <2>1. /\ UNCHANGED <<chain, bal, txoa, torn>> /\ pc = "set_last" /\ last' = b
        /\ \/ pc' = "idle"
           \/ pc' = "inputs" /\ n' = End(chain, b) + 1
    BY <1>6 DEF SetLastBlock
  <2>2. n = Limit /\ Limit = End(chain, b) /\ Limit \in Nat /\ b \in Nat
    BY <1>1, <2>1, Marks DEF RunInv, InBlock
  <2>3. Base' = Limit
    BY <2>1, <2>2, UpdateAssumption DEF Base, LastBlock
  <2>4. InDone = Limit /\ OutDone = Limit /\ TakenOff = Limit /\ Added = Limit
    BY <2>1, <2>2 DEF InDone, OutDone, TakenOff, Added, InBlock
  <2>5. CASE pc' = "idle"
    BY <2>1, <2>3, <2>4, <2>5 DEF InDone, OutDone, TakenOff, Added, InBlock
  <2>6. CASE pc' = "inputs" /\ n' = End(chain, b) + 1
    <3>1. n' - 1 = Limit
      BY <2>2, <2>6
    <3> QED
      BY <2>1, <2>4, <2>6, <3>1 DEF InDone, OutDone, TakenOff, Added, InBlock
  <2> QED
    BY <2>1, <2>5, <2>6
<1> QED
  BY <1>2, <1>3, <1>4, <1>5, <1>6 DEF Next, Step

LEMMA FreshStep ==
  ASSUME RunInv, BatchInv, NEW s, FreshFrom(s), [Next]_vars
  PROVE  FreshFrom(s)'
<1>1. CASE WriteTxoa
  BY <1>1, FreshWritten
<1>2. CASE Interrupt
  BY <1>2, FreshInterrupted
<1>3. CASE WriteBalance
  <2>1. RunInv
    OBVIOUS
  <2>2. /\ UNCHANGED <<chain, last, txoa, torn>>
        /\ \/ pc = "bal_in" /\ pc' = "outputs" /\ n' = n
           \/ pc = "bal_out" /\ pc' = "inputs" /\ n' = n + 1
           \/ pc = "bal_out" /\ pc' = "set_last" /\ n' = n
    BY <1>3 DEF WriteBalance, nodeVars, boundVars
  <2>3. n \in Nat
    BY <2>1, <2>2, Marks DEF InBlock
  <2>4. InDone' = InDone /\ OutDone' = OutDone
    BY <2>2, <2>3 DEF InDone, OutDone, InBlock
  <2> QED
    BY <2>2, <2>4, FreshKept
<1>4. CASE ~WriteTxoa /\ ~Interrupt /\ ~WriteBalance
  BY <1>4, SameDone, FreshKept
<1> QED
  BY <1>1, <1>2, <1>3, <1>4

\* The batches, while they wait to be written.
BatchBalances ==
  /\ pc \in {"txoa_in", "bal_in"} => \A a \in Clean(n) : After(a) = Record(chain, a, n, n - 1)
  /\ pc \in {"txoa_out", "bal_out"} => \A a \in Clean(n) : After(a) = Record(chain, a, n, n)

LEMMA BatchBalancesStep == BInv /\ [Next]_vars => BatchBalances'
<1> SUFFICES ASSUME BInv, [Next]_vars PROVE BatchBalances'
  OBVIOUS
<1> USE DEF nodeVars, dbVars, runVars, batchVars, boundVars
\* A step that leaves the batch, its transaction and the balances alone.
<1>1. ASSUME UNCHANGED <<chain, torn, n, bal, balBatch>>,
             pc' \in {"txoa_in", "bal_in"} => pc \in {"txoa_in", "bal_in"},
             pc' \in {"txoa_out", "bal_out"} => pc \in {"txoa_out", "bal_out"}
      PROVE  BatchBalances'
  <2>1. \A a : After(a)' = After(a)
    BY <1>1 DEF After
  <2>2. Clean(n)' = Clean(n)
    BY <1>1 DEF Clean
  <2> QED
    BY <1>1, <2>1, <2>2 DEF BatchBalances, BInv, BalanceInv
<1>2. CASE ReadInputs
  <2>1. /\ UNCHANGED <<chain, torn, n, bal>> /\ pc = "inputs" /\ pc' = "txoa_in"
        /\ balBatch' = [a \in {x \in Addr : Debits(x) # {}} |-> Debited(a)]
    BY <1>2 DEF ReadInputs
  <2>2. ASSUME NEW a \in Clean(n) PROVE After(a)' = Record(chain, a, n, n - 1)
    <3>1. a \in Addr
      BY DEF Clean
    <3>2. After(a)' = IF Debits(a) # {} THEN Debited(a) ELSE bal[a]
      BY <2>1, <3>1 DEF After
    <3> QED
      BY <2>1, <3>2, InputsDeducted
  <2>3. Clean(n)' = Clean(n)
    BY <2>1 DEF Clean
  <2> QED
    BY <2>1, <2>2, <2>3 DEF BatchBalances
<1>3. CASE ReadOutputs
  <2>1. /\ UNCHANGED <<chain, torn, n, bal>> /\ pc = "outputs" /\ pc' = "txoa_out"
        /\ balBatch' = [a \in {x \in Addr : Credits(x) # {}} |-> Credited(a)]
    BY <1>3 DEF ReadOutputs
  <2>2. ASSUME NEW a \in Clean(n) PROVE After(a)' = Record(chain, a, n, n)
    <3>1. a \in Addr
      BY DEF Clean
    <3>2. After(a)' = IF Credits(a) # {} THEN Credited(a) ELSE bal[a]
      BY <2>1, <3>1 DEF After
    <3> QED
      BY <2>1, <3>2, OutputsAdded
  <2>3. Clean(n)' = Clean(n)
    BY <2>1 DEF Clean
  <2> QED
    BY <2>1, <2>2, <2>3 DEF BatchBalances
<1>4. CASE WriteTxoa
  BY <1>1, <1>4 DEF WriteTxoa
<1>5. CASE NewBlock \/ UNCHANGED vars
  BY <1>1, <1>5 DEF NewBlock, vars
<1>6. CASE OpenCreate \/ OpenUpdate \/ OpenTxoa \/ Begin \/ WriteBalance \/ SetLastBlock \/ Interrupt
  <2>1. pc' \in {"open_txoa", "begin", "inputs", "starved", "outputs", "set_last", "idle"}
    BY <1>6 DEF OpenCreate, OpenUpdate, OpenTxoa, Begin, WriteBalance, SetLastBlock, Interrupt
  <2> QED
    BY <2>1 DEF BatchBalances
<1> QED
  BY <1>2, <1>3, <1>4, <1>5, <1>6 DEF Next, Step

\* The balances in the database.
StoredBalances ==
  /\ bal = [a \in Addr |-> bal[a]]
  /\ \A a \in Clean(TakenOff) : bal[a] = Record(chain, a, TakenOff, Added)

LEMMA StoredBalancesStep == BInv /\ [Next]_vars => StoredBalances'
<1> SUFFICES ASSUME BInv, [Next]_vars PROVE StoredBalances'
  OBVIOUS
<1>1. IInv /\ RunInv /\ BalanceInv
  BY DEF BInv, IInv
<1>2. CASE WriteBalance
  <2>1. /\ UNCHANGED <<chain, torn>>
        /\ bal' = [a \in Addr |-> After(a)]
        /\ \/ pc = "bal_in" /\ pc' = "outputs" /\ n' = n
           \/ pc = "bal_out" /\ pc' = "inputs" /\ n' = n + 1
           \/ pc = "bal_out" /\ pc' = "set_last" /\ n' = n
    BY <1>1, <1>2 DEF WriteBalance, Written, After, nodeVars, boundVars, BalanceInv
  <2>2. n \in Nat /\ (n + 1) - 1 = n
    BY <1>1, <2>1, Marks DEF InBlock
  <2>3. bal' = [a \in Addr |-> bal'[a]] /\ \A a \in Clean(n) : bal'[a] = After(a)
    BY <2>1 DEF Clean
  <2>4. TakenOff' = n /\ Clean(TakenOff)' = Clean(n)
    <3>1. TakenOff' = n
      BY <2>1, <2>2 DEF TakenOff, InBlock
    <3> QED
      BY <2>1, <3>1 DEF Clean
  <2>5. CASE pc = "bal_in"
    <3>1. Added' = n - 1
      BY <2>1, <2>5 DEF Added, InBlock
    <3> QED
      BY <1>1, <2>1, <2>3, <2>4, <2>5, <3>1 DEF BalanceInv, StoredBalances
  <2>6. CASE pc = "bal_out"
    <3>1. Added' = n
      BY <2>1, <2>2, <2>6 DEF Added, InBlock
    <3> QED
      BY <1>1, <2>1, <2>3, <2>4, <2>6, <3>1 DEF BalanceInv, StoredBalances
  <2> QED
    BY <2>1, <2>5, <2>6
<1>3. CASE Interrupt
  <2>1. /\ UNCHANGED <<chain, bal>> /\ TakenOff' = Base /\ Added' = Base /\ torn \subseteq torn'
        /\ Base \in Nat /\ TakenOff \in Base .. Limit /\ Added \in Base .. Limit /\ Limit \in Nat
    BY <1>1, <1>3, Interrupted
  <2>2. Clean(TakenOff)' = Addr \ (torn' \cup Repeated(chain, Base) \cup Untraced(chain, Base))
    BY <2>1 DEF Clean
  <2> SUFFICES ASSUME NEW a \in Clean(TakenOff)'
               PROVE  bal[a] = Record(chain, a, Base, Base)
    BY <1>1, <2>1 DEF StoredBalances, BalanceInv
  <2>3. a \in Addr /\ a \notin torn /\ a \notin torn'
        /\ a \notin Repeated(chain, Base) /\ a \notin Untraced(chain, Base)
    BY <2>1, <2>2
  <2>4. CASE TakenOff = Base /\ Added = Base
    BY <1>1, <2>3, <2>4 DEF Clean, BalanceInv
  <2>5. CASE \A t \in (Base + 1) .. Limit : TouchedBy(chain, t) \subseteq torn'
    <3>1. \A t \in (Base + 1) .. Limit : a \notin TouchedBy(chain, t)
      BY <2>3, <2>5
    <3>2. TakenOff \in Nat /\ Base <= TakenOff /\ TakenOff <= Limit
          /\ Added \in Nat /\ Base <= Added /\ Added <= Limit
      BY <2>1
    <3>3. /\ a \notin Repeated(chain, TakenOff) /\ a \notin Untraced(chain, TakenOff)
          /\ Coins(chain, a, TakenOff, Added) = Coins(chain, a, Base, Base)
      BY <1>1, <2>3, <3>1, <3>2, Untouched
    <3>4. bal[a] = Record(chain, a, TakenOff, Added)
      BY <1>1, <2>3, <3>3 DEF Clean, BalanceInv
    <3> QED
      BY <3>3, <3>4 DEF Record
  <2> QED
    BY <1>1, <1>3, <2>4, <2>5, Interrupted
<1>4. CASE ~WriteBalance /\ ~Interrupt
  <2>1. UNCHANGED <<chain, bal, torn>> /\ TakenOff' = TakenOff /\ Added' = Added
    <3>1. CASE WriteTxoa
      <4>1. /\ UNCHANGED <<chain, bal, torn, n>>
            /\ \/ pc = "txoa_in" /\ pc' = "bal_in"
               \/ pc = "txoa_out" /\ pc' = "bal_out"
        BY <3>1 DEF WriteTxoa, nodeVars, runVars, boundVars
      <4> QED
        BY <4>1 DEF TakenOff, Added, InBlock
    <3>2. CASE ~WriteTxoa
      BY <1>1, <1>4, <3>2, SameDone
    <3> QED
      BY <3>1, <3>2
  <2>2. Clean(TakenOff)' = Clean(TakenOff)
    BY <2>1 DEF Clean
  <2> QED
    BY <1>1, <2>1, <2>2 DEF StoredBalances, BalanceInv
<1> QED
  BY <1>2, <1>3, <1>4

\* Both databases are empty at the start.
LEMMA InitBInv == Init => BInv
<1> SUFFICES ASSUME Init PROVE BInv
  OBVIOUS
<1>1. IInv
  BY InitIInv
<1>2. OutDone = 0 /\ TakenOff = 0 /\ Added = 0 /\ chain \in Chains
  BY DEF Init, OutDone, TakenOff, Added, InBlock, Base, LastBlock, End
<1>3. FreshInv
  <2>1. \A o \in KeysOf(chain) : Maker(o) \in Nat /\ Maker(o) > 0
    BY <1>2, KeyFacts, Transactions
  <2> QED
    BY <1>2, <2>1 DEF FreshInv, FreshFrom
<1>4. BalanceInv
  <2>1. ASSUME NEW a \in Addr PROVE Record(chain, a, 0, 0) = Missing
    <3>1. Coins(chain, a, 0, 0) = {}
      BY DEF Coins, MadeUpTo
    <3>2. AmountOf(chain, {}) = 0
      BY AmountFirst, FS_EmptySet
    <3> QED
      BY <3>1, <3>2 DEF Record
  <2>2. bal = [a \in Addr |-> Missing] /\ pc = "idle"
    BY DEF Init, EmptyDb
  <2> QED
    BY <1>2, <2>1, <2>2 DEF BalanceInv, Clean
<1> QED
  BY <1>1, <1>3, <1>4 DEF BInv

-----------------------------------------------------------------------------
(* The theorems.                                                           *)

\* What the runs leave in the txoa database at any moment, whatever was
\* interrupted (btk_balance.c:433-523).
THEOREM UpdateInvariant == Spec => []IInv
<1>1. IInv /\ [Next]_vars => IInv'
  BY RunStep, BatchStep, KeyStep DEF IInv
<1> QED
  BY InitIInv, <1>1, PTL DEF Spec

\* Once the transactions of a block are applied the txoa database holds exactly
\* what the chain says, for every chain and any number of interrupted runs.
THEOREM TxoaIsExact == Spec => []TxoaExact
<1>1. IInv => TxoaExact
  <2> SUFFICES ASSUME IInv, pc = "set_last" PROVE txoa = Expected(chain, End(chain, b))
    BY DEF TxoaExact
  <2>1. RunInv /\ TxoaInv
    BY DEF IInv
  <2>2. /\ chain \in Chains /\ n = Limit /\ Limit = End(chain, b) /\ Limit \in Nat
        /\ InDone = Limit /\ OutDone = Limit
    BY <2>1, Marks DEF InBlock, RunInv, InDone, OutDone
  <2>3. ASSUME NEW o \in KeysOf(chain)
        PROVE  txoa[o] = IF Maker(o) <= Limit /\ Kept(o) /\ ~SpentBy(o, Limit)
                           THEN CoinOf(o) ELSE Missing
    <3>1. KeyInv(o) /\ Maker(o) \in Nat
      BY <2>1, <2>2, KeyFacts, Marks DEF TxoaInv
    <3> QED
      BY <2>2, <3>1 DEF KeyInv
  <2>4. Expected(chain, Limit)
          = [o \in KeysOf(chain) |-> IF Maker(o) <= Limit /\ Kept(o) /\ ~SpentBy(o, Limit)
                                       THEN CoinOf(o) ELSE Missing]
    BY DEF Expected, Maker, Kept, CoinOf, SpentBy
  <2>5. txoa = [o \in KeysOf(chain) |-> txoa[o]]
    BY <2>1 DEF RunInv
  <2> QED
    BY <2>2, <2>3, <2>4, <2>5
<1> QED
  BY UpdateInvariant, <1>1, PTL

\* What the runs leave in the balance database at any moment, whatever was
\* interrupted (btk_balance.c:433-523).
THEOREM BalanceInvariant == Spec => []BInv
<1>1. BInv /\ [Next]_vars => BInv'
  <2> SUFFICES ASSUME BInv, [Next]_vars PROVE BInv'
    OBVIOUS
  <2>1. IInv'
    BY RunStep, BatchStep, KeyStep DEF IInv, BInv
  <2>2. FreshInv'
    BY FreshStep DEF BInv, IInv, FreshInv
  <2>3. BatchBalances' /\ StoredBalances'
    BY BatchBalancesStep, StoredBalancesStep
  <2> QED
    BY <2>1, <2>2, <2>3 DEF BInv, BalanceInv, BatchBalances, StoredBalances
<1> QED
  BY InitBInv, <1>1, PTL DEF Spec

\* Once a block is applied, the balance of every address is what the chain
\* says, but for the addresses that one transaction paid or spent twice, that
\* spent an output of a segwit transaction, or that an interrupted run left
\* half-way: for every chain and any number of interrupted runs.
THEOREM BalancesAreExact == Spec => []BalanceExactElsewhere
<1>1. BInv => BalanceExactElsewhere
  <2> SUFFICES ASSUME BInv, pc = "set_last",
                      NEW a \in Addr \ (torn \cup Repeated(chain, End(chain, b))
                                             \cup Untraced(chain, End(chain, b)))
               PROVE  bal[a] = TrueRecord(a, End(chain, b))
    BY DEF BalanceExactElsewhere
  <2>1. n = End(chain, b) /\ TakenOff = n /\ Added = n
    BY Marks DEF BInv, IInv, RunInv, InBlock, TakenOff, Added
  <2>2. bal[a] = Record(chain, a, n, n)
    BY <2>1 DEF BInv, BalanceInv, Clean
  <2>3. Coins(chain, a, n, n) = {o \in Unspent(chain, n) : Coin(chain, o).addr = a}
    <3>1. Unspent(chain, n) = MadeUpTo(chain, n) \ SpentUpTo(chain, n)
      BY DEF Unspent, MadeUpTo, SpentUpTo
    <3> QED
      BY <3>1 DEF Coins
  <2>4. Balance(chain, a, n) = AmountOf(chain, {o \in Unspent(chain, n) : Coin(chain, o).addr = a})
    BY DEF Balance, AmountOf
  <2>5. Balance(chain, a, n) = AmountOf(chain, Coins(chain, a, n, n))
    BY <2>3, <2>4
  <2> QED
    BY <2>1, <2>2, <2>5 DEF Record, TrueRecord
<1> QED
  BY BalanceInvariant, <1>1, PTL

\* Blocks are recorded one after the other, each when all of its transactions
\* have been applied, across any number of runs (btk_balance.c:527-533).
THEOREM RecordedInOrder == Spec => RecordsInOrder
<1> DEFINE Recorded == last' # last => /\ last' = (IF last = Missing THEN 0 ELSE last) + 1
                                       /\ n = End(chain, last')
<1>1. IInv /\ [Next]_vars => Recorded
  <2> SUFFICES ASSUME IInv, [Next]_vars, last' # last PROVE Recorded
    OBVIOUS
  <2>1. SetLastBlock
    BY DEF Next, Step, NewBlock, OpenCreate, OpenUpdate, OpenTxoa, Begin, ReadInputs, ReadOutputs,
           WriteTxoa, WriteBalance, Interrupt, vars, nodeVars, dbVars, runVars, batchVars, boundVars
  <2>2. pc = "set_last" /\ last' = b
    BY <2>1 DEF SetLastBlock
  <2>3. b = LastBlock + 1 /\ n = End(chain, b)
    BY <2>2, Marks DEF IInv, RunInv, InBlock
  <2> QED
    BY <2>2, <2>3 DEF LastBlock
<1>2. Spec => [][Recorded]_vars
  BY UpdateInvariant, <1>1, PTL DEF Spec
<1> QED
  BY <1>2 DEF RecordsInOrder

(***************************************************************************)
(* Then the databases built from what chainstate import left.              *)
(***************************************************************************)

\* The transactions up to which the databases are taken to be built, and those
\* the chainstate was the result of.
Start == End(chain, top)
Until == End(chain, snapshot)

\* The chainstate, and the record of it that txoa_put leaves.
Snapshot == CoinsAt(chain, Until)

ImportedRecord(o) == [addr |-> CoinOf(o).addr, amt |-> NoAmount]

CoinsTo(c, a, S) == {o \in S : Coin(c, o).addr = a}

Empty ==
  /\ bal = EmptyDb(Addr) /\ txoa = EmptyDb(KeysOf(chain))
  /\ last = Missing /\ top = 0 /\ rest = {} /\ snapshot = 0

(***************************************************************************)
(* What was read is not younger than the height noted.                     *)
(***************************************************************************)
Noted ==
  /\ snapshot \in 1 .. height /\ top \in 0 .. snapshot
  /\ rest \subseteq Snapshot
  /\ \A o \in Snapshot \ rest : o[1] <= Start

\* While the records are read: what is left to read is what the balances lack.
Reading ==
  /\ \A a \in Addr :
       /\ bal[a] \in Nat \cup {Missing}
       /\ Stored(a) + AmountOf(chain, CoinsTo(chain, a, rest))
            = AmountOf(chain, CoinsTo(chain, a, Snapshot))
  /\ \A o \in KeysOf(chain) : txoa[o] \in {Missing, ImportedRecord(o)}

(***************************************************************************)
(* The record of every key, once blocks are applied to what was imported:  *)
(* an amount is on record only for a coin that was made since, and not     *)
(* spent so far.                                                           *)
(***************************************************************************)
KeyKnown(o) ==
  /\ txoa[o] \in {Missing, CoinOf(o), ImportedRecord(o)}
  /\ txoa[o] = CoinOf(o) => Kept(o) /\ Maker(o) > Start /\ ~SpentBy(o, InDone)

KeysKnown == \A o \in KeysOf(chain) : KeyKnown(o)

\* The coins the balances count: those imported, S, and what was made since
\* transaction s, without what was spent.
Counted(c, S, s, a, k, m) ==
  CoinsTo(c, a, (S \cup (MadeUpTo(c, m) \ MadeUpTo(c, s))) \ SpentUpTo(c, k))

\* The addresses that ImportedExactElsewhere does not except.
CleanSince(m) == Clean(m) \ (Dropped \cup SpentSince(m))

StoredAfter(a) == IF After(a) = Missing THEN 0 ELSE After(a)

CountedStored ==
  \A a \in CleanSince(TakenOff) :
    Stored(a) = AmountOf(chain, Counted(chain, Snapshot, Start, a, TakenOff, Added))

CountedBatch ==
  /\ pc \in {"txoa_in", "bal_in"} =>
       \A a \in CleanSince(n) :
         StoredAfter(a) = AmountOf(chain, Counted(chain, Snapshot, Start, a, n, n - 1))
  /\ pc \in {"txoa_out", "bal_out"} =>
       \A a \in CleanSince(n) :
         StoredAfter(a) = AmountOf(chain, Counted(chain, Snapshot, Start, a, n, n))

\* Once the import has recorded a block, it is over and updates go on from there.
Updating ==
  /\ Noted /\ top <= LastBlock /\ BatchInv /\ KeysKnown /\ FreshFrom(Start)
  /\ CountedStored /\ CountedBatch

ImportPcs == {"import_open", "import", "import_last"}

(***************************************************************************)
(* An import that did not get as far as recording a block is never taken   *)
(* up again: the directories exist, and there is no block to update from.  *)
(***************************************************************************)
Phase ==
  /\ "balance" \notin made => pc = "idle" /\ Empty
  /\ pc = "import_open" => Empty
  /\ pc \in {"import", "import_last"} => last = Missing /\ Noted /\ Reading
  /\ last = Missing => pc \in ImportPcs \cup {"idle"}
  /\ last # Missing => pc \in InBlock \cup {"idle", "begin", "starved"} /\ Updating
  /\ bal = [a \in Addr |-> bal[a]]

CInv == RunInv /\ Phase

-----------------------------------------------------------------------------
(* The chain, and sums over its coins.                                     *)

\* A set of numbers that is not empty has a smallest one.
LEMMA SmallestNumber ==
  ASSUME NEW S, S \subseteq Nat, S # {}
  PROVE  \E x \in S : \A y \in S : x <= y
<1>1. PICK x \in S : \A y \in S : ~(<<y, x>> \in OpToRel(<, Nat))
  BY NatLessThanWellFounded, WFMin
<1>2. \A y \in S : ~(y < x)
  BY <1>1 DEF OpToRel
<1> QED
  BY <1>2

\* Later blocks end later.
LEMMA EndsGrow ==
  ASSUME NEW c \in Chains, NEW g \in 0 .. Height(c), NEW h \in g .. Height(c)
  PROVE  End(c, g) <= End(c, h)
<1> DEFINE F == {x \in g .. Height(c) : ~(End(c, g) <= End(c, x))}
<1>1. Height(c) \in Nat
  BY Ends
<1> SUFFICES ASSUME F # {} PROVE FALSE
  BY <1>1
<1> HIDE DEF F
<1>2. F \subseteq Nat
  BY <1>1 DEF F
<1>3. PICK x \in F : \A y \in F : x <= y
  BY <1>2, SmallestNumber
<1>4. x \in g .. Height(c) /\ ~(End(c, g) <= End(c, x))
  BY <1>3 DEF F
<1>5. x # g /\ x - 1 \in g .. Height(c) /\ x - 1 \notin F /\ x \in 1 .. Height(c)
  <2>1. End(c, g) \in Nat
    BY Ends
  <2>2. x # g
    BY <1>4, <2>1
  <2>3. x - 1 \in g .. Height(c) /\ ~(x <= x - 1) /\ x \in 1 .. Height(c)
    BY <1>1, <1>4, <2>2
  <2> QED
    BY <1>3, <2>2, <2>3
<1>6. End(c, g) <= End(c, x - 1)
  BY <1>5 DEF F
<1>7. End(c, x - 1) < End(c, x) /\ End(c, x) \in Nat /\ End(c, x - 1) \in Nat /\ End(c, g) \in Nat
  <2>1. x - 1 \in 0 .. Height(c) /\ x \in 0 .. Height(c)
    BY <1>1, <1>5
  <2> QED
    BY <1>5, <2>1, Ends
<1> QED
  BY <1>4, <1>6, <1>7

\* The block of a transaction that one of the first h blocks holds.
LEMMA BlockOfTx ==
  ASSUME NEW c \in Chains, NEW h \in 1 .. Height(c), NEW m \in 1 .. End(c, h)
  PROVE  BlockOf(c, m) \in 1 .. h /\ m <= End(c, BlockOf(c, m))
<1>1. Height(c) \in Nat /\ h \in Nat /\ End(c, h) \in Nat /\ m \in Nat /\ m > 0 /\ m <= End(c, h)
  BY Ends
<1> DEFINE F == {x \in 1 .. h : m <= End(c, x)}
<1> HIDE DEF F
<1>2. F \subseteq Nat /\ F # {}
  <2>1. h \in F
    BY <1>1 DEF F
  <2> QED
    BY <2>1 DEF F
<1>3. PICK x \in F : \A y \in F : x <= y
  BY <1>2, SmallestNumber
<1>4. x \in 1 .. Height(c) /\ x \in 1 .. h /\ m <= End(c, x) /\ x - 1 \in 0 .. Height(c)
  BY <1>1, <1>3 DEF F
<1>5. End(c, x - 1) < m
  <2>1. CASE x = 1
    BY <1>1, <2>1 DEF End
  <2>2. CASE x # 1
    <3>1. x - 1 \in 1 .. h /\ ~(x <= x - 1)
      BY <1>1, <1>4, <2>2
    <3>2. x - 1 \notin F
      BY <1>3, <3>1
    <3>3. End(c, x - 1) \in Nat
      BY <1>4, Ends
    <3> QED
      BY <1>1, <3>1, <3>2, <3>3 DEF F
  <2> QED
    BY <2>1, <2>2
<1>6. m \in BlockTxs(c, x)
  <2>1. End(c, x - 1) \in Nat /\ End(c, x) \in Nat
    BY <1>4, Ends
  <2> QED
    BY <1>1, <1>4, <1>5, <2>1 DEF BlockTxs
<1> DEFINE y == BlockOf(c, m)
<1>7. y \in 1 .. Height(c) /\ m \in BlockTxs(c, y)
  BY <1>4, <1>6 DEF BlockOf
<1> HIDE DEF y
<1>8. y - 1 \in 0 .. Height(c) /\ y \in 0 .. Height(c)
  BY <1>1, <1>7
<1>9. End(c, y - 1) \in Nat /\ End(c, y) \in Nat /\ End(c, y - 1) < m /\ m <= End(c, y)
  <2>1. End(c, y - 1) \in Nat /\ End(c, y) \in Nat
    BY <1>8, Ends
  <2> QED
    BY <1>1, <1>7, <2>1 DEF BlockTxs
<1>10. y <= h
  <2> SUFFICES ASSUME ~(y <= h) PROVE FALSE
    OBVIOUS
  <2>1. h \in 0 .. Height(c) /\ y - 1 \in h .. Height(c)
    BY <1>1, <1>7
  <2>2. End(c, h) <= End(c, y - 1)
    BY <2>1, EndsGrow
  <2> QED
    BY <1>1, <1>9, <2>2
<1> QED
  BY <1>1, <1>7, <1>9, <1>10 DEF y

\* The coins there are after m transactions, of whatever address and amount.
LEMMA CoinsAtFacts ==
  ASSUME NEW c \in Chains, NEW m \in Nat, m <= Len(c.tx)
  PROVE  /\ \A S : S \subseteq CoinsAt(c, m) => AmountsNat(c, S)
         /\ \A o \in CoinsAt(c, m) :
              /\ o = <<o[1], o[2]>> /\ o[1] \in 1 .. m /\ o[1] \in DOMAIN c.tx
              /\ o[2] \in DOMAIN c.tx[o[1]].outs
              /\ o \in KeysOf(c) /\ o \notin SpentUpTo(c, m)
              /\ Coin(c, o) \in [addr : Addr \cup {NoAddress}, amt : Nat]
<1> DEFINE T(t) == {t} \X DOMAIN c.tx[t].outs
           All == {T(t) : t \in 1 .. m}
<1>1. \A t \in 1 .. m : t \in DOMAIN c.tx
  <2>1. Len(c.tx) \in Nat /\ DOMAIN c.tx = 1 .. Len(c.tx)
    BY UpdateAssumption DEF WellFormed
  <2> QED
    BY <2>1
<1>2. IsFiniteSet(All)
  <2> DEFINE f == [t \in 1 .. m |-> T(t)]
  <2>1. f \in Surjection(1 .. m, All)
    BY DEF Surjection
  <2> QED
    BY <2>1, FS_Interval, FS_Surjection
<1>3. \A S \in All : IsFiniteSet(S)
  <2>1. ASSUME NEW t \in 1 .. m PROVE IsFiniteSet(T(t))
    <3>1. IsFiniteSet({t}) /\ IsFiniteSet(DOMAIN c.tx[t].outs)
      BY <1>1, Outputs, FS_Singleton
    <3> QED
      BY <3>1, FS_Product
  <2> QED
    BY <2>1
<1>4. IsFiniteSet(UNION All)
  BY <1>2, <1>3, FS_UNION
<1>5. CoinsAt(c, m) \in SUBSET UNION All
  BY DEF CoinsAt
<1>6. ASSUME NEW o \in CoinsAt(c, m)
      PROVE  /\ o = <<o[1], o[2]>> /\ o[1] \in 1 .. m /\ o[1] \in DOMAIN c.tx
             /\ o[2] \in DOMAIN c.tx[o[1]].outs
             /\ o \in KeysOf(c) /\ o \notin SpentUpTo(c, m)
             /\ Coin(c, o) \in [addr : Addr \cup {NoAddress}, amt : Nat]
  <2>1. PICK t \in 1 .. m : o \in {t} \X DOMAIN c.tx[t].outs
    BY DEF CoinsAt
  <2>2. o = <<o[1], o[2]>> /\ o[1] = t /\ o[1] \in DOMAIN c.tx /\ o[2] \in DOMAIN c.tx[o[1]].outs
    BY <1>1, <2>1
  <2>3. o \notin SpentUpTo(c, m)
    BY DEF CoinsAt, SpentUpTo
  <2>4. o \in KeysOf(c)
    BY <2>2 DEF KeysOf
  <2>5. Coin(c, o) \in [addr : Addr \cup {NoAddress}, amt : Nat]
    BY <2>2, Outputs DEF Coin
  <2> QED
    BY <2>2, <2>3, <2>4, <2>5
<1>7. ASSUME NEW S, S \subseteq CoinsAt(c, m) PROVE AmountsNat(c, S)
  <2>1. IsFiniteSet(S)
    BY <1>4, <1>5, <1>7, FS_Subset
  <2> QED
    BY <1>6, <1>7, <2>1 DEF AmountsNat
<1> QED
  BY <1>6, <1>7

\* Coins of no amount do not count.
LEMMA AmountPositive ==
  ASSUME NEW c, NEW S, AmountsNat(c, S)
  PROVE  AmountOf(c, S) = AmountOf(c, {o \in S : Coin(c, o).amt > 0})
<1> DEFINE Positive(T) == {o \in T : Coin(c, o).amt > 0}
           F == {T \in SUBSET S : AmountOf(c, T) # AmountOf(c, Positive(T))}
<1> SUFFICES ASSUME F # {} PROVE FALSE
  OBVIOUS
<1> HIDE DEF F
<1>1. F \subseteq SUBSET S /\ IsFiniteSet(S)
  BY DEF F, AmountsNat
<1>2. PICK T \in F : \A U \in F : U \subseteq T => U = T
  BY <1>1, SmallestSet
<1>3. T \in SUBSET S /\ AmountOf(c, T) # AmountOf(c, Positive(T))
  BY DEF F
<1>4. Positive({}) = {}
  OBVIOUS
<1>5. PICK o \in T : TRUE
  BY <1>3, <1>4
<1>6. AmountsNat(c, T) /\ AmountsNat(c, Positive(T)) /\ Coin(c, o).amt \in Nat
  BY <1>3, FS_Subset DEF AmountsNat
<1>7. AmountOf(c, T) = Coin(c, o).amt + AmountOf(c, T \ {o}) /\ AmountOf(c, T \ {o}) \in Nat
  BY <1>6, AmountWithout
<1>8. AmountOf(c, T \ {o}) = AmountOf(c, Positive(T \ {o}))
  <2>1. T \ {o} \in SUBSET S /\ T \ {o} \notin F
    BY <1>2, <1>3
  <2> QED
    BY <2>1 DEF F
<1>9. CASE Coin(c, o).amt > 0
  <2>1. o \in Positive(T) /\ Positive(T) \ {o} = Positive(T \ {o})
    BY <1>9
  <2>2. AmountOf(c, Positive(T)) = Coin(c, o).amt + AmountOf(c, Positive(T) \ {o})
    BY <1>6, <2>1, AmountWithout
  <2> QED
    BY <1>3, <1>7, <1>8, <2>1, <2>2
<1>10. CASE ~(Coin(c, o).amt > 0)
  <2>1. Positive(T) = Positive(T \ {o})
    BY <1>10
  <2>2. AmountOf(c, T) = AmountOf(c, T \ {o})
    BY <1>6, <1>7, <1>10
  <2> QED
    BY <1>3, <1>8, <2>1, <2>2
<1> QED
  BY <1>9, <1>10

\* The balance of an address is what its coins amount to, whether or not the
\* database keeps them all.
LEMMA BalanceOfCoins ==
  ASSUME NEW c \in Chains, NEW m \in Nat, m <= Len(c.tx), NEW a \in Addr
  PROVE  Balance(c, a, m) = AmountOf(c, CoinsTo(c, a, CoinsAt(c, m)))
<1> DEFINE U == {o \in Unspent(c, m) : Coin(c, o).addr = a}
           S == CoinsTo(c, a, CoinsAt(c, m))
           P == {o \in S : Coin(c, o).amt > 0}
<1>1. Balance(c, a, m) = AmountOf(c, U)
  BY DEF Balance, AmountOf
<1>2. AmountOf(c, S) = AmountOf(c, P)
  <2>1. S \subseteq CoinsAt(c, m)
    BY DEF CoinsTo
  <2>2. AmountsNat(c, S)
    BY <2>1, CoinsAtFacts
  <2> HIDE DEF S
  <2> QED
    BY <2>2, AmountPositive
<1>3. \A t \in 1 .. m : t \in DOMAIN c.tx
  <2>1. Len(c.tx) \in Nat /\ DOMAIN c.tx = 1 .. Len(c.tx)
    BY UpdateAssumption DEF WellFormed
  <2> QED
    BY <2>1
<1>4. ASSUME NEW o \in U PROVE o \in P
  <2>1. PICK t \in 1 .. m : o \in TrackedOutputs(c, t)
    BY DEF Unspent
  <2>2. o \in {t} \X DOMAIN c.tx[t].outs /\ Coin(c, o).amt > 0
    BY <1>3, <2>1, Outputs
  <2>3. o \notin UNION {Inputs(c, k) : k \in 1 .. m}
    BY DEF Unspent
  <2>4. o \in CoinsAt(c, m)
    BY <2>1, <2>2, <2>3 DEF CoinsAt
  <2> QED
    BY <2>2, <2>4 DEF CoinsTo
<1>5. ASSUME NEW o \in P PROVE o \in U
  <2>1. o \in CoinsAt(c, m) /\ Coin(c, o).addr = a /\ Coin(c, o).amt > 0
    BY DEF CoinsTo
  <2>2. o = <<o[1], o[2]>> /\ o[1] \in 1 .. m /\ o[2] \in DOMAIN c.tx[o[1]].outs
    BY <2>1, CoinsAtFacts
  <2>3. o \in TrackedOutputs(c, o[1])
    BY <2>1, <2>2, UpdateAssumption DEF TrackedOutputs, Tracked, Coin
  <2>4. o \notin UNION {Inputs(c, k) : k \in 1 .. m}
    BY <2>1 DEF CoinsAt
  <2> QED
    BY <2>1, <2>2, <2>3, <2>4 DEF Unspent
<1>6. U = P
  BY <1>4, <1>5
<1> QED
  BY <1>1, <1>2, <1>6

-----------------------------------------------------------------------------
(* The import.                                                             *)

\* Where the snapshot was taken, and the blocks noted so far end.
LEMMA SnapshotMarks ==
  ASSUME RunInv, Noted
  PROVE  /\ chain \in Chains /\ Start \in Nat /\ Until \in Nat /\ Start <= Until
         /\ Until <= Len(chain.tx) /\ top \in Nat /\ snapshot \in Nat
         /\ snapshot \in 0 .. Height(chain) /\ top <= snapshot
<1>1. /\ chain \in Chains /\ Height(chain) \in Nat /\ height \in 1 .. Height(chain)
      /\ snapshot \in 1 .. height /\ top \in 0 .. snapshot
  BY Ends DEF RunInv, Noted
<1>2. /\ snapshot \in 0 .. Height(chain) /\ top \in 0 .. Height(chain)
      /\ snapshot \in top .. Height(chain) /\ top \in Nat /\ snapshot \in Nat /\ top <= snapshot
  BY <1>1
<1>3. Start \in Nat /\ Until \in Nat /\ Until <= Len(chain.tx)
  BY <1>1, <1>2, Ends DEF Start, Until
<1>4. Start <= Until
  BY <1>1, <1>2, EndsGrow DEF Start, Until
<1> QED
  BY <1>1, <1>2, <1>3, <1>4

\* The step of an import, or any other that leaves the run outside of a block.
LEMMA RunOutside ==
  ASSUME RunInv, UNCHANGED <<chain, height>>, pc' \notin InBlock,
         last' \in Nat \cup {Missing}, LastBlock' <= height,
         txoa' = [o \in KeysOf(chain) |-> txoa'[o]]
  PROVE  RunInv'
BY DEF RunInv, InBlock

\* Nothing has been imported yet.
LEMMA InitCInv == ImportInit => CInv
<1> SUFFICES ASSUME ImportInit PROVE CInv
  OBVIOUS
<1>1. Init /\ RunInv
  BY InitIInv DEF ImportInit, IInv
<1>2. Empty
  BY <1>1 DEF Empty, ImportInit, Init
<1>3. pc = "idle" /\ last = Missing /\ bal = [a \in Addr |-> bal[a]]
  BY <1>1 DEF Init, EmptyDb
<1> QED
  BY <1>1, <1>2, <1>3 DEF CInv, Phase, ImportPcs

LEMMA OpenImportStep == CInv /\ OpenImport => CInv'
<1> SUFFICES ASSUME CInv, OpenImport PROVE CInv'
  OBVIOUS
<1>1. /\ UNCHANGED <<chain, height, bal, txoa, last, rest, top, snapshot>>
      /\ pc' = "import_open" /\ "balance" \in made'
      /\ Empty
  BY DEF OpenImport, BalanceOpen, MayOpen, nodeVars, importVars, CInv, Phase
<1>2. Empty'
  BY <1>1 DEF Empty
<1>3. RunInv'
  BY <1>1, RunOutside DEF CInv, RunInv, LastBlock, InBlock
<1>4. last' = Missing /\ bal' = [a \in Addr |-> bal'[a]]
  BY <1>1, <1>2 DEF Empty, EmptyDb
<1> QED
  BY <1>1, <1>2, <1>3, <1>4 DEF CInv, Phase, ImportPcs

\* The chainstate as it is when the import opens it is all there is to read.
LEMMA OpenImportTxoaStep == CInv /\ OpenImportTxoa => CInv'
<1> SUFFICES ASSUME CInv, OpenImportTxoa PROVE CInv'
  OBVIOUS
<1>1. /\ UNCHANGED <<chain, height, bal, txoa, last, top>>
      /\ pc = "import_open" /\ pc' = "import" /\ Empty
      /\ rest' = CoinsAt(chain, End(chain, height)) /\ snapshot' = height
  BY DEF OpenImportTxoa, nodeVars, CInv, Phase
<1>2. RunInv'
  BY <1>1, RunOutside DEF CInv, RunInv, LastBlock, InBlock
<1>3. Snapshot' = rest'
  BY <1>1 DEF Snapshot, Until
<1>4. Noted'
  <2>1. height \in Nat /\ height > 0
    BY Ends DEF CInv, RunInv
  <2> QED
    BY <1>1, <1>3, <2>1 DEF Noted, Empty
<1>5. Reading'
  <2>1. chain \in Chains /\ End(chain, height) \in Nat /\ End(chain, height) <= Len(chain.tx)
    <3>1. chain \in Chains /\ height \in 0 .. Height(chain)
      BY Ends DEF CInv, RunInv
    <3> QED
      BY <3>1, Ends
  <2>2. ASSUME NEW a \in Addr
        PROVE  /\ bal'[a] = Missing
               /\ AmountOf(chain, CoinsTo(chain, a, rest')) \in Nat
    <3>1. AmountsNat(chain, CoinsTo(chain, a, rest'))
      BY <1>1, <2>1, CoinsAtFacts DEF CoinsTo
    <3> QED
      BY <1>1, <3>1, AmountType DEF Empty, EmptyDb
  <2>3. \A o \in KeysOf(chain) : txoa'[o] = Missing
    BY <1>1 DEF Empty, EmptyDb
  <2> QED
    BY <1>1, <1>3, <2>2, <2>3 DEF Reading, Stored
<1>6. "balance" \in made' /\ last' = Missing /\ bal' = [a \in Addr |-> bal'[a]]
  <2>1. "balance" \in made'
    BY DEF OpenImportTxoa, TxoaOpen, CInv, Phase
  <2> QED
    BY <1>1, <2>1 DEF Empty, EmptyDb
<1> QED
  BY <1>1, <1>2, <1>4, <1>5, <1>6 DEF CInv, Phase, ImportPcs

LEMMA MaxOfTwo ==
  ASSUME NEW x \in Nat, NEW y \in Nat
  PROVE  /\ Max({x, y}) \in {x, y}
         /\ x <= Max({x, y}) /\ y <= Max({x, y})
<1>1. \E z \in {x, y} : \A w \in {x, y} : z >= w
  BY x <= y \/ y <= x
<1> QED
  BY <1>1 DEF Max

\* The height noted is that of a block that holds the record just read.
LEMMA NotedRecord ==
  ASSUME RunInv, Noted, NEW o \in rest, UNCHANGED <<chain, height, snapshot>>,
         rest' = rest \ {o}, top' = Max({top, BlockOf(chain, o[1])})
  PROVE  Noted'
<1>1. /\ chain \in Chains /\ Start \in Nat /\ Until \in Nat /\ Until <= Len(chain.tx)
      /\ snapshot \in 1 .. Height(chain) /\ snapshot \in Nat /\ top \in Nat /\ top <= snapshot
      /\ Height(chain) \in Nat
  <2>1. snapshot \in 0 .. Height(chain) /\ snapshot > 0 /\ chain \in Chains
    BY SnapshotMarks DEF Noted
  <2>2. Height(chain) \in Nat
    BY <2>1, Ends
  <2> QED
    BY <2>1, <2>2, SnapshotMarks
<1>2. o \in CoinsAt(chain, Until) /\ o[1] \in 1 .. Until
  <2>1. o \in CoinsAt(chain, Until)
    BY DEF Noted, Snapshot
  <2> QED
    BY <1>1, <2>1, CoinsAtFacts
<1> DEFINE h == BlockOf(chain, o[1])
<1>3. h \in 1 .. snapshot /\ o[1] <= End(chain, h)
  BY <1>1, <1>2, BlockOfTx DEF Until
<1> HIDE DEF h
<1>4. top' \in 0 .. snapshot /\ top <= top' /\ h <= top'
  BY <1>1, <1>3, MaxOfTwo DEF h
<1>5. End(chain, top) <= End(chain, top') /\ End(chain, h) <= End(chain, top')
  <2>1. top \in 0 .. Height(chain) /\ h \in 0 .. Height(chain)
        /\ top' \in top .. Height(chain) /\ top' \in h .. Height(chain)
    BY <1>1, <1>3, <1>4
  <2> QED
    BY <1>1, <2>1, EndsGrow
<1>6. End(chain, top') \in Nat /\ End(chain, top) \in Nat /\ End(chain, h) \in Nat
  <2>1. top \in 0 .. Height(chain) /\ h \in 0 .. Height(chain) /\ top' \in 0 .. Height(chain)
    BY <1>1, <1>3, <1>4
  <2> QED
    BY <1>1, <2>1, Ends
<1>7. Snapshot' = Snapshot /\ Start' = End(chain, top')
  BY DEF Snapshot, Until, Start
<1>8. ASSUME NEW x \in Snapshot \ rest' PROVE x[1] <= End(chain, top')
  <2>1. x[1] \in Nat
    BY <1>1, CoinsAtFacts DEF Snapshot
  <2>2. CASE x = o
    BY <1>2, <1>3, <1>5, <1>6, <2>1, <2>2
  <2>3. CASE x # o
    <3>1. x[1] <= End(chain, top)
      BY <2>3 DEF Noted, Start
    <3> QED
      BY <1>5, <1>6, <2>1, <3>1
  <2> QED
    BY <2>2, <2>3
<1>9. snapshot' \in 1 .. height' /\ rest' \subseteq Snapshot'
  BY <1>7 DEF Noted
<1> QED
  BY <1>4, <1>7, <1>8, <1>9 DEF Noted

\* A record that is read moves from what is left to read to the balances.
LEMMA ReadingRecord ==
  ASSUME CInv, Noted, Reading, ImportRecord
  PROVE  Reading' /\ Noted' /\ bal' = [a \in Addr |-> bal'[a]]
         /\ txoa' = [k \in KeysOf(chain) |-> txoa'[k]]
<1>1. PICK o \in rest :
        /\ rest' = rest \ {o} /\ top' = Max({top, BlockOf(chain, o[1])})
        /\ IF Coin(chain, o).addr = NoAddress
             THEN UNCHANGED <<bal, txoa>>
             ELSE /\ txoa' = Put(txoa, o, [addr |-> Coin(chain, o).addr, amt |-> NoAmount])
                  /\ bal' = Put(bal, Coin(chain, o).addr, Imported(Coin(chain, o)))
  BY DEF ImportRecord
<1>2. RunInv /\ UNCHANGED <<chain, height, snapshot>>
  BY DEF ImportRecord, CInv, nodeVars
<1>3. Noted'
  BY <1>1, <1>2, NotedRecord
<1> DEFINE a0  == Coin(chain, o).addr
           amt == Coin(chain, o).amt
           left(a) == CoinsTo(chain, a, rest)
<1>4. /\ chain \in Chains /\ Until \in Nat /\ Until <= Len(chain.tx)
      /\ rest \subseteq CoinsAt(chain, Until)
  BY <1>2, SnapshotMarks DEF Noted, Snapshot
<1>5. /\ o \in KeysOf(chain) /\ amt \in Nat /\ a0 \in Addr \cup {NoAddress}
      /\ o[1] \in Nat
  BY <1>4, CoinsAtFacts
<1>6. CoinOf(o) = Coin(chain, o)
  BY <1>5 DEF CoinOf, Maker, Coin
<1>7. ASSUME NEW a \in Addr
      PROVE  /\ AmountsNat(chain, left(a)) /\ AmountOf(chain, left(a)) \in Nat
             /\ CoinsTo(chain, a, rest') = left(a) \ {o}
             /\ a # a0 => left(a) \ {o} = left(a)
             /\ a = a0 => o \in left(a)
  <2>1. left(a) \subseteq CoinsAt(chain, Until)
    BY <1>4 DEF CoinsTo
  <2>2. AmountsNat(chain, left(a))
    BY <1>4, <2>1, CoinsAtFacts
  <2>3. AmountOf(chain, left(a)) \in Nat
    BY <2>2, AmountType
  <2> QED
    BY <1>1, <2>2, <2>3 DEF CoinsTo
<1>8. Snapshot' = Snapshot
  BY <1>2 DEF Snapshot, Until
<1>9. bal = [a \in Addr |-> bal[a]] /\ txoa = [k \in KeysOf(chain) |-> txoa[k]]
  BY DEF CInv, Phase, RunInv
<1>10. CASE a0 = NoAddress
  <2>1. UNCHANGED <<bal, txoa>>
    BY <1>1, <1>10
  <2>2. \A a \in Addr : CoinsTo(chain, a, rest') = left(a)
    BY <1>7, <1>10, UpdateAssumption
  <2>3. Reading'
    BY <1>2, <1>8, <2>1, <2>2 DEF Reading, Stored, ImportedRecord, CoinOf
  <2> QED
    BY <1>2, <1>3, <1>9, <2>1, <2>3
<1>11. CASE a0 # NoAddress
  <2>1. /\ bal' = [bal EXCEPT ![a0] = Stored(a0) + amt]
        /\ txoa' = [txoa EXCEPT ![o] = ImportedRecord(o)]
        /\ a0 \in Addr
    BY <1>1, <1>5, <1>6, <1>11 DEF Put, Imported, ImportedRecord
  <2>2. bal' = [a \in Addr |-> bal'[a]] /\ txoa' = [k \in KeysOf(chain) |-> txoa'[k]]
    BY <1>9, <2>1
  <2>3. ASSUME NEW a \in Addr
        PROVE  /\ bal'[a] \in Nat \cup {Missing}
               /\ Stored(a)' + AmountOf(chain, CoinsTo(chain, a, rest'))
                    = AmountOf(chain, CoinsTo(chain, a, Snapshot))
    <3>1. /\ bal[a] \in Nat \cup {Missing} /\ Stored(a) \in Nat
          /\ Stored(a) + AmountOf(chain, left(a)) = AmountOf(chain, CoinsTo(chain, a, Snapshot))
      BY UpdateAssumption DEF Reading, Stored
    <3>2. CASE a # a0
      <4>1. bal'[a] = bal[a]
        BY <1>9, <2>1, <3>2
      <4>2. Stored(a)' = Stored(a) /\ CoinsTo(chain, a, rest') = left(a)
        BY <1>7, <3>2, <4>1 DEF Stored
      <4> QED
        BY <3>1, <4>1, <4>2
    <3>3. CASE a = a0
      <4>1. bal'[a] = Stored(a) + amt /\ bal'[a] \in Nat
        BY <1>5, <1>9, <2>1, <3>1, <3>3
      <4>2. Stored(a)' = Stored(a) + amt
        BY <4>1, UpdateAssumption DEF Stored
      <4>3. /\ AmountOf(chain, left(a)) = amt + AmountOf(chain, left(a) \ {o})
            /\ AmountOf(chain, left(a) \ {o}) \in Nat
        BY <1>7, <3>3, AmountWithout
      <4> DEFINE x == AmountOf(chain, left(a) \ {o})
                 y == AmountOf(chain, CoinsTo(chain, a, Snapshot))
                 z == Stored(a)
                 w == amt
      <4>4. AmountOf(chain, CoinsTo(chain, a, rest')) = x
        BY <1>7
      <4>5. z \in Nat /\ x \in Nat /\ w \in Nat /\ z + (w + x) = y
        BY <1>5, <3>1, <4>3
      <4> HIDE DEF x, y, z, w
      <4>6. (z + w) + x = y
        BY <4>5
      <4> QED
        BY <4>1, <4>2, <4>4, <4>6 DEF y, z, w
    <3> QED
      BY <3>2, <3>3
  <2>4. ASSUME NEW k \in KeysOf(chain) PROVE txoa'[k] \in {Missing, ImportedRecord(k)}
    BY <1>9, <2>1 DEF Reading
  <2>5. Reading'
    BY <1>2, <1>8, <2>3, <2>4 DEF Reading, ImportedRecord, CoinOf
  <2> QED
    BY <1>3, <2>2, <2>5
<1> QED
  BY <1>10, <1>11

\* The records are read one after the other, and the last one is not.
LEMMA ImportRecordStep == CInv /\ (ImportRecord \/ ImportEnds) => CInv'
<1> SUFFICES ASSUME CInv, ImportRecord \/ ImportEnds PROVE CInv'
  OBVIOUS
<1>1. /\ pc = "import" /\ last = Missing /\ RunInv /\ Noted /\ Reading /\ "balance" \in made
      /\ bal = [a \in Addr |-> bal[a]]
  <2>1. pc = "import"
    BY DEF ImportRecord, ImportEnds
  <2> QED
    BY <2>1 DEF CInv, Phase
<1>2. UNCHANGED <<chain, height, last, made, snapshot>> /\ pc' \in {"import", "import_last"}
  BY <1>1 DEF ImportRecord, ImportEnds, nodeVars, dbVars, importVars
<1>3. /\ Reading' /\ Noted' /\ bal' = [a \in Addr |-> bal'[a]]
      /\ txoa' = [k \in KeysOf(chain) |-> txoa'[k]]
  <2>1. CASE ImportRecord
    BY <1>1, <2>1, ReadingRecord
  <2>2. CASE ImportEnds
    <3>1. UNCHANGED <<chain, height, bal, txoa, top, rest, snapshot>>
      BY <2>2 DEF ImportEnds, nodeVars, dbVars, importVars
    <3>2. Snapshot' = Snapshot /\ Start' = Start
      BY <3>1 DEF Snapshot, Until, Start
    <3>3. Noted'
      BY <1>1, <3>1, <3>2 DEF Noted
    <3>4. Reading'
      BY <1>1, <3>1, <3>2 DEF Reading, Stored, ImportedRecord, CoinOf
    <3>5. txoa' = [k \in KeysOf(chain) |-> txoa'[k]] /\ bal' = [a \in Addr |-> bal'[a]]
      BY <1>1, <3>1 DEF RunInv
    <3> QED
      BY <3>3, <3>4, <3>5
  <2> QED
    BY <2>1, <2>2
<1>4. RunInv'
  <2>1. last' \in Nat \cup {Missing} /\ LastBlock' <= height /\ pc' \notin InBlock
    BY <1>1, <1>2 DEF RunInv, LastBlock, InBlock
  <2> QED
    BY <1>1, <1>2, <1>3, <2>1, RunOutside
<1> QED
  BY <1>1, <1>2, <1>3, <1>4 DEF CInv, Phase, ImportPcs

\* What the import leaves: every coin of the snapshot is counted, but for the
\* address of the one that was thrown away.
LEMMA ImportSetLastStep == CInv /\ ImportSetLast => CInv'
<1> SUFFICES ASSUME CInv, ImportSetLast PROVE CInv'
  OBVIOUS
<1>1. /\ UNCHANGED <<chain, height, bal, txoa, made, torn, rest, top, snapshot>>
      /\ pc = "import_last" /\ pc' = "idle" /\ last' = top
  BY DEF ImportSetLast, nodeVars, boundVars, importVars
<1>2. RunInv /\ Noted /\ Reading /\ "balance" \in made /\ bal = [a \in Addr |-> bal[a]]
  BY <1>1 DEF CInv, Phase
<1>3. /\ chain \in Chains /\ Start \in Nat /\ Until \in Nat /\ Start <= Until
      /\ Until <= Len(chain.tx) /\ top \in Nat /\ snapshot \in Nat /\ top <= snapshot
  BY <1>2, SnapshotMarks
<1>4. /\ LastBlock' = top /\ last' # Missing
      /\ Base' = Start /\ InDone' = Start /\ OutDone' = Start
      /\ TakenOff' = Start /\ Added' = Start
  <2>1. LastBlock' = top /\ last' # Missing
    BY <1>1, <1>3, UpdateAssumption DEF LastBlock
  <2>2. Base' = Start
    BY <1>1, <2>1 DEF Base, Start
  <2> QED
    BY <1>1, <2>1, <2>2 DEF InDone, OutDone, TakenOff, Added, InBlock
<1>5. RunInv'
  <2>1. snapshot <= height /\ height \in Nat
    BY <1>2, Ends DEF Noted, RunInv
  <2>2. LastBlock' <= height /\ last' \in Nat \cup {Missing} /\ pc' \notin InBlock
    BY <1>1, <1>3, <1>4, <2>1 DEF InBlock
  <2> QED
    BY <1>1, <1>2, <2>2, RunOutside DEF RunInv
<1>6. Snapshot' = Snapshot /\ Start' = Start
  BY <1>1 DEF Snapshot, Until, Start
<1>7. Noted' /\ top' <= LastBlock' /\ BatchInv' /\ CountedBatch'
  BY <1>1, <1>2, <1>3, <1>4, <1>6 DEF Noted, BatchInv, CountedBatch
<1>8. KeysKnown'
  <2>1. ASSUME NEW o \in KeysOf(chain) PROVE txoa[o] \in {Missing, ImportedRecord(o)} /\ txoa[o] # CoinOf(o)
    <3>1. CoinOf(o) \in [addr : Addr \cup {NoAddress}, amt : Nat]
      BY <1>3, KeyFacts, Outputs DEF CoinOf, Coin
    <3>2. CoinOf(o) # Missing /\ CoinOf(o).amt # NoAmount
      BY <3>1, UpdateAssumption
    <3> QED
      BY <1>2, <3>2 DEF Reading, ImportedRecord
  <2>2. \A o : CoinOf(o)' = CoinOf(o) /\ ImportedRecord(o)' = ImportedRecord(o)
    BY <1>1 DEF CoinOf, ImportedRecord
  <2> QED
    BY <1>1, <2>1, <2>2 DEF KeysKnown, KeyKnown
<1>9. FreshFrom(Start)'
  <2>1. ASSUME NEW o \in KeysOf(chain) PROVE ~(Maker(o) > Start /\ Maker(o) <= Start)
    <3>1. Maker(o) \in Nat
      BY <1>3, KeyFacts, Transactions
    <3> QED
      BY <1>3, <3>1
  <2> QED
    BY <1>1, <1>4, <1>6, <2>1 DEF FreshFrom
<1>10. CountedStored'
  <2>1. ASSUME NEW a \in Addr \ Dropped
        PROVE  Stored(a) = AmountOf(chain, CoinsTo(chain, a, Snapshot))
    <3>1. CoinsTo(chain, a, rest) = {}
      BY DEF CoinsTo, Dropped
    <3>2. AmountOf(chain, {}) = 0
      BY AmountFirst, FS_EmptySet
    <3>3. Stored(a) + 0 = AmountOf(chain, CoinsTo(chain, a, Snapshot)) /\ Stored(a) \in Nat
      BY <1>2, <3>1, <3>2 DEF Reading, Stored
    <3> QED
      BY <3>3
  <2>2. ASSUME NEW a PROVE Counted(chain, Snapshot, Start, a, Start, Start) = CoinsTo(chain, a, Snapshot)
    <3>1. \A o \in Snapshot : o \notin SpentUpTo(chain, Until)
      BY <1>3, CoinsAtFacts DEF Snapshot
    <3>2. SpentUpTo(chain, Start) \subseteq SpentUpTo(chain, Until)
      BY <1>3 DEF SpentUpTo
    <3> QED
      BY <3>1, <3>2 DEF Counted, CoinsTo
  <2>3. CleanSince(TakenOff)' \subseteq Addr \ Dropped
    BY <1>1 DEF CleanSince, Clean, Dropped
  <2>4. \A a : Stored(a)' = Stored(a)
    BY <1>1 DEF Stored
  <2> QED
    BY <1>1, <1>4, <1>6, <2>1, <2>2, <2>3, <2>4 DEF CountedStored
<1>11. Updating'
  BY <1>7, <1>8, <1>9, <1>10 DEF Updating
<1> QED
  BY <1>1, <1>2, <1>4, <1>5, <1>11 DEF CInv, Phase, ImportPcs

\* Before a block is on record nothing but the node moves, or the run ends.
LEMMA WaitingStep == CInv /\ last = Missing /\ Update => CInv'
<1> SUFFICES ASSUME CInv, last = Missing, Update PROVE CInv'
  OBVIOUS
<1>1. pc \in ImportPcs \cup {"idle"} /\ RunInv
  BY DEF CInv, Phase
<1>2. /\ UNCHANGED <<chain, bal, txoa, last, made, rest, top, snapshot>>
      /\ \/ height' = height + 1 /\ pc' = pc
         \/ height' = height /\ pc' = "idle" /\ pc # "idle"
  <2>1. ~OpenUpdate /\ ~Step
    BY <1>1 DEF OpenUpdate, Step, OpenTxoa, Begin, ReadInputs, ReadOutputs, WriteTxoa,
                WriteBalance, SetLastBlock, ImportPcs
  <2> QED
    BY <2>1 DEF Update, NewBlock, Interrupt, nodeVars, dbVars, importVars
<1>3. RunInv'
  <2>1. NewBlock \/ Interrupt \/ OpenUpdate \/ Step
    BY DEF Update
  <2> QED
    BY <1>1, <2>1, RunStep DEF Next
<1>4. Empty => Empty'
  BY <1>2 DEF Empty
<1>5. Noted => Noted'
  <2>1. height \in Nat
    BY <1>1, Ends DEF RunInv
  <2>2. Snapshot' = Snapshot /\ Start' = Start
    BY <1>2 DEF Snapshot, Until, Start
  <2>3. snapshot \in 1 .. height => snapshot \in 1 .. height'
    BY <1>2, <2>1
  <2> QED
    BY <1>2, <2>2, <2>3 DEF Noted
<1>6. Reading => Reading'
  <2>1. Snapshot' = Snapshot
    BY <1>2 DEF Snapshot, Until
  <2> QED
    BY <1>2, <2>1 DEF Reading, Stored, ImportedRecord, CoinOf
<1>7. bal' = [a \in Addr |-> bal'[a]]
  BY <1>2 DEF CInv, Phase
<1>8. Phase
  BY DEF CInv
<1> QED
  BY <1>1, <1>2, <1>3, <1>4, <1>5, <1>6, <1>7, <1>8 DEF CInv, Phase, ImportPcs

-----------------------------------------------------------------------------
(* Updates over the imported databases.                                    *)

\* A coin has an amount, and so is no record that an import made, nor none.
LEMMA CoinRecord ==
  ASSUME chain \in Chains, NEW o \in KeysOf(chain)
  PROVE  /\ CoinOf(o) \in [addr : Addr \cup {NoAddress}, amt : Nat]
         /\ CoinOf(o) # Missing /\ CoinOf(o).amt # NoAmount
         /\ CoinOf(o) # ImportedRecord(o) /\ ImportedRecord(o).amt = NoAmount
<1>1. CoinOf(o) \in [addr : Addr \cup {NoAddress}, amt : Nat]
  BY KeyFacts, Outputs DEF CoinOf, Coin
<1>2. CoinOf(o) # Missing /\ CoinOf(o).amt # NoAmount
  BY <1>1, UpdateAssumption
<1>3. ImportedRecord(o).amt = NoAmount
  BY DEF ImportedRecord
<1> QED
  BY <1>1, <1>2, <1>3

\* The outputs of a transaction are spent later, if at all.
LEMMA SpentLater ==
  ASSUME chain \in Chains, NEW o, NEW m \in Nat, m <= Len(chain.tx), SpentBy(o, m)
  PROVE  Maker(o) < m
<1>1. PICK k \in 1 .. m : o \in Inputs(chain, k)
  BY DEF SpentBy
<1>2. Len(chain.tx) \in Nat /\ DOMAIN chain.tx = 1 .. Len(chain.tx)
  BY UpdateAssumption DEF WellFormed
<1>3. k \in DOMAIN chain.tx
  BY <1>2
<1>4. Maker(o) = o[1] /\ o[1] \in Nat /\ o[1] < k
  BY <1>1, <1>3, InputKey
<1> QED
  BY <1>4

\* An amount is put on record for what is made, and gone once it is spent.
LEMMA KeysKnownStep ==
  ASSUME RunInv, BatchInv, Noted, top <= LastBlock, KeysKnown, [Next]_vars, UNCHANGED importVars
  PROVE  KeysKnown'
<1>1. RunInv /\ Start \in Nat /\ Start <= Base /\ Base \in Nat /\ Limit <= Len(chain.tx)
      /\ Limit \in Nat /\ chain \in Chains /\ Len(chain.tx) \in Nat
  <2>1. chain \in Chains /\ top \in Nat /\ LastBlock \in 0 .. Height(chain) /\ top <= LastBlock
    <3>1. chain \in Chains /\ LastBlock \in Nat /\ top \in Nat
      BY Marks, SnapshotMarks
    <3>2. LastBlock <= height /\ height \in 1 .. Height(chain) /\ Height(chain) \in Nat
      BY <3>1, Ends DEF RunInv
    <3> QED
      BY <3>1, <3>2
  <2>2. top \in 0 .. Height(chain) /\ LastBlock \in top .. Height(chain)
    BY <2>1, Ends
  <2> QED
    BY <2>1, <2>2, Marks, SnapshotMarks, EndsGrow DEF Start, Base
<1>2. UNCHANGED chain /\ top' = top
  BY DEF Next, vars, Step, NewBlock, OpenCreate, OpenUpdate, OpenTxoa, Begin, ReadInputs,
         ReadOutputs, WriteTxoa, WriteBalance, SetLastBlock, Interrupt, nodeVars, importVars
<1>3. Start' = Start /\ \A o : /\ CoinOf(o)' = CoinOf(o) /\ ImportedRecord(o)' = ImportedRecord(o)
                               /\ Kept(o)' = Kept(o)
  BY <1>2 DEF Start, CoinOf, ImportedRecord, Kept
\* A step after which no more is taken for spent.
<1>4. ASSUME txoa' = txoa, InDone' <= InDone, InDone' \in Nat
      PROVE  KeysKnown'
  <2>1. InDone \in Nat
    BY <1>1, DoneTypes
  <2>2. ASSUME NEW o, ~SpentBy(o, InDone) PROVE ~SpentBy(o, InDone)'
    <3>1. ~SpentBy(o, InDone')
      BY <1>4, <2>1, <2>2, SpentMore
    <3> QED
      BY <1>2, <3>1 DEF SpentBy
  <2> QED
    BY <1>2, <1>3, <1>4, <2>2 DEF KeysKnown, KeyKnown
<1>5. CASE WriteTxoa
  <2>1. /\ UNCHANGED n /\ pc \in {"txoa_in", "txoa_out"}
        /\ txoa' = [o \in KeysOf(chain) |-> IF o \in DOMAIN txoaBatch THEN txoaBatch[o] ELSE txoa[o]]
        /\ pc' = IF pc = "txoa_in" THEN "bal_in" ELSE "bal_out"
    BY <1>1, <1>5 DEF WriteTxoa, Written, runVars, RunInv
  <2>2. n \in Nat /\ n > 0 /\ n > Start /\ n <= Len(chain.tx)
    BY <1>1, <2>1, Marks DEF InBlock
  <2>3. InDone' = n
    BY <2>1 DEF InDone, InBlock
  <2> SUFFICES ASSUME NEW o \in KeysOf(chain)
               PROVE  /\ txoa'[o] \in {Missing, CoinOf(o), ImportedRecord(o)}
                      /\ txoa'[o] = CoinOf(o) => Kept(o) /\ Maker(o) > Start /\ ~SpentBy(o, n)
    <3>1. \A o : SpentBy(o, InDone)' <=> SpentBy(o, n)
      BY <1>2, <2>3 DEF SpentBy
    <3> QED
      BY <1>2, <1>3, <3>1 DEF KeysKnown, KeyKnown
  <2>4. KeyKnown(o)
    BY DEF KeysKnown
  <2>5. CoinOf(o) # Missing
    BY <1>1, CoinRecord
  <2>6. CASE pc = "txoa_in"
    <3>1. InDone = n - 1 /\ txoaBatch = Deletions
      BY <2>6 DEF InDone, BatchInv
    <3>2. CASE o \in DOMAIN txoaBatch
      BY <2>1, <2>5, <3>1, <3>2 DEF Deletions
    <3>3. CASE o \notin DOMAIN txoaBatch
      <4>1. txoa'[o] = txoa[o]
        BY <2>1, <3>3
      <4>2. ASSUME txoa[o] = CoinOf(o) PROVE ~SpentBy(o, n)
        <5>1. o \notin Inputs(chain, n)
          BY <2>5, <3>1, <3>3, <4>2 DEF Deletions, FoundInputs, Found, Inputs
        <5>2. \A k \in 1 .. n : k = n \/ k \in 1 .. (n - 1)
          BY <2>2
        <5> QED
          BY <2>4, <3>1, <4>2, <5>1, <5>2 DEF KeyKnown, SpentBy
      <4> QED
        BY <2>4, <4>1, <4>2 DEF KeyKnown
    <3> QED
      BY <3>2, <3>3
  <2>7. CASE pc = "txoa_out"
    <3>1. InDone = n /\ txoaBatch = OutputBatch
      BY <2>7 DEF InDone, InBlock, BatchInv
    <3>2. /\ o \in DOMAIN txoaBatch => Maker(o) = n /\ Kept(o) /\ txoaBatch[o] = CoinOf(o)
      BY <1>1, <2>7, <3>1, OutputRecords DEF InBlock
    <3>3. CASE o \in DOMAIN txoaBatch
      <4>1. ~SpentBy(o, n)
        BY <1>1, <2>2, <3>2, <3>3, SpentLater
      <4> QED
        BY <2>1, <2>2, <3>2, <3>3, <4>1
    <3>4. CASE o \notin DOMAIN txoaBatch
      BY <2>1, <2>4, <3>1, <3>4 DEF KeyKnown
    <3> QED
      BY <3>3, <3>4
  <2> QED
    BY <2>1, <2>6, <2>7
<1>6. CASE WriteBalance
  <2>1. /\ UNCHANGED txoa
        /\ \/ pc = "bal_in" /\ pc' = "outputs" /\ n' = n
           \/ pc = "bal_out" /\ pc' = "inputs" /\ n' = n + 1
           \/ pc = "bal_out" /\ pc' = "set_last" /\ n' = n
    BY <1>6 DEF WriteBalance
  <2>2. n \in Nat
    BY <1>1, <2>1, Marks DEF InBlock
  <2>3. InDone' = InDone /\ InDone \in Nat
    BY <2>1, <2>2 DEF InDone, InBlock
  <2> QED
    BY <1>4, <2>1, <2>3
<1>7. CASE Interrupt
  <2>1. UNCHANGED txoa /\ InDone' = Base /\ Base <= InDone /\ Base \in Nat
    BY <1>1, <1>7, Interrupted
  <2> QED
    BY <1>4, <2>1
<1>8. CASE ~WriteTxoa /\ ~WriteBalance /\ ~Interrupt
  <2>1. UNCHANGED txoa /\ InDone' = InDone /\ InDone \in Nat
    BY <1>1, <1>8, SameDone, DoneTypes
  <2> QED
    BY <1>4, <2>1
<1> QED
  BY <1>5, <1>6, <1>7, <1>8

\* The coins that are counted can be added up.
LEMMA CountedNat ==
  ASSUME NEW c \in Chains, NEW u \in Nat, u <= Len(c.tx), NEW s, NEW a, NEW k,
         NEW m \in Nat, m <= Len(c.tx)
  PROVE  AmountsNat(c, Counted(c, CoinsAt(c, u), s, a, k, m))
<1> DEFINE A == CoinsTo(c, a, CoinsAt(c, u))
           B == Coins(c, a, 0, m)
           S == Counted(c, CoinsAt(c, u), s, a, k, m)
<1>1. AmountsNat(c, A)
  <2>1. A \subseteq CoinsAt(c, u)
    BY DEF CoinsTo
  <2> QED
    BY <2>1, CoinsAtFacts
<1>2. AmountsNat(c, B)
  BY CoinsNat
<1>3. S \in SUBSET (A \cup B)
  <2>1. SpentUpTo(c, 0) = {}
    BY DEF SpentUpTo
  <2> QED
    BY <2>1 DEF Counted, CoinsTo, Coins
<1> HIDE DEF A, B, S
<1>4. IsFiniteSet(A \cup B)
  BY <1>1, <1>2, FS_Union DEF AmountsNat
<1>5. IsFiniteSet(S)
  BY <1>3, <1>4, FS_Subset
<1> QED
  BY <1>1, <1>2, <1>3, <1>5 DEF AmountsNat, S

\* Taking off the inputs of a transaction leaves fewer coins.
LEMMA CountedSpent ==
  ASSUME NEW c \in Chains, NEW S, NEW s, NEW a, NEW m \in Nat, m > 0
  PROVE  Counted(c, S, s, a, m, m - 1) = Counted(c, S, s, a, m - 1, m - 1) \ Inputs(c, m)
<1>1. SpentUpTo(c, m) = SpentUpTo(c, m - 1) \cup Inputs(c, m)
  <2>1. 1 .. m = (1 .. (m - 1)) \cup {m}
    OBVIOUS
  <2> QED
    BY <2>1 DEF SpentUpTo
<1> QED
  BY <1>1 DEF Counted, CoinsTo

\* Adding its outputs adds those of the address, which are no imported coins.
LEMMA CountedMade ==
  ASSUME NEW c \in Chains, NEW m \in DOMAIN c.tx, NEW s \in Nat, s < m, NEW a, NEW S,
         \A o \in S : Coin(c, o).addr = a => o[1] <= s
  PROVE  LET M == {o \in TrackedOutputs(c, m) : Coin(c, o).addr = a}
         IN  /\ Counted(c, S, s, a, m, m) = Counted(c, S, s, a, m, m - 1) \cup M
             /\ \A o \in M : o \notin Counted(c, S, s, a, m, m - 1)
<1>1. m \in Nat /\ m > 0 /\ DOMAIN c.tx = 1 .. Len(c.tx) /\ Len(c.tx) \in Nat
  BY Transactions
<1>2. MadeUpTo(c, m) = MadeUpTo(c, m - 1) \cup TrackedOutputs(c, m)
  <2>1. 1 .. m = (1 .. (m - 1)) \cup {m}
    BY <1>1
  <2> QED
    BY <2>1 DEF MadeUpTo
<1>3. ASSUME NEW o \in TrackedOutputs(c, m)
      PROVE  /\ o[1] = m /\ o \notin SpentUpTo(c, m)
             /\ \A t \in 1 .. (m - 1) : o \notin TrackedOutputs(c, t)
  <2>1. o[1] = m
    BY Outputs
  <2>2. ASSUME NEW t \in 1 .. m, o \in Inputs(c, t) PROVE FALSE
    <3>1. t \in DOMAIN c.tx
      BY <1>1
    <3>2. o[1] < t
      BY <2>2, <3>1, Transactions
    <3> QED
      BY <1>1, <2>1, <3>2
  <2>3. ASSUME NEW t \in 1 .. (m - 1), o \in TrackedOutputs(c, t) PROVE FALSE
    <3>1. t \in DOMAIN c.tx
      BY <1>1
    <3>2. o[1] = t
      BY <2>3, <3>1, Outputs
    <3> QED
      BY <1>1, <2>1, <3>2
  <2> QED
    BY <2>1, <2>2, <2>3 DEF SpentUpTo
<1>4. \A t \in 1 .. s : t \in 1 .. (m - 1)
  BY <1>1
<1>5. ASSUME NEW o \in TrackedOutputs(c, m)
      PROVE  o \notin SpentUpTo(c, m) /\ o \notin MadeUpTo(c, m - 1) /\ o \notin MadeUpTo(c, s)
  BY <1>3, <1>4 DEF MadeUpTo
<1>6. \A o \in TrackedOutputs(c, m) : Coin(c, o).addr = a => o \notin S
  BY <1>1, <1>3
<1> QED
  BY <1>2, <1>5, <1>6 DEF Counted, CoinsTo

\* An address that is clean after more transactions is clean after fewer.
LEMMA CleanSinceLess ==
  ASSUME NEW k \in Int, NEW m \in Int, k <= m
  PROVE  CleanSince(m) \subseteq CleanSince(k)
<1>1. Clean(m) \subseteq Clean(k)
  BY CleanLess
<1>2. SpentSince(k) \subseteq SpentSince(m)
  <2>1. 1 .. k \subseteq 1 .. m
    OBVIOUS
  <2> QED
    BY <2>1 DEF SpentSince
<1> QED
  BY <1>1, <1>2 DEF CleanSince

\* Where a run over imported databases stands when it reads a transaction.
LEMMA AtImportedTransaction ==
  ASSUME RunInv, Noted, top <= LastBlock, pc \in InBlock
  PROVE  /\ chain \in Chains /\ n \in Nat /\ n > 0 /\ n \in DOMAIN chain.tx /\ n <= Len(chain.tx)
         /\ Start \in Nat /\ Start < n /\ Until \in Nat /\ Until <= Len(chain.tx)
         /\ \A a \in CleanSince(n) : /\ a \in CleanSince(n - 1) /\ a \in Addr /\ a \notin torn
                                     /\ a \notin Dropped /\ a \notin SpentSince(n)
<1>1. /\ chain \in Chains /\ n \in Nat /\ n > 0 /\ n \in DOMAIN chain.tx /\ n <= Len(chain.tx)
      /\ n > Base /\ Base \in Nat /\ LastBlock \in Nat /\ LastBlock <= height
      /\ Start \in Nat /\ Until \in Nat /\ Until <= Len(chain.tx) /\ top \in Nat
  BY AtTransaction, Marks, SnapshotMarks DEF RunInv
<1>2. top \in 0 .. Height(chain) /\ LastBlock \in top .. Height(chain)
  <2>1. height \in 1 .. Height(chain) /\ Height(chain) \in Nat
    BY <1>1, Ends DEF RunInv
  <2> QED
    BY <1>1, <2>1
<1>3. Start <= Base
  BY <1>1, <1>2, EndsGrow DEF Start, Base
<1>4. CleanSince(n) \subseteq CleanSince(n - 1)
  BY <1>1, CleanSinceLess
<1> QED
  BY <1>1, <1>3, <1>4 DEF CleanSince, Clean

\* A coin that the inputs are found to spend was made since the import, and
\* nothing has spent it; one that was imported and is spent excepts its address.
LEMMA ImportedInputsDeducted ==
  ASSUME RunInv, Updating, pc = "inputs", NEW a \in CleanSince(n)
  PROVE  LET after == IF Debits(a) # {} THEN Debited(a) ELSE bal[a]
         IN  (IF after = Missing THEN 0 ELSE after)
               = AmountOf(chain, Counted(chain, Snapshot, Start, a, n, n - 1))
<1> DEFINE S == Counted(chain, Snapshot, Start, a, n - 1, n - 1)
           o(j) == chain.tx[n].ins[j]
<1>1. /\ chain \in Chains /\ n \in Nat /\ n > 0 /\ n \in DOMAIN chain.tx /\ n <= Len(chain.tx)
      /\ Start \in Nat /\ Start < n /\ Until \in Nat /\ Until <= Len(chain.tx)
      /\ a \in CleanSince(n - 1) /\ a \in Addr /\ a \notin torn /\ a \notin SpentSince(n)
  BY AtImportedTransaction DEF Updating, InBlock
<1>2. DOMAIN chain.tx = 1 .. Len(chain.tx) /\ Len(chain.tx) \in Nat
  BY <1>1, Transactions
<1>3. InDone = n - 1 /\ OutDone = n - 1 /\ TakenOff = n - 1 /\ Added = n - 1
  BY DEF InDone, OutDone, TakenOff, Added, InBlock
<1>4. Stored(a) = AmountOf(chain, S)
  BY <1>1, <1>3 DEF Updating, CountedStored
<1>5. Counted(chain, Snapshot, Start, a, n, n - 1) = S \ Inputs(chain, n) /\ AmountsNat(chain, S)
  <2>1. n - 1 \in Nat /\ n - 1 <= Len(chain.tx)
    BY <1>1, <1>2
  <2> QED
    BY <1>1, <2>1, CountedSpent, CountedNat DEF Snapshot
<1>6. ASSUME NEW j \in Debits(a)
      PROVE  o(j) \in S /\ Found(j) = Coin(chain, o(j))
  <2>1. j \in DOMAIN chain.tx[n].ins /\ txoa[o(j)] # Missing /\ Found(j) = txoa[o(j)]
        /\ Found(j).addr = a /\ Found(j).amt # NoAmount /\ o(j) \in Inputs(chain, n)
    BY <1>6 DEF Debits, FoundInputs, Found, Inputs
  <2>2. /\ o(j) = <<o(j)[1], o(j)[2]>> /\ o(j)[1] \in 1 .. (n - 1)
        /\ o(j)[2] \in DOMAIN chain.tx[o(j)[1]].outs
        /\ o(j) \in KeysOf(chain) /\ Maker(o(j)) = o(j)[1] /\ CoinOf(o(j)) = Coin(chain, o(j))
    BY <1>1, <2>1, InputKey
  <2>3. KeyKnown(o(j)) /\ ImportedRecord(o(j)).amt = NoAmount
    BY <1>1, <2>2, CoinRecord DEF Updating, KeysKnown
  <2>4. /\ txoa[o(j)] = Coin(chain, o(j)) /\ Kept(o(j)) /\ Maker(o(j)) > Start
        /\ ~SpentBy(o(j), n - 1)
    BY <1>3, <2>1, <2>2, <2>3 DEF KeyKnown
  <2>5. o(j) \in TrackedOutputs(chain, o(j)[1])
    BY <2>2, <2>4 DEF TrackedOutputs, Kept, Coin
  <2>6. o(j) \notin SpentUpTo(chain, n - 1)
    BY <2>4 DEF SpentBy, SpentUpTo
  <2>7. o(j) \in MadeUpTo(chain, n - 1)
    BY <2>2, <2>5 DEF MadeUpTo
  <2>8. o(j) \notin MadeUpTo(chain, Start)
    <3> SUFFICES ASSUME NEW t \in 1 .. Start, o(j) \in TrackedOutputs(chain, t) PROVE FALSE
      BY DEF MadeUpTo
    <3>1. o(j)[1] = t
      BY DEF TrackedOutputs
    <3> QED
      BY <1>1, <2>2, <2>4, <3>1
  <2>9. o(j) \in S
    BY <2>1, <2>4, <2>6, <2>7, <2>8 DEF Counted, CoinsTo
  <2> QED
    BY <2>1, <2>4, <2>9
<1>7. ASSUME NEW x \in S \cap Inputs(chain, n)
      PROVE  \E j \in Debits(a) : o(j) = x
  <2>1. Coin(chain, x).addr = a /\ x \notin SpentUpTo(chain, n - 1) /\ x \in Inputs(chain, n)
    BY DEF Counted, CoinsTo
  <2>2. x \notin Snapshot
    <3>1. n \in 1 .. n
      BY <1>1
    <3> QED
      BY <1>1, <2>1, <3>1 DEF SpentSince, Snapshot, Until
  <2>3. x \in MadeUpTo(chain, n - 1) /\ x \notin MadeUpTo(chain, Start)
    BY <2>2 DEF Counted, CoinsTo
  <2>4. PICK t \in 1 .. (n - 1) : x \in TrackedOutputs(chain, t)
    BY <2>3 DEF MadeUpTo
  <2>5. t \notin 1 .. Start
    BY <2>3, <2>4 DEF MadeUpTo
  <2>6. /\ x[1] = t /\ Tracked(Coin(chain, x)) /\ t > Start /\ t \in DOMAIN chain.tx
        /\ x \in KeysOf(chain) /\ Maker(x) = x[1] /\ CoinOf(x) = Coin(chain, x)
    BY <1>1, <1>2, <2>1, <2>4, <2>5, Outputs, InputKey
  <2>7. ~chain.tx[x[1]].segwit
    <3>1. a \notin Untraced(chain, n) /\ n \in 1 .. n
      BY <1>1 DEF CleanSince, Clean
    <3> QED
      BY <1>1, <2>1, <3>1 DEF Untraced
  <2>8. Kept(x)
    BY <2>6, <2>7 DEF Kept, HashOf
  <2>9. ~SpentBy(x, n - 1)
    BY <2>1 DEF SpentBy, SpentUpTo
  <2>10. txoa[x] = Coin(chain, x)
    BY <1>1, <1>3, <2>1, <2>6, <2>8, <2>9 DEF Updating, FreshFrom
  <2> QED
    BY <1>1, <2>1, <2>4, <2>6, <2>10, CoinDebited
<1>8. \A x, y \in S \cap Inputs(chain, n) : x = y
  <2>1. a \notin Repeated(chain, n) /\ n \in 1 .. n
    BY <1>1 DEF CleanSince, Clean
  <2>2. \A x \in S : Coin(chain, x).addr = a
    BY DEF Counted, CoinsTo
  <2> QED
    BY <1>1, <2>1, <2>2 DEF Repeated
<1> HIDE DEF S
<1> QED
  BY <1>1, <1>4, <1>5, <1>6, <1>7, <1>8, Deducted

\* An output of a block that the snapshot had already seen is counted twice only
\* if it is of the address of the record that was thrown away.
LEMMA ImportedOutputsAdded ==
  ASSUME RunInv, Updating, pc = "outputs", NEW a \in CleanSince(n)
  PROVE  LET after == IF Credits(a) # {} THEN Credited(a) ELSE bal[a]
         IN  (IF after = Missing THEN 0 ELSE after)
               = AmountOf(chain, Counted(chain, Snapshot, Start, a, n, n))
<1> DEFINE S == Counted(chain, Snapshot, Start, a, n, n - 1)
           M == {o \in TrackedOutputs(chain, n) : Coin(chain, o).addr = a}
<1>1. /\ chain \in Chains /\ n \in Nat /\ n > 0 /\ n \in DOMAIN chain.tx /\ n <= Len(chain.tx)
      /\ Start \in Nat /\ Start < n /\ Until \in Nat /\ Until <= Len(chain.tx)
      /\ a \in Addr /\ a \notin Dropped
  BY AtImportedTransaction DEF Updating, InBlock
<1>2. Stored(a) = AmountOf(chain, S)
  BY DEF Updating, CountedStored, TakenOff, Added, InBlock
<1>3. Counted(chain, Snapshot, Start, a, n, n) = S \cup M /\ \A o \in M : o \notin S
  <2>1. \A o \in Snapshot : Coin(chain, o).addr = a => o[1] <= Start
    BY <1>1 DEF Updating, Noted, Dropped
  <2> QED
    BY <1>1, <2>1, CountedMade
<1>4. AmountsNat(chain, S \cup M)
  <2>1. AmountsNat(chain, Counted(chain, Snapshot, Start, a, n, n))
    BY <1>1, CountedNat DEF Snapshot
  <2> QED
    BY <1>3, <2>1
<1>5. \A o, p \in M : o = p
  <2>1. a \notin Repeated(chain, n) /\ n \in 1 .. n
    BY <1>1 DEF CleanSince, Clean
  <2> QED
    BY <1>1, <2>1 DEF Repeated
<1>6. /\ Credits(a) = {} => M = {}
      /\ Credits(a) # {} => /\ Credited(a) = AmountOf(chain, S \cup M)
                            /\ Credited(a) \in Nat /\ Credited(a) > 0
  BY <1>1, <1>2, <1>3, <1>4, <1>5, Increased
<1> HIDE DEF S, M
<1>7. M = {} => S \cup M = S
  OBVIOUS
<1> QED
  BY <1>2, <1>3, <1>6, <1>7, UpdateAssumption DEF Stored

LEMMA CountedBatchStep == RunInv /\ Updating /\ [Next]_vars /\ UNCHANGED importVars => CountedBatch'
<1> SUFFICES ASSUME RunInv, Updating, [Next]_vars, UNCHANGED importVars PROVE CountedBatch'
  OBVIOUS
<1> USE DEF nodeVars, dbVars, runVars, batchVars, boundVars
<1>0. UNCHANGED <<chain, rest, top, snapshot>>
  BY DEF Next, vars, Step, NewBlock, OpenCreate, OpenUpdate, OpenTxoa, Begin, ReadInputs,
         ReadOutputs, WriteTxoa, WriteBalance, SetLastBlock, Interrupt, importVars
<1>00. Snapshot' = Snapshot /\ Start' = Start
  BY <1>0 DEF Snapshot, Until, Start
\* A step that leaves the torn addresses and the transaction alone.
<1>000. ASSUME UNCHANGED <<torn, n>> PROVE CleanSince(n)' = CleanSince(n)
  BY <1>0, <1>000 DEF CleanSince, Clean, Dropped, SpentSince
\* A step that leaves the batch, its transaction and the balances alone.
<1>1. ASSUME UNCHANGED <<torn, n, bal, balBatch>>,
             pc' \in {"txoa_in", "bal_in"} => pc \in {"txoa_in", "bal_in"},
             pc' \in {"txoa_out", "bal_out"} => pc \in {"txoa_out", "bal_out"}
      PROVE  CountedBatch'
  <2>1. \A a : StoredAfter(a)' = StoredAfter(a)
    BY <1>1 DEF StoredAfter, After
  <2> QED
    BY <1>0, <1>00, <1>000, <1>1, <2>1 DEF CountedBatch, Updating
<1>2. CASE ReadInputs
  <2>1. /\ UNCHANGED <<torn, n, bal>> /\ pc = "inputs" /\ pc' = "txoa_in"
        /\ balBatch' = [a \in {x \in Addr : Debits(x) # {}} |-> Debited(a)]
    BY <1>2 DEF ReadInputs
  <2>2. ASSUME NEW a \in CleanSince(n)
        PROVE  StoredAfter(a)' = AmountOf(chain, Counted(chain, Snapshot, Start, a, n, n - 1))
    <3>1. a \in Addr
      BY DEF CleanSince, Clean
    <3>2. After(a)' = IF Debits(a) # {} THEN Debited(a) ELSE bal[a]
      BY <2>1, <3>1 DEF After
    <3> QED
      BY <2>1, <3>2, ImportedInputsDeducted DEF StoredAfter
  <2> QED
    BY <1>0, <1>00, <1>000, <2>1, <2>2 DEF CountedBatch
<1>3. CASE ReadOutputs
  <2>1. /\ UNCHANGED <<torn, n, bal>> /\ pc = "outputs" /\ pc' = "txoa_out"
        /\ balBatch' = [a \in {x \in Addr : Credits(x) # {}} |-> Credited(a)]
    BY <1>3 DEF ReadOutputs
  <2>2. ASSUME NEW a \in CleanSince(n)
        PROVE  StoredAfter(a)' = AmountOf(chain, Counted(chain, Snapshot, Start, a, n, n))
    <3>1. a \in Addr
      BY DEF CleanSince, Clean
    <3>2. After(a)' = IF Credits(a) # {} THEN Credited(a) ELSE bal[a]
      BY <2>1, <3>1 DEF After
    <3> QED
      BY <2>1, <3>2, ImportedOutputsAdded DEF StoredAfter
  <2> QED
    BY <1>0, <1>00, <1>000, <2>1, <2>2 DEF CountedBatch
<1>4. CASE WriteTxoa
  BY <1>1, <1>4 DEF WriteTxoa
<1>5. CASE NewBlock \/ UNCHANGED vars
  BY <1>1, <1>5 DEF NewBlock, vars
<1>6. CASE OpenCreate \/ OpenUpdate \/ OpenTxoa \/ Begin \/ WriteBalance \/ SetLastBlock \/ Interrupt
  <2>1. pc' \in {"open_txoa", "begin", "inputs", "starved", "outputs", "set_last", "idle"}
    BY <1>6 DEF OpenCreate, OpenUpdate, OpenTxoa, Begin, WriteBalance, SetLastBlock, Interrupt
  <2> QED
    BY <2>1 DEF CountedBatch
<1> QED
  BY <1>2, <1>3, <1>4, <1>5, <1>6 DEF Next, Step

LEMMA CountedStoredStep ==
  ASSUME RunInv, Updating, bal = [a \in Addr |-> bal[a]], [Next]_vars, UNCHANGED importVars
  PROVE  CountedStored' /\ bal' = [a \in Addr |-> bal'[a]]
<1>1. RunInv /\ UNCHANGED <<chain, rest, top, snapshot>>
  BY DEF Next, vars, Step, NewBlock, OpenCreate, OpenUpdate, OpenTxoa, Begin, ReadInputs,
         ReadOutputs, WriteTxoa, WriteBalance, SetLastBlock, Interrupt, importVars, nodeVars
<1>2. /\ Snapshot' = Snapshot /\ Start' = Start /\ Dropped' = Dropped
      /\ \A m : SpentSince(m)' = SpentSince(m)
  BY <1>1 DEF Snapshot, Until, Start, Dropped, SpentSince
<1>3. CASE WriteBalance
  <2>1. /\ UNCHANGED torn
        /\ bal' = [a \in Addr |-> After(a)]
        /\ \/ pc = "bal_in" /\ pc' = "outputs" /\ n' = n
           \/ pc = "bal_out" /\ pc' = "inputs" /\ n' = n + 1
           \/ pc = "bal_out" /\ pc' = "set_last" /\ n' = n
    BY <1>3 DEF WriteBalance, Written, After, boundVars
  <2>2. n \in Nat /\ (n + 1) - 1 = n
    BY <1>1, <2>1, Marks DEF InBlock
  <2>3. bal' = [a \in Addr |-> bal'[a]] /\ \A a \in CleanSince(n) : Stored(a)' = StoredAfter(a)
    BY <2>1 DEF CleanSince, Clean, Stored, StoredAfter
  <2>4. TakenOff' = n /\ CleanSince(TakenOff)' = CleanSince(n)
    <3>1. TakenOff' = n
      BY <2>1, <2>2 DEF TakenOff, InBlock
    <3> QED
      BY <1>1, <1>2, <2>1, <3>1 DEF CleanSince, Clean
  <2>5. CASE pc = "bal_in"
    <3>1. Added' = n - 1
      BY <2>1, <2>5 DEF Added, InBlock
    <3> QED
      BY <1>1, <1>2, <2>3, <2>4, <2>5, <3>1 DEF Updating, CountedBatch, CountedStored
  <2>6. CASE pc = "bal_out"
    <3>1. Added' = n
      BY <2>1, <2>2, <2>6 DEF Added, InBlock
    <3> QED
      BY <1>1, <1>2, <2>3, <2>4, <2>6, <3>1 DEF Updating, CountedBatch, CountedStored
  <2> QED
    BY <2>1, <2>5, <2>6
<1>4. CASE Interrupt
  <2>1. /\ UNCHANGED bal /\ TakenOff' = Base /\ Added' = Base /\ torn \subseteq torn'
        /\ Base \in Nat /\ TakenOff \in Base .. Limit /\ Added \in Base .. Limit /\ Limit \in Nat
    BY <1>1, <1>4, Interrupted
  <2> SUFFICES ASSUME NEW a \in CleanSince(TakenOff)'
               PROVE  Stored(a) = AmountOf(chain, Counted(chain, Snapshot, Start, a, Base, Base))
    BY <1>1, <1>2, <2>1 DEF CountedStored, Stored
  <2>2. /\ a \in Addr /\ a \notin torn /\ a \notin torn' /\ a \notin Dropped
        /\ a \notin SpentSince(Base) /\ a \notin Repeated(chain, Base) /\ a \notin Untraced(chain, Base)
    BY <1>1, <1>2, <2>1 DEF CleanSince, Clean
  <2>3. CASE TakenOff = Base /\ Added = Base
    BY <2>2, <2>3 DEF CleanSince, Clean, Updating, CountedStored
  <2>4. CASE \A t \in (Base + 1) .. Limit : TouchedBy(chain, t) \subseteq torn'
    <3>1. \A t \in (Base + 1) .. Limit : a \notin TouchedBy(chain, t)
      BY <2>2, <2>4
    <3>2. TakenOff \in Nat /\ Base <= TakenOff /\ TakenOff <= Limit
          /\ Added \in Nat /\ Base <= Added /\ Added <= Limit
      BY <2>1
    <3>3. /\ a \notin Repeated(chain, TakenOff) /\ a \notin Untraced(chain, TakenOff)
          /\ \A o : Coin(chain, o).addr = a =>
               /\ o \in MadeUpTo(chain, Added) <=> o \in MadeUpTo(chain, Base)
               /\ o \in SpentUpTo(chain, TakenOff) <=> o \in SpentUpTo(chain, Base)
      BY <1>1, <2>2, <3>1, <3>2, Untouched
    <3>4. a \notin SpentSince(TakenOff)
      BY <2>2, <3>3 DEF SpentSince, SpentUpTo
    <3>5. Stored(a) = AmountOf(chain, Counted(chain, Snapshot, Start, a, TakenOff, Added))
      BY <2>2, <3>3, <3>4 DEF CleanSince, Clean, Updating, CountedStored
    <3>6. Counted(chain, Snapshot, Start, a, TakenOff, Added) = Counted(chain, Snapshot, Start, a, Base, Base)
      BY <3>3 DEF Counted, CoinsTo
    <3> QED
      BY <3>5, <3>6
  <2> QED
    BY <1>1, <1>4, <2>3, <2>4, Interrupted
<1>5. CASE ~WriteBalance /\ ~Interrupt
  <2>1. UNCHANGED <<bal, torn>> /\ TakenOff' = TakenOff /\ Added' = Added
    <3>1. CASE WriteTxoa
      <4>1. /\ UNCHANGED <<bal, torn, n>>
            /\ \/ pc = "txoa_in" /\ pc' = "bal_in"
               \/ pc = "txoa_out" /\ pc' = "bal_out"
        BY <3>1 DEF WriteTxoa, runVars, boundVars
      <4> QED
        BY <4>1 DEF TakenOff, Added, InBlock
    <3>2. CASE ~WriteTxoa
      BY <1>1, <1>5, <3>2, SameDone
    <3> QED
      BY <3>1, <3>2
  <2>2. CleanSince(TakenOff)' = CleanSince(TakenOff) /\ \A a : Stored(a)' = Stored(a)
    BY <1>1, <1>2, <2>1 DEF CleanSince, Clean, Stored
  <2> QED
    BY <1>1, <1>2, <2>1, <2>2 DEF Updating, CountedStored
<1> QED
  BY <1>3, <1>4, <1>5

LEMMA UpdateStep == CInv /\ last # Missing /\ [Next]_vars /\ UNCHANGED importVars => CInv'
<1> SUFFICES ASSUME CInv, last # Missing, [Next]_vars, UNCHANGED importVars PROVE CInv'
  OBVIOUS
<1>1. /\ RunInv /\ Updating /\ bal = [a \in Addr |-> bal[a]] /\ "balance" \in made
      /\ pc \in InBlock \cup {"idle", "begin", "starved"}
  BY DEF CInv, Phase, Empty
<1>2. /\ UNCHANGED <<chain, rest, top, snapshot>> /\ made \subseteq made'
      /\ pc' \in InBlock \cup {"idle", "begin", "starved"}
      /\ \/ UNCHANGED last
         \/ last' = b /\ pc = "set_last"
  <2> USE DEF nodeVars, dbVars, importVars, InBlock
  <2>1. CASE NewBlock \/ Interrupt \/ UNCHANGED vars
    BY <1>1, <2>1 DEF NewBlock, Interrupt, vars
  <2>2. CASE OpenCreate \/ OpenUpdate \/ OpenTxoa
    BY <1>1, <2>2 DEF OpenCreate, OpenUpdate, OpenTxoa, BalanceOpen, TxoaOpen, MayOpen
  <2>3. CASE Begin
    BY <1>1, <2>3 DEF Begin
  <2>4. CASE ReadInputs \/ ReadOutputs \/ WriteTxoa
    BY <1>1, <2>4 DEF ReadInputs, ReadOutputs, WriteTxoa
  <2>5. CASE WriteBalance
    BY <1>1, <2>5 DEF WriteBalance
  <2>6. CASE SetLastBlock
    BY <1>1, <2>6 DEF SetLastBlock
  <2> QED
    BY <2>1, <2>2, <2>3, <2>4, <2>5, <2>6 DEF Next, Step
<1>3. RunInv'
  BY <1>1, RunStep
<1>4. last' # Missing /\ top' <= LastBlock'
  <2>1. top <= LastBlock /\ top \in Nat /\ LastBlock \in Nat
    BY <1>1, Marks, SnapshotMarks DEF Updating
  <2>2. CASE UNCHANGED last
    BY <1>2, <2>1, <2>2 DEF LastBlock
  <2>3. CASE last' = b /\ pc = "set_last"
    <3>1. b = LastBlock + 1 /\ b \in Nat
      BY <1>1, <2>3, Marks DEF InBlock
    <3>2. last' # Missing /\ LastBlock' = b
      BY <2>3, <3>1, UpdateAssumption DEF LastBlock
    <3> QED
      BY <1>2, <2>1, <3>1, <3>2
  <2> QED
    BY <1>2, <2>2, <2>3
<1>5. Noted'
  <2>1. height \in Nat /\ height' \in Nat /\ height <= height'
    <3>1. height \in Nat
      BY <1>1, Ends DEF RunInv
    <3>2. height' \in {height, height + 1}
      BY DEF Next, vars, Step, NewBlock, OpenCreate, OpenUpdate, OpenTxoa, Begin, ReadInputs,
             ReadOutputs, WriteTxoa, WriteBalance, SetLastBlock, Interrupt, nodeVars
    <3> QED
      BY <3>1, <3>2
  <2>2. Snapshot' = Snapshot /\ Start' = Start
    BY <1>2 DEF Snapshot, Until, Start
  <2> QED
    BY <1>1, <1>2, <2>1, <2>2 DEF Updating, Noted
<1>6. BatchInv'
  BY <1>1, BatchStep DEF Updating
<1>7. KeysKnown'
  BY <1>1, KeysKnownStep DEF Updating
<1>8. FreshFrom(Start)'
  <2>1. PICK s : s = Start
    OBVIOUS
  <2>2. FreshFrom(s)'
    BY <1>1, <2>1, FreshStep DEF Updating
  <2>3. Start' = s
    BY <1>2, <2>1 DEF Start
  <2> QED
    BY <2>2, <2>3 DEF FreshFrom
<1>9. CountedStored' /\ bal' = [a \in Addr |-> bal'[a]]
  BY <1>1, CountedStoredStep
<1>10. CountedBatch'
  BY <1>1, CountedBatchStep
<1>11. Updating'
  BY <1>4, <1>5, <1>6, <1>7, <1>8, <1>9, <1>10 DEF Updating
<1>12. pc' \notin ImportPcs /\ "balance" \in made'
  BY <1>1, <1>2 DEF ImportPcs, InBlock
<1> QED
  BY <1>2, <1>3, <1>4, <1>9, <1>11, <1>12 DEF CInv, Phase, ImportPcs

LEMMA ImportStep == CInv /\ [ImportNext]_allVars => CInv'
<1> SUFFICES ASSUME CInv, [ImportNext]_allVars PROVE CInv'
  OBVIOUS
<1>1. CASE OpenImport
  BY <1>1, OpenImportStep
<1>2. CASE OpenImportTxoa
  BY <1>2, OpenImportTxoaStep
<1>3. CASE ImportRecord \/ ImportEnds
  BY <1>3, ImportRecordStep
<1>4. CASE ImportSetLast
  BY <1>4, ImportSetLastStep
<1>5. CASE Update
  <2>1. CASE last = Missing
    BY <1>5, <2>1, WaitingStep
  <2>2. CASE last # Missing
    BY <1>5, <2>2, UpdateStep DEF Update, Next
  <2> QED
    BY <2>1, <2>2
<1>6. CASE UNCHANGED allVars
  <2>1. UNCHANGED vars /\ UNCHANGED importVars
    BY <1>6 DEF allVars
  <2>2. CASE last # Missing
    BY <2>1, <2>2, UpdateStep
  <2>3. CASE last = Missing
    <3>1. /\ UNCHANGED <<chain, height, made, bal, txoa, last, pc, target, b, n, rest, top, snapshot>>
      BY <2>1 DEF vars, importVars, nodeVars, dbVars, runVars
    <3>2. RunInv'
      BY <2>1, RunStep DEF CInv
    <3>3. Snapshot' = Snapshot /\ Start' = Start
      BY <3>1 DEF Snapshot, Until, Start
    <3>4. Noted' = Noted
      BY <3>1, <3>3 DEF Noted
    <3>5. Reading' = Reading
      BY <3>1, <3>3 DEF Reading, Stored, ImportedRecord, CoinOf
    <3>6. Empty' = Empty
      BY <3>1 DEF Empty
    <3>7. Phase
      BY DEF CInv
    <3> QED
      BY <2>3, <3>1, <3>2, <3>4, <3>5, <3>6, <3>7 DEF CInv, Phase
  <2> QED
    BY <2>2, <2>3
<1> QED
  BY <1>1, <1>2, <1>3, <1>4, <1>5, <1>6 DEF ImportNext

-----------------------------------------------------------------------------
(* The theorems.                                                           *)

\* Where an import and the updates after it stand at any moment, and what the
\* databases hold then (btk_balance.c:73-196, 412-548).
THEOREM ImportInvariant == ImportSpec => []CInv
<1>1. CInv /\ [ImportNext]_allVars => CInv'
  BY ImportStep
<1> QED
  BY <1>1, InitCInv, PTL DEF ImportSpec

\* Whatever the order of the records, all that the balances lack when the
\* import ends is the one record the loop threw away (btk_balance.c:102,
\* chainstate.c:105-111): for every chain and every height of the snapshot.
THEOREM ImportLosesOneRecord == ImportSpec => []ImportLacksOneRecord
<1>1. CInv => ImportLacksOneRecord
  <2> SUFFICES ASSUME CInv, pc = "import_last", NEW a \in Addr
               PROVE  Stored(a) + Amounts({o \in rest : Coin(chain, o).addr = a})
                        = Balance(chain, a, End(chain, snapshot))
    BY DEF ImportLacksOneRecord
  <2>1. RunInv /\ Noted /\ Reading
    BY DEF CInv, Phase
  <2>2. chain \in Chains /\ Until \in Nat /\ Until <= Len(chain.tx)
    BY <2>1, SnapshotMarks
  <2>3. Balance(chain, a, Until) = AmountOf(chain, CoinsTo(chain, a, Snapshot))
    BY <2>2, BalanceOfCoins DEF Snapshot
  <2>4. Amounts({o \in rest : Coin(chain, o).addr = a}) = AmountOf(chain, CoinsTo(chain, a, rest))
    BY DEF Amounts, AmountOf, CoinsTo
  <2> QED
    BY <2>1, <2>3, <2>4 DEF Reading, Until
<1> QED
  BY <1>1, ImportInvariant, PTL

\* After an import, and once the blocks it had hidden are applied again,
\* updates keep the balance of every address what the chain says, but for the
\* addresses that BalancesAreExact excepts, that of the record thrown away, and
\* those that spent a coin of the snapshot (txoa.c:82-104): for every chain and
\* any number of interrupted runs.
THEOREM ImportedAreExact == ImportSpec => []ImportedExactElsewhere
<1>1. CInv => ImportedExactElsewhere
  <2> DEFINE m == End(chain, b)
  <2> SUFFICES ASSUME CInv, pc = "set_last", b >= snapshot,
                      NEW a \in Addr \ (torn \cup Repeated(chain, m) \cup Untraced(chain, m)
                                         \cup Dropped \cup SpentSince(m))
               PROVE  Stored(a) = Balance(chain, a, m)
    BY DEF ImportedExactElsewhere
  <2>1. RunInv /\ Updating /\ Noted
    BY DEF CInv, Phase, ImportPcs, Updating
  <2>2. /\ chain \in Chains /\ Start \in Nat /\ Until \in Nat /\ Start <= Until
        /\ n = m /\ m \in Nat /\ m <= Len(chain.tx) /\ b \in Nat /\ b <= Height(chain)
        /\ snapshot \in Nat
    <3>1. n = Limit /\ b \in Nat /\ Limit = End(chain, b) /\ Limit \in Nat /\ Limit <= Len(chain.tx)
          /\ b <= target /\ target <= height /\ height <= Height(chain) /\ target \in Nat
      BY <2>1, Marks DEF RunInv, InBlock
    <3>2. height \in Nat /\ Height(chain) \in Nat
      BY <2>1, Ends DEF RunInv
    <3> QED
      BY <2>1, <3>1, <3>2, SnapshotMarks
  <2>3. Until <= m
    <3>1. snapshot \in 0 .. Height(chain) /\ b \in snapshot .. Height(chain)
      BY <2>1, <2>2, SnapshotMarks
    <3> QED
      BY <2>2, <3>1, EndsGrow DEF Until
  <2> HIDE DEF m
  <2> DEFINE S == Counted(chain, Snapshot, Start, a, m, m)
             U == Coins(chain, a, m, m)
             P == {o \in S : Coin(chain, o).amt > 0}
  <2>4. Stored(a) = AmountOf(chain, S)
    <3>1. TakenOff = m /\ Added = m
      BY <2>2 DEF TakenOff, Added, InBlock
    <3> QED
      BY <2>1, <3>1 DEF Updating, CountedStored, CleanSince, Clean
  <2>5. AmountOf(chain, S) = AmountOf(chain, P)
    <3>1. AmountsNat(chain, S)
      BY <2>1, <2>2, SnapshotMarks, CountedNat DEF Snapshot
    <3> HIDE DEF S
    <3> QED
      BY <3>1, AmountPositive
  <2>6. Balance(chain, a, m) = AmountOf(chain, U)
    <3>1. {o \in Unspent(chain, m) : Coin(chain, o).addr = a} = U
      BY DEF Unspent, Coins, MadeUpTo, SpentUpTo
    <3> QED
      BY <3>1 DEF Balance, AmountOf
  <2>7. \A t \in 1 .. m : t \in DOMAIN chain.tx
    <3>1. Len(chain.tx) \in Nat /\ DOMAIN chain.tx = 1 .. Len(chain.tx)
      BY <2>2, UpdateAssumption DEF WellFormed
    <3> QED
      BY <2>2, <3>1
  <2>8. ASSUME NEW o \in P PROVE o \in U
    <3>1. Coin(chain, o).addr = a /\ Coin(chain, o).amt > 0 /\ o \notin SpentUpTo(chain, m)
          /\ (o \in Snapshot \/ o \in MadeUpTo(chain, m))
      BY DEF Counted, CoinsTo
    <3>2. ASSUME o \in Snapshot PROVE o \in MadeUpTo(chain, m)
      <4>1. o = <<o[1], o[2]>> /\ o[1] \in 1 .. Until /\ o[2] \in DOMAIN chain.tx[o[1]].outs
        BY <2>1, <2>2, <3>2, SnapshotMarks, CoinsAtFacts DEF Snapshot
      <4>2. o \in TrackedOutputs(chain, o[1])
        BY <3>1, <4>1, UpdateAssumption DEF TrackedOutputs, Tracked, Coin
      <4>3. o[1] \in 1 .. m
        BY <2>2, <2>3, <4>1
      <4> QED
        BY <4>2, <4>3 DEF MadeUpTo
    <3> QED
      BY <3>1, <3>2 DEF Coins
  <2>9. ASSUME NEW o \in U PROVE o \in P
    <3>1. Coin(chain, o).addr = a /\ o \in MadeUpTo(chain, m) /\ o \notin SpentUpTo(chain, m)
      BY DEF Coins
    <3>2. PICK t \in 1 .. m : o \in TrackedOutputs(chain, t)
      BY <3>1 DEF MadeUpTo
    <3>3. Coin(chain, o).amt > 0 /\ o = <<t, o[2]>> /\ o[2] \in DOMAIN chain.tx[t].outs
      BY <2>2, <2>7, <3>2, Outputs
    <3>4. ASSUME o \in MadeUpTo(chain, Start) PROVE o \in Snapshot
      <4>1. PICK u \in 1 .. Start : o \in TrackedOutputs(chain, u)
        BY <3>4 DEF MadeUpTo
      <4>2. u = t
        BY <3>3, <4>1 DEF TrackedOutputs
      <4>3. o \in {t} \X DOMAIN chain.tx[t].outs /\ t \in 1 .. Until
        BY <2>2, <3>3, <4>1, <4>2
      <4>4. o \notin SpentUpTo(chain, Until)
        <5>1. 1 .. Until \subseteq 1 .. m
          BY <2>2, <2>3
        <5> QED
          BY <3>1, <5>1 DEF SpentUpTo
      <4> QED
        BY <4>3, <4>4 DEF Snapshot, CoinsAt, SpentUpTo
    <3> QED
      BY <3>1, <3>3, <3>4 DEF Counted, CoinsTo
  <2>10. P = U
    BY <2>8, <2>9
  <2> QED
    BY <2>4, <2>5, <2>6, <2>10
<1> QED
  BY <1>1, ImportInvariant, PTL
=============================================================================

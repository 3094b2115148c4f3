-------------------------- MODULE ChainstateImport --------------------------
(***************************************************************************)
(* "btk balance --create-from-chainstate" (ctrl_mods/btk_balance.c, lines  *)
(* 73-196; mods/chainstate.c), followed by any number of --update runs     *)
(* over the databases it built.                                            *)
(*                                                                         *)
(* The chainstate database of the bitcoin node holds one record per        *)
(* unspent output.  The command walks through it in key order, which is    *)
(* the order of the transaction hashes and so any order at all.            *)
(***************************************************************************)
EXTENDS BalanceUpdate

VARIABLES
  rest,     \* the records the iterator has not passed yet
  top,      \* block_height: the greatest height of a record read
  snapshot  \* history: the height at which the chainstate was taken, or 0

importVars == <<rest, top, snapshot>>
allVars == <<vars, importVars>>

\* The node keeps an unspent output whether or not it has an address.
CoinsAt(c, m) ==
  (UNION {{k} \X DOMAIN c.tx[k].outs : k \in 1 .. m})
    \ (UNION {Inputs(c, k) : k \in 1 .. m})

BlockOf(c, m) == CHOOSE h \in 1 .. Height(c) : m \in BlockTxs(c, h)

ImportInit ==
  /\ Init
  /\ rest = {}
  /\ top = 0
  /\ snapshot = 0

OpenImport ==
  /\ pc = "idle"
  /\ BalanceOpen(TRUE)
  /\ pc' = "import_open"
  /\ UNCHANGED <<nodeVars, bal, txoa, last, runVars, batchVars, boundVars,
                 importVars>>

\* chainstate_seek_start: from here on the chainstate is read as it is now.
OpenImportTxoa ==
  /\ pc = "import_open"
  /\ TxoaOpen(TRUE)
  /\ rest' = CoinsAt(chain, End(chain, height))
  /\ snapshot' = height
  /\ pc' = "import"
  /\ UNCHANGED <<nodeVars, bal, txoa, last, runVars, batchVars, boundVars, top>>

\* Mutant of Imported: only the last output of an address counts.
ImportedAfresh(out) == out.amt

Imported(out) == Stored(out.addr) + out.amt

(***************************************************************************)
(* chainstate_get_next reads a record, moves the iterator, and returns 0   *)
(* when no record follows: the loop takes that for the end and does not    *)
(* look at what it has just read.                                          *)
(***************************************************************************)
ImportRecord ==
  /\ pc = "import"
  /\ Cardinality(rest) > 1
  /\ \E o \in rest :
       LET out == Coin(chain, o)
       IN /\ rest' = rest \ {o}
          /\ top' = Max({top, BlockOf(chain, o[1])})
          /\ IF out.addr = NoAddress
               THEN UNCHANGED <<bal, txoa>>
               ELSE /\ txoa' = Put(txoa, o, [addr |-> out.addr, amt |-> NoAmount])
                    /\ bal' = Put(bal, out.addr, Imported(out))
  /\ UNCHANGED <<nodeVars, made, last, pc, runVars, batchVars, boundVars,
                 snapshot>>

ImportEnds ==
  /\ pc = "import"
  /\ Cardinality(rest) = 1
  /\ pc' = "import_last"
  /\ UNCHANGED <<nodeVars, dbVars, runVars, batchVars, boundVars, importVars>>

\* Mutant of ImportSetLast: the block after the last one is recorded.
ImportSetLastNext ==
  /\ pc = "import_last"
  /\ last' = top + 1
  /\ pc' = "idle"
  /\ UNCHANGED <<nodeVars, made, bal, txoa, runVars, batchVars, boundVars,
                 importVars>>

ImportSetLast ==
  /\ pc = "import_last"
  /\ last' = top
  /\ pc' = "idle"
  /\ UNCHANGED <<nodeVars, made, bal, txoa, runVars, batchVars, boundVars,
                 importVars>>

Update == (NewBlock \/ OpenUpdate \/ Step \/ Interrupt) /\ UNCHANGED importVars

ImportNext ==
  OpenImport \/ OpenImportTxoa \/ ImportRecord \/ ImportEnds \/ ImportSetLast \/ Update

ImportSpec == ImportInit /\ [][ImportNext]_allVars

-----------------------------------------------------------------------------
(* Properties.                                                             *)

Amounts(O) == MapThenSumSet(LAMBDA o : Coin(chain, o).amt, O)

(***************************************************************************)
(* When the import ends, the one record the loop threw away is all that    *)
(* the balances lack, whatever the order of the records                    *)
(* (btk_balance.c:102, chainstate.c:105-111).                              *)
(***************************************************************************)
ImportLacksOneRecord ==
  pc = "import_last" =>
    \A a \in Addr :
      Stored(a) + Amounts({o \in rest : Coin(chain, o).addr = a})
        = Balance(chain, a, End(chain, snapshot))

\* The address of the record that was thrown away.
Dropped == {Coin(chain, o).addr : o \in rest}

\* Addresses that spent a coin of the snapshot in the first m transactions.
SpentSince(m) ==
  {Coin(chain, o).addr :
     o \in CoinsAt(chain, End(chain, snapshot)) \cap
           UNION {Inputs(chain, k) : k \in 1 .. m}}

(***************************************************************************)
(* After an import, updates keep the balance of every address right except *)
(* where BalanceUpdate says, the address of the record thrown away, and    *)
(* the addresses that spend a coin of the snapshot: txoa_put stores no     *)
(* amount with it (txoa.c:104), so txoa_get cuts the address short         *)
(* (txoa.c:82-86) and nothing is deducted.  When the record thrown away    *)
(* hid the newest blocks, which are then applied again                     *)
(* (btk_balance.c:171, 188), this holds once the last of them is.          *)
(***************************************************************************)
ImportedExactElsewhere ==
  pc = "set_last" /\ b >= snapshot =>
    LET m == End(chain, b)
    IN \A a \in Addr \ (torn \cup Repeated(chain, m) \cup Untraced(chain, m)
                        \cup Dropped \cup SpentSince(m)) :
         Stored(a) = Balance(chain, a, m)
=============================================================================

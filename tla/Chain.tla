------------------------------- MODULE Chain -------------------------------
(***************************************************************************)
(* The block chain the bitcoin node serves, as the balance commands see it *)
(* (mods/block.c, transaction.c, txinput.c, txoutput.c), and what a        *)
(* database built from it ought to contain.                                *)
(*                                                                         *)
(* Transactions are numbered in chain order.  A transaction's number       *)
(* stands for its txid: the name by which later inputs refer to it.        *)
(*   c.tx[n].ins     the outputs it spends, <<number, position>> each;     *)
(*                   coinbase inputs are left out, the code skips them     *)
(*   c.tx[n].outs    its outputs: an address, or NoAddress when            *)
(*                   script_get_output_address finds none, and an amount   *)
(*   c.tx[n].segwit  whether its serialization carries witness data        *)
(*   c.end[b]        the number of the last transaction of block b         *)
(***************************************************************************)
EXTENDS Integers, Sequences, FiniteSets, FiniteSetsExt

CONSTANTS
  Addr,        \* addresses
  NoAddress    \* the empty string of script_get_output_address

End(c, b) == IF b = 0 THEN 0 ELSE c.end[b]

Height(c) == Len(c.end)

\* What the chain consists of: blocks are not empty, inputs name earlier outputs.
WellFormed(c) ==
  /\ c.tx \in Seq([ins : Seq(Nat \X Nat),
                   outs : Seq([addr : Addr \cup {NoAddress}, amt : Nat]),
                   segwit : BOOLEAN])
  /\ c.end \in Seq(Nat)
  /\ \A b \in 1 .. Height(c) : End(c, b - 1) < End(c, b)
  /\ \A b \in 1 .. Height(c) : End(c, b) <= Len(c.tx)
  /\ \A n \in DOMAIN c.tx : \A j \in DOMAIN c.tx[n].ins :
       LET o == c.tx[n].ins[j]
       IN o[1] \in 1 .. (n - 1) /\ o[2] \in DOMAIN c.tx[o[1]].outs

(***************************************************************************)
(* The hash transaction_from_raw computes covers the whole serialization,  *)
(* witness included (mods/transaction.c:102): for a segwit transaction it  *)
(* is not the txid that inputs refer to, but a name nothing refers to.     *)
(***************************************************************************)
HashOf(c, n) == IF c.tx[n].segwit THEN -n ELSE n

Inputs(c, n) == {c.tx[n].ins[j] : j \in DOMAIN c.tx[n].ins}

Coin(c, o) == c.tx[o[1]].outs[o[2]]

\* The outputs the database keeps: with an address and a positive amount.
Tracked(out) == out.addr # NoAddress /\ out.amt > 0

TrackedOutputs(c, n) ==
  {<<n, j>> : j \in {p \in DOMAIN c.tx[n].outs : Tracked(c.tx[n].outs[p])}}

\* The coins that exist after the first n transactions of the chain.
Unspent(c, n) ==
  (UNION {TrackedOutputs(c, m) : m \in 1 .. n}) \ (UNION {Inputs(c, m) : m \in 1 .. n})

Balance(c, a, n) ==
  MapThenSumSet(LAMBDA o : Coin(c, o).amt,
                {o \in Unspent(c, n) : Coin(c, o).addr = a})
=============================================================================

------------------------------ MODULE KeyValue ------------------------------
(***************************************************************************)
(* The leveldb wrapper (mods/database.c) as the balance and txoa databases *)
(* use it.  A database is a function from every possible key to the value  *)
(* stored there, Missing where there is none.  A write batch is a function *)
(* from the keys it touches; a later operation of a batch on the same key  *)
(* replaces the earlier one, and a key mapped to Missing is deleted.       *)
(***************************************************************************)

CONSTANT Missing   \* what database_get yields for a key with no record

EmptyDb(K) == [k \in K |-> Missing]

\* database_open: what is to be created must not exist, and the other way round.
MayOpen(dirs, dir, create) == create <=> dir \notin dirs

EmptyBatch == [k \in {} |-> Missing]

\* database_batch_write: the whole batch takes effect at once.
Written(db, batch) ==
  [k \in DOMAIN db |-> IF k \in DOMAIN batch THEN batch[k] ELSE db[k]]

\* database_put: a batch of one record, written at once.
Put(db, key, value) == [db EXCEPT ![key] = value]
=============================================================================

----------------------------- MODULE BlockFeed -----------------------------
(***************************************************************************)
(* What one run of "btk balance --create" or "btk balance --update"        *)
(* promises about the order of its work (ctrl_mods/btk_balance.c,          *)
(* lines 197-251): blocks LastBlock+1, LastBlock+2, ... are downloaded and *)
(* then applied to the databases, each exactly once and in that order, a   *)
(* block is applied only after it was downloaded, and nothing is applied   *)
(* once the run has ended.  Threads, queue and memory are not visible here;*)
(* BlockQueue is the detailed specification.                               *)
(***************************************************************************)
EXTENDS Integers

CONSTANTS
  LastBlock,   \* args->last_block: the last block a previous run applied
  BlockCount   \* args->block_count: the height the node reported

VARIABLES
  fetched,     \* number of blocks downloaded in this run
  applied,     \* number of blocks applied in this run
  stored,      \* the "__last_block" record of the txoa database
  ended        \* the run is over, successfully or not

feedVars == <<fetched, applied, stored, ended>>

FeedInit ==
  /\ fetched = 0
  /\ applied = 0
  /\ stored = LastBlock
  /\ ended = FALSE

Fetch ==
  /\ ~ended
  /\ LastBlock + fetched < BlockCount
  /\ fetched' = fetched + 1
  /\ UNCHANGED <<applied, stored, ended>>

\* The block after the last one applied, and only that one, is recorded.
Apply ==
  /\ ~ended
  /\ applied < fetched
  /\ applied' = applied + 1
  /\ stored' = LastBlock + applied + 1
  /\ UNCHANGED <<fetched, ended>>

Stop ==
  /\ ~ended
  /\ ended' = TRUE
  /\ UNCHANGED <<fetched, applied, stored>>

FeedNext == Fetch \/ Apply \/ Stop

FeedSpec == FeedInit /\ [][FeedNext]_feedVars
============================================================================

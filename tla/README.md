# A TLA+ model of the Bitcoin Toolkit (btk)

`btk` is a command line tool in C. A run dispatches on its command, reads input
items from its arguments or from a pipe, hands each to the command and prints
the outputs. Two commands do much more than convert data: `btk balance` builds
and updates a database of the balance of every address, with two threads and two
leveldb databases, and the vanity search generates keys in many threads. All
paths below are relative to `gravedigger/src/` unless they start with `man/`.

Read the modules in the order of the table in section 3. Run a check with
`tlc -config <run>.cfg <module>` and the proofs with `tlapm <name>_proofs.tla`.

## 1. Inventory

### Balance sync: three threads and a list (`ctrl_mods/btk_balance.c` 197-410, 412-431, 526-548)

* **State.** `bc_head`, `bc_tail`, `bc_len` and a singly linked list of blocks, shared
  by two threads without a lock; the two thread ids; the registers of the threads.
* **Operations.** The main thread creates both threads and joins them. The download
  thread links a node, clears it, fetches a block over JSON-RPC, counts it, fills the
  node, sets its status, and sleeps while 100 blocks are queued. The process thread
  waits for the status of the head, applies the block, counts it off, waits for a
  successor, advances and frees the node. A thread that fails cancels the other,
  asynchronously.
* **Hard.** A node is reachable before it is initialised; the download thread reads the
  old tail after the process thread may have freed it; `bc_len` loses updates; each
  thread can cancel the other; there may be nothing to download.
* **Correct if** blocks are applied in order and once, memory in use is not freed, the
  queue stays bounded, the threads do not wait for each other for ever, and
  "Complete" is printed only when everything has been applied.

### Balance update: what a block does to the databases (`btk_balance.c` 433-523, 559-622, `mods/balance.c`, `mods/txoa.c`, `mods/database.c`)

* **State.** The balance database (address to balance), the txoa database (output to
  address and amount, and the last block applied), a write batch for each.
* **Operations.** For each transaction: gather what the inputs take away, write the txoa
  batch, write the balance batch; the same for the outputs; after the last
  transaction record the block.
* **Hard.** Up to four writes per transaction to two databases that nothing ties
  together, and a run may end between any two of them; the next run starts with
  the interrupted block again.
* **Correct if**, whatever was interrupted, the txoa database equals the unspent
  outputs of the chain, balances equal their sums, no block is skipped or
  recorded too early, and updates catch up with the node.

### Chainstate import (`btk_balance.c` 73-196, `mods/chainstate.c`, `utxokey.c`, `utxovalue.c`)

Reads the node's own database of unspent outputs once, in key order, and fills both
databases; later updates build on them. **Hard:** the iterator reports the end together
with the last record; imported txoa records have no amount. **Correct if** the balances
equal those of the snapshot and updates keep them right.

### Vanity search (`mods/gd_vanity.c`, `ctrl_mods/btk_vanity.c`)

* **State.** Worker threads with a context each (`should_exit`), one result protected by
  `result_mutex`, the atomic flag `found`, the disposition of SIGINT, a stop file.
* **Operations.** Initialise, start, get the result, stop, clean up; the worker loop; the
  signal handler.
* **Hard.** Several workers match at once; SIGINT at any moment; contexts freed while
  threads run; creation of a thread fails half-way.
* **Correct if** key and address of the result belong together, the first result stands,
  nothing is freed under a running thread, and a search that is over ends.

### Command pipeline and input readers (`btk.c`, `mods/input.c`, `mods/output.c`)

* **State.** Options; the detection buffer `pre_buffer`, the static buffer of the JSON
  reader; the list of outputs with the inputs attached to them.
* **Operations.** Dispatch; detect the format; read a line, an array, or everything;
  run the command; attach the input to its outputs; print at once or at the end.
* **Hard.** A pipe delivers bytes in any pieces; bytes read to detect the format
  belong to the first item; buffers have a fixed size; outputs of many items share a list.
* **Correct if** every item reaches the command once, whole and in order, outputs stay
  with their item, and a streaming run answers what it has received.

### Options and configuration file (`mods/opts.c`, `mods/config.c`, `ctrl_mods/btk_config.c`)

* **State.** The options of a run; the file `.btk/btk.conf`, a JSON object; `config_json`, what a run has read.
* **Operations.** Every run parses its options, reads the file and fills in what the command
  line left out; `btk config` sets, unsets or shows a key and writes the whole object back.
* **Hard.** The file is truncated before it is written; a write may be short; two
  runs may overlap; the reader's buffer is fixed; options imply one another.
* **Correct if** the file says what the commands that succeeded amount to, and a command line has one
  meaning whatever the order of its options.

### Node connection and JSON-RPC (`mods/node.c`, `message.c`, `commands/`, `jsonrpc.c`, `ctrl_mods/btk_node.c`)

* **State.** A socket, what has been read from it, a buffer that grows.
* **Operations.** Connect, write a version message or an HTTP request, read one message or all
  until the node closes, check and parse it, print the version or return the result.
* **Hard.** Answers come in pieces, damaged, cut off, of another kind or not at all; fields are
  read whatever the length of the payload.
* **Correct if** what is printed or returned is what the node sent, all of it, and the client ends
  once the node has answered or left.

### Keys and addresses (`mods/privkey.c`, `pubkey.c`, `point.c`, `address.c`, `ctrl_mods/btk_privkey.c`, `btk_pubkey.c`, `btk_address.c`)

* **State.** Static variables of the commands (types, flags, the rehash argument) and the network, which
  live from one item of the input to the next; the static numbers of `point.c`.
* **Operations.** Recognise an input, derive the key, the public key, the address; write
  them in the forms asked for; rehash.
* **Hard.** What an item leaves behind for the next; two threads in the static numbers.
* **Correct if** an item has the same answer wherever it stands, and a public key is that of its private key.

### Encodings, scripts, blocks, hashes, traces

Functions of their input: `serialize.c`, `camount.c`, `compactuint.c`, `hex.c`, `base58*.c`,
`base32.c`, `bech32.c`; `script.c`, `block.c`, `transaction.c`, `tx*.c`, `utxo*.c`; the framing of
`sha256.c` and `rmd160.c`; the trace object of `json.c`. **Hard:** boundaries of widths and
blocks, leading zeros, bytes outside a short script, keys of a trace that are also outputs.
**Correct if** what is written reads back, and two ways to the same thing agree.

### The rest

Error log and debug output; help and version; random numbers; vendored libraries (`GMP`, `cJSON`,
`QRCodeGen`); code that no build target compiles (`vanity.c`, `pattern.c`, `benchmark.c`,
`btktermio.c`, `ctrl_mods/gd_vanity.c`).

### How the parts meet

`btk.c` calls one command's `init`, `main` and `cleanup`. `btk_balance_main` owns the
threads; the download thread calls `jsonrpc.c`, which calls `node.c`; the process
thread calls `balance.c` and `txoa.c`, which share `database.c`. The composition in
the models is: BlockQueue shows that blocks reach the databases in order and once,
as BlockFeed says; BalanceUpdate takes that order for granted and models each
block's writes; ChainstateImport extends BalanceUpdate. Scripts justifies what Chain
takes for granted: how a block is read, and that a block and the chainstate name the
same address for an output. NodeClients is what BlockQueue's fetch step does.
PublicKeyRace is the part of VanitySearch's worker that VanitySearch takes as one step.

## 2. Findings

Each is a run that TLC must find violated, with a trace.

| Run | What happens |
|---|---|
| `BlockQueue_uptodate` | `--update` without a new block never ends: the process thread waits for a first node (424-427), main waits for the thread. |
| `BalanceUpdate_repeated` | A transaction that pays an address twice, or spends two of its outputs, counts only the last of them (464-475, 507-511). |
| `PublicKeyRace` | Two workers of the vanity search overwrite each other's static numbers (`point.c` 47, 87, 178); `pubkey_get` checks `points[i]` instead of the sum (`pubkey.c` 112), so a wrong public key, and with it an address without a known private key, can be reported. |

The passing runs hold *because* their properties name further weaknesses as
exceptions; each is visible in a named definition:

* `CompleteMeansApplied`: when both threads fail, each can cancel the other before either
  returns its error; "Complete" is printed and blocks are missing (233-250).
* `TailFreedOnlyInWindow`: between lines 358 and 364 the download thread may use a freed
  tail (`ClearNode`, second disjunct).
* `Misled`: a status read before `memset` may be garbage; with garbage equal to
  `CHAIN_STATUS_FINAL` the process thread would end early and "Complete" be printed. The
  instance excludes that value, the theorems assume it away.
* `CancelProcess`: the download thread may cancel a process thread that does not exist yet;
  `CancelDownload`: a process thread that fails while main joins it cancels a download
  thread that main has joined. Both are undefined, and may crash the program.
* `torn`: an interruption inside a block leaves balances of its addresses wrong for
  good: the block is applied again from its start.
* `Untraced`: the hash of a segwit transaction covers its witness (`transaction.c` 102),
  so its outputs are never found again and never deducted.
* `ImportLacksOneRecord`: the last record of the chainstate is read and thrown away
  (102; `chainstate.c` 105-111).
* `SpentSince`: imported records have no amount, and their spends are never deducted
  (`txoa.c` 82-104).
* `SearchEnds` claims an end for a found or stopped search only: when all workers have
  ended without a result, the client goes on polling (`btk_vanity.c` 114-127).
* `CreateFails` in VanitySearch: contexts are freed under running threads
  (`gd_vanity.c` 300-308); `JoinNoThread`: threads are joined twice; `Signal` may follow
  a freed array.
* `StreamAnswered`, `ListAccepted`: a JSON array that arrives in two pieces is refused as
  invalid, and one behind another waits for the next read (`input.c` 173-193).
* `CrashCauses`: `btk vanity` calls a null `command_init` (`btk.c` 132, 154), so that
  `btk_vanity_main` is reached only if that is repaired; `--trace` with detected binary
  input fails an assertion; `input_get` overruns its buffer after a short read.
* `Overruns` in KeyCommands: a decimal key of more than 64 hexadecimal digits is written
  behind its buffer (`privkey.c` 320-327) before it is refused. `Parse` in TraceOutput: the
  101st of nested keys is written behind `input_list` (`input.c` 275).
* `clean` in Configuration: overlapping writers lose updates, and a kill or a full disk
  between truncation and write leaves a file that no later command accepts, `config --set`
  included (`UnreadableForGood`).
* `CrashHasCause`: unknown hosts in some C libraries (`node.c` 60), a verack or an empty
  version (`btk_node.c` 97), a version cut short (`version.c`), one without a user agent, whose pointer is
  stale (118): it may crash, fail, or be printed with whatever is found there.
* `Unsettled` and `TypeAt` in KeyCommands: the compression flag of a key made of a string is
  what memory held (`privkey.c` 380), and the first guess decides the type of
  all later items (`btk_privkey.c` 166).
* `ReadOutside` in TextConversions: scripts whose address depends on bytes around them (`script.c` 314, 345).
* `Clean` in TextConversions: traces in which an output is also an input with other letters.
* Of the main function of `gd_vanity.c`: it looks at `found` only, so SIGINT stops its
  workers and leaves it waiting. A program can link this `main` or `btk.c`'s, not both.

## 3. Modules

| Module | Models | State and actions in the code |
|---|---|---|
| `BlockFeed` | What a run promises about the order of its work | abstract: `fetched`, `applied`, `stored`, `ended` |
| `BlockQueue` | The three threads and the list | one variable per shared field and per register; one action per access another thread can observe |
| `MCBlockQueue` | Contents of fresh memory for TLC | - |
| `BlockQueue_proofs`, `ChainstateImport_proofs` (and of BalanceUpdate), `VanitySearch_proofs`, `NodeClients_proofs`, `Configuration_proofs`, `CommandPipeline_proofs`, `KeyCommands_proofs`, `Conversions_proofs` | Inductive invariants, lemmas about the operators, theorems | - |
| `KeyValue` | `database.c`: get, put, batches | operators on functions from keys to values |
| `Chain` | The node's chain and the truth about it: `Unspent`, `Balance` | `block_from_raw`, `transaction_from_raw`, ... |
| `BalanceUpdate` | A run's writes, interruptions, later runs | `bal`, `txoa`, `last` are the databases; `ReadInputs`, `WriteTxoa`, `WriteBalance`, `ReadOutputs`, `SetLastBlock` follow `btk_balance_process`; `OpenCreate`, `OpenTxoa`, `OpenUpdate` follow `btk_balance_init` |
| `MCBalanceUpdate` | Chains for TLC | - |
| `ChainstateImport` | Import and the updates after it | `rest` is what the iterator has before it |
| `MCChainstateImport` | the same chains, and chains that spend imported coins | - |
| `VanitySearch` | Both clients, workers, signal, stop file | one action per lock, store, test of a flag, and call |
| `InputText` | What an input means: lines, arrays, format | a byte is its kind, an item the positions of its bytes |
| `CommandFilter` | What the pipeline promises about items and answers | abstract: `taken`, `waiting`, `shown`, `ended` |
| `CommandPipeline` | Dispatch, readers, loops, outputs | `pre`, `buffer`, `room` are the buffers of `input.c`; `pending`, `output` the lists of `main`; `Send` and `Close` are the writer of the pipe |
| `MCCommandPipeline` | Inputs for TLC | - |
| `Configuration` | The configuration file and the runs that read and rewrite it | `file` is its text and object; `SetConfig`, `Change`, `Truncate`, `Write`, `ShortWrite`, `Kill` follow `opts_set_config`, `btk_config_main`, `config_write` |
| `NodeMessages` | Messages of the bitcoin protocol, requests and answers of JSON-RPC | operators named after the functions of `message.c`, `version.c`, `jsonrpc.c` |
| `NodeClients` | `btk node` and a JSON-RPC call against a node | `sent`, `peer` are the node's; `total`, `room` the reader's `read_total`, `buf_size`; one action per call of `read` |
| `Keys` | What `privkey.c`, `pubkey.c`, `address.c` read and write | an input is its kind and what it holds, never characters |
| `KeyCommands` | `btk privkey`, `pubkey`, `address`, `balance` on a list of items | `nets` and `answers` per item; what the static variables carry over |
| `Points` | `point.c` and `pubkey_get` over a small curve | operators |
| `PublicKeyRace` | Workers inside `pubkey_get` | one action per call on a static number |
| `Bytes`, `Texts` | `serialize.c`, `camount.c`, `compactuint.c`, `hex.c`; `base58*.c`, `base32.c`, `bech32.c` | operators, over a base that is a constant |
| `Scripts` | Blocks, transactions, coins and scripts, byte by byte | operators |
| `Hashes` | The framing of SHA-256 and RIPEMD-160 | a context as the C structure; the state is the row of blocks compressed |
| `Options` | `opts.c` with `opts_set_config`, `btk_init`, the init functions | a flag is a pair of a group and a name |
| `TraceOutput` | `json_add_output`, `btk_print_output`, `input_parse_from_json` | objects as sequences of pairs |
| `Conversions` | Bytes, Hashes, Keys, Points and Options, one input at a time, against reference definitions | a step takes an input or puts it back |
| `TextConversions` | the same of Texts, Scripts and TraceOutput | - |
| `MCConfiguration`, `MCNodeClients`, `MCKeyCommands`, `MCPublicKeyRace`, `MCConversions` | Inputs for TLC | - |

Modelling decisions that matter:

* BlockQueue names the node of block *b* by *b*. Address reuse by `malloc` is not an
  identity question here: a pointer to a freed node dangles whatever now lies there.
  Stores become visible in program order: the build does not optimise and targets x86.
* A store to freed memory has the outcomes the build can produce: the old contents are
  still there, or the program is lost (`crashed`), after which nothing is claimed.
* BalanceUpdate reads a transaction's inputs in one step and its outputs in another;
  only the process thread touches the databases, and the batches are its own.
* VanitySearch names a key after the worker that made it, and takes the derivation of its
  address as one step that depends on nothing else; PublicKeyRace shows where that is wrong.
* Configuration names a value by the length of its text: how much of a text fits the buffer
  or a torn write is all that differs.
* In NodeMessages a field is one unit of the raw form; a message whose length is near 2^32,
  for which `MESSAGE_MIN_SIZE + payload_len` wraps around, is left out.
* Bytes, Texts, Scripts and Hashes have the number of values of a byte, the length of a hash, of
  a block and of a coordinate as constants. The code's loops do not depend on these numbers;
  where it compares with one (marks of compact numbers, lengths, opcodes) so does the model.
* A compression function is left as a row of blocks: two digests are equal only if
  the same blocks were compressed in the same order. Checksums and hashes elsewhere are functions
  that tell the inputs of the instance apart.
* CommandPipeline treats reading byte by byte up to a newline as one step: the pipe has one
  reader, and when the step is possible is exactly when the last of its reads returns.

## 4. Runs

| Run | Instance | Shows |
|---|---|---|
| `BlockQueue` | 4 blocks after block 2, cap 2, fresh memory zero, READY, or another word | in-order, once-only application (`ImplementsFeed`), the use-after-free window is the only one, bounded queue, stalls need lost updates, "Complete" and its one exception, termination |
| `BlockQueue_uptodate` | no new block | finding |
| `BalanceUpdate` | every chain of 3 blocks and 4 transactions over 2 addresses from `MCBalanceUpdate`, 2 interruptions anywhere | `TxoaExact`, `BalanceExactElsewhere`, `RecordsInOrder`, `CatchesUp` |
| `BalanceUpdate_repeated` | legacy chains | finding |
| `ChainstateImport` | all chains, the ones that spend imported coins included, snapshot at any height, records in any order, 1 interruption | exactly one record is lost, and what updates do over an import |
| `VanitySearch` | 3 workers, both clients, 1 SIGINT, stop file at any time | result of one worker, first result wins, contexts outlive workers, found or stopped searches end |
| `CommandPipeline` | 60-odd inputs of up to 6 bytes, buffer of 4, every combination of options, every way to cut the input into pieces, writers that stop | items in order, each answered as CommandFilter says, refusals and crashes have the named causes, lines and arrays are answered, runs end |
| `Configuration` | 3 runs, two at a time, two valid keys and one that is not, values of length 1 and 2, a buffer of 7, files written by hand | the file adds up, balance runs use it, an unreadable file stays so |
| `NodeClients` | two versions, up to two units missing, damaged or not, a second message behind it; 30 answers of JSON-RPC, requests shorter and longer than the buffer; every way to cut them into pieces, the node leaving at any moment | what is printed or returned was sent, crashes have the named causes, clients end |
| `KeyCommands` | lists of up to 3 of 10 texts, every option set that matters to each command | same item same answer, networks, rehashing |
| `Conversions` | numbers around every width and mark; rows of up to 4 bytes; messages of up to 20 bytes in three parts with blocks of 6; all keys of 3 digits; all points of a curve of 31; 993 scripts; coins, blocks of two transactions; 14775 command lines, those of `balance` with three configurations; 8156 traces, of up to one input more than fit in `input_list` | round trips and agreements of every conversion |
| `PublicKeyRace` | two workers, keys of two bits | finding |

**Why the bounds suffice.** The list of BlockQueue matters through its head, its tail and
one node between: with four blocks and a cap of two the download thread is throttled,
catches up with and falls behind the process thread, and two decrements can be lost, which
is more than `Cap - 1`, so that stalls do occur. The safety properties of BlockQueue,
BalanceUpdate, ChainstateImport, VanitySearch, NodeClients, Configuration, CommandPipeline
and KeyCommands are proved for all values (section 5), so that the bounds of their runs
matter for liveness only, and for the actions to fire. In BalanceUpdate the causes of a
wrong balance relate one transaction to an earlier one, to itself, or to a replay of its
block; three blocks, the middle one with two transactions of which the second may spend the
first, give all of these, and a block before and after. A second interruption lets a replay
be interrupted again. In VanitySearch three workers allow a winner, a waiter on the mutex,
and one not yet created; joining twice and signals between any two calls occur. A buffer of
four holds one array and the start of the next, and is exceeded by lines, arrays, detection
and binary input of the instance. In Configuration two keys of length two fill the buffer
and one key leaves room, two runs overlap, and the third meets what they left. In
NodeClients the first buffer holds two units, so that it grows several times and is full
exactly at the end of some answers; a request of 10 units fits or is cut inside its data. In
KeyCommands a list of three has an item before and one behind the item whose state carries
over. In Conversions 16 byte values keep every mark, width and opcode apart; a digest of 20
bytes has up to four blocks, with the length behind the last byte, in a block of its own,
and larger than one word. PublicKeyRace needs one doubling and one addition to go wrong.
Every action and disjunct of each next-state relation fires in the passing runs.

**Deadlock** is not checked: every run of these programs ends, and the databases of an
interrupted `--create` are refused by both `--create` and `--update` for ever. Only
Conversions, which puts each input back, cannot stop.

**Fairness.**
* BlockQueue: weak fairness of each thread and of cancellation. Threads are scheduled,
  `sleep` ends, a cancellation with asynchronous type is delivered. That the fetch step is
  taken assumes that the node answers or fails; `node_read` has no time limit. `Termination`
  is conditional: fewer than `Cap - 1` lost decrements, no misread status.
* BalanceUpdate: a started run goes on, and the user keeps running `--update`.
* VanitySearch: weak fairness per thread. A worker takes `result_mutex` at most once, so
  nobody waits for it for ever. No signal, stop file or match has to come.
* NodeClients: weak fairness of the client only. Nothing is assumed of the node, so
  `ClientEnds` claims an end only once the node has answered, closed or broken the
  connection.
* CommandPipeline: the program goes on when it can; no read and no command need fail (a run
  that is blocked is not rescued by an error); the writer may stop at any byte and never
  close.

**Mutants.** Each property of a passing run has a mutant of the code that breaks it, listed
in `PROJECT.json`; the mutated operators stand next to the original ones in the modules.

## 5. Proofs

### `BlockQueue_proofs`

For every `LastBlock`, `BlockCount`, `Cap > 1` and every set `Fresh` of natural numbers that
uninitialised memory may hold (`QueueAssumption`):

| Theorem | States |
|---|---|
| `Invariant` | `Spec => []IInv` |
| `TypeCorrect` | `Spec => []TypeOK` |
| `TailSafe` | `Spec => []TailFreedOnlyInWindow` |
| `Bounded` | `Spec => []QueueBounded` |
| `StallFree` | `FINAL \notin Fresh => (Spec => []StallNeedsDrift)` |
| `CompleteSafe` | `FINAL \notin Fresh => (Spec => []CompleteMeansApplied)` |
| `Refinement` | `Spec => ImplementsFeed` (BlockQueue implements BlockFeed) |

The safety properties are not inductive. That the tail is live, for instance, depends on
where both threads stand and on which nodes are linked. `IInv` adds, beside `TypeOK`:

* `ListInv`, over `NodeInv(b)` for each block: nodes before the head are freed, from the
  head to the tail they are allocated and each links to the next, behind `i` there is none;
  a status that was stored comes after its block;
* `DownloadInv`: which node the download thread works on at each of its steps, and what is
  in it;
* `ProcessInv`: `stored = LastBlock + applied`, and `applied` follows the head;
* `CounterInv`: where each thread stands in its increment or decrement, so that `bc_len`
  never passes the cap however updates are lost;
* `ThreadInv`: which thread has cancelled which, and what main may conclude.

Each part has a lemma saying that a step preserves it (`TypeStep`, `ListStep`, ...), with
one case per action, and `AllocFacts`, `AdvanceFacts` carry the facts that several parts
need of the two actions that change the list. `Refinement` shows that every step is a fetch,
an apply, a stop or a stutter of BlockFeed. The invariant was model-checked before it was
proved. `FINAL \notin Fresh` is needed: otherwise a garbage status ends the process thread
early.

### `ChainstateImport_proofs`: BalanceUpdate

For every set of well-formed chains and every bound on the interruptions
(`UpdateAssumption`: a transaction spends outputs of earlier ones; "no record" is not a
record. The bound itself is never used):

| Theorem | States |
|---|---|
| `UpdateInvariant` | `Spec => []IInv` |
| `TxoaIsExact` | `Spec => []TxoaExact` |
| `RecordedInOrder` | `Spec => RecordsInOrder` |
| `BalanceInvariant` | `Spec => []BInv` |
| `BalancesAreExact` | `Spec => []BalanceExactElsewhere` |

`TxoaExact` speaks of one moment, after the last transaction of a block. In between, the
database is a mixture: an interrupted run has deleted outputs that the replay of the block
has not made again, and has made outputs the replay has not come to. `KeyInv` says what
holds of a key all the time. `InDone` and `OutDone` are how far this run (or the recorded
blocks, `Base`) has applied inputs and outputs, and `Limit` is where the block after the
recorded ones ends:

* a record is the coin of its key, and nothing is kept under a key the code never stores;
* nothing made after `Limit`, and nothing spent up to `InDone`, has a record;
* what was made up to `OutDone` has its record, unless the block itself spends it.

At `set_last` the three bounds meet in the end of the block, and `KeyInv` is `Expected`. An
interruption only lowers `InDone` and `OutDone` to `Base`, which asks less (`KeysKept`);
recording the block raises `Limit`, which asks less again (`KeysRecorded`); the two batch
writes are `KeysSpent` and `KeysMade`. `RunInv` adds that a run applies the block after the
last on record, and `BatchInv` what its batch holds.

`BalanceExactElsewhere` needs the balance of every address at every step. `BInv` adds to
`IInv`:

* `BalanceInv`: the balance of an address that no interruption and none of the two named
  causes has touched is the sum of the coins made up to `Added` and not spent up to
  `TakenOff`, or no record where that is zero; while a batch is being filled, `After` says
  it of what the batch will leave;
* `FreshInv`: the coins of such an address are all on record until they are spent, so that a
  spend finds the amount it takes off.

`Balance` sums over a set with a fold of the community modules. `AmountOf` is that sum; that
it is the same whichever element it begins with (`AmountFirst`, `AmountWithout`) is proved
once, from the recursion in the fold's definition and by taking a set for which it fails and
no subset does, since the induction theorems of the library cannot be used here.

### `ChainstateImport_proofs`: the import

For the same chains, every snapshot and every order of the records:

| Theorem | States |
|---|---|
| `ImportInvariant` | `Spec => []CInv` |
| `ImportLosesOneRecord` | `Spec => []ImportLacksOneRecord` |
| `ImportedAreExact` | `Spec => []ImportedExactElsewhere` |

`CInv` is `RunInv`, from BalanceUpdate, and `Phase`. While the records are read (`Reading`),
what is left to read is what the balances lack. Once a block is recorded (`Updating`), a
record with an amount is one of a coin made since (`KeysKnown`), and the balance of an
address none of the causes touches is that of the records read plus what was made and minus
what was spent since (`CountedStored`, `CountedBatch`). The proof attempt showed that
`ImportedExactElsewhere` as first stated was false: the import notes the height of its
*youngest record*, which may lie below the block the chainstate was saved at. Blocks between
the two are applied over coins that already lack what they spend, so that nothing can be
claimed before the block of the snapshot is passed (`b >= snapshot`); the chains checked
then had no such blocks, and now do.

### `NodeClients_proofs`

For all versions, answers, buffer sizes and ways to cut the answer into reads
(`ClientsAssumption`):

| Theorem | States |
|---|---|
| `ClientInvariant` | `Spec => []NInv` |
| `PrintsFirstMessage` | `Spec => []PrintedIsFirstMessage` |
| `ReturnsWholeAnswer` | `Spec => []ResultIsWholeAnswer` |
| `CrashesHaveCauses` | `Spec => []CrashHasCause` |

`btk node` prints the first message although others may follow in the same read: `Places`
bounds `total` by the length of that message once its header is there, because the client
asks for no more than that. For a JSON-RPC call `Answered` says that the node has sent
nothing before the request was whole; an object that parses then stands whole in what has
arrived.

### `Configuration_proofs`

For any number of runs and keys, any values and any file at first
(`ConfigurationAssumption`):

| Theorem | States |
|---|---|
| `FileInvariant` | `Spec => []FileInv` |
| `SettingsAddUp` | `Spec => []CommandsAddUp` |
| `BalanceUsesSettings` | `Spec => []BalanceSettings` |
| `UnreadableStaysSo` | `Spec => UnreadableForGood` |

`FileInv` claims `Tidy` while nobody was interrupted, cut short or overlapped at the wrong
moment: one run at most is about to write; what it has in memory is what the commands amount
to once it succeeds; the file is empty while that run stands between truncation and write
and holds the sum of the commands otherwise, without any key twice.

### `CommandPipeline_proofs`

For every set of inputs, buffer size and number of outputs, and every way to cut an input
into reads (`PipelineAssumption`):

| Theorem | States |
|---|---|
| `PipelineInvariant` | `Spec => []PipeInv` |
| `ItemsHandedInOrder` | `Spec => []ItemsInOrder` |
| `OutputsInOrder` | `Spec => []OutputsFollowItems` |
| `RunsAreFiltered` | `Spec => ImplementsFilter` (CommandPipeline implements CommandFilter) |
| `ListsAreAccepted` | `Spec => []ListAccepted` |
| `CrashesAreExplained` | `Spec => []CrashCauses` |

`ItemsInOrder` compares the items with those of the whole input. `ListRead`, `JsonRead` and
`BinaryRead` say it of every moment: the items so far are the lines, or the strings of the
arrays, of what has been read without the bytes still in the buffer, and the buffer is the
last stretch of what has been read. For binary input `room` is known as long as no read was
short, which is the named cause of the overrun. `Way`, `Fresh` and `Detected` say which
reader may be at work and what the format detection has read ahead of it; `Attributed` keeps
the outputs with their inputs. What the input means (`LinesTo`, `StringsTo`) is a recursive
function over the positions of the text; that such a function exists and obeys its recursion
is proved for each by taking the smallest position where it would not.

`RunsAreFiltered` maps `done`, `output` and `printed` to `taken`, `waiting` and `shown`.
`ProcessItem` is `Take` (or `Fail`, when printing kills the run), `NoMoreItems` is `Show` or
nothing, `Finish` is `Complete` or `Fail`, whatever else ends the run is `Fail`, and the
writer of the pipe and the readers are not seen. That the item handed on is the *next* one is
not visible in `ProcessItem`: it follows from `ItemsInOrder` before and after the step
(`NextIsHead`); that outputs of earlier items keep their input, from `Attributed`
(`ProcessTakes`); and that a run that succeeds has taken every item, from `ItemsInOrder`
after `Finish`. `OutputsFollowItems` is what remains of this in one state; it is proved, and
the run checks `ImplementsFilter` instead.

### `KeyCommands_proofs`

For every set of texts and of options, every length of a list, and every hash function
(`KeyCommandsAssumption`):

| Theorem | States |
|---|---|
| `KeyInvariant` | `Spec => []KeyInv` |
| `SameAnswers` | `Spec => []SameItemSameAnswer` |
| `AnswersOfNetwork` | `Spec => []NetworkOfAnswers` |
| `RehashedAsAsked` | `Spec => []RehashesAsAsked` |

`KeyInv` has two parts: `Statics` is what one item leaves behind for the next (the type is
that of the options or decimal, the flags imply the options, the rehash list is whole again,
the network is that of the last WIF), and `Answered` says of each answer so far that it is
one its item, type and network allow. `SameAnswers` follows since what a text may be read as
differs in the flag of a hashed string at most (`ReadIs`). For `RehashedAsAsked`,
`RehashListIs` shows that the list collected is what was asked for, `SortedIs` that sorting
leaves each number once at its place, `HashedDataIs` that hashing on from one number to the
next comes to the same as hashing afresh. `KeyCommandsAssumption` takes a wildcard at most
once in a list (section 6), and compression flags only of the two commands that have the
option. `NetworkOfAnswers` was corrected when its proof failed: an address command does not
know the type `string` and guesses, so that a WIF among its items still sets the network.

### `Conversions_proofs`

For every command and every row of options, of any length and with any values
(`ConversionsAssumption`: the command is one btk has, the options are what `getopt_long`
returns, what is configured are keys of the file `opts_set_config` looks for); for every message, of any length, every block and every word (`HashAssumption`:
two words of whole bytes fit in a block; `BytesAssumption`: a byte has an even number of
values, more than four); and for every number of eight bytes (`NumbersAssumption`, which adds
that a byte has two hexadecimal digits, and that an amount fits in eight bytes when it is
compressed, as every amount of coins does):

| Theorem | States |
|---|---|
| `OptionsMeanOneThing` | `Spec => []OptionsOneMeaning` |
| `DigestsAreStandard` | `Spec => []DigestsAgree` |
| `NumbersRoundTrip` | `Spec => []NumbersReadBack` |

The state machine only takes inputs, so the arguments are about the operators.

*Options.* `ReadUpto` says what
the first *k* options come to: they are refused if and only if one of them is refused
whatever stands before it (`Refusing`) or a value that is kept comes twice; otherwise the
flags are the union of what each adds and the number of threads is the last one given. None
of this but the last depends on the order (`OrderMeansNothing`). Induction over the row is
taken by its smallest prefix for which this fails (`ReadSoFar`). `Together` is what no option
breaks: a type of bytes and the binary format of the input come in pairs, raw output brings
its format along, and a command has only the flags it permits. `Ready` is what is left after
`btk_init`, and the init function of each command keeps it (`InitMeans`). That a trace never
meets `--create` or binary input, for example, needs all three: the pair from `Together`, the
refusal from `btk_init`, and that no init function sets a flag of either kind afterwards.

*Digests.* `Reached(S, ctx, message)` is the invariant of a context that was handed
`message`: the message is a row of whole blocks, which are the ones compressed so far, and a
rest shorter than a block, which stands at the head of the buffer whatever is behind it; and
the two words hold the length in bits, modulo a word each. `InitReaches` and `UpdateReaches`
say that `HashInit` has it for the empty message and that `HashUpdate` keeps it, in each of
its three ways through (buffer empty, buffer not filled, buffer filled and compressed);
`CountedIs` is the carry, for which a sum is smaller than what was added to exactly when it
has one. `FinalIs` takes the two ways a message ends, with the length behind the mark
(`ShortEnd`) or in a block of its own (`LongEnd`), to the row that the standards describe:
that the zeros are as few as can be is `FillingIs` (there is one remainder), that the two
words are the length in either order of bytes is `LengthIs` (`TwoHalves`: the digits of a
number are those of its two halves). Cutting a row into blocks commutes with putting whole
blocks in front (`CutConcat`). Where this is used for a row of contexts, one after each part,
the recursion is given a solution first (`DigestOf`).

*Numbers.* What is written in place *j* is digit *j* of the number (`HighDigit`, `LowDigit`),
and reading adds the digits up again (`DigitsComeTo`), in either order of bytes and whatever
stands before and behind (`WithinIs`). A compact number is read by its mark, which tells the
width, and `CompuintCut` is that no shorter row is taken for it. A byte is what its two
hexadecimal digits come to (`ByteOfDigits`), for every number and both cases of a letter. A
varint takes one off each digit it goes up, so that no two rows stand for one number:
`Comes(row, m)` is a row of seven bits each that comes to *m* in this sense, `ComesMore` is
one more digit, and `RowReads` is that the bytes with the high bit on all but the last are
read as *m* wherever they stand. `OneByteAgain` and `TwoBytesAgain` are the way back for rows
of one and two bytes. Of a compressed amount `ZerosAre` is that the zeros cut off are all
there are, up to nine, and `DigitBack` that the digit before them finds its place among nine;
`AmountsReadBack` is proved for every natural number; the run takes those whose compressed
form TLC's numbers have room for, with nine zeros at their end too, where the compression
has a branch of its own. The recursions (`Value`, the digits of a varint) are given a solution
first, and the induction is by a smallest counterexample (`DigitsCome`).

### `VanitySearch_proofs`

For any number of workers and signals and both clients (`SearchAssumption`):

| Theorem | States |
|---|---|
| `SearchInvariant` | `Spec => []IInv` |
| `OneKey` | `Spec => []ResultOfOneKey` |
| `ContextsSafe` | `Spec => []ContextsOutliveWorkers` |
| `FirstStands` | `Spec => FirstResultWins` |

`ResultInv` is mutual exclusion by `result_mutex` together with what its holder has written
so far, so that a set `found` implies a whole result and nobody about to write. `ThreadInv`
says that threads exist in the order they are created in, that the join loop leaves nobody
running behind it, and that the contexts are freed either after it or when creation failed,
in which case the last thread is never created. That a worker's address is the one of its
key is an assumption of this module, and PublicKeyRace refutes it.

### What all of them have in common

`IInv`, `BInv`, `CInv`, `NInv`, `FileInv`, `PipeInv` and `KeyInv` were model-checked on the
instances of section 4 (`NInv` without the types of its sequences, which TLC cannot
enumerate). The history variables of the models (`items`, `done`, `nets`, `expected`,
`clean`, ...) only record what has happened. The prover knows nothing of `SelectSeq`,
`SortSeq` and `@@`, and of folds only what is proved of them, so that the models use
recursive functions and function constructors where a theorem depends on one.

**Only model-checked**: every liveness property (`Termination`, `CatchesUp`, `SearchEnds`,
`InputEnds`, `StreamAnswered`, `ClientEnds`: fairness and ENABLED are beyond the prover),
and what is left of the conversions of data. `KeysReadBack` speaks of a fixed curve of 31
points, where a proof would be a computation. `TextsReadBack` and `OutputsAgree` rest on
Bitwise and `TraceFaithful` on a recursive operator, which is why these three stand in a
module of their own, TextConversions.
The three findings are counterexamples, not theorems.

## 6. Not modelled, and why

* Losing completed writes in a power failure (`database.c` writes without sync): needs a
  model of leveldb's log; interruptions here fall between writes, as a kill does.
* Chain reorganisations: the code neither detects nor handles them; the modelled chain only
  grows.
* The error stack shared by the balance threads without a lock (`error.c` 22): only messages
  depend on it.
* Progress messages, record counts, `database_delete`: no property depends on them, no
  command uses the last.
* The pattern match of the vanity search: any key may match; and the names of script words.
* Delay by stdio: `--stream` prints without flushing, so a pipe sees outputs late.
* The compression functions of the hashes, 256-bit arithmetic, and the vendored libraries
  (`mini-gmp.c`, `cJSON.c`, `qrcodegen.c`): a third of the code by lines, out of TLC's reach
  or not this program's logic. The calls btk makes of them are modelled by what they return.
* A second `*` in a rehash list, which goes on reading where the first one stopped
  (`btk_privkey.c` 330-353).
* String escapes in JSON; QR codes.

## 7. Plan

Done: every component named in section 1. To come:

1. A log under KeyValue, to lose unsynced writes.
2. Two searches by one process, which the clean-up half of `gd_vanity.c` allows and no
   client does.

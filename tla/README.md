# TLA+ models of libgroupcache: the KE-Paxos engine and the sharded client

This directory holds the model-checking development kept beside the
repository: TLA+ modules translated from the C source, the TLC
configurations that check them, and `PROJECT.json`, which maps every
definition to the source lines it stands for and lists runs, findings and
hazards.

Run a configuration of the engine with
`tlc -workers 2 -config <run>.cfg MCKepaxos` and one of the client
(`client_*`, `select_owner`, `migration_partial`, `errno_stale`) with
`tlc -workers 2 -config <run>.cfg MCShardClient`.

Sections 1 to 5 are about the engine, section 6 about the client; sections
7 to 9 list what is left out, the configurations kept beside the runs, and
the plan.

## 1. The system

| Part | Source | What it is |
|---|---|---|
| KE-Paxos protocol engine | `src/kepaxos.c` 277-313, 400-623 | `kepaxos_run_command` starts agreement on a command for a key; `kepaxos_received_command` handles PRE_ACCEPT, PRE_ACCEPT_RESPONSE, ACCEPT, ACCEPT_RESPONSE and COMMIT; `kepaxos_commit` applies, logs and announces a command |
| Ballot arithmetic | `src/kepaxos.c` 308-310, 430-432 | the mint of a new ballot and the update of the local ballot from a received one |
| In-flight command table | `src/kepaxos.c` 39-53 and the `ht_*` calls | one entry per key: type, data, status, seq, ballot, votes |
| Durable key log | `src/kepaxos.c` 151-217 | an sqlite table with the last seq recorded for each key |
| Wire codec | `src/kepaxos.c` 220-257, 403-427 | the byte layout of a message |
| Engine lifecycle | `src/kepaxos.c` 76-139 | `kepaxos_context_create` / `_destroy` |
| Host callbacks | `src/kepaxos.h` | `send`, `commit`, `recover`, implemented by the embedding program |
| shardcache client | `src/shardcache_client.c` | client operations over a pool of connections, one node per key (section 6) |
| Declarations | `src/shardcache_internal.h`, `src/serving.h` | types and macros |
| Integration test | `test/shardcache_test.c` | forks servers and drives the client |

### State

Per replica: `ke->ballot` (atomic, outside the mutex), `ke->commands`
(hash table, under `ke->lock`), the sqlite log (survives the process),
`ke->lock`, and the constants `ke->num_peers`, `ke->my_index`,
`ke->peers`. Between replicas: the messages the `send` callback has taken.

### Interactions

`kepaxos_run_command` (a client thread of the host) broadcasts PRE_ACCEPT.
Each peer answers with the largest seq it knows for the key and a
`committed` flag. On a quorum of `num_peers/2` answers the initiator
commits (short path), asks the host to recover from the peer that is ahead,
or raises its seq and broadcasts ACCEPT (long path). ACCEPT_RESPONSEs are
counted; too few matching ones start another ACCEPT round. A commit calls
the host's `commit` callback, writes the log, and broadcasts COMMIT, which
every receiver applies unless it is older than its log.

### What makes it hard

* Several host threads call `kepaxos_received_command` at once. The ballot
  update runs before the mutex is taken; `kepaxos_commit` runs after it is
  released.
* Several replicas run commands for the same key at once.
* The transport is best effort: messages are lost, delayed, reordered and
  may arrive twice.
* A process dies (the code itself dereferences NULL on one path) and
  restarts from its log file, with ballot 0 and an empty table.
* Two return paths leave the mutex locked.
* The log is an sqlite file: a read or a write may fail, and the code goes
  on (a failed read counts as "no row", a failed write is printed).

### What the source does not define

The modelling of six points is a decision, made once and used everywhere:

* **`num_peers` and `my_index`.** `kepaxos_context_create` never assigns
  `ke->num_peers` or `ke->my_index` (both stay 0 from `calloc`), so an
  engine built by it has a quorum of 0 and declares its array of
  receivers with `num_peers-1`, that is -1, elements (lines 262, 334 and
  369). Both are `CONSTANTS`
  of the model, named after the fields, and every run gives them the
  values the rest of the code assumes: `num_peers` the number of replicas
  and `my_index[r] = r`.
* **Ballot width.** Ballots are `uint32_t`. TLC's integers are 32-bit
  signed, so the runs use `BallotBits = 16`: an 8-bit index field, as in
  the code, and an 8-bit counter field. All operations are taken modulo
  `2^BallotBits`.
* **The votes array.** `votes[++num_votes]` writes one slot past the end
  and the `count_ok` loop reads slots the program never wrote. The model
  keeps the length of the array only, and `count_ok` is any number from 0
  to `num_votes` (`CountOkOutcomes`).
* **The NULL dereference of line 454** kills the process. The model
  restarts it (`Reboot`): the host is assumed to supervise its replicas.
  For the safety properties this is no restriction, since a replica that
  is started again and never called is a replica that stays dead; the
  liveness property of `lone_command` is violated either way.
* **Storage failures.** `last_seq_for_key` returns 0 whenever
  `sqlite3_step` gives no row, and `set_last_seq_for_key` returns after a
  message when the INSERT fails. Both operators give the set of outcomes
  of a call: for the replicas in `ReadFaults` a read gives the seq of the
  row or 0, for those in `WriteFaults` a write leaves the new seq or the
  old row. A statement that `kepaxos_context_create` could not prepare
  (lines 99-108, ignored) fails at every call, which is one of these
  behaviours. The five `sqlite3_bind` calls of lines 189-207 each return
  after a message as well; the statement is then not run and the row stays,
  which is the outcome of a failed INSERT, and they are not told apart.
* **The header.** `src/kepaxos.h` and `src/kepaxos.c` disagree on the
  interface. The header declares `kepaxos_context_create` with a `timeout`
  argument and `kepaxos_run_command` with `unsigned char type` and a
  `dlen`; the definitions have neither the `timeout` nor the `dlen` and
  take a `kepaxos_cmd_type_t`, a type no file defines. The callback types
  of the header end in `priv` (and `leader`, `seq`, `prio`), and the engine
  calls them with four, five and three arguments. The model follows the
  definitions and the calls of `kepaxos.c`: a command has no `dlen` to set
  (`commit_data`, section 8), and `Send`, `Applied` and `Recovery` keep the
  arguments the engine passes.

## 2. Modules

| Module | Models | Notes |
|---|---|---|
| `KeBallot` | ballot arithmetic | pure operators; `MintBallot` is lines 308-310, `UpdatedBallot` lines 430-431, `SetIfLess` the `ATOMIC_SET_IF` of line 432 |
| `KeCodec` | wire codec | pure operators; `Build` is `kepaxos_build_message` (lines 220-257), `TooShort` the length check of line 403, `Parse` the parser of lines 406-426 |
| `Kepaxos` | engine, table, log, lifecycle, transport | `EXTENDS KeBallot, KeCodec` |
| `MCKepaxos` | values of the constants for TLC | `EXTENDS Kepaxos` |
| `ShardClient` | the sharded client | section 6 |
| `KeyStore` | what the client promises: one store of values by key | instantiated by `ShardClient` |
| `MCShardClient` | values of the constants for TLC | `EXTENDS ShardClient` |

### `Kepaxos`: variables and the code

| Variable | Code |
|---|---|
| `ballot[r]` | `ke->ballot` |
| `commands[r][k]` | the entry of `ke->commands` for key `k`, or `NoCmd` |
| `log[r][k]` | `SELECT MAX(seq)` of the row of `k`; 0 when there is none |
| `lock[r]` | `ke->lock` is held although the handler that took it has returned |
| `net` | messages given to `send` and not yet received; a set, so a message sent again while its equal is still in flight is one message (as if one of the two were lost, which `send` allows) |
| `inbox` | messages parsed by a thread that has not left its handler |
| `checking` | the COMMIT handlers inside the mutex and past their two early returns, each with the statement it is at: `commit` (the callback of line 612) or `record` (the write of line 613) |
| `committing[r]` | commands inside `kepaxos_commit`, with the statement each is at: `commit` (line 361), `record` (line 362) or `send` (line 363) |
| `applied`, `recovered` | history of the `commit` and `recover` callbacks |
| `runs[r]`, `dups` | counters for the bounds `MaxRuns[r]` and `MaxDups` |

### The grain of the steps

A handler that takes the mutex and releases it is one atomic action
wherever nothing outside the mutex touches what it reads and writes.
`lock[r]` records the two paths that return without releasing the mutex,
after which no handler of `r` is enabled, as in the program.

Two pieces of code are not atomic, and are one step per statement:

* `kepaxos_commit` runs with no mutex: the commit callback
  (`KepaxosCommitCallback`, line 361), the log write
  (`KepaxosCommitRecord`, line 362) and the broadcast (`KepaxosCommitSend`,
  line 363).
* The COMMIT case reads the log on line 606, calls the commit callback on
  line 612 and writes the log on line 613, and `kepaxos_commit` of another
  thread writes the log in between: `CommitCheck` (to line 611),
  `CommitCall` (line 612), `CommitApply` (lines 613-617), with the mutex
  held throughout (`MutexFree`).

A boundary between two statements is a state of the model only where
something can fall on it (`Interruptible`): a `kepaxos_commit` of another
thread on the same key, or the death of the process (`r \in Crashable`).
Elsewhere the statements are taken in one step: `CommitApply` from the
`switch` to the `break` when no commit is in progress at a replica that is
never killed, and `KepaxosCommitRecord` with the broadcast at such a
replica. Nothing is lost by that: a message handed to `send` may wait in
`net` as long as it likes, so sending it with the write is the same as
sending it later, and the callback followed at once by the write is what
every other thread sees when it cannot run in between. A kill inside the
handler ends the thread (`Reboot` empties `inbox`, `checking` and
`committing` of the replica), so at a replica that may be killed the host
can have applied a command the log never gets, and a log can hold a seq
whose COMMIT is never sent.

The other handlers only read the log, and a read followed by a foreign
write is the same as the handler followed by the write. The PRE_ACCEPT
case reads `ke->ballot` on line 457, after `MUTEX_UNLOCK`, and
`PreAcceptReply` reads it in the step of the handler. The two agree: of
all the code only line 432 writes `ke->ballot`, lines 438-456 do not read
it, and so a parse by another thread that falls between the unlock and the
read is the same as one that falls before the handler; what lines 438-456
write is in memory only and is gone with the process.

### `Kepaxos`: actions and the code

The handlers share their beginnings and their ends, and so do the actions:
`Handling` is the `switch` and `MUTEX_LOCK`, `Counted` the three tests a
response passes before its vote is taken, `Voted` the entry with the vote
in it, `Replied` the `MUTEX_UNLOCK` and `return kepaxos_send_...`,
`Dropped` a return that changes nothing, `LeakLock` a return with the
mutex held, `HandOver` the `ht_delete`, `MUTEX_UNLOCK` and call of
`kepaxos_commit`.

| Action | Source lines | |
|---|---|---|
| `RunCommand` | 277-313 | an existing entry is reused as it is; the ballot is minted, never stored |
| `ReceivedCommand` | 400-432 | the length check, the parser and `ATOMIC_SET_IF`, before the mutex; puts what `Parse` makes of the sender's buffer into `inbox` |
| `PreAcceptStale`, `PreAcceptNullDeref`, `PreAcceptReply` | 435-459 | |
| `PreAcceptResponseDrop`, `-Wait`, `-Fast`, `-Recover`, `-Slow` | 460-506 | `-Wait` returns with the mutex held |
| `AcceptStale`, `AcceptReply` | 507-541 | |
| `AcceptResponseNoCmd`, `-Drop`, `-Retry`, `-Commit` | 542-595 | `-NoCmd` breaks with the mutex held |
| `CommitDrop`, `CommitCheck`, `CommitCall`, `CommitApply` | 596-618 | one step per statement from line 611 on where the handler can be interrupted |
| `KepaxosCommitCallback`, `KepaxosCommitRecord`, `KepaxosCommitSend` | 358-364 | after `MUTEX_UNLOCK`: other actions of the replica run between them |
| `Lose` | the `send` callback | best-effort delivery; the host's, not code of the engine |
| `Crash` | the host | the process is killed at any step and started again: `Reboot` is `kepaxos_context_create` (lines 76-124) on the same log file. `kepaxos_context_destroy` is never run by a killed process and is not part of it |

`AcceptResponseRetry` covers lines 568-587 as a whole: the retry, and the
wait of lines 586-587 when fewer than `num_peers/2` votes have arrived. The
wait cannot happen in this code: an ACCEPT is only ever sent after a quorum
of votes, with `num_peers <= 3` a single vote is a quorum, and with
`num_peers >= 4` the first PRE_ACCEPT_RESPONSE leaves the mutex locked
before any ACCEPT is sent.

### `KeCodec`: the bytes of a message

A message in flight is kept as the record of its fields. When it is
received, `ReceivedCommand` lays it out with `Build` (the `msglen` bytes
`kepaxos_build_message` allocates: ballot and seq as four bytes each in
network order, the message type, the command type and the committed flag
as one byte each, then `klen`, the key, `dlen`, the data) and reads it back
with `Parse`, which, like the code, checks nothing but `cmdlen >= 16`. A
key is one byte; the bytes the host gives (command type, key, data) are
model values. The return of line 404 cannot happen for a buffer the engine
built (the shortest is 19 bytes) and is the `IF` of `ReceivedCommand`.
What lies after the end of a buffer is undefined. `Octet` gives 0 for it,
which serves `Extent` only: `WireFaithful` shows that no message the
engine builds is read past its end, so no handler of the model is given a
field read that way. Buffers of another origin, which could be, are not
given to the parser.

## 3. Runs

Every run uses one key and one payload; the commands differ by their type.

### Runs that pass

| Run | Setting | Properties | States |
|---|---|---|---|
| `fresh3` | 3 replicas, new logs, replica 0 runs one command and replica 1 two, 1 thread per replica, lossy transport, replica 0 may be killed | `TypeOK`, `NewLogsStayAtSeqZero`, `BallotNeverDecreases` | 242,591 |
| `drifted3` | 3 replicas, logs at seq 1, 0, 2, replicas 0 and 1 each run one command, 1 thread per replica | `TypeOK`, `EntrySeqNeverDecreases`, `RecoverNamesPeerAhead` | 278,710 |
| `four` | 4 replicas, new logs, two commands, 2 threads per replica, one duplicated delivery | `TypeOK`, `NewLogsStayAtSeqZero`, `WireFaithful` | 43,741 |
| `faulty3` | 3 replicas, logs at seq 0, 0, 1, replicas 1 and 2 each run one command, 2 threads per replica, the logs of replicas 1 and 2 fail reads and writes; `ThreadsRun` | `TypeOK`, `AppliedBeforeRecorded`, `StartedCommitsFinish` | 192,004 |

What the properties say:

* **`BallotNeverDecreases`** (specification, invariant 3). Within one
  process `ke->ballot` never goes down, in whatever order the threads parse
  the messages of different peers. A restart begins again at 0.
* **`NewLogsStayAtSeqZero`.** Started on new log files, no log, entry or
  message ever holds a seq other than 0, the recover callback is never
  called and no ACCEPT is ever sent: every seq the code computes is a
  maximum of seqs that already exist. Sequence numbers only move in a
  cluster whose logs already differ.
* **`AppliedBeforeRecorded`.** A seq is written to a log, and a COMMIT is
  handed to the transport, only after the host of that replica has applied
  that command at that seq. It is checked in `faulty3`, where the logs
  move: replica 2 reads 0 for a key it has logged at 1, commits at seq 0
  and takes its own log back; writes fail and leave the old row; a COMMIT
  handler of one thread overlaps `kepaxos_commit` of another. The row of a
  key is at every moment a seq the host of that replica has applied, or the
  one the file held at start. The property is one-way: it does not say that
  what was applied is logged, which the code does not ensure (a failed
  write, a kill after the callback). It is not checked in `fresh3`, where
  no log ever changes. With a replica that may be killed on drifted logs it
  holds as well (`drifted3_crash`, section 8).
* **`StartedCommitsFinish`.** `kepaxos_commit` is called after
  `MUTEX_UNLOCK` and takes no lock, and the COMMIT handler holds the mutex
  from its test to its write. So a command that got its quorum is applied,
  logged and announced, and a COMMIT past its test is written, also at a
  replica whose mutex has leaked: in `faulty3` a late ACCEPT_RESPONSE finds
  the entry deleted by the commit in progress and returns with the mutex
  held (line 594) while the other thread is between the steps of
  `kepaxos_commit`. The property is the reason why the obvious repair of
  `commit_order` and `commit_overlap`, taking the mutex for the log write
  of `kepaxos_commit`, is not one by itself: with the leaks in place that
  commit never ends (the variant `InCommit_locked`).
* **`EntrySeqNeverDecreases`.** While an entry is in the table its seq
  never goes down, through reuse, the long path, ACCEPT and the retry.
* **`RecoverNamesPeerAhead`.** The recover branch tests the committed
  flag of the response in hand and passes `max_voter`, which belongs to
  the vote with the largest seq, possibly an earlier one. Every call of
  the recover callback names another replica, for an entry whose seq is
  below the largest reported, and the log of the peer named holds a seq
  not below that: the host is sent to a peer that has what it misses. (The
  stronger reading, that the peer named is ahead of the caller's own log,
  is false: a delayed response triggers the branch after a COMMIT has
  brought the caller's log level.)
* **`WireFaithful`.** For every message in flight the parser stays inside
  the buffer the sender allocated and returns the fields the sender was
  given: `msglen`, the offsets of the `memcpy` calls and the pointer
  arithmetic of the parser agree.

Each property is paired in `PROJECT.json` with a fault variant of one
definition (`Receivers_one_past`, `PreAcceptMaxSeq_next`,
`SetIfLess_store`,
`AcceptsSeq_any`, `AddVote_last_voter`, `set_last_seq_for_key_torn`,
`InCommit_locked`, `msglen_words_only`); with the variant in place of the definition TLC finds
the property violated under the same configuration.

Together the four runs take every disjunct of `Next` and of `HandlerStep`
(the steps of the threads inside the engine, a disjunct of `Next`): `fresh3` the short
path, the stale PRE_ACCEPT, loss, `Crash` and the broadcast of a commit
as a step of its own; `drifted3` recover, the long
path, ACCEPT, the retry, the commit on ACCEPT_RESPONSE and the
ACCEPT_RESPONSE that finds no entry; `four` the wait for a second vote and
the duplicated delivery; `faulty3` the COMMIT handler that overlaps
`kepaxos_commit`.

### Runs that find a violation

Each states one sentence of the specification and shows a behaviour of the
code that contradicts it.

| Run | Property | What TLC shows |
|---|---|---|
| `agreement` | `SameSeqSameCommand` (invariant 2) | two concurrent commands for one key both commit at seq 0 |
| `commit_order` | `CommitSeqNonDecreasing` (invariant 1) | a replica applies seq 1 from a COMMIT, then its own command at seq 0, and writes 0 over 1 in its log |
| `mutex_vote` | `HandlersReleaseMutex` | with 4 replicas the first vote returns with the mutex held (line 481) |
| `lone_command` | `LoneCommandCommits` (scenario A), under `FairSpec` | the PRE_ACCEPT of a lone command kills both peers (line 454); nothing is committed |

## 4. Bounds

| Bound | Values | Why it is enough |
|---|---|---|
| `Replicas`, `num_peers` | 3 and 4 | 3 is the smallest cluster with a quorum of one vote and two peers to answer; 4 is the smallest where `num_peers/2 = 2`, the only case in which a vote is waited for |
| `Keys` | 1 | the engine keeps no state across keys; every hazard is per key |
| `CmdTypes` | 1 or 2 | two where a property tells commands apart |
| `Data` | 1 | no payload ever reaches a peer |
| `MaxRuns[r]` | 0, 1 or 2 per replica | two concurrent initiators give interference; two runs at one replica give entry reuse |
| `MaxSeq` | 2 or 4 | from logs at 1, 0, 2 the first long path proposes 3 and the second 4. The bound is a conjunct of the two actions that raise a seq (`PreAcceptResponseSlow`, the retry of `AcceptResponseRetry`), which the code does not have: the retry of lines 568-585 has no end in the code (`count_ok` may fail every time), and a seq above `MaxSeq` is what the runs do not explore |
| `Threads` | 1 or 2 | 2 lets a COMMIT handler run between the steps of `kepaxos_commit` of the same replica (`faulty3`, `commit_order`); 1 keeps the state space of the long path small |
| `ReadFaults`, `WriteFaults` | none, or replicas 1 and 2 | replica 2 is the one with a row to misread; replica 1 gets a row from its COMMIT |
| `Crashable` | none or replica 0 | one replica killed at any step, between the statements of `kepaxos_commit` and of the COMMIT handler too, one that commits; the NULL dereference of line 454 restarts any replica in every run |
| `MaxDups` | 0 or 1 | one duplicated delivery |
| `InitLogs` | all 0; 1, 0, 2; 0, 0, 1 | the log file is an input of `kepaxos_context_create` (`CREATE TABLE IF NOT EXISTS`): replicas restart on logs that differ after lost COMMITs |
| `BallotBits` | 16 | see section 1 |

## 5. Fairness

The safety properties assume none. Two fair specifications are defined.

`ThreadsRun` is `WF_vars(HandlerStep)`: a thread that is inside the engine
(a handler that has parsed its message, `kepaxos_commit` between its
calls) takes its next step while it can. This is what the operating
system gives: the threads are the host's pthreads and nothing in the
engine parks one except the mutex. Nothing is assumed of the transport,
which may hold a message back for ever, nor of the host, which may never
call again. `HandlerStep` is one fair action and not one per thread: every
behaviour of a model takes finitely many handler steps (each consumes a
message or a stage of a commit), so fairness of the disjunction already
makes every thread that can move do so. `faulty3` runs under `ThreadsRun`.

`FairSpec` adds `WF_vars(Next)`: the transport delivers and the host
calls, too. It is used in `lone_command` only, where the counterexample
ends in a state in which no step at all is possible, so the violation does
not depend on how fair the scheduler is.

## 6. The sharded client

### The system

`shardcache_client.c` is the library an application links to use a cluster
of cache nodes. `shardcache_client_create` copies the array of shards
(label and address of each node) and builds a consistent hash over the
labels. A call about a key (`get`, `offset`, `exists`, `touch`, `set`,
`add`, `del`, `evict`) asks the hash for the label that owns the key,
turns the label into an address (`select_node`), takes a descriptor for
that address from the connection pool, makes one node call on it, and then
either gives the descriptor back to the pool or closes it, setting
`c->errno`. `stats`, `check` and `index` name a node by its label.
`migration_begin` and `migration_abort` make one node call per shard, in
the order of the array. `get_multi` and `set_multi` split an array of items
by owner, start one thread per owner, and join them all. `get_async` hands
its descriptor to an asynchronous reader.

The hash, the connection pool, the node calls (`fetch_from_peer`, ...) and
the nodes are not in the repository. The model takes from their use what
the client relies on, and marks these definitions `spec_modelled` in
`PROJECT.json`:

* `chash[k]` is the label the hash gives for key `k`, always one of the
  labels the client was created with;
* `connections_pool_get(a)` gives a descriptor the pool holds for `a`, else
  a new connection when the node is up and a descriptor is free, else -1;
* a node call on a descriptor whose node is up, and has not been down since
  the connection was made, is answered; or it is served and the answer is
  lost (`LostAnswers`); or it is not served. Otherwise it fails with -1.
  A node call always returns, and `del`, `evict` and the calls that name a
  node return 0 or -1 and nothing else: this is taken from the tests the
  client makes of them (`rc != 0`, `rc == 0`), and `ConnectionKeptIffAnswered`
  relies on it;
* a node keeps a value per key and a migration flag, `exists` and `add`
  answer 1 when the key has a value (as `test/shardcache_test.c` expects),
  and the store survives an outage of its node.

### `ShardClient`: variables and the code

| Variable | Code |
|---|---|
| `shards` | `c->shards`, `c->num_shards`; `<<>>` while there is no client |
| `errno` | `c->errno` |
| `pool[a]` | the descriptors `c->connections` holds for address `a` |
| `conn[f]` | the node descriptor `f` is connected to, and how often that node had come back when the connection was made |
| `async` | descriptors given to `fetch_from_peer_async` |
| `th[t]` | thread `t`: where it is (`idle`, `peer`: inside a node call, `loop`: between two shards of a migration, `join`: in `pthread_join`, `off`: not running), its request, descriptor and return value |
| `loop[t]` | the list thread `t` walks and the index of its loop |
| `items`, `multi` | the item array of the running multi call (key, `data`, `dlen`, `status` of each item), and which of the two it is |
| `peer[a]`, `up[a]`, `gen[a]`, `outages` | the node at `a`: store and migration flag, whether it answers, how often it came back, and the count for the bound `MaxOutages` |

Thread 0 (`Main`) is the application's thread; threads `1 .. Len(Nodes)`
are those of a multi call.

### `ShardClient`: actions and the code

The six functions that return the rc of their node call (`exists`,
`touch`, `set`, `add`, `del`, `evict`) are the same lines but for the node
call and the test of the rc; they are uses of one operator, `KeyCall`, with
the request, the node call and the test as arguments. The loops of
`shc_get_multi` and `shc_set_multi` are uses of `ForEachItem`.

Every call that reaches a node is two steps of its action: `Connect`
(`select_node`, `connections_pool_get`, the early return on `fd < 0`, and
the request going out) and `Finish` (the node call returns; `close` and
`ERROR_NODE`, or `connections_pool_add` and `OK`; the return value).
Between the two steps the other threads and the nodes take theirs.

| Action | Source lines | |
|---|---|---|
| `shardcache_client_create`, `_destroy` | 56-92, 353-361 | an empty array or an address `check_address_string` rejects gives no client |
| `shardcache_client_get`, `_offset` | 112-166 | fail with 0; `offset` copies at most `dlen` bytes |
| `shardcache_client_exists`, `_touch`, `_set`, `_add` | 168-244 | a failure is `rc == -1`; 1 is an answer |
| `shardcache_client_del`, `_evict` | 246-284 | a failure is `rc != 0` |
| `shardcache_client_stats`, `_check`, `_index` | 286-351, 373-395 | `shardcache_get_node` compares whole labels |
| `shardcache_client_get_async`, `AsyncDone` | 472-484 | returns what `fetch_from_peer_async` returns, 0 or -1; the descriptor is the reader's in both cases |
| `shardcache_client_migration_begin`, `_abort` | 397-470 | `ShardLoop`: one `Connect` and one answer per shard, return at the first failure |
| `shardcache_client_get_multi`, `_set_multi` | 572-611 | `Started`: `shc_split_buckets` and the `pthread_create` loop; `Finished`: the `pthread_join` loop |
| `shc_get_multi(w)`, `shc_set_multi(w)` | 514-540 | a step of thread `w`: a step of its `get`, `set` or `del`, or its return. A get that fails sets `dlen` to 0 and leaves `data` (`GetInto`); `set_multi` deletes the key of an item without data or with `dlen` 0 |
| `NodeDown`, `NodeUp` | the nodes | at most `MaxOutages` outages |

`Calls` names the functions the application calls in a run; the threads of
a multi call, the asynchronous reader and the nodes are not restricted.

### `KeyStore` and the refinement

`KeyStore` is the client as its user sees it: a store `store[k]`, calls
that are pending, and the answer each caller got last. A pending call is
served at one instant (`Serve`: the store changes as the call says and the
call returns what the store held), or it fails, having taken effect or not
(`Fail`). `ShardClient` instantiates it with

    store   <- [k \in Keys |-> peer[Owner(k)].data[k]]
    pending <- the request of every thread that is inside a node call about a key
    answer  <- [t \in Threads |-> th[t].ret]

and `ImplementsKeyStore` is `KeyStore`'s specification under this mapping.
`Connect` is an `Invoke`, `Finish` a `Serve` or a `Fail`, everything else
leaves the store and the pending calls alone. The value of a key is looked
up at the node that owns it (`Owner`, by whole label): a request sent to
another node, a `set` sent as an `add`, or a return value that is not the
node's answer breaks the refinement.

### Runs

| Run | Setting | Properties | States |
|---|---|---|---|
| `client_calls` | every function but the multi calls, two shards `n1`, `n10`, two keys (one per shard), one value of two bytes, 2 descriptors, 1 outage, answers may be lost | `ClientTypeOK`, `RequestsReachOwner`, `ConnectionsAccounted`, `ConnectionKeptIffAnswered`, `ImplementsKeyStore` | 248,256 |
| `client_multi` | `get_multi`, `set_multi` over arrays of one or two items, and `del`; two threads, `FairSpec` | `ConnectionsAccounted`, `SetMultiLastWriteWins`, `ImplementsKeyStore`, `MultiReturns` | 183,583 |

* **`RequestsReachOwner`.** A request about a key is on a connection to
  the node whose label the hash gave. The labels `n1` and `n10` are chosen
  so that one is a prefix of the other; in the order `n1`, `n10` the first
  match of `select_node` is the right one.
* **`ConnectionsAccounted`.** Every open descriptor has exactly one owner
  (a thread inside a node call, the pool under the address the descriptor
  is connected to, or the asynchronous reader) and a closed one has none:
  no return path of any function leaks a descriptor, pools one twice or
  pools one it closed, whatever the threads and the nodes do in between.
* **`ConnectionKeptIffAnswered`.** A call ends with its descriptor closed
  and `ERROR_NODE`, or with the descriptor in the pool, `OK`, and a
  connection that worked; and it returns -1 exactly when it closed the
  descriptor. A connection made before an outage is found dead when it is
  used and is not pooled again.
* **`ImplementsKeyStore`.** See above. In `client_multi` the pending calls
  are those of two threads at once.
* **`SetMultiLastWriteWins`.** When `set_multi` returns and the last item
  of a key has status 0, the owner of the key holds the `dlen` bytes of
  that item's data: nothing, when the item has no data or a failed get has
  left it with its data and the length 0.
* **`MultiReturns`.** A multi call returns, whatever the nodes do.

Fault variants: `Connect_unchecked` (no test of `fd < 0`),
`select_node_unbroken` (no `break`), `close_skipped` (no `close`),
`shardcache_client_exists_as_del` (`rc != 0` for `rc == -1`),
`add_or_send_exchanged` (the two node calls exchanged),
`push_value_head` (items pushed at the head of their list),
`shc_get_multi_again` (the loop index not advanced after a get that
brought nothing).

| Run | Property | What TLC shows |
|---|---|---|
| `select_owner` | `RequestsReachOwner` | with the shards in the order `n10`, `n1`, a key of `n1` is sent to `n10`: `strncmp` over the length of the looked-up name matches `n10` first (line 103) |
| `migration_partial` | `MigrationAllOrNone` | the second node is down: `migration_begin` is acknowledged by the first shard, returns -1 at the second, and the first stays in migration (the question of the comment at line 432) |

### Bounds

| Bound | Value | Why it is enough |
|---|---|---|
| `Nodes` | 2 shards | two owners give two threads in a multi call and a shard before and after the one that fails in a migration |
| labels | `n1`, `n10` | a label that is a prefix of another is the case `select_node` can get wrong |
| `Keys` | 2, one per shard | |
| `Values` | one value (of one byte, or of two where `offset` is called) | a second value adds states, and no path of the client looks at the bytes |
| `Offsets` | `<<0, 1>>`, `<<1, 2>>` | a read inside the value and one that reaches past its end |
| `ItemLists` | 1 or 2 items, each a key with data or without; and arrays whose last item has data and `dlen` 0 | two items of one key give the order within a list, two of different keys two threads; an item with data and length 0 is what a failed get of `get_multi` leaves, and what `set_multi` must delete |
| `MaxFds` | 2 | with two threads and `get_async`, taking a third descriptor fails: the early returns are reached |
| `MaxOutages` | 1 | one outage, at any moment, of either node: a request unanswered, and a pooled connection that is dead when the node is back |
| `BadAddrs`, `NodeNames`, `MigrationArgs` | one rejected address; the two labels and an unknown one; one accepted and one rejected array | every argument check takes both branches |

### Fairness

`FairSpec` of `ShardClient` is weak fairness of `shc_get_multi(w)` and
`shc_set_multi(w)` for every thread `w`, and of `Finished`: a thread that
was created is scheduled, a node call returns (with an answer or with -1:
the node calls are taken to give up on a node that is silent), and
`pthread_join` returns when the thread has ended. Nothing is assumed of the application
(it need not call anything) or of the nodes (they need not come back).

## 7. Not modelled

* Buffers the engine did not build: a truncated or foreign datagram given
  to `kepaxos_received_command`, which the parser would read beyond its
  end (the length check of line 403 accepts 16 bytes).
* The ballot column of the log (written, never read) and collisions of
  the two siphash values that key a row: the pair of hashes is taken to
  name the key.
* Failure of `sqlite3_open` (`kepaxos_context_create` returns NULL and
  there is no engine) and of `CREATE TABLE` (lines 90-94 free the engine
  and go on using it: the engine that comes back may be in any state).
* The bindings of the shared `insert_stmt` when `kepaxos_commit` and a
  COMMIT handler write at once: the order of the two writes is modelled,
  a row that takes the key of one write and the seq of the other is not
  (it needs two keys, and the runs have one).
* Memory: leaks, the double ownership of `cmd->data`, the out-of-bounds
  write itself (only its effect on `count_ok`).
* `uint16_t num_votes` overflow (needs 65,536 votes for one entry).
* `src/shardcache_internal.h`, `src/serving.h`: type and macro
  declarations; the code that changes the state they declare is not in the
  repository. The `CONDITION_WAIT`, `CONDITION_TIMEDWAIT`,
  `CONDITION_WAIT_IF` and `CONDITION_SIGNAL` macros wrap one pthread call
  in a lock and an unlock; no file of the repository uses them, so there
  is no waiter, no signaller and no condition to take from the source.
  `src/kepaxos.h` declares the callbacks and the entry points.
* In the client: `c->errstr` (wording), `c->auth`, the `expire` argument,
  the argument 30 of `connections_pool_create`, failure of
  `pthread_create` (its return value is not tested and what `pthread_join`
  does with the handle is not defined), memory (`shc_multi_item_destroy`
  does not free the item, `shardcache_client_create` leaks the pool when
  it rejects an address), and calls of a second application thread: the
  client has no lock and is used from one thread.
* `test/shardcache_test.c`: a driver that forks servers; read for the
  return values the nodes give.

## 8. Configurations kept beside the runs

Twelve more configurations are in the directory; they are not among the
runs of `PROJECT.json`, which lists one run for each question the project
asks and keeps the violations that take several actors or steps.

`drifted3_crash` is `drifted3` with a replica 0 that may be killed at any
step, between the commit callback, the log write and the broadcast too,
and with `AppliedBeforeRecorded` added to its properties. All of them
hold, over 2,544,338 states; the run takes about ten minutes, which is why
it is kept here.

Each of the others states one sentence about the program as a property and
TLC finds it violated.

| Configuration | Module | Property | What TLC shows |
|---|---|---|---|
| `mutex_accept` | `MCKepaxos` | `HandlersReleaseMutex` | an ACCEPT_RESPONSE with no entry breaks with the mutex held (line 594); the same property as `mutex_vote` on another path |
| `ballot_origin` | `MCKepaxos` | `OriginatedBallotNamesReplica` (invariant 4) | the first ballot of replica 0 ends in 2 |
| `ballot_seen` | `MCKepaxos` | `SeenBallotIsPassed` (section 3: the counter is advanced past any seen ballot) | replica 2 parses a PRE_ACCEPT with ballot 65282 and its own ballot becomes 65282: the update of line 430 adds 2 to the masked ballot where the counter needs 256 |
| `ballot_unique` | `MCKepaxos` | `BallotsGloballyUnique` (section 3: the replica index in the low bits makes ballots unique) | replicas 0 and 2 run their first command and both PRE_ACCEPTs carry ballot 65282: the mint of line 310 ORs the index into a value whose bit 1 is set, at any width of the ballot |
| `recover_entry` | `MCKepaxos` | `RecoveryDestroysEntry` (section 3, Lifecycle) | replica 1 calls the recover callback and the entry stays in the table with its vote and `max_seq` (line 489 deletes nothing); the next command of the key starts from it |
| `fresh_entry` | `MCKepaxos` | `RunCommandInstallsFreshEntry` (run_command, step 4) | the second command of a key starts with the vote and `max_seq` of the first |
| `commit_data` | `MCKepaxos` | `CommitCarriesData` (scenario A) | the commit callback gets no data: `cmd->dlen` is never set |
| `storage_write` | `MCKepaxos` | `CommitSentIsLogged` (sections 4.2 and 7: a storage error aborts the command) | the INSERT of `kepaxos_commit` fails and COMMIT is broadcast for a seq the sender's log does not hold |
| `storage_read` | `MCKepaxos` | `OnlyLocalCommitLowersLog` (lines 606-611: a COMMIT below the log is dropped, so only `kepaxos_commit` takes a log back) | one thread per replica: the SELECT of a COMMIT handler gives 0 for a row of seq 2, and the COMMIT of seq 1 is applied and written over it |
| `commit_overlap` | `MCKepaxos` | `CommitHandlerNeverLowersLog` (lines 606-611) | two threads, reads of replica 1 correct: its handler tests a COMMIT of seq 1 against the row of seq 0, `kepaxos_commit` of its other thread writes seq 2, and the handler writes 1 over it |
| `errno_stale` | `MCShardClient` | `ErrnoTellsFailure` | `exists` returns -1 for want of a connection and `shardcache_client_errno` still gives OK |

## 9. Plan

1. **Engine core** (done): `KeBallot`, `Kepaxos`, the engine runs.
2. **shardcache client** (done): `ShardClient`, `KeyStore`, the client
   runs.
3. **Codec** (done): `KeCodec`, composed with the engine in
   `ReceivedCommand`.
4. **Ballots**: the mint and the update rule are set against the
   specification in `ballot_origin`, `ballot_unique` and `ballot_seen`
   (done). Open: a history of the ballots a replica has minted, to state
   what a restart at ballot 0 does to the PRE_ACCEPTs of the new process
   (line 79).
5. **Storage failures** (done): reads that give 0 and writes that leave
   the row, in `faulty3`, with the COMMIT handler that overlaps
   `kepaxos_commit`.
6. **What lies behind the defects**: the entry left by the recover branch
   (`recover_entry`, done). Open: votes counted twice with a quorum of
   two, and the long path whose own ACCEPT_RESPONSEs are dropped, in the
   configurations where the code reaches them.
7. **The overlap of the COMMIT handler and `kepaxos_commit`** (done):
   `commit_overlap`, and the steps of both in a process that may be killed
   (`fresh3`, `drifted3_crash`). Open: a property of what a restarted
   replica does with a log that is behind its host, which needs lost
   COMMITs or a kill on drifted logs within the bounds of a run.
8. **Progress of the handlers**: what a parsed message waits for besides
   a leaked mutex. Stating it needs the messages that stop at the bound
   `MaxSeq` told apart from those the code leaves waiting.

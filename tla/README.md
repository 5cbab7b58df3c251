# TLA+ verification of the MongoDB server

This project models the parts of `mongod` whose correctness depends on the
interleaving of threads, servers and crashes, checks them with TLC on small
instances and proves the most important properties with TLAPS for every instance.
Paths below are relative to `src/mongo/` of the repository.

## 1. The system and its parts

A replica set is a group of `mongod` processes that elect a primary, which alone
accepts writes and logs them in its oplog; the other members apply that oplog. A
sharded cluster is several replica sets, with transactions across them.

| Part | State | Operations | Interacts with | What is hard, and what must hold |
|---|---|---|---|---|
| Elections (`db/repl/replication_coordinator_impl_elect_v1.cpp`, `vote_requester.cpp`, `scatter_gather_runner.cpp`) | `ElectionState`, the tally of a round | start, dry run, vote for myself, round of votes, cancel, win, lose | topology coordinator under `_mutex`; RPCs to the members; the journal | answers after a term change or a timeout; one winner per term; every candidacy ends |
| Topology coordinator (`db/repl/topology_coordinator.cpp`) | `_term`, `_role`, `_leaderMode`, `_lastVote`, member data, commit point | vote, update term, become candidate, win, lose, step down, complete the transition to primary, advance the commit point, choose a sync source | called by the replication coordinator under `_mutex` | a vote is given once per term across crashes; a leader never is in a term it did not win |
| Replication coordinator (`db/repl/replication_coordinator_impl*.cpp`) | config and its state machine, `_pendingTermUpdateDuringStepDown`, waiters, catch-up | command handlers, heartbeats, `stepDown`, `signalDrainComplete`, startup, reconfig | RSTL, executor, external state (durable documents) | critical sections of `_mutex` separated by waits for the RSTL, by events and by disk writes |
| Commit point and rollback (`topology_coordinator.cpp`, `rollback_impl.cpp`, `bgsync.cpp`) | oplogs, optimes of the members, `lastCommittedOpTime` | replicate, advance, learn, roll back | heartbeats, oplog fetching | a majority-committed write is never rolled back |
| Lock manager (`db/concurrency/lock_manager.cpp`, `lock_state.cpp`) | `LockHead` queues and mode counts, `LockRequest` | lock, convert, unlock, downgrade, two-phase unlock | storage snapshots, RSTL | compatible grants only, no lost wake-up, no starvation, conversions without deadlock |
| Two-phase commit (`db/s/transaction_coordinator*.cpp`) | the step, the decision, durable coordinator documents | prepare, decide, persist, send, recover | participants, step up | atomic commit through failover of the coordinator |
| Sessions and transaction participants (`db/session_catalog.cpp`, `db/transaction_participant.cpp`) | session checked out, kills, participant state | check out, kill, invalidate, prepare, commit, abort | lock manager, oplog | kills racing check-outs; legal state transitions only |
| Primary only services (`db/repl/primary_only_service.cpp`) | instances, service state | step up, rebuild, step down, shutdown | executor | no instance of an old term survives or is lost |
| Reconfiguration (`db/repl/repl_set_config*.cpp`) | config version and term | force and safe reconfig, config by heartbeat | elections | quorums of consecutive configs intersect |
| Chunk migration (`db/s/migration_*.cpp`) | migration document, critical section | clone, commit, recover | config server | one owner of a range after a failover |
| Executors, thread pools, futures, tickets | queues, events | schedule, cancel, signal, wait | everything | callbacks run once; no lost wake-up |

`PROJECT.json` lists these and the parts that are not modelled, with the reason,
and the hazards: the lines at which the code is exposed to an interleaving, crash
or limit that a test hardly reaches, each with the properties that cover it.

## 2. Plan

1. **Election** (modelled, checked, safety proved): `VoteRequester`, `Election`,
   `MCElection`, `ElectionProofs`.
2. **Lock manager** (modelled, checked, safety proved): `LockManager`,
   `MCLockManager`, `LockManagerProofs`. Left: an abstract lock table without queues
   that the module refines, and yielding.
3. **Two-phase commit** (modelled, checked, safety and refinement proved):
   `ShardReplicaSets`, `TransactionParticipant`, `TransactionCoordinator`, their
   composition `TwoPhaseCommit`, which refines `AtomicCommit`;
   `ShardReplicaSetsProofs`, `TwoPhaseCommitProofs`, `ForgottenProofs`.
4. **Primary only services** (modelled, checked, safety proved):
   `PrimaryOnlyService`, `PrimaryOnlyServiceProofs`, `DocumentsResumedProofs`.
5. **Commit point** (in part, in `ShardReplicaSets`): left are the secondaries,
   `updateLastCommittedOpTimeAndWallTime` with `_firstOpTimeOfMyTerm` and rollback,
   above the elections. Theorem: a committed entry is in the oplog of every later
   leader.
6. **Step down of one node**: `kAttemptingStepDown` with its abort function, RSTL,
   drain mode; leader mode transitions.
7. The session catalog, reconfiguration and migration, in this order.

Modules are written so that they can be proved about: constants with named
assumptions, one action per critical section, invariants as conjunctions of named
parts, no `RECURSIVE` operator.

## 3. Elections

### Model

`VoteRequester` holds the tally: a record per candidate with the votes, the
members processed, the vote of the primary that a catchup takeover needs, and
`_staleTerm`; its operators are the methods of `VoteRequester::Algorithm`.

`Election` has one set of variables per server and the vote requests in flight.
An action is one critical section of `_mutex`, or one step of a thread outside it.

| Actions | Code |
|---|---|
| `LearnTerm`, `StepDownSelf`, `StepDownFinish` | a term from a heartbeat or from metadata, `HeartbeatResponseAction::StepDownSelf`, `_stepDownFinish` |
| `StepDownCommand`, `StepDownCommandFinish` | `stepDown()` up to the successful `tryToStartStepDown`, and its end |
| `StartDryRun`, `StartSkippingDryRun`, `DryRunSucceeds`, `RoundFails`, `CancelElection`, `WriteLastVoteForMyElection`, `WriteLastVoteFails`, `WinElection`, `RpcFails` | `ElectionState` |
| `ReceiveVoteRequest`, `DenyVote`, `GrantDryRunVote`, `GrantVote`, `StoreVote` | `processReplSetRequestVotes`: `updateTerm` with its wait, the decision, the store of the durable vote and the answer |
| `DrainComplete`, `ApplyOps`, `JournalFlush` | what elections see of the oplog |
| `Restart`, `FinishStartup` | a crash and the two critical sections of startup |

Abstractions. An OpTime is a pair of small numbers. Clocks are gone: an election
timeout, the step down period, the freshness of heartbeats and the priority rules
may come out either way, so a server may stand whenever the code's other
conditions allow. `LearnTerm` may deliver any term a server has been in, at any
time. Answers are delivered when they are sent: an answer that is lost or late is
one of `RpcFails` followed by an answer that finds the round over or the member
processed. Vote requests stay in the network arbitrarily long. The configuration
is fixed, so its version checks are not there. The oplog is only its last OpTime:
`ApplyOps` moves a server to another's, and a crash takes it back to the durable
one. `cast` and `wins` are history variables. `stepDownBy` says which thread will
complete a step down.

`VoteWindows` is an environment parameter: the two windows in which the code
handles a vote request although its term is not what it should be (see the
findings). The safety runs and theorems close them, the violation runs open them.

### Runs

All runs bound the terms, elections, dry runs and crashes in the guards of the
actions that start them; the system may stop when they are used up, so deadlock
is not checked. Servers with the same part are symmetric, except for liveness.

| Run | Instance | Shows |
|---|---|---|
| `crashes` | 2 data-bearing members and an arbiter, 2 elections, terms up to 2, 1 crash | one winner per term, one vote per term, a leader won its term, the vote durable before the reply, and the inductive invariant |
| `liveness` | 2 members, 2 elections one of them with a dry run, 1 crash, all windows open | candidacies, step downs and waiting requests come to an end |
| `vote_during_step_down` | as `crashes` with 3 elections, no crash, the step down window open | two primaries in one term |
| `vote_during_startup` | 3 members, 3 elections, 1 crash, the startup window open | two votes in one term |

Two elections are the smallest number for two candidates to meet in one term or in
neighbouring ones; with three voters a majority is two and each vote matters. Each
bound keeps a run under four minutes; the unbounded case is what the proofs are for.

Fairness (`FairSpec`): the executor runs the callbacks scheduled on it (the step
down callback, the end of a round), an RPC ends in an answer or in its timeout
(`RpcFails`), the write of the vote returns, and the thread of a received request
is not starved. Nothing is assumed about elections being started, messages being
delivered, drains or crashes.

### Findings

- `vote_during_step_down`: `_updateTerm_inlock` returns an invalid event if a step
  down is already under way, so the vote is decided with the old term; and
  `stepDown()` does not apply the pending term, though a comment at
  `replication_coordinator_impl.cpp:4399` takes it to be unset afterwards. The server
  later campaigns in the term it has voted in.
- `vote_during_startup`: the term is restored in a later critical section than the
  configuration is installed, and the vote check compares `_lastVote` for equality
  only.

### Proofs

`ElectionProofs` proves for every finite set of servers and every bound:

- `TypeCorrect`: `Spec => []TypeOK`, whatever `VoteWindows` is;
- `ElectionInvariant`: `Spec => []ElectionInv`;
- `ElectionSafe`, `VotesOnce`, `VotesDurable` and `LeadersWon`: `ElectionSafety`,
  `OneVotePerTerm`, `VoteDurableBeforeReply` and `LeaderWonItsTerm` follow.

All but the first assume `VoteWindows = {}`: without it election safety is false, as
the runs show. `ElectionSafety` is not inductive. `ElectionInv` adds why it holds:
everything a voter has promised (votes reported, being stored, in memory, on disk,
and its own candidacy) agrees per term and is no newer than the vote in memory
(`PromisesConsistent`); the vote in memory is no newer than the term
(`VoteNotAheadOfTerm`), so a new term's candidacy cannot meet an old promise; a
handler that decides has made its server reach the request's term
(`HandlersReachTerm`); reported votes are on disk (`VoteDurableBeforeReply`), which
carries all this through a crash; tallies and wins are backed by reported votes
(`TalliesBacked`, `WinsBacked`). Two majorities share a voter (`MajoritiesMeet`),
and that voter reported one vote. The proof goes action by action; a frame lemma
per part disposes of the actions that do not touch it.

Liveness is checked by TLC only: TLAPS does not reason about fairness here.

## 4. The lock manager

### Model

`LockManager` is one resource and the threads that lock it. Resources do not
influence each other inside the lock manager, only through the order in which a
caller takes them. An action is one critical section of the bucket mutex or of a
partition mutex; the bucket mutex is a variable, because a migration holds it while
it takes the partition mutexes one after the other. `pc` says where a thread is
between two critical sections.

| Actions | Code |
|---|---|
| `Lock`, `StartPartition`, `StartMigration`, `NewRequest` | `_lockBegin` on a new request and `LockManager::lock`: the fast path on a partition, a new partition, the migration of all partitions, the grant or the queue |
| `MigratePartition` | one round of `migratePartitionedLockHeads` |
| `StartCleanup`, `EndCleanup` | `cleanupUnusedLocks` |
| `Reuse`, `Relock`, `Convert` | `_lockBegin` on a request that exists: a pending unlock taken back, recursion, conversion |
| `WaitReturns`, `WaitFails`, `Undo` | `_lockComplete`: notified, timed out or interrupted, and the guard that unlocks |
| `Unlock`, `UnlockPending`, `UnlockNested`, `UnlockGranted`, `CancelWaiting`, `CancelConversion` | `LockerImpl::unlock`, `endWriteUnitOfWork`, and `LockManager::unlock` after the partition's critical section |
| `Downgrade`, `BeginWriteUnitOfWork`, `EndWriteUnitOfWork` | the functions of these names |

Abstractions. The granted list is the set of requests with that status and place:
its order only matters for conversions, and a conversion that is granted cannot
enable another one, since its new mode conflicts with all that its old one did. The
order of the conflict list is the relation `head.before`. `_onLockModeChanged` is
one predicate: the set `G` it grants is characterised by what the loop does with
each request given those ahead of it. `enqueueAtFront` and `compatibleFirst` are
always set together and are one field. Statistics, tickets, the nesting depth of
units of work and `_sharedLocksShouldTwoPhaseLock` are left out. `scope`, the
modes of the caller's open RAII scopes, belongs to the callers. Environment
parameters: `RequestModes`, `UnitUsers`, and `Upgraders`, at most one locker, as
`d_concurrency_test.cpp` has it ("Only one upgrader legal": two of them wait for
each other). On a global resource nobody upgrades.

### Runs

| Run | Instance | Shows |
|---|---|---|
| `locks` | 3 lockers on 2 partitions, modes IS, IX, X, scopes nested twice, one upgrader that also uses units of work | compatible grants, exact counts, no partition beside waiters, no lost grant or notification, scopes held, two-phase locking, nobody overtakes |
| `global_lock` | 4 lockers on a global resource, modes IS, S, X | the compatible-first policy is counted exactly, grants are compatible, none is lost |
| `lock_liveness` | 3 lockers, modes IS and X, nested scopes, one upgrader | every wait ends without a timeout |
| `lock_queue` | 4 lockers, modes IS and X | a comment on the scan of the queue does not hold |

Three lockers are a holder, a waiter and one who overtakes, is migrated or converts;
the queue's policy needs a fourth. Two nested scopes are enough for recursion,
conversion and reuse. No counter is bounded but the nesting (`MaxScopes`), so these
runs see every behaviour of the instance, and deadlock is checked. Lockers other
than the first are symmetric in the safety runs.

Fairness (`FairSpec`): a thread inside the lock manager goes on and gets the mutex it
keeps asking for; callers leave their scopes. The last is what RAII gives, and it is
needed: a caller that relocks for ever inside its outermost scope never frees the
lock. The run has no units of work for the same reason, and the fairness says nothing
about timeouts. On a global resource `WaitEnds` is not claimed: the
policy "effectively turns off fairness" (`lock_manager_defs.h`).

What the runs taught. On a global resource a request that is put at the front of the
queue may wait although it is compatible with all that is granted: an S that meets a
waiting X goes ahead of it, but is granted only with the next change of modes.
`NoLostGrant` states exactly that. `lock_queue` is a finding: the scan stops at the
first conflicting request all of whose predecessors it has granted, so compatible
requests behind it go on waiting, and outside the compatible-first policy the queue
is strictly FIFO; the comment in `_onLockModeChanged` describes the opposite, with an
example.

### Proofs

`LockManagerProofs` proves all eight invariants and both action properties of the
safety runs, for any number of lockers and partitions and any nesting, from
`LockAssumption` (the set of lockers is finite, the other parameters have their
types).

`LockInvariance`: `LockInv` is inductive. Its parts are the types, the shape of a
request in each status (`RequestsShaped`), where a thread is with it
(`ThreadsShaped`), exact counters (`Counted`), compatible holders (`Compatible`), a
total order of the conflict list (`Ordered`), partitions without waiters or strong
modes (`Apart`) and no grant that is due (`NoneLost`). They need each other: a grant
is decided from the masks, which are right because the counters are exact; a
migration grants without asking, which is right because of `Apart`; and a skipped
scan of the queue loses nothing because of `NoneLost` in the state before.

| Theorem | States |
|---|---|
| `GrantsAreCompatible` | `GrantsCompatible` |
| `CountsAreExact` | `CountsMatch` |
| `PartitionsHaveIntent` | `PartitionedOnlyIntent` |
| `GrantsAreNotLost` | `NoLostGrant` |
| `WaitersAreNotified` | `NotifiedWhenGranted` |
| `ScopesAreHeld` | `ScopesHeld` |
| `WriteLocksKept` | `TwoPhase` |
| `NobodyOvertakes` | `NoOvertaking` |
| `CompatibleFirstExact`, `TypeCorrect` | `CompatibleFirstCounted`, `TypeOK`, if `NoGlobalUpgrade` |

The argument goes by the kind of action. Some change one thread and leave the head
alone (`QuietStep`). `NewRequest`, `Convert` and `MigratePartition` add holders and
waiters, so whoever was blocked still is (`ConvertersKept`, `WaitersKept`). The
releases (`UnlockGranted`, `CancelWaiting`, `CancelConversion`, `Downgrade`) first
weaken one request, which keeps everything but `NoneLost`, and then call
`_onLockModeChanged`, which restores it: `ModeChangeShared` is the lemma about that
function, and the heart of the proof. The counters are followed one request at a time
(`OneCounted`), which avoids an induction over the lists. For `NoOvertaking`, a request
granted by a scan has all those ahead of it granted (`GrantedInOrder`): otherwise take
the foremost that is not, by the well-foundedness of inclusion on finite sets, and the
scan ends there.

`NoGlobalUpgrade` (`Global => Upgraders = {}`) is needed for the compatible-first count
only: an upgrade to S or X of a lock held in an intent mode on a global resource would
mark the request without counting it, and the unlock would then count it down. It is
what the callers do (section "Model"). TLC found `LockInv` and the policy invariant
to hold on the instances of `locks` (301 276 states) and `global_lock` (467 001
states) before they were proved.

`WaitEnds` is liveness and stays with TLC. `GrantsAllCompatible` is refuted by its run.

## 5. Two-phase commit

### Model

One transaction over several shards, each a replica set with failovers.

- `AtomicCommit` is the abstract specification: a durable decision, an outcome per
  shard, commit only with every shard prepared, no outcome against the decision and
  none that changes.
- `ShardReplicaSets`: the oplog of the primary of each term, the majority commit
  point (which moves only to an entry of the current term), failovers that keep any
  electable history, and deposed primaries that go on until `StopPrimary`.
- `TransactionParticipant`: `prepareTransaction`, `commitTransaction` and
  `abortTransaction` on a participant, the replies with their waits for the write
  concern, and what a new primary knows from its oplog.
- `TransactionCoordinator`: the coordinator of each term, with its document.
- `TwoPhaseCommit` composes them: commands, responses, failovers, the client.

| Actions | Code |
|---|---|
| `RunCommit`, `CancelIfCommitNotYetStarted`, `ReachDeadline` | `runCommit`, `cancelIfCommitNotYetStarted`, the deadline task of the constructor |
| `PersistParticipantsList`, `AbandonParticipantsList`, `SendPrepare`, `DecideVotes`, `PersistDecision`, `SendDecision`, `DeleteCoordinatorDoc`, `DeleteCoordinatorDocFails` | the chain of futures in the constructor of `TransactionCoordinator` and the functions of `transaction_coordinator_util.cpp` |
| `RegisterCommitVote`, `RegisterAbortVote`, `RegisterAck` | the handling of responses in `sendPrepare` and `sendDecisionToShard` |
| `OnStepUp`, `ContinueCommit`, `StepDown`, `Failover` | `TransactionCoordinatorService::onStepUp` and `onStepDown`; the participant refreshed from storage |
| `AnswerDecision`, `AbortLocalParticipant`, `RecoverFromLocalParticipant` | `coordinateCommitTransaction` with and without a coordinator |
| `PrepareCommand`, `CommitCommand`, `AbortCommand` | the commands on a participant, the session check-out and the error paths of the service entry point included |
| `ExpireTransaction`, `NewerTransaction` | `killAllExpiredTransactions`; the session goes on |

Abstractions. A command is sent once and may be executed any number of times, at any
time later, by any primary of the shard: retries, delay and misdirection are covered,
loss is a command that is not executed. A response is delivered when it is sent or is
lost. A no-op write for `writeConcern` leaves no entry: it succeeds for the current
primary when all that it wrote is durable. The client's `writeConcern` is w:1 or
majority (`ClientWriteConcerns`), given with each `coordinateCommitTransaction` and
forwarded by the router. With majority the answer waits for the entry of the decision,
or of the local participant's commit, and a `NoSuchTransaction` for its no-op; with w:1
it waits for nothing more than this primary has. The commands of the coordinator always
have majority. The deletion of the document may fail: it is tried again only when it was
interrupted, and otherwise the coordinator completes and leaves the document to the next
primary. The primaries of different terms are
different nodes, so a transaction's API parameters do not survive a failover. An
abort by the router is `ExpireTransaction`: both abort a transaction in progress
without the coordinator. A newer transaction on a session is lost in a failover, as
nothing of it needs to be durable. The waits for a majority in the coordinator are
waits for the entry it wrote, and a recovered one waits for an entry of its own term.
Left out: `waitForDurableTopologyTime`, metrics, `currentOp`, and the statements of the
transaction, which are over when the model starts.

### Runs

| Run | Instance | Shows |
|---|---|---|
| `two_phase_commit` | 2 shards, one failover each, API parameters, a session that moves on (the coordinator's shard), clients with w:1 and with majority | what is durable refines `AtomicCommit`; an answer lasts as its `writeConcern` asks; nothing finishes before the decision is durable; one commit timestamp |
| `two_phase_liveness` | the same without API parameters or moving sessions, clients with majority | prepared transactions are resolved, commits carried out, coordinators end; nothing is prepared when the document is deleted |
| `forgotten_commit` | with API parameters, clients with majority | a prepared participant is forgotten |

The refinement mapping takes the outcome of a shard and the decision from the majority
committed part of the oplogs (`DurableOutcome`, `DurableDecision`). Two shards are a
coordinator and a participant that differ in every respect; one failover each gives a
deposed and a recovered coordinator, and a participant whose prepare, commit or abort
is kept or lost. Terms are bounded by `MaxTerm` alone; the message set and the oplogs
are finite. The runs may stop when everything is done, so deadlock is not checked.
The safety properties also hold with two failovers of the participant
(`ParticipantFailsTwice`, 61 000 states) and with two of the coordinator
(`CoordinatorFailsTwice`, with majority and no moving session, 376 000 states).

`AnswersTrue` has a part per write concern. With any, "committed" means that every shard
is durably prepared. With majority, "committed" means that the decision is majority
committed, and "aborted" that no shard commits, ever. Of an abort told to a client with
w:1 nothing is claimed: a failover of the coordinator can lose the decision, or the
no-op behind a `NoSuchTransaction`, and the recovered coordinator may commit.

Fairness (`FairSpec`): only that the whole of `System` does not stop while it can do
something. Replication, the coordinator's chain and deadline, retried commands, the
killer of expired transactions and the step down of a deposed primary make up
`System`. Nothing is assumed of clients or failovers. It is enough because every step
of `System` makes progress that is never undone within a term.

### Findings

- `forgotten_commit`: `sendDecisionToShard` takes any error of the category
  `VoteAbort` for an acknowledgement, `APIMismatchError` included. API parameters are
  neither in the coordinator document nor in the oplog. After a failover the command
  is refused for the mismatch, and the document is deleted while the participant is
  prepared; nobody will ever resolve it.
- `TransactionTooOld` counts likewise and is answered without a no-op write: if the
  commit that let the session move on is rolled back, the prepared transaction is left
  alone. `SessionMovesOn` non-empty violates `NonePreparedWhenForgotten` for this
  reason; the liveness run leaves it empty.
- `persistDecision` is an upsert: after a deadline that came before the participant
  list was written it inserts the document, although `transaction_coordinator_util.h`
  says that a missing document throws. The protocol is right because it does.

### Proofs

For any set of shards, any number of failovers of each, any prepare timestamps, with
API parameters and sessions that move on, from the named assumptions of the constants:

| Theorem | States |
|---|---|
| `RefinesAtomicCommit` | `AtomicCommitSpec`: initial states map to initial states, every step to a step of `AtomicCommit` or to a stutter |
| `AnswersAreTrue` | `AnswersTrue`, for answers with w:1 and with majority |
| `FinishedWhenDecided` | `FinishedOnlyWhenDecided` |
| `CommitsAtOneTimestamp` | `OneCommitTimestamp` |
| `TypeCorrect` | `TypeOK` |
| `MajorityCommittedKept` | what is majority committed on a shard is never lost or changed |
| `ForgottenWhenSettled` | `NonePreparedWhenForgotten`, if `Plain` |

`ShardReplicaSetsProofs` is about the oplogs alone. `LogInv` says that an entry of term
`u` in any oplog comes, with all that is before it, from the primary of `u`
(`LogMatching`). From it follows that an electable history contains what is majority
committed, hence `DurableGrows`. The electable history is compared with the committed
one through the last entry of the current term: the last is found by the
well-foundedness of the naturals.

`TwoPhaseCommitProofs` proves `CommitInvariance`: `CommitInv` is inductive. It adds to
`LogInv` why each entry is there (`EntriesJustified`: only the first primary prepares, a
transaction ends only after the decision is durable, a decision to commit has all votes),
that the coordinator document goes through at most one list, one decision and one
deletion in any oplog (`DocumentOrder`), what the state of a transaction and a
coordinator says of the oplog of its term (`StatesLogged`, `CoordinatorsSound`), and that
only durable decisions are sent (`RequestsSound`) and that what is told is as durable
as the client's `writeConcern` asks (`AnswersSound`). Every fact in
it is about a durable part of an oplog, which only grows, or about the oplog of one term
and the actor of that term, so that failovers cannot falsify it. None of the properties
is inductive alone: that a commit has its reason in a durable decision needs that the
messages do, which needs that a coordinator waits for the entry it wrote, and so on
around the circle.

`ForgottenProofs` needs `Plain`: no API parameters, and no session that moves on. Without
it the property is false, as the findings say. `ForgottenInv` adds that an open
transaction has no end in its oplog (`OpenUnfinished`) and that an acknowledgement comes
from a shard on which the transaction has ended durably or can never be prepared
(`AcksSettled`, `DeletesSettled`). TLC found both invariants to hold on the instances of
the runs (`ForgottenInv` on that of `two_phase_liveness`) before they were proved.

`PreparedResolved`, `CommitCarriedOut` and `CoordinatorEnds` are liveness under fairness
and stay with TLC.

## 6. Primary only services

### Model

`PrimaryOnlyService` is one service of one node. An action is one critical section of
`_mutex`, the end of a wait, or a step of a task. The threads are the one in `onStepUp`
(which holds the RSTL, so that step down, drops and replicated writes wait), the one in
`shutdown`, the chain of futures of every step up, the instances, and a client.

| Actions | Code |
|---|---|
| `OnStepUp`, `JoinLastTerm`, `LaunchRebuild` | `onStepUp` up to the unlock, the join of the earlier executor, the wait for its instances |
| `MajorityReached`, `RebuildOpCtx`, `RebuildServiceEnds`, `BeginRebuildInstances`, `FindDocuments`, `FindFails`, `RebuildInstances` | the chain scheduled by `onStepUp`, `_rebuildService`, `_rebuildInstances` |
| `OnStepDown`, `BeginShutdown`, `ShutdownJoins`, `ShutdownExecutor`, `EndShutdown` | `onStepDown`, `shutdown` |
| `RegisterOpCtx`, `InterruptInstances`, `SetState`, `InsertNewInstances`, `ReleaseInstance` | the functions of these names |
| `GetOrCreateInstance`, `WaitForStateNotRebuilding` | `getOrCreateInstance`, and the wait it shares with `lookupInstance` and `getAllInstances` |
| `RunInstance`, `MakeOpCtx`, `OpEnds`, `TaskEnds`, `WaitEnds`, `StoreDocument`, `DeleteDocument` | an instance, as `TestService` of the unit test behaves |
| `DropCollection`, `Replicated` | the op observer's `onDropCollection` and `onDelete` |

Abstractions. Instances are numbered per id, so that `_activeInstances` is a function
from ids to numbers and a swap of maps is an assignment. Of an instance only what the
service relies on is there: tasks on the scoped executor, waits for futures, a cleanup
task on the parent executor, operations that can be interrupted, its document. An
operation is "live" or "killed". The scoped executor refuses work once it is shut down
and is joined when its tasks are over. `_rebuildService` is the service's own: it counts the documents (the sharding
DDL coordinators) or creates indexes (tenant migrations, which need the RSTL and try
again until they succeed), so it may fail in the model and is not assumed to go on while
`onStepUp` holds the RSTL. The query of `_rebuildInstances` may finish though it is
interrupted. Oplog application and rollback are over-approximated by `Replicated`: on a
node that is not primary any document may come or go, with or without `onDelete`. The cancellation token of `_source` is not modelled: the executor's
shutdown ends the chain either way (that the first continuation reads `_source`
without `_mutex` is a data race the model says nothing about). `startup` is done.

### Run

`primary_only_service`: one id, two terms, one instance created by a client, a
shutdown at any moment. Two terms are one failover, with everything of the first term
still under way in the second; the proofs below cover any number of
ids and terms.

Fairness (`FairSpec`): the executor runs what is scheduled, a task ends unless it is in
an operation that nobody has interrupted, an instance that is told to stop stops
waiting, a rebuild goes on unless its `_rebuildService`
runs while `onStepUp` holds the RSTL, and the threads in `onStepUp` and `shutdown` wake
up. Nothing is assumed of live operations, clients or elections.

What the run taught. The exceptions in the properties are all needed:

- `StepUpReturns`: a rebuild task that passed its check before the step down and makes
  its OpCtx after the next step up is not interrupted, since `registerOpCtx` looks at
  the state and not at the term. Its `_rebuildService` then waits for the RSTL, which
  is held by the thread that joins it: a deadlock (`LateRebuild`).
- `CallsReturn`: when `_rebuildService` fails, the result is ignored and the service
  stays in `kRebuilding`; callers wait until the next step down. The exception is for
  the term that is being rebuilt only (`RebuildServiceFailed`).
- `OneInstance`: an instance whose document was deleted, or whose collection was
  dropped, is released and may run on beside a new one of the same id, also in a later
  term. `docs/primary_only_service.md` excludes this without exception.
- `CleanupBeforeShutdown`: a shutdown that meets `onStepUp` does not wait for the
  instances that one holds, and shuts the parent executor down before their cleanup.
- `EveryDocumentResumed`: an instance in the middle of a write can store its document
  after the collection was dropped.

### Proofs

All six safety invariants of the run are proved for every set of ids and any number of
terms and created instances, from `ServiceAssumption` only (the bounds are natural
numbers, the ids a finite set).

`PrimaryOnlyServiceProofs` proves `Invariant`: `ServiceInv` is inductive. None of the
properties but `InterruptedAtStepDown` is part of an induction as it stands; the
strengthening is

- `Held`: what is unfinished and not released is in the map, or saved by the thread in
  `onStepUp`, or saved by the one in `shutdown`;
- `Threads`: where the two threads can be in each state, so that at most one of these
  three holders has an object; a rebuild exists only of a term whose `onStepUp` has
  returned;
- `OfThisTerm`: the instances in the map of a running service are of its term, so that
  an OpCtx made after a step up cannot belong to an old instance unless it is released.

`OneInstance`, `CleanupBeforeShutdown` and `RebuildFindsNoInstance` follow from the
first two.

`DocumentsResumedProofs` proves `EveryDocumentResumed`, on top of it, with `TaskInv`:
only the executor of the current term is open (`Executors`), so a task is of the current
term or of the one `onStepUp` is joining (`Working`); a rebuild starts without an object
of its own term (`Past`); what it found is still all there is while it is not stale
(`FoundAll`); and an instance that has not stored its document is overtaken by another
of the same id and term only after a drop (`Overtaken`). TLC found both invariants to
hold on the instance of the run before they were proved.

The three liveness properties are model-checked only.

## 7. Not modelled

See `PROJECT.json`. In short: yielding of locks, tickets and a locker's several
resources; the session catalog's check-out queue, retryable writes and transactions
without two-phase commit; what is planned above; initial sync, oplog application,
storage, query and index code, whose difficulty is in the data; the router and config
server; transport, authentication, tools and third-party code.

The modelled lines are a small share of the repository, which has over a million:
most of them are query, storage, generated and data code in which there is little for
a model checker. The project takes the cores of the protocols one by one and keeps
each faithful.

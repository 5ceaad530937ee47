# A verification of etcd/raft, as vendored by CockroachDB

The repository is the vendored dependency tree of CockroachDB: some seven thousand files of
third-party Go code. The part whose correctness is hardest to test, and on which every replicated
range depends, is the consensus library `go.etcd.io/etcd/raft/v3`. It is the system this project
models; paths below are relative to that directory. Below raft, in the storage engine pebble, the
piece of lock-free code every write goes through, the commit pipeline, is modelled as well
(`github.com/cockroachdb/pebble/commit.go`).

## 1. The system

A raft group is a set of servers. Each runs the library as a deterministic state machine without
I/O: the application feeds it ticks, messages and proposals, and takes out of it a `Ready`: state to
persist, messages to send *after* that, and entries to apply. `Advance` reports that this is done.

| Component | State | Operations | Talks to |
|---|---|---|---|
| `raft.go` | term, vote, role, leader, transfer target, elapsed ticks, outgoing messages | `Step` and the role handlers, ticks, campaigns, `maybeSendAppend`, `maybeCommit` | the log, the tracker; other servers by messages |
| `log.go`, `log_unstable.go` | entries not yet durable, commit and applied index | append with conflict search, `commitTo`, `term`, `restore`, `stableTo` | `Storage` |
| `storage.go` | HardState, entries, snapshot | `Append`, `CreateSnapshot`, `Compact`, `ApplySnapshot` | written by the application |
| `tracker/inflights.go` | ring of unacknowledged messages | `Add`, `FreeLE`, `FreeFirstOne`, `reset` | `Progress` |
| `tracker/progress.go` | match and next index, probe / replicate / snapshot state | `MaybeUpdate`, `MaybeDecrTo`, `Become*`, `IsPaused` | leader |
| `tracker/tracker.go` | configuration, progress of all, votes | `RecordVote`, `TallyVotes`, `Committed`, `QuorumActive` | `quorum` |
| `quorum/` | none | `CommittedIndex`, `VoteResult`, majority and joint | |
| `rawnode.go` | previous soft and hard state | `Ready`, `HasReady`, `Advance`, `Propose`, `Step`, reports | application |
| `node.go` | channels of one goroutine | select loop `run`, `Stop`, `Propose` with wait | application goroutines |
| `confchange/` | none (computes configurations) | `Simple`, `EnterJoint`, `LeaveJoint`, `Restore` | tracker |
| `read_only.go` | queue of pending reads | `addRequest`, `recvAck`, `advance` | heartbeats |
| pebble `commit.go` | queue of pending batches, semaphore, next and visible sequence number | `Commit`, `prepare`, `AllocateSeqNum`, `publish`, `enqueue`, `dequeue` | WAL, memtable |
| `bootstrap.go`, `status.go`, `util.go`, `logger.go`, `raftpb/` | | set-up, views, formatting, generated encoding | |

What is hard to get right: messages are delayed, repeated, reordered and lost; a server may crash
between an event and the `Ready` that makes it durable; the leader counts its own copy of an entry
before that copy is durable; terms, leases, pre-votes and leadership transfers overlap; logs are
compacted while followers lag; windows, buffers and counters meet their limits; servers elect and
commit with different configurations at a time; goroutines wait on each other's channels, and publish
each other's batches. `PROJECT.json` lists
these hazards at their lines, with the properties that cover them.

What makes the components correct:

- elections: one leader per term, no vote forgotten (`ElectionSafety`, `VotesDurable`);
- replication: logs that agree on an entry agree up to it, nobody commits differently, leaders have
  what was committed, commits and acks are on disks (`LogMatching`, `CommittedAgree`,
  `LeaderCompleteness`, `CommittedDurable`, `MatchDurable`);
- the process: no panic of the log, its storage or the handlers is reachable (`NoPanic`), what is
  durable only moves forward (`HardStateMonotonic`), messages refer to entries that exist (`AppAnchored`);
- the log: unstable part and storage are one log although messages are handled between `Ready` and
  `Advance`, and what is committed is applied, once and in order (`ImplementsLogicalLog`,
  `AppliesCommitted`, `CommittedApplied`);
- membership: successive configurations have overlapping quorums, one change is pending at a time,
  joint configurations are left, a snapshot restores them, and all servers can apply a change or none
  (`QuorumsOverlap`, `OnePendingChange`, `JointLeft`, `AppliedAlike`, `RestoreRoundTrip`, `NeverInconsistent`);
- reads: never older than what was committed when they were asked for, and answered (`ReadsCurrent`,
  `ReadsAnswered`);
- progress: a follower catches up, a group with a quorum settles on a leader, calls of `Node` return
  (`CaughtUp`, `LeaderFollowed`, `StopReturns`, `ProposalsReturn`, with `NoOutputLost` and
  `AdvanceMatches` for what passes through the channels);
- flow control: the window is a bounded FIFO and its contract is kept (`ImplementsQueue`,
  `WindowInBuffer`, `InflightsContract`);
- quorums: counting and sorting compute the quorum facts they stand for
  (`TallyIsQuorumDecision`, `CommittedIsLargestQuorumAck`, `DecisionStable`, `CommittedMonotonic`);
- the commit pipeline: batches become visible whole, applied and in order, before their commit
  returns; every commit returns (`VisibleApplied`, `ReturnedVisible`, `IngestSeesEarlier`,
  `CommitsReturn`).

## 2. Modules

| Module | Models | Notes |
|---|---|---|
| `InflightsQueue` | what `Inflights` promises | abstract specification: a bounded FIFO |
| `Inflights` | `tracker/inflights.go` | ring in a buffer that grows; `Window` is the refinement mapping |
| `QuorumConfig` | `quorum/` | operators; no state |
| `ProgressTracker` | votes and acks of `tracker/tracker.go` | extends `QuorumConfig`; any joint configuration |
| `QuorumProofs` | | theorems about `QuorumConfig`: counting, quorums that intersect |
| `TrackerProofs` | | theorems about the package `tracker`: `ProgressTracker` and `Inflights`; extends `QuorumProofs` |
| `Progress` | `tracker/progress.go` | operators on the record of one follower |
| `Raft` | `raft.go`, `log.go`, `rawnode.go` | composes `QuorumConfig` and `Progress`; servers, disks, network |
| `RaftLogProofs` | | types and the order of indexes in `Raft`, every handler has its lemma; flow control of the leaders; votes and leaders; logs; extends `QuorumProofs` |
| `RaftCommitProofs` | | commitment in `Raft`, and its panics; extends `RaftLogProofs` |
| `Catchup` | one leader and one lagging follower | the handlers of `Raft` over a lossy transport; liveness |
| `Rejoin` | servers of different terms after a partition | the handlers of `Raft` over a timely network; liveness |
| `LogicalLog` | what log, unstable part and storage promise | abstract specification: one log, written in two steps |
| `RaftLog` | `log.go`, `log_unstable.go`, `storage.go`, Ready and Advance | `Log` is the refinement mapping to `LogicalLog` |
| `LogicalLogProofs` | | theorems about `RaftLog`, the refinement among them |
| `Changer` | `confchange/`, `raftpb/confchange.go` | operators on configurations; uses `QuorumConfig` |
| `ChangerSteps` | sequences of changes | the specification around `Changer` |
| `ChangerProofs` | | theorems about `ChangerSteps`; extends `QuorumProofs` |
| `Membership` | configuration changes in `raft.go` | extends `Changer`; servers with different configurations |
| `ReadIndex` | `read_only.go` and its use in `raft.go` | extends `QuorumConfig` |
| `ReadIndexProofs` | | theorems about `ReadIndex`; extends `QuorumProofs` |
| `NodeLoop` | `node.go` | the select loop, its callers and the application |
| `NodeLoopProofs` | | theorems about `NodeLoop` |
| `CommitPipeline` | pebble's `commit.go` | one step per atomic access |
| `MCProgressTracker`, `MCRaft`, `MCCatchup`, `MCRejoin`, `MCRaftLog`, `MCChanger`, `MCMembership`, `MCReadIndex`, `MCCommitPipeline` | | constants and scenarios for TLC |

Where several settings of `Config` and several bounds are worth a run, they are fields of a record
that `Init` picks from the constant `Scenarios` and no step changes; an MC module lists the records.
One run then covers all of them, and its properties hold of each.

### Inflights

`start`, `count` and `buffer` are the fields of the struct; slot `n` is `buffer[n + 1]`. An access
outside of the slice, and `Add` on a full window, set `panicked`. `InflightsNext` makes the calls `raft.go`
makes: `MayAdd` is what `Add` asks of its caller, and `FreeFirstOne` is called on a full window only
(`raft.go:1285`). `NoPanic` is about these calls; on a window that was never added to, `FreeFirstOne` does
panic (section 4).
The loop of `FreeLE` is stated by where it stops (`FreesExactly`). The names of the specification carry the
module's (`InflightsSpec`), so that `TrackerProofs` can extend it together with `ProgressTracker`.

### QuorumConfig and ProgressTracker

Votes are a function with the value `"missing"` where the Go map has no entry. The sort of
`CommittedIndex` is stated by what stands at a position of the sorted array (`SortedAck`). An empty
half yields `Unbounded`, which stands for `math.MaxUint64`. `HasQuorum` is the reference definition:
more than half of the voters. `Init` allows every joint configuration with a non-empty incoming half.

### Raft

`node[i]` is the volatile state of server `i`, `disk[i]` what its application has made durable, and
`net` the set of all messages ever handed to the transport. A message in `net` may be received at any
later time, any number of times, or never, which covers delay, loss, repetition and reordering.

Every handler is an operator from a server record to a server record, named after the function it
translates, and every event is an action that applies one: `Hup`, `Beat`, `LeaderTimeout`,
`LeaseExpires` (ticks); `Propose`, `TransferLeader`, `ReportUnreachable`, `ReportSnapshot` (calls of
the application); `StepVote`, `StepApp`, `StepAppResp`, ... (one per message type, after the term
check of `Step` in `Receives` and `Observe`, or `StepLowerTerm`); `Ready`, `Compact`, `Restart`
(application and crash). Messages wait in `node[i].msgs` until `Ready`, which writes `disk[i]` and
then extends `net`.

Abstractions:

- Ready, persisting, sending, applying and Advance are one step of a server. Steps *between* Ready
  and Advance are the subject of `RaftLog`.
- For servers in `EagerReady`, that step follows every event at once. Until its Ready a step of a
  server is invisible to the others, and a crash undoes it, so that the runs lose only interleavings
  inside one server; the other servers of each run are the ones for which these matter.
- `log` is the whole history of a log, and `offset` how much of it is compacted. The handlers read
  nothing at or below `offset` but the term of `offset` itself. A snapshot is the prefix it stands for.
- Elapsed ticks are 0 or 1: within the election timeout or not. They are only read for leases.
- `prs` is only kept while leading: it is reset on every change of role before it is read again.
- `maybeAppend` computes slice bounds from where the conflict is; a message with a gap before its entries,
  which would index outside of the slice, sets `panicked`, as `Panic` of the logger does.
- Size limits count entries; a command has size 1 and the empty entry of a new leader 0.
- Membership changes are in `Membership`, reads in `ReadIndex`, paging of applied entries in `RaftLog`.
- Not in the model: `ErrSnapshotTemporarilyUnavailable`, restarts with an `Applied` index from the
  application.

### Catchup and Rejoin

Both extend `Raft` and use its handlers, with environments in which progress can be expected.

`Catchup` starts with a leader that has just been elected and a follower whose log differs from the
leader's in any way two logs of Raft can (`Compatible`); the leader's may be compacted. Of each sender
the transport keeps only what was sent last, so that every message can be lost. The third voter is
down, so that nothing is committed without the follower.

`Rejoin` starts after a partition: the servers have reached different terms, one may still lead term 1,
and a minority is down for good. Messages are exchanged in rounds, and a timer fires only between
rounds. What a server receives in one round is independent of what the others do in it, so that the
servers take turns. Both PreVote and CheckQuorum are on: this is the combination in which leases and
pre-votes can lock a server out, and the answers to lower terms (`AnswersToLowerTerm`) exist to avoid it.

### RaftLog and LogicalLog

One server, its log in three places, and the rest of the group as the variable `cluster`: for each term
the log of its leader and how much of it is committed, which is all that decides what a `MsgApp`,
`MsgHeartbeat` or `MsgSnap` may contain. `Ready`, `Persist`, `Apply` and `Advance` are steps of the
application; messages are handled and crashes happen between any two of them. A Ready that does not ask
for a sync (`MustSync`) may be lost in a crash of the machine. `LogicalLog` has one log and writes it
in two steps; `Log` maps the dummy entry, the entries of storage and the unstable ones to it. An entry
is its term, since logs that agree on a term at an index agree up to it (`LogMatching` of `Raft`).

A leader sends a snapshot only to a follower that is recently active (`maybeSendAppend`): one that has
answered in its term, so that a Ready with that term is written (`MaySendSnap`). The log rests on this.
`stableTo` compares one term, that of the last entry of the Ready. If the snapshot of a leader that had
never heard of the server could arrive while a Ready is outstanding, it would drop the entries of
the Ready, and later messages could bring its last entry back, behind others that are not written; Advance would
take them for written. `raft_log` has a history in which this happens when the guard is dropped (`CutAndBack`).

### Changer, ChangerSteps and Membership

`Changer` has every function of the Changer as an operator on a pair of configuration and progress map;
a refusal is the value `Refused`. A loop over changes is a fold. `RestoreConf` is `confchange.Restore`.
`ChangerSteps` applies any sequence of up to two changes to any configuration it can reach.

`Membership` puts it into a group of servers. `applied` and the configuration move when the application
handles a Ready, at each server's own pace, and `AdvanceTo` adds the automatic leave. Votes and the
delivery of a part of a leader's log are steps of two servers (what messages can do to logs is the
subject of `Raft`); an answer may be lost. A restart replays the log from the first configuration, also after a panic.

A leader does not ask whether a change it accepts can be applied, and some cannot (section 4). They are
among the proposals: all voters or the last one removed, and an empty change with an explicit transition in
a joint configuration. An entry's field `fits` is a history of whether the leader could have applied the
change when it accepted it; nothing reads it but `AppliedAlike`, which says that whoever applies the entry,
and whenever, finds the same.

### ReadIndex

The queue of `readOnly` with all its methods, and the requests, heartbeats, answers and read states
around it, which are messages that may be late and repeated; a scenario may lose them. Elections and
replication are steps of two servers as in `Membership`. `asked` records what was committed anywhere
when a read was asked for: the history that linearizability is about. A forwarded request is delivered
at most once (see section 4 for what happens otherwise).

### NodeLoop

The locals of `run()`, one step for the code at the top of the loop and one for each case of the select;
a rendezvous on an unbuffered channel is a step of both sides. `Propose`, `Step`, `Status` and `Stop`
are calls by any goroutine, whose context may end at any time; the application takes a Ready, may call
`ApplyConfChange`, and calls `Advance`. raft is reduced to a leader, membership of this node, and the
amount of output that waits for a Ready.

### CommitPipeline

A step is one atomic access to shared memory and the local work after it, so that goroutines interleave
as they can in memory. `headTail` is the packed pair of indexes, which overflow at `Wrap`; `batch[w]` is
reused by the next operation of the same goroutine, as a batch from the pool is. The WaitGroup of a
batch counts its publication and, for a synced commit, the `LogWriter`, which is external. Errors of the
WAL or the memtable end the process and are left out, and so is `ratchetSeqNum`, which only the hooks
for external flushes and replay call.

## 3. Runs

| Run | Instance | Shows |
|---|---|---|
| `inflights` | capacity 5, 7 indexes: the buffer grows 0, 1, 2, 4, 5, the last step capped, and wraps | the ring is safe and implements the FIFO |
| `progress_tracker` | all joint configurations over four ids (even, odd, overlapping, disjoint halves), acks up to 2 | sorting and counting compute the quorum facts |
| `raft_elections` | `Elections` of `MCRaft`: four terms in two alternating majorities with crashes; two candidates, one voter, crashes before durability; competing pre-campaigns; the same with leases; a second term under leases; leadership transfer | one leader per term, nothing committed is lost |
| `raft_replication` | `Replications` of `MCRaft`: a leader whose log is durable late; unreachable reports; a full window of two; forwarded proposals; heartbeats ahead of entries to a crashing follower; compaction, restart and snapshots with every outcome | what is acknowledged or committed is on the disks, no message refers to what is not there |
| `raft_catchup` | all compatible pairs of seven logs of two terms, messages of one entry, windows of two | a follower catches up although messages are lost |
| `raft_rejoin` | three servers of terms 1 to 3, two or three of them running, terms up to 5 | the group settles on a leader |
| `raft_log` | four histories of three leaders, logs of up to four entries, messages of two, pages of one, one crash | unstable part and storage are one log; all that is committed is applied |
| `changer` | four ids, sequences of up to two changes, all transitions | configurations stay consistent and quorums overlap |
| `membership` | `Changes` of `MCMembership`: two removals one after the other, and that of the last voter; a voter swapped jointly, or all removed; a voter demoted jointly and left on request or with a change that cannot be applied, pages of one entry, restart | configurations that differ between servers never commit differently, and a change can be applied by all servers or by none |
| `read_index` | `Reads` of `MCReadIndex`: a leader replaced while asked twice; reads at either leader; a lossy transport | reads are current, and answered |
| `node_loop` | two callers, one leader that comes and goes, up to two outputs of raft | no output is lost, calls return |
| `commit_pipeline` | `Pipelines` of `MCCommitPipeline`: a commit, a synced commit and an ingestion; a queue that goes round once, from sequence number 0; more goroutines than places; indexes that overflow | batches become visible in order, commits return |

The bounds of `Raft` are fields of its scenarios: `MaxTerm` and `MaxLog` end campaigns and proposals,
`MayCampaign`, `MayRestart`, `MayCompact`, `MayBeat` and `MayTransferTo` name the servers an event may
happen to, and `Reach` the pairs that exchange the messages of a term. All runs have three servers:
two quorums then meet in one server, which is the smallest case in which its memory decides. A network
that never forgets makes the states many; each scenario therefore restricts who talks to whom to what
its question needs, and between them they take every action. `CHECK_DEADLOCK FALSE` is set where these
bounds end the behaviours; the system itself would go on campaigning, proposing or committing.

In `membership` the first and the last configuration of the first scenario have disjoint quorums: it
takes two changes in flight to make two majorities disagree. In `commit_pipeline`, `Wrap` is twice the
larger queue and the indexes start just below it, so that both overflow in every scenario.

### Fairness

- `raft_catchup`: the leader's heartbeat timer runs (`raft.go:668`); of a kind of message that is sent
  again and again, some arrive; the application reports on snapshots, as `ReportSnapshot` asks of it.
  Without the last a follower in `StateSnapshot` stays paused by design.
- `raft_rejoin`: messages on their way arrive; a timer that is due again and again fires, since election
  timeouts are random (`raft.go:1714`) and none always comes second. Messages faster than timers is the
  usual assumption under which an election can succeed.
- `raft_log`: the application goes on handling Readys. Nothing is assumed of messages or crashes.
- `read_index`: the leader beats, and of its heartbeats to one follower, and the answers, some get
  through.
- `node_loop`: goroutines run on; `select` picks at random among the cases that are ready, which makes
  strong fairness of a case what the language gives. Callers need not call, and contexts need not end.
- `commit_pipeline`: goroutines run on, and the WAL syncs.

Where an `ENABLED` of a large action would be slow to evaluate, the fairness condition is written out
with an operator that says when the action is enabled (`Underway`, `MayHup`, `News`, `Counts`).

The type invariants `TypeOK` of `RaftLog` and `CommitPipeline` are part of their `NoPanic`, that of
`Membership` of its `AppliedAlike` and that of `ReadIndex` of its `ReadsCurrent`. `WindowInBuffer`, `DecisionStable`, `CommittedMonotonic`
and the type invariants of `Inflights` and `ProgressTracker` are proved (section 5) and not checked again.
That of `Raft` is proved and checked: the proof is about every group, the run guards the scenarios.

Every property has a mutant in `PROJECT.json`: a variant of one definition, with a plausible mistake
in it, under which TLC finds the property violated. The variants stand before the definitions they
change, as `Mut...`.

## 4. Where comments and code part

Met while modelling. The passing runs leave a case out by the bound or the assumption named, or their
properties allow for it:

- `Inflights.FreeFirstOne` "is a no-op if nothing is inflight" (`tracker/inflights.go:116`), but reads
  `buffer[start]` before anything checks that there is a buffer. The library calls it on full windows
  only, as the model does.
- "Only handle vote responses corresponding to our candidacy" (`raft.go:1373`): a pre-candidate of term
  T also counts a late answer to its earlier pre-campaign from term T-1, since term and type fit
  (`raft.go:1395`). Elections stay safe (`raft_elections`); what suffers is the protection from
  disruption.
- `CommittedEntries` "have previously been committed to stable store" (`node.go:76`): by a quorum. On this
  server they may be in `Entries` of the same Ready, still to be written (`node.go:560`). Applications
  that write before they apply are safe; `Persist` comes before `Apply` in `RaftLog`.
- "This may be done at any time after step 1" (`doc.go:101`, of Advance): the guards against a second
  configuration change (`raft.go:1039`, `raft.go:758`) compare with the applied index, which Advance
  moves. If Advance comes before the changes of its Ready are applied, two majorities can commit
  differently. `Membership` applies first.
- In a joint configuration any change without single changes passes for the request to leave
  (`raft.go:1041`), but only the zero value is one (`raftpb/confchange.go:103`): with an explicit
  transition the entry is accepted and committed, and applying it panics on every server, again after
  every restart. `membership` proposes it.
- A change that leaves no voter is accepted and committed too (`raft.go:1039-1056` asks for no more than
  the transition), and is refused only where it is applied (`confchange/confchange.go:172`), where a refusal
  is a panic (`raft.go:1633`). `membership` proposes it. `AppliedAlike` says that servers do not part over
  such changes, not that there are none.
- "ReadOnlySafe guarantees the linearizability of the read only request" (`raft.go:48`): `addRequest`
  (`read_only.go:56`) ignores a repeated request only while the first one is pending. If the transport
  repeats a forwarded request after it was answered, it is queued behind newer ones, and a late
  acknowledgement of its first round answers those too. `ReadIndex` delivers requests once.
- A node that is removed and added again under the same leader finds `propc` nil and blocks proposals
  until the leader changes (`node.go:365-382`, as its comment concedes). `ProposalsReturn` is about nodes
  that stay members.

## 5. Proofs

| Theorem | Statement | Argument |
|---|---|---|
| `InflightsSafe` | `InflightsSpec => [](InflightsTypeOK /\ WindowInBuffer /\ NoPanic)` | `IInv` adds that the window is sorted and that nothing has failed |
| `InflightsImplementsQueue` | `InflightsSpec => ImplementsQueue` | every step maps to a step of the FIFO, or a stutter, under `IInv` |
| `QuorumsIntersect` | two quorums share a voter | cardinality of a union |
| `TypeCorrect` (`TrackerProofs`) | `Spec => []TypeOK` of `ProgressTracker` | the commit index of a joint configuration is never `Unbounded`, since the incoming half is not empty |
| `TallyCorrect`, `CommittedCorrect` | `Spec => []TallyIsQuorumDecision`, `Spec => []CommittedIsLargestQuorumAck` | facts about all configurations, votes and acks of the right type |
| `DecisionsAreStable`, `CommittedNeverBack` | action properties of `ProgressTracker` | a recorded vote never changes, an ack only grows, and quorums are monotone |
| `NoReadyIsIncomplete` | `Spec => []NoOutputLost` of `NodeLoop` | `LoopInv` ties the channels that are armed to where the application is |
| `AdvanceIsOfTheReadyTaken` | `Spec => []AdvanceMatches` | the same invariant |
| `TypeCorrect` (`RaftLogProofs`) | `Spec => []TypeOK` of `Raft` | `TypeInv` adds that applied <= committed <= last index, that compaction stays below what is applied, and that memory is ahead of the disk |
| `WindowsAreKept` | `Spec => []InflightsContract` | `WindowsInv` adds that only a replicating follower has a window, and that Next is beyond Match there |
| `VotesAreDurable` | `Spec => []VotesDurable` | `ElectionInv`: what a message says of a vote is at most what its sender has in memory, and on its disk once it is sent |
| `OneLeaderPerTerm` | `Spec => []ElectionSafety` | `ElectionInv` and `QuorumsIntersect` |
| `HardStateIsMonotonic` | `Spec => HardStateMonotonic` | memory is ahead of the disk, and Ready writes memory |
| `LogsMatch` | `Spec => []LogMatching` | `LogsInv`: what stands before an entry is decided by its index and term |
| `CommitsAgree` | `Spec => []CommittedAgree` | `CommitInv`: what is committed is part of a chosen log; of two chosen logs, the later one has the earlier one |
| `LeadersComplete` | `Spec => []LeaderCompleteness` | the same, and a leader has every log of its term |
| `AcksDurable` | `Spec => []MatchDurable` | `CommitInv`: the disk of a server keeps the promise of every ack it has sent |
| `CommitsDurable` | `Spec => [](Several => CommittedDurable)` | a quorum has claimed what is chosen, and none of them may have given it up |
| `PanicsUnreachable` | `Spec => []NoPanic` | part of `CommitInv`; `LoneInv` for a group of one server |
| `AppsAnchored` | `Spec => []AppAnchored` | `CommitInv`: a MsgApp quotes a log of its leader, and terms there are above 0 |
| `NeverPanics` | `Spec => []NoPanic` of `RaftLog` | `Inv`: what the log, the Ready and storage have in common while a Ready is handled |
| `AppliedIsCommitted` | `Spec => []AppliesCommitted` | `Inv`: a page of the Ready continues what is applied, and is committed |
| `BehavesAsOneLog` | `Spec => ImplementsLogicalLog` | every step maps to a step of the one log, or a stutter, under `Inv` |
| `ChangesConsistent` | `Spec => []NeverInconsistent` of `ChangerSteps` | `SoundInv`: voters, learners and learners to come stay apart, and are exactly who is tracked |
| `ChangesOverlap` | `Spec => QuorumsOverlap` | a change moves one voter, or keeps a half of the configuration (`Moves`) |
| `RestoreIsExact` | `Spec => []RestoreRoundTrip` | under `SoundInv`, what Restore's changes have made after each id (`ListRuns`) |
| `ReadsAreCurrent` | `Spec => []ReadsCurrent` of `ReadIndex` | `ReadInv`: a pending read has an index that covers it, or a quorum that will never acknowledge it |

The assumptions are those of the modules: for `Inflights`, a capacity of at least 1; for
`ProgressTracker`, a finite set of ids and indexes below `Unbounded`; for `Raft`, a finite set of servers and scenarios whose bounds are of the right type
(`ServerAssumption`, `ScenarioAssumption`). In the theorems about `Raft` the number of servers, of terms,
of entries and of messages in flight is arbitrary, and so are the settings of `Config`. For `RaftLog`, bounds of
the right type (`RaftLogBounds`) and histories in which the logs of leaders match and a leader has what an earlier one
committed (`GroupsAssumption`), which is what `LogsMatch` and `LeadersComplete` prove of `Raft`. For `ChangerSteps`, a
finite set of ids, voters to begin with (`NodeAssumption`), and changes of the right type, of any length
(`ConfChangesAssumption`). For `ReadIndex`, a finite set of servers, scenarios with bounds of the right type, and a `None`
that is no server, request or number (`ReadIndexAssumption`).

**Inflights.** The invariant needs `WindowInBuffer`: slots wrap at the capacity, and only the fact that a
window never wraps before the buffer has reached its capacity keeps them in memory. That the window is
sorted is needed for `FreeLE`, which stops at the first larger index while the FIFO releases exactly the
smaller ones.

**ProgressTracker.** The types (`TypeInv`) are inductive by themselves; the weight is in the lemmas on
counting and on sorted positions, which TLC checks for four ids and the proofs for every finite set.

**NodeLoop.** `LoopInv` says in which order the goroutine and the application pass a Ready and its Advance:
`readyc` is armed only while no Ready is out, `advancec` only after one was taken, and the Ready that is
offered is the one built at the top of the loop. Neither property is inductive without it.

**Raft, types.** Every handler is a total operator on server records, so there is one lemma per handler:
from a record of the right type (`StructOK`) it makes one of the right type. Two things are less obvious. The
handlers index into logs, so that the order of the indexes is part of the type; and a restart takes
the state from the disk, so that the disk has to satisfy the same order, and `Ready` needs that memory is ahead
of the disk (`AheadOfDisk`). The loop over the followers (`SendAllAppends`) is a recursive function; that it
exists, and what it preserves, is shown by looking at the least index at which it would fail (`LeastNat`).

**Raft, windows.** The contract alone is not inductive: an ack in a probe resets Next to Match + 1, which is
fine only because nothing is in flight outside of `StateReplicate`; and `FreeLE` stops at the first
index above the ack, which frees enough only because the window is sorted.

**Raft, elections.** A server tells others about its vote in three ways: by granting one, by asking for votes
in its own name, and by leading. `ElectionInv` says that all of them agree with the vote in memory, as long as the term is
the same, and that those in the network agree with the disk. A leader then had the votes of a quorum,
each of them told by its owner, and two quorums share an owner. Requests of pre-votes tell nothing: the
proof is where it shows that counting an answer to an earlier pre-campaign (section 4) cannot hurt.

**Raft, logs.** Messages are never forgotten by `net`, so a request for votes is a record of the log of the
candidate that sent it. `Behind(N, x, t, p)`, "an entry of term t at index x stands behind one of term p", reads off the
request of the leader of term t what precedes an entry: at its first entry the last term of the log
it asked with, at the others its own term. `LogsInv` says that every log, in memory, on disk or in a message, is
`Valid`, that is, all its entries stand where `Behind` says; that all requests of one term by one server
describe one log, which a candidate still has (`AskInv`); that no entry of a candidate's term exists before it is
leader (`CandidateInv`); and that a leader has all the entries of its term (`LeaderInv`). For the last two
there is a set `K` of all entries there ever were: an entry is in `K` even after every copy of it is overwritten, so
that a leader never makes a second one of the same index and term (`EntriesInv`). Two
valid logs that agree on a term at an index agree before it, by descent; this needs one leader per
term (`OneLeaderPerTerm`'s invariant). In a group of one server no request is ever sent, and there is nothing to prove: the
invariant is stated for several servers (`Several`). TLC checked it on the scenarios of
`raft_elections` before it was proved.

**Raft, commitment.** A MsgApp, a MsgSnap and an ack are *claims*: their sender has the log of the leader of their
term up to an index (`Claim`, `End`). A leader's MsgApp is its own claim, which is why it may count its own
copy: nobody else can have acknowledged an entry before the leader has sent it, and it is sent only after
Ready has saved it (`AckOK`). Claims stay in `net`. Two notions about them carry the proof:

- a log is `Chosen` if a quorum has claimed all of it in the term of its last entry. `Safe` says that what a
  server regards as committed is part of a chosen log of its term or an earlier one. Counting only entries of the own
  term (`maybeCommit`) is what makes this true: an entry of an earlier term is committed with a later one,
  never by itself;
- an entry is `Dead` if the disks of a quorum are past its term and none of these servers has claimed it. No later step
  can make it chosen, and what is chosen is not dead (`ChosenLives`).

`CommitInv` says that every message is what it claims to be (`MsgOK`), that every commit index is `Safe`, in
memory, on disk, in a MsgApp, a MsgSnap and a heartbeat, and that promises are kept: a server that has
claimed a log agrees with it as long as it is in that term, and later still has all its entries of that
term that are not dead (`Backs`), first in memory and, once the claim is sent, on disk. Its vote went to a
candidate that has them too (`VoteOK`, from the comparison of logs in `isUpToDate`). So a leader of a later
term has everything that is not dead, since one of its voters is among the claimants (`LeaderHas`), and a log it
sends can only overwrite what is dead (`BacksReplace`). `Dead` is needed because servers do give up what
they have acknowledged, if it was of an earlier term and its leader lost its office: that no longer counts, and the
invariant has to tell those entries from the ones that do. Induction over terms, which is usual here, is avoided: a log
with an entry of a later term is compared at its first entry behind the log with which that leader asked for votes
(`LaterHas`).

The panics follow: the commit index in a heartbeat is at most what its receiver has acknowledged in that
term, and a conflict below the commit index would be one between two chosen logs. A request for a transfer
that was forwarded reaches the leader of its term, which does not forward it. A group of one server has an
invariant of its own (`LoneInv`): nothing is sent. `CommitsDurable` leaves it out, because there the property
does not hold: the server commits as soon as it appends, before Ready has saved the entry.

`CommitInv` quantifies over the set `K` of all entries there ever were, and over logs, so that TLC cannot
evaluate it as it stands. A form in which `K` is what is to be found in logs and messages, and logs are
rebuilt from the requests for votes, was checked on the scenarios of `raft_elections` and
`raft_replication` before the proof.

**RaftLog.** The hard part is what happens between Ready and Advance. `Inv` says:

- at all times the log, read from storage and unstable entries together, is the beginning of a leader's log, and up to the
  commit index what leaders have committed; unstable entries begin at the latest where storage ends (`LogInv`, `Shape`).
  Two such logs that agree on a term at an index agree up to it;
- what a crash of the machine may take back is a commit index and nothing else (`SyncedInv`), and nothing beyond the commit
  index on disk is applied (`AppliedInv`), so that a restart never finds itself behind the application (`AppInv`);
- the Ready holds a log that was the server's, and would be one again if it were put over storage (`RdInv`), which is
  so after it was written (`WroteInv`);
- meanwhile the unstable entries are the Ready's, extended or replaced from some index on (`SameBasis`), or
  a snapshot beyond the Ready's commit index has replaced them (`NewBasis`). In the first case the last entry of the Ready,
  if it is there, has before it what the Ready had. In the second it must not come back behind the snapshot: no leader has
  both (`Incompatible`). This is shown when the snapshot arrives. If its leader is of the Ready's term, the last entry
  is still in the log, or the log has become this leader's, which does not have it (`LastOrGone`). If it is of a later term, `MaySendSnap` leaves only a
  snapshot that ends in an entry of that term, and no log has an older one behind it.

So `stableTo` drops only what storage has (`DropsWritten`), although it compares one term. For the refinement, `MsgApp` and `MsgSnap` are
steps of the one log, `Persist` makes stable what was handed out, Advance changes nothing that a reader of the log sees, and a
crash leaves what is stable. TLC checked `Inv` on the four histories of `raft_log` before the proof; that is how the role
of `MaySendSnap` was found.

**Changer.** `checkInvariants` alone is not inductive: it lets a learner to come be a voter of the incoming half too, and
leaving the joint configuration would make it a learner that votes. `SoundInv` says that a tracker
is `Tracker(v1, v2, l, n, auto)`, that is, its progress map follows from its four sets; that learners vote in neither half and learners
to come only in the outgoing one (`Apart`); and that there is a voter. Every single change, and so every sequence of them,
leaves a tracker of this form with the same outgoing half (`ApplyOneKeeps`, `ApplyAllKeeps`). Every operation of the Changer is then
one of a few moves of voters (`ChangeIs`, `Moves`). If one voter joins or leaves, majorities still meet, by counting; if
a joint configuration is entered or left, one half is on both sides. The loops, `apply` and `chain`, are recursive
functions: that they exist, are unique and can be put behind one another is shown at the least round at which this
would fail (`LoopExists`, `LoopUnique`, `RunsThrough`). For Restore, `ListRuns` goes through the changes
that a set of ids is turned into, in the order of the ids, when it is known which tracker there is after each set of ids;
Restore's phases give that set: the outgoing voters are removed, the incoming ones added, then the learners, then those to come.

**ReadIndex.** `ReadsCurrent` speaks of what was committed anywhere, and the leader that is asked may have been replaced
without knowing it. `ReadInv` has two parts. `Core` is about elections, logs and commitment:

- what is committed is held by a quorum, and by every log with an entry of a later term (`Safe`, `Kept`, `Cov`); what a quorum past its term does not hold
  never becomes committed (`Dead`). Every commit index, in a server or a heartbeat, and every value of `asked` is of this kind (`BeatOK`, `AskOK`);
- one server leads in a term (`Led`), it has all the entries of its term (`LeaderOK`), what it counts for a follower is in that follower's log
  or the follower is past the term (`MatchOK`), and logs that agree on a term at an index agree up to it (`LogOK`, `Agree`).

From it follows `LeaderKnows`: a leader that has committed an entry of its term has a commit index that covers
everything committed anywhere, or a quorum is past its term. This is what the refusal of `committedEntryInCurrentTerm` is for.
`ReadsOK` is about the reads: queue and map have the same contexts (`QueueOK`), so that `advance` does not panic; every request on its way is in one place only
(`RequestOK`, `Taken`); and for every read in a queue, its index covers what was asked, or there is a quorum past the leader's
term that is silent on this read and on all behind it (`Past`, `Silent`): none of its members has acknowledged one of them, and no such
acknowledgement is on its way. Members of that quorum ignore heartbeats of the lower term, so they stay silent; a quorum of
acknowledgements would have a member in common with them (`AnswerCovers`, `QuorumsMeet`). "All behind it" is what lets an acknowledged
read answer the ones before it. It holds because the queue is in the order in which requests were taken up, and
this is where the proof needs that a forwarded request is delivered once: one that is queued again behind newer ones has old
acknowledgements on their way (section 4). TLC checked `ReadInv` on the scenarios of `read_index` before the proof.

Only model-checked so far: everything about `Membership` and `CommitPipeline`. Out of the prover's reach, and left to TLC: liveness,
that of `RaftLog` (`CommittedApplied`) and of `ReadIndex` (`ReadsAnswered`) included.

## 6. Plan

1. `CommitPipeline`: `TypeOK`, then that mutual exclusion of `mu` and the order of the queue give
   `VisibleApplied`. The indexes overflow, and a compare-and-swap may succeed on a value that came back after
   exactly as many operations as there are indexes; a theorem has to bound how many may happen during one dequeue.
2. `Membership`: the argument of `RaftCommitProofs` with quorums of successive configurations, which
   `QuorumsOverlap` relates.

## 7. Not modelled

- Lease-based reads, which rest on clocks that run alike.
- Membership changes together with snapshots: a configuration that arrives in a snapshot is checked in
  `changer` (`RestoreRoundTrip`), not within a running group.
- Liveness of elections without PreVote, which needs assumptions on timeouts that the rounds of `Rejoin`
  do not express.
- The entries `Bootstrap` puts into the log; they are committed before anything else happens.
- `status.go`, `logger.go` and most of `util.go` (views and formatting), the generated code of `raftpb/`.
- In pebble: `ratchetSeqNum`, and everything but the commit pipeline. Compaction, sstables, the WAL and
  its recovery are a product of their own.
- The rest of the vendored tree: libraries (errors, redact, apd, circuitbreaker), cloud SDKs, generated
  tables and tools, which is nearly all of its lines. They are independent of each other, and of the
  system modelled here.

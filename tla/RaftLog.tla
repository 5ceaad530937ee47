------------------------------ MODULE RaftLog ------------------------------
(***************************************************************************)
(* The log of one server in its three places: raftLog (log.go), the        *)
(* entries not yet written (log_unstable.go) and the application's storage *)
(* (storage.go).  Ready, persisting, applying and Advance are steps of     *)
(* their own, and the server goes on handling messages between them.       *)
(*                                                                         *)
(* The rest of the group is the variable cluster: for each term the log of *)
(* its leader and how much of it is committed.  An entry is its term; logs *)
(* that agree on the term at an index agree up to it.                      *)
(***************************************************************************)
EXTENDS Integers, Sequences

CONSTANTS
    MaxTerm, MaxIndex,  \* bounds of the leaders' terms and logs
    Groups,             \* the histories of leaders that are considered
    MaxMsgEnts,         \* bound of the entries in a MsgApp
    MaxNextEnts,        \* Config.MaxCommittedSizePerReady, in entries
    MaxCrashes          \* bound of the crashes

ASSUME RaftLogBounds ==
    /\ MaxTerm \in Nat \ {0} /\ MaxIndex \in Nat \ {0}
    /\ MaxMsgEnts \in Nat /\ MaxNextEnts \in Nat \ {0} /\ MaxCrashes \in Nat

Min(a, b) == IF a <= b THEN a ELSE b
Max(a, b) == IF a >= b THEN a ELSE b

HasPrefix(s, prefix) == Len(prefix) <= Len(s) /\ SubSeq(s, 1, Len(prefix)) = prefix

\* Logs a leader of term t may have.
IsLog(s, t) == /\ s \in Seq(1..t) /\ Len(s) <= MaxIndex
               /\ \A k \in 1..(Len(s) - 1) : s[k] <= s[k + 1]

Matching(s1, s2) == \A k \in 1..Min(Len(s1), Len(s2)) :
    s1[k] = s2[k] => SubSeq(s1, 1, k) = SubSeq(s2, 1, k)

\* What Raft guarantees of leaders: logs match, and a leader has what an earlier one
\* committed.
IsGroup(c) ==
    \A t \in 1..MaxTerm :
        /\ IsLog(c[t].log, t) /\ c[t].commit \in 0..Len(c[t].log)
        /\ \A t2 \in (t + 1)..MaxTerm :
              /\ Matching(c[t].log, c[t2].log)
              /\ HasPrefix(c[t2].log, SubSeq(c[t].log, 1, c[t].commit))

ASSUME GroupsAssumption ==
    \A c \in Groups : DOMAIN c = 1..MaxTerm /\ IsGroup(c)

VARIABLES
    cluster,    \* cluster[t]: log and commit index of the leader of term t
    term,       \* raft.Term
    unstable,   \* raftLog.unstable
    committed,  \* raftLog.committed
    applied,    \* raftLog.applied
    storage,    \* MemoryStorage: entries behind a dummy, snapshot, HardState
    synced,     \* what of the storage survives every crash
    rd,         \* the Ready that the application handles
    stage,      \* how far it has got with it
    app,        \* the application's state machine: all entries it has applied
    crashes,
    panicked

vars == <<cluster, term, unstable, committed, applied, storage, synced, rd, stage, app,
          crashes, panicked>>

-----------------------------------------------------------------------------
(* Snapshots carry the state they stand for: the entries up to their       *)
(* index.                                                                  *)

NoSnapshot == [index |-> 0, term |-> 0, data |-> <<>>]
SnapshotOf(s) == [index |-> Len(s), term |-> s[Len(s)], data |-> s]

(* MemoryStorage: ents[1] is the dummy entry at index ms.index. *)

EmptyStorage == [index |-> 0, ents |-> <<0>>, snapshot |-> NoSnapshot,
                 hardState |-> [term |-> 0, commit |-> 0]]

StorageLast(ms) == ms.index + Len(ms.ents) - 1

ErrUnavailable == 0 - 1

StorageTerm(ms, i) ==
    IF i < ms.index \/ i > StorageLast(ms) THEN ErrUnavailable ELSE ms.ents[i - ms.index + 1]

\* ApplySnapshot refuses a snapshot that is not newer than its own.
ApplySnapshot(ms, snap) ==
    IF ms.snapshot.index >= snap.index THEN ms
    ELSE [ms EXCEPT !.snapshot = snap, !.index = snap.index, !.ents = <<snap.term>>]

\* Whether Append would leave a gap, which panics.
AppendGap(ms, first, ents) == ents # <<>> /\ first > StorageLast(ms) + 1

\* Append: what is compacted already is skipped, what lies behind is discarded.
StorageAppend(ms, first, ents) ==
    LET skip == Max(ms.index + 1 - first, 0)
        kept == SubSeq(ms.ents, 1, first + skip - ms.index)
    IN  IF Len(ents) <= skip THEN ms
        ELSE [ms EXCEPT !.ents = kept \o SubSeq(ents, skip + 1, Len(ents))]

\* Compact: the entry at i becomes the dummy.
StorageCompact(ms, i) ==
    [ms EXCEPT !.index = i, !.ents = SubSeq(ms.ents, i - ms.index + 1, Len(ms.ents))]

-----------------------------------------------------------------------------
(* unstable: entries from offset on, behind a snapshot perhaps.  The       *)
(* operators take the storage and the unstable part they read.             *)

FirstIndex(ms, u) == IF u.snapshot # NoSnapshot THEN u.snapshot.index + 1 ELSE ms.index + 1

LastIndex(ms, u) ==
    IF u.ents # <<>> THEN u.offset + Len(u.ents) - 1
    ELSE IF u.snapshot # NoSnapshot THEN u.snapshot.index
    ELSE StorageLast(ms)

\* maybeTerm: whether the unstable part knows the term at i, and the term.
KnowsTerm(u, i) ==
    \/ i < u.offset /\ u.snapshot # NoSnapshot /\ u.snapshot.index = i
    \/ i >= u.offset /\ i < u.offset + Len(u.ents)

MaybeTerm(u, i) == IF i < u.offset THEN u.snapshot.term ELSE u.ents[i - u.offset + 1]

Term(ms, u, i) ==
    IF i < FirstIndex(ms, u) - 1 \/ i > LastIndex(ms, u) THEN 0
    ELSE IF KnowsTerm(u, i) THEN MaybeTerm(u, i)
    ELSE StorageTerm(ms, i)

\* Mutant: the term is not compared.
MutStableTo(u, i, t) ==
    IF KnowsTerm(u, i) /\ i >= u.offset
      THEN [u EXCEPT !.offset = i + 1, !.ents = SubSeq(u.ents, i + 2 - u.offset, Len(u.ents))]
      ELSE u

\* stableTo: entries up to i are written, if the entry at i is still the one written.
StableTo(u, i, t) ==
    IF KnowsTerm(u, i) /\ MaybeTerm(u, i) = t /\ i >= u.offset
      THEN [u EXCEPT !.offset = i + 1, !.ents = SubSeq(u.ents, i + 2 - u.offset, Len(u.ents))]
      ELSE u

\* Mutant: any pending snapshot counts as written.
MutStableSnapTo(u, i) == [u EXCEPT !.snapshot = NoSnapshot]

StableSnapTo(u, i) ==
    IF u.snapshot.index = i THEN [u EXCEPT !.snapshot = NoSnapshot] ELSE u

\* truncateAndAppend of entries from index `after` on
TruncateAndAppend(u, after, ents) ==
    IF after <= u.offset THEN [u EXCEPT !.offset = after, !.ents = ents]
    ELSE [u EXCEPT !.ents = SubSeq(u.ents, 1, after - u.offset) \o ents]

RestoreUnstable(snap) == [snapshot |-> snap, offset |-> snap.index + 1, ents |-> <<>>]

\* slice, up to and including hi: storage first, then the unstable entries.
Slice(ms, u, lo, hi) == [k \in 1..(hi - lo + 1) |->
    IF lo + k - 1 < u.offset THEN StorageTerm(ms, lo + k - 1) ELSE u.ents[lo + k - u.offset]]

\* nextEnts: where the entries to apply begin, and the first page of them.
NextFirst == Max(applied + 1, FirstIndex(storage, unstable))

NextEnts == Slice(storage, unstable, NextFirst, Min(committed, NextFirst + MaxNextEnts - 1))

-----------------------------------------------------------------------------
NoReady == [unstable |-> RestoreUnstable(NoSnapshot), hardState |-> EmptyStorage.hardState,
            first |-> 0, ents |-> <<>>]

Init == /\ cluster \in Groups
        /\ term = 0 /\ committed = 0 /\ applied = 0
        /\ unstable = RestoreUnstable(NoSnapshot)
        /\ storage = EmptyStorage /\ synced = EmptyStorage
        /\ rd = NoReady /\ stage = "idle"
        /\ app = <<>> /\ crashes = 0 /\ panicked = FALSE

-----------------------------------------------------------------------------
(* Messages of leaders *)

MatchTerm(i, t) == Term(storage, unstable, i) = t

\* findConflict: first index of ents, which begin behind prev, that the log lacks.
FindConflict(prev, ents) ==
    LET bad == {k \in 1..Len(ents) : ~MatchTerm(prev + k, ents[k])}
    IN  IF bad = {} THEN 0 ELSE prev + (CHOOSE k \in bad : \A j \in bad : k <= j)

\* commitTo(c) in a log that ends at last
CommitTo(c, last) ==
    /\ committed' = IF committed < c /\ c <= last THEN c ELSE committed
    /\ panicked' = (panicked \/ (committed < c /\ c > last))

\* maybeAppend once the entry at prev matches
MaybeAppend(prev, ents, c) ==
    LET ci == FindConflict(prev, ents)
        u1 == IF ci = 0 THEN unstable
              ELSE TruncateAndAppend(unstable, ci, SubSeq(ents, ci - prev, Len(ents)))
    IN  IF ci # 0 /\ ci <= committed
          THEN panicked' = TRUE /\ UNCHANGED <<unstable, committed>>
          ELSE /\ unstable' = u1
               /\ CommitTo(Min(c, prev + Len(ents)), LastIndex(storage, u1))

\* handleAppendEntries of a MsgApp from the leader of term t; an older or a
\* mismatching one only shows its term.
StepApp(t, prev, ents, c) ==
    /\ ~panicked /\ t >= term
    /\ term' = t
    /\ IF prev < committed \/ ~MatchTerm(prev, IF prev = 0 THEN 0 ELSE cluster[t].log[prev])
         THEN UNCHANGED <<unstable, committed, panicked>>
         ELSE MaybeAppend(prev, ents, c)
    /\ UNCHANGED <<cluster, applied, storage, synced, rd, stage, app, crashes>>

\* handleHeartbeat: the commit index is at most what this server has acknowledged.
StepHeartbeat(t, c) ==
    /\ ~panicked /\ t >= term
    /\ c <= LastIndex(storage, unstable)
    /\ \A i \in (FirstIndex(storage, unstable) - 1)..c : i > 0 => MatchTerm(i, cluster[t].log[i])
    /\ term' = t
    /\ CommitTo(c, LastIndex(storage, unstable))
    /\ UNCHANGED <<cluster, unstable, applied, storage, synced, rd, stage, app, crashes>>

\* restore: ignored if old, only a commit if the log has it, the new log otherwise.
Restore(snap) ==
    IF snap.index <= committed THEN UNCHANGED <<unstable, committed, panicked>>
    ELSE IF MatchTerm(snap.index, snap.term)
      THEN CommitTo(snap.index, LastIndex(storage, unstable)) /\ UNCHANGED unstable
    ELSE unstable' = RestoreUnstable(snap) /\ committed' = snap.index /\ UNCHANGED panicked

\* A leader sends its snapshot to who is recently active: it has answered this leader, and
\* the answer leaves with a Ready that is written, or it was added by this leader (membership
\* is fixed here; such a snapshot is only allowed when it ends in an entry of the leader).
MaySendSnap(t, i) == t <= storage.hardState.term \/ cluster[t].log[i] = t

\* handleSnapshot of a snapshot the leader of term t took at index i
StepSnap(t, i) ==
    /\ ~panicked /\ t >= term
    /\ MaySendSnap(t, i)
    /\ term' = t
    /\ Restore(SnapshotOf(SubSeq(cluster[t].log, 1, i)))
    /\ UNCHANGED <<cluster, applied, storage, synced, rd, stage, app, crashes>>

-----------------------------------------------------------------------------
(* The application's loop *)

CurrentHardState == [term |-> term, commit |-> committed]

\* Mutant: entries left over by a full page are not a reason for a Ready.
MutHasReady ==
    \/ CurrentHardState # storage.hardState
    \/ unstable.snapshot # NoSnapshot \/ unstable.ents # <<>>

HasReady ==
    \/ CurrentHardState # storage.hardState
    \/ unstable.snapshot # NoSnapshot \/ unstable.ents # <<>>
    \/ committed >= NextFirst

\* Whether nextEnts panics: storage lacks what it is asked for.
NextEntsFail ==
    /\ committed >= NextFirst /\ NextFirst < unstable.offset
    /\ \/ NextFirst <= storage.index
       \/ Min(committed, unstable.offset - 1) > StorageLast(storage)

\* Ready: what to persist (unstable entries, snapshot, HardState) and to apply.
Ready ==
    /\ ~panicked /\ stage = "idle" /\ HasReady
    /\ IF NextEntsFail THEN panicked' = TRUE /\ UNCHANGED <<rd, stage>>
       ELSE /\ rd' = [unstable |-> unstable, hardState |-> CurrentHardState,
                      first |-> NextFirst, ents |-> NextEnts]
            /\ stage' = "ready"
            /\ UNCHANGED panicked
    /\ UNCHANGED <<cluster, term, unstable, committed, applied, storage, synced, app, crashes>>

\* MustSync: a new commit index alone may be lost in a crash.
MustSync ==
    rd.unstable.ents # <<>> \/ rd.hardState.term # storage.hardState.term

\* Storage after the application has written its Ready to ms: snapshot, entries, HardState.
Written(ms) ==
    LET ms1 == IF rd.unstable.snapshot # NoSnapshot THEN ApplySnapshot(ms, rd.unstable.snapshot)
                                                    ELSE ms
    IN  [StorageAppend(ms1, rd.unstable.offset, rd.unstable.ents) EXCEPT !.hardState = rd.hardState]

\* The application writes, in one batch. A snapshot is always written synchronously.
Persist ==
    /\ ~panicked /\ stage = "ready"
    /\ storage' = Written(storage)
    /\ panicked' = AppendGap(IF rd.unstable.snapshot # NoSnapshot
                               THEN ApplySnapshot(storage, rd.unstable.snapshot) ELSE storage,
                             rd.unstable.offset, rd.unstable.ents)
    /\ synced' = IF MustSync \/ rd.unstable.snapshot # NoSnapshot THEN storage' ELSE synced
    /\ stage' = "persisted"
    /\ UNCHANGED <<cluster, term, unstable, committed, applied, rd, app, crashes>>

\* The application applies the snapshot, if there is one, and then the entries.
Apply ==
    /\ ~panicked /\ stage = "persisted"
    /\ app' = (IF rd.unstable.snapshot # NoSnapshot THEN rd.unstable.snapshot.data ELSE app) \o rd.ents
    /\ stage' = "applied"
    /\ UNCHANGED <<cluster, term, unstable, committed, applied, storage, synced, rd, crashes, panicked>>

\* Mutant: the last committed index counts as applied, whatever the page holds.
MutAppliedCursor == rd.hardState.commit

\* appliedCursor: the last entry handed out, or the snapshot; 0 if there is neither.
AppliedCursor == IF rd.ents # <<>> THEN rd.first + Len(rd.ents) - 1
                                   ELSE rd.unstable.snapshot.index

\* Advance: the cursors move by what the Ready held, not by what the log holds now.
Advance ==
    LET u1 == IF rd.unstable.ents = <<>> THEN unstable
              ELSE StableTo(unstable, rd.unstable.offset + Len(rd.unstable.ents) - 1,
                            rd.unstable.ents[Len(rd.unstable.ents)])
    IN  /\ ~panicked /\ stage = "applied"
        /\ applied' = IF AppliedCursor = 0 THEN applied ELSE AppliedCursor
        /\ panicked' = (AppliedCursor # 0 /\ (committed < AppliedCursor \/ AppliedCursor < applied))
        /\ unstable' = IF rd.unstable.snapshot = NoSnapshot THEN u1
                       ELSE StableSnapTo(u1, rd.unstable.snapshot.index)
        /\ rd' = NoReady /\ stage' = "idle"
        /\ UNCHANGED <<cluster, term, committed, storage, synced, app, crashes>>

\* CreateSnapshot of the applied state and Compact up to it, at any time. Writing
\* the snapshot also flushes what was written before it.
Compact ==
    /\ ~panicked
    /\ applied > storage.index /\ Len(app) = applied
    /\ panicked' = (applied > StorageLast(storage))
    /\ storage' = IF applied > StorageLast(storage) THEN storage
                  ELSE [StorageCompact(storage, applied) EXCEPT !.snapshot = SnapshotOf(app)]
    /\ synced' = storage'
    /\ UNCHANGED <<cluster, term, unstable, committed, applied, rd, stage, app, crashes>>

\* newRaft from the storage ms: newLog, loadState, and Config.Applied if the
\* application has kept its state a.
Restart(ms, a) ==
    LET c == ms.hardState.commit
    IN  /\ ~panicked /\ crashes < MaxCrashes
        /\ crashes' = crashes + 1
        /\ panicked' = (c < ms.index \/ c > StorageLast(ms) \/ Len(a) > c \/ Len(a) < ms.index)
        /\ committed' = c /\ applied' = Len(a) /\ app' = a
        /\ term' = ms.hardState.term
        /\ unstable' = [snapshot |-> NoSnapshot, offset |-> StorageLast(ms) + 1, ents |-> <<>>]
        /\ storage' = ms /\ synced' = ms
        /\ rd' = NoReady /\ stage' = "idle"
        /\ UNCHANGED cluster

\* A crash: the state machine is rebuilt from the snapshot, and what was not written
\* synchronously may be lost; or the state machine is durable itself, and written
\* after the Ready it depends on.
Crash ==
    \/ \E ms \in {synced, storage} : Restart(ms, ms.snapshot.data)
    \/ Len(app) >= storage.index /\ Restart(storage, app)

Next ==
    \/ \E t \in 1..MaxTerm :
         LET l == cluster[t].log IN
         \/ \E prev \in 0..Len(l) : \E n \in 0..Min(MaxMsgEnts, Len(l) - prev) :
              \E c \in {0, cluster[t].commit} : StepApp(t, prev, SubSeq(l, prev + 1, prev + n), c)
         \/ \E c \in 1..cluster[t].commit : StepHeartbeat(t, c)
         \/ \E i \in 1..cluster[t].commit : StepSnap(t, i)
    \/ Ready \/ Persist \/ Apply \/ Advance
    \/ Compact
    \/ Crash

Spec == Init /\ [][Next]_vars

\* The application handles every Ready it is given.
FairSpec == Spec /\ WF_vars(Ready \/ Persist \/ Apply \/ Advance)

-----------------------------------------------------------------------------
(* Properties *)

Terms == 0..MaxTerm
Snapshots == [index : Nat, term : Terms, data : Seq(1..MaxTerm)]
Unstable == [snapshot : Snapshots, offset : Nat \ {0}, ents : Seq(1..MaxTerm)]
HardStates == [term : Terms, commit : Nat]

\* The fields keep their types.
TypeOK ==
    /\ term \in Terms /\ committed \in Nat /\ applied \in Nat
    /\ unstable \in Unstable
    /\ {storage, synced} \subseteq [index : Nat, ents : Seq(Terms), snapshot : Snapshots,
                                    hardState : HardStates]
    /\ rd \in [unstable : Unstable, hardState : HardStates, first : Nat, ents : Seq(1..MaxTerm)]
    /\ stage \in {"idle", "ready", "persisted", "applied"}
    /\ app \in Seq(1..MaxTerm) /\ crashes \in 0..MaxCrashes /\ panicked \in BOOLEAN

\* No panic of log.go, storage.go or loadState is reachable: no gap between storage
\* and the unstable entries, no page out of bounds, no applied index beyond the
\* commit index, no HardState out of range after a crash (log.go:243-251, 180-190,
\* storage.go:241-273, raft.go:1698-1705), and no term is read that is not there, which
\* TypeOK would show (log.go:265-285).
NoPanic == TypeOK /\ ~panicked

\* The application applies every committed entry once, in order and without a gap,
\* although Ready pages them, and the log is truncated, restored from a snapshot or
\* compacted while it handles a page (log.go:180-190, node.go:115-123).
AppliesCommitted ==
    /\ stage # "applied" => Len(app) = applied
    /\ \E t \in 1..MaxTerm :
          HasPrefix(SubSeq(cluster[t].log, 1, cluster[t].commit), app)

\* The log as a function of the index, dummy entry included.
View(ms, u) == [i \in (FirstIndex(ms, u) - 1)..LastIndex(ms, u) |-> Term(ms, u, i)]

StorageView(ms) == [i \in ms.index..StorageLast(ms) |-> StorageTerm(ms, i)]

Log == INSTANCE LogicalLog WITH
    log    <- View(storage, unstable),
    handed <- View(storage, rd.unstable),
    stable <- StorageView(storage)

\* Storage and unstable entries together behave as one log: Advance and the write it
\* follows change nothing of it, an entry that replaced a written one stays unstable,
\* and what a crash leaves is the log as of the last Ready written
\* (log_unstable.go:76-90, 120-140, rawnode.go:174-179).
ImplementsLogicalLog == Log!Spec

\* A committed entry is applied at last, unless a crash makes the server forget that
\* it is committed (rawnode.go:152-170).
CommittedApplied ==
    \A i \in 1..MaxIndex : committed >= i ~> (Len(app) >= i \/ committed < i)
=============================================================================

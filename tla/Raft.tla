-------------------------------- MODULE Raft --------------------------------
(***************************************************************************)
(* The protocol core of raft/v3: raft.go with the parts of log.go, tracker *)
(* and rawnode.go it drives.  A server is the volatile raft struct (node)  *)
(* and what its application has put on stable storage (disk).  Every       *)
(* handler works on the volatile state and queues messages in node.msgs;   *)
(* Ready makes the state durable and only then hands the messages to the   *)
(* network.                                                                *)
(*                                                                         *)
(* The network is the set of all messages ever sent.  A message may be     *)
(* received late, more than once, in any order, or never.                  *)
(***************************************************************************)
EXTENDS Integers, Sequences, FiniteSets, QuorumConfig, Progress

CONSTANTS
    Server,     \* ids
    None,       \* the zero id
    Scenarios   \* records of a Config and the bounds of the model

VARIABLES
    node,       \* node[i]: the raft struct of server i, lost in a crash
    disk,       \* disk[i]: HardState, log and compaction point on stable storage
    net,        \* all messages handed to the transport
    scenario    \* the scenario, chosen at the start

vars == <<node, disk, net, scenario>>

PreVote            == scenario.PreVote            \* Config.PreVote
CheckQuorum        == scenario.CheckQuorum        \* Config.CheckQuorum
MaxEnts            == scenario.MaxEnts            \* Config.MaxSizePerMsg, in entries
MaxUncommittedSize == scenario.MaxUncommittedSize \* Config.MaxUncommittedEntriesSize, in proposals
Forwarding         == scenario.Forwarding         \* ~Config.DisableProposalForwarding, and proposals reach followers
\* Bounds of the model.
MaxTerm            == scenario.MaxTerm            \* no campaign beyond this term
MaxLog             == scenario.MaxLog             \* no proposal beyond this log length
MayCampaign        == scenario.MayCampaign        \* MayCampaign[t]: servers that may campaign for term t
Reach              == scenario.Reach              \* Reach[t]: pairs of servers that exchange messages of term t
MayRestart         == scenario.MayRestart         \* servers that may crash and restart
MayCompact         == scenario.MayCompact         \* servers whose application compacts the log
MayTransferTo      == scenario.MayTransferTo      \* targets of leadership transfers
Reports            == scenario.Reports            \* whether ReportUnreachable and ReportSnapshot are called
MayBeat            == scenario.MayBeat            \* leaders that send heartbeats
EagerReady         == scenario.EagerReady         \* servers that handle Ready right after every event

ASSUME ServerAssumption == IsFiniteSet(Server) /\ Server # {} /\ None \notin Server
ASSUME ScenarioAssumption ==
    \A c \in Scenarios :
        /\ c.MaxTerm \in Nat /\ c.MaxLog \in Nat
        /\ c.MaxEnts \in Nat \ {0} /\ c.MaxUncommittedSize \in Nat
        /\ {c.PreVote, c.CheckQuorum, c.Forwarding, c.Reports} \subseteq BOOLEAN
        /\ c.MayCampaign \in [1..c.MaxTerm -> SUBSET Server]
        /\ c.Reach \in [1..c.MaxTerm -> SUBSET (SUBSET Server)]
        /\ c.MayRestart \cup c.MayCompact \cup c.MayTransferTo \cup c.MayBeat \cup c.EagerReady
             \subseteq Server

\* Every server votes; there is no membership change in this module.
Conf == <<Server, {}>>

NoVotes == [p \in Server |-> "missing"]
NoProgress == [p \in Server |-> NewProgress(0, 1)]

-----------------------------------------------------------------------------
(* raftLog (log.go). node.log holds the whole history of the log; entries  *)
(* at or below node.offset are compacted, only their number and the last   *)
(* term remain visible.                                                    *)

LastIndex(r) == Len(r.log)

\* term(i): 0 outside of [dummy index, last index]
Term(r, i) == IF i < Max2(r.offset, 1) \/ i > LastIndex(r) THEN 0 ELSE r.log[i].term

LastTerm(r) == Term(r, LastIndex(r))

\* Mutant: the entry before the first compacted one is taken for available.
MutCompacted(r, i) == i < r.offset

\* entries(i): ErrCompacted below the first index
Compacted(r, i) == i <= r.offset

\* Mutant: only the presence of the entry is checked, not its term.
MutMatchTerm(r, i, t) == i <= LastIndex(r)

MatchTerm(r, i, t) == Term(r, i) = t

Panic(r) == [r EXCEPT !.panicked = TRUE]

\* commitTo never decreases the commit index.
CommitTo(r, c) ==
    IF r.committed >= c THEN r
    ELSE IF LastIndex(r) < c THEN Panic(r)
    ELSE [r EXCEPT !.committed = c]

\* Mutant: any candidate's log is good enough.
MutIsUpToDate(r, lasti, t) == TRUE

IsUpToDate(r, lasti, t) ==
    t > LastTerm(r) \/ (t = LastTerm(r) /\ lasti >= LastIndex(r))

\* findConflict: first index of ents (which start at prev+1) that the log does
\* not hold with the same term; 0 if there is none.
FindConflict(r, prev, ents) ==
    LET bad == {k \in 1..Len(ents) : ~MatchTerm(r, prev + k, ents[k].term)}
    IN  IF bad = {} THEN 0
        ELSE prev + (CHOOSE k \in bad : \A j \in bad : k <= j)

\* findConflictByTerm: largest index at or below `index` whose term is at most t.
FindConflictByTerm(r, index, t) ==
    IF index > LastIndex(r) THEN index
    ELSE CHOOSE k \in 0..index :
            /\ Term(r, k) <= t
            /\ \A j \in (k + 1)..index : Term(r, j) > t

\* maybeAppend after a successful matchTerm: the log changes only from the first
\* conflict on. Appending behind a gap panics in unstable.slice.
MaybeAppend(r, prev, ents, commit) ==
    LET ci   == FindConflict(r, prev, ents)
        last == prev + Len(ents)
        r1   == IF ci = 0 THEN r
                ELSE IF ci <= r.committed \/ ci > LastIndex(r) + 1 THEN Panic(r)
                ELSE [r EXCEPT !.log = SubSeq(r.log, 1, ci - 1) \o SubSeq(ents, ci - prev, Len(ents))]
    IN  CommitTo(r1, Min2(commit, last))

-----------------------------------------------------------------------------
(* Messages: pb.Message with its zero values, and send. *)

Msg(type, from, to, term) ==
    [type |-> type, from |-> from, to |-> to, term |-> term,
     index |-> 0, logTerm |-> 0, entries |-> <<>>, commit |-> 0,
     reject |-> FALSE, rejectHint |-> 0, transfer |-> FALSE]

\* send: queued until the next Ready. Handlers stamp their own term.
Send(r, m) == [r EXCEPT !.msgs = @ \cup {m}]

FromLeader(m) == m.type \in {"MsgApp", "MsgHeartbeat", "MsgSnap"}

-----------------------------------------------------------------------------
(* State transitions of one server.  Progress is only read while leading   *)
(* and is reset again by becomeLeader, so other states keep none.          *)

\* Mutant: the vote is forgotten although the term stays the same.
MutReset(r, term) ==
    [r EXCEPT !.Term = term, !.Vote = None,
              !.lead = None, !.leadTransferee = None, !.electionElapsed = 0,
              !.votes = NoVotes, !.prs = NoProgress, !.uncommittedSize = 0]

Reset(r, term) ==
    [r EXCEPT !.Term = term,
              !.Vote = IF r.Term # term THEN None ELSE @,
              !.lead = None, !.leadTransferee = None, !.electionElapsed = 0,
              !.votes = NoVotes, !.prs = NoProgress, !.uncommittedSize = 0]

BecomeFollower(r, term, lead) ==
    [Reset(r, term) EXCEPT !.lead = lead, !.state = "Follower"]

BecomeCandidate(i, r) ==
    [Reset(r, r.Term + 1) EXCEPT !.Vote = i, !.state = "Candidate",
                                 !.panicked = @ \/ r.state = "Leader"]

\* Neither Term nor Vote changes for a pre-campaign.
BecomePreCandidate(r) ==
    [r EXCEPT !.votes = NoVotes, !.lead = None, !.state = "PreCandidate",
              !.electionElapsed = 0, !.panicked = @ \/ r.state = "Leader"]

Acked(r) == [p \in Server |-> r.prs[p].Match]

\* Mutant: entries of earlier terms are committed by counting acks.
MutMaybeCommit(r) ==
    LET mci == JointCommittedIndex(Conf, Acked(r))
    IN  IF mci > r.committed THEN CommitTo(r, mci) ELSE r

\* maybeCommit: only an entry of the own term is committed by counting.
MaybeCommit(r) ==
    LET mci == JointCommittedIndex(Conf, Acked(r))
    IN  IF mci > r.committed /\ Term(r, mci) = r.Term THEN CommitTo(r, mci) ELSE r

PayloadSize(e) == IF e.data = "empty" THEN 0 ELSE 1

\* increaseUncommittedSize refuses a proposal over the limit, unless nothing is
\* uncommitted; empty payloads always pass.
Refuses(r, e) ==
    /\ r.uncommittedSize > 0
    /\ PayloadSize(e) > 0
    /\ r.uncommittedSize + PayloadSize(e) > MaxUncommittedSize

\* appendEntry of one entry that was not refused; the leader counts itself.
AppendEntry(i, r, data) ==
    LET e  == [term |-> r.Term, data |-> data]
        r1 == [r EXCEPT !.log = Append(@, e),
                        !.uncommittedSize = @ + PayloadSize(e)]
    IN  MaybeCommit([r1 EXCEPT !.prs[i] = MaybeUpdate(@, LastIndex(r1))])

\* becomeLeader: all progress restarts at the end of the log, and an empty entry
\* of the new term is appended.
BecomeLeader(i, r) ==
    LET last == LastIndex(r)
        prs  == [p \in Server |-> IF p = i THEN BecomeReplicate(NewProgress(last, last + 1))
                                           ELSE NewProgress(0, last + 1)]
        r1   == [Reset(r, r.Term) EXCEPT !.lead = i, !.state = "Leader", !.prs = prs]
    IN  AppendEntry(i, r1, "empty")

\* maybeSendAppend: entries from Next on, a snapshot if they are compacted, or
\* nothing if the follower is paused.
MaybeSendAppend(i, r, to, sendIfEmpty) ==
    LET pr        == r.prs[to]
        compacted == Compacted(r, pr.Next)
        ents      == IF compacted THEN <<>>
                     ELSE SubSeq(r.log, pr.Next, Min2(LastIndex(r), pr.Next + MaxEnts - 1))
        last      == pr.Next + Len(ents) - 1
        app       == [Msg("MsgApp", i, to, r.Term) EXCEPT
                        !.index = pr.Next - 1, !.logTerm = Term(r, pr.Next - 1),
                        !.entries = ents, !.commit = r.committed]
        snap      == [Msg("MsgSnap", i, to, r.Term) EXCEPT
                        !.index = r.offset, !.logTerm = Term(r, r.offset),
                        !.entries = SubSeq(r.log, 1, r.offset)]
    IN  IF IsPaused(pr) \/ (ents = <<>> /\ ~sendIfEmpty) \/ (compacted /\ ~pr.RecentActive)
          THEN r
        ELSE IF compacted
          THEN Send([r EXCEPT !.prs[to] = BecomeSnapshot(@, r.offset)], snap)
        ELSE Send([r EXCEPT !.prs[to] =
                        IF ents = <<>> THEN @
                        ELSE IF pr.State = "Replicate" THEN SentUpTo(@, last)
                        ELSE [@ EXCEPT !.ProbeSent = TRUE]], app)

SendAppend(i, r, to) == MaybeSendAppend(i, r, to, TRUE)

\* `for maybeSendAppend(to, false) {}`: every round sends at least one entry.
SendAllAppends(i, r, to) ==
    LET sent[n \in Nat] == IF n = 0 THEN r ELSE MaybeSendAppend(i, sent[n - 1], to, FALSE)
    IN  sent[LastIndex(r)]

\* bcastAppend: what is sent to one peer does not depend on the other peers.
BcastAppend(i, r) ==
    [r EXCEPT !.prs  = [p \in Server |-> IF p = i THEN r.prs[p] ELSE SendAppend(i, r, p).prs[p]],
              !.msgs = @ \cup UNION {SendAppend(i, r, p).msgs : p \in Server \ {i}}]

\* Mutant: the leader's commit index is sent as it is.
MutHeartbeat(i, r, to) == [Msg("MsgHeartbeat", i, to, r.Term) EXCEPT !.commit = r.committed]

\* sendHeartbeat: never a commit index beyond what the follower has matched.
Heartbeat(i, r, to) ==
    [Msg("MsgHeartbeat", i, to, r.Term) EXCEPT !.commit = Min2(r.prs[to].Match, r.committed)]

\* poll: the first answer of a peer counts.
Poll(r, from, granted) ==
    [r EXCEPT !.votes[from] = IF @ # "missing" THEN @ ELSE IF granted THEN "yes" ELSE "no"]

TallyVotes(r) == JointVoteResult(Conf, r.votes)

VoteRequests(i, r, type, term, transfer) ==
    {[Msg(type, i, p, term) EXCEPT !.index = LastIndex(r), !.logTerm = LastTerm(r),
                                   !.transfer = transfer] : p \in Server \ {i}}

\* campaign(campaignElection) and campaign(campaignTransfer)
CampaignElection(i, r, transfer) ==
    LET r1 == Poll(BecomeCandidate(i, r), i, TRUE)
    IN  IF TallyVotes(r1) = "VoteWon" THEN BecomeLeader(i, r1)
        ELSE [r1 EXCEPT !.msgs = @ \cup VoteRequests(i, r1, "MsgVote", r1.Term, transfer)]

\* campaign(campaignPreElection): asks for the next term without entering it.
CampaignPreElection(i, r) ==
    LET r1 == Poll(BecomePreCandidate(r), i, TRUE)
    IN  IF TallyVotes(r1) = "VoteWon" THEN CampaignElection(i, r1, FALSE)
        ELSE [r1 EXCEPT !.msgs = @ \cup VoteRequests(i, r1, "MsgPreVote", r1.Term + 1, FALSE)]

-----------------------------------------------------------------------------
(* Events of one server *)

\* The volatile part of a server that starts from what is on its disk (newRaft).
FromDisk(d) ==
    BecomeFollower(
        [Term |-> d.Term, Vote |-> d.Vote, state |-> "Follower", lead |-> None,
         leadTransferee |-> None, electionElapsed |-> 0, votes |-> NoVotes, prs |-> NoProgress,
         log |-> d.log, offset |-> d.offset, committed |-> d.Commit, applied |-> d.offset,
         uncommittedSize |-> 0, msgs |-> {},
         panicked |-> d.Commit < d.offset \/ d.Commit > Len(d.log)],
        d.Term, None)

EmptyDisk == [Term |-> 0, Vote |-> None, Commit |-> 0, log |-> <<>>, offset |-> 0]

Init == /\ scenario \in Scenarios
        /\ disk = [i \in Server |-> EmptyDisk]
        /\ node = [i \in Server |-> FromDisk(EmptyDisk)]
        /\ net = {}

\* What Ready would make durable.
HardState(r) == [Term |-> r.Term, Vote |-> r.Vote, Commit |-> r.committed,
                 log |-> r.log, offset |-> r.offset]

\* HasReady: something to persist, to send or to apply.
HasReady(i) == \/ HardState(node[i]) # disk[i]
               \/ node[i].msgs # {}
               \/ node[i].applied < node[i].committed

MayStep(i) == ~node[i].panicked

\* Mutant: the counter is not kept from underflowing.
MutReduceUncommittedSize(r) ==
    r.uncommittedSize
      - Cardinality({k \in (r.applied + 1)..r.committed : PayloadSize(r.log[k]) > 0})

\* reduceUncommittedSize of the entries that are handed out for applying.
ReduceUncommittedSize(r) ==
    LET size == Cardinality({k \in (r.applied + 1)..r.committed : PayloadSize(r.log[k]) > 0})
    IN  Max2(r.uncommittedSize - size, 0)

\* Mutant: new entries alone do not make the application write to disk.
MutHandleReady(i, r) ==
    /\ UNCHANGED scenario
    /\ disk' = IF <<r.Term, r.Vote, r.committed>> = <<disk[i].Term, disk[i].Vote, disk[i].Commit>>
                 THEN disk ELSE [disk EXCEPT ![i] = HardState(r)]
    /\ net' = net \cup r.msgs
    /\ node' = [node EXCEPT ![i] = [r EXCEPT !.msgs = {}, !.applied = r.committed,
                                             !.uncommittedSize = ReduceUncommittedSize(r)]]

\* acceptReady and advance
Advanced(r) == [r EXCEPT !.msgs = {}, !.applied = r.committed,
                         !.uncommittedSize = ReduceUncommittedSize(r)]

\* Ready, persist, send, apply, Advance: state r of server i is on disk before its
\* messages leave.
HandleReady(i, r) ==
    /\ UNCHANGED scenario
    /\ disk' = [disk EXCEPT ![i] = HardState(r)]
    /\ net' = net \cup r.msgs
    /\ node' = [node EXCEPT ![i] = Advanced(r)]

\* Server i enters state r. An eager application handles Ready before anything
\* else happens. This hides nothing from the other servers: until its Ready a step
\* is invisible to them, and a crash undoes it.
Update(i, r) ==
    IF i \in EagerReady /\ ~r.panicked
      THEN HandleReady(i, r)
      ELSE node' = [node EXCEPT ![i] = r] /\ UNCHANGED <<disk, net, scenario>>

\* A snapshot is pending until it has been persisted and advanced.
HasPendingSnapshot(i) == node[i].offset > disk[i].offset

Promotable(i) == ~HasPendingSnapshot(i)

\* tickElection fires MsgHup (or the application calls Campaign).
Hup(i) ==
    /\ MayStep(i)
    /\ node[i].state # "Leader" /\ Promotable(i)
    /\ node[i].Term < MaxTerm /\ i \in MayCampaign[node[i].Term + 1]
    /\ Update(i, IF PreVote THEN CampaignPreElection(i, node[i])
                            ELSE CampaignElection(i, node[i], FALSE))

\* The election timeout passes at a server that follows a leader: the lease ends.
\* The elapsed time is only read there, and only with CheckQuorum.
LeaseExpires(i) ==
    /\ MayStep(i) /\ CheckQuorum
    /\ node[i].state # "Leader" /\ node[i].lead # None /\ node[i].electionElapsed = 0
    /\ Update(i, [node[i] EXCEPT !.electionElapsed = 1])

\* tickHeartbeat at the heartbeat timeout: MsgBeat, bcastHeartbeat.
Beat(i) ==
    /\ MayStep(i) /\ i \in MayBeat /\ node[i].state = "Leader"
    /\ Update(i, [node[i] EXCEPT !.msgs = @ \cup {Heartbeat(i, node[i], p) : p \in Server \ {i}}])

QuorumActive(i, r) ==
    JointVoteResult(Conf, [p \in Server |-> IF p = i \/ r.prs[p].RecentActive THEN "yes" ELSE "no"])
        = "VoteWon"

\* tickHeartbeat at the election timeout: MsgCheckQuorum, and a leadership
\* transfer that did not finish in time is given up.
LeaderTimeout(i) ==
    LET r  == node[i]
        r1 == IF ~CheckQuorum THEN r
              ELSE IF ~QuorumActive(i, r) THEN BecomeFollower(r, r.Term, None)
              ELSE [r EXCEPT !.prs = [p \in Server |->
                                        [r.prs[p] EXCEPT !.RecentActive = (p = i)]]]
    IN  /\ MayStep(i) /\ r.state = "Leader"
        /\ CheckQuorum \/ r.leadTransferee # None
        /\ Update(i, [r1 EXCEPT !.leadTransferee = None])

\* MsgProp at the leader: appended and broadcast, unless leadership is being
\* transferred or too much is uncommitted. A follower forwards it to its leader,
\* without a term; anyone else drops it.
HandleProp(i, r, from) ==
    \/ /\ r.state = "Leader"
       /\ LastIndex(r) < MaxLog
       /\ r.leadTransferee = None
       /\ ~Refuses(r, [term |-> r.Term, data |-> "cmd"])
       /\ Update(i, BcastAppend(i, AppendEntry(i, r, "cmd")))
    \/ /\ r.state = "Follower" /\ r.lead # None /\ Forwarding
       /\ Update(i, Send(r, Msg("MsgProp", from, r.lead, 0)))

\* The application proposes a command at server i.
Propose(i) == MayStep(i) /\ HandleProp(i, node[i], i)

\* MsgTransferLeader for the target `to`: the leader lets it catch up and then
\* tells it to campaign; a follower forwards the request, which panics in send if
\* the request carries a term because it was forwarded before.
HandleTransferLeader(i, r, to, term) ==
    LET r1 == [r EXCEPT !.electionElapsed = 0, !.leadTransferee = to]
    IN  CASE r.state = "Leader" /\ r.leadTransferee = to -> r
          [] r.state = "Leader" /\ to = i -> [r EXCEPT !.leadTransferee = None]
          [] r.state = "Leader" /\ r.leadTransferee # to /\ to # i ->
                IF r.prs[to].Match = LastIndex(r)
                  THEN Send(r1, Msg("MsgTimeoutNow", i, to, r.Term))
                  ELSE SendAppend(i, r1, to)
          [] r.state = "Follower" /\ r.lead # None ->
                IF term # 0 THEN Panic(r)
                ELSE Send(r, Msg("MsgTransferLeader", to, r.lead, r.Term))
          [] OTHER -> r

\* The application asks server i to transfer leadership to `to`.
TransferLeader(i, to) ==
    MayStep(i) /\ Update(i, HandleTransferLeader(i, node[i], to, 0))

\* MsgUnreachable: the transport could not reach `to`.
ReportUnreachable(i, to) ==
    /\ MayStep(i) /\ Reports /\ node[i].state = "Leader"
    /\ node[i].prs[to].State = "Replicate"
    /\ Update(i, [node[i] EXCEPT !.prs[to] = BecomeProbe(@)])

\* MsgSnapStatus: probing resumes, behind the snapshot unless that failed.
SnapshotStatus(pr, failed) ==
    [BecomeProbe(IF failed THEN [pr EXCEPT !.PendingSnapshot = 0] ELSE pr) EXCEPT !.ProbeSent = TRUE]

\* The snapshot to `to` was sent, or failed.
ReportSnapshot(i, to, failed) ==
    /\ MayStep(i) /\ Reports /\ node[i].state = "Leader"
    /\ node[i].prs[to].State = "Snapshot"
    /\ Update(i, [node[i] EXCEPT !.prs[to] = SnapshotStatus(@, failed)])

-----------------------------------------------------------------------------
(* Messages: Step *)

\* A vote request for a higher term is ignored while a leader was heard of within
\* the election timeout, unless it comes from a leadership transfer.
InLease(r, m) ==
    /\ m.type \in {"MsgVote", "MsgPreVote"} /\ m.term > r.Term
    /\ ~m.transfer
    /\ CheckQuorum /\ r.lead # None /\ r.electionElapsed = 0

\* A pre-vote and its positive answer carry a term nobody has entered yet.
AdoptsTerm(r, m) ==
    /\ m.term > r.Term
    /\ m.type # "MsgPreVote"
    /\ ~(m.type = "MsgPreVoteResp" /\ ~m.reject)

\* The server after the term of m has been dealt with.
Observe(r, m) ==
    IF AdoptsTerm(r, m)
      THEN BecomeFollower(r, m.term, IF FromLeader(m) THEN m.from ELSE None)
      ELSE r

\* A forwarded MsgTransferLeader names its target as the sender, even to the target.
Linked(i, m) == i = m.from \/ {i, m.from} \in Reach[m.term]

\* Message m reaches server i and passes the term check of Step.
Receives(i, m, type) ==
    /\ MayStep(i)
    /\ m.to = i /\ m.type = type
    /\ m.term >= node[i].Term /\ Linked(i, m)
    /\ ~InLease(node[i], m)

\* Mutant: messages of a lower term are dropped without an answer.
MutAnswersToLowerTerm(i, r, m) == {}

\* An old leader is told of the new term, an old pre-candidate is rejected, anything
\* else of a lower term is ignored.
AnswersToLowerTerm(i, r, m) ==
    CASE (CheckQuorum \/ PreVote) /\ m.type \in {"MsgHeartbeat", "MsgApp"} ->
            {Msg("MsgAppResp", i, m.from, r.Term)}
      [] m.type = "MsgPreVote" ->
            {[Msg("MsgPreVoteResp", i, m.from, r.Term) EXCEPT !.reject = TRUE]}
      [] OTHER -> {}

\* Step of a message of a lower term.
StepLowerTerm(i, m) ==
    LET r == node[i]
    IN  /\ MayStep(i)
        /\ m.to = i /\ m.term # 0 /\ m.term < r.Term /\ Linked(i, m)
        /\ AnswersToLowerTerm(i, r, m) # {}
        /\ Update(i, [r EXCEPT !.msgs = @ \cup AnswersToLowerTerm(i, r, m)])

\* Mutant: a second candidate of the same term gets the vote as well.
MutCanVote(r, m) == r.lead = None

CanVote(r, m) ==
    \/ r.Vote = m.from
    \/ r.Vote = None /\ r.lead = None
    \/ m.type = "MsgPreVote" /\ m.term > r.Term

RespType(type) == IF type = "MsgVote" THEN "MsgVoteResp" ELSE "MsgPreVoteResp"

\* MsgVote and MsgPreVote. Only a real vote is recorded.
HandleVote(i, r, m) ==
    LET resp == Msg(RespType(m.type), i, m.from, m.term)
    IN  IF CanVote(r, m) /\ IsUpToDate(r, m.index, m.logTerm)
          THEN Send(IF m.type = "MsgVote"
                      THEN [r EXCEPT !.electionElapsed = 0, !.Vote = m.from]
                      ELSE r, resp)
          ELSE Send(r, [resp EXCEPT !.term = r.Term, !.reject = TRUE])

\* Step of MsgVote and MsgPreVote
StepVote(i, m) ==
    /\ m.type \in {"MsgVote", "MsgPreVote"} /\ Receives(i, m, m.type)
    /\ Update(i, HandleVote(i, Observe(node[i], m), m))

\* stepCandidate of the answer to the own kind of request.
HandleVoteResp(i, r, m) ==
    LET r1 == Poll(r, m.from, ~m.reject)
    IN  IF \/ r.state = "Candidate" /\ m.type = "MsgVoteResp"
           \/ r.state = "PreCandidate" /\ m.type = "MsgPreVoteResp"
          THEN CASE TallyVotes(r1) = "VoteWon" /\ r.state = "PreCandidate" ->
                      CampaignElection(i, r1, FALSE)
                 [] TallyVotes(r1) = "VoteWon" /\ r.state = "Candidate" ->
                      BcastAppend(i, BecomeLeader(i, r1))
                 [] TallyVotes(r1) = "VoteLost" -> BecomeFollower(r1, r1.Term, None)
                 [] TallyVotes(r1) = "VotePending" -> r1
          ELSE r

\* MsgVoteResp and MsgPreVoteResp; where nothing was asked, only the term counts.
StepVoteResp(i, m) ==
    /\ m.type \in {"MsgVoteResp", "MsgPreVoteResp"} /\ Receives(i, m, m.type)
    /\ Update(i, HandleVoteResp(i, Observe(node[i], m), m))

\* A message of the leader of the current term makes a candidate a follower again.
Follow(r, m) ==
    IF r.state = "Follower" THEN [r EXCEPT !.electionElapsed = 0, !.lead = m.from]
                            ELSE BecomeFollower(r, m.term, m.from)

AppResp(i, r, m, index) == [Msg("MsgAppResp", i, m.from, r.Term) EXCEPT !.index = index]

\* lastnewi of maybeAppend: where the message ends.
AckIndex(r, m) == m.index + Len(m.entries)

\* handleAppendEntries
HandleAppendEntries(i, r, m) ==
    LET hint == FindConflictByTerm(r, Min2(m.index, LastIndex(r)), m.logTerm)
    IN  IF m.index < r.committed
          THEN Send(r, AppResp(i, r, m, r.committed))
        ELSE IF MatchTerm(r, m.index, m.logTerm)
          THEN LET r1 == MaybeAppend(r, m.index, m.entries, m.commit)
               IN  Send(r1, AppResp(i, r, m, AckIndex(r1, m)))
        ELSE Send(r, [AppResp(i, r, m, m.index) EXCEPT
                        !.reject = TRUE, !.rejectHint = hint, !.logTerm = Term(r, hint)])

\* MsgApp at a follower or candidate
StepApp(i, m) ==
    LET r == Observe(node[i], m)
    IN  /\ Receives(i, m, "MsgApp") /\ r.state # "Leader"
        /\ Update(i, HandleAppendEntries(i, Follow(r, m), m))

HandleHeartbeat(i, r, m) ==
    Send(CommitTo(r, m.commit), Msg("MsgHeartbeatResp", i, m.from, r.Term))

\* MsgHeartbeat at a follower or candidate
StepHeartbeat(i, m) ==
    LET r == Observe(node[i], m)
    IN  /\ Receives(i, m, "MsgHeartbeat") /\ r.state # "Leader"
        /\ Update(i, HandleHeartbeat(i, Follow(r, m), m))

\* Mutant: a snapshot that is older than the commit index is restored as well.
MutHandleSnapshot(i, r, m) ==
    LET r1 == IF MatchTerm(r, m.index, m.logTerm) THEN CommitTo(r, m.index)
              ELSE [r EXCEPT !.log = m.entries, !.offset = m.index, !.committed = m.index]
    IN  Send(r1, AppResp(i, r, m, r1.committed))

\* restore and handleSnapshot: an old snapshot is ignored, one that matches the
\* log only moves the commit index, any other replaces the log.
HandleSnapshot(i, r, m) ==
    LET sindex == m.index
        r1 == IF sindex <= r.committed THEN r
              ELSE IF MatchTerm(r, sindex, m.logTerm) THEN CommitTo(r, sindex)
              ELSE [r EXCEPT !.log = m.entries, !.offset = sindex, !.committed = sindex]
    IN  Send(r1, AppResp(i, r, m, r1.committed))

\* MsgSnap at a follower or candidate
StepSnap(i, m) ==
    LET r == Observe(node[i], m)
    IN  /\ Receives(i, m, "MsgSnap") /\ r.state # "Leader"
        /\ Update(i, HandleSnapshot(i, Follow(r, m), m))

\* MsgAppResp with a rejection: probe further back, unless it is stale.
HandleReject(i, r, m) ==
    LET probe == IF m.logTerm > 0 THEN FindConflictByTerm(r, m.rejectHint, m.logTerm)
                                  ELSE m.rejectHint
        pr    == MaybeDecrTo(r.prs[m.from], m.index, probe)
        pr1   == IF pr.State = "Replicate" THEN BecomeProbe(pr) ELSE pr
    IN  IF Decreases(r.prs[m.from], m.index)
          THEN SendAppend(i, [r EXCEPT !.prs[m.from] = pr1], m.from)
          ELSE r

\* The progress of a follower whose ack is news.
AckProgress(pr, index) ==
    LET pr1 == MaybeUpdate(pr, index)
    IN  CASE pr1.State = "Probe" -> BecomeReplicate(pr1)
          [] pr1.State = "Snapshot" /\ pr1.Match >= pr1.PendingSnapshot ->
                BecomeReplicate(BecomeProbe(pr1))
          [] pr1.State = "Snapshot" /\ pr1.Match < pr1.PendingSnapshot -> pr1
          [] pr1.State = "Replicate" -> FreeLE(pr1, index)

\* MsgAppResp with an ack: advance the commit index, tell everyone or the one
\* that was paused, refill the window, and finish a leadership transfer.
HandleAck(i, r, m) ==
    LET from == m.from
        r1 == [r EXCEPT !.prs[from] = AckProgress(@, m.index)]
        r2 == MaybeCommit(r1)
        r3 == IF r2.committed # r1.committed THEN BcastAppend(i, r2)
              ELSE IF IsPaused(r.prs[from]) THEN SendAppend(i, r2, from)
              ELSE r2
        r4 == SendAllAppends(i, r3, from)
    IN  IF from = r4.leadTransferee /\ r4.prs[from].Match = LastIndex(r4)
          THEN Send(r4, Msg("MsgTimeoutNow", i, from, r4.Term))
          ELSE r4

HandleAppResp(i, r, m) ==
    LET r1 == [r EXCEPT !.prs[m.from].RecentActive = TRUE]
    IN  IF m.reject THEN HandleReject(i, r1, m)
        ELSE IF Updates(r1.prs[m.from], m.index) THEN HandleAck(i, r1, m)
        ELSE [r1 EXCEPT !.prs[m.from] = MaybeUpdate(@, m.index)]

\* MsgAppResp at the leader; elsewhere only its term counts.
StepAppResp(i, m) ==
    LET r == Observe(node[i], m)
    IN  /\ Receives(i, m, "MsgAppResp")
        /\ Update(i, IF r.state # "Leader" THEN r ELSE HandleAppResp(i, r, m))

\* Mutant: an answer does not end the wait for that of a probe.
MutResumed(pr) ==
    LET pr1 == [pr EXCEPT !.RecentActive = TRUE]
    IN  IF pr1.State = "Replicate" /\ Full(pr1) THEN FreeFirstOne(pr1) ELSE pr1

\* The follower is alive: a probe may be repeated, and a full window opens a slot.
Resumed(pr) ==
    LET pr1 == [pr EXCEPT !.RecentActive = TRUE, !.ProbeSent = FALSE]
    IN  IF pr1.State = "Replicate" /\ Full(pr1) THEN FreeFirstOne(pr1) ELSE pr1

HandleHeartbeatResp(i, r, m) ==
    LET r1 == [r EXCEPT !.prs[m.from] = Resumed(@)]
    IN  IF r1.prs[m.from].Match < LastIndex(r1) THEN SendAppend(i, r1, m.from) ELSE r1

\* MsgHeartbeatResp at the leader; elsewhere only its term counts.
StepHeartbeatResp(i, m) ==
    LET r == Observe(node[i], m)
    IN  /\ Receives(i, m, "MsgHeartbeatResp")
        /\ Update(i, IF r.state # "Leader" THEN r ELSE HandleHeartbeatResp(i, r, m))

\* MsgTimeoutNow: a follower campaigns at once, without a pre-vote.
StepTimeoutNow(i, m) ==
    LET r == Observe(node[i], m)
    IN  /\ Receives(i, m, "MsgTimeoutNow")
        /\ r.Term < MaxTerm
        /\ Update(i, IF r.state = "Follower" /\ Promotable(i)
                       THEN CampaignElection(i, r, TRUE) ELSE r)

\* A forwarded MsgProp is a local message: it carries no term.
StepProp(i, m) ==
    /\ MayStep(i) /\ m.to = i /\ m.type = "MsgProp"
    /\ HandleProp(i, node[i], m.from)

\* A forwarded MsgTransferLeader names the target as its sender.
StepTransferLeader(i, m) ==
    /\ Receives(i, m, "MsgTransferLeader")
    /\ Update(i, HandleTransferLeader(i, Observe(node[i], m), m.from, m.term))

-----------------------------------------------------------------------------
(* The application *)

\* The application handles the pending Ready.
Ready(i) == ~node[i].panicked /\ HasReady(i) /\ HandleReady(i, node[i])

\* CreateSnapshot at the applied index, then Compact the log up to it.
Compact(i) ==
    /\ i \in MayCompact /\ ~node[i].panicked
    /\ node[i].applied > disk[i].offset
    /\ disk' = [disk EXCEPT ![i].offset = node[i].applied]
    /\ node' = [node EXCEPT ![i].offset = Max2(@, node[i].applied)]
    /\ UNCHANGED <<net, scenario>>

\* Crash and restart: what Ready has not made durable is gone.
Restart(i) ==
    /\ i \in MayRestart
    /\ node' = [node EXCEPT ![i] = FromDisk(disk[i])]
    /\ UNCHANGED <<disk, net, scenario>>

Step(i, m) ==
    \/ StepLowerTerm(i, m)
    \/ StepVote(i, m)
    \/ StepVoteResp(i, m)
    \/ StepApp(i, m)
    \/ StepHeartbeat(i, m)
    \/ StepSnap(i, m)
    \/ StepAppResp(i, m)
    \/ StepHeartbeatResp(i, m)
    \/ StepTimeoutNow(i, m)
    \/ StepProp(i, m)
    \/ StepTransferLeader(i, m)

Next == \E i \in Server :
    \/ Hup(i)
    \/ LeaseExpires(i)
    \/ Beat(i)
    \/ LeaderTimeout(i)
    \/ Propose(i)
    \/ \E to \in MayTransferTo : TransferLeader(i, to)
    \/ \E to \in Server \ {i} : ReportUnreachable(i, to)
    \/ \E to \in Server \ {i}, failed \in BOOLEAN : ReportSnapshot(i, to, failed)
    \/ \E m \in {n \in net : n.to = i} : Step(i, m)
    \/ Ready(i)
    \/ Compact(i)
    \/ Restart(i)

Spec == Init /\ [][Next]_vars

-----------------------------------------------------------------------------
(* Properties *)

MessageTypes == {"MsgApp", "MsgAppResp", "MsgVote", "MsgVoteResp", "MsgPreVote", "MsgPreVoteResp",
                 "MsgHeartbeat", "MsgHeartbeatResp", "MsgSnap", "MsgTimeoutNow", "MsgProp",
                 "MsgTransferLeader"}

Entry == [term : Nat, data : {"empty", "cmd"}]

Message == [type : MessageTypes, from : Server, to : Server, term : Nat, index : Nat,
            logTerm : Nat, entries : Seq(Entry), commit : Nat, reject : BOOLEAN,
            rejectHint : Nat, transfer : BOOLEAN]

ProgressRecord == [Match : Nat, Next : Nat \ {0}, State : {"Probe", "Replicate", "Snapshot"},
                   PendingSnapshot : Nat, RecentActive : BOOLEAN, ProbeSent : BOOLEAN,
                   Inflights : Seq(Nat)]

Disk == [Term : Nat, Vote : Server \cup {None}, Commit : Nat, log : Seq(Entry), offset : Nat]

RaftStruct ==
    [Term : Nat, Vote : Server \cup {None},
     state : {"Follower", "PreCandidate", "Candidate", "Leader"},
     lead : Server \cup {None}, leadTransferee : Server \cup {None},
     electionElapsed : {0, 1}, votes : [Server -> Votes], prs : [Server -> ProgressRecord],
     log : Seq(Entry), offset : Nat, committed : Nat, applied : Nat,
     uncommittedSize : Nat, msgs : SUBSET Message, panicked : BOOLEAN]

\* The fields of servers, disks and messages keep their types; the counter of the
\* uncommitted size does not underflow (raft.go:1779-1797).
TypeOK == /\ node \in [Server -> RaftStruct]
          /\ disk \in [Server -> Disk]
          /\ net \subseteq Message

\* The panics of raft.go, log.go and tracker are unreachable: no commit index
\* beyond the log, no conflict with a committed entry, no campaign of a leader,
\* no HardState out of range at a restart.
NoPanic == \A i \in Server : ~node[i].panicked

\* Servers that act as leader of term t: in office, or known from a message.
LeadersOf(t) == {i \in Server : node[i].state = "Leader" /\ node[i].Term = t}
                  \cup {m.from : m \in {n \in net : FromLeader(n) /\ n.term = t}}

\* At most one server ever leads a term, across crashes, repeated votes and
\* delayed answers (raft.go:918-966, 1395-1405).
ElectionSafety == \A t \in 1..MaxTerm : Cardinality(LeadersOf(t)) <= 1

\* A vote that left the server is still on its disk, or was given in a term the
\* disk has moved on from: no restart lets it vote twice (raft.go:378-380).
VotesDurable ==
    \A m \in net : m.type = "MsgVoteResp" /\ ~m.reject =>
        \/ disk[m.from].Term > m.term
        \/ disk[m.from].Term = m.term /\ disk[m.from].Vote = m.to

\* Two logs that agree on the term of an entry agree on everything up to it,
\* although MsgApps arrive twice, late and out of order (log.go:88-138).
LogMatching ==
    \A i, j \in Server : \A k \in 1..Min2(LastIndex(node[i]), LastIndex(node[j])) :
        node[i].log[k].term = node[j].log[k].term =>
            SubSeq(node[i].log, 1, k) = SubSeq(node[j].log, 1, k)

HasPrefix(log, prefix) == Len(prefix) <= Len(log) /\ SubSeq(log, 1, Len(prefix)) = prefix

Committed(i) == SubSeq(node[i].log, 1, node[i].committed)

\* No two servers commit different entries at an index: an entry of an earlier term
\* is never committed by counting its acks (raft.go:579-582, log.go:325-331).
CommittedAgree ==
    \A i, j \in Server : HasPrefix(Committed(i), Committed(j)) \/ HasPrefix(Committed(j), Committed(i))

\* A leader has every entry committed in its own or an earlier term: who lacks one
\* does not get the votes of a quorum (log.go:313-315).
LeaderCompleteness ==
    \A i, j \in Server :
        node[i].state = "Leader" /\ node[j].Term <= node[i].Term => HasPrefix(node[i].log, Committed(j))

\* What any server regards as committed is on the disks of a quorum, so that no
\* crash of the others loses it; although the leader counts its own copy before
\* it is on disk (raft.go:615-636).
CommittedDurable ==
    \A i \in Server : JointHasQuorum(Conf, {v \in Server : HasPrefix(disk[v].log, Committed(i))})

\* What a leader believes a follower has acknowledged is on the follower's disk,
\* unless the follower has moved on to a later term (raft.go:1471-1507, 1238).
MatchDurable ==
    \A i, p \in Server :
        node[i].state = "Leader" /\ p # i /\ disk[p].Term <= node[i].Term =>
            HasPrefix(disk[p].log, SubSeq(node[i].log, 1, node[i].prs[p].Match))

\* The leader keeps the contract of Inflights.Add: a window of growing indexes
\* above Match and below Next, never over its capacity (raft.go:470-476).
InflightsContract ==
    \A i \in Server : node[i].state = "Leader" => \A p \in Server \ {i} :
        LET pr == node[i].prs[p]
        IN  /\ Len(pr.Inflights) <= MaxInflight
            /\ \A k \in 1..Len(pr.Inflights) :
                  /\ pr.Match < pr.Inflights[k] /\ pr.Inflights[k] < pr.Next
                  /\ k > 1 => pr.Inflights[k - 1] < pr.Inflights[k]

\* A MsgApp is anchored at an entry its leader really has: a log term of 0 behind
\* index 0 would match any index beyond the follower's log (log.go:265-271).
AppAnchored ==
    \A m \in net : m.type = "MsgApp" /\ m.index > 0 => m.logTerm > 0

\* Term, commit index and compaction point on disk never go back, and a vote is
\* never changed within a term (raft.go:584-588, 1530-1533, log.go:233-241).
HardStateMonotonic ==
    [][\A i \in Server :
          /\ disk'[i].Term >= disk[i].Term
          /\ disk'[i].Commit >= disk[i].Commit
          /\ disk'[i].offset >= disk[i].offset
          /\ disk'[i].Term = disk[i].Term /\ disk[i].Vote # None => disk'[i].Vote = disk[i].Vote]_vars
=============================================================================

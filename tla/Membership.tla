----------------------------- MODULE Membership -----------------------------
(***************************************************************************)
(* Membership changes in a running group: raft.go with confchange.  A      *)
(* change takes effect at each server when its application applies the     *)
(* entry, so that servers elect and commit with different configurations   *)
(* at a time.                                                              *)
(*                                                                         *)
(* Messages are abstracted from: a vote, and the delivery of a part of a   *)
(* leader's log, are steps of two servers; an answer may be lost.          *)
(***************************************************************************)
EXTENDS Changer

CONSTANTS
    Server,         \* ids, positive numbers
    None,           \* no id
    MaxTerm,        \* no campaign beyond this term
    MayCampaign,    \* MayCampaign[t]: servers that may campaign for term t
    Scenarios       \* records of the remaining parameters

ASSUME MembershipAssumption ==
    /\ Server \subseteq Nat \ {0} /\ IsFiniteSet(Server) /\ None \notin Server
    /\ MaxTerm \in Nat /\ MayCampaign \in [1..MaxTerm -> SUBSET Server]
    /\ \A c \in Scenarios :
          /\ c.Bootstrap \subseteq Server /\ c.Bootstrap # {} /\ c.Page \in Nat \ {0}
          /\ c.MayRestart \cup c.MayApply \subseteq Server

VARIABLES
    node,       \* node[i]: the raft struct of server i
    scenario    \* the scenario, chosen at the start

vars == <<node, scenario>>

Bootstrap  == scenario.Bootstrap    \* voters to begin with
Proposals  == scenario.Proposals    \* Proposals[n]: changes proposed when the leader's log has n entries
Page       == scenario.Page         \* entries in a Ready (MaxCommittedSizePerReady)
MayRestart == scenario.MayRestart   \* servers that may crash and restart
MayApply   == scenario.MayApply     \* servers whose application is not stuck

\* The content of an entry: a change, or anything else.
Normal == [transition |-> "none", changes |-> <<>>]
Leave  == [transition |-> "Auto", changes |-> <<>>]

IsConfChange(e) == e.cc # Normal

LastIndex(r) == Len(r.log)

BootstrapTracker == SimpleChain(EmptyTracker, ToChanges("AddNode", Bootstrap))

Follower(r, term) ==
    [r EXCEPT !.term = term, !.vote = IF term # r.term THEN None ELSE @, !.state = "Follower",
              !.votes = {}, !.match = [p \in Server |-> 0], !.pendingConfIndex = 0]

\* newRaft: term, vote, log and commit index are durable; the configuration is that
\* of the first snapshot, and all committed entries are handed out again.
Restarted(r) ==
    [Follower(r, r.term) EXCEPT !.applied = 0, !.delivered = 0, !.tracker = BootstrapTracker,
                                !.panicked = FALSE]

Init ==
    /\ scenario \in Scenarios
    /\ node = [i \in Server |-> Restarted(
                [term |-> 0, vote |-> None, state |-> "Follower", log |-> <<>>, committed |-> 0,
                 applied |-> 0, delivered |-> 0, tracker |-> BootstrapTracker,
                 pendingConfIndex |-> 0, votes |-> {}, match |-> [p \in Server |-> 0],
                 panicked |-> FALSE])]

Alive(i) == ~node[i].panicked

-----------------------------------------------------------------------------
(* Elections *)

MaybeCommit(r) ==
    LET mci == JointCommittedIndex(r.tracker.voters, r.match)
    IN  IF mci > r.committed /\ r.log[mci].term = r.term THEN [r EXCEPT !.committed = mci] ELSE r

\* Whether a server with the configuration of r can apply the change.
Applicable(r, cc) == cc = Normal \/ ApplyConfChange(r.tracker, cc).err = "nil"

\* appendEntry of one entry; a leader without a progress of its own panics. The field
\* fits is history: the leader, which does not ask, could apply the change at this moment.
AppendEntry(i, r, cc) ==
    LET r1 == [r EXCEPT !.log = Append(@, [term |-> r.term, cc |-> cc, fits |-> Applicable(r, cc)])]
    IN  IF i \notin Tracked(r.tracker) THEN [r EXCEPT !.panicked = TRUE]
        ELSE MaybeCommit([r1 EXCEPT !.match[i] = LastIndex(r1)])

\* Mutant: the new leader takes all changes in its log for applied.
MutBecomeLeader(i, r) ==
    AppendEntry(i, [Follower(r, r.term) EXCEPT !.state = "Leader",
                        !.match[i] = LastIndex(r)], Normal)

\* becomeLeader: no change may be proposed until all the log is applied.
BecomeLeader(i, r) ==
    AppendEntry(i, [Follower(r, r.term) EXCEPT !.state = "Leader",
                        !.match[i] = LastIndex(r), !.pendingConfIndex = LastIndex(r)], Normal)

Won(r) == JointVoteResult(r.tracker.voters,
            [p \in IDs(r.tracker.voters) |-> IF p \in r.votes THEN "yes" ELSE "missing"]) = "VoteWon"

\* promotable: a voter that knows of it
Promotable(i, r) == i \in Tracked(r.tracker) /\ ~r.tracker.prs[i]

\* Mutant: committed changes that are not applied do not matter.
MutHasPendingConf(r) == FALSE

\* numOfPendingConf of what is committed and not applied
HasPendingConf(r) == \E k \in (r.applied + 1)..r.committed : IsConfChange(r.log[k])

\* hup and campaign: the vote of the server itself may be enough.
Campaign(i) ==
    LET r == [Follower(node[i], node[i].term + 1) EXCEPT !.state = "Candidate", !.vote = i, !.votes = {i}]
    IN  /\ Alive(i) /\ node[i].state # "Leader"
        /\ node[i].term < MaxTerm /\ i \in MayCampaign[node[i].term + 1]
        /\ Promotable(i, node[i]) /\ ~HasPendingConf(node[i])
        /\ node' = [node EXCEPT ![i] = IF Won(r) THEN BecomeLeader(i, r) ELSE r]
        /\ UNCHANGED scenario

LastTerm(r) == IF r.log = <<>> THEN 0 ELSE r.log[LastIndex(r)].term

IsUpToDate(r, c) == \/ LastTerm(c) > LastTerm(r)
                    \/ LastTerm(c) = LastTerm(r) /\ LastIndex(c) >= LastIndex(r)

\* Server v, a voter of candidate i's configuration, grants it its vote. The
\* configuration of v plays no part.
Vote(i, v) ==
    LET c == node[i]
        r == IF node[v].term < c.term THEN Follower(node[v], c.term) ELSE node[v]
    IN  /\ Alive(i) /\ Alive(v) /\ i # v
        /\ c.state = "Candidate" /\ v \in IDs(c.tracker.voters) \ c.votes
        /\ r.term = c.term /\ r.vote \in {None, i} /\ IsUpToDate(r, c)
        /\ node' = [node EXCEPT ![v] = [r EXCEPT !.vote = i], ![i].votes = @ \cup {v}]
        /\ UNCHANGED scenario

\* The last of the votes arrives: the tally is by the configuration of this moment.
Win(i) ==
    /\ Alive(i) /\ node[i].state = "Candidate" /\ Won(node[i]) /\ node[i].votes # {i}
    /\ node' = [node EXCEPT ![i] = BecomeLeader(i, node[i])]
    /\ UNCHANGED scenario

-----------------------------------------------------------------------------
(* Replication *)

HasPrefix(s, prefix) == Len(prefix) <= Len(s) /\ SubSeq(s, 1, Len(prefix)) = prefix

Min2(a, b) == IF a <= b THEN a ELSE b
Max2(a, b) == IF a >= b THEN a ELSE b

\* maybeAppend of all of a leader's log: from the first conflict on, r takes it over.
AppendFrom(r, log) ==
    LET known == SubSeq(r.log, 1, Min2(r.committed, Len(log)))
    IN  IF HasPrefix(r.log, log) THEN r
        ELSE IF ~HasPrefix(log, known) THEN [r EXCEPT !.panicked = TRUE]
        ELSE [r EXCEPT !.log = log]

\* Leader i brings member j up to the end of its log and tells it the commit index;
\* the answer may be lost. A server that does not know of its membership takes part.
\* A message that is delivered late does what it would have done before the entries
\* that came after it, or is refused for its term.
Replicate(i, j, answered) ==
    LET l  == node[i]
        n  == LastIndex(l)
        r  == AppendFrom(IF node[j].term < l.term THEN Follower(node[j], l.term)
                         ELSE [node[j] EXCEPT !.state = "Follower", !.votes = {}], l.log)
        r1 == [r EXCEPT !.committed = Max2(@, Min2(l.committed, n))]
        l1 == MaybeCommit([l EXCEPT !.match[j] = Max2(@, n)])
    IN  /\ Alive(i) /\ Alive(j) /\ l.state = "Leader"
        /\ j \in Tracked(l.tracker) \ {i} /\ node[j].term <= l.term
        /\ ~(node[j].term = l.term /\ node[j].state = "Leader")
        /\ node' = [node EXCEPT ![j] = r1, ![i] = IF answered THEN l1 ELSE l]
        /\ UNCHANGED scenario

\* Mutant: a change may be proposed while another one is on its way.
MutRefuses(r, cc) ==
    \/ Joint(r.tracker) /\ cc.changes # <<>>
    \/ ~Joint(r.tracker) /\ cc.changes = <<>>

\* Why MsgProp turns a change into an empty entry: one may be pending, or it leaves a
\* joint configuration that is not there, or does not leave the one that is. Whether
\* the change can be applied is not asked.
Refuses(r, cc) ==
    \/ r.pendingConfIndex > r.applied
    \/ Joint(r.tracker) /\ cc.changes # <<>>
    \/ ~Joint(r.tracker) /\ cc.changes = <<>>

\* MsgProp with a change at the leader. One that is not a member any more drops it.
Propose(i) ==
    LET r == node[i]
    IN  /\ Alive(i) /\ r.state = "Leader" /\ i \in Tracked(r.tracker)
        /\ LastIndex(r) \in DOMAIN Proposals
        /\ UNCHANGED scenario
        /\ \E cc \in Proposals[LastIndex(r)] :
              node' = [node EXCEPT ![i] =
                  IF Refuses(r, cc) THEN AppendEntry(i, r, Normal)
                  ELSE AppendEntry(i, [r EXCEPT !.pendingConfIndex = LastIndex(r) + 1], cc)]

-----------------------------------------------------------------------------
(* The application *)

\* switchToConfig: at a leader that stays a voter, entries may now be committed.
SwitchToConfig(i, r, t) ==
    LET r1 == [r EXCEPT !.tracker = t,
                        !.match = [p \in Server |-> IF p \in Tracked(t) \cap Tracked(r.tracker)
                                                     THEN r.match[p] ELSE 0]]
    IN  IF r1.state # "Leader" \/ ~Promotable(i, r1) THEN r1 ELSE MaybeCommit(r1)

\* ApplyConfChange for one entry; a change that is refused now is a panic.
ApplyEntry(i, r, e) ==
    IF r.panicked \/ ~IsConfChange(e) THEN r
    ELSE IF ~Applicable(r, e.cc) THEN [r EXCEPT !.panicked = TRUE]
    ELSE SwitchToConfig(i, r, ApplyConfChange(r.tracker, e.cc))

\* The application applies the entries up to index n.
ApplyTo(i, r, n) ==
    LET upTo[k \in r.delivered..n] ==
            IF k = r.delivered THEN r ELSE ApplyEntry(i, upTo[k - 1], r.log[k])
    IN  [upTo[n] EXCEPT !.delivered = n]

\* Mutant: only a change that this leader has seen pending is left automatically.
MutLeavesNow(r, n) ==
    /\ r.state = "Leader" /\ r.tracker.autoLeave
    /\ r.applied < r.pendingConfIndex /\ n >= r.pendingConfIndex

\* When advance leaves a joint configuration.
LeavesNow(r, n) ==
    /\ r.state = "Leader" /\ r.tracker.autoLeave
    /\ r.applied <= r.pendingConfIndex /\ n >= r.pendingConfIndex

\* advance to the applied index n
AdvanceTo(i, r, n) ==
    LET r1 == AppendEntry(i, [r EXCEPT !.applied = n], Leave)
    IN  IF LeavesNow(r, n) THEN [r1 EXCEPT !.pendingConfIndex = LastIndex(r1)]
                           ELSE [r EXCEPT !.applied = n]

\* The end of the page of committed entries in the next Ready
ReadyEnd(r) == Min2(r.applied + Page, r.committed)

\* The application applies a page of committed entries.
Apply(i) ==
    /\ Alive(i) /\ i \in MayApply /\ node[i].delivered = node[i].applied
    /\ node[i].committed > node[i].applied
    /\ node' = [node EXCEPT ![i] = ApplyTo(i, @, ReadyEnd(node[i]))]
    /\ UNCHANGED scenario

\* Advance once the page is applied
Advance(i) ==
    /\ Alive(i) /\ node[i].delivered > node[i].applied
    /\ node' = [node EXCEPT ![i] = AdvanceTo(i, @, node[i].delivered)]
    /\ UNCHANGED scenario

\* Crash and restart, also after a panic
Restart(i) ==
    /\ i \in MayRestart
    /\ node' = [node EXCEPT ![i] = Restarted(@)]
    /\ UNCHANGED scenario

Next == \E i \in Server :
    \/ Campaign(i)
    \/ \E v \in Server : Vote(i, v)
    \/ Win(i)
    \/ \E j \in Server, answered \in BOOLEAN : Replicate(i, j, answered)
    \/ Propose(i)
    \/ Apply(i) \/ Advance(i)
    \/ Restart(i)

Spec == Init /\ [][Next]_vars

-----------------------------------------------------------------------------
(* Properties *)

\* The fields keep their types, and no index runs ahead of the one it follows
\* (log.go:32-38).
TypeOK == \A i \in Server :
    LET r == node[i]
    IN  /\ r.term \in 0..MaxTerm /\ r.vote \in Server \cup {None}
        /\ r.state \in {"Follower", "Candidate", "Leader"}
        /\ r.applied <= r.committed /\ r.delivered <= r.committed /\ r.committed <= LastIndex(r)
        /\ r.votes \subseteq Server /\ r.match \in [Server -> 0..LastIndex(r)]
        /\ r.tracker.err = "nil" /\ r.panicked \in BOOLEAN

\* Servers that apply a change, each at its own time and again after a restart, agree on
\* it: all of them panic on it or none does, and that was settled when a leader accepted
\* it (raft.go:1038-1057, 1633-1636). Leaders do accept changes that cannot be applied:
\* one without voters (confchange.go:172-174), an empty one in a joint configuration that
\* asks for an explicit transition (raft.go:1041-1056). Nothing else ends a server, and
\* what is applied was committed, which TypeOK says.
AppliedAlike ==
    /\ TypeOK
    /\ \A i \in Server :
          node[i].panicked <=> \E k \in 1..node[i].delivered : ~node[i].log[k].fits

Committed(i) == SubSeq(node[i].log, 1, node[i].committed)

\* No two servers commit different entries, although a leader counts its own
\* configuration's quorum and others may be changes ahead (raft.go:1039-1056, 728-733).
CommittedAgree == \A i, j \in Server :
    HasPrefix(Committed(i), Committed(j)) \/ HasPrefix(Committed(j), Committed(i))

\* Of the changes in a leader's log at most one is not applied by it: configurations
\* in use are never two changes apart (raft.go:1039, 728-733).
OnePendingChange == \A i \in Server :
    node[i].state = "Leader" =>
        Cardinality({k \in (node[i].delivered + 1)..LastIndex(node[i]) :
                        IsConfChange(node[i].log[k])}) <= 1

\* A leader that has applied an entry of its own term, and is in a joint configuration
\* that is to be left automatically, has the request to leave in its log, even if it was
\* elected after the change: the configuration is left (raft.go:548-562).
JointLeft == \A i \in Server :
    LET r == node[i]
    IN  /\ r.state = "Leader" /\ r.tracker.autoLeave
        /\ r.delivered = r.applied /\ r.applied > 0 /\ r.log[r.applied].term = r.term
        => \E k \in (r.applied + 1)..LastIndex(r) : r.log[k].cc = Leave
=============================================================================

------------------------------ MODULE Catchup ------------------------------
(***************************************************************************)
(* Does a follower catch up? The leader L of the last term brings the log  *)
(* of one follower F, which may differ from its own in any way that Raft   *)
(* allows, up to date, with the handlers of Raft, over a transport that    *)
(* loses messages.  A third voter has elected L and is down.               *)
(***************************************************************************)
EXTENDS Raft

CONSTANTS
    L, F,           \* leader and follower
    Histories       \* logs of earlier terms, as sequences of terms

ASSUME CatchupAssumption == {L, F} \subseteq Server /\ L # F

Commands(h) == [k \in 1..Len(h) |-> [term |-> h[k], data |-> "cmd"]]

Common(a, b) ==
    LET agree == {k \in 0..Min2(Len(a), Len(b)) : SubSeq(a, 1, k) = SubSeq(b, 1, k)}
    IN  CHOOSE k \in agree : \A j \in agree : j <= k

FirstOf(h, t) == {k \in 1..Len(h) : h[k] = t /\ \A j \in 1..(k - 1) : h[j] # t}

\* Two logs that can exist side by side, of which the leader's has c committed entries:
\* what is of one term comes from one leader, and nobody leads without the committed.
Compatible(l, f, c) ==
    /\ \A k \in 1..Min2(Len(l), Len(f)) : l[k] = f[k] => k <= Common(l, f)
    /\ \A t \in 1..MaxTerm : FirstOf(l, t) = {} \/ FirstOf(f, t) = {} \/ FirstOf(l, t) = FirstOf(f, t)
    /\ (c > Common(l, f) /\ f # <<>>) => f[Len(f)] <= l[c]

OnDisk(vote, h, commit, offset) ==
    [Term |-> MaxTerm, Vote |-> vote, Commit |-> commit, log |-> Commands(h), offset |-> offset]

\* L has just been elected; its log may be compacted as far as it is committed.
CatchupInit == scenario \in Scenarios /\
    \E l, f \in Histories : \E c \in 0..Len(l) : \E cf \in 0..Min2(c, Common(l, f)), o \in {0, c} :
        LET leader == BcastAppend(L, BecomeLeader(L, [FromDisk(OnDisk(L, l, c, o)) EXCEPT !.applied = c]))
        IN  /\ Compatible(l, f, c)
            /\ node = [i \in Server |-> IF i = L THEN Advanced(leader)
                                        ELSE [FromDisk(OnDisk(None, f, cf, 0)) EXCEPT !.applied = cf]]
            /\ disk = [i \in Server |-> HardState(node[i])]
            /\ net = {m \in leader.msgs : m.to = F}

\* Server i enters state r, with the messages `rest` on their way. The transport
\* keeps of a sender what it sent last: earlier messages are lost.
Become(i, r, rest) ==
    LET sent == {m \in r.msgs : m.to \in {L, F}}
    IN  /\ UNCHANGED scenario
        /\ disk' = [disk EXCEPT ![i] = HardState(r)]
        /\ net' = IF sent = {} THEN rest ELSE {m \in rest : m.from # i} \cup sent
        /\ node' = [node EXCEPT ![i] = Advanced(r)]

Handle(i, r, m) ==
    CASE m.type = "MsgApp" -> HandleAppendEntries(i, Follow(r, m), m)
      [] m.type = "MsgSnap" -> HandleSnapshot(i, Follow(r, m), m)
      [] m.type = "MsgHeartbeat" -> HandleHeartbeat(i, Follow(r, m), m)
      [] m.type = "MsgAppResp" -> HandleAppResp(i, r, m)
      [] m.type = "MsgHeartbeatResp" -> HandleHeartbeatResp(i, r, m)

Deliver(type) ==
    \E m \in net : m.type = type /\ Become(m.to, Handle(m.to, node[m.to], m), net \ {m})

BeatOnce == Become(L, Send(node[L], Heartbeat(L, node[L], F)), net)

ProposeOnce ==
    /\ LastIndex(node[L]) < MaxLog
    /\ Become(L, BcastAppend(L, AppendEntry(L, node[L], "cmd")), net)

Unreachable ==
    /\ Reports /\ node[L].prs[F].State = "Replicate"
    /\ Become(L, [node[L] EXCEPT !.prs[F] = BecomeProbe(@)], net)

SnapshotReported(failed) ==
    /\ node[L].prs[F].State = "Snapshot"
    /\ Become(L, [node[L] EXCEPT !.prs[F] = SnapshotStatus(@, failed)], net)

CatchupNext ==
    \/ \E type \in MessageTypes : Deliver(type)
    \/ BeatOnce \/ ProposeOnce \/ Unreachable
    \/ \E failed \in BOOLEAN : SnapshotReported(failed)
    \/ Compact(L)

Underway(type) == \E m \in net : m.type = type

\* Of a kind of message that is sent again and again, some arrive: SF_vars(Deliver(type)),
\* with Underway(type) for ENABLED <<Deliver(type)>>_vars. The leader beats
\* (raft.go:668-671), and the application reports on every snapshot, as ReportSnapshot
\* asks of it (node.go:196-205).
CatchupSpec ==
    /\ CatchupInit /\ [][CatchupNext]_vars
    /\ WF_vars(BeatOnce)
    /\ WF_vars(\E failed \in BOOLEAN : SnapshotReported(failed))
    /\ \A type \in {"MsgApp", "MsgSnap", "MsgHeartbeat", "MsgAppResp", "MsgHeartbeatResp"} :
          <>[]~Underway(type) \/ []<><<Deliver(type)>>_vars

\* The follower ends up with the log of the leader, all of it committed by both: no
\* lost probe, append, answer or snapshot leaves it paused for good, wherever its log
\* parted from the leader's (tracker/progress.go:201, raft.go:1282-1290).
CaughtUp ==
    <>[](/\ node[F].log = node[L].log
         /\ node[F].committed = LastIndex(node[L]) /\ node[L].committed = LastIndex(node[L]))
=============================================================================

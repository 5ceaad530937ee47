------------------------------- MODULE Rejoin -------------------------------
(***************************************************************************)
(* Does the group come to rest? A partition has left the servers in        *)
(* different terms, a minority of them down for good, and maybe one        *)
(* leading an old term.  From then on the network is timely: messages are  *)
(* exchanged in rounds, and a timer fires only when all are answered.  The *)
(* handlers are those of Raft.                                             *)
(***************************************************************************)
EXTENDS Raft

CONSTANTS
    L,              \* the server that has led term 1
    LastTerms       \* terms that servers may have reached

ASSUME RejoinAssumption ==
    L \in Server /\ \A c \in Scenarios : LastTerms \subseteq 1..c.MaxTerm

VARIABLES
    up,             \* servers that run
    answers         \* messages sent in this round, which arrive in the next

rejoinVars == <<vars, up, answers>>

Proposed == <<[term |-> 1, data |-> "empty"]>>

\* L has led term 1 and may still do so; the servers in `has` have its entry; who has
\* gone beyond term 1 has campaigned in vain, before PreVote was enabled.
Partitioned(leads, term, has) ==
    LET d(i) == [Term |-> term[i], Vote |-> IF term[i] = 1 THEN L ELSE i, Commit |-> 0,
                 log |-> IF i \in has THEN Proposed ELSE <<>>, offset |-> 0]
        prs  == [p \in Server |-> IF p = L THEN BecomeReplicate(NewProgress(1, 2))
                                           ELSE NewProgress(0, 2)]
    IN  [i \in Server |->
            CASE i = L /\ leads -> [FromDisk(d(i)) EXCEPT !.state = "Leader", !.lead = L, !.prs = prs]
              [] i # L /\ term[i] = 1 -> [FromDisk(d(i)) EXCEPT !.lead = L]
              [] OTHER -> FromDisk(d(i))]

RejoinInit == scenario \in Scenarios /\
    \E leads \in BOOLEAN, term \in [Server -> LastTerms], has \in SUBSET Server :
        /\ L \in has
        /\ leads => term[L] = 1
        /\ node = Partitioned(leads, term, has)
        /\ disk = [i \in Server |-> HardState(node[i])]
        /\ net = {} /\ answers = {}
        /\ up \in {u \in SUBSET Server : JointHasQuorum(Conf, u)}

\* Server i enters state r, with the messages `rest` of this round still to arrive.
Enter(i, r, rest) ==
    LET sent == answers \cup {m \in r.msgs : m.to \in up}
    IN  /\ disk' = [disk EXCEPT ![i] = HardState(r)]
        /\ node' = [node EXCEPT ![i] = Advanced(r)]
        /\ net' = IF rest = {} THEN sent ELSE rest
        /\ answers' = IF rest = {} THEN {} ELSE sent
        /\ UNCHANGED <<up, scenario>>

\* Step of a message, after its term has been dealt with.
Handled(i, r, m) ==
    CASE m.type \in {"MsgVote", "MsgPreVote"} -> HandleVote(i, r, m)
      [] m.type \in {"MsgVoteResp", "MsgPreVoteResp"} -> HandleVoteResp(i, r, m)
      [] m.type = "MsgApp" -> HandleAppendEntries(i, Follow(r, m), m)
      [] m.type = "MsgHeartbeat" -> HandleHeartbeat(i, Follow(r, m), m)
      [] m.type = "MsgAppResp" -> IF r.state = "Leader" THEN HandleAppResp(i, r, m) ELSE r
      [] m.type = "MsgHeartbeatResp" -> IF r.state = "Leader" THEN HandleHeartbeatResp(i, r, m) ELSE r

\* Step: the whole of it
Stepped(i, r, m) ==
    CASE m.term < r.Term -> [r EXCEPT !.msgs = @ \cup AnswersToLowerTerm(i, r, m)]
      [] m.term >= r.Term /\ InLease(r, m) -> r
      [] m.term >= r.Term /\ ~InLease(r, m) -> Handled(i, Observe(r, m), m)

\* What one server receives in a round is independent of what the others do in it:
\* they take turns, and each receives its messages in any order.
Turn(i) == i = CHOOSE j \in {m.to : m \in net} : TRUE

Arrive(m) == m \in net /\ Turn(m.to) /\ Enter(m.to, Stepped(m.to, node[m.to], m), net \ {m})

\* The timers are slower than the network.
Quiet == net = {}

\* Server i hears from a leader whom it follows.
Led(i) == /\ node[i].lead \in up
          /\ node[node[i].lead].state = "Leader" /\ node[node[i].lead].Term = node[i].Term

\* tickElection: who hears from a leader does not time out.
TimesOut(i) == i \in up /\ Quiet /\ node[i].state # "Leader" /\ ~Led(i)

MayHup(i) == TimesOut(i) /\ node[i].Term < MaxTerm /\ i \in MayCampaign[node[i].Term + 1]

Campaigns(i) ==
    /\ MayHup(i)
    /\ Enter(i, IF PreVote THEN CampaignPreElection(i, node[i])
                           ELSE CampaignElection(i, node[i], FALSE), net)

Expiring(i) == TimesOut(i) /\ node[i].lead # None /\ node[i].electionElapsed = 0

LeaseEnds(i) == Expiring(i) /\ Enter(i, [node[i] EXCEPT !.electionElapsed = 1], net)

\* A leader that answers reach finds its quorum active whenever it checks, and one that
\* they do not reach is told of a later term: MsgCheckQuorum changes nothing here.
BeatDue(i) == i \in up /\ Quiet /\ node[i].state = "Leader"

Beats(i) ==
    /\ BeatDue(i)
    /\ Enter(i, [node[i] EXCEPT !.msgs = {Heartbeat(i, node[i], p) : p \in Server \ {i}}], net)

RejoinNext ==
    \/ \E m \in net : Arrive(m)
    \/ \E i \in Server : Campaigns(i) \/ LeaseEnds(i) \/ Beats(i)

\* Messages on their way arrive (weak fairness), and a timer that is due again and again
\* fires again and again (strong fairness): election timeouts are drawn at random
\* (raft.go:1714-1716), so that none always comes second. The guards stand for ENABLED.
RejoinSpec ==
    /\ RejoinInit /\ [][RejoinNext]_rejoinVars
    /\ []<>Quiet \/ []<><<\E m \in net : Arrive(m)>>_rejoinVars
    /\ \A i \in Server :
          /\ <>[]~MayHup(i) \/ []<><<Campaigns(i)>>_rejoinVars
          /\ <>[]~Expiring(i) \/ []<><<LeaseEnds(i)>>_rejoinVars
          /\ <>[]~BeatDue(i) \/ []<><<Beats(i)>>_rejoinVars

\* After a partition that left servers in different terms, with or without an old leader,
\* all running servers come to follow one leader and stay with it: neither the lease that
\* ignores vote requests nor a pre-vote that is asked for an old term locks a server out,
\* or keeps the others from electing a leader (raft.go:843-852, 872-903).
LeaderFollowed ==
    <>[](\E l \in up : /\ node[l].state = "Leader"
                       /\ \A i \in up : node[i].lead = l /\ node[i].Term = node[l].Term)
=============================================================================

------------------------------ MODULE ReadIndex ------------------------------
(***************************************************************************)
(* Linearizable reads: read_only.go, and how raft.go drives it with        *)
(* ReadOnlySafe.  A leader remembers the commit index of the moment a      *)
(* request arrives and answers once a quorum has acknowledged a heartbeat  *)
(* that was sent for this request or a later one.                          *)
(*                                                                         *)
(* Requests, heartbeats and their answers are messages.  Elections and     *)
(* replication are steps of two servers, as in Membership.  Request        *)
(* contexts are unique, which ReadState asks of the caller.                *)
(***************************************************************************)
EXTENDS Integers, Sequences, FiniteSets, QuorumConfig

CONSTANTS
    Server, None,
    Request,        \* contexts of read requests
    L, F,           \* a leader whose ticks are seen, a follower it stays in touch with
    Scenarios       \* records of the bounds below

ASSUME ReadIndexAssumption ==
    /\ IsFiniteSet(Server) /\ {L, F} \subseteq Server /\ None \notin Server \cup Request \cup Nat
    /\ \A c \in Scenarios :
          /\ c.MaxTerm \in Nat /\ c.MaxLog \in Nat /\ c.Lossy \in BOOLEAN
          /\ c.MayCampaign \in [1..c.MaxTerm -> SUBSET Server]
          /\ c.MayAsk \in [Request -> SUBSET Server] /\ c.Up \subseteq Server

VARIABLES
    node,       \* node[i]: the raft struct of server i
    net,        \* messages; but for requests, one that is received may be received again
    asked,      \* asked[x]: what was committed when x was asked; None before
    readStates, \* readStates[i]: read states handed to the application of i
    scenario    \* the scenario, chosen at the start

vars == <<node, net, asked, readStates, scenario>>

MaxTerm     == scenario.MaxTerm     \* no campaign beyond this term
MaxLog      == scenario.MaxLog      \* no proposal beyond this log length
MayCampaign == scenario.MayCampaign \* MayCampaign[t]: servers that may campaign for term t
MayAsk      == scenario.MayAsk      \* MayAsk[x]: servers that are asked to read with context x
Up          == scenario.Up          \* servers that run
Lossy       == scenario.Lossy       \* whether messages are lost and L beats; if not, they only stay unread

Conf == <<Server, {}>>

Max2(a, b) == IF a >= b THEN a ELSE b
Min2(a, b) == IF a <= b THEN a ELSE b

-----------------------------------------------------------------------------
(* read_only.go *)

\* readOnly: the queue of contexts, and for each of them its readIndexStatus.
NewReadOnly == [queue |-> <<>>, pending |-> <<>>, panicked |-> FALSE]

\* A request that is pending already keeps its index.
AddRequest(ro, index, m) ==
    IF m.ctx \in DOMAIN ro.pending THEN ro
    ELSE [ro EXCEPT !.queue = Append(@, m.ctx),
                    !.pending = [x \in DOMAIN @ \cup {m.ctx} |->
                        IF x = m.ctx THEN [index |-> index, from |-> m.from, acks |-> {}] ELSE @[x]]]

RecvAck(ro, id, ctx) ==
    IF ctx \in DOMAIN ro.pending THEN [ro EXCEPT !.pending[ctx].acks = @ \cup {id}] ELSE ro

\* advance: the requests up to ctx in the queue; none if it is not there.
Advanced(ro, ctx) ==
    LET at == {k \in 1..Len(ro.queue) : ro.queue[k] = ctx}
    IN  IF at = {} THEN <<>> ELSE SubSeq(ro.queue, 1, CHOOSE k \in at : TRUE)

Done(ro, ctx) == {Advanced(ro, ctx)[k] : k \in 1..Len(Advanced(ro, ctx))}

\* advance: they leave queue and map; one that the map does not have is a panic.
Advance(ro, ctx) ==
    LET gone == Done(ro, ctx)
    IN  [queue    |-> SubSeq(ro.queue, Len(Advanced(ro, ctx)) + 1, Len(ro.queue)),
         pending  |-> [x \in DOMAIN ro.pending \ gone |-> ro.pending[x]],
         panicked |-> ro.panicked \/ ~(gone \subseteq DOMAIN ro.pending)]

\* Mutant: a heartbeat names no request.
MutLastPendingRequestCtx(ro) == None

LastPendingRequestCtx(ro) == IF ro.queue = <<>> THEN None ELSE ro.queue[Len(ro.queue)]

-----------------------------------------------------------------------------
(* Elections and replication *)

LastIndex(r) == Len(r.log)
TermOf(r, k) == IF k = 0 THEN 0 ELSE r.log[k]
LastTerm(r)  == TermOf(r, LastIndex(r))

Reset(r, term) ==
    [r EXCEPT !.term = term, !.vote = IF term # r.term THEN None ELSE @, !.lead = None,
              !.votes = {}, !.match = [p \in Server |-> 0], !.readOnly = NewReadOnly]

BecomeFollower(r, term, lead) == [Reset(r, term) EXCEPT !.state = "Follower", !.lead = lead]

Init ==
    /\ scenario \in Scenarios
    /\ node = [i \in Server |->
                [term |-> 0, vote |-> None, state |-> "Follower", lead |-> None, log |-> <<>>,
                 committed |-> 0, votes |-> {}, match |-> [p \in Server |-> 0],
                 readOnly |-> NewReadOnly]]
    /\ net = {}
    /\ asked = [x \in Request |-> None]
    /\ readStates = [i \in Server |-> {}]

MaybeCommit(r) ==
    LET mci == JointCommittedIndex(Conf, r.match)
    IN  IF mci > r.committed /\ TermOf(r, mci) = r.term THEN [r EXCEPT !.committed = mci] ELSE r

AppendEntry(i, r) ==
    LET r1 == [r EXCEPT !.log = Append(@, r.term)]
    IN  MaybeCommit([r1 EXCEPT !.match[i] = LastIndex(r1)])

BecomeLeader(i, r) == AppendEntry(i, [Reset(r, r.term) EXCEPT !.state = "Leader", !.lead = i])

Granted(r) == [p \in Server |-> IF p \in r.votes THEN "yes" ELSE "missing"]

Campaign(i) ==
    LET r == [Reset(node[i], node[i].term + 1) EXCEPT !.state = "Candidate", !.vote = i, !.votes = {i}]
    IN  /\ node[i].state # "Leader"
        /\ node[i].term < MaxTerm /\ i \in MayCampaign[node[i].term + 1]
        /\ node' = [node EXCEPT ![i] = IF JointVoteResult(Conf, Granted(r)) = "VoteWon"
                                         THEN BecomeLeader(i, r) ELSE r]
        /\ UNCHANGED <<net, asked, readStates, scenario>>

\* Server v votes for i, which wins with the vote that completes a quorum.
Vote(i, v) ==
    LET c == node[i]
        r == IF node[v].term < c.term THEN BecomeFollower(node[v], c.term, None) ELSE node[v]
        w == [c EXCEPT !.votes = @ \cup {v}]
    IN  /\ c.state = "Candidate" /\ v \in Up \ c.votes
        /\ r.term = c.term /\ (r.vote = i \/ (r.vote = None /\ r.lead = None))
        /\ \/ LastTerm(c) > LastTerm(r)
           \/ LastTerm(c) = LastTerm(r) /\ LastIndex(c) >= LastIndex(r)
        /\ node' = [node EXCEPT ![v] = [r EXCEPT !.vote = i],
                                ![i] = IF JointVoteResult(Conf, Granted(w)) = "VoteWon"
                                         THEN BecomeLeader(i, w) ELSE w]
        /\ UNCHANGED <<net, asked, readStates, scenario>>

\* Leader i brings j up to the end of its log; the answer may be lost.
Replicate(i, j, answered) ==
    LET l == node[i]
        r == IF node[j].term < l.term \/ node[j].state # "Follower"
               THEN BecomeFollower(node[j], l.term, i) ELSE [node[j] EXCEPT !.lead = i]
    IN  /\ l.state = "Leader" /\ j \in Up \ {i} /\ node[j].term <= l.term
        /\ node' = [node EXCEPT
                      ![j] = [r EXCEPT !.log = l.log, !.committed = Max2(@, l.committed)],
                      ![i] = IF answered THEN MaybeCommit([l EXCEPT !.match[j] = LastIndex(l)]) ELSE l]
        /\ UNCHANGED <<net, asked, readStates, scenario>>

Propose(i) ==
    /\ node[i].state = "Leader" /\ LastIndex(node[i]) < MaxLog
    /\ node' = [node EXCEPT ![i] = AppendEntry(i, @)]
    /\ UNCHANGED <<net, asked, readStates, scenario>>

-----------------------------------------------------------------------------
(* Reads *)

Msg(type, from, to, term, ctx, index) ==
    [type |-> type, from |-> from, to |-> to, term |-> term, ctx |-> ctx, index |-> index]

\* bcastHeartbeatWithCtx; what is sent to a server that is down is lost.
Heartbeats(i, r, ctx) ==
    {Msg("MsgHeartbeat", i, p, r.term, ctx, Min2(r.match[p], r.committed)) : p \in Up \ {i}}

\* Mutant: a leader trusts the commit index it starts with.
MutCommittedEntryInCurrentTerm(r) == TRUE

CommittedEntryInCurrentTerm(r) == TermOf(r, r.committed) = r.term

\* responseToReadIndexReq for what is answered, {[ctx, index, from]}: a read state
\* for the own application, or a message.
Respond(i, rest, rss) ==
    /\ readStates' = [readStates EXCEPT ![i] = @ \cup
            {[ctx |-> rs.ctx, index |-> rs.index] : rs \in {q \in rss : q.from = i}}]
    /\ net' = rest \cup {Msg("MsgReadIndexResp", i, rs.from, node[i].term, rs.ctx, rs.index) :
                            rs \in {q \in rss : q.from # i}}

\* MsgReadIndex at server i, with the messages `rest` in the network: the leader
\* takes it up, a follower forwards it. Otherwise it is dropped.
HandleReadIndex(i, m, rest) ==
    LET r  == node[i]
        r1 == [r EXCEPT !.readOnly = RecvAck(AddRequest(@, r.committed, m), i, m.ctx)]
    IN  \/ /\ r.state = "Leader"
           /\ IF Cardinality(Server) = 1
                THEN /\ Respond(i, rest, {[ctx |-> m.ctx, index |-> r.committed, from |-> m.from]})
                     /\ UNCHANGED node
                ELSE /\ CommittedEntryInCurrentTerm(r)
                     /\ node' = [node EXCEPT ![i] = r1]
                     /\ net' = rest \cup Heartbeats(i, r1, m.ctx)
                     /\ UNCHANGED readStates
        \/ /\ r.state = "Follower" /\ r.lead # None
           /\ net' = rest \cup {Msg("MsgReadIndex", m.from, r.lead, 0, m.ctx, 0)}
           /\ UNCHANGED <<node, readStates>>

\* What some server regards as committed: what a reader may have seen.
CommittedSomewhere ==
    LET c == {node[i].committed : i \in Server} IN CHOOSE k \in c : \A l \in c : l <= k

\* The application asks for a read index.
Ask(i, ctx) ==
    /\ i \in MayAsk[ctx] /\ asked[ctx] = None
    /\ asked' = [asked EXCEPT ![ctx] = CommittedSomewhere]
    /\ HandleReadIndex(i, Msg("MsgReadIndex", i, i, 0, ctx, 0), net)
    /\ UNCHANGED scenario

\* A request leaves the network as it arrives: the branch of addRequest for a request that
\* is pending already (read_only.go:58-60) is not taken.
StepReadIndex(i, m) ==
    /\ m.type = "MsgReadIndex" /\ m.to = i
    /\ HandleReadIndex(i, m, net \ {m})
    /\ UNCHANGED <<asked, scenario>>

\* MsgBeat: the heartbeat repeats the last request.
Beat(i) ==
    /\ i = L /\ Lossy /\ node[i].state = "Leader"
    /\ net' = net \cup Heartbeats(i, node[i], LastPendingRequestCtx(node[i].readOnly))
    /\ UNCHANGED <<node, asked, readStates, scenario>>

StepHeartbeat(i, m) ==
    LET r == IF m.term > node[i].term \/ node[i].state # "Follower"
               THEN BecomeFollower(node[i], m.term, m.from) ELSE [node[i] EXCEPT !.lead = m.from]
    IN  /\ m.type = "MsgHeartbeat" /\ m.to = i /\ m.term >= node[i].term
        /\ node' = [node EXCEPT ![i] = [r EXCEPT !.committed = Max2(@, m.index)]]
        /\ net' = net \cup {Msg("MsgHeartbeatResp", i, m.from, m.term, m.ctx, 0)}
        /\ UNCHANGED <<asked, readStates, scenario>>

AckedByQuorum(ro, ctx) ==
    /\ ctx \in DOMAIN ro.pending
    /\ JointVoteResult(Conf, [p \in Server |-> IF p \in ro.pending[ctx].acks THEN "yes" ELSE "missing"])
        = "VoteWon"

\* MsgHeartbeatResp at the leader of its term, with a context. The answer may also
\* make the leader send entries, which Replicate does at any time.
StepHeartbeatResp(i, m) ==
    LET ro  == RecvAck(node[i].readOnly, m.from, m.ctx)
        rss == {[ctx |-> x, index |-> ro.pending[x].index, from |-> ro.pending[x].from] :
                  x \in Done(ro, m.ctx) \cap DOMAIN ro.pending}
    IN  /\ m.type = "MsgHeartbeatResp" /\ m.to = i /\ m.ctx # None
        /\ node[i].state = "Leader" /\ m.term = node[i].term
        /\ IF AckedByQuorum(ro, m.ctx)
             THEN /\ node' = [node EXCEPT ![i].readOnly = Advance(ro, m.ctx)]
                  /\ Respond(i, net, rss)
             ELSE /\ node' = [node EXCEPT ![i].readOnly = ro]
                  /\ UNCHANGED <<net, readStates>>
        /\ UNCHANGED <<asked, scenario>>

\* MsgReadIndexResp: only a follower takes it, and the answer of an old leader is
\* ignored for its term.
StepReadIndexResp(i, m) ==
    LET r == IF m.term > node[i].term THEN BecomeFollower(node[i], m.term, None) ELSE node[i]
    IN  /\ m.type = "MsgReadIndexResp" /\ m.to = i /\ m.term >= node[i].term
        /\ node' = [node EXCEPT ![i] = r]
        /\ readStates' = IF r.state # "Follower" THEN readStates
                         ELSE [readStates EXCEPT ![i] = @ \cup {[ctx |-> m.ctx, index |-> m.index]}]
        /\ UNCHANGED <<net, asked, scenario>>

\* The transport loses a message.
Lose(m) == Lossy /\ net' = net \ {m} /\ UNCHANGED <<node, asked, readStates, scenario>>

Next ==
    \/ \E i \in Server : Campaign(i) \/ Propose(i) \/ Beat(i)
    \/ \E i, j \in Server : Vote(i, j)
    \/ \E i, j \in Server, answered \in BOOLEAN : Replicate(i, j, answered)
    \/ \E i \in Server, ctx \in Request : Ask(i, ctx)
    \/ \E i \in Up, m \in net :
          \/ StepReadIndex(i, m) \/ StepHeartbeat(i, m) \/ StepHeartbeatResp(i, m)
          \/ StepReadIndexResp(i, m)
    \/ \E m \in net : Lose(m)

Spec == Init /\ [][Next]_vars

Heard(ctx) == \E m \in net : m.from = L /\ m.ctx = ctx /\ StepHeartbeat(F, m)
Answered(ctx) == \E m \in net : m.from = F /\ m.ctx = ctx /\ StepHeartbeatResp(L, m)

\* ENABLED <<Heard(ctx)>>_vars: a heartbeat is news, or its answer is not on its way.
News(ctx) == \E m \in net :
    /\ m.type = "MsgHeartbeat" /\ m.from = L /\ m.to = F /\ m.ctx = ctx /\ m.term >= node[F].term
    /\ \/ m.term > node[F].term \/ node[F].state # "Follower" \/ node[F].lead # L
       \/ m.index > node[F].committed
       \/ Msg("MsgHeartbeatResp", F, L, m.term, ctx, 0) \notin net

\* ENABLED <<Answered(ctx)>>_vars: an acknowledgement that counts
Counts(ctx) == \E m \in net :
    /\ m.type = "MsgHeartbeatResp" /\ m.from = F /\ m.to = L /\ m.ctx = ctx
    /\ node[L].state = "Leader" /\ m.term = node[L].term
    /\ ctx \in DOMAIN node[L].readOnly.pending /\ F \notin node[L].readOnly.pending[ctx].acks

\* L beats, and of the heartbeats and answers that it exchanges with F again and again, some
\* get through (raft.go:668-671): WF_vars(Beat(L)), and SF_vars of Heard and Answered with
\* what is ENABLED written out.
FairSpec ==
    /\ Spec
    /\ WF_vars(Beat(L))
    /\ \A ctx \in Request :
          /\ <>[]~News(ctx) \/ []<><<Heard(ctx)>>_vars
          /\ <>[]~Counts(ctx) \/ []<><<Answered(ctx)>>_vars

-----------------------------------------------------------------------------
(* Properties *)

\* Fields keep their types, and queue and map of a readOnly name the same requests,
\* so that advance never panics (read_only.go:91-95).
TypeOK ==
    /\ \A i \in Server :
          LET r == node[i]
          IN  /\ r.term \in 0..MaxTerm /\ r.committed <= LastIndex(r)
              /\ r.state \in {"Follower", "Candidate", "Leader"}
              /\ {r.readOnly.queue[k] : k \in 1..Len(r.readOnly.queue)} = DOMAIN r.readOnly.pending
              /\ ~r.readOnly.panicked
    /\ asked \in [Request -> Nat \cup {None}]

\* A read index covers everything that any server had committed when the read was
\* asked for, even if the leader that answers has been replaced, has only just been
\* elected, or hears acks late, twice or from an earlier request (raft.go:1066-1096), and
\* answering never panics (TypeOK).
ReadsCurrent ==
    TypeOK /\ \A i \in Server : \A rs \in readStates[i] : rs.index >= asked[rs.ctx]

\* A request is not stuck in the queue of a leader that stays in touch with a quorum,
\* although heartbeats and answers are lost: ticks repeat the last request, which stands
\* for all before it (raft.go:519-526).
ReadsAnswered == \A ctx \in Request :
    (ctx \in DOMAIN node[L].readOnly.pending /\ Lossy)
        ~> ctx \notin DOMAIN node[L].readOnly.pending
=============================================================================

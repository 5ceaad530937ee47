--------------------------- MODULE ReadIndexProofs ---------------------------
(***************************************************************************)
(* Linearizable reads, for every number of servers, terms and requests: a  *)
(* read index covers what was committed when the read was asked for.       *)
(*                                                                         *)
(* The idea: what is committed is backed by a quorum, and by every log     *)
(* with an entry of a later term.  So a leader that has committed an entry *)
(* of its own term knows of everything that was committed in earlier       *)
(* terms; and if anything was committed in a later term, a quorum is past  *)
(* the term of this leader, and never acknowledges its heartbeats.         *)
(***************************************************************************)
EXTENDS ReadIndex, QuorumProofs, SequenceTheorems

-----------------------------------------------------------------------------
(* The inductive invariant.  N stands for the states of the servers.       *)

Quorum(Q) == Q \in SUBSET Server /\ HasQuorum(Server, Q)

States == {"Follower", "Candidate", "Leader"}

Status == [index : Nat, from : Server, acks : SUBSET Server]

ReadOnly == [queue : Seq(Request), pending : UNION {[S -> Status] : S \in SUBSET Request},
             panicked : BOOLEAN]

NodeRec == [term : Nat, vote : Server \cup {None}, state : States, lead : Server \cup {None},
            log : Seq(Nat), committed : Nat, votes : SUBSET Server, match : [Server -> Nat],
            readOnly : ReadOnly]

Leads(N, i) == N[i].state = "Leader"
Stands(N, i) == N[i].state = "Candidate"
Last(r) == Len(r.log)

\* i was elected in term t: nobody else is, or ever will be.
Led(N, t, i) ==
    /\ i \in Server /\ t \in Nat /\ N[i].term >= t
    /\ N[i].term = t => N[i].state # "Candidate"
    /\ \A l \in Server : Leads(N, l) /\ N[l].term = t => l = i
    /\ \E Q \in SUBSET Server :
          /\ Quorum(Q)
          /\ \A q \in Q : N[q].term > t \/ (N[q].term = t /\ N[q].vote = i)
          /\ \A c \in Server : Stands(N, c) /\ N[c].term = t => N[c].votes \cap Q = {}

\* Terms in a log do not decrease, and each of them had a leader.
LogOK(N, s) ==
    /\ \A k \in 1..Last(N[s]) :
          /\ N[s].log[k] >= 1 /\ N[s].log[k] <= N[s].term
          /\ \E i \in Server : Led(N, N[s].log[k], i)
    /\ \A k1, k2 \in 1..Last(N[s]) : k1 <= k2 => N[s].log[k1] <= N[s].log[k2]
    /\ N[s].committed <= Last(N[s])

\* Logs with entries of one term agree up to the first of the two.
Agree(N, a, b) ==
    \A x \in 1..Last(N[a]), y \in 1..Last(N[b]) :
        y <= x /\ N[a].log[x] = N[b].log[y] => \A z \in 1..y : N[a].log[z] = N[b].log[z]

CandidateOK(N, c) ==
    /\ N[c].vote = c /\ c \in N[c].votes /\ N[c].term >= 1
    /\ \A v \in N[c].votes : N[v].term > N[c].term \/ (N[v].term = N[c].term /\ N[v].vote = c)
    /\ \A d \in Server \ {c} : Stands(N, d) /\ N[d].term = N[c].term => N[c].votes \cap N[d].votes = {}

\* A leader has all entries of its term.
LeaderOK(N, i) ==
    /\ N[i].term >= 1 /\ Led(N, N[i].term, i)
    /\ Last(N[i]) >= 1 /\ N[i].log[Last(N[i])] = N[i].term
    /\ \A j \in Server : \A k \in 1..Last(N[j]) : N[j].log[k] = N[i].term => k <= Last(N[i])

MatchOK(N, i) ==
    \A j \in Server :
        /\ N[i].match[j] <= Last(N[i])
        /\ N[i].match[j] > 0 => N[j].term >= N[i].term
        /\ N[j].term = N[i].term => N[i].match[j] <= Last(N[j])

Backs(N, j, k, t) == k \in 1..Last(N[j]) /\ N[j].log[k] = t

\* A quorum is past leader i's term and will not acknowledge k any more.
Dead(N, i, k) ==
    \E Q \in SUBSET Server : Quorum(Q) /\ \A q \in Q : N[q].term > N[i].term /\ N[i].match[q] < k

\* An entry of its term that leader i may still commit is given up by nobody.
KeptBy(N, i, k, j) ==
    /\ N[i].match[j] >= k => Backs(N, j, k, N[i].term)
    /\ (Last(N[j]) > 0 /\ N[j].log[Last(N[j])] > N[i].term) => Backs(N, j, k, N[i].term)
    /\ (Stands(N, j) /\ N[j].term > N[i].term /\ \E v \in N[j].votes : N[i].match[v] >= k)
          => Backs(N, j, k, N[i].term)

Kept(N, i) ==
    \A k \in 1..Last(N[i]) : N[i].log[k] = N[i].term =>
        Dead(N, i, k) \/ \A j \in Server : KeptBy(N, i, k, j)

\* The entry of term t at index k is committed for good: Q has it, and who is elected has it too.
Safe(N, k, t, Q) ==
    /\ Quorum(Q)
    /\ \A q \in Q : Backs(N, q, k, t)
    /\ \A j \in Server :
          /\ (Last(N[j]) > 0 /\ N[j].log[Last(N[j])] > t) => Backs(N, j, k, t)
          /\ (Stands(N, j) /\ N[j].term > t /\ N[j].votes \cap Q # {}) => Backs(N, j, k, t)
          /\ Leads(N, j) /\ N[j].term = t => k <= N[j].committed

\* Everything up to n is committed, in term T or before.
Cov(N, n, T) ==
    n = 0 \/ \E k, t \in Nat, Q \in SUBSET Server : k >= n /\ t <= T /\ Safe(N, k, t, Q)

\* Elections, logs and commitment at server s.
ServerOK(N, s) ==
    /\ LogOK(N, s) /\ (\A b \in Server : Agree(N, s, b)) /\ Cov(N, N[s].committed, N[s].term)
    /\ Stands(N, s) => CandidateOK(N, s)
    /\ Leads(N, s) => LeaderOK(N, s) /\ MatchOK(N, s) /\ Kept(N, s)

\* A heartbeat m is of the leader of its term, and its index is committed and in the log of the receiver.
BeatOK(N, m) ==
    /\ Led(N, m.term, m.from) /\ m.to \in Server /\ m.index \in Nat /\ Cov(N, m.index, m.term)
    /\ m.index > 0 => N[m.to].term >= m.term
    /\ N[m.to].term <= m.term => m.index <= Last(N[m.to])
    /\ Leads(N, m.from) /\ N[m.from].term = m.term => m.index <= N[m.from].committed

\* n was committed at some time.
AskOK(N, n) == n \in Nat /\ (\E T \in Nat : Cov(N, n, T)) /\ \E s \in Server : n <= N[s].committed

AllOK(N) == N \in [Server -> NodeRec] /\ \A s \in Server : ServerOK(N, s)

Core(N, B, A) ==
    /\ AllOK(N)
    /\ \A m \in B : BeatOK(N, m)
    /\ \A n \in A : AskOK(N, n)

Beats(M) == {m \in M : m.type = "MsgHeartbeat"}
Asked(a) == {a[x] : x \in {y \in Request : a[y] # None}}

-----------------------------------------------------------------------------
(* The queues of reads *)

Messages == [type : {"MsgReadIndex", "MsgHeartbeat", "MsgHeartbeatResp", "MsgReadIndexResp"},
             from : Server, to : Server, term : Nat, ctx : Request \cup {None}, index : Nat]

\* q has not acknowledged request x to leader i in term t.
Silent(M, i, t, ro, x, q) ==
    /\ q \notin ro.pending[x].acks
    /\ \A m \in M : ~(m.type = "MsgHeartbeatResp" /\ m.from = q /\ m.to = i /\ m.term = t /\ m.ctx = x)

\* A quorum is past the term, and silent on the requests from position p on.
Past(N, M, i, p) ==
    \E Q \in SUBSET Server :
        /\ Quorum(Q)
        /\ \A q \in Q :
              /\ N[q].term > N[i].term
              /\ \A k \in p..Len(N[i].readOnly.queue) :
                    Silent(M, i, N[i].term, N[i].readOnly, N[i].readOnly.queue[k], q)

QueueOK(N, M, a, i) ==
    LET ro == N[i].readOnly
    IN  /\ {ro.queue[k] : k \in 1..Len(ro.queue)} = DOMAIN ro.pending
        /\ \A k1, k2 \in 1..Len(ro.queue) : ro.queue[k1] = ro.queue[k2] => k1 = k2
        /\ ~ro.panicked /\ (ro.queue # <<>> => Leads(N, i))
        /\ \A p \in 1..Len(ro.queue) :
              a[ro.queue[p]] \in Nat /\ (a[ro.queue[p]] <= ro.pending[ro.queue[p]].index \/ Past(N, M, i, p))

\* x was taken up by a leader.
Taken(N, M, x) ==
    \/ \E i \in Server : x \in DOMAIN N[i].readOnly.pending
    \/ \E m \in M : m.ctx = x /\ m.type # "MsgReadIndex"

RequestOK(N, M, a, x) ==
    /\ a[x] = None => ~Taken(N, M, x) /\ \A m \in M : m.ctx # x
    /\ \A m \in M : m.type = "MsgReadIndex" /\ m.ctx = x =>
          ~Taken(N, M, x) /\ \A m2 \in M : m2.type = "MsgReadIndex" /\ m2.ctx = x => m2 = m

ReadsOK(N, M, a, rs) ==
    /\ a \in [Request -> Nat \cup {None}]
    /\ M \subseteq Messages
    /\ rs \in [Server -> SUBSET [ctx : Request, index : Nat]]
    /\ \A i \in Server : QueueOK(N, M, a, i)
    /\ \A x \in Request : RequestOK(N, M, a, x)
    /\ \A m \in M : m.type = "MsgReadIndexResp" =>
          m.ctx \in Request /\ a[m.ctx] \in Nat /\ m.index >= a[m.ctx]
    /\ \A m \in M : m.type = "MsgReadIndex" => m.ctx \in Request
    /\ \A i \in Server : \A s \in rs[i] : a[s.ctx] \in Nat /\ s.index >= a[s.ctx]

ReadInv == /\ scenario \in Scenarios
           /\ (\A i \in Server : node[i].term <= MaxTerm) /\ \A m \in net : m.term <= MaxTerm
           /\ Core(node, Beats(net), Asked(asked)) /\ ReadsOK(node, net, asked, readStates)

-----------------------------------------------------------------------------
(* Facts about servers and quorums *)

LEMMA ServersAre == IsFiniteSet(Server) /\ Server # {}
  BY ReadIndexAssumption

LEMMA QuorumsMeet ==
    ASSUME NEW Q1, NEW Q2, Quorum(Q1), Quorum(Q2)
    PROVE  \E q \in Server : q \in Q1 /\ q \in Q2
  BY ServersAre, QuorumsIntersect DEF Quorum

LEMMA NodeFields ==
    ASSUME NEW N \in [Server -> NodeRec], NEW s \in Server
    PROVE  /\ N[s].term \in Nat /\ N[s].vote \in Server \cup {None} /\ N[s].state \in States
           /\ N[s].log \in Seq(Nat) /\ Last(N[s]) \in Nat /\ N[s].committed \in Nat
           /\ N[s].votes \in SUBSET Server /\ N[s].match \in [Server -> Nat]
           /\ \A p \in Server : N[s].match[p] \in Nat
           /\ \A k \in 1..Last(N[s]) : N[s].log[k] \in Nat
<1>1. N[s] \in NodeRec
  OBVIOUS
<1>2. /\ N[s].term \in Nat /\ N[s].vote \in Server \cup {None} /\ N[s].state \in States
      /\ N[s].log \in Seq(Nat) /\ N[s].committed \in Nat
      /\ N[s].votes \in SUBSET Server /\ N[s].match \in [Server -> Nat]
  BY <1>1 DEF NodeRec
<1> QED BY <1>2 DEF Last

-----------------------------------------------------------------------------
(* A step of one server, seen from elections and logs: what the operators  *)
(* of raft.go that are called on the way may do to a server j, each of     *)
(* them by itself.                                                         *)

\* A candidate has its own vote, and votes that were given to it in this term.
VotesMove(N, N2, j) ==
    Stands(N2, j) =>
        /\ N2[j].vote = j
        /\ \/ N2[j].term > N[j].term /\ N2[j].votes = {j}
           \/ /\ Stands(N, j) /\ N2[j].term = N[j].term /\ N[j].votes \subseteq N2[j].votes
              /\ \A v \in N2[j].votes \ N[j].votes :
                    /\ N[v].term = N[j].term /\ N[v].vote = j
                    /\ \/ LastTerm(N[j]) > LastTerm(N[v])
                       \/ LastTerm(N[j]) = LastTerm(N[v]) /\ Last(N[j]) >= Last(N[v])

\* A log stays as it is, is extended by its leader, who may have just won, or becomes the leader's.
Stays(N, N2, j) ==
    N2[j].log = N[j].log /\ (Leads(N2, j) => Leads(N, j) /\ N2[j].term = N[j].term)

Extends(N, N2, j) ==
    /\ N2[j].log = Append(N[j].log, N[j].term) /\ Leads(N2, j) /\ N2[j].term = N[j].term
    /\ Leads(N, j) \/ (Stands(N, j) /\ Quorum(N[j].votes))

Follows(N, N2, j) ==
    /\ N2[j].term = N[j].term /\ ~Leads(N2, j) /\ ~Stands(N2, j)
    /\ \E l \in Server \ {j} : Leads(N, l) /\ N[l].term = N[j].term /\ N2[j].log = N[l].log

\* A leader counts its own log, and acknowledged copies of it.
MatchMove(N, N2, j) ==
    Leads(N2, j) =>
        \A x \in Server :
            \/ Leads(N, j) /\ N2[j].match[x] = N[j].match[x]
            \/ ~Leads(N, j) /\ N2[j].match[x] = 0
            \/ N2[j].match[x] = Last(N2[j]) /\ N2[x].log = N2[j].log /\ N2[x].term = N2[j].term

Moves(N, N2, j) ==
    /\ j \in Server /\ N2 \in [Server -> NodeRec]
    /\ \A s \in Server \ {j} : N2[s] = N[s]
    /\ N2[j].term >= N[j].term
    /\ N2[j].term = N[j].term /\ N[j].vote # None => N2[j].vote = N[j].vote
    /\ N2[j].committed >= N[j].committed
    /\ VotesMove(N, N2, j)
    /\ Stays(N, N2, j) \/ Extends(N, N2, j) \/ Follows(N, N2, j)
    /\ MatchMove(N, N2, j)

\* Who was elected stays the only one.
LEMMA LedKept ==
    ASSUME NEW N \in [Server -> NodeRec], NEW N2, NEW j, Moves(N, N2, j), NEW t, NEW i, Led(N, t, i)
    PROVE  Led(N2, t, i)
<1>1. /\ j \in Server /\ N2 \in [Server -> NodeRec] /\ N2[j].term >= N[j].term
      /\ \A s \in Server \ {j} : N2[s] = N[s]
      /\ N2[j].term = N[j].term /\ N[j].vote # None => N2[j].vote = N[j].vote
      /\ VotesMove(N, N2, j) /\ (Stays(N, N2, j) \/ Extends(N, N2, j) \/ Follows(N, N2, j))
  BY DEF Moves
<1>2. /\ i \in Server /\ t \in Nat /\ N[i].term >= t /\ (N[i].term = t => N[i].state # "Candidate")
      /\ \A l \in Server : Leads(N, l) /\ N[l].term = t => l = i
  BY DEF Led
<1>3. PICK Q \in SUBSET Server :
         /\ Quorum(Q) /\ \A q \in Q : N[q].term > t \/ (N[q].term = t /\ N[q].vote = i)
         /\ \A c \in Server : Stands(N, c) /\ N[c].term = t => N[c].votes \cap Q = {}
  BY DEF Led
<1>4. N[j].term \in Nat /\ N2[j].term \in Nat /\ N[i].term \in Nat /\ i # None
  BY <1>1, <1>2, NodeFields, ReadIndexAssumption
<1>5. N2[i].term >= t /\ (N2[i].term = t => N2[i].state # "Candidate")
  <2>1. CASE i # j
    BY <1>1, <1>2, <2>1
  <2>2. CASE i = j
    <3>1. N2[j].term >= t
      BY <1>1, <1>2, <1>4, <2>2
    <3>2. ASSUME N2[j].term = t PROVE ~Stands(N2, j)
      <4>1. N[j].term = t /\ ~Stands(N, j)
        BY <1>1, <1>2, <1>4, <2>2, <3>2 DEF Stands
      <4> QED BY <1>1, <1>4, <3>2, <4>1 DEF VotesMove
    <3> QED BY <2>2, <3>1, <3>2 DEF Stands
  <2> QED BY <2>1, <2>2
<1>6. ASSUME NEW l \in Server, Leads(N2, l), N2[l].term = t PROVE l = i
  <2>1. CASE l # j
    BY <1>1, <1>2, <1>6, <2>1 DEF Leads
  <2>2. CASE l = j
    <3>1. N[j].term = t /\ (Leads(N, j) \/ (Stands(N, j) /\ Quorum(N[j].votes)))
      BY <1>1, <1>6, <2>2 DEF Stays, Extends, Follows
    <3>2. CASE Leads(N, j)
      BY <1>1, <1>2, <2>2, <3>1, <3>2
    <3>3. CASE Stands(N, j) /\ Quorum(N[j].votes)
      BY <1>1, <1>3, <3>1, <3>3, QuorumsMeet
    <3> QED BY <3>1, <3>2, <3>3
  <2> QED BY <2>1, <2>2
<1>7. \A q \in Q : N2[q].term > t \/ (N2[q].term = t /\ N2[q].vote = i)
  <2> SUFFICES ASSUME NEW q \in Q PROVE N2[q].term > t \/ (N2[q].term = t /\ N2[q].vote = i)
    OBVIOUS
  <2>1. CASE q # j
    BY <1>1, <1>3, <2>1
  <2>2. CASE q = j
    BY <1>1, <1>2, <1>3, <1>4, <2>2
  <2> QED BY <2>1, <2>2
<1>8. ASSUME NEW c \in Server, Stands(N2, c), N2[c].term = t PROVE N2[c].votes \cap Q = {}
  <2>1. CASE c # j
    BY <1>1, <1>3, <1>8, <2>1 DEF Stands
  <2>2. CASE c = j
    <3>1. CASE N2[j].term > N[j].term /\ N2[j].votes = {j}
      <4>1. N[j].term < t
        BY <1>4, <1>8, <2>2, <3>1
      <4>2. j \notin Q
        BY <1>2, <1>3, <1>4, <4>1
      <4> QED BY <2>2, <3>1, <4>2
    <3>2. CASE /\ Stands(N, j) /\ N2[j].term = N[j].term
               /\ \A v \in N2[j].votes \ N[j].votes : N[v].term = N[j].term /\ N[v].vote = j
      <4>1. N[j].term = t /\ N[j].votes \cap Q = {} /\ i # j
        BY <1>1, <1>2, <1>3, <1>8, <2>2, <3>2 DEF Stands
      <4>2. ASSUME NEW v \in Q, v \in N2[j].votes PROVE FALSE
        <5>1. v \in N2[j].votes \ N[j].votes
          BY <4>1, <4>2
        <5>2. N[v].term = t /\ N[v].vote = j /\ N[v].term \in Nat
          BY <3>2, <4>1, <4>2, <5>1, NodeFields
        <5> QED BY <1>2, <1>3, <4>1, <4>2, <5>2
      <4> QED BY <2>2, <4>2
    <3> QED BY <1>1, <1>8, <2>2, <3>1, <3>2 DEF VotesMove
  <2> QED BY <2>1, <2>2
<1> QED BY <1>2, <1>3, <1>5, <1>6, <1>7, <1>8 DEF Led

\* Nobody was elected before in the term in which a candidate wins.
LEMMA FirstElected ==
    ASSUME NEW N \in [Server -> NodeRec], NEW j \in Server, Stands(N, j), Quorum(N[j].votes), NEW i
    PROVE  ~Led(N, N[j].term, i)
<1> SUFFICES ASSUME Led(N, N[j].term, i) PROVE FALSE
  OBVIOUS
<1>1. PICK Q \in SUBSET Server :
         Quorum(Q) /\ \A c \in Server : Stands(N, c) /\ N[c].term = N[j].term => N[c].votes \cap Q = {}
  BY DEF Led
<1> QED BY <1>1, QuorumsMeet

\* A log that is up to date has an entry of a later term, or what the other one has of term t.
LEMMA LaterBacks ==
    ASSUME NEW N \in [Server -> NodeRec], NEW c \in Server, NEW v \in Server,
           LogOK(N, c), LogOK(N, v), Agree(N, c, v), NEW k, NEW t, Backs(N, v, k, t),
           \/ LastTerm(N[c]) > LastTerm(N[v])
           \/ LastTerm(N[c]) = LastTerm(N[v]) /\ Last(N[c]) >= Last(N[v])
    PROVE  (Last(N[c]) > 0 /\ N[c].log[Last(N[c])] > t) \/ Backs(N, c, k, t)
<1> DEFINE lc == Last(N[c])
           lv == Last(N[v])
<1>1. lc \in Nat /\ lv \in Nat /\ k \in 1..lv /\ N[v].log[k] = t /\ t >= 1 /\ t \in Nat
  BY NodeFields DEF Backs, LogOK
<1>2. lv \in 1..lv /\ N[v].log[lv] >= t /\ N[v].log[lv] \in Nat
  <2>1. lv \in 1..lv /\ k <= lv
    BY <1>1
  <2>2. N[v].log[k] <= N[v].log[lv]
    BY <1>1, <2>1 DEF LogOK
  <2>3. N[v].log[lv] \in Nat
    BY <2>1, NodeFields
  <2> QED BY <1>1, <2>1, <2>2, <2>3
<1>3. /\ LastTerm(N[v]) = N[v].log[lv] /\ (lc = 0 => LastTerm(N[c]) = 0)
      /\ lc # 0 => LastTerm(N[c]) = N[c].log[lc] /\ lc \in 1..lc /\ N[c].log[lc] \in Nat
  BY <1>1, <1>2, NodeFields DEF LastTerm, TermOf, LastIndex, Last
<1>4. lc # 0 /\ N[c].log[lc] >= t
  BY <1>1, <1>2, <1>3
<1>5. CASE N[c].log[lc] > t
  BY <1>1, <1>4, <1>5
<1>6. CASE N[c].log[lc] = t
  <2>1. N[v].log[lv] = t /\ lc >= lv
    BY <1>2, <1>3, <1>4, <1>6
  <2>2. k <= lc /\ lc \in 1..lc /\ k \in 1..lc
    BY <1>1, <1>4, <2>1
  <2>3. \A z \in 1..k : N[c].log[z] = N[v].log[z]
    BY <1>1, <1>6, <2>2 DEF Agree
  <2>4. k \in 1..k
    BY <1>1
  <2> QED BY <1>1, <2>2, <2>3, <2>4 DEF Backs
<1> QED BY <1>1, <1>3, <1>4, <1>5, <1>6

\* The log of a leader ends in its term.
LEMMA LeaderEnd ==
    ASSUME NEW N \in [Server -> NodeRec], NEW l \in Server, LeaderOK(N, l)
    PROVE  Last(N[l]) > 0 /\ Last(N[l]) \in 1..Last(N[l]) /\ N[l].log[Last(N[l])] = N[l].term
  BY NodeFields DEF LeaderOK

\* A leader has what anyone has of its term.
LEMMA LeaderBacks ==
    ASSUME NEW N \in [Server -> NodeRec], NEW l \in Server, LeaderOK(N, l), NEW s \in Server, Agree(N, l, s),
           NEW k, Backs(N, s, k, N[l].term)
    PROVE  Backs(N, l, k, N[l].term)
<1>1. k \in 1..Last(N[s]) /\ N[s].log[k] = N[l].term /\ k <= Last(N[l])
  BY DEF Backs, LeaderOK
<1>2. Last(N[l]) \in 1..Last(N[l]) /\ N[l].log[Last(N[l])] = N[l].term /\ Last(N[s]) \in Nat /\ Last(N[l]) \in Nat
  BY LeaderEnd, NodeFields
<1>3. \A z \in 1..k : N[l].log[z] = N[s].log[z]
  BY <1>1, <1>2 DEF Agree
<1> QED BY <1>1, <1>2, <1>3 DEF Backs

\* An extended log backs what it has backed.
LEMMA AppendKeeps ==
    ASSUME NEW log \in Seq(Nat), NEW t \in Nat
    PROVE  /\ Append(log, t) \in Seq(Nat) /\ Len(Append(log, t)) = Len(log) + 1 /\ Len(log) \in Nat
           /\ Append(log, t)[Len(log) + 1] = t
           /\ \A k \in 1..Len(log) : Append(log, t)[k] = log[k]
  OBVIOUS

\* What the extended log is like.
LEMMA ExtendsIs ==
    ASSUME NEW N \in [Server -> NodeRec], NEW j \in Server, NEW N2, Extends(N, N2, j)
    PROVE  /\ Last(N2[j]) = Last(N[j]) + 1 /\ Last(N[j]) \in Nat
           /\ N2[j].log[Last(N[j]) + 1] = N[j].term
           /\ \A k \in 1..Last(N[j]) : N2[j].log[k] = N[j].log[k]
           /\ \A k, t : Backs(N, j, k, t) => Backs(N2, j, k, t)
<1>1. N[j].log \in Seq(Nat) /\ N[j].term \in Nat
  BY NodeFields
<1>2. N2[j].log = Append(N[j].log, N[j].term)
  BY DEF Extends
<1>3. /\ Last(N2[j]) = Last(N[j]) + 1 /\ Last(N[j]) \in Nat
      /\ N2[j].log[Last(N[j]) + 1] = N[j].term
      /\ \A k \in 1..Last(N[j]) : N2[j].log[k] = N[j].log[k]
  BY <1>1, <1>2, AppendKeeps DEF Last
<1>4. \A k, t : Backs(N, j, k, t) => Backs(N2, j, k, t)
  BY <1>3 DEF Backs
<1> QED BY <1>3, <1>4

\* A candidate's log stays.
LEMMA StandsStays ==
    ASSUME NEW N, NEW N2, NEW j, Moves(N, N2, j), Stands(N2, j)
    PROVE  Stays(N, N2, j) /\ Last(N2[j]) = Last(N[j]) /\ \A k, t : Backs(N, j, k, t) <=> Backs(N2, j, k, t)
<1>1. Stays(N, N2, j)
  BY DEF Moves, Extends, Follows, Stands, Leads
<1> QED BY <1>1 DEF Stays, Last, Backs

\* What is committed for good stays so (raft.go:1471-1477).
LEMMA SafeKept ==
    ASSUME NEW N \in [Server -> NodeRec], \A s \in Server : ServerOK(N, s), NEW N2, NEW j, Moves(N, N2, j),
           NEW k \in Nat, NEW t \in Nat, NEW Q, Safe(N, k, t, Q)
    PROVE  Safe(N2, k, t, Q)
<1>1. /\ j \in Server /\ N2 \in [Server -> NodeRec] /\ N2[j].term >= N[j].term
      /\ \A s \in Server \ {j} : N2[s] = N[s]
      /\ N2[j].committed >= N[j].committed
      /\ VotesMove(N, N2, j) /\ (Stays(N, N2, j) \/ Extends(N, N2, j) \/ Follows(N, N2, j))
  BY DEF Moves
<1>2. /\ Quorum(Q) /\ Q \in SUBSET Server /\ \A q \in Q : Backs(N, q, k, t)
      /\ \A s \in Server :
          /\ (Last(N[s]) > 0 /\ N[s].log[Last(N[s])] > t) => Backs(N, s, k, t)
          /\ (Stands(N, s) /\ N[s].term > t /\ N[s].votes \cap Q # {}) => Backs(N, s, k, t)
          /\ Leads(N, s) /\ N[s].term = t => k <= N[s].committed
  BY DEF Safe, Quorum
<1>3. N[j].term \in Nat /\ N2[j].term \in Nat /\ N[j].committed \in Nat /\ N2[j].committed \in Nat
  BY <1>1, NodeFields
<1>4. ASSUME NEW l \in Server \ {j}, Leads(N, l), N[l].term = N[j].term, N2[j].log = N[l].log
      PROVE  /\ Backs(N, j, k, t) => Backs(N2, j, k, t)
             /\ N[l].term > t => Backs(N2, j, k, t)
             /\ Last(N2[j]) > 0 /\ N2[j].log[Last(N2[j])] = N[l].term
  <2>1. LeaderOK(N, l) /\ Agree(N, l, j) /\ N[l].term \in Nat
    BY <1>1, <1>4, NodeFields DEF ServerOK
  <2>2. Last(N2[j]) = Last(N[l]) /\ (Backs(N2, j, k, t) <=> Backs(N, l, k, t))
    BY <1>4 DEF Last, Backs
  <2>3. N[l].term > t => Backs(N, l, k, t)
    BY <1>2, <2>1, LeaderEnd
  <2>4. Backs(N, j, k, t) => N[l].term >= t
    BY <1>1, <1>4 DEF Backs, ServerOK, LogOK
  <2>5. Backs(N, j, k, t) /\ N[l].term = t => Backs(N, l, k, t)
    BY <1>1, <2>1, LeaderBacks
  <2>6. Backs(N, j, k, t) => Backs(N, l, k, t)
    BY <2>1, <2>3, <2>4, <2>5
  <2> QED BY <1>4, <2>1, <2>2, <2>3, <2>6, LeaderEnd
<1>5. Backs(N, j, k, t) => Backs(N2, j, k, t)
  <2>1. CASE Stays(N, N2, j)
    BY <2>1 DEF Stays, Backs, Last
  <2>2. CASE Extends(N, N2, j)
    BY <1>1, <2>2, ExtendsIs
  <2>3. CASE Follows(N, N2, j)
    BY <1>4, <2>3 DEF Follows
  <2> QED BY <1>1, <2>1, <2>2, <2>3
<1>6. \A q \in Q : Backs(N2, q, k, t)
  <2> SUFFICES ASSUME NEW q \in Q PROVE Backs(N2, q, k, t)
    OBVIOUS
  <2>1. CASE q = j
    BY <1>2, <1>5, <2>1
  <2>2. CASE q # j
    BY <1>1, <1>2, <2>2 DEF Backs
  <2> QED BY <2>1, <2>2
<1>7. ASSUME NEW s \in Server, s # j
      PROVE  /\ (Last(N2[s]) > 0 /\ N2[s].log[Last(N2[s])] > t) => Backs(N2, s, k, t)
             /\ (Stands(N2, s) /\ N2[s].term > t /\ N2[s].votes \cap Q # {}) => Backs(N2, s, k, t)
             /\ Leads(N2, s) /\ N2[s].term = t => k <= N2[s].committed
  BY <1>1, <1>2, <1>7 DEF Backs, Leads, Stands
<1>8. (Last(N2[j]) > 0 /\ N2[j].log[Last(N2[j])] > t) => Backs(N2, j, k, t)
  <2> SUFFICES ASSUME Last(N2[j]) > 0, N2[j].log[Last(N2[j])] > t PROVE Backs(N2, j, k, t)
    OBVIOUS
  <2>1. CASE Stays(N, N2, j)
    BY <1>1, <1>2, <1>5, <2>1 DEF Stays, Last
  <2>2. CASE Extends(N, N2, j)
    <3>a. Last(N2[j]) = Last(N[j]) + 1 /\ N2[j].log[Last(N[j]) + 1] = N[j].term
      BY <1>1, <2>2, ExtendsIs
    <3>1. N[j].term > t /\ (Leads(N, j) \/ (Stands(N, j) /\ Quorum(N[j].votes)))
      BY <2>2, <3>a DEF Extends
    <3>2. CASE Leads(N, j)
      <4>1. LeaderOK(N, j)
        BY <1>1, <3>2 DEF ServerOK
      <4>2. Backs(N, j, k, t)
        BY <1>1, <1>2, <3>1, <4>1, LeaderEnd
      <4> QED BY <1>5, <4>2
    <3>3. CASE Stands(N, j) /\ Quorum(N[j].votes)
      <4>1. N[j].votes \cap Q # {}
        BY <1>2, <3>3, QuorumsMeet
      <4> QED BY <1>1, <1>2, <1>5, <3>1, <3>3, <4>1
    <3> QED BY <3>1, <3>2, <3>3
  <2>3. CASE Follows(N, N2, j)
    BY <1>4, <2>3 DEF Follows
  <2> QED BY <1>1, <2>1, <2>2, <2>3
<1>9. (Stands(N2, j) /\ N2[j].term > t /\ N2[j].votes \cap Q # {}) => Backs(N2, j, k, t)
  <2> SUFFICES ASSUME Stands(N2, j), N2[j].term > t, NEW v \in Q, v \in N2[j].votes PROVE Backs(N2, j, k, t)
    OBVIOUS
  <2>1. CASE N2[j].term > N[j].term /\ N2[j].votes = {j}
    BY <1>6, <2>1
  <2>2. CASE /\ Stands(N, j) /\ N2[j].term = N[j].term
             /\ \A w \in N2[j].votes \ N[j].votes :
                    \/ LastTerm(N[j]) > LastTerm(N[w])
                    \/ LastTerm(N[j]) = LastTerm(N[w]) /\ Last(N[j]) >= Last(N[w])
    <3>1. CASE v \in N[j].votes
      BY <1>1, <1>2, <1>5, <2>2, <3>1
    <3>2. CASE v \notin N[j].votes
      <4>1. Backs(N, v, k, t) /\ v \in Server
        BY <1>2
      <4>2. LogOK(N, j) /\ LogOK(N, v) /\ Agree(N, j, v)
        BY <1>1, <4>1 DEF ServerOK
      <4>3. (Last(N[j]) > 0 /\ N[j].log[Last(N[j])] > t) \/ Backs(N, j, k, t)
        BY <1>1, <2>2, <3>2, <4>1, <4>2, LaterBacks
      <4> QED BY <1>1, <1>2, <1>5, <4>3
    <3> QED BY <3>1, <3>2
  <2> QED BY <1>1, <2>1, <2>2 DEF VotesMove
<1>10. Leads(N2, j) /\ N2[j].term = t => k <= N2[j].committed
  <2> SUFFICES ASSUME Leads(N2, j), N2[j].term = t PROVE k <= N2[j].committed
    OBVIOUS
  <2>1. N[j].term = t /\ (Leads(N, j) \/ (Stands(N, j) /\ Quorum(N[j].votes)))
    BY <1>1 DEF Stays, Extends, Follows
  <2>2. CASE Leads(N, j)
    BY <1>1, <1>2, <1>3, <2>1, <2>2
  <2>3. CASE Stands(N, j) /\ Quorum(N[j].votes)
    <3>1. PICK q \in Q : TRUE
      BY <1>2, QuorumsMeet
    <3>2. q \in Server /\ k \in 1..Last(N[q]) /\ N[q].log[k] = t
      BY <1>2, <3>1 DEF Backs
    <3>3. \E i \in Server : Led(N, t, i)
      BY <3>2 DEF ServerOK, LogOK
    <3> QED BY <1>1, <2>1, <2>3, <3>3, FirstElected
  <2> QED BY <2>1, <2>2, <2>3
<1> QED BY <1>2, <1>6, <1>7, <1>8, <1>9, <1>10 DEF Safe

LEMMA CovKept ==
    ASSUME NEW N \in [Server -> NodeRec], \A s \in Server : ServerOK(N, s), NEW N2, NEW j, Moves(N, N2, j),
           NEW n, NEW T \in Nat, Cov(N, n, T), NEW T2 \in Nat, T <= T2
    PROVE  Cov(N2, n, T2)
<1>1. CASE n = 0
  BY <1>1 DEF Cov
<1>2. CASE n # 0
  <2>1. PICK k \in Nat, t \in Nat, Q \in SUBSET Server : k >= n /\ t <= T /\ Safe(N, k, t, Q)
    BY <1>2 DEF Cov
  <2>2. Safe(N2, k, t, Q) /\ t <= T2
    BY <2>1, SafeKept
  <2> QED BY <2>1, <2>2 DEF Cov
<1> QED BY <1>1, <1>2

\* A leader has what was committed up to its term.
LEMMA LeaderCovers ==
    ASSUME NEW N \in [Server -> NodeRec], \A s \in Server : ServerOK(N, s), NEW l \in Server, Leads(N, l),
           NEW n \in Nat, NEW T \in Nat, Cov(N, n, T), T <= N[l].term
    PROVE  n <= Last(N[l])
<1>1. LeaderOK(N, l) /\ LogOK(N, l) /\ N[l].term \in Nat /\ Last(N[l]) \in Nat /\ N[l].committed \in Nat
  BY NodeFields DEF ServerOK
<1>2. CASE n # 0
  <2>1. PICK k \in Nat, t \in Nat, Q \in SUBSET Server : k >= n /\ t <= T /\ Safe(N, k, t, Q)
    BY <1>2 DEF Cov
  <2>2. CASE t < N[l].term
    <3>1. Backs(N, l, k, t)
      BY <1>1, <2>1, <2>2, LeaderEnd DEF Safe
    <3> QED BY <1>1, <2>1, <3>1 DEF Backs
  <2>3. CASE t = N[l].term
    <3>1. k <= N[l].committed /\ N[l].committed <= Last(N[l])
      BY <1>1, <2>1, <2>3 DEF Safe, LogOK
    <3> QED BY <1>1, <2>1, <3>1
  <2> QED BY <1>1, <2>1, <2>2, <2>3
<1> QED BY <1>1, <1>2

\* What a step of server j is, and what holds before it.
Step(N, N2, j) == AllOK(N) /\ Moves(N, N2, j)

LEMMA StepFacts ==
    ASSUME NEW N, NEW N2, NEW j, Step(N, N2, j)
    PROVE  /\ j \in Server /\ N \in [Server -> NodeRec] /\ N2 \in [Server -> NodeRec]
           /\ \A s \in Server : ServerOK(N, s)
           /\ \A s \in Server \ {j} : N2[s] = N[s]
           /\ N[j].term \in Nat /\ N2[j].term \in Nat /\ N2[j].term >= N[j].term
           /\ N[j].committed \in Nat /\ N2[j].committed \in Nat /\ N2[j].committed >= N[j].committed
           /\ N2[j].term = N[j].term /\ N[j].vote # None => N2[j].vote = N[j].vote
           /\ VotesMove(N, N2, j) /\ MatchMove(N, N2, j)
           /\ Stays(N, N2, j) \/ Extends(N, N2, j) \/ Follows(N, N2, j)
<1>1. /\ N \in [Server -> NodeRec] /\ \A s \in Server : ServerOK(N, s)
      /\ Moves(N, N2, j)
  BY DEF Step, AllOK
<1>2. /\ j \in Server /\ N2 \in [Server -> NodeRec] /\ N2[j].term >= N[j].term
      /\ \A s \in Server \ {j} : N2[s] = N[s]
      /\ N2[j].committed >= N[j].committed
      /\ N2[j].term = N[j].term /\ N[j].vote # None => N2[j].vote = N[j].vote
      /\ VotesMove(N, N2, j) /\ MatchMove(N, N2, j)
      /\ Stays(N, N2, j) \/ Extends(N, N2, j) \/ Follows(N, N2, j)
  BY <1>1 DEF Moves
<1> QED BY <1>1, <1>2, NodeFields

\* A server that extends its log is the only one to have entries of its term.
LEMMA OnlyLeader ==
    ASSUME NEW N, NEW N2, NEW j, Step(N, N2, j), Extends(N, N2, j),
           NEW s \in Server, NEW k \in 1..Last(N[s]), N[s].log[k] = N[j].term
    PROVE  Leads(N, j) /\ k <= Last(N[j])
<1>1. j \in Server /\ N \in [Server -> NodeRec] /\ ServerOK(N, s) /\ ServerOK(N, j)
  BY StepFacts
<1>2. CASE Leads(N, j)
  BY <1>1, <1>2 DEF ServerOK, LeaderOK
<1>3. CASE ~Leads(N, j)
  <2>1. Stands(N, j) /\ Quorum(N[j].votes)
    BY <1>3 DEF Extends
  <2>2. \E i \in Server : Led(N, N[j].term, i)
    BY <1>1 DEF ServerOK, LogOK
  <2> QED BY <1>1, <2>1, <2>2, FirstElected
<1> QED BY <1>2, <1>3

\* The leader that extends its log is elected, in a term of its own (raft.go:712-746).
LEMMA ExtendsLed ==
    ASSUME NEW N, NEW N2, NEW j, Step(N, N2, j), Extends(N, N2, j)
    PROVE  Led(N2, N[j].term, j) /\ N[j].term >= 1
<1>1. /\ j \in Server /\ N \in [Server -> NodeRec] /\ N2 \in [Server -> NodeRec] /\ ServerOK(N, j)
      /\ \A s \in Server \ {j} : N2[s] = N[s]
      /\ N[j].term \in Nat /\ N2[j].term = N[j].term
      /\ N[j].vote # None => N2[j].vote = N[j].vote
  BY StepFacts DEF Extends
<1>2. CASE Leads(N, j)
  <2>1. Led(N, N[j].term, j) /\ N[j].term >= 1
    BY <1>1, <1>2 DEF ServerOK, LeaderOK
  <2> QED BY <1>1, <2>1, LedKept DEF Step
<1>3. CASE ~Leads(N, j)
  <2>1. Stands(N, j) /\ Quorum(N[j].votes) /\ Leads(N2, j) /\ CandidateOK(N, j)
    BY <1>1, <1>3 DEF Extends, ServerOK
  <2> DEFINE Q == N[j].votes
  <2>2. /\ N[j].vote = j /\ N[j].term >= 1
        /\ \A v \in Q : N[v].term > N[j].term \/ (N[v].term = N[j].term /\ N[v].vote = j)
        /\ \A d \in Server \ {j} : Stands(N, d) /\ N[d].term = N[j].term => Q \cap N[d].votes = {}
    BY <2>1 DEF CandidateOK
  <2>3. \A l \in Server : Leads(N2, l) /\ N2[l].term = N[j].term => l = j
    <3> SUFFICES ASSUME NEW l \in Server, l # j, Leads(N2, l), N2[l].term = N[j].term PROVE FALSE
      OBVIOUS
    <3>1. Leads(N, l) /\ N[l].term = N[j].term /\ ServerOK(N, l)
      BY <1>1, StepFacts DEF Leads
    <3>2. Led(N, N[j].term, l)
      BY <3>1 DEF ServerOK, LeaderOK
    <3> QED BY <1>1, <2>1, <3>2, FirstElected
  <2>4. Quorum(Q) /\ Q \in SUBSET Server
    BY <2>1 DEF Quorum
  <2>5. \A q \in Q : N2[q].term > N[j].term \/ (N2[q].term = N[j].term /\ N2[q].vote = j)
    <3> SUFFICES ASSUME NEW q \in Q
                 PROVE  N2[q].term > N[j].term \/ (N2[q].term = N[j].term /\ N2[q].vote = j)
      OBVIOUS
    <3>1. CASE q = j
      <4>1. j # None
        BY <1>1, ReadIndexAssumption
      <4> QED BY <1>1, <2>2, <3>1, <4>1
    <3>2. CASE q # j
      BY <1>1, <2>2, <2>4, <3>2
    <3> QED BY <3>1, <3>2
  <2>6. \A c \in Server : Stands(N2, c) /\ N2[c].term = N[j].term => N2[c].votes \cap Q = {}
    <3> SUFFICES ASSUME NEW c \in Server, Stands(N2, c), N2[c].term = N[j].term
                 PROVE  N2[c].votes \cap Q = {}
      OBVIOUS
    <3>1. c # j
      BY <2>1 DEF Stands, Leads
    <3>2. N2[c] = N[c] /\ Stands(N, c)
      BY <1>1, <3>1 DEF Stands
    <3> QED BY <2>2, <3>1, <3>2
  <2>7. N2[j].state # "Candidate" /\ N2[j].term >= N[j].term
    BY <1>1, <2>1 DEF Leads
  <2> HIDE DEF Q
  <2> QED BY <1>1, <2>2, <2>3, <2>4, <2>5, <2>6, <2>7 DEF Led
<1> QED BY <1>2, <1>3

\* The follower's new log is that of the leader of its term.
LEMMA FollowsIs ==
    ASSUME NEW N, NEW N2, NEW j, Step(N, N2, j), Follows(N, N2, j)
    PROVE  \E l \in Server \ {j} :
              /\ Leads(N, l) /\ N[l].term = N[j].term /\ N2[j].term = N[j].term /\ N2[j].log = N[l].log
              /\ Last(N2[j]) = Last(N[l]) /\ ServerOK(N, l) /\ LeaderOK(N, l) /\ LogOK(N, l)
              /\ \A k, t : Backs(N2, j, k, t) <=> Backs(N, l, k, t)
<1>1. PICK l \in Server \ {j} : Leads(N, l) /\ N[l].term = N[j].term /\ N2[j].log = N[l].log
  BY DEF Follows
<1>2. N2[j].term = N[j].term /\ Last(N2[j]) = Last(N[l]) /\ \A k, t : Backs(N2, j, k, t) <=> Backs(N, l, k, t)
  BY <1>1 DEF Follows, Last, Backs
<1>3. ServerOK(N, l) /\ LeaderOK(N, l) /\ LogOK(N, l)
  BY <1>1, StepFacts DEF ServerOK
<1> QED BY <1>1, <1>2, <1>3

\* Terms in logs still have leaders and do not decrease; what is committed is in the log.
LEMMA LogMoves ==
    ASSUME NEW N, NEW N2, NEW j, Step(N, N2, j), NEW s \in Server,
           s = j => N2[j].committed = N[j].committed \/ N2[j].committed <= Last(N2[j])
    PROVE  LogOK(N2, s)
<1>1. /\ j \in Server /\ N \in [Server -> NodeRec] /\ N2 \in [Server -> NodeRec]
      /\ \A p \in Server : ServerOK(N, p)
      /\ \A p \in Server \ {j} : N2[p] = N[p]
      /\ N[j].term \in Nat /\ N2[j].term \in Nat /\ N2[j].term >= N[j].term
      /\ N[j].committed \in Nat /\ N2[j].committed \in Nat
      /\ Stays(N, N2, j) \/ Extends(N, N2, j) \/ Follows(N, N2, j)
  BY StepFacts
<1>2. \A t, i : Led(N, t, i) => Led(N2, t, i)
  BY <1>1, LedKept DEF Step
<1>3. \A p \in Server :
         /\ \A k \in 1..Last(N[p]) :
               /\ N[p].log[k] >= 1 /\ N[p].log[k] <= N[p].term /\ N[p].log[k] \in Nat
               /\ \E i \in Server : Led(N2, N[p].log[k], i)
         /\ \A k1, k2 \in 1..Last(N[p]) : k1 <= k2 => N[p].log[k1] <= N[p].log[k2]
         /\ N[p].committed <= Last(N[p]) /\ Last(N[p]) \in Nat
  BY <1>1, <1>2, NodeFields DEF ServerOK, LogOK
<1>4. CASE s # j
  BY <1>1, <1>3, <1>4 DEF LogOK
<1>5. CASE s = j /\ Stays(N, N2, j)
  <2>1. N2[j].log = N[j].log /\ Last(N2[j]) = Last(N[j])
    BY <1>5 DEF Stays, Last
  <2> QED BY <1>1, <1>3, <1>5, <2>1 DEF LogOK
<1>6. CASE s = j /\ Extends(N, N2, j)
  <2>1. /\ Last(N2[j]) = Last(N[j]) + 1 /\ Last(N[j]) \in Nat
        /\ N2[j].log[Last(N[j]) + 1] = N[j].term
        /\ \A k \in 1..Last(N[j]) : N2[j].log[k] = N[j].log[k]
    BY <1>1, <1>6, ExtendsIs
  <2>2. Led(N2, N[j].term, j) /\ N[j].term >= 1
    BY <1>6, ExtendsLed
  <2>3. \A k \in 1..Last(N2[j]) : k \in 1..Last(N[j]) \/ k = Last(N[j]) + 1
    BY <2>1
  <2>4. \A k \in 1..Last(N2[j]) :
           /\ N2[j].log[k] >= 1 /\ N2[j].log[k] <= N2[j].term
           /\ \E i \in Server : Led(N2, N2[j].log[k], i)
    <3> SUFFICES ASSUME NEW k \in 1..Last(N2[j])
                 PROVE  /\ N2[j].log[k] >= 1 /\ N2[j].log[k] <= N2[j].term
                        /\ \E i \in Server : Led(N2, N2[j].log[k], i)
      OBVIOUS
    <3>1. CASE k \in 1..Last(N[j])
      <4>1. N2[j].log[k] = N[j].log[k]
        BY <2>1, <3>1
      <4>2. N[j].log[k] >= 1 /\ N[j].log[k] <= N[j].term /\ N[j].log[k] \in Nat
        BY <1>1, <1>3, <3>1
      <4>3. \E i \in Server : Led(N2, N[j].log[k], i)
        BY <1>1, <1>3, <3>1
      <4> QED BY <1>1, <4>1, <4>2, <4>3
    <3>2. CASE k = Last(N[j]) + 1
      BY <1>1, <2>1, <2>2, <3>2
    <3> QED BY <2>3, <3>1, <3>2
  <2>5. \A k1, k2 \in 1..Last(N2[j]) : k1 <= k2 => N2[j].log[k1] <= N2[j].log[k2]
    <3> SUFFICES ASSUME NEW k1 \in 1..Last(N2[j]), NEW k2 \in 1..Last(N2[j]), k1 <= k2
                 PROVE  N2[j].log[k1] <= N2[j].log[k2]
      OBVIOUS
    <3>1. CASE k2 \in 1..Last(N[j])
      <4>1. k1 \in 1..Last(N[j])
        BY <2>1, <3>1
      <4> QED BY <1>1, <1>3, <2>1, <3>1, <4>1
    <3>2. CASE k2 = Last(N[j]) + 1 /\ k1 \in 1..Last(N[j])
      BY <1>1, <1>3, <2>1, <3>2
    <3>3. CASE k2 = Last(N[j]) + 1 /\ k1 = Last(N[j]) + 1
      BY <1>1, <2>1, <3>3
    <3> QED BY <2>3, <3>1, <3>2, <3>3
  <2>6. N2[j].committed <= Last(N2[j])
    BY <1>1, <1>3, <1>6, <2>1
  <2> QED BY <1>6, <2>4, <2>5, <2>6 DEF LogOK
<1>7. CASE s = j /\ Follows(N, N2, j)
  <2>1. PICK l \in Server \ {j} :
           /\ Leads(N, l) /\ N[l].term = N[j].term /\ N2[j].term = N[j].term /\ N2[j].log = N[l].log
           /\ Last(N2[j]) = Last(N[l])
    BY <1>7, FollowsIs
  <2>2. N[j].committed <= Last(N[l])
    <3>1. Cov(N, N[j].committed, N[j].term)
      BY <1>1 DEF ServerOK
    <3> QED BY <1>1, <2>1, <3>1, LeaderCovers
  <2>3. N2[j].committed <= Last(N2[j])
    BY <1>7, <2>1, <2>2
  <2> QED BY <1>3, <1>7, <2>1, <2>3 DEF LogOK
<1> QED BY <1>1, <1>4, <1>5, <1>6, <1>7

\* Logs still agree (log matching).
LEMMA AgreeMoves ==
    ASSUME NEW N, NEW N2, NEW j, Step(N, N2, j), NEW a \in Server, NEW b \in Server
    PROVE  Agree(N2, a, b)
<1>1. /\ j \in Server /\ N \in [Server -> NodeRec]
      /\ \A p \in Server : ServerOK(N, p)
      /\ \A p \in Server \ {j} : N2[p] = N[p]
      /\ Stays(N, N2, j) \/ Extends(N, N2, j) \/ Follows(N, N2, j)
  BY StepFacts
<1>2. \A p, q \in Server : Agree(N, p, q)
  BY <1>1 DEF ServerOK
<1>3. ASSUME NEW f \in [Server -> Server], \A p \in Server : N2[p].log = N[f[p]].log
      PROVE  Agree(N2, a, b)
  <2>1. Agree(N, f[a], f[b]) /\ N2[a].log = N[f[a]].log /\ N2[b].log = N[f[b]].log
    BY <1>2, <1>3
  <2> QED BY <2>1 DEF Agree, Last
<1>4. CASE Stays(N, N2, j)
  <2> DEFINE f == [p \in Server |-> p]
  <2>1. \A p \in Server : N2[p].log = N[f[p]].log
    BY <1>1, <1>4 DEF Stays
  <2>2. f \in [Server -> Server]
    OBVIOUS
  <2> HIDE DEF f
  <2> QED BY <1>3, <2>1, <2>2
<1>5. CASE Follows(N, N2, j)
  <2>1. PICK l \in Server : N2[j].log = N[l].log
    BY <1>5 DEF Follows
  <2> DEFINE f == [p \in Server |-> IF p = j THEN l ELSE p]
  <2>2. \A p \in Server : N2[p].log = N[f[p]].log
    BY <1>1, <2>1
  <2>3. f \in [Server -> Server]
    BY <2>1
  <2> HIDE DEF f
  <2> QED BY <1>3, <2>2, <2>3
<1>6. CASE Extends(N, N2, j)
  <2>1. /\ Last(N2[j]) = Last(N[j]) + 1 /\ Last(N[j]) \in Nat
        /\ N2[j].log[Last(N[j]) + 1] = N[j].term
        /\ \A k \in 1..Last(N[j]) : N2[j].log[k] = N[j].log[k]
    BY <1>1, <1>6, ExtendsIs
  <2>2. \A p \in Server : \A k \in 1..Last(N[p]) :
           N[p].log[k] = N[j].term => Leads(N, j) /\ k <= Last(N[j])
    BY <1>6, OnlyLeader
  <2>3. \A p \in Server : Last(N[p]) \in Nat
    BY <1>1, NodeFields
  <2>4. \A p \in Server : \A k \in 1..Last(N2[p]) :
           \/ k \in 1..Last(N[p]) /\ N2[p].log[k] = N[p].log[k]
           \/ p = j /\ k = Last(N[j]) + 1 /\ N2[p].log[k] = N[j].term
    <3> SUFFICES ASSUME NEW p \in Server, NEW k \in 1..Last(N2[p])
                 PROVE  \/ k \in 1..Last(N[p]) /\ N2[p].log[k] = N[p].log[k]
                        \/ p = j /\ k = Last(N[j]) + 1 /\ N2[p].log[k] = N[j].term
      OBVIOUS
    <3>1. CASE p # j
      BY <1>1, <3>1
    <3>2. CASE p = j
      BY <2>1, <3>2
    <3> QED BY <3>1, <3>2
  <2> SUFFICES ASSUME NEW x \in 1..Last(N2[a]), NEW y \in 1..Last(N2[b]), y <= x,
                      N2[a].log[x] = N2[b].log[y], NEW z \in 1..y
               PROVE  N2[a].log[z] = N2[b].log[z]
    BY DEF Agree
  <2>5. x \in Int /\ y \in Int /\ z \in Int
    BY <1>1, <2>1, <2>3
  <2>6. \A p \in Server : \A k \in 1..Last(N[p]) : N2[p].log[k] = N[p].log[k]
    BY <1>1, <2>1
  <2>7. CASE y \in 1..Last(N[b]) /\ x \in 1..Last(N[a])
    <3>1. N[a].log[x] = N[b].log[y]
      BY <2>6, <2>7
    <3>2. N[a].log[z] = N[b].log[z]
      BY <1>2, <2>7, <3>1 DEF Agree
    <3>3. z \in 1..Last(N[a]) /\ z \in 1..Last(N[b])
      BY <2>3, <2>5, <2>7
    <3> QED BY <2>6, <3>2, <3>3
  <2>8. CASE y \in 1..Last(N[b]) /\ a = j /\ x = Last(N[j]) + 1 /\ N2[a].log[x] = N[j].term
    <3>1. N[b].log[y] = N[j].term
      BY <2>6, <2>8
    <3>2. Leads(N, j) /\ y <= Last(N[j])
      BY <2>2, <2>8, <3>1
    <3>3. LeaderOK(N, j)
      BY <1>1, <3>2 DEF ServerOK
    <3>4. Last(N[j]) \in 1..Last(N[j]) /\ N[j].log[Last(N[j])] = N[j].term
      BY <1>1, <3>3, LeaderEnd
    <3>5. N[j].log[z] = N[b].log[z]
      BY <1>1, <1>2, <2>8, <3>1, <3>2, <3>4 DEF Agree
    <3>6. z \in 1..Last(N[j]) /\ z \in 1..Last(N[b])
      BY <2>1, <2>3, <2>5, <2>8, <3>2
    <3> QED BY <1>1, <2>6, <2>8, <3>5, <3>6
  <2>9. CASE b = j /\ y = Last(N[j]) + 1 /\ N2[b].log[y] = N[j].term
    <3>1. CASE x \in 1..Last(N[a])
      <4>1. N[a].log[x] = N[j].term
        BY <2>6, <2>9, <3>1
      <4>2. x <= Last(N[j])
        BY <2>2, <3>1, <4>1
      <4> QED BY <2>1, <2>5, <2>9, <4>2
    <3>2. CASE a = j
      BY <2>9, <3>2
    <3> QED BY <2>4, <3>1, <3>2
  <2> QED BY <2>4, <2>7, <2>8, <2>9
<1> QED BY <1>1, <1>4, <1>5, <1>6

\* Candidates still have disjoint votes, which were given to them.
LEMMA CandidateMoves ==
    ASSUME NEW N, NEW N2, NEW j, Step(N, N2, j), NEW c \in Server, Stands(N2, c)
    PROVE  CandidateOK(N2, c)
<1>1. /\ j \in Server /\ N \in [Server -> NodeRec] /\ N2 \in [Server -> NodeRec]
      /\ \A p \in Server : ServerOK(N, p)
      /\ \A p \in Server \ {j} : N2[p] = N[p]
      /\ N[j].term \in Nat /\ N2[j].term \in Nat /\ N2[j].term >= N[j].term
      /\ N2[j].term = N[j].term /\ N[j].vote # None => N2[j].vote = N[j].vote
      /\ VotesMove(N, N2, j) /\ j # None
  BY StepFacts, ReadIndexAssumption
<1>2. \A p \in Server : N[p].term \in Nat /\ N[p].votes \in SUBSET Server /\ N2[p].votes \in SUBSET Server
                        /\ p # None
  BY <1>1, NodeFields, ReadIndexAssumption
<1>3. ASSUME NEW p \in Server, Stands(N, p)
      PROVE  /\ N[p].vote = p /\ p \in N[p].votes /\ N[p].term >= 1
             /\ \A v \in N[p].votes : N[v].term > N[p].term \/ (N[v].term = N[p].term /\ N[v].vote = p)
             /\ \A d \in Server \ {p} : Stands(N, d) /\ N[d].term = N[p].term => N[p].votes \cap N[d].votes = {}
  BY <1>1, <1>3 DEF ServerOK, CandidateOK
<1>4. ASSUME Stands(N2, j)
      PROVE  /\ N2[j].vote = j /\ j \in N2[j].votes /\ N2[j].term >= 1
             /\ \/ N2[j].term > N[j].term /\ N2[j].votes = {j}
                \/ /\ Stands(N, j) /\ N2[j].term = N[j].term
                   /\ \A v \in N2[j].votes \ N[j].votes : N[v].term = N[j].term /\ N[v].vote = j
             /\ \A v \in N2[j].votes : N2[v].term > N2[j].term \/ (N2[v].term = N2[j].term /\ N2[v].vote = j)
  <2>1. CASE N2[j].term > N[j].term /\ N2[j].vote = j /\ N2[j].votes = {j}
    BY <1>1, <2>1
  <2>2. CASE /\ Stands(N, j) /\ N2[j].term = N[j].term /\ N[j].votes \subseteq N2[j].votes /\ N2[j].vote = j
             /\ \A v \in N2[j].votes \ N[j].votes : N[v].term = N[j].term /\ N[v].vote = j
    <3>1. j \in N2[j].votes /\ N2[j].term >= 1
      BY <1>1, <1>3, <2>2
    <3>2. ASSUME NEW v \in N2[j].votes
          PROVE  N2[v].term > N2[j].term \/ (N2[v].term = N2[j].term /\ N2[v].vote = j)
      <4>1. CASE v = j
        BY <2>2, <4>1
      <4>2. CASE v # j /\ v \in N[j].votes
        BY <1>1, <1>2, <1>3, <2>2, <4>2
      <4>3. CASE v # j /\ v \notin N[j].votes
        BY <1>1, <1>2, <2>2, <3>2, <4>3
      <4> QED BY <4>1, <4>2, <4>3
    <3> QED BY <2>2, <3>1, <3>2
  <2> QED BY <1>1, <1>4, <2>1, <2>2 DEF VotesMove
<1>5. ASSUME NEW d \in Server \ {j}, Stands(N2, d), Stands(N2, j), N2[d].term = N2[j].term
      PROVE  N2[j].votes \cap N2[d].votes = {}
  <2>1. N2[d] = N[d] /\ Stands(N, d)
    BY <1>1, <1>5 DEF Stands
  <2>2. CASE N2[j].term > N[j].term /\ N2[j].votes = {j}
    <3>1. N[j].term < N[d].term
      BY <1>1, <1>5, <2>1, <2>2
    <3>2. j \notin N[d].votes
      BY <1>1, <1>2, <1>3, <2>1, <3>1
    <3> QED BY <2>1, <2>2, <3>2
  <2>3. CASE /\ Stands(N, j) /\ N2[j].term = N[j].term
             /\ \A v \in N2[j].votes \ N[j].votes : N[v].term = N[j].term /\ N[v].vote = j
    <3>1. N[j].votes \cap N[d].votes = {} /\ N[d].term = N[j].term
      BY <1>1, <1>3, <1>5, <2>1, <2>3
    <3>2. ASSUME NEW v \in N2[j].votes \ N[j].votes, v \in N[d].votes PROVE FALSE
      <4>1. N[v].term = N[j].term /\ N[v].vote = j /\ N[v].term \in Nat
        BY <1>1, <1>2, <2>3, <3>2
      <4>2. N[v].vote = d
        BY <1>3, <2>1, <3>1, <3>2, <4>1
      <4> QED BY <1>5, <4>1, <4>2
    <3> QED BY <2>1, <3>1, <3>2
  <2> QED BY <1>4, <1>5, <2>2, <2>3
<1>6. CASE c = j
  BY <1>4, <1>5, <1>6 DEF CandidateOK
<1>7. CASE c # j
  <2>1. N2[c] = N[c] /\ Stands(N, c)
    BY <1>1, <1>7 DEF Stands
  <2>2. N2[c].vote = c /\ c \in N2[c].votes /\ N2[c].term >= 1
    BY <1>3, <2>1
  <2>3. ASSUME NEW v \in N2[c].votes
        PROVE  N2[v].term > N2[c].term \/ (N2[v].term = N2[c].term /\ N2[v].vote = c)
    <3>1. N[v].term > N[c].term \/ (N[v].term = N[c].term /\ N[v].vote = c)
      BY <1>3, <2>1, <2>3
    <3>2. v \in Server /\ N[c].term \in Nat /\ c # None
      BY <1>2, <2>3
    <3>3. CASE v = j
      BY <1>1, <2>1, <3>1, <3>2, <3>3
    <3>4. CASE v # j
      BY <1>1, <2>1, <3>1, <3>2, <3>4
    <3> QED BY <3>3, <3>4
  <2>4. ASSUME NEW d \in Server \ {c}, Stands(N2, d), N2[d].term = N2[c].term
        PROVE  N2[c].votes \cap N2[d].votes = {}
    <3>1. CASE d = j
      BY <1>5, <1>7, <2>4, <3>1
    <3>2. CASE d # j
      <4>1. N2[d] = N[d] /\ Stands(N, d)
        BY <1>1, <2>4, <3>2 DEF Stands
      <4> QED BY <1>3, <2>1, <2>4, <4>1
    <3> QED BY <3>1, <3>2
  <2> QED BY <2>2, <2>3, <2>4 DEF CandidateOK
<1> QED BY <1>6, <1>7

\* A leader of N2 led before, or has just won.
LEMMA LeaderWas ==
    ASSUME NEW N, NEW N2, NEW j, Step(N, N2, j), NEW i \in Server, Leads(N2, i)
    PROVE  /\ N2[i].term = N[i].term
           /\ i # j => N2[i] = N[i] /\ Leads(N, i)
           /\ i = j => \/ Stays(N, N2, j) /\ Leads(N, j)
                       \/ Extends(N, N2, j)
<1>1. /\ j \in Server /\ \A p \in Server \ {j} : N2[p] = N[p]
      /\ Stays(N, N2, j) \/ Extends(N, N2, j) \/ Follows(N, N2, j)
  BY StepFacts
<1>2. CASE i = j
  BY <1>1, <1>2 DEF Stays, Extends, Follows
<1>3. CASE i # j
  BY <1>1, <1>3 DEF Leads
<1> QED BY <1>2, <1>3

\* A leader still has all entries of its term.
LEMMA LeaderMoves ==
    ASSUME NEW N, NEW N2, NEW j, Step(N, N2, j), NEW i \in Server, Leads(N2, i)
    PROVE  LeaderOK(N2, i)
<1>1. /\ j \in Server /\ N \in [Server -> NodeRec] /\ N2 \in [Server -> NodeRec]
      /\ \A p \in Server : ServerOK(N, p)
      /\ \A p \in Server \ {j} : N2[p] = N[p]
      /\ Stays(N, N2, j) \/ Extends(N, N2, j) \/ Follows(N, N2, j)
  BY StepFacts
<1>2. \A t, p : Led(N, t, p) => Led(N2, t, p)
  BY <1>1, LedKept DEF Step
<1>3. /\ N2[i].term = N[i].term
      /\ i # j => N2[i] = N[i] /\ Leads(N, i)
      /\ i = j => (Stays(N, N2, j) /\ Leads(N, j)) \/ Extends(N, N2, j)
  BY LeaderWas
<1>4. Leads(N, i) => /\ N[i].term >= 1 /\ Led(N, N[i].term, i) /\ Last(N[i]) >= 1
                     /\ N[i].log[Last(N[i])] = N[i].term /\ Last(N[i]) \in Nat
                     /\ \A s \in Server : \A k \in 1..Last(N[s]) : N[s].log[k] = N[i].term => k <= Last(N[i])
  BY <1>1, NodeFields DEF ServerOK, LeaderOK
<1>5. CASE Stays(N, N2, j)
  <2>1. \A p \in Server : N2[p].log = N[p].log /\ Last(N2[p]) = Last(N[p])
    BY <1>1, <1>5 DEF Stays, Last
  <2>2. Leads(N, i)
    BY <1>3, <1>5 DEF Stays
  <2> QED BY <1>2, <1>3, <1>4, <2>1, <2>2 DEF LeaderOK
<1>6. CASE Follows(N, N2, j)
  <2>1. PICK l \in Server : N2[j].log = N[l].log
    BY <1>6 DEF Follows
  <2>2. i # j
    BY <1>6 DEF Follows
  <2>3. \A s \in Server : \A k \in 1..Last(N2[s]) : N2[s].log[k] = N[i].term => k <= Last(N[i])
    <3> SUFFICES ASSUME NEW s \in Server, NEW k \in 1..Last(N2[s]), N2[s].log[k] = N[i].term
                 PROVE  k <= Last(N[i])
      OBVIOUS
    <3>1. PICK p \in Server : N2[s].log = N[p].log
      BY <1>1, <2>1
    <3>2. k \in 1..Last(N[p]) /\ N[p].log[k] = N[i].term
      BY <3>1 DEF Last
    <3> QED BY <1>3, <1>4, <2>2, <3>2
  <2> QED BY <1>2, <1>3, <1>4, <2>2, <2>3 DEF LeaderOK
<1>7. CASE Extends(N, N2, j)
  <2>1. /\ Last(N2[j]) = Last(N[j]) + 1 /\ Last(N[j]) \in Nat
        /\ N2[j].log[Last(N[j]) + 1] = N[j].term
        /\ \A k \in 1..Last(N[j]) : N2[j].log[k] = N[j].log[k]
    BY <1>1, <1>7, ExtendsIs
  <2>2. Led(N2, N[j].term, j) /\ N[j].term >= 1 /\ Leads(N2, j) /\ N2[j].term = N[j].term
    BY <1>7, ExtendsLed DEF Extends
  <2>3. CASE i = j
    <3>1. ASSUME NEW s \in Server, NEW k \in 1..Last(N2[s]), N2[s].log[k] = N[j].term
          PROVE  k <= Last(N2[j])
      <4>1. CASE s = j
        BY <4>1, <2>1
      <4>2. CASE s # j
        <5>1. k \in 1..Last(N[s]) /\ N[s].log[k] = N[j].term /\ Last(N[s]) \in Nat
          BY <1>1, <3>1, <4>2, NodeFields
        <5>2. k <= Last(N[j])
          BY <1>7, <5>1, OnlyLeader
        <5> QED BY <2>1, <5>1, <5>2
      <4> QED BY <4>1, <4>2
    <3> QED BY <2>1, <2>2, <2>3, <3>1 DEF LeaderOK
  <2>4. CASE i # j
    <3>1. N[j].term # N[i].term
      <4>1. Led(N2, N[i].term, i)
        BY <1>2, <1>3, <1>4, <2>4
      <4> QED BY <1>1, <2>2, <2>4, <4>1 DEF Led
    <3>2. ASSUME NEW s \in Server, NEW k \in 1..Last(N2[s]), N2[s].log[k] = N[i].term
          PROVE  k <= Last(N[i])
      <4>1. k \in 1..Last(N[s]) /\ N[s].log[k] = N[i].term
        <5>1. CASE s = j
          BY <2>1, <3>1, <3>2, <5>1
        <5>2. CASE s # j
          BY <1>1, <3>2, <5>2
        <5> QED BY <5>1, <5>2
      <4> QED BY <1>3, <1>4, <2>4, <4>1
    <3> QED BY <1>2, <1>3, <1>4, <2>4, <3>2 DEF LeaderOK
  <2> QED BY <2>3, <2>4
<1> QED BY <1>1, <1>5, <1>6, <1>7

\* What a leader may know of the logs of the others after a step.
LEMMA MatchWas ==
    ASSUME NEW N, NEW N2, NEW j, Step(N, N2, j), Leads(N2, j), NEW x \in Server
    PROVE  \/ N2[j].match[x] \in Nat /\ N2[j].match[x] <= Last(N[j]) /\ Leads(N, j) /\ N2[j].match[x] = N[j].match[x]
           \/ N2[j].match[x] = 0
           \/ N2[j].match[x] = Last(N2[j]) /\ N2[x].log = N2[j].log /\ N2[x].term = N2[j].term
<1>1. j \in Server /\ N \in [Server -> NodeRec] /\ ServerOK(N, j) /\ MatchMove(N, N2, j)
  BY StepFacts
<1>2. Leads(N, j) => N[j].match[x] \in Nat /\ N[j].match[x] <= Last(N[j])
  BY <1>1, NodeFields DEF ServerOK, MatchOK
<1> QED BY <1>1, <1>2 DEF MatchMove

\* The leader of a term is one.
LEMMA SameLeader ==
    ASSUME NEW N, AllOK(N), NEW l \in Server, NEW i \in Server, Leads(N, l), Leads(N, i), N[l].term = N[i].term
    PROVE  l = i
  BY DEF AllOK, ServerOK, LeaderOK, Led

LEMMA MatchMoves ==
    ASSUME NEW N, NEW N2, NEW j, Step(N, N2, j), NEW i \in Server, Leads(N2, i)
    PROVE  MatchOK(N2, i)
<1>1. /\ j \in Server /\ N \in [Server -> NodeRec] /\ N2 \in [Server -> NodeRec]
      /\ \A p \in Server : ServerOK(N, p)
      /\ \A p \in Server \ {j} : N2[p] = N[p]
      /\ N[j].term \in Nat /\ N2[j].term \in Nat /\ N2[j].term >= N[j].term
      /\ Stays(N, N2, j) \/ Extends(N, N2, j) \/ Follows(N, N2, j)
  BY StepFacts
<1>2. /\ N2[i].term = N[i].term
      /\ i # j => N2[i] = N[i] /\ Leads(N, i)
      /\ i = j => (Stays(N, N2, j) /\ Leads(N, j)) \/ Extends(N, N2, j)
  BY LeaderWas
<1>3. \A p \in Server : /\ N[p].term \in Nat /\ Last(N[p]) \in Nat /\ Last(N2[p]) \in Nat
                        /\ \A q \in Server : N[p].match[q] \in Nat
  BY <1>1, NodeFields
<1>4. Leads(N, i) => \A s \in Server :
         /\ N[i].match[s] <= Last(N[i])
         /\ N[i].match[s] > 0 => N[s].term >= N[i].term
         /\ N[s].term = N[i].term => N[i].match[s] <= Last(N[s])
  BY <1>1 DEF ServerOK, MatchOK
<1>5. Extends(N, N2, j) => Last(N2[j]) = Last(N[j]) + 1
  BY <1>1, ExtendsIs
<1>6. Stays(N, N2, j) => Last(N2[j]) = Last(N[j])
  BY DEF Stays, Last
<1> SUFFICES ASSUME NEW s \in Server
             PROVE  /\ N2[i].match[s] <= Last(N2[i])
                    /\ N2[i].match[s] > 0 => N2[s].term >= N2[i].term
                    /\ N2[s].term = N2[i].term => N2[i].match[s] <= Last(N2[s])
  BY DEF MatchOK
<1>7. CASE i # j /\ s # j
  BY <1>1, <1>2, <1>4, <1>7
<1>8. CASE i # j /\ s = j
  <2>1. N2[i] = N[i] /\ Leads(N, i)
    BY <1>2, <1>8
  <2>2. N[i].match[j] <= Last(N[i]) /\ (N[i].match[j] > 0 => N2[j].term >= N[i].term)
    BY <1>1, <1>3, <1>4, <2>1
  <2>3. ASSUME N2[j].term = N[i].term PROVE N[i].match[j] <= Last(N2[j])
    <3>1. CASE N[i].match[j] = 0
      BY <1>1, <1>3, <3>1
    <3>2. CASE N[i].match[j] # 0
      <4>1. N[j].term = N[i].term
        <5>1. N[i].match[j] \in Nat /\ N[i].match[j] > 0 /\ N[i].term \in Nat
          BY <1>1, <1>3, <3>2
        <5>2. N[j].term >= N[i].term
          BY <1>1, <1>4, <2>1, <5>1
        <5> QED BY <1>1, <2>3, <5>1, <5>2
      <4>2. N[i].match[j] <= Last(N[j])
        BY <1>1, <1>4, <2>1, <4>1
      <4>3. CASE Stays(N, N2, j) \/ Extends(N, N2, j)
        <5>1. Last(N2[j]) >= Last(N[j])
          BY <1>1, <1>3, <1>5, <1>6, <4>3
        <5> QED BY <1>1, <1>3, <4>2, <5>1
      <4>4. CASE Follows(N, N2, j)
        <5>1. PICK l \in Server : Leads(N, l) /\ N[l].term = N[j].term /\ Last(N2[j]) = Last(N[l])
          BY <4>4, FollowsIs
        <5>2. l = i
          BY <2>1, <4>1, <5>1, SameLeader DEF Step
        <5> QED BY <2>2, <5>1, <5>2
      <4> QED BY <1>1, <4>3, <4>4
    <3> QED BY <3>1, <3>2
  <2> QED BY <1>8, <2>1, <2>2, <2>3
<1>9. CASE i = j
  <2>1. Last(N2[j]) >= Last(N[j]) /\ N2[j].term = N[j].term
    BY <1>1, <1>2, <1>3, <1>5, <1>6, <1>9
  <2>2. CASE N2[j].match[s] = 0
    BY <1>1, <1>3, <1>9, <2>2
  <2>3. CASE N2[j].match[s] = Last(N2[j]) /\ N2[s].log = N2[j].log /\ N2[s].term = N2[j].term
    BY <1>1, <1>3, <1>9, <2>3 DEF Last
  <2>4. CASE Leads(N, j) /\ N2[j].match[s] = N[j].match[s]
    <3>1. CASE s = j
      BY <1>1, <1>3, <1>4, <1>9, <2>1, <2>4, <3>1
    <3>2. CASE s # j
      <4>1. N2[s] = N[s]
        BY <1>1, <3>2
      <4> QED BY <1>1, <1>3, <1>4, <1>9, <2>1, <2>4, <4>1
    <3> QED BY <3>1, <3>2
  <2> QED BY <1>9, <2>2, <2>3, <2>4, MatchWas
<1> QED BY <1>7, <1>8, <1>9

\* What another leader may still commit is given up by nobody.
LEMMA KeptByOther ==
    ASSUME NEW N, NEW N2, NEW j, Step(N, N2, j), NEW i \in Server \ {j}, Leads(N, i),
           NEW k \in 1..Last(N[i]), N[i].log[k] = N[i].term, ~Dead(N, i, k),
           \A s \in Server : KeptBy(N, i, k, s), NEW s \in Server
    PROVE  KeptBy(N2, i, k, s)
<1> DEFINE t == N[i].term
<1>1. /\ j \in Server /\ N \in [Server -> NodeRec] /\ N2 \in [Server -> NodeRec]
      /\ \A p \in Server : ServerOK(N, p)
      /\ \A p \in Server \ {j} : N2[p] = N[p]
      /\ N[j].term \in Nat /\ N2[j].term \in Nat /\ N2[j].term >= N[j].term /\ t \in Nat
      /\ Stays(N, N2, j) \/ Extends(N, N2, j) \/ Follows(N, N2, j)
      /\ VotesMove(N, N2, j)
  BY StepFacts, NodeFields
<1>2. \A p \in Server :
         /\ N[i].match[p] >= k => Backs(N, p, k, t)
         /\ (Last(N[p]) > 0 /\ N[p].log[Last(N[p])] > t) => Backs(N, p, k, t)
         /\ (Stands(N, p) /\ N[p].term > t /\ \E v \in N[p].votes : N[i].match[v] >= k) => Backs(N, p, k, t)
  BY DEF KeptBy
<1>3. N2[i] = N[i] /\ Backs(N, i, k, t) /\ k \in Nat /\ k >= 1
  BY <1>1, NodeFields DEF Backs
<1>4. CASE s # j
  BY <1>1, <1>2, <1>3, <1>4 DEF KeptBy, Backs, Stands
<1>5. CASE s = j
  <2>1. Stays(N, N2, j) => \A x, y : Backs(N, j, x, y) <=> Backs(N2, j, x, y)
    BY DEF Stays, Backs, Last
  <2>2. Extends(N, N2, j) => \A x, y : Backs(N, j, x, y) => Backs(N2, j, x, y)
    BY <1>1, ExtendsIs
  <2>3. ASSUME Follows(N, N2, j), N[j].term >= t
        PROVE  Backs(N2, j, k, t)
    <3>1. PICK l \in Server \ {j} :
             /\ Leads(N, l) /\ N[l].term = N[j].term /\ LeaderOK(N, l)
             /\ \A x, y : Backs(N2, j, x, y) <=> Backs(N, l, x, y)
      BY <2>3, FollowsIs
    <3>2. CASE N[l].term = t
      <4>1. l = i
        BY <3>1, <3>2, SameLeader DEF Step
      <4> QED BY <1>3, <3>1, <4>1
    <3>3. CASE N[l].term > t
      <4>1. Last(N[l]) > 0 /\ N[l].log[Last(N[l])] > t
        BY <1>1, <3>1, <3>3, LeaderEnd
      <4> QED BY <1>2, <3>1, <4>1
    <3> QED BY <1>1, <2>3, <3>1, <3>2, <3>3
  <2>4. Backs(N, j, k, t) => Backs(N2, j, k, t)
    <3>1. Backs(N, j, k, t) => N[j].term >= t
      BY <1>1 DEF Backs, ServerOK, LogOK
    <3> QED BY <1>1, <2>1, <2>2, <2>3, <3>1
  <2>5. N[i].match[j] >= k => Backs(N2, j, k, t)
    BY <1>1, <1>2, <2>4
  <2>6. (Last(N2[j]) > 0 /\ N2[j].log[Last(N2[j])] > t) => Backs(N2, j, k, t)
    <3> SUFFICES ASSUME Last(N2[j]) > 0, N2[j].log[Last(N2[j])] > t PROVE Backs(N2, j, k, t)
      OBVIOUS
    <3>1. CASE Stays(N, N2, j)
      BY <1>1, <1>2, <2>4, <3>1 DEF Stays, Last
    <3>2. CASE Extends(N, N2, j)
      <4>1. Last(N2[j]) = Last(N[j]) + 1 /\ N2[j].log[Last(N[j]) + 1] = N[j].term
        BY <1>1, <3>2, ExtendsIs
      <4>2. N[j].term > t /\ (Leads(N, j) \/ (Stands(N, j) /\ Quorum(N[j].votes)))
        BY <3>2, <4>1 DEF Extends
      <4>3. CASE Leads(N, j)
        <5>1. LeaderOK(N, j)
          BY <1>1, <4>3 DEF ServerOK
        <5>2. Last(N[j]) > 0 /\ N[j].log[Last(N[j])] > t
          BY <1>1, <4>2, <5>1, LeaderEnd
        <5> QED BY <1>1, <1>2, <2>4, <5>2
      <4>4. CASE Stands(N, j) /\ Quorum(N[j].votes)
        <5>1. CASE \E v \in N[j].votes : N[i].match[v] >= k
          BY <1>1, <1>2, <2>4, <4>2, <4>4, <5>1
        <5>2. CASE \A v \in N[j].votes : ~(N[i].match[v] >= k)
          <6>1. CandidateOK(N, j) /\ N[j].votes \in SUBSET Server
            BY <1>1, <4>4, NodeFields DEF ServerOK
          <6>2. ASSUME NEW v \in N[j].votes PROVE N[v].term > t /\ N[i].match[v] < k
            <7>1. v \in Server /\ N[v].term \in Nat /\ N[i].match[v] \in Nat
              BY <1>1, <6>1, NodeFields
            <7>2. N[v].term >= N[j].term
              BY <1>1, <6>1, <7>1 DEF CandidateOK
            <7> QED BY <1>1, <1>3, <4>2, <5>2, <7>1, <7>2
          <6>3. Dead(N, i, k)
            BY <4>4, <6>1, <6>2 DEF Dead
          <6> QED BY <6>3
        <5> QED BY <5>1, <5>2
      <4> QED BY <4>2, <4>3, <4>4
    <3>3. CASE Follows(N, N2, j)
      <4>1. PICK l \in Server \ {j} :
               /\ N2[j].log = N[l].log /\ Last(N2[j]) = Last(N[l])
               /\ \A x, y : Backs(N2, j, x, y) <=> Backs(N, l, x, y)
        BY <3>3, FollowsIs
      <4> QED BY <1>2, <4>1
    <3> QED BY <1>1, <3>1, <3>2, <3>3
  <2>7. (Stands(N2, j) /\ N2[j].term > t /\ \E v \in N2[j].votes : N[i].match[v] >= k) => Backs(N2, j, k, t)
    <3> SUFFICES ASSUME Stands(N2, j), N2[j].term > t, NEW v \in N2[j].votes, N[i].match[v] >= k
                 PROVE  Backs(N2, j, k, t)
      OBVIOUS
    <3>1. v \in Server
      BY <1>1, NodeFields
    <3>2. CASE N2[j].votes = {j}
      BY <2>5, <3>2
    <3>3. CASE /\ Stands(N, j) /\ N2[j].term = N[j].term
               /\ \A w \in N2[j].votes \ N[j].votes :
                      \/ LastTerm(N[j]) > LastTerm(N[w])
                      \/ LastTerm(N[j]) = LastTerm(N[w]) /\ Last(N[j]) >= Last(N[w])
      <4>1. CASE v \in N[j].votes
        BY <1>1, <1>2, <2>4, <3>3, <4>1
      <4>2. CASE v \notin N[j].votes
        <5>1. Backs(N, v, k, t)
          BY <1>2, <3>1
        <5>2. LogOK(N, j) /\ LogOK(N, v) /\ Agree(N, j, v)
          BY <1>1, <3>1 DEF ServerOK
        <5> HIDE DEF t
        <5>3. (Last(N[j]) > 0 /\ N[j].log[Last(N[j])] > t) \/ Backs(N, j, k, t)
          BY <1>1, <3>1, <3>3, <4>2, <5>1, <5>2, LaterBacks
        <5> QED BY <1>1, <1>2, <2>4, <5>3
      <4> QED BY <4>1, <4>2
    <3> QED BY <1>1, <3>2, <3>3 DEF VotesMove
  <2> QED BY <1>3, <1>5, <2>5, <2>6, <2>7 DEF KeptBy
<1> QED BY <1>4, <1>5

\* Whom a candidate of a later term has on its side is past the leader's term.
LEMMA VotersPast ==
    ASSUME NEW N2, N2 \in [Server -> NodeRec], NEW s \in Server, CandidateOK(N2, s), NEW v \in N2[s].votes,
           NEW t \in Nat, N2[s].term > t
    PROVE  v \in Server /\ N2[v].term > t
<1>1. v \in Server /\ N2[v].term \in Nat /\ N2[s].term \in Nat
  BY NodeFields
<1>2. N2[v].term >= N2[s].term
  BY <1>1 DEF CandidateOK
<1> QED BY <1>1, <1>2

\* What leader j itself may still commit is given up by nobody, while it counts acknowledgements.
LEMMA KeptByOwn ==
    ASSUME NEW N, NEW N2, NEW j, Step(N, N2, j), Leads(N, j), Leads(N2, j),
           NEW k \in 1..Last(N[j]), N[j].log[k] = N[j].term,
           Dead(N, j, k) \/ \A s \in Server : KeptBy(N, j, k, s)
    PROVE  Dead(N2, j, k) \/ \A s \in Server : KeptBy(N2, j, k, s)
<1> DEFINE t == N[j].term
<1>1. /\ j \in Server /\ N \in [Server -> NodeRec] /\ N2 \in [Server -> NodeRec]
      /\ \A p \in Server : ServerOK(N, p)
      /\ \A p \in Server \ {j} : N2[p] = N[p]
      /\ t \in Nat /\ N2[j].term = t /\ k \in Nat /\ k >= 1
      /\ Stays(N, N2, j) \/ Extends(N, N2, j)
  BY StepFacts, LeaderWas, NodeFields
<1>2. \A x, y : Backs(N, j, x, y) => Backs(N2, j, x, y)
  <2>1. CASE Stays(N, N2, j)
    BY <2>1 DEF Stays, Backs, Last
  <2>2. CASE Extends(N, N2, j)
    BY <1>1, <2>2, ExtendsIs
  <2> QED BY <1>1, <2>1, <2>2
<1>3. \A p \in Server : Backs(N, p, k, t) => Backs(N2, p, k, t)
  BY <1>1, <1>2 DEF Backs
<1>4. Backs(N2, j, k, t)
  BY <1>1, <1>2 DEF Backs
<1>5. \A x \in Server : \/ N2[j].match[x] = N[j].match[x]
                        \/ N2[j].match[x] = 0
                        \/ N2[x].log = N2[j].log /\ N2[x].term = t
  BY <1>1, MatchWas
<1>6. CASE Dead(N, j, k)
  <2>1. PICK Q \in SUBSET Server : Quorum(Q) /\ \A q \in Q : N[q].term > N[j].term /\ N[j].match[q] < k
    BY <1>6 DEF Dead
  <2>2. ASSUME NEW q \in Q PROVE N2[q].term > N2[j].term /\ N2[j].match[q] < k
    <3>1. q \in Server /\ q # j /\ N[q].term > t /\ N[j].match[q] < k
      BY <1>1, <2>1, <2>2
    <3>2. N2[q].term > t
      BY <1>1, <3>1
    <3>3. N2[j].match[q] < k
      BY <1>1, <1>5, <3>1, <3>2
    <3> QED BY <1>1, <3>2, <3>3
  <2> QED BY <2>1, <2>2 DEF Dead
<1>7. CASE \A s \in Server : KeptBy(N, j, k, s)
  <2>1. \A p \in Server :
         /\ N[j].match[p] >= k => Backs(N, p, k, t)
         /\ (Last(N[p]) > 0 /\ N[p].log[Last(N[p])] > t) => Backs(N, p, k, t)
         /\ (Stands(N, p) /\ N[p].term > t /\ \E v \in N[p].votes : N[j].match[v] >= k) => Backs(N, p, k, t)
    BY <1>7 DEF KeptBy
  <2> SUFFICES ASSUME NEW s \in Server PROVE KeptBy(N2, j, k, s)
    OBVIOUS
  <2>2. ASSUME N2[j].match[s] >= k PROVE Backs(N2, s, k, t)
    <3>1. CASE N2[j].match[s] = N[j].match[s]
      BY <1>3, <2>1, <2>2, <3>1
    <3>2. CASE N2[j].match[s] = 0
      BY <1>1, <2>2, <3>2
    <3>3. CASE N2[s].log = N2[j].log
      BY <1>4, <3>3 DEF Backs, Last
    <3> QED BY <1>5, <3>1, <3>2, <3>3
  <2>3. ASSUME Last(N2[s]) > 0, N2[s].log[Last(N2[s])] > t PROVE Backs(N2, s, k, t)
    <3>1. CASE s = j
      BY <1>4, <3>1
    <3>2. CASE s # j
      BY <1>1, <1>3, <2>1, <2>3, <3>2
    <3> QED BY <3>1, <3>2
  <2>4. ASSUME Stands(N2, s), N2[s].term > t, NEW v \in N2[s].votes, N2[j].match[v] >= k
        PROVE  Backs(N2, s, k, t)
    <3>1. s # j /\ CandidateOK(N2, s)
      BY <2>4, CandidateMoves DEF Stands, Leads
    <3>2. v \in Server /\ N2[v].term > t
      BY <1>1, <2>4, <3>1, VotersPast
    <3>3. N2[j].match[v] = N[j].match[v]
      BY <1>1, <1>5, <2>4, <3>2
    <3>4. N2[s] = N[s] /\ Stands(N, s)
      BY <1>1, <2>4, <3>1 DEF Stands
    <3> QED BY <1>3, <2>1, <2>4, <3>3, <3>4
  <2> QED BY <1>1, <2>2, <2>3, <2>4 DEF KeptBy
<1> QED BY <1>6, <1>7

\* A new entry is given up by nobody, unless a later leader was elected without it.
LEMMA KeptByNew ==
    ASSUME NEW N, NEW N2, NEW j, Step(N, N2, j), Extends(N, N2, j), NEW k, k = Last(N[j]) + 1
    PROVE  Dead(N2, j, k) \/ \A s \in Server : KeptBy(N2, j, k, s)
<1> DEFINE t == N[j].term
<1>1. /\ j \in Server /\ N \in [Server -> NodeRec] /\ N2 \in [Server -> NodeRec]
      /\ \A p \in Server : ServerOK(N, p)
      /\ \A p \in Server \ {j} : N2[p] = N[p]
      /\ t \in Nat /\ N2[j].term = t /\ Last(N[j]) \in Nat /\ k \in Nat /\ k >= 1 /\ Leads(N2, j)
  BY StepFacts, NodeFields DEF Extends
<1>2. Last(N2[j]) = k /\ N2[j].log[k] = t
  BY <1>1, ExtendsIs
<1>3. Backs(N2, j, k, t)
  BY <1>1, <1>2 DEF Backs
<1>4. \A x \in Server : \/ N2[j].match[x] < k
                        \/ N2[x].log = N2[j].log /\ N2[x].term = t
  <2> SUFFICES ASSUME NEW x \in Server
               PROVE  N2[j].match[x] < k \/ (N2[x].log = N2[j].log /\ N2[x].term = t)
    OBVIOUS
  <2> QED BY <1>1, MatchWas
<1>5. CASE \E s \in Server : Last(N2[s]) > 0 /\ N2[s].log[Last(N2[s])] > t
  <2>1. PICK s \in Server : Last(N2[s]) > 0 /\ N2[s].log[Last(N2[s])] > t
    BY <1>5
  <2>2. s # j
    BY <1>1, <1>2, <2>1
  <2>3. N2[s] = N[s] /\ Last(N[s]) \in Nat /\ Last(N[s]) \in 1..Last(N[s])
    BY <1>1, <2>1, <2>2, NodeFields
  <2> DEFINE u == N[s].log[Last(N[s])]
  <2>4. u > t /\ u \in Nat /\ \E i \in Server : Led(N, u, i)
    <3>1. ServerOK(N, s) /\ u \in Nat
      BY <1>1, <2>3, NodeFields
    <3> QED BY <2>1, <2>3, <3>1 DEF ServerOK, LogOK
  <2> HIDE DEF u
  <2>5. PICK i \in Server : Led(N, u, i)
    BY <2>4
  <2>6. PICK Q \in SUBSET Server : Quorum(Q) /\ \A q \in Q : N[q].term > u \/ N[q].term = u
    BY <2>5 DEF Led
  <2>7. ASSUME NEW q \in Q PROVE N2[q].term > N2[j].term /\ N2[j].match[q] < k
    <3>1. q \in Server /\ N[q].term \in Nat /\ N[q].term > t
      BY <1>1, <2>4, <2>6, <2>7, NodeFields
    <3>2. q # j
      BY <1>1, <3>1
    <3>3. N2[q].term > t
      BY <1>1, <3>1, <3>2
    <3> QED BY <1>1, <1>4, <3>1, <3>3
  <2>8. Dead(N2, j, k)
    BY <2>6, <2>7 DEF Dead
  <2> QED BY <2>8
<1>6. CASE ~\E s \in Server : Last(N2[s]) > 0 /\ N2[s].log[Last(N2[s])] > t
  <2> SUFFICES ASSUME NEW s \in Server PROVE KeptBy(N2, j, k, s)
    OBVIOUS
  <2>1. ASSUME N2[j].match[s] >= k PROVE Backs(N2, s, k, t)
    <3>1. N2[j].match[s] \in Nat
      BY <1>1, NodeFields
    <3>2. N2[s].log = N2[j].log
      BY <1>1, <1>4, <2>1, <3>1
    <3> QED BY <1>3, <3>2 DEF Backs, Last
  <2>2. ASSUME Stands(N2, s), N2[s].term > t, NEW v \in N2[s].votes, N2[j].match[v] >= k PROVE FALSE
    <3>1. CandidateOK(N2, s)
      BY <2>2, CandidateMoves
    <3>2. v \in Server /\ N2[v].term > t /\ N2[j].match[v] \in Nat
      BY <1>1, <2>2, <3>1, VotersPast, NodeFields
    <3> QED BY <1>1, <1>4, <2>2, <3>2
  <2> QED BY <1>1, <1>6, <2>1, <2>2 DEF KeptBy
<1> QED BY <1>5, <1>6

LEMMA KeptMoves ==
    ASSUME NEW N, NEW N2, NEW j, Step(N, N2, j), NEW i \in Server, Leads(N2, i)
    PROVE  Kept(N2, i)
<1>1. /\ j \in Server /\ N \in [Server -> NodeRec] /\ N2 \in [Server -> NodeRec]
      /\ \A p \in Server : ServerOK(N, p)
      /\ \A p \in Server \ {j} : N2[p] = N[p]
      /\ N[j].term \in Nat /\ N2[j].term \in Nat /\ N2[j].term >= N[j].term
  BY StepFacts
<1>2. /\ N2[i].term = N[i].term
      /\ i # j => N2[i] = N[i] /\ Leads(N, i)
      /\ i = j => (Stays(N, N2, j) /\ Leads(N, j)) \/ Extends(N, N2, j)
  BY LeaderWas
<1>3. Leads(N, i) => \A k \in 1..Last(N[i]) : N[i].log[k] = N[i].term =>
                        Dead(N, i, k) \/ \A s \in Server : KeptBy(N, i, k, s)
  BY <1>1 DEF ServerOK, Kept
<1> SUFFICES ASSUME NEW k \in 1..Last(N2[i]), N2[i].log[k] = N2[i].term
             PROVE  Dead(N2, i, k) \/ \A s \in Server : KeptBy(N2, i, k, s)
  BY DEF Kept
<1>4. CASE i # j
  <2>1. N2[i] = N[i] /\ Leads(N, i) /\ k \in 1..Last(N[i]) /\ N[i].log[k] = N[i].term /\ N[i].term \in Nat
    BY <1>1, <1>2, <1>4, NodeFields
  <2>2. CASE Dead(N, i, k)
    <3>1. PICK Q \in SUBSET Server : Quorum(Q) /\ \A q \in Q : N[q].term > N[i].term /\ N[i].match[q] < k
      BY <2>2 DEF Dead
    <3>2. ASSUME NEW q \in Q PROVE N2[q].term > N2[i].term /\ N2[i].match[q] < k
      <4>1. q \in Server /\ N[q].term > N[i].term /\ N[i].match[q] < k
        BY <3>1, <3>2
      <4>2. N2[q].term > N[i].term
        BY <1>1, <2>1, <4>1
      <4> QED BY <2>1, <4>1, <4>2
    <3> QED BY <3>1, <3>2 DEF Dead
  <2>3. CASE ~Dead(N, i, k)
    BY <1>3, <1>4, <2>1, <2>3, KeptByOther
  <2> QED BY <2>2, <2>3
<1>5. CASE i = j /\ Leads(N, j) /\ k \in 1..Last(N[j])
  <2>1. N2[j].log[k] = N[j].log[k]
    <3>1. CASE Stays(N, N2, j)
      BY <3>1 DEF Stays
    <3>2. CASE Extends(N, N2, j)
      BY <1>1, <1>5, <3>2, ExtendsIs
    <3> QED BY <1>2, <1>5, <3>1, <3>2
  <2> QED BY <1>2, <1>3, <1>5, <2>1, KeptByOwn
<1>6. CASE i = j /\ Extends(N, N2, j)
  <2>1. /\ Last(N2[j]) = Last(N[j]) + 1 /\ Last(N[j]) \in Nat
        /\ \A x \in 1..Last(N[j]) : N2[j].log[x] = N[j].log[x]
    BY <1>1, <1>6, ExtendsIs
  <2>2. CASE k \in 1..Last(N[j])
    <3>1. N[j].log[k] = N[j].term
      BY <1>2, <1>6, <2>1, <2>2
    <3>2. Leads(N, j)
      BY <1>1, <1>6, <2>2, <3>1, OnlyLeader
    <3> QED BY <1>5, <1>6, <2>2, <3>2
  <2>3. CASE k = Last(N[j]) + 1
    BY <1>6, <2>3, KeptByNew
  <2> QED BY <1>6, <2>1, <2>2, <2>3
<1>7. i = j /\ Stays(N, N2, j) => k \in 1..Last(N[j])
  BY DEF Stays, Last
<1> QED BY <1>2, <1>4, <1>5, <1>6, <1>7

\* What is committed at j grows only by what is committed for good.
CommitOK(N, N2, j) ==
    \/ N2[j].committed = N[j].committed
    \/ N2[j].committed <= Last(N2[j]) /\ Cov(N2, N2[j].committed, N2[j].term)

LEMMA ServersMove ==
    ASSUME NEW N, NEW N2, NEW j, Step(N, N2, j), CommitOK(N, N2, j)
    PROVE  AllOK(N2)
<1>1. /\ j \in Server /\ N \in [Server -> NodeRec] /\ N2 \in [Server -> NodeRec]
      /\ \A p \in Server : ServerOK(N, p)
      /\ \A p \in Server \ {j} : N2[p] = N[p]
      /\ N[j].term \in Nat /\ N2[j].term \in Nat /\ N2[j].term >= N[j].term
  BY StepFacts
<1> SUFFICES ASSUME NEW s \in Server PROVE ServerOK(N2, s)
  BY <1>1 DEF AllOK
<1>2. LogOK(N2, s)
  BY LogMoves DEF CommitOK
<1>3. \A b \in Server : Agree(N2, s, b)
  BY AgreeMoves
<1>4. Cov(N2, N2[s].committed, N2[s].term)
  <2>1. Cov(N, N[s].committed, N[s].term) /\ N[s].term \in Nat /\ N2[s].term \in Nat /\ N2[s].term >= N[s].term
    BY <1>1, NodeFields DEF ServerOK
  <2>2. Cov(N2, N[s].committed, N2[s].term)
    BY <1>1, <2>1, CovKept DEF Step
  <2>3. CASE s # j
    BY <1>1, <2>2, <2>3
  <2>4. CASE s = j
    BY <2>2, <2>4 DEF CommitOK
  <2> QED BY <2>3, <2>4
<1>5. Stands(N2, s) => CandidateOK(N2, s)
  BY CandidateMoves
<1>6. Leads(N2, s) => LeaderOK(N2, s) /\ MatchOK(N2, s) /\ Kept(N2, s)
  BY LeaderMoves, MatchMoves, KeptMoves
<1> QED BY <1>2, <1>3, <1>4, <1>5, <1>6 DEF ServerOK

\* A heartbeat that is on its way stays a promise that holds (raft.go:489-507, 1509-1512).
LEMMA BeatKept ==
    ASSUME NEW N, NEW N2, NEW j, Step(N, N2, j), NEW m, BeatOK(N, m)
    PROVE  BeatOK(N2, m)
<1>1. /\ j \in Server /\ N \in [Server -> NodeRec] /\ N2 \in [Server -> NodeRec]
      /\ \A p \in Server : ServerOK(N, p)
      /\ \A p \in Server \ {j} : N2[p] = N[p]
      /\ N[j].term \in Nat /\ N2[j].term \in Nat /\ N2[j].term >= N[j].term
      /\ N[j].committed \in Nat /\ N2[j].committed \in Nat /\ N2[j].committed >= N[j].committed
      /\ Stays(N, N2, j) \/ Extends(N, N2, j) \/ Follows(N, N2, j)
  BY StepFacts
<1>2. /\ Led(N, m.term, m.from) /\ m.to \in Server /\ m.index \in Nat /\ Cov(N, m.index, m.term)
      /\ m.index > 0 => N[m.to].term >= m.term
      /\ N[m.to].term <= m.term => m.index <= Last(N[m.to])
      /\ Leads(N, m.from) /\ N[m.from].term = m.term => m.index <= N[m.from].committed
      /\ m.from \in Server /\ m.term \in Nat
  BY DEF BeatOK, Led
<1>3. Led(N2, m.term, m.from)
  BY <1>1, <1>2, LedKept DEF Step
<1>4. Cov(N2, m.index, m.term)
  BY <1>1, <1>2, CovKept DEF Step
<1>5. Last(N[j]) \in Nat /\ Last(N2[j]) \in Nat
  BY <1>1, NodeFields
<1>6. /\ m.index > 0 => N2[m.to].term >= m.term
      /\ N2[m.to].term <= m.term => m.index <= Last(N2[m.to])
  <2>1. CASE m.to # j
    BY <1>1, <1>2, <2>1
  <2>2. CASE m.to = j /\ m.index = 0
    BY <1>5, <2>2
  <2>3. CASE m.to = j /\ m.index > 0
    <3>1. N[j].term >= m.term /\ (N[j].term <= m.term => m.index <= Last(N[j]))
      BY <1>2, <2>3
    <3>2. N2[j].term >= m.term
      BY <1>1, <1>2, <3>1
    <3>3. ASSUME N2[j].term <= m.term PROVE m.index <= Last(N2[j])
      <4>1. N[j].term = m.term /\ m.index <= Last(N[j])
        BY <1>1, <1>2, <3>1, <3>3
      <4>2. CASE Stays(N, N2, j)
        BY <4>1, <4>2 DEF Stays, Last
      <4>3. CASE Extends(N, N2, j)
        <5>1. Last(N2[j]) = Last(N[j]) + 1
          BY <1>1, <4>3, ExtendsIs
        <5> QED BY <1>2, <1>5, <4>1, <5>1
      <4>4. CASE Follows(N, N2, j)
        <5>1. PICK l \in Server : Leads(N, l) /\ N[l].term = N[j].term /\ Last(N2[j]) = Last(N[l])
          BY <4>4, FollowsIs
        <5>2. m.index <= Last(N[l])
          BY <1>1, <1>2, <4>1, <5>1, LeaderCovers
        <5> QED BY <5>1, <5>2
      <4> QED BY <1>1, <4>2, <4>3, <4>4
    <3> QED BY <2>3, <3>2, <3>3
  <2> QED BY <1>2, <2>1, <2>2, <2>3
<1>7. Leads(N2, m.from) /\ N2[m.from].term = m.term => m.index <= N2[m.from].committed
  <2> SUFFICES ASSUME Leads(N2, m.from), N2[m.from].term = m.term PROVE m.index <= N2[m.from].committed
    OBVIOUS
  <2>1. CASE m.from # j
    BY <1>1, <1>2, <2>1 DEF Leads
  <2>2. CASE m.from = j
    <3>1. N[j].term = m.term /\ (Leads(N, j) \/ (Stands(N, j) /\ Quorum(N[j].votes)))
      BY <1>1, <2>2 DEF Stays, Extends, Follows
    <3>2. Leads(N, j)
      BY <1>1, <1>2, <2>2, <3>1, FirstElected
    <3> QED BY <1>1, <1>2, <2>2, <3>1, <3>2
  <2> QED BY <2>1, <2>2
<1> QED BY <1>2, <1>3, <1>4, <1>6, <1>7 DEF BeatOK

\* What was committed stays so.
LEMMA AskKept ==
    ASSUME NEW N, NEW N2, NEW j, Step(N, N2, j), NEW n, AskOK(N, n)
    PROVE  AskOK(N2, n)
<1>1. /\ j \in Server /\ N \in [Server -> NodeRec] /\ N2 \in [Server -> NodeRec]
      /\ \A p \in Server : ServerOK(N, p)
      /\ \A p \in Server \ {j} : N2[p] = N[p]
      /\ N[j].committed \in Nat /\ N2[j].committed \in Nat /\ N2[j].committed >= N[j].committed
  BY StepFacts
<1>2. PICK T \in Nat : Cov(N, n, T)
  BY DEF AskOK
<1>3. Cov(N2, n, T)
  BY <1>1, <1>2, CovKept DEF Step
<1>4. n \in Nat /\ \E s \in Server : n <= N[s].committed
  BY DEF AskOK
<1>5. \E s \in Server : n <= N2[s].committed
  <2>1. PICK s \in Server : n <= N[s].committed
    BY <1>4
  <2>2. n <= N2[s].committed
    <3>1. CASE s = j
      BY <1>1, <1>4, <2>1, <3>1
    <3>2. CASE s # j
      BY <1>1, <2>1, <3>2
    <3> QED BY <3>1, <3>2
  <2> QED BY <2>2
<1> QED BY <1>2, <1>3, <1>4, <1>5 DEF AskOK

\* A step of one server keeps elections, logs, commitment, heartbeats and what was asked for.
LEMMA MoveKeeps ==
    ASSUME NEW N, NEW B, NEW A, Core(N, B, A), NEW N2, NEW j, Moves(N, N2, j), CommitOK(N, N2, j)
    PROVE  Core(N2, B, A)
<1>1. Step(N, N2, j) /\ (\A m \in B : BeatOK(N, m)) /\ \A n \in A : AskOK(N, n)
  BY DEF Core, Step
<1> QED BY <1>1, ServersMove, BeatKept, AskKept DEF Core

\* What a quorum has acknowledged to the leader of its term is committed for good
\* (maybeCommit, raft.go:579-582).
LEMMA CommitCovers ==
    ASSUME NEW N, AllOK(N), NEW N2 \in [Server -> NodeRec], NEW j \in Server, Leads(N, j),
           \A s \in Server \ {j} : N2[s] = N[s],
           N2[j].log = N[j].log, N2[j].term = N[j].term, N2[j].state = N[j].state,
           NEW k \in Nat, N2[j].committed = k, k \in 1..Last(N[j]), N[j].log[k] = N[j].term,
           NEW Q, Quorum(Q), \A q \in Q : N[j].match[q] >= k
    PROVE  Cov(N2, k, N2[j].term)
<1> DEFINE t == N[j].term
<1>1. N \in [Server -> NodeRec] /\ ServerOK(N, j) /\ t \in Nat /\ Q \in SUBSET Server
  BY NodeFields DEF AllOK, Quorum
<1>2. ~Dead(N, j, k)
  <2> SUFFICES ASSUME NEW R \in SUBSET Server, Quorum(R), \A q \in R : N[j].match[q] < k PROVE FALSE
    BY DEF Dead
  <2>1. PICK q \in Server : q \in Q /\ q \in R
    BY QuorumsMeet
  <2>2. N[j].match[q] < k /\ N[j].match[q] >= k /\ N[j].match[q] \in Nat
    BY <1>1, <2>1, NodeFields
  <2> QED BY <2>2
<1>3. \A p \in Server :
         /\ N[j].match[p] >= k => Backs(N, p, k, t)
         /\ (Last(N[p]) > 0 /\ N[p].log[Last(N[p])] > t) => Backs(N, p, k, t)
         /\ (Stands(N, p) /\ N[p].term > t /\ \E v \in N[p].votes : N[j].match[v] >= k) => Backs(N, p, k, t)
  BY <1>1, <1>2 DEF ServerOK, Kept, KeptBy
<1>4. \A p \in Server : /\ N2[p].log = N[p].log /\ N2[p].term = N[p].term /\ (Leads(N2, p) <=> Leads(N, p))
                        /\ Last(N2[p]) = Last(N[p]) /\ (Backs(N2, p, k, t) <=> Backs(N, p, k, t))
                        /\ (p # j => N2[p].votes = N[p].votes) /\ (Stands(N2, p) <=> Stands(N, p))
  BY DEF Last, Backs, Leads, Stands
<1>5. ASSUME NEW s \in Server, Leads(N2, s), N2[s].term = t PROVE k <= N2[s].committed
  <2>1. s = j
    BY <1>4, <1>5, SameLeader
  <2> QED BY <2>1
<1>6. ASSUME NEW s \in Server, Stands(N2, s), N2[s].term > t, N2[s].votes \cap Q # {} PROVE Backs(N2, s, k, t)
  <2>1. s # j
    BY <1>4, <1>6 DEF Stands, Leads
  <2> QED BY <1>3, <1>4, <1>6, <2>1
<1>7. \A q \in Q : Backs(N2, q, k, t)
  BY <1>1, <1>3, <1>4
<1>8. \A s \in Server : (Last(N2[s]) > 0 /\ N2[s].log[Last(N2[s])] > t) => Backs(N2, s, k, t)
  BY <1>3, <1>4
<1>9. Safe(N2, k, t, Q)
  BY <1>5, <1>6, <1>7, <1>8 DEF Safe
<1> QED BY <1>1, <1>9 DEF Cov

-----------------------------------------------------------------------------
(* What the code does to one server, put in its place among the others.    *)

Put(N, j, r) == [N EXCEPT ![j] = r]

LEMMA PutIs ==
    ASSUME NEW N \in [Server -> NodeRec], NEW j \in Server, NEW r \in NodeRec
    PROVE  /\ Put(N, j, r) \in [Server -> NodeRec] /\ Put(N, j, r)[j] = r
           /\ \A s \in Server \ {j} : Put(N, j, r)[s] = N[s]
           /\ Put(N, j, N[j]) = N
  BY DEF Put

LEMMA PutAgain ==
    ASSUME NEW N \in [Server -> NodeRec], NEW j \in Server, NEW r \in NodeRec, NEW s
    PROVE  Put(N, j, r)[j] = r /\ Put(Put(N, j, r), j, s) = Put(N, j, s)
  BY DEF Put

LEMMA CoreFacts ==
    ASSUME NEW N, NEW B, NEW A, Core(N, B, A), NEW j \in Server
    PROVE  /\ AllOK(N) /\ N \in [Server -> NodeRec] /\ ServerOK(N, j) /\ N[j] \in NodeRec
           /\ N[j].term \in Nat /\ N[j].vote \in Server \cup {None} /\ N[j].state \in States
           /\ N[j].log \in Seq(Nat) /\ Last(N[j]) \in Nat /\ N[j].committed \in Nat
           /\ N[j].votes \in SUBSET Server /\ N[j].match \in [Server -> Nat] /\ N[j].readOnly \in ReadOnly
           /\ N[j].lead \in Server \cup {None}
<1>1. AllOK(N) /\ N \in [Server -> NodeRec] /\ ServerOK(N, j) /\ N[j] \in NodeRec
  BY DEF Core, AllOK
<1>2. N[j].readOnly \in ReadOnly /\ N[j].lead \in Server \cup {None}
  BY <1>1 DEF NodeRec
<1> QED BY <1>1, <1>2, NodeFields

\* A step that neither starts nor wins an election and changes no log: becomeFollower, a vote
\* for another, a new lead, what readOnly keeps.
LEMMA CalmPut ==
    ASSUME NEW N, NEW B, NEW A, Core(N, B, A), NEW j \in Server, NEW r \in NodeRec,
           r.log = N[j].log, r.committed = N[j].committed, r.term >= N[j].term,
           r.term = N[j].term /\ N[j].vote # None => r.vote = N[j].vote,
           r.state # "Follower" => /\ r.state = N[j].state /\ r.term = N[j].term
                                   /\ r.votes = N[j].votes /\ r.match = N[j].match
    PROVE  Core(Put(N, j, r), B, A)
<1> DEFINE N2 == Put(N, j, r)
<1>1. /\ N \in [Server -> NodeRec] /\ ServerOK(N, j) /\ N[j].term \in Nat /\ N[j].state \in States
      /\ N[j].committed \in Nat /\ r.state \in States /\ j # None
  BY CoreFacts, ReadIndexAssumption DEF NodeRec
<1>2. N2 \in [Server -> NodeRec] /\ N2[j] = r /\ \A s \in Server \ {j} : N2[s] = N[s]
  BY <1>1, PutIs
<1> HIDE DEF N2
<1>3. VotesMove(N, N2, j)
  <2> SUFFICES ASSUME Stands(N2, j) PROVE r.vote = j /\ Stands(N, j) /\ r.term = N[j].term /\ r.votes = N[j].votes
    BY <1>2 DEF VotesMove
  <2>1. Stands(N, j) /\ r.term = N[j].term /\ r.votes = N[j].votes
    BY <1>2 DEF Stands
  <2>2. N[j].vote = j
    BY <1>1, <2>1 DEF ServerOK, CandidateOK
  <2> QED BY <1>1, <2>1, <2>2
<1>4. Stays(N, N2, j) /\ MatchMove(N, N2, j)
  BY <1>2 DEF Stays, MatchMove, Leads
<1>5. Moves(N, N2, j)
  BY <1>1, <1>2, <1>3, <1>4 DEF Moves
<1>6. CommitOK(N, N2, j)
  BY <1>2 DEF CommitOK
<1> QED BY <1>5, <1>6, MoveKeeps DEF N2

\* becomeCandidate (raft.go:683-694)
LEMMA StandPut ==
    ASSUME NEW N, NEW B, NEW A, Core(N, B, A), NEW j \in Server, NEW r \in NodeRec,
           r.log = N[j].log, r.committed = N[j].committed, r.term > N[j].term,
           r.state = "Candidate", r.vote = j, r.votes = {j}
    PROVE  Core(Put(N, j, r), B, A)
<1> DEFINE N2 == Put(N, j, r)
<1>1. N \in [Server -> NodeRec] /\ N[j].term \in Nat /\ r.term \in Nat /\ N[j].committed \in Nat
  BY CoreFacts DEF NodeRec
<1>2. N2 \in [Server -> NodeRec] /\ N2[j] = r /\ \A s \in Server \ {j} : N2[s] = N[s]
  BY <1>1, PutIs
<1> HIDE DEF N2
<1>3. VotesMove(N, N2, j) /\ Stays(N, N2, j) /\ MatchMove(N, N2, j)
  BY <1>2 DEF VotesMove, Stays, MatchMove, Leads
<1>4. Moves(N, N2, j) /\ CommitOK(N, N2, j)
  BY <1>1, <1>2, <1>3 DEF Moves, CommitOK
<1> QED BY <1>4, MoveKeeps DEF N2

\* A vote that v has given to j in its term is counted (raft.go:1395-1405).
LEMMA CountPut ==
    ASSUME NEW N, NEW B, NEW A, Core(N, B, A), NEW j \in Server, NEW r \in NodeRec, NEW v \in Server,
           r.log = N[j].log, r.committed = N[j].committed, r.term = N[j].term, r.vote = N[j].vote,
           r.state = "Candidate", r.votes = N[j].votes \cup {v}, N[j].state = "Candidate",
           N[v].term = N[j].term, N[v].vote = j,
           \/ LastTerm(N[j]) > LastTerm(N[v])
           \/ LastTerm(N[j]) = LastTerm(N[v]) /\ Last(N[j]) >= Last(N[v])
    PROVE  Core(Put(N, j, r), B, A)
<1> DEFINE N2 == Put(N, j, r)
<1>1. N \in [Server -> NodeRec] /\ N[j].term \in Nat /\ N[j].committed \in Nat /\ N[j] \in NodeRec /\ ServerOK(N, j)
  BY CoreFacts
<1>2. N2 \in [Server -> NodeRec] /\ N2[j] = r /\ \A s \in Server \ {j} : N2[s] = N[s]
  BY <1>1, PutIs
<1> HIDE DEF N2
<1>4. N[j].vote = j /\ Stands(N, j)
  BY <1>1 DEF ServerOK, CandidateOK, Stands
<1>5. VotesMove(N, N2, j) /\ Stays(N, N2, j) /\ MatchMove(N, N2, j)
  BY <1>2, <1>4 DEF VotesMove, Stays, MatchMove, Leads
<1>6. Moves(N, N2, j) /\ CommitOK(N, N2, j)
  BY <1>1, <1>2, <1>5 DEF Moves, CommitOK
<1> QED BY <1>6, MoveKeeps DEF N2

\* appendEntry of a leader, and of a candidate that has won (raft.go:615-636, 712-746).
LEMMA AppendPut ==
    ASSUME NEW N, NEW B, NEW A, Core(N, B, A), NEW j \in Server, NEW r \in NodeRec,
           r.log = Append(N[j].log, N[j].term), r.committed = N[j].committed, r.term = N[j].term,
           r.vote = N[j].vote, r.state = "Leader",
           r.match[j] = Len(r.log),
           \/ N[j].state = "Leader" /\ \A x \in Server \ {j} : r.match[x] = N[j].match[x]
           \/ N[j].state = "Candidate" /\ Quorum(N[j].votes) /\ \A x \in Server \ {j} : r.match[x] = 0
    PROVE  Core(Put(N, j, r), B, A)
<1> DEFINE N2 == Put(N, j, r)
<1>1. N \in [Server -> NodeRec] /\ N[j].term \in Nat /\ N[j].committed \in Nat
  BY CoreFacts
<1>2. N2 \in [Server -> NodeRec] /\ N2[j] = r /\ \A s \in Server \ {j} : N2[s] = N[s]
  BY <1>1, PutIs
<1> HIDE DEF N2
<1>3. VotesMove(N, N2, j) /\ Extends(N, N2, j)
  BY <1>2 DEF VotesMove, Extends, Leads, Stands
<1>4. MatchMove(N, N2, j)
  <2> SUFFICES ASSUME NEW x \in Server
               PROVE  \/ Leads(N, j) /\ N2[j].match[x] = N[j].match[x]
                      \/ ~Leads(N, j) /\ N2[j].match[x] = 0
                      \/ N2[j].match[x] = Last(N2[j]) /\ N2[x].log = N2[j].log /\ N2[x].term = N2[j].term
    BY DEF MatchMove
  <2>1. CASE x = j
    BY <1>2, <2>1 DEF Last
  <2>2. CASE x # j
    BY <1>2, <2>2 DEF Leads
  <2> QED BY <2>1, <2>2
<1>5. Moves(N, N2, j) /\ CommitOK(N, N2, j)
  BY <1>1, <1>2, <1>3, <1>4 DEF Moves, CommitOK
<1> QED BY <1>5, MoveKeeps DEF N2

\* A follower takes over the log of the leader of its term (raft.go:1471-1477).
LEMMA CopyPut ==
    ASSUME NEW N, NEW B, NEW A, Core(N, B, A), NEW j \in Server, NEW l \in Server \ {j}, NEW r \in NodeRec,
           r.log = N[l].log, r.committed = N[j].committed, r.term = N[j].term, r.vote = N[j].vote,
           r.state = "Follower", N[l].state = "Leader", N[l].term = N[j].term
    PROVE  Core(Put(N, j, r), B, A)
<1> DEFINE N2 == Put(N, j, r)
<1>1. N \in [Server -> NodeRec] /\ N[j].term \in Nat /\ N[j].committed \in Nat /\ N[j] \in NodeRec
  BY CoreFacts
<1>2. N2 \in [Server -> NodeRec] /\ N2[j] = r /\ \A s \in Server \ {j} : N2[s] = N[s]
  BY <1>1, PutIs
<1> HIDE DEF N2
<1>4. Follows(N, N2, j) /\ VotesMove(N, N2, j) /\ MatchMove(N, N2, j)
  BY <1>2 DEF Follows, VotesMove, MatchMove, Leads, Stands
<1>5. Moves(N, N2, j) /\ CommitOK(N, N2, j)
  BY <1>1, <1>2, <1>4 DEF Moves, CommitOK
<1> QED BY <1>5, MoveKeeps DEF N2

\* The leader counts a copy of its log (raft.go:1238-1258).
LEMMA AckPut ==
    ASSUME NEW N, NEW B, NEW A, Core(N, B, A), NEW j \in Server, NEW x \in Server, NEW r \in NodeRec,
           r.log = N[j].log, r.committed = N[j].committed, r.term = N[j].term, r.vote = N[j].vote,
           r.state = "Leader", r.match = [N[j].match EXCEPT ![x] = Last(N[j])], N[j].state = "Leader",
           N[x].log = N[j].log, N[x].term = N[j].term
    PROVE  Core(Put(N, j, r), B, A)
<1> DEFINE N2 == Put(N, j, r)
<1>1. N \in [Server -> NodeRec] /\ N[j].term \in Nat /\ N[j].committed \in Nat /\ N[j] \in NodeRec
      /\ N[j].match \in [Server -> Nat]
  BY CoreFacts
<1>2. N2 \in [Server -> NodeRec] /\ N2[j] = r /\ \A s \in Server \ {j} : N2[s] = N[s]
  BY <1>1, PutIs
<1> HIDE DEF N2
<1>3. r.match[x] = Last(N[j]) /\ \A p \in Server \ {x} : r.match[p] = N[j].match[p]
  BY <1>1
<1>4. Stays(N, N2, j) /\ VotesMove(N, N2, j)
  BY <1>2, <1>3 DEF Stays, VotesMove, Leads, Stands
<1>5. MatchMove(N, N2, j)
  <2> SUFFICES ASSUME NEW p \in Server
               PROVE  \/ Leads(N, j) /\ N2[j].match[p] = N[j].match[p]
                      \/ N2[j].match[p] = Last(N2[j]) /\ N2[p].log = N2[j].log /\ N2[p].term = N2[j].term
    BY DEF MatchMove
  <2>1. CASE p = x
    <3>1. N2[j].match[p] = Last(N2[j])
      BY <1>1, <1>2, <1>3, <2>1 DEF Last
    <3>2. N2[p].log = N2[j].log /\ N2[p].term = N2[j].term
      BY <1>2, <1>3, <2>1
    <3> QED BY <3>1, <3>2
  <2>2. CASE p # x
    BY <1>1, <1>2, <1>3, <2>2 DEF Leads
  <2> QED BY <2>1, <2>2
<1>6. Moves(N, N2, j) /\ CommitOK(N, N2, j)
  BY <1>1, <1>2, <1>3, <1>4, <1>5 DEF Moves, CommitOK
<1> QED BY <1>6, MoveKeeps DEF N2

\* A larger commit index is adopted (raftLog.commitTo, log.go:204-213).
LEMMA RaisePut ==
    ASSUME NEW N, NEW B, NEW A, Core(N, B, A), NEW j \in Server, NEW c \in Nat, NEW r \in NodeRec,
           r.log = N[j].log, r.term = N[j].term, r.vote = N[j].vote, r.votes = N[j].votes,
           r.state = N[j].state, r.match = N[j].match, r.committed = Max2(N[j].committed, c), c <= Last(N[j]), Cov(N, c, N[j].term)
    PROVE  Core(Put(N, j, r), B, A)
<1> DEFINE N2 == Put(N, j, r)
<1>1. N \in [Server -> NodeRec] /\ N[j].term \in Nat /\ N[j].committed \in Nat /\ N[j] \in NodeRec
      /\ ServerOK(N, j) /\ AllOK(N) /\ j # None
  BY CoreFacts, ReadIndexAssumption
<1>2. N2 \in [Server -> NodeRec] /\ N2[j] = r /\ \A s \in Server \ {j} : N2[s] = N[s]
  BY <1>1, PutIs
<1> HIDE DEF N2
<1>4. r.committed >= N[j].committed /\ (r.committed = N[j].committed \/ r.committed = c)
  BY <1>1 DEF Max2
<1>5. Stays(N, N2, j) /\ MatchMove(N, N2, j)
  BY <1>2 DEF Stays, MatchMove, Leads
<1>6. VotesMove(N, N2, j)
  <2>1. Stands(N2, j) => Stands(N, j) /\ N[j].vote = j
    BY <1>1, <1>2 DEF Stands, ServerOK, CandidateOK
  <2> QED BY <1>2, <2>1 DEF VotesMove
<1>7. Moves(N, N2, j)
  BY <1>1, <1>2, <1>4, <1>5, <1>6 DEF Moves
<1>8. CommitOK(N, N2, j)
  <2>1. Cov(N2, c, N[j].term)
    BY <1>1, <1>7, CovKept DEF AllOK
  <2> QED BY <1>2, <1>4, <2>1 DEF CommitOK, Last
<1> QED BY <1>7, <1>8, MoveKeeps DEF N2

\* What a quorum of voters has granted wins (quorum/majority.go).
LEMMA WonIsQuorum ==
    ASSUME NEW S \in SUBSET Server
    PROVE  JointVoteResult(Conf, [p \in Server |-> IF p \in S THEN "yes" ELSE "missing"]) = "VoteWon" <=> Quorum(S)
<1> DEFINE f == [p \in Server |-> IF p \in S THEN "yes" ELSE "missing"]
<1>1. f \in [Server -> Votes] /\ Server \in SUBSET Server /\ {} \in SUBSET Server
  BY DEF Votes
<1>2. {p \in Server : f[p] = "yes"} = S
  OBVIOUS
<1> HIDE DEF f
<1>3. VoteResult(Server, f) \in VoteResults /\ (VoteResult(Server, f) = "VoteWon" <=> HasQuorum(Server, S))
  BY <1>1, <1>2, ServersAre, VoteResultMeaning
<1>4. VoteResult({}, f) = "VoteWon"
  BY DEF VoteResult
<1>5. Conf[1] = Server /\ Conf[2] = {}
  BY DEF Conf
<1>6. JointVoteResult(Conf, f) = "VoteWon" <=> HasQuorum(Server, S)
  BY <1>3, <1>4, <1>5 DEF JointVoteResult, VoteResults
<1> QED BY <1>6 DEF f, Quorum

\* What a leader finds committed has been acknowledged by a quorum.
LEMMA CommittedByQuorum ==
    ASSUME NEW f \in [Server -> Nat], NEW n \in Nat, \A p \in Server : f[p] <= n
    PROVE  LET mci == JointCommittedIndex(Conf, f)
           IN  mci \in Nat /\ mci <= n /\ Quorum({p \in Server : f[p] >= mci})
<1> DEFINE mci == JointCommittedIndex(Conf, f)
           ci  == CommittedIndex(Server, f)
<1>1. f \in [Server -> 0..n] /\ Server \in SUBSET Server /\ Server # {}
  BY ServersAre
<1>2. /\ ci \in 0..n
      /\ \A x \in 0..n : HasQuorum(Server, {p \in Server : f[p] >= x}) <=> x <= ci
  BY <1>1, ServersAre, CommittedIndexMeaning
<1>3. CommittedIndex({}, f) = 1000000
  BY DEF CommittedIndex, Unbounded
<1>4. mci = IF ci < 1000000 THEN ci ELSE 1000000
  BY <1>3 DEF JointCommittedIndex, Conf
<1> HIDE DEF ci, mci
<1>5. mci \in 0..n /\ mci <= ci
  BY <1>2, <1>4
<1>6. HasQuorum(Server, {p \in Server : f[p] >= mci})
  BY <1>2, <1>5
<1>7. mci \in Nat /\ mci <= n /\ Quorum({p \in Server : f[p] >= mci})
  <2>1. mci \in Nat /\ mci <= n
    BY <1>5
  <2> QED BY <1>6, <2>1 DEF Quorum
<1> QED BY <1>7 DEF mci

\* Only the commit index of r differs in s.
ButCommitted(r, s) ==
    /\ s \in NodeRec /\ s.term = r.term /\ s.vote = r.vote /\ s.state = r.state /\ s.lead = r.lead
    /\ s.log = r.log /\ s.votes = r.votes /\ s.match = r.match /\ s.readOnly = r.readOnly

LEMMA CommittedOnly ==
    ASSUME NEW r \in NodeRec, NEW c \in Nat
    PROVE  ButCommitted(r, [r EXCEPT !.committed = c]) /\ [r EXCEPT !.committed = c].committed = c
  BY DEF ButCommitted, NodeRec

\* maybeCommit (raft.go:579-582)
LEMMA CommitPut ==
    ASSUME NEW N, NEW B, NEW A, Core(N, B, A), NEW j \in Server, N[j].state = "Leader"
    PROVE  Core(Put(N, j, MaybeCommit(N[j])), B, A) /\ ButCommitted(N[j], MaybeCommit(N[j]))
<1> DEFINE mci == JointCommittedIndex(Conf, N[j].match)
           r   == MaybeCommit(N[j])
<1>1. N \in [Server -> NodeRec] /\ N[j].term \in Nat /\ N[j].committed \in Nat /\ N[j] \in NodeRec
      /\ ServerOK(N, j) /\ AllOK(N) /\ Last(N[j]) \in Nat /\ N[j].match \in [Server -> Nat]
  BY CoreFacts
<1>2. Leads(N, j) /\ MatchOK(N, j) /\ LeaderOK(N, j)
  BY <1>1 DEF Leads, ServerOK
<1>3. \A p \in Server : N[j].match[p] <= Last(N[j])
  BY <1>2 DEF MatchOK
<1>4. mci \in Nat /\ mci <= Last(N[j]) /\ Quorum({p \in Server : N[j].match[p] >= mci})
  BY <1>1, <1>3, CommittedByQuorum
<1>5. MaybeCommit(N[j]) = IF mci > N[j].committed /\ TermOf(N[j], mci) = N[j].term
                            THEN [N[j] EXCEPT !.committed = mci] ELSE N[j]
  BY DEF MaybeCommit
<1> HIDE DEF mci
<1>6. CASE MaybeCommit(N[j]) = N[j]
  <2>1. Put(N, j, MaybeCommit(N[j])) = N
    BY <1>1, <1>6, PutIs
  <2>2. ButCommitted(N[j], N[j])
    BY <1>1 DEF ButCommitted
  <2> QED BY <1>6, <2>1, <2>2
<1>7. CASE mci > N[j].committed /\ TermOf(N[j], mci) = N[j].term
  <2>1. r = [N[j] EXCEPT !.committed = mci]
    BY <1>5, <1>7
  <2>2. ButCommitted(N[j], r) /\ r.committed = mci /\ r \in NodeRec
    BY <1>1, <1>4, <2>1, CommittedOnly DEF ButCommitted
  <2> HIDE DEF r
  <2>3. mci \in 1..Last(N[j]) /\ N[j].log[mci] = N[j].term
    BY <1>1, <1>4, <1>7 DEF TermOf
  <2> DEFINE N2 == Put(N, j, r)
  <2>4. N2 \in [Server -> NodeRec] /\ N2[j] = r /\ \A s \in Server \ {j} : N2[s] = N[s]
    BY <1>1, <2>2, PutIs
  <2> HIDE DEF N2
  <2>5. /\ N2[j].log = N[j].log /\ N2[j].term = N[j].term /\ N2[j].state = N[j].state
        /\ N2[j].match = N[j].match /\ N2[j].vote = N[j].vote /\ N2[j].committed = mci
    BY <2>2, <2>4 DEF ButCommitted
  <2>6. Cov(N2, mci, N2[j].term)
    BY <1>1, <1>2, <1>4, <2>3, <2>4, <2>5, CommitCovers
  <2>7. VotesMove(N, N2, j) /\ Stays(N, N2, j) /\ MatchMove(N, N2, j)
    BY <1>2, <2>5 DEF VotesMove, Stays, MatchMove, Leads, Stands
  <2>8. Moves(N, N2, j)
    BY <1>1, <1>4, <1>7, <2>4, <2>5, <2>7 DEF Moves
  <2>9. CommitOK(N, N2, j)
    BY <1>4, <2>5, <2>6 DEF CommitOK, Last
  <2> QED BY <2>2, <2>8, <2>9, MoveKeeps DEF N2, r
<1> QED BY <1>5, <1>6, <1>7

-----------------------------------------------------------------------------
(* The operators of raft.go and read_only.go *)

LEMMA EmptyReadOnly ==
    NewReadOnly \in ReadOnly /\ NewReadOnly.queue = <<>> /\ DOMAIN NewReadOnly.pending = {} /\ ~NewReadOnly.panicked
<1>1. <<>> \in [{} -> Status]
  <2>1. DOMAIN <<>> = {}
    OBVIOUS
  <2>2. <<>> = [x \in {} |-> {}]
    BY <2>1
  <2> QED BY <2>2
<1>2. <<>> \in UNION {[S -> Status] : S \in SUBSET Request} /\ <<>> \in Seq(Request)
  BY <1>1
<1>3. DOMAIN <<>> = {}
  OBVIOUS
<1> QED BY <1>2, <1>3 DEF NewReadOnly, ReadOnly

\* reset (raft.go:584-613)
LEMMA ResetIs ==
    ASSUME NEW r \in NodeRec, NEW term \in Nat
    PROVE  LET s == Reset(r, term)
           IN  /\ s \in NodeRec /\ s.term = term /\ s.log = r.log /\ s.committed = r.committed
               /\ s.state = r.state /\ s.votes = {} /\ s.match = [p \in Server |-> 0]
               /\ s.readOnly = NewReadOnly /\ s.vote = IF term # r.term THEN None ELSE r.vote
<1> DEFINE vote == IF term # r.term THEN None ELSE r.vote
           match == [p \in Server |-> 0]
<1>1. vote \in Server \cup {None} /\ match \in [Server -> Nat] /\ NewReadOnly \in ReadOnly /\ {} \in SUBSET Server
  BY EmptyReadOnly DEF NodeRec
<1> DEFINE s == [r EXCEPT !.term = term, !.vote = vote, !.lead = None,
              !.votes = {}, !.match = match, !.readOnly = NewReadOnly]
<1>2. Reset(r, term) = s
  BY DEF Reset, NodeRec
<1> HIDE DEF vote, match
<1>3. s \in NodeRec
  BY <1>1 DEF NodeRec
<1>4. /\ s.term = term /\ s.log = r.log /\ s.committed = r.committed /\ s.state = r.state /\ s.votes = {}
      /\ s.match = match /\ s.readOnly = NewReadOnly /\ s.vote = vote
  BY DEF NodeRec
<1> HIDE DEF s
<1> QED BY <1>2, <1>3, <1>4 DEF vote, match

\* becomeFollower (raft.go:674-681)
LEMMA BecomeFollowerIs ==
    ASSUME NEW r \in NodeRec, NEW term \in Nat, NEW lead \in Server \cup {None}
    PROVE  LET s == BecomeFollower(r, term, lead)
           IN  /\ s \in NodeRec /\ s.term = term /\ s.log = r.log /\ s.committed = r.committed
               /\ s.state = "Follower" /\ s.readOnly = NewReadOnly
               /\ s.vote = IF term # r.term THEN None ELSE r.vote
<1> DEFINE q == Reset(r, term)
           s == [q EXCEPT !.state = "Follower", !.lead = lead]
<1>1. /\ q \in NodeRec /\ q.term = term /\ q.log = r.log /\ q.committed = r.committed
      /\ q.readOnly = NewReadOnly /\ q.vote = IF term # r.term THEN None ELSE r.vote
  BY ResetIs
<1>2. BecomeFollower(r, term, lead) = s
  BY DEF BecomeFollower
<1> HIDE DEF q
<1>3. "Follower" \in States
  BY DEF States
<1>4. s \in NodeRec
  BY <1>1, <1>3 DEF NodeRec
<1>5. /\ s.term = q.term /\ s.log = q.log /\ s.committed = q.committed /\ s.state = "Follower"
      /\ s.readOnly = q.readOnly /\ s.vote = q.vote
  BY <1>1 DEF NodeRec
<1> HIDE DEF s
<1> QED BY <1>1, <1>2, <1>4, <1>5

\* A step to follower keeps what is decided.
LEMMA FollowerPut ==
    ASSUME NEW N, NEW B, NEW A, Core(N, B, A), NEW j \in Server, NEW term \in Nat, term >= N[j].term,
           NEW lead \in Server \cup {None}
    PROVE  Core(Put(N, j, BecomeFollower(N[j], term, lead)), B, A)
<1>1. N[j] \in NodeRec
  BY CoreFacts
<1> DEFINE s == BecomeFollower(N[j], term, lead)
<1>2. /\ s \in NodeRec /\ s.term = term /\ s.log = N[j].log /\ s.committed = N[j].committed
      /\ s.state = "Follower" /\ s.vote = IF term # N[j].term THEN None ELSE N[j].vote
  BY <1>1, BecomeFollowerIs
<1> HIDE DEF s
<1>3. Core(Put(N, j, s), B, A)
  BY <1>2, CalmPut
<1> QED BY <1>3 DEF s

\* Only lead changes.
LEMMA LeadIs ==
    ASSUME NEW r \in NodeRec, NEW lead \in Server \cup {None}
    PROVE  LET s == [r EXCEPT !.lead = lead]
           IN  /\ s \in NodeRec /\ s.term = r.term /\ s.log = r.log /\ s.committed = r.committed
               /\ s.state = r.state /\ s.readOnly = r.readOnly /\ s.vote = r.vote /\ s.votes = r.votes
               /\ s.match = r.match
  BY DEF NodeRec

LEMMA LeadPut ==
    ASSUME NEW N, NEW B, NEW A, Core(N, B, A), NEW j \in Server, NEW lead \in Server \cup {None}
    PROVE  Core(Put(N, j, [N[j] EXCEPT !.lead = lead]), B, A)
<1>1. N[j] \in NodeRec /\ N[j].term \in Nat
  BY CoreFacts
<1> DEFINE s == [N[j] EXCEPT !.lead = lead]
<1>2. /\ s \in NodeRec /\ s.term = N[j].term /\ s.log = N[j].log /\ s.committed = N[j].committed
      /\ s.state = N[j].state /\ s.vote = N[j].vote /\ s.votes = N[j].votes /\ s.match = N[j].match
  BY <1>1, LeadIs
<1> HIDE DEF s
<1>3. Core(Put(N, j, s), B, A)
  BY <1>1, <1>2, CalmPut
<1> QED BY <1>3 DEF s

\* Only readOnly changes.
LEMMA ReadOnlyPut ==
    ASSUME NEW N, NEW B, NEW A, Core(N, B, A), NEW j \in Server, NEW ro \in ReadOnly
    PROVE  Core(Put(N, j, [N[j] EXCEPT !.readOnly = ro]), B, A)
<1>1. N[j] \in NodeRec /\ N[j].term \in Nat
  BY CoreFacts
<1> DEFINE s == [N[j] EXCEPT !.readOnly = ro]
<1>2. /\ s \in NodeRec /\ s.term = N[j].term /\ s.log = N[j].log /\ s.committed = N[j].committed
      /\ s.state = N[j].state /\ s.vote = N[j].vote /\ s.votes = N[j].votes /\ s.match = N[j].match
  BY <1>1 DEF NodeRec
<1> HIDE DEF s
<1>3. Core(Put(N, j, s), B, A)
  BY <1>1, <1>2, CalmPut
<1> QED BY <1>3 DEF s

\* appendEntry, and what it means for the reads (raft.go:615-636).
LEMMA AppendEntryPut ==
    ASSUME NEW N, NEW B, NEW A, Core(N, B, A), NEW j \in Server, NEW r \in NodeRec,
           r.log = N[j].log, r.committed = N[j].committed, r.term = N[j].term,
           r.vote = N[j].vote, r.state = "Leader",
           \/ N[j].state = "Leader" /\ r.match = N[j].match
           \/ N[j].state = "Candidate" /\ Quorum(N[j].votes) /\ r.match = [x \in Server |-> 0]
    PROVE  LET s == AppendEntry(j, r)
           IN  /\ Core(Put(N, j, s), B, A)
               /\ s \in NodeRec /\ s.term = r.term /\ s.state = r.state /\ s.readOnly = r.readOnly
<1> DEFINE r1 == [r EXCEPT !.log = Append(@, r.term)]
           r2 == [r1 EXCEPT !.match[j] = LastIndex(r1)]
           s  == AppendEntry(j, r)
<1>1. N \in [Server -> NodeRec] /\ r.term \in Nat /\ r.log \in Seq(Nat) /\ r.match \in [Server -> Nat]
  BY CoreFacts DEF NodeRec
<1>2. s = MaybeCommit(r2)
  BY DEF AppendEntry
<1>3. Append(r.log, r.term) \in Seq(Nat) /\ Len(Append(r.log, r.term)) \in Nat
  BY <1>1
<1>4. /\ r1 \in NodeRec /\ r1.log = Append(r.log, r.term) /\ r1.match = r.match /\ r1.term = r.term
      /\ r1.vote = r.vote /\ r1.state = r.state /\ r1.committed = r.committed /\ r1.readOnly = r.readOnly
  BY <1>3 DEF NodeRec
<1> HIDE DEF r1
<1>5. LastIndex(r1) = Len(r1.log) /\ LastIndex(r1) \in Nat
  BY <1>3, <1>4 DEF LastIndex
<1> DEFINE match == [r1.match EXCEPT ![j] = LastIndex(r1)]
<1>6. /\ match \in [Server -> Nat] /\ match[j] = Len(r1.log)
      /\ \A x \in Server \ {j} : match[x] = r.match[x]
  BY <1>1, <1>4, <1>5
<1>7. r2 = [r1 EXCEPT !.match = match]
  BY <1>4 DEF NodeRec
<1> HIDE DEF match, r2
<1>8. /\ r2 \in NodeRec /\ r2.log = r1.log /\ r2.match = match /\ r2.term = r1.term
      /\ r2.vote = r1.vote /\ r2.state = r1.state /\ r2.committed = r1.committed /\ r2.readOnly = r1.readOnly
  BY <1>4, <1>6, <1>7 DEF NodeRec
<1>9. Core(Put(N, j, r2), B, A)
  <2>1. /\ r2.log = Append(N[j].log, N[j].term) /\ r2.committed = N[j].committed /\ r2.term = N[j].term
        /\ r2.vote = N[j].vote /\ r2.state = "Leader" /\ r2.match[j] = Len(r2.log)
    BY <1>4, <1>6, <1>8
  <2>2. \/ N[j].state = "Leader" /\ \A x \in Server \ {j} : r2.match[x] = N[j].match[x]
        \/ N[j].state = "Candidate" /\ Quorum(N[j].votes) /\ \A x \in Server \ {j} : r2.match[x] = 0
    BY <1>6, <1>8
  <2> QED BY <1>8, <2>1, <2>2, AppendPut
<1>10. Put(N, j, r2)[j] = r2 /\ Put(Put(N, j, r2), j, s) = Put(N, j, s)
  BY <1>1, <1>8, PutAgain
<1>11. Core(Put(N, j, s), B, A) /\ ButCommitted(r2, s)
  <2>1. r2.state = "Leader"
    BY <1>4, <1>8
  <2> DEFINE M == Put(N, j, r2)
  <2>2. M[j] = r2 /\ Core(M, B, A) /\ Put(M, j, s) = Put(N, j, s)
    BY <1>9, <1>10
  <2> HIDE DEF M, s
  <2>3. Core(Put(M, j, MaybeCommit(M[j])), B, A) /\ ButCommitted(M[j], MaybeCommit(M[j]))
    BY <2>1, <2>2, CommitPut
  <2> QED BY <1>2, <2>2, <2>3
<1> HIDE DEF s
<1>12. s \in NodeRec /\ s.term = r.term /\ s.state = r.state /\ s.readOnly = r.readOnly
  BY <1>4, <1>8, <1>11 DEF ButCommitted
<1> QED BY <1>11, <1>12 DEF s

\* becomeLeader of a candidate that has won (raft.go:712-746)
LEMMA BecomeLeaderPut ==
    ASSUME NEW N, NEW B, NEW A, Core(N, B, A), NEW j \in Server, N[j].state = "Candidate", Quorum(N[j].votes)
    PROVE  LET s == BecomeLeader(j, N[j])
           IN  /\ Core(Put(N, j, s), B, A)
               /\ s \in NodeRec /\ s.term = N[j].term /\ s.readOnly = NewReadOnly
<1> DEFINE q == Reset(N[j], N[j].term)
           r == [q EXCEPT !.state = "Leader", !.lead = j]
<1>1. N[j] \in NodeRec /\ N[j].term \in Nat
  BY CoreFacts
<1>2. /\ q \in NodeRec /\ q.term = N[j].term /\ q.log = N[j].log /\ q.committed = N[j].committed
      /\ q.match = [p \in Server |-> 0] /\ q.readOnly = NewReadOnly /\ q.vote = N[j].vote
  BY <1>1, ResetIs
<1>3. BecomeLeader(j, N[j]) = AppendEntry(j, r)
  BY DEF BecomeLeader
<1> HIDE DEF q
<1>4. "Leader" \in States
  BY DEF States
<1>5. /\ r \in NodeRec /\ r.term = q.term /\ r.log = q.log /\ r.committed = q.committed /\ r.match = q.match
      /\ r.readOnly = q.readOnly /\ r.vote = q.vote /\ r.state = "Leader"
  BY <1>2, <1>4 DEF NodeRec
<1> HIDE DEF r
<1> DEFINE s == AppendEntry(j, r)
<1>6. Core(Put(N, j, s), B, A) /\ s \in NodeRec /\ s.term = r.term /\ s.readOnly = r.readOnly
  BY <1>2, <1>5, AppendEntryPut
<1> HIDE DEF s
<1> QED BY <1>2, <1>3, <1>5, <1>6 DEF s

-----------------------------------------------------------------------------
(* Elections and replication *)

\* A server that has not begun anew has the same requests in its queue, and the same role.
ReadsStay(N, N2) ==
    \A s \in Server :
        /\ N2[s].term >= N[s].term
        /\ \/ N2[s].readOnly = NewReadOnly
           \/ N2[s].readOnly = N[s].readOnly /\ N2[s].term = N[s].term /\ N2[s].state = N[s].state

TermsUpTo(N, t) == \A s \in Server : N[s].term <= t

\* A step of elections, replication or heartbeats.
Advances(N, N2, B, A, t) ==
    /\ Core(N2, B, A) /\ ReadsStay(N, N2)
    /\ TermsUpTo(N, t) => TermsUpTo(N2, t)

LEMMA AdvancesTwice ==
    ASSUME NEW N, NEW N1, NEW N2, NEW B, NEW A, NEW t \in Nat, Core(N, B, A), Advances(N, N1, B, A, t),
           Advances(N1, N2, B, A, t)
    PROVE  Advances(N, N2, B, A, t)
<1>1. Core(N1, B, A) /\ Core(N2, B, A) /\ ReadsStay(N, N1) /\ ReadsStay(N1, N2)
  BY DEF Advances
<1>2. \A s \in Server : N[s].term \in Nat /\ N1[s].term \in Nat /\ N2[s].term \in Nat
  BY <1>1, CoreFacts
<1>3. ReadsStay(N, N2)
  BY <1>1, <1>2 DEF ReadsStay
<1> QED BY <1>1, <1>3 DEF Advances

\* One server moves.
LEMMA AdvancesPut ==
    ASSUME NEW N, NEW B, NEW A, Core(N, B, A), NEW j \in Server, NEW r \in NodeRec, NEW t \in Nat,
           Core(Put(N, j, r), B, A), r.term >= N[j].term,
           TermsUpTo(N, t) => r.term <= t \/ r.term <= N[j].term,
           r.readOnly = NewReadOnly \/ (r.readOnly = N[j].readOnly /\ r.term = N[j].term /\ r.state = N[j].state)
    PROVE  Advances(N, Put(N, j, r), B, A, t)
<1>1. N \in [Server -> NodeRec]
  BY CoreFacts
<1>2. Put(N, j, r)[j] = r /\ \A s \in Server \ {j} : Put(N, j, r)[s] = N[s]
  BY <1>1, PutIs
<1>3. \A s \in Server : N[s].term \in Nat
  BY <1>1, NodeFields
<1>4. r.term \in Nat
  BY DEF NodeRec
<1>5. ReadsStay(N, Put(N, j, r))
  BY <1>2, <1>3 DEF ReadsStay
<1>6. TermsUpTo(N, t) => TermsUpTo(Put(N, j, r), t)
  <2> SUFFICES ASSUME TermsUpTo(N, t), NEW s \in Server PROVE Put(N, j, r)[s].term <= t
    BY DEF TermsUpTo
  <2>1. N[s].term <= t /\ N[j].term <= t
    BY DEF TermsUpTo
  <2>2. CASE s = j
    BY <1>2, <1>3, <1>4, <2>1, <2>2
  <2>3. CASE s # j
    BY <1>2, <2>1, <2>3
  <2> QED BY <2>2, <2>3
<1> QED BY <1>5, <1>6 DEF Advances

LEMMA MaxTermIs ==
    ASSUME scenario \in Scenarios
    PROVE  MaxTerm \in Nat /\ Up \subseteq Server /\ Lossy \in BOOLEAN /\ MayAsk \in [Request -> SUBSET Server]
  BY ReadIndexAssumption DEF MaxTerm, Up, Lossy, MayAsk

\* A candidate that has won becomes leader, another one stays what it is.
LEMMA WinAdvances ==
    ASSUME NEW N, NEW B, NEW A, Core(N, B, A), NEW j \in Server, N[j].state = "Candidate", NEW t \in Nat
    PROVE  Advances(N, Put(N, j, IF JointVoteResult(Conf, Granted(N[j])) = "VoteWon"
                                   THEN BecomeLeader(j, N[j]) ELSE N[j]), B, A, t)
<1>1. N \in [Server -> NodeRec] /\ N[j] \in NodeRec /\ N[j].votes \in SUBSET Server /\ N[j].term \in Nat
  BY CoreFacts
<1>2. JointVoteResult(Conf, Granted(N[j])) = "VoteWon" <=> Quorum(N[j].votes)
  BY <1>1, WonIsQuorum DEF Granted
<1>3. CASE Quorum(N[j].votes)
  <2> DEFINE s == BecomeLeader(j, N[j])
  <2>1. Core(Put(N, j, s), B, A) /\ s \in NodeRec /\ s.term = N[j].term /\ s.readOnly = NewReadOnly
    BY <1>3, BecomeLeaderPut
  <2> HIDE DEF s
  <2>2. Advances(N, Put(N, j, s), B, A, t)
    BY <1>1, <2>1, AdvancesPut
  <2> QED BY <1>2, <1>3, <2>2 DEF s
<1>4. CASE ~Quorum(N[j].votes)
  <2>1. Put(N, j, N[j]) = N
    BY <1>1, PutIs
  <2>2. Advances(N, Put(N, j, N[j]), B, A, t)
    BY <1>1, <2>1, AdvancesPut
  <2> QED BY <1>2, <1>4, <2>2
<1> QED BY <1>3, <1>4

LEMMA CampaignAdvances ==
    ASSUME NEW B, NEW A, Core(node, B, A), scenario \in Scenarios, NEW i \in Server, Campaign(i)
    PROVE  Advances(node, node', B, A, MaxTerm)
<1> DEFINE q == Reset(node[i], node[i].term + 1)
           r == [q EXCEPT !.state = "Candidate", !.vote = i, !.votes = {i}]
           w == IF JointVoteResult(Conf, Granted(r)) = "VoteWon" THEN BecomeLeader(i, r) ELSE r
<1>1. node \in [Server -> NodeRec] /\ node[i] \in NodeRec /\ node[i].term \in Nat /\ MaxTerm \in Nat
  BY CoreFacts, MaxTermIs
<1>2. node[i].term < MaxTerm /\ node' = Put(node, i, w)
  BY DEF Campaign, Put
<1>3. /\ q \in NodeRec /\ q.term = node[i].term + 1 /\ q.log = node[i].log /\ q.committed = node[i].committed
      /\ q.readOnly = NewReadOnly
  <2>1. node[i].term + 1 \in Nat
    BY <1>1
  <2> QED BY <1>1, <2>1, ResetIs
<1> HIDE DEF q
<1>4. "Candidate" \in States /\ {i} \in SUBSET Server
  BY DEF States
<1>5. /\ r \in NodeRec /\ r.term = q.term /\ r.log = q.log /\ r.committed = q.committed
      /\ r.readOnly = q.readOnly /\ r.vote = i /\ r.votes = {i} /\ r.state = "Candidate"
  BY <1>3, <1>4 DEF NodeRec
<1> HIDE DEF r
<1>6. Core(Put(node, i, r), B, A)
  BY <1>1, <1>3, <1>5, StandPut
<1> DEFINE N1 == Put(node, i, r)
<1>7. Advances(node, N1, B, A, MaxTerm)
  BY <1>1, <1>2, <1>3, <1>5, <1>6, AdvancesPut
<1>8. N1[i] = r /\ Put(N1, i, w) = Put(node, i, w)
  BY <1>1, <1>5, PutAgain
<1> HIDE DEF N1
<1>9. Advances(N1, Put(N1, i, w), B, A, MaxTerm)
  <2>1. Core(N1, B, A)
    BY <1>7 DEF Advances
  <2> QED BY <1>1, <1>5, <1>8, <2>1, WinAdvances
<1> HIDE DEF w
<1>10. Advances(node, Put(N1, i, w), B, A, MaxTerm)
  BY <1>1, <1>7, <1>9, AdvancesTwice
<1> QED BY <1>2, <1>8, <1>10

LEMMA ProposeAdvances ==
    ASSUME NEW B, NEW A, Core(node, B, A), scenario \in Scenarios, NEW i \in Server, Propose(i)
    PROVE  Advances(node, node', B, A, MaxTerm)
<1> DEFINE s == AppendEntry(i, node[i])
<1>1. node \in [Server -> NodeRec] /\ node[i] \in NodeRec /\ node[i].term \in Nat /\ MaxTerm \in Nat
  BY CoreFacts, MaxTermIs
<1>2. node[i].state = "Leader" /\ node' = Put(node, i, s)
  BY <1>1 DEF Propose, Put
<1>3. /\ Core(Put(node, i, s), B, A)
      /\ s \in NodeRec /\ s.term = node[i].term /\ s.state = node[i].state /\ s.readOnly = node[i].readOnly
  BY <1>1, <1>2, AppendEntryPut
<1> HIDE DEF s
<1>4. Advances(node, Put(node, i, s), B, A, MaxTerm)
  BY <1>1, <1>3, AdvancesPut
<1> QED BY <1>2, <1>4

\* What a server becomes that hears of a term: a follower, unless the term is its own.
LEMMA HearAdvances ==
    ASSUME NEW N, NEW B, NEW A, Core(N, B, A), NEW j \in Server, NEW term \in Nat, term >= N[j].term, NEW t \in Nat,
           TermsUpTo(N, t) => term <= t, NEW lead \in Server \cup {None}
    PROVE  LET s == BecomeFollower(N[j], term, lead)
           IN  /\ Advances(N, Put(N, j, s), B, A, t) /\ s \in NodeRec /\ s.term = term /\ s.state = "Follower"
               /\ s.log = N[j].log /\ s.vote = (IF term # N[j].term THEN None ELSE N[j].vote)
               /\ s.committed = N[j].committed
<1> DEFINE s == BecomeFollower(N[j], term, lead)
<1>1. N[j] \in NodeRec
  BY CoreFacts
<1>2. /\ s \in NodeRec /\ s.term = term /\ s.log = N[j].log /\ s.committed = N[j].committed
      /\ s.state = "Follower" /\ s.readOnly = NewReadOnly
      /\ s.vote = IF term # N[j].term THEN None ELSE N[j].vote
  BY <1>1, BecomeFollowerIs
<1>3. Core(Put(N, j, s), B, A)
  BY FollowerPut
<1> HIDE DEF s
<1>4. Advances(N, Put(N, j, s), B, A, t)
  BY <1>2, <1>3, AdvancesPut
<1> QED BY <1>2, <1>4 DEF s

\* A server that learns who leads.
LEMMA LeadAdvances ==
    ASSUME NEW N, NEW B, NEW A, Core(N, B, A), NEW j \in Server, NEW lead \in Server \cup {None}, NEW t \in Nat
    PROVE  LET s == [N[j] EXCEPT !.lead = lead]
           IN  /\ Advances(N, Put(N, j, s), B, A, t) /\ s \in NodeRec /\ s.term = N[j].term
               /\ s.state = N[j].state /\ s.log = N[j].log /\ s.committed = N[j].committed
<1> DEFINE s == [N[j] EXCEPT !.lead = lead]
<1>1. N[j] \in NodeRec /\ N[j].term \in Nat
  BY CoreFacts
<1>2. /\ s \in NodeRec /\ s.term = N[j].term /\ s.state = N[j].state /\ s.readOnly = N[j].readOnly
      /\ s.log = N[j].log /\ s.committed = N[j].committed
  BY <1>1, LeadIs
<1>3. Core(Put(N, j, s), B, A)
  BY LeadPut
<1> HIDE DEF s
<1>4. Advances(N, Put(N, j, s), B, A, t)
  BY <1>1, <1>2, <1>3, AdvancesPut
<1> QED BY <1>2, <1>4 DEF s

LEMMA VoteAdvances ==
    ASSUME NEW B, NEW A, Core(node, B, A), scenario \in Scenarios, NEW i \in Server, NEW v \in Server, Vote(i, v)
    PROVE  Advances(node, node', B, A, MaxTerm)
<1> DEFINE c  == node[i]
           r  == IF node[v].term < c.term THEN BecomeFollower(node[v], c.term, None) ELSE node[v]
           r2 == [r EXCEPT !.vote = i]
           w  == [c EXCEPT !.votes = @ \cup {v}]
           w2 == IF JointVoteResult(Conf, Granted(w)) = "VoteWon" THEN BecomeLeader(i, w) ELSE w
           N1 == Put(node, v, r)
           N2 == Put(N1, v, r2)
           N3 == Put(N2, i, w)
<1>1. /\ node \in [Server -> NodeRec] /\ c \in NodeRec /\ c.term \in Nat /\ MaxTerm \in Nat /\ node[v] \in NodeRec
      /\ node[v].term \in Nat /\ c.votes \in SUBSET Server /\ i # None /\ ServerOK(node, i)
  BY CoreFacts, MaxTermIs, ReadIndexAssumption
<1>2. /\ c.state = "Candidate" /\ v \notin c.votes
      /\ r.term = c.term /\ (r.vote = i \/ r.vote = None)
      /\ LastTerm(c) > LastTerm(r) \/ (LastTerm(c) = LastTerm(r) /\ LastIndex(c) >= LastIndex(r))
      /\ node' = [node EXCEPT ![v] = r2, ![i] = w2]
  BY DEF Vote
<1>3. i # v
  BY <1>1, <1>2 DEF ServerOK, CandidateOK, Stands
<1>4. Advances(node, N1, B, A, MaxTerm) /\ r \in NodeRec
  <2>1. CASE node[v].term < c.term
    <3>1. TermsUpTo(node, MaxTerm) => c.term <= MaxTerm
      BY DEF TermsUpTo
    <3>2. None \in Server \cup {None} /\ c.term >= node[v].term
      BY <1>1, <2>1
    <3> DEFINE s == BecomeFollower(node[v], c.term, None)
    <3>3. Advances(node, Put(node, v, s), B, A, MaxTerm) /\ s \in NodeRec
      BY <1>1, <3>1, <3>2, HearAdvances
    <3> QED BY <2>1, <3>3
  <2>2. CASE ~(node[v].term < c.term)
    <3>1. Put(node, v, node[v]) = node
      BY <1>1, PutIs
    <3>2. Advances(node, Put(node, v, node[v]), B, A, MaxTerm)
      BY <1>1, <3>1, AdvancesPut
    <3> QED BY <1>1, <2>2, <3>2
  <2> QED BY <2>1, <2>2
<1> HIDE DEF r
<1>5. N1 \in [Server -> NodeRec] /\ N1[v] = r /\ (\A s \in Server \ {v} : N1[s] = node[s]) /\ Core(N1, B, A)
      /\ r.term \in Nat
  <2>1. N1 \in [Server -> NodeRec] /\ N1[v] = r /\ \A s \in Server \ {v} : N1[s] = node[s]
    BY <1>1, <1>4, PutIs
  <2>2. Core(N1, B, A) /\ r.term \in Nat
    BY <1>4 DEF Advances, NodeRec
  <2> QED BY <2>1, <2>2
<1>6. /\ r2 \in NodeRec /\ r2.term = r.term /\ r2.vote = i /\ r2.log = r.log /\ r2.committed = r.committed
      /\ r2.state = r.state /\ r2.votes = r.votes /\ r2.match = r.match /\ r2.readOnly = r.readOnly
  BY <1>4 DEF NodeRec
<1> HIDE DEF r2, N1
<1>7. Core(N2, B, A)
  BY <1>2, <1>5, <1>6, CalmPut
<1>8. Advances(N1, N2, B, A, MaxTerm)
  BY <1>1, <1>5, <1>6, <1>7, AdvancesPut
<1>9. N2 \in [Server -> NodeRec] /\ N2[v] = r2 /\ (\A s \in Server \ {v} : N2[s] = node[s])
  <2>1. N2 \in [Server -> NodeRec] /\ N2[v] = r2 /\ \A s \in Server \ {v} : N2[s] = N1[s]
    BY <1>5, <1>6, PutIs
  <2> QED BY <1>5, <2>1
<1> HIDE DEF N2
<1>10. /\ w \in NodeRec /\ w.term = c.term /\ w.vote = c.vote /\ w.log = c.log /\ w.committed = c.committed
       /\ w.state = "Candidate" /\ w.votes = c.votes \cup {v} /\ w.readOnly = c.readOnly
  <2>1. c.votes \cup {v} \in SUBSET Server
    BY <1>1
  <2> QED BY <1>1, <1>2, <2>1 DEF NodeRec
<1>11. N2[i] = c
  BY <1>3, <1>9
<1> HIDE DEF w, c
<1>12. Core(N3, B, A)
  <2>1. /\ N2[v].term = N2[i].term /\ N2[v].vote = i /\ N2[i].state = "Candidate"
        /\ \/ LastTerm(N2[i]) > LastTerm(N2[v])
           \/ LastTerm(N2[i]) = LastTerm(N2[v]) /\ Last(N2[i]) >= Last(N2[v])
    <3>1. LastTerm(r2) = LastTerm(r) /\ LastIndex(r2) = LastIndex(r)
      BY <1>6 DEF LastTerm, TermOf, LastIndex
    <3> QED BY <1>2, <1>6, <1>9, <1>11, <3>1 DEF LastIndex, Last
  <2> QED BY <1>7, <1>10, <1>11, <2>1, CountPut
<1>13. Advances(N2, N3, B, A, MaxTerm)
  BY <1>1, <1>2, <1>7, <1>10, <1>11, <1>12, AdvancesPut
<1>14. N3[i] = w /\ Put(N3, i, w2) = Put(N2, i, w2)
  BY <1>9, <1>10, PutAgain
<1> HIDE DEF N3
<1>15. Advances(N3, Put(N3, i, w2), B, A, MaxTerm)
  BY <1>1, <1>10, <1>12, <1>14, WinAdvances
<1> HIDE DEF w2
<1>16. node' = Put(N2, i, w2)
  <2>1. N2 = Put(node, v, r2)
    BY <1>1, <1>4, PutAgain DEF N1, N2
  <2> QED BY <1>2, <2>1 DEF Put
<1> QED BY <1>1, <1>4, <1>5, <1>7, <1>8, <1>12, <1>13, <1>14, <1>15, <1>16, AdvancesTwice

LEMMA ReplicateAdvances ==
    ASSUME NEW B, NEW A, Core(node, B, A), scenario \in Scenarios, NEW i \in Server, NEW j \in Server,
           NEW answered \in BOOLEAN, Replicate(i, j, answered)
    PROVE  Advances(node, node', B, A, MaxTerm)
<1> DEFINE l  == node[i]
           r  == IF node[j].term < l.term \/ node[j].state # "Follower"
                   THEN BecomeFollower(node[j], l.term, i) ELSE [node[j] EXCEPT !.lead = i]
           r1 == [r EXCEPT !.log = l.log]
           r2 == [r EXCEPT !.log = l.log, !.committed = Max2(@, l.committed)]
           w  == [l EXCEPT !.match[j] = LastIndex(l)]
           N1 == Put(node, j, r)
           N2 == Put(N1, j, r1)
           N3 == Put(N2, j, r2)
           N4 == Put(N3, i, w)
<1>1. /\ node \in [Server -> NodeRec] /\ l \in NodeRec /\ l.term \in Nat /\ MaxTerm \in Nat /\ node[j] \in NodeRec
      /\ node[j].term \in Nat /\ i \in Server \cup {None} /\ ServerOK(node, i)
      /\ l.log \in Seq(Nat) /\ l.committed \in Nat /\ l.match \in [Server -> Nat] /\ Last(l) \in Nat
  BY CoreFacts, MaxTermIs
<1>2. /\ l.state = "Leader" /\ i # j /\ node[j].term <= l.term
      /\ node' = [node EXCEPT ![j] = r2, ![i] = IF answered THEN MaybeCommit(w) ELSE l]
  BY DEF Replicate
<1>3. Advances(node, N1, B, A, MaxTerm) /\ r \in NodeRec /\ r.term = l.term /\ r.state = "Follower"
  <2>1. CASE node[j].term < l.term \/ node[j].state # "Follower"
    <3>1. (TermsUpTo(node, MaxTerm) => l.term <= MaxTerm) /\ l.term >= node[j].term
      BY <1>1, <1>2 DEF TermsUpTo
    <3> DEFINE s == BecomeFollower(node[j], l.term, i)
    <3>2. Advances(node, Put(node, j, s), B, A, MaxTerm) /\ s \in NodeRec /\ s.term = l.term /\ s.state = "Follower"
      BY <1>1, <3>1, HearAdvances
    <3> QED BY <2>1, <3>2
  <2>2. CASE ~(node[j].term < l.term \/ node[j].state # "Follower")
    <3> DEFINE s == [node[j] EXCEPT !.lead = i]
    <3>1. Advances(node, Put(node, j, s), B, A, MaxTerm) /\ s \in NodeRec /\ s.term = node[j].term
          /\ s.state = node[j].state
      BY <1>1, LeadAdvances
    <3>2. node[j].term = l.term /\ node[j].state = "Follower"
      BY <1>1, <1>2, <2>2
    <3> QED BY <2>2, <3>1, <3>2
  <2> QED BY <2>1, <2>2
<1> HIDE DEF r
<1>4. N1 \in [Server -> NodeRec] /\ N1[j] = r /\ \A s \in Server \ {j} : N1[s] = node[s]
  <2>1. node \in [Server -> NodeRec] /\ r \in NodeRec
    BY <1>1, <1>3
  <2> QED BY <2>1, PutIs
<1>5. Core(N1, B, A) /\ r.term \in Nat /\ r.committed \in Nat
  BY <1>3 DEF Advances, NodeRec
<1> HIDE DEF N1
<1>6. /\ r1 \in NodeRec /\ r1.term = r.term /\ r1.vote = r.vote /\ r1.log = l.log /\ r1.committed = r.committed
      /\ r1.state = r.state /\ r1.votes = r.votes /\ r1.match = r.match /\ r1.readOnly = r.readOnly
  BY <1>1, <1>3 DEF NodeRec
<1>7. Max2(r.committed, l.committed) \in Nat
  BY <1>1, <1>5 DEF Max2
<1>8. /\ r2 \in NodeRec /\ r2.term = r.term /\ r2.vote = r.vote /\ r2.log = l.log
      /\ r2.committed = Max2(r.committed, l.committed)
      /\ r2.state = r.state /\ r2.votes = r.votes /\ r2.match = r.match /\ r2.readOnly = r.readOnly
  BY <1>1, <1>3, <1>7 DEF NodeRec
<1> HIDE DEF r1, r2
<1>9. N1[i] = l
  BY <1>2, <1>4
<1> HIDE DEF l
<1>10. Core(N2, B, A)
  BY <1>2, <1>3, <1>4, <1>5, <1>6, <1>9, CopyPut
<1>11. Advances(N1, N2, B, A, MaxTerm)
  <2>1. MaxTerm \in Nat /\ Core(Put(N1, j, r1), B, A) /\ r1 \in NodeRec
    BY <1>1, <1>6, <1>10
  <2>2. r1.term = N1[j].term /\ r1.term \in Nat /\ r1.readOnly = N1[j].readOnly /\ r1.state = N1[j].state
    BY <1>4, <1>5, <1>6
  <2> QED BY <1>5, <2>1, <2>2, AdvancesPut
<1>12. N2 \in [Server -> NodeRec] /\ N2[j] = r1 /\ \A s \in Server \ {j} : N2[s] = N1[s]
  BY <1>4, <1>6, PutIs
<1>13. N2[i] = l
  BY <1>2, <1>9, <1>12
<1> HIDE DEF N2
<1>14. Core(N3, B, A)
  <2>1. ServerOK(N2, i)
    BY <1>10, CoreFacts
  <2>2. Cov(N2, l.committed, r1.term) /\ l.committed <= Last(l)
    BY <1>3, <1>6, <1>13, <2>1 DEF ServerOK, LogOK
  <2>3. l.committed <= Last(N2[j])
    BY <1>6, <1>12, <2>2 DEF Last
  <2> QED BY <1>1, <1>6, <1>8, <1>10, <1>12, <2>2, <2>3, RaisePut
<1>15. Advances(N2, N3, B, A, MaxTerm)
  <2>1. MaxTerm \in Nat /\ Core(Put(N2, j, r2), B, A) /\ r2 \in NodeRec
    BY <1>1, <1>8, <1>14
  <2>2. r2.term = N2[j].term /\ r2.term \in Nat /\ r2.readOnly = N2[j].readOnly /\ r2.state = N2[j].state
    BY <1>5, <1>6, <1>8, <1>12
  <2> QED BY <1>10, <2>1, <2>2, AdvancesPut
<1>16. N3 \in [Server -> NodeRec] /\ N3[j] = r2 /\ \A s \in Server \ {j} : N3[s] = N2[s]
  BY <1>8, <1>12, PutIs
<1>17. N3[i] = l
  BY <1>2, <1>13, <1>16
<1>18. N3 = Put(node, j, r2)
  <2>1. N2 = Put(node, j, r1)
    BY <1>1, <1>3, PutAgain DEF N1, N2
  <2> QED BY <1>1, <1>6, <2>1, PutAgain
<1> HIDE DEF N3
<1>19. Advances(node, N3, B, A, MaxTerm)
  <2>1. Advances(node, N2, B, A, MaxTerm)
    BY <1>1, <1>3, <1>11, AdvancesTwice
  <2> QED BY <1>1, <1>15, <2>1, AdvancesTwice
<1>20. CASE ~answered
  <2>1. node' = Put(N3, i, l)
    BY <1>2, <1>18, <1>20 DEF Put
  <2>2. Put(N3, i, N3[i]) = N3
    BY <1>1, <1>16, <1>17, PutIs
  <2> QED BY <1>17, <1>19, <2>1, <2>2
<1>21. CASE answered
  <2>1. node' = Put(N3, i, MaybeCommit(w))
    BY <1>2, <1>18, <1>21 DEF Put
  <2> DEFINE match == [l.match EXCEPT ![j] = Last(l)]
  <2>2. match \in [Server -> Nat]
    BY <1>1
  <2>3. w = [l EXCEPT !.match = match]
    BY <1>1 DEF NodeRec, LastIndex, Last
  <2> HIDE DEF match, w
  <2>4. /\ w \in NodeRec /\ w.term = l.term /\ w.vote = l.vote /\ w.log = l.log /\ w.committed = l.committed
        /\ w.state = l.state /\ w.match = match /\ w.readOnly = l.readOnly
    BY <1>1, <2>2, <2>3 DEF NodeRec
  <2>5. N3[j].log = N3[i].log /\ N3[j].term = N3[i].term
    BY <1>3, <1>8, <1>16, <1>17
  <2>6. Core(N4, B, A)
    <3>1. w.match = [N3[i].match EXCEPT ![j] = Last(N3[i])]
      BY <1>17, <2>4 DEF match
    <3> QED BY <1>2, <1>14, <1>17, <2>4, <2>5, <3>1, AckPut DEF N3
  <2>7. N4[i] = w /\ Put(N4, i, MaybeCommit(w)) = Put(N3, i, MaybeCommit(w))
    BY <1>16, <2>4, PutAgain
  <2>8. Core(Put(N4, i, MaybeCommit(w)), B, A) /\ ButCommitted(w, MaybeCommit(w))
    <3>1. N4[i].state = "Leader"
      BY <1>2, <2>4, <2>7
    <3> HIDE DEF N4
    <3>2. Core(Put(N4, i, MaybeCommit(N4[i])), B, A) /\ ButCommitted(N4[i], MaybeCommit(N4[i]))
      BY <2>6, <3>1, CommitPut
    <3> QED BY <2>7, <3>2
  <2> DEFINE z == MaybeCommit(w)
  <2>9. z \in NodeRec /\ z.term = l.term /\ z.state = l.state /\ z.readOnly = l.readOnly /\ Core(Put(N3, i, z), B, A)
    BY <2>4, <2>7, <2>8 DEF ButCommitted
  <2> HIDE DEF z
  <2>10. Advances(N3, Put(N3, i, z), B, A, MaxTerm)
    <3>1. Core(N3, B, A) /\ N3[i] = l
      BY <1>17, <1>19 DEF Advances
    <3> QED BY <1>1, <2>9, <3>1, AdvancesPut
  <2>11. Advances(node, Put(N3, i, z), B, A, MaxTerm)
    BY <1>1, <1>19, <2>10, AdvancesTwice
  <2> QED BY <2>1, <2>11 DEF z
<1> QED BY <1>20, <1>21

\* A heartbeat of a term that is not old (raft.go:1433-1436, 1509-1512).
LEMMA HeartbeatAdvances ==
    ASSUME NEW B, NEW A, Core(node, B, A), scenario \in Scenarios, NEW i \in Server, NEW m \in B,
           StepHeartbeat(i, m)
    PROVE  Advances(node, node', B, A, MaxTerm) /\ m.term \in Nat /\ node'[i].term = m.term
<1> DEFINE r  == IF m.term > node[i].term \/ node[i].state # "Follower"
                   THEN BecomeFollower(node[i], m.term, m.from) ELSE [node[i] EXCEPT !.lead = m.from]
           r2 == [r EXCEPT !.committed = Max2(@, m.index)]
           N1 == Put(node, i, r)
           N2 == Put(N1, i, r2)
<1>1. /\ node \in [Server -> NodeRec] /\ MaxTerm \in Nat /\ node[i] \in NodeRec /\ node[i].term \in Nat
  BY CoreFacts, MaxTermIs
<1>2. /\ m.to = i /\ m.term >= node[i].term /\ node' = Put(node, i, r2)
  BY DEF StepHeartbeat, Put
<1>3. BeatOK(node, m) /\ m.term \in Nat /\ m.from \in Server /\ node[m.from].term >= m.term /\ m.index \in Nat
  BY DEF Core, BeatOK, Led
<1>4. /\ Advances(node, N1, B, A, MaxTerm) /\ r \in NodeRec /\ r.term = m.term /\ r.log = node[i].log
      /\ r.committed = node[i].committed
  <2>a. m.from \in Server \cup {None}
    BY <1>3
  <2>1. CASE m.term > node[i].term \/ node[i].state # "Follower"
    <3>1. TermsUpTo(node, MaxTerm) => m.term <= MaxTerm
      <4>1. node[m.from].term \in Nat
        BY <1>3, CoreFacts
      <4> QED BY <1>1, <1>3, <4>1 DEF TermsUpTo
    <3> DEFINE s == BecomeFollower(node[i], m.term, m.from)
    <3>2. /\ Advances(node, Put(node, i, s), B, A, MaxTerm) /\ s \in NodeRec /\ s.term = m.term
          /\ s.log = node[i].log /\ s.committed = node[i].committed
      BY <1>1, <1>2, <1>3, <2>a, <3>1, HearAdvances
    <3> QED BY <2>1, <3>2
  <2>2. CASE ~(m.term > node[i].term \/ node[i].state # "Follower")
    <3> DEFINE s == [node[i] EXCEPT !.lead = m.from]
    <3>1. /\ Advances(node, Put(node, i, s), B, A, MaxTerm) /\ s \in NodeRec /\ s.term = node[i].term
          /\ s.log = node[i].log /\ s.committed = node[i].committed
      BY <1>1, <2>a, LeadAdvances
    <3>2. node[i].term = m.term
      BY <1>1, <1>2, <1>3, <2>2
    <3> QED BY <2>2, <3>1, <3>2
  <2> QED BY <2>1, <2>2
<1> HIDE DEF r
<1>5. Core(N1, B, A) /\ r.term \in Nat /\ r.committed \in Nat
  BY <1>4 DEF Advances, NodeRec
<1>6. N1 \in [Server -> NodeRec] /\ N1[i] = r
  BY <1>1, <1>4, PutIs
<1> HIDE DEF N1
<1>7. Max2(r.committed, m.index) \in Nat
  BY <1>3, <1>5 DEF Max2
<1>8. /\ r2 \in NodeRec /\ r2.term = r.term /\ r2.vote = r.vote /\ r2.log = r.log
      /\ r2.committed = Max2(r.committed, m.index)
      /\ r2.state = r.state /\ r2.votes = r.votes /\ r2.match = r.match /\ r2.readOnly = r.readOnly
  BY <1>4, <1>7 DEF NodeRec
<1> HIDE DEF r2
<1>9. Core(N2, B, A)
  <2>1. BeatOK(N1, m)
    BY <1>5 DEF Core
  <2>2. Cov(N1, m.index, N1[i].term) /\ m.index <= Last(N1[i])
    BY <1>2, <1>3, <1>4, <1>6, <2>1 DEF BeatOK
  <2> QED BY <1>3, <1>5, <1>6, <1>8, <2>2, RaisePut
<1>10. Advances(N1, N2, B, A, MaxTerm)
  BY <1>1, <1>5, <1>6, <1>8, <1>9, AdvancesPut
<1>11. Advances(node, N2, B, A, MaxTerm)
  BY <1>1, <1>4, <1>10, AdvancesTwice
<1>12. N2 = Put(node, i, r2) /\ Put(node, i, r2)[i] = r2
  BY <1>1, <1>4, <1>8, PutAgain DEF N1
<1> QED BY <1>2, <1>3, <1>4, <1>8, <1>11, <1>12

-----------------------------------------------------------------------------
(* What was committed when a read is asked for *)

\* A finite set of numbers has a largest one, by the smallest set that has none.
LEMMA LargestNat ==
    ASSUME NEW C \in SUBSET Nat, IsFiniteSet(C), C # {}
    PROVE  \E k \in C : \A l \in C : l <= k
<1> DEFINE Top(S)  == \E k \in S : \A l \in S : l <= k
           Topless == {n \in Nat : \E S \in SUBSET Nat : IsFiniteSet(S) /\ S # {} /\ Cardinality(S) = n /\ ~Top(S)}
<1>1. Topless = {}
  <2> SUFFICES ASSUME Topless # {} PROVE FALSE
    OBVIOUS
  <2>1. PICK n \in Topless : \A m \in Topless : n <= m
    BY LeastNat
  <2>2. PICK S \in SUBSET Nat : IsFiniteSet(S) /\ S # {} /\ Cardinality(S) = n /\ ~Top(S)
    BY <2>1
  <2>3. PICK e \in S : TRUE
    BY <2>2
  <2>4. IsFiniteSet(S \ {e}) /\ Cardinality(S \ {e}) = n - 1 /\ n \in Nat
    <3>1. n \in Nat /\ e \in S /\ IsFiniteSet(S) /\ Cardinality(S) = n
      BY <2>1, <2>2, <2>3
    <3> HIDE DEF Top, Topless
    <3> QED BY <3>1, FS_RemoveElement
  <2>5. Cardinality(S \ {e}) \in Nat /\ n - 1 \notin Topless
    <3> HIDE DEF Top, Topless
    <3>1. Cardinality(S \ {e}) \in Nat
      BY <2>4, FS_CardinalityType
    <3>2. ASSUME n - 1 \in Topless PROVE FALSE
      <4>1. n <= n - 1
        BY <2>1, <3>2
      <4> QED BY <2>4, <4>1
    <3> QED BY <3>1, <3>2
  <2>6. S \ {e} = {} \/ Top(S \ {e})
    BY <2>4, <2>5
  <2>7. CASE S \ {e} = {}
    BY <2>2, <2>3, <2>7
  <2>8. CASE Top(S \ {e})
    <3>1. PICK k \in S \ {e} : \A l \in S \ {e} : l <= k
      BY <2>8
    <3>2. CASE e <= k
      <4>1. k \in S /\ \A l \in S : l <= k
        BY <2>3, <3>1, <3>2
      <4> QED BY <2>2, <4>1
    <3>3. CASE ~(e <= k)
      <4>1. k \in Nat /\ e \in Nat /\ e \in S
        BY <2>2, <2>3, <3>1
      <4>2. ASSUME NEW l \in S PROVE l <= e
        <5>1. CASE l = e
          BY <4>1, <5>1
        <5>2. CASE l # e
          <6>1. l <= k /\ l \in Nat
            BY <2>2, <3>1, <4>2, <5>2
          <6> QED BY <3>3, <4>1, <6>1
        <5> QED BY <5>1, <5>2
      <4> QED BY <2>2, <4>1, <4>2
    <3> QED BY <3>2, <3>3
  <2> QED BY <2>6, <2>7, <2>8
<1>2. Cardinality(C) \in Nat
  BY FS_CardinalityType
<1>3. Top(C)
  BY <1>1, <1>2
<1> QED BY <1>3

LEMMA CommittedSomewhereIs ==
    ASSUME NEW B, NEW A, Core(node, B, A)
    PROVE  AskOK(node, CommittedSomewhere)
<1> DEFINE C == {node[i].committed : i \in Server}
<1>1. C \in SUBSET Nat
  BY CoreFacts
<1>2. IsFiniteSet(C)
  <2> DEFINE f == [i \in Server |-> node[i].committed]
  <2>1. f \in Surjection(Server, C) /\ IsFiniteSet(Server)
    BY ServersAre DEF Surjection
  <2> HIDE DEF f, C
  <2> QED BY <2>1, FS_Surjection
<1>3. C # {}
  BY ServersAre
<1>4. CommittedSomewhere = CHOOSE k \in C : \A l \in C : l <= k
  BY DEF CommittedSomewhere
<1>5. CommittedSomewhere \in C
  <2> HIDE DEF C
  <2>1. \E k \in C : \A l \in C : l <= k
    BY <1>1, <1>2, <1>3, LargestNat
  <2> QED BY <1>4, <2>1
<1>6. PICK s \in Server : CommittedSomewhere = node[s].committed
  BY <1>5
<1>7. ServerOK(node, s) /\ node[s].committed \in Nat /\ node[s].term \in Nat
  BY CoreFacts
<1>8. Cov(node, node[s].committed, node[s].term) /\ node[s].committed <= node[s].committed
  BY <1>7 DEF ServerOK
<1> QED BY <1>6, <1>7, <1>8 DEF AskOK

\* A leader that has committed in its term knows of everything that was committed, unless a
\* quorum is past its term (raft.go:1075-1078).
LEMMA LeaderKnows ==
    ASSUME NEW N, NEW B, NEW A, Core(N, B, A), NEW i \in Server, N[i].state = "Leader",
           CommittedEntryInCurrentTerm(N[i]), NEW n, AskOK(N, n)
    PROVE  n <= N[i].committed \/ \E Q \in SUBSET Server : Quorum(Q) /\ \A q \in Q : N[q].term > N[i].term
<1>1. /\ N \in [Server -> NodeRec] /\ ServerOK(N, i) /\ N[i].term \in Nat /\ N[i].committed \in Nat
      /\ Last(N[i]) \in Nat /\ AllOK(N)
  BY CoreFacts
<1>2. Leads(N, i) /\ LeaderOK(N, i) /\ LogOK(N, i)
  BY <1>1 DEF Leads, ServerOK
<1>3. n \in Nat /\ \E T \in Nat : Cov(N, n, T)
  BY DEF AskOK
<1>4. N[i].committed \in 1..Last(N[i]) /\ N[i].log[N[i].committed] = N[i].term
  BY <1>1, <1>2 DEF CommittedEntryInCurrentTerm, TermOf, LeaderOK, LogOK
<1>5. CASE n = 0
  BY <1>1, <1>5
<1>6. CASE n # 0
  <2>1. PICK k \in Nat, t \in Nat, Q \in SUBSET Server : k >= n /\ Safe(N, k, t, Q)
    BY <1>3, <1>6 DEF Cov
  <2>2. CASE t = N[i].term
    BY <1>1, <1>2, <1>3, <2>1, <2>2 DEF Safe
  <2>3. CASE t < N[i].term
    <3>1. Backs(N, i, k, t)
      BY <1>1, <1>2, <2>1, <2>3, LeaderEnd DEF Safe
    <3>2. k \in 1..Last(N[i]) /\ N[i].log[k] = t
      BY <3>1 DEF Backs
    <3>3. ~(N[i].committed <= k)
      BY <1>1, <1>2, <1>4, <2>1, <2>3, <3>2 DEF LogOK
    <3> QED BY <1>1, <1>3, <2>1, <3>3
  <2>4. CASE t > N[i].term
    <3>1. ASSUME NEW q \in Q PROVE N[q].term > N[i].term
      <4>1. q \in Server /\ k \in 1..Last(N[q]) /\ N[q].log[k] = t
        BY <2>1, <3>1 DEF Safe, Backs
      <4>2. N[q].term >= t /\ N[q].term \in Nat
        BY <1>1, <4>1, NodeFields DEF AllOK, ServerOK, LogOK
      <4> QED BY <1>1, <2>1, <2>4, <4>2
    <3> QED BY <2>1, <3>1 DEF Safe
  <2> QED BY <1>1, <2>1, <2>2, <2>3, <2>4
<1> QED BY <1>5, <1>6

\* What a leader sends (raft.go:489-535)
LEMMA BeatsSent ==
    ASSUME NEW B, NEW A, Core(node, B, A), scenario \in Scenarios, NEW i \in Server, node[i].state = "Leader",
           NEW r, r.term = node[i].term, r.match = node[i].match, r.committed = node[i].committed,
           NEW ctx \in Request \cup {None}
    PROVE  /\ Core(node, B \cup Heartbeats(i, r, ctx), A)
           /\ Heartbeats(i, r, ctx) \subseteq Messages
           /\ \A m \in Heartbeats(i, r, ctx) : m.type = "MsgHeartbeat" /\ m.ctx = ctx /\ m.term = node[i].term
<1>1. /\ node \in [Server -> NodeRec] /\ ServerOK(node, i) /\ node[i].term \in Nat /\ node[i].committed \in Nat
      /\ node[i].match \in [Server -> Nat]
  BY CoreFacts
<1>2. LeaderOK(node, i) /\ MatchOK(node, i)
  BY <1>1 DEF Leads, ServerOK
<1> SUFFICES ASSUME NEW m \in Heartbeats(i, r, ctx)
             PROVE  /\ BeatOK(node, m) /\ m \in Messages
                    /\ m.type = "MsgHeartbeat" /\ m.ctx = ctx /\ m.term = node[i].term
  BY DEF Core
<1>3. PICK p \in Up : m = Msg("MsgHeartbeat", i, p, r.term, ctx, Min2(r.match[p], r.committed))
  BY DEF Heartbeats
<1>4. p \in Server /\ node[p].term \in Nat /\ Last(node[p]) \in Nat /\ node[i].match[p] \in Nat
  BY <1>1, MaxTermIs, NodeFields
<1> DEFINE n == Min2(node[i].match[p], node[i].committed)
<1>5. n \in Nat /\ n <= node[i].match[p] /\ n <= node[i].committed
  BY <1>1, <1>4 DEF Min2
<1>6. /\ m.type = "MsgHeartbeat" /\ m.from = i /\ m.to = p /\ m.term = node[i].term /\ m.ctx = ctx /\ m.index = n
      /\ m = [type |-> "MsgHeartbeat", from |-> i, to |-> p, term |-> node[i].term, ctx |-> ctx, index |-> n]
  BY <1>3 DEF Msg
<1> HIDE DEF n
<1>7. m \in Messages
  BY <1>1, <1>4, <1>5, <1>6 DEF Messages
<1>8. Cov(node, n, node[i].term)
  <2>1. Cov(node, node[i].committed, node[i].term)
    BY <1>1 DEF ServerOK
  <2>2. CASE n = 0
    BY <2>2 DEF Cov
  <2>3. CASE n # 0
    <3>1. node[i].committed # 0
      BY <1>1, <1>5, <2>3
    <3>2. PICK k \in Nat, t \in Nat, Q \in SUBSET Server :
             k >= node[i].committed /\ t <= node[i].term /\ Safe(node, k, t, Q)
      BY <2>1, <3>1 DEF Cov
    <3>3. k >= n
      BY <1>1, <1>5, <3>2
    <3> QED BY <3>2, <3>3 DEF Cov
  <2> QED BY <2>2, <2>3
<1>9. /\ node[i].match[p] > 0 => node[p].term >= node[i].term
      /\ node[p].term = node[i].term => node[i].match[p] <= Last(node[p])
  BY <1>2, <1>4 DEF MatchOK
<1>10. n > 0 => node[p].term >= node[i].term
  BY <1>4, <1>5, <1>9
<1>11. node[p].term <= node[i].term => n <= Last(node[p])
  BY <1>1, <1>4, <1>5, <1>9, <1>10
<1>12. Led(node, node[i].term, i)
  BY <1>2 DEF LeaderOK
<1> QED BY <1>4, <1>5, <1>6, <1>7, <1>8, <1>10, <1>11, <1>12 DEF BeatOK

-----------------------------------------------------------------------------
(* The queues of reads under elections, replication and heartbeats *)

\* A new message m that tells nothing new: a heartbeat, or the answer to one.
Echo(N, M, m) ==
    /\ m.type \in {"MsgHeartbeat", "MsgHeartbeatResp"}
    /\ m.ctx = None \/ Taken(N, M, m.ctx)
    /\ m.type = "MsgHeartbeatResp" => m.term >= N[m.from].term

LEMMA RequestIs == ASSUME NEW x \in Request PROVE x # None
  BY ReadIndexAssumption

LEMMA MessageFields ==
    ASSUME NEW m \in Messages
    PROVE  m.term \in Nat /\ m.from \in Server /\ m.to \in Server /\ m.index \in Nat /\ m.ctx \in Request \cup {None}
  BY DEF Messages

LEMMA ReadOnlyFields ==
    ASSUME NEW ro \in ReadOnly
    PROVE  /\ ro.queue \in Seq(Request) /\ Len(ro.queue) \in Nat /\ DOMAIN ro.pending \in SUBSET Request
           /\ ro.pending \in [DOMAIN ro.pending -> Status] /\ ro.panicked \in BOOLEAN
           /\ \A k \in 1..Len(ro.queue) : ro.queue[k] \in Request
           /\ \A x \in DOMAIN ro.pending : /\ ro.pending[x] \in Status /\ ro.pending[x].index \in Nat
                                           /\ ro.pending[x].from \in Server /\ ro.pending[x].acks \in SUBSET Server
<1>1. /\ ro.queue \in Seq(Request) /\ ro.panicked \in BOOLEAN
      /\ ro.pending \in UNION {[S -> Status] : S \in SUBSET Request}
  BY DEF ReadOnly
<1>2. PICK S \in SUBSET Request : ro.pending \in [S -> Status]
  BY <1>1
<1>3. DOMAIN ro.pending = S /\ \A x \in S : ro.pending[x] \in Status
  BY <1>2
<1>4. \A x \in S : ro.pending[x].index \in Nat /\ ro.pending[x].from \in Server /\ ro.pending[x].acks \in SUBSET Server
  BY <1>3 DEF Status
<1> QED BY <1>1, <1>2, <1>3, <1>4

\* Terms do not decrease, and nobody acknowledges a heartbeat of a term that it is past.
Onward(N, M, N2, M2) ==
    /\ \A s \in Server : N2[s].term >= N[s].term
    /\ \A m \in M2 \ M : m.type = "MsgHeartbeatResp" => m.term >= N[m.from].term

\* A quorum that is past the term of a leader answers it no more (raft.go:871-905).
LEMMA PastStays ==
    ASSUME NEW N \in [Server -> NodeRec], NEW N2 \in [Server -> NodeRec],
           NEW M, NEW M2, Onward(N, M, N2, M2),
           NEW i \in Server, N2[i].readOnly = N[i].readOnly, N2[i].term = N[i].term,
           NEW p, Past(N, M, i, p)
    PROVE  Past(N2, M2, i, p)
<1> DEFINE ro == N[i].readOnly
           t  == N[i].term
<1>1. PICK Q \in SUBSET Server :
         Quorum(Q) /\ \A q \in Q : N[q].term > t /\ \A k \in p..Len(ro.queue) : Silent(M, i, t, ro, ro.queue[k], q)
  BY DEF Past
<1>2. t \in Nat
  BY NodeFields
<1>3. ASSUME NEW q \in Q
      PROVE  N2[q].term > t /\ \A k \in p..Len(ro.queue) : Silent(M2, i, t, ro, ro.queue[k], q)
  <2>1. N[q].term > t /\ N[q].term \in Nat /\ N2[q].term \in Nat /\ N2[q].term >= N[q].term
    BY <1>1, <1>3, NodeFields DEF Onward
  <2>2. ASSUME NEW k \in p..Len(ro.queue) PROVE Silent(M2, i, t, ro, ro.queue[k], q)
    <3>1. Silent(M, i, t, ro, ro.queue[k], q)
      BY <1>1, <1>3, <2>2
    <3>2. ASSUME NEW m \in M2, m.type = "MsgHeartbeatResp", m.from = q, m.to = i, m.term = t, m.ctx = ro.queue[k]
          PROVE  FALSE
      <4>1. m \notin M
        BY <3>1, <3>2 DEF Silent
      <4>2. m.term >= N[q].term
        BY <3>2, <4>1 DEF Onward
      <4> QED BY <1>2, <2>1, <3>2, <4>2
    <3> QED BY <3>1, <3>2 DEF Silent
  <2> QED BY <1>2, <2>1, <2>2
<1> QED BY <1>1, <1>3 DEF Past

\* A queue that is not touched
LEMMA QueueStays ==
    ASSUME NEW N \in [Server -> NodeRec], NEW N2 \in [Server -> NodeRec],
           NEW M, NEW M2, Onward(N, M, N2, M2),
           NEW i \in Server, N2[i].readOnly = N[i].readOnly, N2[i].term = N[i].term, N2[i].state = N[i].state,
           NEW a, QueueOK(N, M, a, i)
    PROVE  QueueOK(N2, M2, a, i)
<1>1. \A p : Past(N, M, i, p) => Past(N2, M2, i, p)
  BY PastStays
<1> QED BY <1>1 DEF QueueOK, Leads

\* Nothing is taken up.
LEMMA TakenStays ==
    ASSUME NEW N, NEW N2, ReadsStay(N, N2),
           NEW M, NEW M2, \A m \in M2 \ M : Echo(N, M, m), NEW x \in Request, Taken(N2, M2, x)
    PROVE  Taken(N, M, x)
<1>1. CASE \E i \in Server : x \in DOMAIN N2[i].readOnly.pending
  BY <1>1, EmptyReadOnly DEF ReadsStay, Taken
<1>2. CASE \E m \in M2 : m.ctx = x /\ m.type # "MsgReadIndex"
  BY <1>2, RequestIs DEF Echo, Taken
<1> QED BY <1>1, <1>2 DEF Taken

LEMMA ReadsAdvance ==
    ASSUME NEW N \in [Server -> NodeRec], NEW N2 \in [Server -> NodeRec], ReadsStay(N, N2),
           NEW M, NEW M2 \in SUBSET Messages, \A m \in M2 \ M : Echo(N, M, m),
           NEW a, NEW rs, ReadsOK(N, M, a, rs)
    PROVE  ReadsOK(N2, M2, a, rs)
<1>1. ASSUME NEW i \in Server PROVE QueueOK(N2, M2, a, i)
  <2>1. QueueOK(N, M, a, i)
    BY DEF ReadsOK
  <2>2. CASE N2[i].readOnly = NewReadOnly
    <3> DEFINE ro == N2[i].readOnly
    <3>1. ro.queue = <<>> /\ DOMAIN ro.pending = {} /\ ~ro.panicked
      BY <2>2, EmptyReadOnly
    <3>2. 1..Len(ro.queue) = {}
      BY <3>1
    <3> HIDE DEF ro
    <3> QED BY <3>1, <3>2 DEF QueueOK, ro
  <2>3. CASE N2[i].readOnly = N[i].readOnly /\ N2[i].term = N[i].term /\ N2[i].state = N[i].state
    <3>1. Onward(N, M, N2, M2)
      BY DEF Onward, ReadsStay, Echo
    <3> QED BY <2>1, <2>3, <3>1, QueueStays
  <2> QED BY <2>2, <2>3 DEF ReadsStay
<1>2. ASSUME NEW x \in Request PROVE RequestOK(N2, M2, a, x)
  <2>1. RequestOK(N, M, a, x) /\ (Taken(N2, M2, x) => Taken(N, M, x)) /\ x # None
    BY TakenStays, RequestIs DEF ReadsOK
  <2>2. a[x] = None => ~Taken(N2, M2, x) /\ \A m \in M2 : m.ctx # x
    BY <2>1 DEF RequestOK, Echo
  <2>3. \A m \in M2 : m.type = "MsgReadIndex" => m \in M
    BY DEF Echo
  <2> QED BY <2>1, <2>2, <2>3 DEF RequestOK
<1>3. \A m \in M2 : m.type \in {"MsgReadIndex", "MsgReadIndexResp"} => m \in M
  BY DEF Echo
<1> QED BY <1>1, <1>2, <1>3 DEF ReadsOK

-----------------------------------------------------------------------------
(* The steps that ask for nothing and answer nothing *)

LEMMA InvFacts ==
    ASSUME ReadInv
    PROVE  /\ scenario \in Scenarios /\ Core(node, Beats(net), Asked(asked)) /\ ReadsOK(node, net, asked, readStates)
           /\ TermsUpTo(node, MaxTerm) /\ node \in [Server -> NodeRec] /\ net \in SUBSET Messages
           /\ asked \in [Request -> Nat \cup {None}] /\ MaxTerm \in Nat /\ Up \subseteq Server
           /\ \A m \in net : m.term <= MaxTerm
<1>1. /\ scenario \in Scenarios /\ Core(node, Beats(net), Asked(asked)) /\ ReadsOK(node, net, asked, readStates)
      /\ TermsUpTo(node, MaxTerm) /\ \A m \in net : m.term <= MaxTerm
  BY DEF ReadInv, TermsUpTo
<1>2. node \in [Server -> NodeRec]
  BY <1>1 DEF Core, AllOK
<1>3. net \in SUBSET Messages /\ asked \in [Request -> Nat \cup {None}]
  BY <1>1 DEF ReadsOK
<1> QED BY <1>1, <1>2, <1>3, MaxTermIs

LEMMA StayStill ==
    ASSUME NEW N \in [Server -> NodeRec]
    PROVE  ReadsStay(N, N)
  BY NodeFields DEF ReadsStay

\* What was answered covers what was asked for.
ReadStatesOK(a, rs) ==
    /\ rs \in [Server -> SUBSET [ctx : Request, index : Nat]]
    /\ \A i \in Server : \A s \in rs[i] : a[s.ctx] \in Nat /\ s.index >= a[s.ctx]

LEMMA AdvanceKeeps ==
    ASSUME ReadInv, node' \in [Server -> NodeRec], ReadsStay(node, node'), TermsUpTo(node', MaxTerm),
           UNCHANGED <<asked, scenario>>, readStates' = readStates \/ ReadStatesOK(asked, readStates'),
           net' \in SUBSET Messages, \A m \in net' \ net : Echo(node, net, m) /\ m.term <= MaxTerm,
           Core(node', Beats(net'), Asked(asked))
    PROVE  ReadInv'
<1>1. /\ scenario \in Scenarios /\ ReadsOK(node, net, asked, readStates)
      /\ node \in [Server -> NodeRec] /\ \A m \in net : m.term <= MaxTerm
  BY InvFacts
<1>2. ReadsOK(node', net', asked, readStates')
  <2>1. \A m \in net' \ net : Echo(node, net, m)
    OBVIOUS
  <2>2. ReadsOK(node', net', asked, readStates)
    BY <1>1, <2>1, ReadsAdvance
  <2> QED BY <2>2 DEF ReadsOK, ReadStatesOK
<1>3. MaxTerm' = MaxTerm /\ asked' = asked /\ scenario' = scenario
  BY DEF MaxTerm
<1>4. \A m \in net' : m.term <= MaxTerm
  BY <1>1
<1>5. ReadsOK(node', net', asked', readStates') /\ Core(node', Beats(net'), Asked(asked'))
  BY <1>2, <1>3
<1>6. (\A s \in Server : node'[s].term <= MaxTerm') /\ \A m \in net' : m.term <= MaxTerm'
  BY <1>3, <1>4 DEF TermsUpTo
<1>7. scenario' \in Scenarios
  BY <1>1, <1>3
<1> QED BY <1>5, <1>6, <1>7 DEF ReadInv

\* Elections and replication
LEMMA QuietKeeps ==
    ASSUME ReadInv, Advances(node, node', Beats(net), Asked(asked), MaxTerm),
           UNCHANGED <<net, asked, readStates, scenario>>
    PROVE  ReadInv'
<1>1. net \in SUBSET Messages /\ TermsUpTo(node, MaxTerm)
  BY InvFacts
<1>2. /\ Core(node', Beats(net), Asked(asked)) /\ ReadsStay(node, node') /\ TermsUpTo(node', MaxTerm)
      /\ net' = net
  BY <1>1 DEF Advances
<1>3. node' \in [Server -> NodeRec]
  BY <1>2 DEF Core, AllOK
<1> QED BY <1>1, <1>2, <1>3, AdvanceKeeps

LEMMA BeatKeeps ==
    ASSUME ReadInv, NEW i \in Server, Beat(i)
    PROVE  ReadInv'
<1>1. /\ scenario \in Scenarios /\ Core(node, Beats(net), Asked(asked)) /\ ReadsOK(node, net, asked, readStates)
      /\ TermsUpTo(node, MaxTerm) /\ node \in [Server -> NodeRec] /\ net \in SUBSET Messages
  BY InvFacts
<1> DEFINE ro  == node[i].readOnly
           ctx == LastPendingRequestCtx(ro)
           H   == Heartbeats(i, node[i], ctx)
<1>2. node[i].state = "Leader" /\ net' = net \cup H /\ node' = node /\ UNCHANGED <<asked, readStates, scenario>>
  BY DEF Beat
<1>3. ctx \in Request \cup {None} /\ (ctx = None \/ Taken(node, net, ctx))
  <2>1. CASE ro.queue = <<>>
    BY <2>1 DEF LastPendingRequestCtx
  <2>2. CASE ro.queue # <<>>
    <3>1. ro \in ReadOnly /\ QueueOK(node, net, asked, i)
      BY <1>1, CoreFacts DEF ReadsOK
    <3>2. ro.queue \in Seq(Request)
      BY <3>1, ReadOnlyFields
    <3>3. Len(ro.queue) \in 1..Len(ro.queue)
      BY <2>2, <3>2
    <3>4. ctx = ro.queue[Len(ro.queue)]
      BY <2>2 DEF LastPendingRequestCtx
    <3>5. ctx \in DOMAIN ro.pending /\ ctx \in Request
      BY <3>1, <3>2, <3>3, <3>4 DEF QueueOK
    <3> QED BY <3>5 DEF Taken
  <2> QED BY <2>1, <2>2
<1> HIDE DEF ctx, H
<1>4. /\ Core(node, Beats(net) \cup H, Asked(asked)) /\ H \subseteq Messages
      /\ \A m \in H : m.type = "MsgHeartbeat" /\ m.ctx = ctx /\ m.term = node[i].term
  <2>1. /\ Core(node, Beats(net), Asked(asked)) /\ scenario \in Scenarios /\ node[i].state = "Leader"
        /\ ctx \in Request \cup {None}
    BY <1>1, <1>2, <1>3
  <2> DEFINE r == node[i]
  <2>2. r.term = node[i].term /\ r.match = node[i].match /\ r.committed = node[i].committed
    OBVIOUS
  <2> HIDE DEF r
  <2>3. /\ Core(node, Beats(net) \cup Heartbeats(i, r, ctx), Asked(asked)) /\ Heartbeats(i, r, ctx) \subseteq Messages
        /\ \A m \in Heartbeats(i, r, ctx) : m.type = "MsgHeartbeat" /\ m.ctx = ctx /\ m.term = node[i].term
    BY <2>1, <2>2, BeatsSent
  <2> QED BY <2>3 DEF H, r
<1>5. Beats(net') = Beats(net) \cup H
  BY <1>2, <1>4 DEF Beats
<1>6. \A m \in net' \ net : Echo(node, net, m) /\ m.term <= MaxTerm
  <2>1. node[i].term <= MaxTerm
    BY <1>1 DEF TermsUpTo
  <2>2. ASSUME NEW m \in H PROVE Echo(node, net, m) /\ m.term <= MaxTerm
    BY <1>3, <1>4, <2>1, <2>2 DEF Echo
  <2> QED BY <1>2, <2>2
<1>7. ReadsStay(node, node')
  BY <1>1, <1>2, StayStill
<1>8. node' \in [Server -> NodeRec] /\ TermsUpTo(node', MaxTerm) /\ net' \in SUBSET Messages
      /\ Core(node', Beats(net'), Asked(asked))
  BY <1>1, <1>2, <1>4, <1>5
<1> QED BY <1>2, <1>6, <1>7, <1>8, AdvanceKeeps

LEMMA LoseKeeps ==
    ASSUME ReadInv, NEW m \in net, Lose(m)
    PROVE  ReadInv'
<1>1. /\ Core(node, Beats(net), Asked(asked)) /\ TermsUpTo(node, MaxTerm) /\ node \in [Server -> NodeRec]
      /\ net \in SUBSET Messages
  BY InvFacts
<1>2. net' = net \ {m} /\ node' = node /\ UNCHANGED <<asked, readStates, scenario>>
  BY DEF Lose
<1>3. Core(node', Beats(net'), Asked(asked))
  BY <1>1, <1>2 DEF Core, Beats
<1>4. ReadsStay(node, node')
  BY <1>1, <1>2, StayStill
<1>5. net' \in SUBSET Messages /\ net' \ net = {} /\ node' \in [Server -> NodeRec] /\ TermsUpTo(node', MaxTerm)
  BY <1>1, <1>2
<1> QED BY <1>2, <1>3, <1>4, <1>5, AdvanceKeeps

LEMMA StepHeartbeatKeeps ==
    ASSUME ReadInv, NEW i \in Server, NEW m \in net, StepHeartbeat(i, m)
    PROVE  ReadInv'
<1>1. /\ scenario \in Scenarios /\ Core(node, Beats(net), Asked(asked)) /\ m \in Messages
      /\ TermsUpTo(node, MaxTerm) /\ net \in SUBSET Messages /\ m.term <= MaxTerm
  BY InvFacts
<1> DEFINE a == Msg("MsgHeartbeatResp", i, m.from, m.term, m.ctx, 0)
<1>2. /\ m.type = "MsgHeartbeat" /\ m.term >= node[i].term /\ net' = net \cup {a}
      /\ UNCHANGED <<asked, readStates, scenario>>
  BY DEF StepHeartbeat
<1>3. Advances(node, node', Beats(net), Asked(asked), MaxTerm)
  <2>1. m \in Beats(net)
    BY <1>2 DEF Beats
  <2> QED BY <1>1, <2>1, HeartbeatAdvances
<1>4. /\ a.type = "MsgHeartbeatResp" /\ a.from = i /\ a.term = m.term /\ a.ctx = m.ctx /\ a \in Messages
  <2>1. m.term \in Nat /\ m.from \in Server /\ m.ctx \in Request \cup {None}
    BY <1>1, MessageFields
  <2> QED BY <2>1 DEF Msg, Messages
<1> HIDE DEF a
<1>5. Echo(node, net, a)
  BY <1>2, <1>4 DEF Echo, Taken
<1>6. Core(node', Beats(net), Asked(asked)) /\ ReadsStay(node, node') /\ TermsUpTo(node', MaxTerm)
  BY <1>1, <1>3 DEF Advances
<1>7. Beats(net') = Beats(net)
  BY <1>2, <1>4 DEF Beats
<1>8. node' \in [Server -> NodeRec] /\ Core(node', Beats(net'), Asked(asked))
  BY <1>6, <1>7 DEF Core, AllOK
<1>9. net' \in SUBSET Messages /\ \A b \in net' \ net : Echo(node, net, b) /\ b.term <= MaxTerm
  BY <1>1, <1>2, <1>4, <1>5
<1> QED BY <1>2, <1>6, <1>8, <1>9, AdvanceKeeps

-----------------------------------------------------------------------------
(* Answers *)

\* A follower takes the answer of a leader (raft.go:1461-1466).
LEMMA StepReadIndexRespKeeps ==
    ASSUME ReadInv, NEW i \in Server, NEW m \in net, StepReadIndexResp(i, m)
    PROVE  ReadInv'
<1>1. /\ scenario \in Scenarios /\ Core(node, Beats(net), Asked(asked)) /\ ReadsOK(node, net, asked, readStates)
      /\ TermsUpTo(node, MaxTerm) /\ node \in [Server -> NodeRec] /\ net \in SUBSET Messages
      /\ MaxTerm \in Nat /\ m.term <= MaxTerm /\ m.term \in Nat /\ m.index \in Nat
  BY InvFacts, MessageFields
<1> DEFINE r  == IF m.term > node[i].term THEN BecomeFollower(node[i], m.term, None) ELSE node[i]
           rs == [ctx |-> m.ctx, index |-> m.index]
<1>2. /\ m.type = "MsgReadIndexResp" /\ m.term >= node[i].term /\ node' = Put(node, i, r)
      /\ readStates' = (IF r.state # "Follower" THEN readStates
                         ELSE [readStates EXCEPT ![i] = @ \cup {rs}])
      /\ UNCHANGED <<net, asked, scenario>>
  BY DEF StepReadIndexResp, Put
<1>3. Core(node', Beats(net), Asked(asked)) /\ ReadsStay(node, node') /\ TermsUpTo(node', MaxTerm)
  <2>1. CASE m.term > node[i].term
    <3> DEFINE s == BecomeFollower(node[i], m.term, None)
    <3>1. Advances(node, Put(node, i, s), Beats(net), Asked(asked), MaxTerm)
      BY <1>1, <1>2, HearAdvances
    <3> QED BY <1>1, <1>2, <2>1, <3>1 DEF Advances
  <2>2. CASE ~(m.term > node[i].term)
    <3>1. node' = node
      BY <1>1, <1>2, <2>2 DEF Put
    <3>2. ReadsStay(node, node)
      BY <1>1, StayStill
    <3> QED BY <1>1, <3>1, <3>2
  <2> QED BY <2>1, <2>2
<1> HIDE DEF r
<1>4. readStates' = readStates \/ ReadStatesOK(asked, readStates')
  <2>1. CASE r.state # "Follower"
    BY <1>2, <2>1
  <2>2. CASE r.state = "Follower"
    <3>1. m.ctx \in Request /\ asked[m.ctx] \in Nat /\ m.index >= asked[m.ctx]
      BY <1>1, <1>2 DEF ReadsOK
    <3>2. /\ readStates \in [Server -> SUBSET [ctx : Request, index : Nat]]
          /\ \A j \in Server : \A s \in readStates[j] : asked[s.ctx] \in Nat /\ s.index >= asked[s.ctx]
      BY <1>1 DEF ReadsOK
    <3>3. rs \in [ctx : Request, index : Nat] /\ rs.ctx = m.ctx /\ rs.index = m.index
      BY <1>1, <3>1
    <3> HIDE DEF rs
    <3>4. readStates' = [readStates EXCEPT ![i] = @ \cup {rs}]
      BY <1>2, <2>2
    <3>5. readStates' \in [Server -> SUBSET [ctx : Request, index : Nat]]
      BY <3>2, <3>3, <3>4
    <3>6. ASSUME NEW j \in Server, NEW s \in readStates'[j] PROVE asked[s.ctx] \in Nat /\ s.index >= asked[s.ctx]
      <4>1. s \in readStates[j] \/ s = rs
        BY <3>2, <3>4, <3>6
      <4> QED BY <3>1, <3>2, <3>3, <4>1
    <3> QED BY <3>5, <3>6 DEF ReadStatesOK
  <2> QED BY <2>1, <2>2
<1>5. node' \in [Server -> NodeRec]
  BY <1>3 DEF Core, AllOK
<1>6. net' \in SUBSET Messages /\ net' \ net = {} /\ Core(node', Beats(net'), Asked(asked))
  BY <1>1, <1>2, <1>3
<1> QED BY <1>2, <1>3, <1>4, <1>5, <1>6, AdvanceKeeps

\* What is answered at once or after a round of heartbeats (raft.go:1066-1096, 1300-1305, 1733-1747)
LEMMA RespondKeeps ==
    ASSUME NEW N \in [Server -> NodeRec], NEW rest, NEW a, ReadsOK(N, rest, a, readStates), NEW i \in Server,
           node[i].term \in Nat,
           NEW rss \in SUBSET [ctx : Request, index : Nat, from : Server], Respond(i, rest, rss),
           \A q \in rss : a[q.ctx] \in Nat /\ a[q.ctx] <= q.index,
           \A q \in rss : \A m \in rest : ~(m.type = "MsgReadIndex" /\ m.ctx = q.ctx)
    PROVE  /\ ReadsOK(N, net', a, readStates') /\ Beats(net') = Beats(rest)
           /\ \A m \in net' \ rest : m.term = node[i].term
<1> DEFINE own == {[ctx |-> rs.ctx, index |-> rs.index] : rs \in {q \in rss : q.from = i}}
           ans == {Msg("MsgReadIndexResp", i, rs.from, node[i].term, rs.ctx, rs.index) :
                            rs \in {q \in rss : q.from # i}}
<1>1. readStates' = [readStates EXCEPT ![i] = @ \cup own] /\ net' = rest \cup ans
  BY DEF Respond
<1>2. /\ a \in [Request -> Nat \cup {None}] /\ rest \subseteq Messages
      /\ readStates \in [Server -> SUBSET [ctx : Request, index : Nat]]
      /\ \A j \in Server : QueueOK(N, rest, a, j)
      /\ \A x \in Request : RequestOK(N, rest, a, x)
      /\ \A m \in rest : m.type = "MsgReadIndexResp" =>
            m.ctx \in Request /\ a[m.ctx] \in Nat /\ m.index >= a[m.ctx]
      /\ \A m \in rest : m.type = "MsgReadIndex" => m.ctx \in Request
      /\ \A j \in Server : \A s \in readStates[j] : a[s.ctx] \in Nat /\ s.index >= a[s.ctx]
  BY DEF ReadsOK
<1>3. ASSUME NEW s \in own
      PROVE  s \in [ctx : Request, index : Nat] /\ a[s.ctx] \in Nat /\ s.index >= a[s.ctx]
  BY <1>3
<1>4. ASSUME NEW m \in ans
      PROVE  /\ m \in Messages /\ m.type = "MsgReadIndexResp" /\ m.term = node[i].term
             /\ m.ctx \in Request /\ a[m.ctx] \in Nat /\ m.index >= a[m.ctx]
             /\ \A b \in rest : ~(b.type = "MsgReadIndex" /\ b.ctx = m.ctx)
  <2>1. PICK q \in rss : m = Msg("MsgReadIndexResp", i, q.from, node[i].term, q.ctx, q.index)
    BY <1>4
  <2>2. q.ctx \in Request /\ q.index \in Nat /\ q.from \in Server
    OBVIOUS
  <2>3. m.type = "MsgReadIndexResp" /\ m.term = node[i].term /\ m.ctx = q.ctx /\ m.index = q.index
    BY <2>1 DEF Msg
  <2>4. m \in Messages
    BY <2>1, <2>2 DEF Msg, Messages
  <2> QED BY <2>2, <2>3, <2>4
<1> HIDE DEF own, ans
<1>5. readStates' \in [Server -> SUBSET [ctx : Request, index : Nat]]
  BY <1>1, <1>2, <1>3
<1>6. ASSUME NEW j \in Server, NEW s \in readStates'[j] PROVE a[s.ctx] \in Nat /\ s.index >= a[s.ctx]
  <2>1. s \in readStates[j] \/ s \in own
    BY <1>1, <1>2, <1>6
  <2> QED BY <1>2, <1>3, <2>1
<1>7. net' \subseteq Messages /\ Beats(net') = Beats(rest) /\ \A m \in net' \ rest : m.term = node[i].term
  BY <1>1, <1>2, <1>4 DEF Beats
<1>8. ASSUME NEW j \in Server PROVE QueueOK(N, net', a, j)
  <2>1. Onward(N, rest, N, net')
    <3>1. \A s \in Server : N[s].term \in Nat
      BY NodeFields
    <3>2. \A m \in net' \ rest : m.type # "MsgHeartbeatResp"
      BY <1>1, <1>4
    <3> QED BY <3>1, <3>2 DEF Onward
  <2> QED BY <1>2, <2>1, QueueStays
<1>9. ASSUME NEW x \in Request PROVE RequestOK(N, net', a, x)
  <2>1. RequestOK(N, rest, a, x)
    BY <1>2
  <2>2. CASE \E m \in ans : m.ctx = x
    <3>1. a[x] # None /\ \A m \in rest : ~(m.type = "MsgReadIndex" /\ m.ctx = x)
      BY <1>4, <2>2, ReadIndexAssumption
    <3>2. \A m \in net' : ~(m.type = "MsgReadIndex" /\ m.ctx = x)
      BY <1>1, <1>4, <3>1
    <3> QED BY <3>1, <3>2 DEF RequestOK
  <2>3. CASE ~\E m \in ans : m.ctx = x
    <3>1. Taken(N, net', x) => Taken(N, rest, x)
      BY <1>1, <2>3 DEF Taken
    <3>2. \A m \in net' : m.ctx = x => m \in rest
      BY <1>1, <2>3
    <3> QED BY <2>1, <3>1, <3>2 DEF RequestOK
  <2> QED BY <2>2, <2>3
<1>10. /\ \A m \in net' : m.type = "MsgReadIndexResp" =>
            m.ctx \in Request /\ a[m.ctx] \in Nat /\ m.index >= a[m.ctx]
       /\ \A m \in net' : m.type = "MsgReadIndex" => m.ctx \in Request
  BY <1>1, <1>2, <1>4
<1> QED BY <1>2, <1>5, <1>6, <1>7, <1>8, <1>9, <1>10 DEF ReadsOK

-----------------------------------------------------------------------------
(* Requests *)

\* Only readOnly of server i changes.
RoPut(N, i, ro) == Put(N, i, [N[i] EXCEPT !.readOnly = ro])

LEMMA RoPutIs ==
    ASSUME NEW N \in [Server -> NodeRec], NEW i \in Server, NEW ro \in ReadOnly
    PROVE  LET N2 == RoPut(N, i, ro)
           IN  /\ N2 \in [Server -> NodeRec] /\ N2[i].readOnly = ro
               /\ \A s \in Server \ {i} : N2[s] = N[s]
               /\ \A s \in Server : N2[s].term = N[s].term /\ N2[s].state = N[s].state
<1> DEFINE r == [N[i] EXCEPT !.readOnly = ro]
<1>1. r \in NodeRec /\ r.readOnly = ro /\ r.term = N[i].term /\ r.state = N[i].state
  <2>1. N[i] \in NodeRec
    OBVIOUS
  <2> QED BY <2>1 DEF NodeRec
<1> HIDE DEF r
<1>2. /\ Put(N, i, r) \in [Server -> NodeRec] /\ Put(N, i, r)[i] = r
      /\ \A s \in Server \ {i} : Put(N, i, r)[s] = N[s]
  BY <1>1, PutIs
<1> QED BY <1>1, <1>2 DEF RoPut, r

\* x was asked for, and no leader and no message knows of it.
Fresh(N, M, a, x) ==
    /\ x \in Request /\ a[x] \in Nat /\ AskOK(N, a[x])
    /\ ~Taken(N, M, x) /\ \A m \in M : m.ctx # x

\* readOnly after a new request m and the leader's own acknowledgement
TookUp(ro, new, index, i, x) ==
    /\ new \in ReadOnly /\ new.queue = Append(ro.queue, x) /\ new.panicked = ro.panicked
    /\ DOMAIN new.pending = DOMAIN ro.pending \cup {x}
    /\ \A y \in DOMAIN ro.pending : new.pending[y] = ro.pending[y]
    /\ new.pending[x].index = index /\ new.pending[x].acks = {i}

\* addRequest and recvAck (read_only.go:56-76)
LEMMA TakeUpIs ==
    ASSUME NEW ro \in ReadOnly, NEW m, m.ctx \in Request, m.ctx \notin DOMAIN ro.pending, m.from \in Server,
           NEW index \in Nat, NEW i \in Server
    PROVE  TookUp(ro, RecvAck(AddRequest(ro, index, m), i, m.ctx), index, i, m.ctx)
<1> DEFINE x  == m.ctx
           D  == DOMAIN ro.pending \cup {x}
           st == [index |-> index, from |-> m.from, acks |-> {}]
           f  == [y \in D |-> IF y = x THEN st ELSE ro.pending[y]]
           r1 == [ro EXCEPT !.queue = Append(ro.queue, x), !.pending = f]
           g  == [f EXCEPT ![x].acks = @ \cup {i}]
           r2 == [r1 EXCEPT !.pending = g]
<1>1. /\ ro.queue \in Seq(Request) /\ DOMAIN ro.pending \in SUBSET Request
      /\ ro.pending \in [DOMAIN ro.pending -> Status] /\ ro.panicked \in BOOLEAN
  BY ReadOnlyFields
<1>2. AddRequest(ro, index, m) = r1
  BY DEF AddRequest
<1>3. st \in Status /\ st.acks = {} /\ st.index = index
  BY DEF Status
<1> HIDE DEF st
<1>4. f \in [D -> Status] /\ f[x] = st /\ D \in SUBSET Request /\ \A y \in DOMAIN ro.pending : f[y] = ro.pending[y]
  BY <1>1, <1>3
<1> HIDE DEF f
<1>5. r1.pending = f /\ r1.queue = Append(ro.queue, x) /\ r1.panicked = ro.panicked
  BY DEF ReadOnly
<1>6. RecvAck(r1, i, x) = r2
  <2>1. x \in DOMAIN r1.pending
    BY <1>4, <1>5
  <2>2. RecvAck(r1, i, x) = [r1 EXCEPT !.pending[x].acks = @ \cup {i}]
    BY <2>1 DEF RecvAck
  <2> QED BY <1>5, <2>2
<1>7. /\ g \in [D -> Status] /\ g[x].index = index /\ g[x].acks = {i}
      /\ \A y \in DOMAIN ro.pending : g[y] = ro.pending[y]
  <2> DEFINE st2 == [st EXCEPT !.acks = @ \cup {i}]
  <2>1. st2 \in Status /\ st2.index = index /\ st2.acks = {i}
    BY <1>3 DEF Status
  <2>2. g = [f EXCEPT ![x] = st2]
    BY <1>4
  <2> HIDE DEF st2
  <2> QED BY <1>4, <2>1, <2>2
<1> HIDE DEF g
<1>8. Append(ro.queue, x) \in Seq(Request) /\ {f, g} \subseteq UNION {[S -> Status] : S \in SUBSET Request}
  <2>1. Append(ro.queue, x) \in Seq(Request)
    BY <1>1
  <2> HIDE DEF D
  <2> QED BY <1>4, <1>7, <2>1
<1>9. r1 \in ReadOnly
  BY <1>8 DEF ReadOnly
<1> HIDE DEF r1
<1>10. r2 \in ReadOnly /\ r2.pending = g /\ r2.queue = r1.queue /\ r2.panicked = r1.panicked
  BY <1>8, <1>9 DEF ReadOnly
<1> HIDE DEF r2
<1> QED BY <1>2, <1>5, <1>6, <1>7, <1>10 DEF TookUp

\* The queue of the leader that takes up x: either its commit index covers what was asked for,
\* or a quorum is past its term, none of which has acknowledged x (raft.go:1075-1090).
LEMMA QueueGrows ==
    ASSUME NEW N \in [Server -> NodeRec], NEW N2 \in [Server -> NodeRec], NEW i \in Server, Leads(N, i), NEW M, NEW M2,
           NEW x, NEW a, Fresh(N, M, a, x), N[i].readOnly \in ReadOnly, QueueOK(N, M, a, i),
           \A s \in Server : N2[s].term = N[s].term /\ N2[s].state = N[s].state,
           \A m \in M2 \ M : m.type # "MsgHeartbeatResp",
           N2[i].readOnly.queue = Append(N[i].readOnly.queue, x), ~N2[i].readOnly.panicked,
           DOMAIN N2[i].readOnly.pending = DOMAIN N[i].readOnly.pending \cup {x},
           \A y \in DOMAIN N[i].readOnly.pending : N2[i].readOnly.pending[y] = N[i].readOnly.pending[y],
           N2[i].readOnly.pending[x].acks = {i},
           a[x] <= N2[i].readOnly.pending[x].index
             \/ \E Q \in SUBSET Server : Quorum(Q) /\ \A q \in Q : N[q].term > N[i].term
    PROVE  QueueOK(N2, M2, a, i)
<1> DEFINE ro == N[i].readOnly
           r2 == N2[i].readOnly
           t  == N[i].term
           n  == Len(ro.queue)
<1>1. /\ r2.queue = Append(ro.queue, x) /\ ~r2.panicked /\ DOMAIN r2.pending = DOMAIN ro.pending \cup {x}
      /\ \A y \in DOMAIN ro.pending : r2.pending[y] = ro.pending[y]
      /\ r2.pending[x].acks = {i} /\ ro \in ReadOnly
  OBVIOUS
<1>2. /\ {ro.queue[k] : k \in 1..Len(ro.queue)} = DOMAIN ro.pending
      /\ \A k1, k2 \in 1..Len(ro.queue) : ro.queue[k1] = ro.queue[k2] => k1 = k2
      /\ \A p \in 1..Len(ro.queue) :
            a[ro.queue[p]] \in Nat /\ (a[ro.queue[p]] <= ro.pending[ro.queue[p]].index \/ Past(N, M, i, p))
  BY DEF QueueOK
<1>3. x \in Request /\ a[x] \in Nat /\ x \notin DOMAIN ro.pending /\ \A m \in M : m.ctx # x
  BY DEF Fresh, Taken
<1>4. t \in Nat /\ N2[i].term = t /\ Leads(N2, i)
  BY NodeFields DEF Leads
<1>5. ro.queue \in Seq(Request) /\ n \in Nat
  BY <1>1, ReadOnlyFields
<1>6. Len(r2.queue) = n + 1 /\ r2.queue[n + 1] = x /\ \A k \in 1..n : r2.queue[k] = ro.queue[k]
  BY <1>1, <1>3, <1>5
<1> HIDE DEF ro, r2, t, n
<1>7. ASSUME NEW q \in Server, N[q].term > t PROVE Silent(M2, i, t, r2, x, q)
  <2>1. q # i
    BY <1>4, <1>7 DEF t
  <2>2. \A m \in M2 : m.type = "MsgHeartbeatResp" => m.ctx # x
    BY <1>3
  <2> QED BY <1>1, <2>1, <2>2 DEF Silent
<1>8. ASSUME NEW p \in 1..n, Past(N, M, i, p) PROVE Past(N2, M2, i, p)
  <2>1. PICK Q \in SUBSET Server :
          Quorum(Q) /\ \A q \in Q : N[q].term > t /\ \A k \in p..n : Silent(M, i, t, ro, ro.queue[k], q)
    BY <1>8 DEF Past, ro, t, n
  <2>2. ASSUME NEW q \in Q, NEW k \in p..(n + 1) PROVE Silent(M2, i, t, r2, r2.queue[k], q)
    <3>1. CASE k = n + 1
      BY <1>6, <1>7, <2>1, <2>2, <3>1
    <3>2. CASE k # n + 1
      <4>1. k \in p..n /\ k \in 1..n
        BY <1>5, <2>2, <3>2
      <4>2. Silent(M, i, t, ro, ro.queue[k], q)
        BY <2>1, <2>2, <4>1
      <4>3. ro.queue[k] \in DOMAIN ro.pending
        BY <1>2, <4>1 DEF n
      <4>4. r2.queue[k] = ro.queue[k] /\ r2.pending[ro.queue[k]] = ro.pending[ro.queue[k]]
        BY <1>1, <1>6, <4>1, <4>3
      <4> QED BY <4>2, <4>4 DEF Silent
    <3> QED BY <3>1, <3>2
  <2>3. \A q \in Q : N2[q].term > N2[i].term
    BY <1>4, <2>1
  <2> QED BY <1>4, <1>6, <2>1, <2>2, <2>3 DEF Past, r2
<1>9. a[x] <= r2.pending[x].index \/ Past(N2, M2, i, n + 1)
  <2> SUFFICES ASSUME NEW Q \in SUBSET Server, Quorum(Q), \A q \in Q : N[q].term > N[i].term
               PROVE  Past(N2, M2, i, n + 1)
    BY DEF r2
  <2>1. \A q \in Q : N2[q].term > N2[i].term /\ Silent(M2, i, t, r2, x, q)
    BY <1>4, <1>7 DEF t
  <2>2. \A k \in (n + 1)..(n + 1) : k = n + 1
    BY <1>5
  <2> QED BY <1>4, <1>6, <2>1, <2>2 DEF Past, r2
<1>10. ASSUME NEW p \in 1..(n + 1)
       PROVE  a[r2.queue[p]] \in Nat /\ (a[r2.queue[p]] <= r2.pending[r2.queue[p]].index \/ Past(N2, M2, i, p))
  <2>1. CASE p = n + 1
    BY <1>3, <1>6, <1>9, <2>1
  <2>2. CASE p # n + 1
    <3>1. p \in 1..n
      BY <1>5, <1>10, <2>2
    <3>2. ro.queue[p] \in DOMAIN ro.pending
      BY <1>2, <3>1 DEF n
    <3>3. r2.queue[p] = ro.queue[p] /\ r2.pending[ro.queue[p]] = ro.pending[ro.queue[p]]
      BY <1>1, <1>6, <3>1, <3>2
    <3> QED BY <1>2, <1>8, <3>1, <3>3 DEF n
  <2> QED BY <2>1, <2>2
<1>11. {r2.queue[k] : k \in 1..(n + 1)} = DOMAIN r2.pending
  <2>1. \A k \in 1..(n + 1) : k \in 1..n \/ k = n + 1
    BY <1>5
  <2>2. n + 1 \in 1..(n + 1) /\ \A k \in 1..n : k \in 1..(n + 1)
    BY <1>5
  <2> QED BY <1>1, <1>2, <1>6, <2>1, <2>2 DEF n
<1>12. ASSUME NEW k1 \in 1..(n + 1), NEW k2 \in 1..(n + 1), r2.queue[k1] = r2.queue[k2] PROVE k1 = k2
  <2>1. \A k \in 1..(n + 1) : k \in 1..n \/ k = n + 1
    BY <1>5
  <2>2. ASSUME NEW k \in 1..n PROVE r2.queue[k] # x
    <3>1. ro.queue[k] \in DOMAIN ro.pending
      BY <1>2 DEF n
    <3> QED BY <1>3, <1>6, <3>1
  <2>3. CASE k1 \in 1..n /\ k2 \in 1..n
    BY <1>2, <1>6, <1>12, <2>3 DEF n
  <2> QED BY <1>6, <1>12, <2>1, <2>2, <2>3
<1> QED BY <1>1, <1>4, <1>6, <1>10, <1>11, <1>12 DEF QueueOK, r2

\* The leader takes up x, and sends heartbeats for it.
LEMMA TakesUp ==
    ASSUME NEW N, NEW B, NEW A, Core(N, B, A), NEW i \in Server, N[i].state = "Leader",
           CommittedEntryInCurrentTerm(N[i]), NEW M, NEW a, NEW rs, ReadsOK(N, M, a, rs), NEW m, m.from \in Server,
           Fresh(N, M, a, m.ctx), NEW M2 \in SUBSET Messages, M \subseteq M2,
           \A b \in M2 \ M : b.type = "MsgHeartbeat" /\ b.ctx = m.ctx
    PROVE  LET ro == RecvAck(AddRequest(N[i].readOnly, N[i].committed, m), i, m.ctx)
           IN  ro \in ReadOnly /\ ReadsOK(RoPut(N, i, ro), M2, a, rs)
<1> DEFINE x  == m.ctx
           ro == RecvAck(AddRequest(N[i].readOnly, N[i].committed, m), i, m.ctx)
           N2 == RoPut(N, i, ro)
<1>1. N \in [Server -> NodeRec] /\ N[i].readOnly \in ReadOnly /\ N[i].committed \in Nat
  BY CoreFacts
<1>2. x \in Request /\ a[x] \in Nat /\ AskOK(N, a[x]) /\ ~Taken(N, M, x) /\ \A b \in M : b.ctx # x
  BY DEF Fresh
<1>3. x \notin DOMAIN N[i].readOnly.pending
  BY <1>2 DEF Taken
<1>4. /\ ro \in ReadOnly /\ ro.queue = Append(N[i].readOnly.queue, x) /\ ro.panicked = N[i].readOnly.panicked
      /\ DOMAIN ro.pending = DOMAIN N[i].readOnly.pending \cup {x}
      /\ \A y \in DOMAIN N[i].readOnly.pending : ro.pending[y] = N[i].readOnly.pending[y]
      /\ ro.pending[x].index = N[i].committed /\ ro.pending[x].acks = {i}
  <2> DEFINE r == N[i].readOnly
             n == N[i].committed
  <2>1. r \in ReadOnly /\ m.ctx \in Request /\ m.ctx \notin DOMAIN r.pending /\ n \in Nat
    BY <1>1, <1>2, <1>3
  <2> HIDE DEF r, n
  <2>2. TookUp(r, RecvAck(AddRequest(r, n, m), i, m.ctx), n, i, m.ctx)
    BY <2>1, TakeUpIs
  <2> HIDE DEF ro
  <2>3. TookUp(r, ro, n, i, x)
    BY <2>2 DEF ro, r, n
  <2> QED BY <2>3 DEF TookUp, r, n
<1> HIDE DEF ro
<1>5. /\ N2 \in [Server -> NodeRec] /\ N2[i].readOnly = ro
      /\ \A s \in Server \ {i} : N2[s] = N[s]
      /\ \A s \in Server : N2[s].term = N[s].term /\ N2[s].state = N[s].state
  BY <1>1, <1>4, RoPutIs
<1> HIDE DEF N2, x
<1>6. a[x] <= N[i].committed \/ \E Q \in SUBSET Server : Quorum(Q) /\ \A q \in Q : N[q].term > N[i].term
  BY <1>2, LeaderKnows
<1>7. /\ a \in [Request -> Nat \cup {None}] /\ M \subseteq Messages
      /\ rs \in [Server -> SUBSET [ctx : Request, index : Nat]]
      /\ \A j \in Server : QueueOK(N, M, a, j)
      /\ \A y \in Request : RequestOK(N, M, a, y)
      /\ \A b \in M : b.type = "MsgReadIndexResp" => b.ctx \in Request /\ a[b.ctx] \in Nat /\ b.index >= a[b.ctx]
      /\ \A b \in M : b.type = "MsgReadIndex" => b.ctx \in Request
      /\ \A j \in Server : \A s \in rs[j] : a[s.ctx] \in Nat /\ s.index >= a[s.ctx]
  BY DEF ReadsOK
<1>8. QueueOK(N2, M2, a, i)
  <2>1. QueueOK(N, M, a, i) /\ Leads(N, i) /\ ~N[i].readOnly.panicked
    BY <1>7 DEF QueueOK, Leads
  <2>2. /\ \A b \in M2 \ M : b.type # "MsgHeartbeatResp"
        /\ Fresh(N, M, a, x)
    BY DEF x
  <2>3. /\ N2[i].readOnly.queue = Append(N[i].readOnly.queue, x) /\ ~N2[i].readOnly.panicked
        /\ DOMAIN N2[i].readOnly.pending = DOMAIN N[i].readOnly.pending \cup {x}
        /\ \A y \in DOMAIN N[i].readOnly.pending : N2[i].readOnly.pending[y] = N[i].readOnly.pending[y]
        /\ N2[i].readOnly.pending[x].acks = {i}
        /\ \/ a[x] <= N2[i].readOnly.pending[x].index
           \/ \E Q \in SUBSET Server : Quorum(Q) /\ \A q \in Q : N[q].term > N[i].term
    BY <1>4, <1>5, <1>6, <2>1
  <2> QED BY <1>1, <1>5, <2>1, <2>2, <2>3, QueueGrows
<1>9. ASSUME NEW j \in Server, j # i PROVE QueueOK(N2, M2, a, j)
  <2>1. Onward(N, M, N2, M2)
    <3>1. \A s \in Server : N2[s].term >= N[s].term
      BY <1>1, <1>5, NodeFields
    <3> QED BY <3>1 DEF Onward
  <2>2. QueueOK(N, M, a, j) /\ N2[j] = N[j]
    BY <1>5, <1>7, <1>9
  <2> QED BY <1>1, <1>5, <2>1, <2>2, QueueStays
<1>10. ASSUME NEW y \in Request PROVE RequestOK(N2, M2, a, y)
  <2>1. CASE y = x
    <3>1. a[y] # None
      BY <1>2, <2>1, ReadIndexAssumption
    <3>2. \A b \in M2 : ~(b.type = "MsgReadIndex" /\ b.ctx = y)
      BY <1>2, <2>1
    <3> QED BY <3>1, <3>2 DEF RequestOK
  <2>2. CASE y # x
    <3>1. \A b \in M2 : b.ctx = y => b \in M
      BY <2>2 DEF x
    <3>2. \A s \in Server : y \in DOMAIN N2[s].readOnly.pending => y \in DOMAIN N[s].readOnly.pending
      BY <1>4, <1>5, <2>2
    <3>3. Taken(N2, M2, y) => Taken(N, M, y)
      BY <3>1, <3>2 DEF Taken
    <3>4. RequestOK(N, M, a, y)
      BY <1>7
    <3> QED BY <3>1, <3>3, <3>4 DEF RequestOK
  <2> QED BY <2>1, <2>2
<1>11. \A b \in M2 : b.type \in {"MsgReadIndex", "MsgReadIndexResp"} => b \in M
  OBVIOUS
<1>12. \A j \in Server : QueueOK(N2, M2, a, j)
  BY <1>8, <1>9
<1>13. ReadsOK(N2, M2, a, rs)
  BY <1>7, <1>10, <1>11, <1>12 DEF ReadsOK
<1> QED BY <1>4, <1>13 DEF N2, ro

\* A follower passes the request on to its leader.
LEMMA PassesOn ==
    ASSUME NEW N \in [Server -> NodeRec], NEW M, NEW a, NEW rs, ReadsOK(N, M, a, rs), NEW b \in Messages,
           b.type = "MsgReadIndex", Fresh(N, M, a, b.ctx)
    PROVE  ReadsOK(N, M \cup {b}, a, rs)
<1> DEFINE x  == b.ctx
           M2 == M \cup {b}
<1>1. x \in Request /\ a[x] \in Nat /\ ~Taken(N, M, x) /\ \A c \in M : c.ctx # x
  BY DEF Fresh
<1>2. /\ a \in [Request -> Nat \cup {None}] /\ M \subseteq Messages
      /\ rs \in [Server -> SUBSET [ctx : Request, index : Nat]]
      /\ \A j \in Server : QueueOK(N, M, a, j)
      /\ \A y \in Request : RequestOK(N, M, a, y)
      /\ \A c \in M : c.type = "MsgReadIndexResp" => c.ctx \in Request /\ a[c.ctx] \in Nat /\ c.index >= a[c.ctx]
      /\ \A c \in M : c.type = "MsgReadIndex" => c.ctx \in Request
      /\ \A j \in Server : \A s \in rs[j] : a[s.ctx] \in Nat /\ s.index >= a[s.ctx]
  BY DEF ReadsOK
<1>3. ASSUME NEW j \in Server PROVE QueueOK(N, M2, a, j)
  <2>1. \A s \in Server : N[s].term >= N[s].term
    BY NodeFields
  <2>2. Onward(N, M, N, M2)
    BY <2>1 DEF Onward
  <2> QED BY <1>2, <2>2, QueueStays
<1>4. ASSUME NEW y \in Request PROVE RequestOK(N, M2, a, y)
  <2>1. Taken(N, M2, y) => Taken(N, M, y)
    BY DEF Taken
  <2>2. CASE y = x
    <3>1. a[y] # None
      BY <1>1, <2>2, ReadIndexAssumption
    <3> QED BY <1>1, <2>1, <2>2, <3>1 DEF RequestOK
  <2>3. CASE y # x
    <3>1. \A c \in M2 : c.ctx = y => c \in M
      BY <2>3
    <3>2. RequestOK(N, M, a, y)
      BY <1>2
    <3> QED BY <2>1, <3>1, <3>2 DEF RequestOK
  <2> QED BY <2>2, <2>3
<1> QED BY <1>1, <1>2, <1>3, <1>4 DEF ReadsOK

\* What a step with asked = a leaves behind
ReadsKept(N, M, a, rs, t) ==
    /\ Core(N, Beats(M), Asked(a)) /\ ReadsOK(N, M, a, rs)
    /\ TermsUpTo(N, t) /\ \A b \in M : b.term <= t

\* MsgReadIndex, from the application or from a follower (raft.go:1066-1096, 1454-1460)
LEMMA HandleReadIndexKeeps ==
    ASSUME scenario \in Scenarios, NEW rest, NEW a, ReadsKept(node, rest, a, readStates, MaxTerm),
           NEW i \in Server, NEW m, m.from \in Server, Fresh(node, rest, a, m.ctx), HandleReadIndex(i, m, rest)
    PROVE  ReadsKept(node', net', a, readStates', MaxTerm)
<1>1. /\ Core(node, Beats(rest), Asked(a)) /\ ReadsOK(node, rest, a, readStates)
      /\ TermsUpTo(node, MaxTerm) /\ \A b \in rest : b.term <= MaxTerm
  BY DEF ReadsKept
<1>2. /\ node \in [Server -> NodeRec] /\ node[i].term \in Nat /\ node[i].committed \in Nat /\ node[i].readOnly \in ReadOnly
      /\ node[i].lead \in Server \cup {None} /\ node[i].term <= MaxTerm /\ MaxTerm \in Nat /\ rest \subseteq Messages
      /\ node[i] \in NodeRec
  BY <1>1, CoreFacts, MaxTermIs DEF TermsUpTo, ReadsOK
<1>3. /\ m.ctx \in Request /\ a[m.ctx] \in Nat /\ AskOK(node, a[m.ctx]) /\ \A b \in rest : b.ctx # m.ctx
  BY DEF Fresh
<1> DEFINE r  == node[i]
           ro == RecvAck(AddRequest(r.readOnly, r.committed, m), i, m.ctx)
           r1 == [r EXCEPT !.readOnly = ro]
<1>4. CASE /\ r.state = "Leader" /\ Cardinality(Server) = 1 /\ UNCHANGED node
           /\ Respond(i, rest, {[ctx |-> m.ctx, index |-> r.committed, from |-> m.from]})
  <2> DEFINE q   == [ctx |-> m.ctx, index |-> r.committed, from |-> m.from]
             rss == {q}
  <2>1. a[m.ctx] <= r.committed
    <3>1. PICK e : Server = {e}
      BY <1>4, ServersAre, FS_Singleton
    <3> QED BY <1>3, <3>1 DEF AskOK
  <2>2. q \in [ctx : Request, index : Nat, from : Server] /\ q.ctx = m.ctx /\ q.index = r.committed
    BY <1>2, <1>3
  <2>3. Respond(i, rest, rss)
    BY <1>4
  <2> HIDE DEF q
  <2>4. /\ rss \in SUBSET [ctx : Request, index : Nat, from : Server]
        /\ \A s \in rss : a[s.ctx] \in Nat /\ a[s.ctx] <= s.index
        /\ \A s \in rss : \A b \in rest : ~(b.type = "MsgReadIndex" /\ b.ctx = s.ctx)
    BY <1>3, <2>1, <2>2
  <2> HIDE DEF rss
  <2>5. /\ ReadsOK(node, net', a, readStates') /\ Beats(net') = Beats(rest)
        /\ \A b \in net' \ rest : b.term = node[i].term
    BY <1>1, <1>2, <2>3, <2>4, RespondKeeps
  <2>6. \A b \in net' : b.term <= MaxTerm
    BY <1>1, <1>2, <2>5
  <2> QED BY <1>1, <1>4, <2>5, <2>6 DEF ReadsKept
<1>5. CASE /\ r.state = "Leader" /\ CommittedEntryInCurrentTerm(r) /\ node' = [node EXCEPT ![i] = r1]
           /\ net' = rest \cup Heartbeats(i, r1, m.ctx) /\ UNCHANGED readStates
  <2> DEFINE H == Heartbeats(i, r1, m.ctx)
  <2>1. r1.term = node[i].term /\ r1.match = node[i].match /\ r1.committed = node[i].committed
    BY <1>2 DEF NodeRec
  <2>2. node' = RoPut(node, i, ro)
    BY <1>5 DEF RoPut, Put
  <2> HIDE DEF r1
  <2>3. /\ Core(node, Beats(rest) \cup H, Asked(a)) /\ H \subseteq Messages
        /\ \A b \in H : b.type = "MsgHeartbeat" /\ b.ctx = m.ctx /\ b.term = node[i].term
    <3>1. m.ctx \in Request \cup {None} /\ node[i].state = "Leader" /\ Core(node, Beats(rest), Asked(a))
      BY <1>1, <1>3, <1>5
    <3> QED BY <2>1, <3>1, BeatsSent
  <2> HIDE DEF H
  <2>4. ro \in ReadOnly /\ ReadsOK(node', net', a, readStates')
    <3>1. /\ net' \in SUBSET Messages /\ rest \subseteq net' /\ readStates' = readStates
          /\ \A b \in net' \ rest : b.type = "MsgHeartbeat" /\ b.ctx = m.ctx
      BY <1>2, <1>5, <2>3 DEF H
    <3>2. ro \in ReadOnly /\ ReadsOK(RoPut(node, i, ro), net', a, readStates)
      BY <1>1, <1>5, <3>1, TakesUp
    <3> QED BY <2>2, <3>1, <3>2
  <2> HIDE DEF ro
  <2>5. Core(node', Beats(net'), Asked(a))
    <3>1. Beats(net') = Beats(rest) \cup H
      BY <1>5, <2>3 DEF Beats, H
    <3>2. Core(RoPut(node, i, ro), Beats(rest) \cup H, Asked(a))
      BY <2>3, <2>4, ReadOnlyPut DEF RoPut
    <3> QED BY <2>2, <3>1, <3>2
  <2>6. TermsUpTo(node', MaxTerm)
    <3>1. \A s \in Server : RoPut(node, i, ro)[s].term = node[s].term
      BY <1>2, <2>4, RoPutIs
    <3> QED BY <1>1, <2>2, <3>1 DEF TermsUpTo
  <2>7. \A b \in net' : b.term <= MaxTerm
    BY <1>1, <1>2, <1>5, <2>3 DEF H
  <2> QED BY <2>4, <2>5, <2>6, <2>7 DEF ReadsKept
<1>6. CASE /\ r.state = "Follower" /\ r.lead # None /\ UNCHANGED <<node, readStates>>
           /\ net' = rest \cup {Msg("MsgReadIndex", m.from, r.lead, 0, m.ctx, 0)}
  <2> DEFINE b == Msg("MsgReadIndex", m.from, r.lead, 0, m.ctx, 0)
  <2>1. b \in Messages /\ b.type = "MsgReadIndex" /\ b.ctx = m.ctx /\ b.term = 0
    BY <1>2, <1>3, <1>6 DEF Msg, Messages
  <2>2. net' = rest \cup {b} /\ node' = node /\ readStates' = readStates
    BY <1>6
  <2> HIDE DEF b
  <2>3. ReadsOK(node', net', a, readStates')
    BY <1>1, <1>2, <2>1, <2>2, PassesOn
  <2>4. Beats(net') = Beats(rest)
    BY <2>1, <2>2 DEF Beats
  <2>5. \A c \in net' : c.term <= MaxTerm
    BY <1>1, <1>2, <2>1, <2>2
  <2> QED BY <1>1, <2>2, <2>3, <2>4, <2>5 DEF ReadsKept
<1> QED BY <1>4, <1>5, <1>6 DEF HandleReadIndex

LEMMA KeptIs ==
    ASSUME ReadInv
    PROVE  ReadsKept(node, net, asked, readStates, MaxTerm)
  BY InvFacts DEF ReadsKept

LEMMA KeptGives ==
    ASSUME ReadsKept(node', net', asked', readStates', MaxTerm), scenario \in Scenarios, UNCHANGED scenario
    PROVE  ReadInv'
<1>1. MaxTerm' = MaxTerm /\ scenario' = scenario
  BY DEF MaxTerm
<1> QED BY <1>1 DEF ReadsKept, ReadInv, TermsUpTo

\* The application asks.
LEMMA AskKeeps ==
    ASSUME ReadInv, NEW i \in Server, NEW x \in Request, Ask(i, x)
    PROVE  ReadInv'
<1>1. /\ scenario \in Scenarios /\ Core(node, Beats(net), Asked(asked)) /\ ReadsOK(node, net, asked, readStates)
      /\ TermsUpTo(node, MaxTerm) /\ asked \in [Request -> Nat \cup {None}] /\ \A b \in net : b.term <= MaxTerm
  BY InvFacts
<1> DEFINE c == CommittedSomewhere
           m == Msg("MsgReadIndex", i, i, 0, x, 0)
<1>2. /\ asked[x] = None /\ asked' = [asked EXCEPT ![x] = c] /\ HandleReadIndex(i, m, net) /\ UNCHANGED scenario
  BY DEF Ask
<1>3. AskOK(node, c) /\ c \in Nat
  BY <1>1, CommittedSomewhereIs DEF AskOK
<1>4. m.ctx = x /\ m.from = i
  BY DEF Msg
<1> HIDE DEF c, m
<1>5. /\ asked'[x] = c /\ asked' \in [Request -> Nat \cup {None}]
      /\ \A y \in Request : y # x => asked'[y] = asked[y]
  BY <1>1, <1>2, <1>3
<1>6. RequestOK(node, net, asked, x) /\ ~Taken(node, net, x) /\ \A b \in net : b.ctx # x
  BY <1>1, <1>2 DEF ReadsOK, RequestOK
<1>7. Fresh(node, net, asked', m.ctx)
  BY <1>3, <1>4, <1>5, <1>6 DEF Fresh
<1>8. Core(node, Beats(net), Asked(asked'))
  <2>1. \A n \in Asked(asked') : n = c \/ n \in Asked(asked)
    BY <1>5 DEF Asked
  <2> QED BY <1>1, <1>3, <2>1 DEF Core
<1>9. ReadsOK(node, net, asked', readStates)
  <2>1. ASSUME NEW j \in Server PROVE QueueOK(node, net, asked', j)
    <3>1. QueueOK(node, net, asked, j) /\ node[j].readOnly \in ReadOnly /\ x \notin DOMAIN node[j].readOnly.pending
      BY <1>1, <1>6, CoreFacts DEF ReadsOK, Taken
    <3>2. \A k \in 1..Len(node[j].readOnly.queue) : node[j].readOnly.queue[k] \in DOMAIN node[j].readOnly.pending
      BY <3>1 DEF QueueOK
    <3>3. \A k \in 1..Len(node[j].readOnly.queue) :
             asked'[node[j].readOnly.queue[k]] = asked[node[j].readOnly.queue[k]]
      BY <1>5, <3>1, <3>2, ReadOnlyFields
    <3> QED BY <3>1, <3>3 DEF QueueOK
  <2>2. ASSUME NEW y \in Request PROVE RequestOK(node, net, asked', y)
    <3>1. CASE y = x
      BY <1>6, <3>1 DEF RequestOK
    <3>2. CASE y # x
      BY <1>1, <1>5, <3>2 DEF ReadsOK, RequestOK
    <3> QED BY <3>1, <3>2
  <2>3. ASSUME NEW b \in net, b.type = "MsgReadIndexResp"
        PROVE  b.ctx \in Request /\ asked'[b.ctx] \in Nat /\ b.index >= asked'[b.ctx]
    BY <1>1, <1>5, <1>6, <2>3 DEF ReadsOK
  <2>4. ASSUME NEW j \in Server, NEW s \in readStates[j] PROVE asked'[s.ctx] \in Nat /\ s.index >= asked'[s.ctx]
    <3>1. s.ctx \in Request /\ asked[s.ctx] \in Nat /\ s.index >= asked[s.ctx]
      BY <1>1, <2>4 DEF ReadsOK
    <3>2. s.ctx # x
      BY <1>2, <3>1, ReadIndexAssumption
    <3> QED BY <1>5, <3>1, <3>2
  <2> QED BY <1>1, <1>5, <2>1, <2>2, <2>3, <2>4 DEF ReadsOK
<1>10. ReadsKept(node, net, asked', readStates, MaxTerm)
  BY <1>1, <1>8, <1>9 DEF ReadsKept
<1>11. m.from \in Server
  BY <1>4
<1>12. ReadsKept(node', net', asked', readStates', MaxTerm)
  BY <1>1, <1>2, <1>7, <1>10, <1>11, HandleReadIndexKeeps
<1> QED BY <1>1, <1>2, <1>12, KeptGives

\* A server receives a request that was passed on.
LEMMA StepReadIndexKeeps ==
    ASSUME ReadInv, NEW i \in Server, NEW m \in net, StepReadIndex(i, m)
    PROVE  ReadInv'
<1>1. /\ scenario \in Scenarios /\ Core(node, Beats(net), Asked(asked)) /\ ReadsOK(node, net, asked, readStates)
      /\ TermsUpTo(node, MaxTerm) /\ asked \in [Request -> Nat \cup {None}] /\ net \in SUBSET Messages
      /\ node \in [Server -> NodeRec] /\ \A b \in net : b.term <= MaxTerm
  BY InvFacts
<1> DEFINE rest == net \ {m}
           x    == m.ctx
<1>2. /\ m.type = "MsgReadIndex" /\ HandleReadIndex(i, m, rest) /\ asked' = asked /\ UNCHANGED scenario
  BY DEF StepReadIndex
<1>3. m.from \in Server /\ x \in Request /\ RequestOK(node, net, asked, x)
  BY <1>1, <1>2, MessageFields DEF ReadsOK
<1>4. ~Taken(node, net, x) /\ asked[x] # None /\ \A b \in net : b.type = "MsgReadIndex" /\ b.ctx = x => b = m
  BY <1>2, <1>3 DEF RequestOK
<1>5. asked[x] \in Nat /\ AskOK(node, asked[x])
  BY <1>1, <1>3, <1>4 DEF Core, Asked
<1>6. Fresh(node, rest, asked, x)
  BY <1>3, <1>4, <1>5 DEF Fresh, Taken
<1>7. Core(node, Beats(rest), Asked(asked)) /\ \A b \in rest : b.term <= MaxTerm
  BY <1>1 DEF Core, Beats
<1>8. ReadsOK(node, rest, asked, readStates)
  <2>1. ReadsStay(node, node) /\ rest \in SUBSET Messages /\ rest \ net = {}
    BY <1>1, StayStill
  <2> QED BY <1>1, <2>1, ReadsAdvance
<1> HIDE DEF rest
<1>9. ReadsKept(node, rest, asked, readStates, MaxTerm)
  BY <1>1, <1>7, <1>8 DEF ReadsKept
<1>10. ReadsKept(node', net', asked, readStates', MaxTerm)
  BY <1>1, <1>2, <1>3, <1>6, <1>9, HandleReadIndexKeeps
<1> QED BY <1>1, <1>2, <1>10, KeptGives

-----------------------------------------------------------------------------
(* Acknowledgements *)

\* readOnly after id has acknowledged x
Acked(ro, new, id, x) ==
    /\ new \in ReadOnly /\ new.queue = ro.queue /\ new.panicked = ro.panicked
    /\ DOMAIN new.pending = DOMAIN ro.pending
    /\ \A y \in DOMAIN ro.pending :
          /\ new.pending[y].index = ro.pending[y].index
          /\ new.pending[y].acks = IF y = x THEN ro.pending[y].acks \cup {id} ELSE ro.pending[y].acks

\* recvAck (read_only.go:68-76)
LEMMA RecvAckIs ==
    ASSUME NEW ro \in ReadOnly, NEW id \in Server, NEW x
    PROVE  Acked(ro, RecvAck(ro, id, x), id, x)
<1>1. CASE x \notin DOMAIN ro.pending
  BY <1>1 DEF Acked, RecvAck
<1>2. CASE x \in DOMAIN ro.pending
  <2> DEFINE f   == ro.pending
             st  == [f[x] EXCEPT !.acks = @ \cup {id}]
             g   == [f EXCEPT ![x] = st]
             new == [ro EXCEPT !.pending = g]
  <2>1. RecvAck(ro, id, x) = new
    BY <1>2 DEF RecvAck
  <2>2. f \in [DOMAIN f -> Status] /\ DOMAIN f \in SUBSET Request /\ f[x] \in Status
    BY <1>2, ReadOnlyFields
  <2>3. st \in Status /\ st.index = f[x].index /\ st.acks = f[x].acks \cup {id}
    BY <2>2 DEF Status
  <2> HIDE DEF st
  <2>4. /\ g \in [DOMAIN f -> Status] /\ DOMAIN g = DOMAIN f
        /\ \A y \in DOMAIN f : g[y] = IF y = x THEN st ELSE f[y]
    BY <1>2, <2>2, <2>3
  <2> HIDE DEF g
  <2>5. g \in UNION {[S -> Status] : S \in SUBSET Request}
    BY <2>2, <2>4
  <2>6. new \in ReadOnly /\ new.queue = ro.queue /\ new.panicked = ro.panicked /\ new.pending = g
    BY <2>5 DEF ReadOnly
  <2> HIDE DEF new
  <2> QED BY <2>1, <2>3, <2>4, <2>6 DEF Acked
<1> QED BY <1>1, <1>2

\* Who has acknowledged x is not among those who are past the term and silent on x
\* (raft.go:1292-1298).
LEMMA AckedKeeps ==
    ASSUME NEW N \in [Server -> NodeRec], NEW M, NEW a, NEW rs, ReadsOK(N, M, a, rs), NEW i \in Server,
           NEW m \in M, m.type = "MsgHeartbeatResp", m.to = i, m.term = N[i].term,
           N[i].readOnly \in ReadOnly, NEW ro, Acked(N[i].readOnly, ro, m.from, m.ctx)
    PROVE  ReadsOK(RoPut(N, i, ro), M, a, rs)
<1> DEFINE N2 == RoPut(N, i, ro)
           old == N[i].readOnly
           t  == N[i].term
           x  == m.ctx
<1>1. /\ ro \in ReadOnly /\ ro.queue = old.queue /\ ro.panicked = old.panicked
      /\ DOMAIN ro.pending = DOMAIN old.pending
      /\ \A y \in DOMAIN old.pending :
            /\ ro.pending[y].index = old.pending[y].index
            /\ ro.pending[y].acks = IF y = x THEN old.pending[y].acks \cup {m.from} ELSE old.pending[y].acks
  BY DEF Acked
<1>2. /\ N2 \in [Server -> NodeRec] /\ N2[i].readOnly = ro
      /\ \A s \in Server \ {i} : N2[s] = N[s]
      /\ \A s \in Server : N2[s].term = N[s].term /\ N2[s].state = N[s].state
  BY <1>1, RoPutIs
<1> HIDE DEF N2
<1>3. /\ \A j \in Server : QueueOK(N, M, a, j)
      /\ \A y \in Request : RequestOK(N, M, a, y)
  BY DEF ReadsOK
<1>4. QueueOK(N2, M, a, i)
  <2>1. /\ {old.queue[k] : k \in 1..Len(old.queue)} = DOMAIN old.pending
        /\ \A k1, k2 \in 1..Len(old.queue) : old.queue[k1] = old.queue[k2] => k1 = k2
        /\ ~old.panicked /\ (old.queue # <<>> => Leads(N, i))
        /\ \A p \in 1..Len(old.queue) :
              a[old.queue[p]] \in Nat /\ (a[old.queue[p]] <= old.pending[old.queue[p]].index \/ Past(N, M, i, p))
    BY <1>3 DEF QueueOK
  <2>2. ASSUME NEW p \in 1..Len(old.queue), Past(N, M, i, p) PROVE Past(N2, M, i, p)
    <3>1. PICK Q \in SUBSET Server :
             Quorum(Q) /\ \A q \in Q : N[q].term > t /\ \A k \in p..Len(old.queue) : Silent(M, i, t, old, old.queue[k], q)
      BY <2>2 DEF Past
    <3>2. ASSUME NEW q \in Q, NEW k \in p..Len(old.queue) PROVE Silent(M, i, t, ro, ro.queue[k], q)
      <4>1. Silent(M, i, t, old, old.queue[k], q)
        BY <3>1, <3>2
      <4>2. k \in 1..Len(old.queue)
        BY <2>2, <3>2
      <4>3. old.queue[k] \in DOMAIN old.pending
        BY <2>1, <4>2
      <4>4. old.queue[k] = x => q # m.from
        BY <4>1 DEF Silent
      <4> DEFINE y == old.queue[k]
      <4>5. ro.pending[y].acks = (IF y = x THEN old.pending[y].acks \cup {m.from} ELSE old.pending[y].acks) /\ ro.queue[k] = y
        BY <1>1, <4>3
      <4> HIDE DEF y, x, old, t
      <4>6. q \notin ro.pending[y].acks
        BY <4>1, <4>4, <4>5 DEF Silent, y
      <4> QED BY <4>1, <4>5, <4>6 DEF Silent, y
    <3>3. \A q \in Q : N2[q].term > N2[i].term
      BY <1>2, <3>1
    <3>4. N2[i].readOnly = ro /\ N2[i].term = t /\ ro.queue = old.queue
      BY <1>1, <1>2
    <3> HIDE DEF old, t
    <3>5. \A q \in Q : \A k \in p..Len(ro.queue) : Silent(M, i, t, ro, ro.queue[k], q)
      BY <3>2, <3>4
    <3> QED BY <3>1, <3>3, <3>4, <3>5 DEF Past
  <2>3. \A k \in 1..Len(old.queue) : ro.pending[old.queue[k]].index = old.pending[old.queue[k]].index
    <3> SUFFICES ASSUME NEW k \in 1..Len(old.queue)
                 PROVE  ro.pending[old.queue[k]].index = old.pending[old.queue[k]].index
      OBVIOUS
    <3>1. old.queue[k] \in DOMAIN old.pending
      BY <2>1
    <3> HIDE DEF old
    <3> QED BY <1>1, <3>1
  <2>4. old.queue # <<>> => Leads(N2, i)
    BY <1>2, <2>1 DEF Leads
  <2>5. N2[i].readOnly = ro /\ ro.queue = old.queue /\ ~ro.panicked /\ DOMAIN ro.pending = DOMAIN old.pending
    BY <1>1, <1>2, <2>1
  <2> HIDE DEF old, t, x
  <2>6. \A k \in 1..Len(old.queue) :
           a[old.queue[k]] \in Nat /\ (a[old.queue[k]] <= ro.pending[old.queue[k]].index \/ Past(N2, M, i, k))
    BY <2>1, <2>2, <2>3
  <2> QED BY <2>1, <2>4, <2>5, <2>6 DEF QueueOK
<1>5. ASSUME NEW j \in Server, j # i PROVE QueueOK(N2, M, a, j)
  <2>1. Onward(N, M, N2, M)
    BY <1>2, NodeFields DEF Onward
  <2> QED BY <1>2, <1>3, <1>5, <2>1, QueueStays
<1>6. ASSUME NEW y \in Request PROVE RequestOK(N2, M, a, y)
  <2>1. \A s \in Server : DOMAIN N2[s].readOnly.pending = DOMAIN N[s].readOnly.pending
    BY <1>1, <1>2
  <2>2. Taken(N2, M, y) => Taken(N, M, y)
    BY <2>1 DEF Taken
  <2> QED BY <1>3, <2>2 DEF RequestOK
<1>7. \A j \in Server : QueueOK(N2, M, a, j)
  BY <1>4, <1>5
<1>8. ReadsOK(N2, M, a, rs)
  BY <1>6, <1>7 DEF ReadsOK
<1> QED BY <1>8 DEF N2

\* readOnly after the requests up to position p have left
Shifted(ro, new, p) ==
    /\ p \in 1..Len(ro.queue) /\ new \in ReadOnly /\ Len(new.queue) = Len(ro.queue) - p
    /\ \A k \in 1..(Len(ro.queue) - p) : new.queue[k] = ro.queue[p + k]
    /\ DOMAIN new.pending = DOMAIN ro.pending \ {ro.queue[k] : k \in 1..p}
    /\ \A y \in DOMAIN new.pending : new.pending[y] = ro.pending[y]
    /\ new.panicked = ro.panicked

\* advance (read_only.go:81-112)
LEMMA AdvanceIs ==
    ASSUME NEW ro \in ReadOnly, NEW x \in DOMAIN ro.pending,
           {ro.queue[k] : k \in 1..Len(ro.queue)} = DOMAIN ro.pending,
           \A k1, k2 \in 1..Len(ro.queue) : ro.queue[k1] = ro.queue[k2] => k1 = k2
    PROVE  \E p \in 1..Len(ro.queue) :
              ro.queue[p] = x /\ Done(ro, x) = {ro.queue[k] : k \in 1..p} /\ Shifted(ro, Advance(ro, x), p)
<1>1. /\ ro.queue \in Seq(Request) /\ Len(ro.queue) \in Nat /\ DOMAIN ro.pending \in SUBSET Request
      /\ ro.pending \in [DOMAIN ro.pending -> Status] /\ ro.panicked \in BOOLEAN
  BY ReadOnlyFields
<1>2. PICK p \in 1..Len(ro.queue) : ro.queue[p] = x
  OBVIOUS
<1> DEFINE at == {k \in 1..Len(ro.queue) : ro.queue[k] = x}
<1>3. at = {p}
  BY <1>2
<1>4. at # {} /\ (CHOOSE k \in at : TRUE) = p
  BY <1>3
<1> DEFINE s == SubSeq(ro.queue, 1, p)
           u == SubSeq(ro.queue, p + 1, Len(ro.queue))
           n == Len(ro.queue) - p
<1>5. Advanced(ro, x) = s
  BY <1>4 DEF Advanced
<1>6. Len(s) = p /\ \A k \in 1..p : s[k] = ro.queue[k]
  BY <1>1, <1>2, SubSeqProperties
<1>7. u \in Seq(Request) /\ Len(u) = n /\ \A k \in 1..n : u[k] = ro.queue[p + k]
  BY <1>1, <1>2, SubSeqProperties
<1> HIDE DEF s, u
<1>8. Done(ro, x) = {ro.queue[k] : k \in 1..p}
  BY <1>5, <1>6 DEF Done
<1> DEFINE gone == {ro.queue[k] : k \in 1..p}
           f    == [y \in DOMAIN ro.pending \ gone |-> ro.pending[y]]
           new  == [queue |-> u, pending |-> f, panicked |-> ro.panicked]
<1>9. gone \subseteq DOMAIN ro.pending
  BY <1>1, <1>2
<1>10. Advance(ro, x) = new
  <2>1. ro.panicked \/ ~(gone \subseteq DOMAIN ro.pending) <=> ro.panicked
    BY <1>9
  <2>2. (ro.panicked \/ ~(gone \subseteq DOMAIN ro.pending)) = ro.panicked
    BY <1>1, <2>1
  <2> HIDE DEF gone
  <2> QED BY <1>5, <1>6, <1>8, <2>2 DEF Advance, u, gone
<1>11. /\ DOMAIN f = DOMAIN ro.pending \ gone /\ (\A y \in DOMAIN f : f[y] = ro.pending[y])
       /\ f \in UNION {[S -> Status] : S \in SUBSET Request}
  <2> DEFINE D == DOMAIN ro.pending \ gone
  <2>1. D \in SUBSET Request /\ \A y \in D : ro.pending[y] \in Status
    BY <1>1
  <2> HIDE DEF D
  <2>2. f = [y \in D |-> ro.pending[y]]
    BY DEF D
  <2>3. f \in [D -> Status] /\ DOMAIN f = D /\ \A y \in D : f[y] = ro.pending[y]
    BY <2>1, <2>2
  <2> HIDE DEF f
  <2>4. f \in UNION {[S -> Status] : S \in SUBSET Request}
    BY <2>1, <2>3
  <2> QED BY <2>3, <2>4 DEF D
<1> HIDE DEF f
<1>12. new \in ReadOnly
  BY <1>1, <1>7, <1>11 DEF ReadOnly
<1>13. Shifted(ro, new, p)
  BY <1>7, <1>11, <1>12 DEF Shifted
<1> QED BY <1>2, <1>8, <1>10, <1>13

\* A quorum that has acknowledged x meets every quorum that is past the term and silent on x: what
\* is in the queue up to x has an index that covers what was asked for.
LEMMA AnswerCovers ==
    ASSUME NEW N, NEW M, NEW a, NEW i \in Server, QueueOK(N, M, a, i), N[i].readOnly \in ReadOnly,
           NEW p \in 1..Len(N[i].readOnly.queue), Quorum(N[i].readOnly.pending[N[i].readOnly.queue[p]].acks),
           NEW k \in 1..p
    PROVE  LET ro == N[i].readOnly
           IN  a[ro.queue[k]] \in Nat /\ a[ro.queue[k]] <= ro.pending[ro.queue[k]].index
<1> DEFINE ro == N[i].readOnly
           x  == ro.queue[p]
<1>1. Len(ro.queue) \in Nat
  BY ReadOnlyFields
<1>2. k \in 1..Len(ro.queue) /\ p \in k..Len(ro.queue)
  <2> DEFINE n == Len(ro.queue)
  <2>1. n \in Nat /\ p \in 1..n /\ k \in 1..p
    BY <1>1
  <2> HIDE DEF n
  <2>2. k \in 1..n /\ p \in k..n
    BY <2>1
  <2> QED BY <2>2 DEF n
<1>3. a[ro.queue[k]] \in Nat /\ (a[ro.queue[k]] <= ro.pending[ro.queue[k]].index \/ Past(N, M, i, k))
  BY <1>2 DEF QueueOK
<1>4. ASSUME Past(N, M, i, k) PROVE FALSE
  <2>1. PICK Q \in SUBSET Server :
           Quorum(Q) /\ \A q \in Q : \A l \in k..Len(ro.queue) : Silent(M, i, N[i].term, ro, ro.queue[l], q)
    BY <1>4 DEF Past
  <2>2. \A q \in Q : q \notin ro.pending[x].acks
    <3> HIDE DEF ro
    <3>1. \A q \in Q : Silent(M, i, N[i].term, ro, ro.queue[p], q)
      BY <1>2, <2>1
    <3> QED BY <3>1 DEF Silent
  <2>3. Quorum(ro.pending[x].acks)
    OBVIOUS
  <2> HIDE DEF ro, x
  <2> QED BY <2>1, <2>2, <2>3, QuorumsMeet
<1> QED BY <1>3, <1>4

\* Requests leave the queue.
LEMMA ShiftedKeeps ==
    ASSUME NEW N \in [Server -> NodeRec], NEW M, NEW a, NEW rs, ReadsOK(N, M, a, rs), NEW i \in Server,
           N[i].readOnly \in ReadOnly, NEW ro, NEW p, Shifted(N[i].readOnly, ro, p)
    PROVE  ReadsOK(RoPut(N, i, ro), M, a, rs)
<1> DEFINE N2  == RoPut(N, i, ro)
           old == N[i].readOnly
           t   == N[i].term
           n   == Len(old.queue) - p
<1>1. /\ p \in 1..Len(old.queue) /\ ro \in ReadOnly /\ Len(ro.queue) = n
      /\ \A k \in 1..n : ro.queue[k] = old.queue[p + k]
      /\ DOMAIN ro.pending = DOMAIN old.pending \ {old.queue[k] : k \in 1..p}
      /\ \A y \in DOMAIN ro.pending : ro.pending[y] = old.pending[y]
      /\ ro.panicked = old.panicked
  BY DEF Shifted
<1>2. /\ N2 \in [Server -> NodeRec] /\ N2[i].readOnly = ro
      /\ \A s \in Server \ {i} : N2[s] = N[s]
      /\ \A s \in Server : N2[s].term = N[s].term /\ N2[s].state = N[s].state
  BY <1>1, RoPutIs
<1>3. /\ \A j \in Server : QueueOK(N, M, a, j)
      /\ \A y \in Request : RequestOK(N, M, a, y)
  BY DEF ReadsOK
<1>4. /\ {old.queue[k] : k \in 1..Len(old.queue)} = DOMAIN old.pending
      /\ \A k1, k2 \in 1..Len(old.queue) : old.queue[k1] = old.queue[k2] => k1 = k2
      /\ ~old.panicked /\ (old.queue # <<>> => Leads(N, i))
      /\ \A k \in 1..Len(old.queue) :
            a[old.queue[k]] \in Nat /\ (a[old.queue[k]] <= old.pending[old.queue[k]].index \/ Past(N, M, i, k))
  BY <1>3 DEF QueueOK
<1>5. Len(old.queue) \in Nat /\ old.queue # <<>> /\ n \in Nat /\ p \in Nat
  <2>1. Len(old.queue) \in Nat /\ old.queue \in Seq(Request)
    BY ReadOnlyFields
  <2> QED BY <1>1, <2>1
<1>6. N2[i].term = t /\ Len(old.queue) = p + n
  BY <1>1, <1>2, <1>5
<1>7. \A k \in 1..n : p + k \in 1..Len(old.queue)
  BY <1>1, <1>5
<1> HIDE DEF N2, old, t, n
<1>8. \A k \in 1..n : ro.queue[k] \in DOMAIN ro.pending
  <2> SUFFICES ASSUME NEW k \in 1..n PROVE old.queue[p + k] \in DOMAIN ro.pending
    BY <1>1
  <2>1. p + k \in 1..Len(old.queue)
    BY <1>7
  <2>2. ASSUME NEW k2 \in 1..p, old.queue[k2] = old.queue[p + k] PROVE FALSE
    <3>1. k2 \in 1..Len(old.queue) /\ k2 # p + k
      BY <1>1, <1>5, <1>6
    <3> QED BY <1>4, <2>1, <2>2, <3>1
  <2>3. old.queue[p + k] \in DOMAIN old.pending
    BY <1>4, <2>1
  <2> QED BY <1>1, <2>2, <2>3
<1>9. {ro.queue[k] : k \in 1..n} = DOMAIN ro.pending
  <2>1. ASSUME NEW y \in DOMAIN ro.pending PROVE \E k \in 1..n : y = ro.queue[k]
    <3>1. PICK k \in 1..Len(old.queue) : y = old.queue[k]
      BY <1>1, <1>4, <2>1
    <3>2. k \notin 1..p
      BY <1>1, <2>1, <3>1
    <3>3. k - p \in 1..n /\ p + (k - p) = k
      BY <1>5, <1>6, <3>1, <3>2
    <3> QED BY <1>1, <3>1, <3>3
  <2> QED BY <1>8, <2>1
<1>10. ASSUME NEW k1 \in 1..n, NEW k2 \in 1..n, ro.queue[k1] = ro.queue[k2] PROVE k1 = k2
  <2>1. p + k1 = p + k2
    BY <1>1, <1>4, <1>7, <1>10
  <2> QED BY <1>5, <2>1
<1>11. ASSUME NEW k \in 1..n, Past(N, M, i, p + k) PROVE Past(N2, M, i, k)
  <2>1. PICK Q \in SUBSET Server :
          Quorum(Q) /\ \A q \in Q : N[q].term > t /\ \A l \in (p + k)..Len(old.queue) : Silent(M, i, t, old, old.queue[l], q)
    BY <1>11 DEF Past, old, t
  <2>2. ASSUME NEW q \in Q, NEW l \in k..n PROVE Silent(M, i, t, ro, ro.queue[l], q)
    <3>1. l \in 1..n /\ p + l \in (p + k)..Len(old.queue)
      BY <1>5, <1>6, <1>11, <2>2
    <3>2. Silent(M, i, t, old, old.queue[p + l], q)
      BY <2>1, <2>2, <3>1
    <3>3. ro.queue[l] = old.queue[p + l] /\ ro.pending[ro.queue[l]] = old.pending[ro.queue[l]]
      BY <1>1, <1>8, <3>1
    <3> QED BY <3>2, <3>3 DEF Silent
  <2>3. \A q \in Q : N2[q].term > t
    BY <1>2, <2>1
  <2>4. N2[i].term = t /\ N2[i].readOnly = ro /\ Len(ro.queue) = n
    BY <1>1, <1>2, <1>6
  <2> QED BY <2>1, <2>2, <2>3, <2>4 DEF Past
<1>12. ASSUME NEW k \in 1..n
       PROVE  a[ro.queue[k]] \in Nat /\ (a[ro.queue[k]] <= ro.pending[ro.queue[k]].index \/ Past(N2, M, i, k))
  <2>1. ro.queue[k] = old.queue[p + k] /\ ro.pending[ro.queue[k]] = old.pending[ro.queue[k]] /\ p + k \in 1..Len(old.queue)
    BY <1>1, <1>7, <1>8
  <2> QED BY <1>4, <1>11, <2>1
<1>13. QueueOK(N2, M, a, i)
  <2>1. Leads(N2, i) /\ ~ro.panicked
    BY <1>1, <1>2, <1>4, <1>5 DEF Leads
  <2>2. N2[i].readOnly = ro /\ Len(ro.queue) = n
    BY <1>1, <1>2
  <2> QED BY <1>9, <1>10, <1>12, <2>1, <2>2 DEF QueueOK
<1>14. ASSUME NEW j \in Server, j # i PROVE QueueOK(N2, M, a, j)
  <2>1. Onward(N, M, N2, M)
    BY <1>2, NodeFields DEF Onward
  <2> QED BY <1>2, <1>3, <1>14, <2>1, QueueStays
<1>15. ASSUME NEW y \in Request PROVE RequestOK(N2, M, a, y)
  <2>1. \A s \in Server : DOMAIN N2[s].readOnly.pending \subseteq DOMAIN N[s].readOnly.pending
    BY <1>1, <1>2 DEF old
  <2>2. Taken(N2, M, y) => Taken(N, M, y)
    BY <2>1 DEF Taken
  <2> QED BY <1>3, <2>2 DEF RequestOK
<1>16. \A j \in Server : QueueOK(N2, M, a, j)
  BY <1>13, <1>14
<1>17. ReadsOK(N2, M, a, rs)
  BY <1>15, <1>16 DEF ReadsOK
<1> QED BY <1>17 DEF N2

\* A leader hears an acknowledgement (raft.go:1280-1305).
LEMMA StepHeartbeatRespKeeps ==
    ASSUME ReadInv, NEW i \in Server, NEW m \in net, StepHeartbeatResp(i, m)
    PROVE  ReadInv'
<1>1. /\ scenario \in Scenarios /\ Core(node, Beats(net), Asked(asked)) /\ ReadsOK(node, net, asked, readStates)
      /\ TermsUpTo(node, MaxTerm) /\ node \in [Server -> NodeRec] /\ net \in SUBSET Messages
      /\ (\A b \in net : b.term <= MaxTerm) /\ MaxTerm \in Nat
  BY InvFacts
<1>2. /\ node[i].readOnly \in ReadOnly /\ node[i].term \in Nat /\ node[i].term <= MaxTerm /\ m.from \in Server
      /\ node[i] \in NodeRec
  BY <1>1, CoreFacts, MessageFields DEF TermsUpTo
<1> DEFINE x  == m.ctx
           ro == RecvAck(node[i].readOnly, m.from, x)
           N1 == RoPut(node, i, ro)
           rss == {[ctx |-> y, index |-> ro.pending[y].index, from |-> ro.pending[y].from] :
                     y \in Done(ro, x) \cap DOMAIN ro.pending}
<1>3. /\ m.type = "MsgHeartbeatResp" /\ m.to = i /\ m.term = node[i].term
      /\ IF AckedByQuorum(ro, x)
           THEN node' = [node EXCEPT ![i].readOnly = Advance(ro, x)] /\ Respond(i, net, rss)
           ELSE node' = [node EXCEPT ![i].readOnly = ro] /\ UNCHANGED <<net, readStates>>
      /\ UNCHANGED <<asked, scenario>>
  BY DEF StepHeartbeatResp
<1>4. Acked(node[i].readOnly, ro, m.from, m.ctx) /\ ro \in ReadOnly
  <2>1. Acked(node[i].readOnly, ro, m.from, m.ctx)
    BY <1>2, RecvAckIs
  <2> HIDE DEF ro
  <2> QED BY <2>1 DEF Acked
<1> HIDE DEF ro, rss
<1>5. ReadsOK(N1, net, asked, readStates)
  BY <1>1, <1>2, <1>3, <1>4, AckedKeeps
<1>6. N1 \in [Server -> NodeRec] /\ N1[i].readOnly = ro /\ \A s \in Server : N1[s].term = node[s].term
  BY <1>1, <1>4, RoPutIs
<1>7. Core(N1, Beats(net), Asked(asked))
  BY <1>1, <1>4, ReadOnlyPut DEF RoPut
<1>8. CASE ~AckedByQuorum(ro, x)
  <2>1. node' = N1 /\ net' = net /\ readStates' = readStates /\ asked' = asked
    BY <1>1, <1>3, <1>8 DEF RoPut, Put
  <2>2. TermsUpTo(node', MaxTerm)
    BY <1>1, <1>6, <2>1 DEF TermsUpTo
  <2>3. ReadsKept(node', net', asked', readStates', MaxTerm)
    BY <1>1, <1>5, <1>7, <2>1, <2>2 DEF ReadsKept
  <2> QED BY <1>1, <1>3, <2>3, KeptGives
<1>9. CASE AckedByQuorum(ro, x)
  <2> DEFINE new == Advance(ro, x)
             N2  == RoPut(N1, i, new)
  <2>1. x \in DOMAIN ro.pending /\ Quorum(ro.pending[x].acks)
    <3>1. /\ x \in DOMAIN ro.pending
          /\ JointVoteResult(Conf, [q \in Server |-> IF q \in ro.pending[x].acks THEN "yes" ELSE "missing"]) = "VoteWon"
      BY <1>9 DEF AckedByQuorum
    <3>2. ro.pending[x].acks \in SUBSET Server
      <4>1. \A y \in DOMAIN ro.pending : ro.pending[y].acks \in SUBSET Server
        BY <1>4, ReadOnlyFields
      <4> QED BY <3>1, <4>1
    <3> QED BY <3>1, <3>2, WonIsQuorum
  <2>2. /\ QueueOK(N1, net, asked, i)
        /\ {ro.queue[k] : k \in 1..Len(ro.queue)} = DOMAIN ro.pending
        /\ \A k1, k2 \in 1..Len(ro.queue) : ro.queue[k1] = ro.queue[k2] => k1 = k2
    <3>1. QueueOK(N1, net, asked, i)
      BY <1>5 DEF ReadsOK
    <3> HIDE DEF N1
    <3> QED BY <1>6, <3>1 DEF QueueOK
  <2>3. PICK p \in 1..Len(ro.queue) :
           ro.queue[p] = x /\ Done(ro, x) = {ro.queue[k] : k \in 1..p} /\ Shifted(ro, new, p)
    BY <1>4, <2>1, <2>2, AdvanceIs
  <2> HIDE DEF new
  <2>4. ReadsOK(N2, net, asked, readStates)
    <3> HIDE DEF N1
    <3> QED BY <1>4, <1>5, <1>6, <2>3, ShiftedKeeps
  <2>5. /\ N2 \in [Server -> NodeRec] /\ (\A s \in Server : N2[s].term = N1[s].term)
        /\ new \in ReadOnly
    <3>1. new \in ReadOnly
      BY <2>3 DEF Shifted
    <3> HIDE DEF N1
    <3> QED BY <1>6, <3>1, RoPutIs
  <2>6. N2 = RoPut(node, i, new)
    <3> DEFINE r1 == [node[i] EXCEPT !.readOnly = ro]
    <3>1. r1 \in NodeRec /\ [r1 EXCEPT !.readOnly = new] = [node[i] EXCEPT !.readOnly = new]
      BY <1>2, <1>4 DEF NodeRec
    <3> HIDE DEF r1
    <3>2. Put(node, i, r1)[i] = r1 /\ \A s : Put(Put(node, i, r1), i, s) = Put(node, i, s)
      BY <1>1, <3>1, PutAgain
    <3>3. N1 = Put(node, i, r1)
      BY DEF RoPut, r1
    <3> QED BY <3>1, <3>2, <3>3 DEF RoPut
  <2>7. node' = N2 /\ Respond(i, net, rss) /\ asked' = asked
    BY <1>1, <1>3, <1>9, <2>6 DEF RoPut, Put, new
  <2>8. /\ rss \in SUBSET [ctx : Request, index : Nat, from : Server]
        /\ \A q \in rss : asked[q.ctx] \in Nat /\ asked[q.ctx] <= q.index
        /\ \A q \in rss : \A b \in net : ~(b.type = "MsgReadIndex" /\ b.ctx = q.ctx)
    <3> SUFFICES ASSUME NEW q \in rss
                 PROVE  /\ q \in [ctx : Request, index : Nat, from : Server]
                        /\ asked[q.ctx] \in Nat /\ asked[q.ctx] <= q.index
                        /\ \A b \in net : ~(b.type = "MsgReadIndex" /\ b.ctx = q.ctx)
      OBVIOUS
    <3>1. PICK y \in Done(ro, x) \cap DOMAIN ro.pending :
             q = [ctx |-> y, index |-> ro.pending[y].index, from |-> ro.pending[y].from]
      BY DEF rss
    <3>2. y \in Request /\ ro.pending[y].index \in Nat /\ ro.pending[y].from \in Server
      BY <1>4, <3>1, ReadOnlyFields
    <3>3. q \in [ctx : Request, index : Nat, from : Server] /\ q.ctx = y /\ q.index = ro.pending[y].index
      BY <3>1, <3>2
    <3>4. PICK k \in 1..p : y = ro.queue[k]
      BY <2>3, <3>1
    <3>5. asked[y] \in Nat /\ asked[y] <= ro.pending[y].index
      <4>1. N1[i].readOnly \in ReadOnly /\ p \in 1..Len(N1[i].readOnly.queue)
            /\ Quorum(N1[i].readOnly.pending[N1[i].readOnly.queue[p]].acks)
        <5>1. N1[i].readOnly = ro
          BY <1>6
        <5> HIDE DEF N1
        <5> QED BY <1>4, <2>1, <2>3, <5>1
      <4> HIDE DEF N1
      <4>2. /\ asked[N1[i].readOnly.queue[k]] \in Nat
            /\ asked[N1[i].readOnly.queue[k]] <= N1[i].readOnly.pending[N1[i].readOnly.queue[k]].index
        BY <2>2, <4>1, AnswerCovers
      <4> QED BY <1>6, <3>4, <4>2
    <3>6. \A b \in net : ~(b.type = "MsgReadIndex" /\ b.ctx = y)
      <4>1. Taken(N1, net, y) /\ RequestOK(N1, net, asked, y)
        BY <1>5, <1>6, <3>1, <3>2 DEF Taken, ReadsOK
      <4> QED BY <4>1 DEF RequestOK
    <3> QED BY <3>3, <3>5, <3>6
  <2> HIDE DEF N2
  <2>9. /\ ReadsOK(N2, net', asked, readStates') /\ Beats(net') = Beats(net)
        /\ \A b \in net' \ net : b.term = node[i].term
    BY <1>2, <2>4, <2>5, <2>7, <2>8, RespondKeeps
  <2>10. Core(N2, Beats(net), Asked(asked))
    BY <1>1, <2>5, <2>6, ReadOnlyPut DEF RoPut
  <2>11. TermsUpTo(N2, MaxTerm) /\ \A b \in net' : b.term <= MaxTerm
    BY <1>1, <1>2, <1>6, <2>5, <2>9 DEF TermsUpTo
  <2>12. ReadsKept(node', net', asked', readStates', MaxTerm)
    BY <2>7, <2>9, <2>10, <2>11 DEF ReadsKept
  <2> QED BY <1>1, <1>3, <2>12, KeptGives
<1> QED BY <1>8, <1>9

-----------------------------------------------------------------------------
(* The invariant *)

LEMMA InitReads == Init => ReadInv
<1> SUFFICES ASSUME Init PROVE ReadInv
  OBVIOUS
<1> DEFINE r == [term |-> 0, vote |-> None, state |-> "Follower", lead |-> None, log |-> <<>>,
                 committed |-> 0, votes |-> {}, match |-> [p \in Server |-> 0], readOnly |-> NewReadOnly]
<1>1. /\ scenario \in Scenarios /\ node = [i \in Server |-> r] /\ net = {} /\ asked = [x \in Request |-> None]
      /\ readStates = [i \in Server |-> {}]
  BY DEF Init
<1>2. r \in NodeRec
  <2>1. "Follower" \in States /\ [p \in Server |-> 0] \in [Server -> Nat] /\ NewReadOnly \in ReadOnly
        /\ <<>> \in Seq(Nat)
    BY EmptyReadOnly DEF States
  <2> QED BY <2>1 DEF NodeRec
<1>3. /\ r.term = 0 /\ r.state = "Follower" /\ Len(r.log) = 0 /\ r.committed = 0 /\ r.readOnly = NewReadOnly
  OBVIOUS
<1> HIDE DEF r
<1>4. node \in [Server -> NodeRec] /\ \A s \in Server : node[s] = r
  BY <1>1, <1>2
<1>5. ASSUME NEW s \in Server PROVE ServerOK(node, s)
  <2>1. \A b \in Server : Last(node[b]) = 0
    BY <1>3, <1>4 DEF Last
  <2>2. LogOK(node, s) /\ \A b \in Server : Agree(node, s, b)
    BY <1>3, <1>4, <2>1 DEF LogOK, Agree
  <2>3. Cov(node, node[s].committed, node[s].term) /\ ~Stands(node, s) /\ ~Leads(node, s)
    BY <1>3, <1>4 DEF Cov, Stands, Leads
  <2> QED BY <2>2, <2>3 DEF ServerOK
<1>6. Core(node, Beats(net), Asked(asked))
  <2>1. Beats(net) = {} /\ Asked(asked) = {}
    BY <1>1 DEF Beats, Asked
  <2> QED BY <1>4, <1>5, <2>1 DEF Core, AllOK
<1>7. ReadsOK(node, net, asked, readStates)
  <2>1. ASSUME NEW i \in Server PROVE QueueOK(node, net, asked, i)
    <3>1. node[i].readOnly = NewReadOnly
      BY <1>3, <1>4
    <3>2. /\ node[i].readOnly.queue = <<>> /\ DOMAIN node[i].readOnly.pending = {} /\ ~node[i].readOnly.panicked
      BY <3>1, EmptyReadOnly
    <3>3. 1..Len(node[i].readOnly.queue) = {}
      BY <3>2
    <3> QED BY <3>2, <3>3 DEF QueueOK
  <2>2. ASSUME NEW x \in Request PROVE RequestOK(node, net, asked, x)
    <3>1. ~Taken(node, net, x)
      BY <1>1, <1>3, <1>4, EmptyReadOnly DEF Taken
    <3> QED BY <1>1, <3>1 DEF RequestOK
  <2>3. /\ asked \in [Request -> Nat \cup {None}] /\ readStates \in [Server -> SUBSET [ctx : Request, index : Nat]]
        /\ \A i \in Server : readStates[i] = {}
    BY <1>1
  <2> QED BY <1>1, <2>1, <2>2, <2>3 DEF ReadsOK
<1>8. \A i \in Server : node[i].term <= MaxTerm
  BY <1>1, <1>3, <1>4, MaxTermIs
<1> QED BY <1>1, <1>6, <1>7, <1>8 DEF ReadInv

LEMMA NextKeepsReads == ReadInv /\ [Next]_vars => ReadInv'
<1> SUFFICES ASSUME ReadInv, [Next]_vars PROVE ReadInv'
  OBVIOUS
<1>1. /\ scenario \in Scenarios /\ Core(node, Beats(net), Asked(asked)) /\ Up \subseteq Server
  BY InvFacts
<1>2. ASSUME NEW i \in Server, Campaign(i) PROVE ReadInv'
  <2>1. UNCHANGED <<net, asked, readStates, scenario>>
    BY <1>2 DEF Campaign
  <2> QED BY <1>1, <1>2, <2>1, CampaignAdvances, QuietKeeps
<1>3. ASSUME NEW i \in Server, Propose(i) PROVE ReadInv'
  <2>1. UNCHANGED <<net, asked, readStates, scenario>>
    BY <1>3 DEF Propose
  <2> QED BY <1>1, <1>3, <2>1, ProposeAdvances, QuietKeeps
<1>4. ASSUME NEW i \in Server, Beat(i) PROVE ReadInv'
  BY <1>4, BeatKeeps
<1>5. ASSUME NEW i \in Server, NEW j \in Server, Vote(i, j) PROVE ReadInv'
  <2>1. UNCHANGED <<net, asked, readStates, scenario>>
    BY <1>5 DEF Vote
  <2> QED BY <1>1, <1>5, <2>1, VoteAdvances, QuietKeeps
<1>6. ASSUME NEW i \in Server, NEW j \in Server, NEW answered \in BOOLEAN, Replicate(i, j, answered) PROVE ReadInv'
  <2>1. UNCHANGED <<net, asked, readStates, scenario>>
    BY <1>6 DEF Replicate
  <2> QED BY <1>1, <1>6, <2>1, ReplicateAdvances, QuietKeeps
<1>7. ASSUME NEW i \in Server, NEW ctx \in Request, Ask(i, ctx) PROVE ReadInv'
  BY <1>7, AskKeeps
<1>8. ASSUME NEW i \in Up, NEW m \in net,
             StepReadIndex(i, m) \/ StepHeartbeat(i, m) \/ StepHeartbeatResp(i, m) \/ StepReadIndexResp(i, m)
      PROVE  ReadInv'
  <2>1. i \in Server
    BY <1>1
  <2> QED BY <1>8, <2>1, StepReadIndexKeeps, StepHeartbeatKeeps, StepHeartbeatRespKeeps, StepReadIndexRespKeeps
<1>9. ASSUME NEW m \in net, Lose(m) PROVE ReadInv'
  BY <1>9, LoseKeeps
<1>10. CASE UNCHANGED vars
  BY <1>10 DEF vars, ReadInv, MaxTerm
<1> QED BY <1>2, <1>3, <1>4, <1>5, <1>6, <1>7, <1>8, <1>9, <1>10 DEF Next

LEMMA ReadInvGives == ReadInv => ReadsCurrent
<1> SUFFICES ASSUME ReadInv PROVE ReadsCurrent
  OBVIOUS
<1>1. /\ Core(node, Beats(net), Asked(asked)) /\ ReadsOK(node, net, asked, readStates)
      /\ TermsUpTo(node, MaxTerm) /\ asked \in [Request -> Nat \cup {None}] /\ MaxTerm \in Nat
  BY InvFacts
<1>2. ASSUME NEW i \in Server
      PROVE  LET r == node[i]
             IN  /\ r.term \in 0..MaxTerm /\ r.committed <= LastIndex(r)
                 /\ r.state \in {"Follower", "Candidate", "Leader"}
                 /\ {r.readOnly.queue[k] : k \in 1..Len(r.readOnly.queue)} = DOMAIN r.readOnly.pending
                 /\ ~r.readOnly.panicked
  <2>1. ServerOK(node, i) /\ node[i].term \in Nat /\ node[i].state \in States /\ node[i].term <= MaxTerm
    BY <1>1, CoreFacts DEF TermsUpTo
  <2>2. node[i].committed <= LastIndex(node[i])
    BY <2>1 DEF ServerOK, LogOK, Last, LastIndex
  <2>3. QueueOK(node, net, asked, i)
    BY <1>1 DEF ReadsOK
  <2> QED BY <1>1, <2>1, <2>2, <2>3 DEF QueueOK, States
<1>3. TypeOK
  BY <1>1, <1>2 DEF TypeOK
<1>4. \A i \in Server : \A rs \in readStates[i] : rs.index >= asked[rs.ctx]
  BY <1>1 DEF ReadsOK
<1> QED BY <1>3, <1>4 DEF ReadsCurrent

\* A read index covers everything that was committed anywhere when the read was asked for, whoever
\* answers it and however late, and read_only.go never panics.
THEOREM ReadsAreCurrent == Spec => []ReadsCurrent
<1>1. Init => ReadInv
  BY InitReads
<1>2. ReadInv /\ [Next]_vars => ReadInv'
  BY NextKeepsReads
<1>3. ReadInv => ReadsCurrent
  BY ReadInvGives
<1> QED BY <1>1, <1>2, <1>3, PTL DEF Spec

=============================================================================

-------------------------- MODULE RaftCommitProofs --------------------------
(***************************************************************************)
(* Proofs about commitment in Raft, for every number of servers, of terms  *)
(* and of entries: no two servers commit different entries, a leader has   *)
(* all that is committed, what is committed is on the disks of a quorum,   *)
(* and nothing panics, whatever is lost, late or repeated, and whoever     *)
(* crashes.                                                                *)
(*                                                                         *)
(* The idea: a MsgApp, a MsgSnap and an ack claim that their sender has    *)
(* the log of the leader of their term up to an index.  Claims stay in the *)
(* network for good.  An entry is chosen once a quorum claims it in the    *)
(* entry's own term, and dead once a quorum can no longer do that.  A      *)
(* server that gives up an entry it has claimed, or votes for a candidate  *)
(* without it, does so only if the entry is dead.                          *)
(***************************************************************************)
EXTENDS RaftLogProofs

-----------------------------------------------------------------------------
(* Logs *)

\* A log that the leader of term t had at some time.
LeaderLog(N, K, log, t) == ValidIn(N, K, log) /\ Len(log) > 0 /\ log[Len(log)].term = t

Agree(a, b, x) == x <= Len(a) /\ x <= Len(b) /\ \A k \in 1..x : a[k] = b[k]

Has(log, x, t) == x \in 1..Len(log) /\ log[x].term = t

\* Request q was made with the log c.
AskedWith(N, K, c, q) == ValidIn(N, K, c) /\ Len(c) = q.index /\ TermAt(c, Len(c)) = q.logTerm

-----------------------------------------------------------------------------
(* Claims.  D are the terms on the disks. *)

Claim(m) == \/ m.type \in {"MsgApp", "MsgSnap"}
            \/ m.type = "MsgAppResp" /\ ~m.reject /\ m.index > 0

\* A message claims the log up to here.
End(m) == IF m.type = "MsgApp" THEN m.index + Len(m.entries) ELSE m.index

\* Server p has claimed in term t to have the leader's log up to x.
ClaimOf(N, p, t, x) == \E m \in N : Claim(m) /\ m.from = p /\ m.term = t /\ End(m) >= x

Claimants(N, t, x) == {p \in Server : ClaimOf(N, p, t, x)}

\* The last entry of a is chosen, and with it all of a.
Chosen(N, a) == Len(a) > 0 /\ HasQuorum(Server, Claimants(N, TermAt(a, Len(a)), Len(a)))

\* The entry of term t at x will never be chosen: a quorum is past t without a claim.
Dead(N, D, x, t) == HasQuorum(Server, {p \in Server : D[p] > t /\ ~ClaimOf(N, p, t, x)})

\* The log may be committed up to c in term T.
Safe(N, K, log, c, T) ==
    \/ c = 0
    \/ \E a : ValidIn(N, K, a) /\ Agree(log, a, c) /\ Chosen(N, a) /\ TermAt(a, Len(a)) <= T

\* Of the entries of its own term that m claims, as the leader's log a shows them, log has those
\* that are not dead.
Survives(N, D, m, a, log) ==
    \A x \in 1..End(m) : a[x].term = m.term => Has(log, x, m.term) \/ Dead(N, D, x, m.term)

\* A server with this log in term T keeps the promise of its claim m.
Backs(N, D, K, m, log, T) ==
    \E a : /\ LeaderLog(N, K, a, m.term) /\ End(m) <= Len(a)
           /\ \/ m.term = T /\ Agree(log, a, End(m))
              \/ m.term < T /\ Survives(N, D, m, a, log)

\* The vote that g tells of went to a candidate whose log keeps the promise of the voter's
\* earlier claim m.
VoteOK(N, D, K, g, m) ==
    \E a, c, q : /\ LeaderLog(N, K, a, m.term) /\ End(m) <= Len(a)
                 /\ q \in N \/ q = g
                 /\ Asks(q, Choice(g), g.term) /\ AskedWith(N, K, c, q) /\ Survives(N, D, m, a, c)

\* Server i told of a vote in g, and has made the claim m in an earlier term.
VotePair(i, g, m) == /\ g.from = i /\ (Grants(g) \/ g.type = "MsgVote")
                     /\ m.from = i /\ Claim(m) /\ m.term < g.term

-----------------------------------------------------------------------------
(* Messages *)

\* An ack claims part of a leader's log; if it is about an entry of its term, so has the leader.
AckOK(N, K, m) ==
    \E a : /\ LeaderLog(N, K, a, m.term) /\ m.index <= Len(a)
           /\ a[m.index].term = m.term =>
                 \E c \in Server : Elected(N, c, m.term) /\ ClaimOf(N, c, m.term, m.index)

AppOK(N, K, m) ==
    \E a : /\ LeaderLog(N, K, a, m.term) /\ End(m) <= Len(a) /\ m.logTerm = TermAt(a, m.index)
           /\ \A k \in 1..Len(m.entries) : m.entries[k] = a[m.index + k]
           /\ m.commit <= Len(a) /\ Safe(N, K, a, m.commit, m.term)

SnapOK(N, K, m) ==
    \E a : LeaderLog(N, K, a, m.term) /\ QuotesSnap(a, m) /\ Safe(N, K, a, m.index, m.term)

HeartbeatOK(N, K, m) ==
    \/ m.commit = 0
    \/ /\ ClaimOf(N, m.to, m.term, m.commit)
       /\ \E a : LeaderLog(N, K, a, m.term) /\ Safe(N, K, a, m.commit, m.term)

MsgOK(N, K, m) ==
    /\ m.type \in {"MsgApp", "MsgSnap", "MsgHeartbeat", "MsgAppResp", "MsgHeartbeatResp"} => m.from # m.to
    /\ m.type = "MsgApp" => AppOK(N, K, m)
    /\ m.type = "MsgSnap" => SnapOK(N, K, m)
    /\ m.type = "MsgHeartbeat" => HeartbeatOK(N, K, m)
    /\ m.type = "MsgAppResp" /\ Claim(m) => AckOK(N, K, m)
    /\ m.type = "MsgVote" => m.logTerm < m.term /\ \E c : AskedWith(N, K, c, m)
    /\ m.type = "MsgTransferLeader" => Elected(N, m.to, m.term)

\* What holds of the network.
Law(N, D, K) ==
    /\ World(N, K) /\ NetInv(N) /\ D \in [Server -> Nat]
    /\ \A m \in N : MsgOK(N, K, m)
    /\ \A m \in N : TellsVote(m) => D[m.from] >= m.term
    /\ \A i \in Server : \A g, m \in N : VotePair(i, g, m) => VoteOK(N, D, K, g, m)

-----------------------------------------------------------------------------
(* Terms in a log *)

\* Where a message ends.
LEMMA EndType ==
    ASSUME NEW m \in Message
    PROVE  End(m) \in Nat /\ m.index \in Nat /\ m.term \in Nat /\ m.from \in Server
BY DEF End, Message

\* Terms in a log begin above 0 and do not fall.
LEMMA TermsGrow ==
    ASSUME NEW N, NEW D, NEW K, Law(N, D, K), NEW a, ValidIn(N, K, a)
    PROVE  /\ \A x \in 1..Len(a) : a[x].term \in Nat /\ a[x].term > 0
           /\ \A y \in 1..Len(a) : \A x \in 1..y : a[x].term <= a[y].term
<1>1. a \in Seq(Entry) /\ Len(a) \in Nat
  BY DEF ValidIn
<1>2. ASSUME NEW x \in 1..Len(a)
      PROVE  a[x].term \in Nat /\ a[x].term > 0 /\ TermAt(a, x - 1) <= a[x].term
  <2>1. a[x].term \in Nat
    <3>1. a[x] \in Entry
      BY <1>1
    <3> QED BY <3>1 DEF Entry
  <2>2. Behind(N, x, a[x].term, TermAt(a, x - 1))
    BY DEF ValidIn, Valid
  <2>3. PICK q \in N : /\ Asks(q, q.from, a[x].term)
                       /\ TermAt(a, x - 1) = IF x = q.index + 1 THEN q.logTerm ELSE a[x].term
    BY <2>2 DEF Behind
  <2>4. q.term = a[x].term /\ q.type = "MsgVote" /\ q \in Message
    BY <2>3 DEF Asks, Law, World
  <2>5. q.logTerm < q.term /\ q.logTerm \in Nat
    BY <2>4 DEF Law, MsgOK, Message
  <2> QED BY <2>1, <2>3, <2>4, <2>5
<1>3. ASSUME NEW y \in 1..Len(a), NEW w \in 1..y PROVE a[w].term <= a[y].term
  <2> DEFINE T == {n \in Nat : n < y /\ ~(a[y - n].term <= a[y].term)}
  <2> SUFFICES ASSUME T # {} PROVE FALSE
    <3>1. y - w \in Nat /\ y - w < y /\ y - (y - w) = w
      OBVIOUS
    <3> QED BY <3>1
  <2>1. PICK n \in T : \A l \in T : n <= l
    <3>1. T \in SUBSET Nat
      OBVIOUS
    <3> HIDE DEF T
    <3> QED BY <3>1, LeastNat
  <2>2. n \in Nat /\ n < y /\ ~(a[y - n].term <= a[y].term)
    BY <2>1
  <2>3. a[y].term \in Nat
    BY <1>2
  <2>4. n # 0
    BY <2>2, <2>3
  <2>5. n - 1 \in Nat /\ n - 1 < y /\ ~(n <= n - 1)
    BY <2>2, <2>4
  <2>6. a[y - (n - 1)].term <= a[y].term
    BY <2>1, <2>5
  <2> DEFINE x == y - (n - 1)
  <2>7. x \in 1..Len(a) /\ x - 1 = y - n /\ x - 1 # 0 /\ x - 1 \in 1..Len(a)
    BY <1>1, <2>2, <2>4
  <2>8. a[x].term <= a[y].term
    BY <2>6
  <2> HIDE DEF x, T
  <2>9. a[x - 1].term <= a[x].term /\ a[x].term \in Nat /\ a[x - 1].term \in Nat
    BY <1>2, <2>7 DEF TermAt
  <2> QED BY <2>2, <2>3, <2>7, <2>8, <2>9
<1> QED BY <1>2, <1>3

\* The entries of a term stand in one row: logs of which one has an entry of the term at x, the
\* other one at or behind x, agree up to x.
LEMMA OwnRun ==
    ASSUME Several, NEW N, NEW K, World(N, K), NEW a, ValidIn(N, K, a), NEW b, ValidIn(N, K, b),
           NEW y \in 1..Len(a), NEW x \in 1..Len(b), x <= y, a[y].term = b[x].term
    PROVE  Agree(a, b, x)
<1> DEFINE t == b[x].term
           T == {n \in Nat : n <= y - x /\ a[y - n].term # t}
<1>1. a \in Seq(Entry) /\ b \in Seq(Entry) /\ Len(a) \in Nat /\ Len(b) \in Nat
  BY DEF ValidIn
<1>2. PICK q \in N : Asks(q, q.from, t) /\ Elected(N, q.from, t) /\ x > q.index
  BY DEF ValidIn, Valid, Behind
<1>3. q.index \in Nat
  BY DEF World, Message
<1>4. T = {}
  <2> SUFFICES ASSUME T # {} PROVE FALSE
    OBVIOUS
  <2>1. PICK n \in T : \A l \in T : n <= l
    <3>1. T \in SUBSET Nat
      OBVIOUS
    <3> HIDE DEF T
    <3> QED BY <3>1, LeastNat
  <2>2. n \in Nat /\ n <= y - x /\ a[y - n].term # t
    BY <2>1
  <2>3. n # 0
    BY <2>2
  <2>4. n - 1 \in Nat /\ n - 1 <= y - x /\ ~(n <= n - 1)
    BY <2>2, <2>3
  <2>5. a[y - (n - 1)].term = t
    BY <2>1, <2>4
  <2> DEFINE z == y - (n - 1)
  <2>6. z \in 1..Len(a) /\ z - 1 = y - n /\ z - 1 # 0 /\ z > q.index /\ z # q.index + 1
    BY <1>1, <1>2, <1>3, <2>2, <2>3
  <2>7. a[z].term = t
    BY <2>5
  <2> HIDE DEF z, T, t
  <2>8. Behind(N, z, t, TermAt(a, z - 1))
    BY <2>6, <2>7 DEF Valid, ValidIn
  <2>9. Behind(N, z, t, t)
    BY <1>2, <2>6 DEF Behind
  <2>10. TermAt(a, z - 1) = t
    BY <2>8, <2>9, BehindIsOne
  <2> QED BY <2>2, <2>6, <2>10 DEF TermAt
<1>5. x \in Nat /\ x >= 1 /\ x <= Len(a) /\ x <= Len(b) /\ y - x \in Nat /\ y - (y - x) = x
  BY <1>1
<1>6. a[x].term = b[x].term
  <2>1. y - x \notin T
    BY <1>4
  <2> QED BY <1>5, <2>1
<1> HIDE DEF t, T
<1>7. \A k \in 1..x : a[k] = b[k]
  BY <1>5, <1>6, LogsAgree
<1> QED BY <1>5, <1>7 DEF Agree
-----------------------------------------------------------------------------
(* Leaders have what is chosen *)

\* Logs with the same last index and term are the same.
LEMMA SameEnd ==
    ASSUME Several, NEW N, NEW K, World(N, K), NEW b, ValidIn(N, K, b), NEW c, ValidIn(N, K, c),
           Len(b) = Len(c), TermAt(b, Len(b)) = TermAt(c, Len(c))
    PROVE  \A x \in 1..Len(c) : b[x] = c[x]
<1>2. Len(b) = Len(c) /\ TermAt(b, Len(b)) = TermAt(c, Len(c)) /\ Len(c) \in Nat
  BY DEF ValidIn
<1>3. CASE Len(c) = 0
  BY <1>2, <1>3
<1>4. CASE Len(c) # 0
  <2>1. b[Len(c)].term = c[Len(c)].term /\ Len(c) >= 1
    BY <1>2, <1>4 DEF TermAt
  <2> DEFINE k == Len(c)
  <2>2. k \in Nat /\ k >= 1 /\ k <= Len(b) /\ k <= Len(c) /\ b[k].term = c[k].term
    BY <1>2, <2>1
  <2> HIDE DEF k
  <2>3. \A x \in 1..k : b[x] = c[x]
    BY <2>2, LogsAgree
  <2> QED BY <1>2, <2>3 DEF k
<1> QED BY <1>3, <1>4

\* A leader asked for votes with a log that has the entries of earlier terms that are not dead:
\* none of the quorum that voted for it has claimed one that is missing.
LEMMA LeaderHas ==
    ASSUME Several, NEW N, NEW D, NEW K, Law(N, D, K), NEW u,
           NEW q \in N, Asks(q, q.from, u), Elected(N, q.from, u), NEW c, AskedWith(N, K, c, q),
           NEW b, ValidIn(N, K, b), NEW x \in 1..Len(b), b[x].term < u
    PROVE  Has(c, x, b[x].term) \/ Dead(N, D, x, b[x].term)
<1> DEFINE t == b[x].term
           S == {p \in Server : D[p] > t /\ ~ClaimOf(N, p, t, x)}
<1> SUFFICES ASSUME ~Has(c, x, t), ~Dead(N, D, x, t) PROVE FALSE
  OBVIOUS
<1>0. World(N, K) /\ N \subseteq Message /\ q.from \in Server /\ q.term = u /\ u \in Nat
  BY DEF Law, World, Message, Asks
<1>1. t \in Nat /\ t < u /\ Len(b) \in Nat
  BY TermsGrow DEF ValidIn
<1>2. ASSUME NEW p \in Voters(N, q.from, u) PROVE p \in S
  <2>1. p \in Server
    BY DEF Voters
  <2>2. PICK g \in N : /\ g.from = p /\ g.term = u /\ Choice(g) = q.from /\ TellsVote(g)
                       /\ Grants(g) \/ g.type = "MsgVote"
    <3>1. CASE p = q.from
      <4>1. q.type = "MsgVote" /\ ~Grants(q)
        BY DEF Asks, Grants
      <4> QED BY <1>0, <3>1, <4>1 DEF Choice, TellsVote
    <3>2. CASE p # q.from
      <4>1. PICK g \in N : Grants(g) /\ g.from = p /\ g.to = q.from /\ g.term = u
        BY <3>2 DEF Voters, Granted
      <4> QED BY <4>1 DEF Choice, TellsVote
    <3> QED BY <3>1, <3>2
  <2>3. D[p] > t
    <3>1. D[p] >= u /\ D[p] \in Nat
      BY <2>1, <2>2 DEF Law
    <3> QED BY <1>0, <1>1, <3>1
  <2>4. ASSUME ClaimOf(N, p, t, x) PROVE FALSE
    <3>1. PICK m \in N : Claim(m) /\ m.from = p /\ m.term = t /\ End(m) >= x
      BY <2>4 DEF ClaimOf
    <3>2. VotePair(p, g, m)
      BY <1>1, <2>2, <3>1 DEF VotePair
    <3>3. VoteOK(N, D, K, g, m)
      BY <2>1, <3>2 DEF Law
    <3>4. PICK a, k, n : /\ LeaderLog(N, K, a, t) /\ End(m) <= Len(a) /\ n \in N
                         /\ Asks(n, q.from, u) /\ AskedWith(N, K, k, n) /\ Survives(N, D, m, a, k)
      <4> HIDE DEF t
      <4> QED BY <2>2, <3>1, <3>3 DEF VoteOK
    <3>5. Len(k) = Len(c) /\ \A z \in 1..Len(c) : k[z] = c[z]
      <4>1. n.index = q.index /\ n.logTerm = q.logTerm
        BY <1>0, <3>4 DEF World
      <4>2. /\ ValidIn(N, K, k) /\ ValidIn(N, K, c) /\ Len(k) = Len(c)
            /\ TermAt(k, Len(k)) = TermAt(c, Len(c))
        BY <3>4, <4>1 DEF AskedWith
      <4> QED BY <1>0, <4>2, SameEnd
    <3>6. ~Has(k, x, t)
      <4> HIDE DEF t
      <4> QED BY <3>5 DEF Has
    <3>7. x \in 1..End(m) /\ Len(a) \in 1..Len(a) /\ x <= Len(a)
      BY <3>1, <3>4, EndType, <1>0, <1>1 DEF LeaderLog, ValidIn
    <3>8. a[Len(a)].term = b[x].term /\ ValidIn(N, K, a)
      BY <3>4 DEF LeaderLog
    <3>9. Agree(a, b, x)
      BY <1>0, <3>7, <3>8, OwnRun
    <3>10. a[x].term = t
      BY <1>1, <3>9 DEF Agree
    <3> HIDE DEF t
    <3> QED BY <3>1, <3>4, <3>6, <3>7, <3>10 DEF Survives
  <2> QED BY <2>1, <2>3, <2>4
<1>3. HasQuorum(Server, S)
  <2>1. HasQuorum(Server, Voters(N, q.from, u)) /\ IsFiniteSet(Server)
    BY ServerAssumption DEF Elected
  <2>2. Voters(N, q.from, u) \subseteq S
    BY <1>2
  <2> HIDE DEF S
  <2> QED BY <2>1, <2>2, HasQuorumMonotone
<1> QED BY <1>3 DEF Dead

\* A log with an entry of a later term has an entry that is not dead: the first entry of a later
\* term stands behind the log with which its leader asked for votes.
LEMMA LaterHas ==
    ASSUME Several, NEW N, NEW D, NEW K, Law(N, D, K), NEW a, ValidIn(N, K, a), NEW y \in 1..Len(a),
           NEW b, ValidIn(N, K, b), NEW x \in 1..Len(b), b[x].term < a[y].term
    PROVE  Has(a, x, b[x].term) \/ Dead(N, D, x, b[x].term)
<1> DEFINE t == b[x].term
           T == {n \in Nat : n \in 1..Len(a) /\ t < a[n].term}
<1>0. World(N, K) /\ N \subseteq Message
  BY DEF Law, World
<1>1. Len(a) \in Nat /\ t \in Nat /\ \A n \in 1..Len(a) : a[n].term \in Nat
  BY TermsGrow DEF ValidIn
<1>2. PICK z \in T : \A l \in T : z <= l
  <2>1. T \in SUBSET Nat /\ y \in T
    BY <1>1
  <2> HIDE DEF T
  <2> QED BY <2>1, LeastNat
<1>3. z \in 1..Len(a) /\ t < a[z].term
  BY <1>2
<1>4. PICK q \in N : /\ Asks(q, q.from, a[z].term) /\ Elected(N, q.from, a[z].term) /\ z > q.index
                     /\ TermAt(a, z - 1) = IF z = q.index + 1 THEN q.logTerm ELSE a[z].term
  BY <1>3 DEF ValidIn, Valid, Behind
<1>5. q.index \in Nat /\ q.type = "MsgVote"
  BY <1>0, <1>4 DEF Message, Asks
<1>6. z = q.index + 1
  <2> SUFFICES ASSUME z # q.index + 1 PROVE FALSE
    OBVIOUS
  <2>1. z - 1 # 0 /\ z - 1 \in 1..Len(a) /\ z - 1 \in Nat /\ ~(z <= z - 1)
    BY <1>1, <1>3, <1>4, <1>5
  <2>2. a[z - 1].term = a[z].term
    BY <1>4, <2>1 DEF TermAt
  <2>3. z - 1 \in T
    BY <1>3, <2>1, <2>2
  <2> QED BY <1>2, <2>1, <2>3
<1>7. PICK c : AskedWith(N, K, c, q)
  BY <1>5 DEF Law, MsgOK
<1>8. Has(c, x, t) \/ Dead(N, D, x, t)
  <2> DEFINE u == a[z].term
  <2>1. b[x].term < u /\ Asks(q, q.from, u) /\ Elected(N, q.from, u)
    BY <1>3, <1>4
  <2> HIDE DEF u
  <2> QED BY <1>7, <2>1, LeaderHas
<1>9. ASSUME Has(c, x, t) PROVE Has(a, x, t)
  <2>1. /\ ValidIn(N, K, c) /\ Len(c) = z - 1 /\ TermAt(c, Len(c)) = TermAt(a, z - 1)
        /\ x \in 1..Len(c) /\ c[x].term = t
    BY <1>3, <1>4, <1>5, <1>6, <1>7, <1>9 DEF AskedWith, Has
  <2> DEFINE k == z - 1
  <2>2. k \in Nat /\ k >= 1 /\ k <= Len(a) /\ k <= Len(c) /\ k # 0 /\ x \in 1..k /\ x \in 1..Len(a)
    BY <1>1, <1>3, <2>1
  <2>3. a[k].term = c[k].term
    BY <2>1, <2>2 DEF TermAt
  <2> HIDE DEF k, T, t
  <2>4. \A n \in 1..k : a[n] = c[n]
    <3>1. ValidIn(N, K, c)
      BY <2>1
    <3> QED BY <1>0, <3>1, <2>2, <2>3, LogsAgree
  <2>5. a[x].term = t
    BY <2>1, <2>2, <2>4
  <2> HIDE DEF t
  <2> QED BY <2>2, <2>5 DEF Has
<1> QED BY <1>8, <1>9

\* What is chosen is not dead.
LEMMA ChosenLives ==
    ASSUME NEW N, NEW D, NEW a, Chosen(N, a)
    PROVE  ~Dead(N, D, Len(a), TermAt(a, Len(a)))
<1> DEFINE x == Len(a)
           t == TermAt(a, Len(a))
           S == {p \in Server : D[p] > t /\ ~ClaimOf(N, p, t, x)}
<1> SUFFICES ASSUME HasQuorum(Server, S) PROVE FALSE
  BY DEF Dead
<1>1. HasQuorum(Server, Claimants(N, t, x))
  BY DEF Chosen
<1>2. \A v \in Server : ~(v \in S /\ v \in Claimants(N, t, x))
  BY DEF Claimants
<1> HIDE DEF S, t, x
<1> QED BY <1>1, <1>2, QuorumsIntersect, ServerAssumption

\* A log that a leader of the same or a later term had agrees with one that is chosen; in a later
\* term it has all of it.
LEMMA ChosenInLater ==
    ASSUME Several, NEW N, NEW D, NEW K, Law(N, D, K), NEW a, ValidIn(N, K, a), Chosen(N, a),
           NEW T, NEW b, LeaderLog(N, K, b, T), TermAt(a, Len(a)) <= T
    PROVE  /\ Agree(a, b, Len(a)) \/ (TermAt(a, Len(a)) = T /\ Agree(a, b, Len(b)))
           /\ TermAt(a, Len(a)) \in Nat /\ Len(a) \in 1..Len(a) /\ TermAt(a, Len(a)) = a[Len(a)].term
           /\ T \in Nat
<1>0. World(N, K) /\ ValidIn(N, K, b)
  BY DEF Law, LeaderLog
<1>1. /\ Len(a) \in 1..Len(a) /\ Len(b) \in 1..Len(b) /\ Len(a) \in Nat /\ Len(b) \in Nat
      /\ TermAt(a, Len(a)) = a[Len(a)].term /\ b[Len(b)].term = T
  BY DEF Chosen, LeaderLog, ValidIn, TermAt
<1>2. a[Len(a)].term \in Nat /\ T \in Nat
  BY <1>0, <1>1, TermsGrow
<1>3. CASE TermAt(a, Len(a)) < T
  <2>1. Has(b, Len(a), a[Len(a)].term)
    <3>1. Has(b, Len(a), a[Len(a)].term) \/ Dead(N, D, Len(a), a[Len(a)].term)
      BY <1>0, <1>1, <1>3, LaterHas
    <3> QED BY <1>1, <3>1, ChosenLives
  <2> DEFINE k == Len(a)
  <2>2. k \in Nat /\ k >= 1 /\ k <= Len(a) /\ k <= Len(b) /\ a[k].term = b[k].term
    BY <1>1, <2>1 DEF Has
  <2> HIDE DEF k
  <2>3. \A x \in 1..k : a[x] = b[x]
    BY <1>0, <2>2, LogsAgree
  <2>4. Agree(a, b, k)
    BY <2>2, <2>3 DEF Agree
  <2> QED BY <1>1, <1>2, <2>4 DEF k
<1>4. CASE TermAt(a, Len(a)) = T
  <2>1. CASE Len(a) <= Len(b)
    <3>1. Agree(b, a, Len(a))
      BY <1>0, <1>1, <1>4, <2>1, OwnRun
    <3>2. Agree(a, b, Len(a))
      BY <3>1 DEF Agree
    <3> QED BY <1>1, <1>2, <3>2
  <2>2. CASE Len(b) <= Len(a)
    <3>1. Agree(a, b, Len(b))
      BY <1>0, <1>1, <1>4, <2>2, OwnRun
    <3> QED BY <1>1, <1>2, <1>4, <3>1
  <2> QED BY <1>1, <2>1, <2>2
<1> QED BY <1>1, <1>2, <1>3, <1>4
\* The last term of a log.
LEMMA LastTermType ==
    ASSUME NEW N, NEW K, NEW a, ValidIn(N, K, a)
    PROVE  TermAt(a, Len(a)) \in Nat /\ Len(a) \in Nat /\ a \in Seq(Entry)
<1>1. a \in Seq(Entry) /\ Len(a) \in Nat
  BY DEF ValidIn
<1>2. Len(a) # 0 => a[Len(a)] \in Entry
  BY <1>1
<1> QED BY <1>1, <1>2 DEF TermAt, Entry

\* What is safe stays so in a later term, and in a log that agrees.
LEMMA SafeOther ==
    ASSUME NEW N, NEW K, NEW log, NEW c \in Nat, NEW T \in Nat, Safe(N, K, log, c, T),
           NEW other, NEW d \in Nat, d <= c, NEW U \in Nat, T <= U, d # 0 => Agree(log, other, d)
    PROVE  Safe(N, K, other, d, U)
<1>1. CASE d = 0
  BY <1>1 DEF Safe
<1>2. CASE d # 0
  <2>1. PICK a : ValidIn(N, K, a) /\ Agree(log, a, c) /\ Chosen(N, a) /\ TermAt(a, Len(a)) <= T
    BY <1>2 DEF Safe
  <2>2. TermAt(a, Len(a)) \in Nat /\ Len(a) \in Nat
    BY <2>1, LastTermType
  <2>3. TermAt(a, Len(a)) <= U
    BY <2>1, <2>2
  <2>4. Agree(other, a, d)
    <3>1. d <= Len(a) /\ d <= Len(other)
      BY <1>2, <2>1, <2>2 DEF Agree
    <3>2. ASSUME NEW k \in 1..d PROVE other[k] = a[k]
      <4>1. k \in 1..c
        OBVIOUS
      <4> QED BY <1>2, <2>1, <4>1 DEF Agree
    <3> QED BY <3>1, <3>2 DEF Agree
  <2> QED BY <2>1, <2>3, <2>4 DEF Safe
<1> QED BY <1>1, <1>2

\* What is committed somewhere, and a log that the leader of that term or a later one had.
LEMMA SafeInLeader ==
    ASSUME Several, NEW N, NEW D, NEW K, Law(N, D, K), NEW log, NEW c \in Nat, NEW T \in Nat,
           Safe(N, K, log, c, T), NEW U \in Nat, T <= U, NEW b, LeaderLog(N, K, b, U)
    PROVE  /\ \A x \in 1..c : x <= Len(b) => b[x] = log[x]
           /\ c # 0 => \E a : LeaderLog(N, K, a, U) /\ Agree(log, a, c) /\ (a = b \/ Chosen(N, a))
<1>1. CASE c = 0
  BY <1>1
<1>2. CASE c # 0
  <2>1. PICK a : ValidIn(N, K, a) /\ Agree(log, a, c) /\ Chosen(N, a) /\ TermAt(a, Len(a)) <= T
    BY <1>2 DEF Safe
  <2>2. TermAt(a, Len(a)) \in Nat /\ TermAt(a, Len(a)) <= U
    BY <2>1, LastTermType
  <2>3. /\ Agree(a, b, Len(a)) \/ (TermAt(a, Len(a)) = U /\ Agree(a, b, Len(b)))
        /\ Len(a) \in 1..Len(a) /\ TermAt(a, Len(a)) = a[Len(a)].term
    BY <2>1, <2>2, ChosenInLater
  <2>4. Len(a) \in Nat /\ Len(b) \in Nat
    BY <2>1, LastTermType DEF LeaderLog
  <2>5. ASSUME NEW x \in 1..c, x <= Len(b) PROVE b[x] = log[x]
    <3>1. log[x] = a[x] /\ x \in 1..Len(a) /\ x \in 1..Len(b)
      BY <2>1, <2>4, <2>5 DEF Agree
    <3>2. a[x] = b[x]
      BY <2>3, <3>1 DEF Agree
    <3> QED BY <3>1, <3>2
  <2>6. CASE TermAt(a, Len(a)) = U
    <3>1. LeaderLog(N, K, a, U)
      BY <2>1, <2>3, <2>4, <2>6 DEF LeaderLog
    <3> QED BY <2>1, <2>5, <3>1
  <2>7. CASE Agree(a, b, Len(a))
    <3>1. Agree(log, b, c)
      <4>1. c <= Len(log) /\ c <= Len(b)
        BY <2>1, <2>4, <2>7 DEF Agree
      <4>2. \A k \in 1..c : log[k] = b[k]
        BY <2>5, <2>4, <4>1
      <4> QED BY <4>1, <4>2 DEF Agree
    <3> QED BY <2>5, <3>1
  <2> QED BY <2>3, <2>6, <2>7
<1> QED BY <1>1, <1>2

\* Two logs, each as far as it is committed.
LEMMA SafeAgree ==
    ASSUME Several, NEW N, NEW D, NEW K, Law(N, D, K),
           NEW log, NEW c \in Nat, NEW T \in Nat, Safe(N, K, log, c, T),
           NEW other, NEW d \in Nat, NEW U \in Nat, Safe(N, K, other, d, U),
           NEW x \in 1..c, x \in 1..d
    PROVE  log[x] = other[x]
<1>1. c # 0 /\ d # 0
  OBVIOUS
<1>2. PICK a : ValidIn(N, K, a) /\ Agree(log, a, c) /\ Chosen(N, a) /\ TermAt(a, Len(a)) <= T
  BY <1>1 DEF Safe
<1>3. PICK b : ValidIn(N, K, b) /\ Agree(other, b, d) /\ Chosen(N, b) /\ TermAt(b, Len(b)) <= U
  BY <1>1 DEF Safe
<1>4. /\ TermAt(a, Len(a)) \in Nat /\ Len(a) \in Nat /\ Len(a) # 0
      /\ TermAt(b, Len(b)) \in Nat /\ Len(b) \in Nat /\ Len(b) # 0
  BY <1>2, <1>3, LastTermType DEF Chosen
<1>5. LeaderLog(N, K, a, TermAt(a, Len(a))) /\ LeaderLog(N, K, b, TermAt(b, Len(b)))
  BY <1>2, <1>3, <1>4 DEF LeaderLog, TermAt
<1>6. Agree(a, b, Len(a)) \/ Agree(a, b, Len(b)) \/ Agree(b, a, Len(a)) \/ Agree(b, a, Len(b))
  <2>1. CASE TermAt(a, Len(a)) <= TermAt(b, Len(b))
    BY <1>2, <1>5, <2>1, ChosenInLater
  <2>2. CASE TermAt(b, Len(b)) <= TermAt(a, Len(a))
    BY <1>3, <1>5, <2>2, ChosenInLater
  <2> QED BY <1>4, <2>1, <2>2
<1>7. log[x] = a[x] /\ other[x] = b[x] /\ x \in 1..Len(a) /\ x \in 1..Len(b)
  BY <1>2, <1>3, <1>4 DEF Agree
<1> QED BY <1>6, <1>7 DEF Agree

-----------------------------------------------------------------------------
(* Claims are kept *)

\* A later term: what agreed is still there.
LEMMA BacksLater ==
    ASSUME NEW N, NEW D, NEW K, NEW m \in Message, NEW log, NEW T \in Nat, NEW U \in Nat, T <= U,
           Backs(N, D, K, m, log, T)
    PROVE  Backs(N, D, K, m, log, U)
<1>1. PICK a : /\ LeaderLog(N, K, a, m.term) /\ End(m) <= Len(a)
               /\ \/ m.term = T /\ Agree(log, a, End(m))
                  \/ m.term < T /\ Survives(N, D, m, a, log)
  BY DEF Backs
<1>2. End(m) \in Nat /\ m.term \in Nat /\ Len(a) \in Nat
  BY <1>1, EndType, LastTermType DEF LeaderLog
<1>3. CASE T = U
  BY <1>3
<1>4. CASE T < U /\ m.term = T /\ Agree(log, a, End(m))
  <2>1. Survives(N, D, m, a, log)
    <3> SUFFICES ASSUME NEW x \in 1..End(m), a[x].term = m.term PROVE Has(log, x, m.term)
      BY DEF Survives
    <3>1. log[x] = a[x] /\ End(m) <= Len(log)
      BY <1>4 DEF Agree
    <3>2. CASE Len(log) \in Nat
      BY <1>2, <3>1, <3>2 DEF Has
    <3>3. x \in 1..Len(log)
      BY <1>2, <3>1
    <3> QED BY <3>1, <3>3 DEF Has
  <2> QED BY <1>1, <1>4, <2>1 DEF Backs
<1>5. CASE T < U /\ m.term < T /\ Survives(N, D, m, a, log)
  <2>1. m.term < U
    BY <1>2, <1>5
  <2> QED BY <1>1, <1>5, <2>1 DEF Backs
<1> QED BY <1>1, <1>3, <1>4, <1>5

\* A longer log.
LEMMA BacksExtend ==
    ASSUME NEW N, NEW D, NEW K, NEW m \in Message, NEW log \in Seq(Entry), NEW T, Backs(N, D, K, m, log, T),
           NEW other \in Seq(Entry), Agree(log, other, Len(log))
    PROVE  Backs(N, D, K, m, other, T)
<1>1. PICK a : /\ LeaderLog(N, K, a, m.term) /\ End(m) <= Len(a)
               /\ \/ m.term = T /\ Agree(log, a, End(m))
                  \/ m.term < T /\ Survives(N, D, m, a, log)
  BY DEF Backs
<1>2. End(m) \in Nat /\ Len(log) \in Nat /\ Len(other) \in Nat /\ Len(log) <= Len(other)
  BY EndType DEF Agree
<1>3. ASSUME Agree(log, a, End(m)) PROVE Agree(other, a, End(m))
  <2>1. End(m) <= Len(other) /\ End(m) <= Len(a) /\ End(m) <= Len(log)
    BY <1>2, <1>3 DEF Agree
  <2>2. ASSUME NEW k \in 1..End(m) PROVE other[k] = a[k]
    <3>1. k \in 1..Len(log)
      BY <1>2, <2>1
    <3> QED BY <1>3, <3>1 DEF Agree
  <2> QED BY <2>1, <2>2 DEF Agree
<1>4. ASSUME NEW x, NEW t, Has(log, x, t) PROVE Has(other, x, t)
  <2>1. x \in 1..Len(log) /\ x \in 1..Len(other) /\ log[x].term = t
    BY <1>2, <1>4 DEF Has
  <2>2. log[x] = other[x]
    BY <2>1 DEF Agree
  <2> QED BY <2>1, <2>2 DEF Has
<1>5. ASSUME Survives(N, D, m, a, log) PROVE Survives(N, D, m, a, other)
  BY <1>4, <1>5 DEF Survives
<1> QED BY <1>1, <1>3, <1>5 DEF Backs

\* A log that conflicts with that of the leader of the term is replaced by a part of the latter,
\* up to the conflict at least.
LEMMA BacksReplace ==
    ASSUME Several, NEW N, NEW D, NEW K, Law(N, D, K), NEW m \in Message, NEW T \in Nat,
           NEW old, ValidIn(N, K, old), Backs(N, D, K, m, old, T),
           NEW b, LeaderLog(N, K, b, T), NEW log \in Seq(Entry), Agree(log, b, Len(log)),
           NEW z \in 1..Len(log), z <= Len(old) => old[z].term # b[z].term
    PROVE  Backs(N, D, K, m, log, T)
<1>1. PICK a : /\ LeaderLog(N, K, a, m.term) /\ End(m) <= Len(a)
               /\ \/ m.term = T /\ Agree(old, a, End(m))
                  \/ m.term < T /\ Survives(N, D, m, a, old)
  BY DEF Backs
<1>2. /\ End(m) \in Nat /\ Len(old) \in Nat /\ Len(log) \in Nat /\ Len(a) \in Nat /\ Len(b) \in Nat
      /\ Len(log) <= Len(b) /\ m.term \in Nat /\ Len(a) # 0 /\ Len(b) # 0
      /\ World(N, K) /\ ValidIn(N, K, a) /\ ValidIn(N, K, b)
      /\ a[Len(a)].term = m.term /\ b[Len(b)].term = T
  BY <1>1, EndType, LastTermType DEF Agree, LeaderLog, Law
<1>3. CASE m.term = T /\ Agree(old, a, End(m))
  <2>1. ASSUME NEW x \in 1..Len(a), x <= Len(b) PROVE a[x] = b[x]
    <3>1. CASE Len(a) <= Len(b)
      <4>1. Agree(b, a, Len(a))
        BY <1>2, <1>3, <3>1, OwnRun
      <4> QED BY <4>1 DEF Agree
    <3>2. CASE Len(b) <= Len(a)
      <4>1. Agree(a, b, Len(b))
        BY <1>2, <1>3, <3>2, OwnRun
      <4>2. x \in 1..Len(b)
        BY <1>2, <2>1
      <4> QED BY <4>1, <4>2 DEF Agree
    <3> QED BY <1>2, <3>1, <3>2
  <2>2. End(m) < z
    <3> SUFFICES ASSUME z <= End(m) PROVE FALSE
      BY <1>2
    <3>1. z \in 1..End(m) /\ z \in 1..Len(a) /\ z <= Len(b) /\ z <= Len(old)
      BY <1>1, <1>2, <1>3 DEF Agree
    <3>2. old[z] = a[z] /\ a[z] = b[z]
      BY <1>3, <2>1, <3>1 DEF Agree
    <3> QED BY <3>1, <3>2
  <2>3. Agree(log, a, End(m))
    <3>1. End(m) <= Len(log) /\ End(m) <= Len(a)
      BY <1>1, <1>2, <2>2
    <3>2. ASSUME NEW k \in 1..End(m) PROVE log[k] = a[k]
      <4>1. k \in 1..Len(log) /\ k \in 1..Len(a) /\ k <= Len(b)
        BY <1>2, <3>1
      <4> QED BY <2>1, <4>1 DEF Agree
    <3> QED BY <3>1, <3>2 DEF Agree
  <2> QED BY <1>1, <1>3, <2>3 DEF Backs
<1>4. CASE m.term < T /\ Survives(N, D, m, a, old)
  <2> SUFFICES ASSUME NEW x \in 1..End(m), a[x].term = m.term, Has(old, x, m.term)
               PROVE  Has(log, x, m.term) \/ Dead(N, D, x, m.term)
    BY <1>1, <1>4 DEF Backs, Survives
  <2>1. x \in 1..Len(a) /\ x \in 1..Len(old) /\ old[x].term = m.term /\ Len(b) \in 1..Len(b)
    BY <1>1, <1>2 DEF Has
  <2>2. Has(b, x, a[x].term) \/ Dead(N, D, x, a[x].term)
    BY <1>2, <1>4, <2>1, LaterHas
  <2>3. CASE Has(b, x, m.term)
    <3>1. x \in 1..Len(b) /\ b[x].term = m.term
      BY <2>3 DEF Has
    <3>2. CASE x <= Len(log)
      <4>1. x \in 1..Len(log) /\ log[x] = b[x]
        BY <2>1, <3>2, <1>2 DEF Agree
      <4> QED BY <3>1, <4>1 DEF Has
    <3>3. CASE x > Len(log)
      <4>1. x \in Nat /\ x >= 1 /\ x <= Len(old) /\ x <= Len(b) /\ old[x].term = b[x].term
        BY <1>2, <2>1, <3>1
      <4>2. \A k \in 1..x : old[k] = b[k]
        BY <1>2, <4>1, LogsAgree
      <4>3. z \in 1..x /\ z <= Len(old)
        BY <1>2, <3>3, <4>1
      <4> QED BY <4>2, <4>3
    <3> QED BY <1>2, <2>1, <3>2, <3>3
  <2> QED BY <2>2, <2>3
<1> QED BY <1>1, <1>3, <1>4

\* A vote goes to a log that is at least as new as that of the voter (log.go:313-315): it has what
\* the voter has of the entries it claimed.
LEMMA SurvivesVote ==
    ASSUME Several, NEW N, NEW D, NEW K, Law(N, D, K), NEW m \in Message,
           NEW a, LeaderLog(N, K, a, m.term), End(m) <= Len(a),
           NEW log, ValidIn(N, K, log), Survives(N, D, m, a, log), NEW c, ValidIn(N, K, c),
           \/ TermAt(c, Len(c)) > TermAt(log, Len(log))
           \/ TermAt(c, Len(c)) = TermAt(log, Len(log)) /\ Len(c) >= Len(log)
    PROVE  Survives(N, D, m, a, c)
<1> SUFFICES ASSUME NEW x \in 1..End(m), a[x].term = m.term, Has(log, x, m.term)
             PROVE  Has(c, x, m.term) \/ Dead(N, D, x, m.term)
  BY DEF Survives
<1>1. /\ End(m) \in Nat /\ Len(log) \in Nat /\ Len(c) \in Nat /\ Len(a) \in Nat /\ m.term \in Nat
      /\ TermAt(c, Len(c)) \in Nat /\ TermAt(log, Len(log)) \in Nat /\ ValidIn(N, K, a) /\ World(N, K)
  BY EndType, LastTermType DEF LeaderLog, Law
<1>2. x \in 1..Len(a) /\ x \in 1..Len(log) /\ log[x].term = m.term /\ Len(log) \in 1..Len(log)
  BY <1>1 DEF Has
<1>3. TermAt(log, Len(log)) = log[Len(log)].term
  BY <1>2 DEF TermAt
<1>4. m.term <= TermAt(log, Len(log))
  BY <1>2, <1>3, TermsGrow
<1>5. CASE TermAt(c, Len(c)) > TermAt(log, Len(log))
  <2>1. Len(c) # 0
    BY <1>1, <1>5 DEF TermAt
  <2>2. Len(c) \in 1..Len(c) /\ TermAt(c, Len(c)) = c[Len(c)].term
    BY <1>1, <2>1 DEF TermAt
  <2>3. a[x].term < c[Len(c)].term
    BY <1>1, <1>4, <1>5, <2>2
  <2>4. Has(c, x, a[x].term) \/ Dead(N, D, x, a[x].term)
    BY <1>1, <1>2, <2>2, <2>3, LaterHas
  <2> QED BY <2>4
<1>6. CASE TermAt(c, Len(c)) = TermAt(log, Len(log)) /\ Len(c) >= Len(log)
  <2>1. Len(c) \in 1..Len(c) /\ c[Len(c)].term = log[Len(log)].term /\ Len(log) <= Len(c)
    BY <1>1, <1>2, <1>3, <1>6 DEF TermAt
  <2>2. Agree(c, log, Len(log))
    BY <1>1, <1>2, <2>1, OwnRun
  <2>3. c[x] = log[x] /\ x \in 1..Len(c)
    BY <1>1, <1>2, <2>1, <2>2 DEF Agree
  <2> QED BY <1>2, <2>3 DEF Has
<1> QED BY <1>5, <1>6
-----------------------------------------------------------------------------
(* More messages, more entries and later terms on disk *)

\* The network grows to O, by claims of terms that are not below those on disk, and the terms on
\* disk move on to E.
Onward(N, D, O, E) ==
    /\ N \subseteq O /\ O \subseteq Message /\ D \in [Server -> Nat] /\ E \in [Server -> Nat]
    /\ \A p \in Server : D[p] <= E[p]
    /\ \A m \in O : m \in N \/ ~Claim(m) \/ m.term >= D[m.from]

\* What is said of logs and claims remains true.
LEMMA LogsMonotone ==
    ASSUME NEW N, NEW O, N \subseteq O, NEW K, NEW L, K \subseteq L
    PROVE  /\ \A a : ValidIn(N, K, a) => ValidIn(O, L, a)
           /\ \A a, t : LeaderLog(N, K, a, t) => LeaderLog(O, L, a, t)
           /\ \A c, q : AskedWith(N, K, c, q) => AskedWith(O, L, c, q)
           /\ \A p, t, x : ClaimOf(N, p, t, x) => ClaimOf(O, p, t, x)
           /\ \A a : Chosen(N, a) => Chosen(O, a)
<1>1. \A a : ValidIn(N, K, a) => ValidIn(O, L, a)
  BY BehindMonotone DEF ValidIn
<1>2. \A p, t, x : ClaimOf(N, p, t, x) => ClaimOf(O, p, t, x)
  BY DEF ClaimOf
<1>3. ASSUME NEW a, Chosen(N, a) PROVE Chosen(O, a)
  <2> DEFINE t == TermAt(a, Len(a))
             x == Len(a)
  <2>1. HasQuorum(Server, Claimants(N, t, x)) /\ IsFiniteSet(Server) /\ x > 0
    BY <1>3, ServerAssumption DEF Chosen
  <2> HIDE DEF t, x
  <2>2. Claimants(N, t, x) \subseteq Claimants(O, t, x)
    BY <1>2 DEF Claimants
  <2>3. HasQuorum(Server, Claimants(O, t, x))
    BY <2>1, <2>2, HasQuorumMonotone
  <2> QED BY <2>1, <2>3 DEF Chosen, t, x
<1> QED BY <1>1, <1>2, <1>3 DEF LeaderLog, AskedWith

\* What is safe stays so.
LEMMA SafeMonotone ==
    ASSUME NEW N, NEW O, N \subseteq O, NEW K, NEW L, K \subseteq L, NEW log, NEW c, NEW T,
           Safe(N, K, log, c, T)
    PROVE  Safe(O, L, log, c, T)
BY LogsMonotone DEF Safe

\* A message remains true.
LEMMA MsgOKMonotone ==
    ASSUME NEW N, NEW O, N \subseteq O, NEW K, NEW L, K \subseteq L, NEW m, MsgOK(N, K, m)
    PROVE  MsgOK(O, L, m)
<1>1. /\ \A a, t : LeaderLog(N, K, a, t) => LeaderLog(O, L, a, t)
      /\ \A c, q : AskedWith(N, K, c, q) => AskedWith(O, L, c, q)
      /\ \A p, t, x : ClaimOf(N, p, t, x) => ClaimOf(O, p, t, x)
      /\ \A log, c, T : Safe(N, K, log, c, T) => Safe(O, L, log, c, T)
      /\ \A c, t : Elected(N, c, t) => Elected(O, c, t)
  BY LogsMonotone, SafeMonotone, ElectedMonotone
<1>2. AppOK(N, K, m) => AppOK(O, L, m)
  BY <1>1 DEF AppOK
<1>3. SnapOK(N, K, m) => SnapOK(O, L, m)
  BY <1>1 DEF SnapOK
<1>4. HeartbeatOK(N, K, m) => HeartbeatOK(O, L, m)
  BY <1>1 DEF HeartbeatOK
<1>5. AckOK(N, K, m) => AckOK(O, L, m)
  <2> SUFFICES ASSUME AckOK(N, K, m) PROVE AckOK(O, L, m)
    OBVIOUS
  <2>1. PICK a : /\ LeaderLog(N, K, a, m.term) /\ m.index <= Len(a)
                 /\ a[m.index].term = m.term =>
                       \E c \in Server : Elected(N, c, m.term) /\ ClaimOf(N, c, m.term, m.index)
    BY DEF AckOK
  <2>2. a[m.index].term = m.term =>
           \E c \in Server : Elected(O, c, m.term) /\ ClaimOf(O, c, m.term, m.index)
    BY <1>1, <2>1
  <2> QED BY <1>1, <2>1, <2>2 DEF AckOK
<1>6. (\E c : AskedWith(N, K, c, m)) => \E c : AskedWith(O, L, c, m)
  BY <1>1
<1> QED BY <1>1, <1>2, <1>3, <1>4, <1>5, <1>6 DEF MsgOK

\* What is dead stays so.
LEMMA DeadMonotone ==
    ASSUME NEW N, NEW D, NEW O, NEW E, Onward(N, D, O, E), NEW x, NEW t, Dead(N, D, x, t), t \in Nat
    PROVE  Dead(O, E, x, t)
<1> DEFINE S == {p \in Server : D[p] > t /\ ~ClaimOf(N, p, t, x)}
           R == {p \in Server : E[p] > t /\ ~ClaimOf(O, p, t, x)}
<1>1. ASSUME NEW p \in S PROVE p \in R
  <2>1. p \in Server /\ D[p] \in Nat /\ E[p] \in Nat /\ D[p] > t /\ D[p] <= E[p] /\ ~ClaimOf(N, p, t, x)
    BY DEF Onward
  <2>2. E[p] > t
    BY <2>1
  <2>3. ASSUME ClaimOf(O, p, t, x) PROVE FALSE
    <3>1. PICK m \in O : Claim(m) /\ m.from = p /\ m.term = t /\ End(m) >= x
      BY <2>3 DEF ClaimOf
    <3>2. m \notin N
      BY <2>1, <3>1 DEF ClaimOf
    <3>3. t >= D[p]
      BY <3>1, <3>2 DEF Onward
    <3> QED BY <2>1, <3>3
  <2> QED BY <2>1, <2>2, <2>3
<1>2. HasQuorum(Server, S) /\ IsFiniteSet(Server)
  BY ServerAssumption DEF Dead
<1>3. S \subseteq R
  BY <1>1
<1> HIDE DEF S, R
<1>4. HasQuorum(Server, R)
  BY <1>2, <1>3, HasQuorumMonotone
<1> QED BY <1>4 DEF Dead, R

\* A claim that is kept stays so, and so does one that a vote keeps.
LEMMA ClaimsMonotone ==
    ASSUME NEW N, NEW D, NEW O, NEW E, Onward(N, D, O, E), NEW K, NEW L, K \subseteq L, NEW m \in Message
    PROVE  /\ \A log, T : Backs(N, D, K, m, log, T) => Backs(O, E, L, m, log, T)
           /\ \A g : VoteOK(N, D, K, g, m) => VoteOK(O, E, L, g, m)
<1>0. N \subseteq O
  BY DEF Onward
<1>1. ASSUME NEW a, NEW log, Survives(N, D, m, a, log) PROVE Survives(O, E, m, a, log)
  <2>1. m.term \in Nat
    BY EndType
  <2>2. \A x : Dead(N, D, x, m.term) => Dead(O, E, x, m.term)
    BY <2>1, DeadMonotone
  <2> QED BY <1>1, <2>2 DEF Survives
<1>2. /\ \A a, t : LeaderLog(N, K, a, t) => LeaderLog(O, L, a, t)
      /\ \A c, q : AskedWith(N, K, c, q) => AskedWith(O, L, c, q)
  BY <1>0, LogsMonotone
<1>3. ASSUME NEW log, NEW T, Backs(N, D, K, m, log, T) PROVE Backs(O, E, L, m, log, T)
  BY <1>1, <1>2, <1>3 DEF Backs
<1>4. ASSUME NEW g, VoteOK(N, D, K, g, m) PROVE VoteOK(O, E, L, g, m)
  <2>1. PICK a, c, q : /\ LeaderLog(N, K, a, m.term) /\ End(m) <= Len(a)
                       /\ q \in N \/ q = g
                       /\ Asks(q, Choice(g), g.term) /\ AskedWith(N, K, c, q) /\ Survives(N, D, m, a, c)
    BY <1>4 DEF VoteOK
  <2>2. q \in O \/ q = g
    BY <1>0, <2>1
  <2>3. LeaderLog(O, L, a, m.term) /\ AskedWith(O, L, c, q) /\ Survives(O, E, m, a, c)
    BY <1>1, <1>2, <2>1
  <2> QED BY <2>1, <2>2, <2>3 DEF VoteOK
<1> QED BY <1>3, <1>4

\* Entries alone may be added.
LEMMA StayOnward ==
    ASSUME NEW N, N \subseteq Message, NEW D \in [Server -> Nat]
    PROVE  Onward(N, D, N, D)
<1>1. \A p \in Server : D[p] \in Nat
  OBVIOUS
<1> QED BY <1>1 DEF Onward

\* The law of the network, with more entries.
LEMMA LawMonotone ==
    ASSUME NEW N, NEW D, NEW K, Law(N, D, K), NEW L, K \subseteq L, NetLogInv(N, L), EntriesInv(N, L)
    PROVE  Law(N, D, L)
<1>1. World(N, L) /\ N \subseteq Message /\ D \in [Server -> Nat]
  BY DEF Law, World
<1>2. \A m \in N : MsgOK(N, L, m)
  BY MsgOKMonotone DEF Law
<1>3. ASSUME NEW i \in Server, NEW g \in N, NEW m \in N, VotePair(i, g, m) PROVE VoteOK(N, D, L, g, m)
  <2>1. Onward(N, D, N, D) /\ m \in Message
    BY <1>1, StayOnward
  <2>2. VoteOK(N, D, K, g, m)
    BY <1>3 DEF Law
  <2> QED BY <2>1, <2>2, ClaimsMonotone
<1> QED BY <1>1, <1>2, <1>3 DEF Law

-----------------------------------------------------------------------------
(* The inductive invariant *)

\* Server p has acknowledged the leader's log of term t up to x.
Acknowledged(N, p, t, x) ==
    \E m \in N : m.type = "MsgAppResp" /\ ~m.reject /\ m.from = p /\ m.term = t /\ m.index = x

\* What leader i of term t with n entries knows of p.
PeerOK(N, i, p, pr, n, t) ==
    /\ pr.Match <= n /\ pr.Next <= n + 1 /\ pr.PendingSnapshot <= n
    /\ p # i => pr.Match = 0 \/ Acknowledged(N, p, t, pr.Match)

\* The role of a server: whom it takes for the leader was elected, and a leader knows of the others
\* what they have acknowledged.
RoleInv(i, r, N) ==
    /\ r.lead # None => Elected(N, r.lead, r.Term) /\ (r.state # "Leader" => r.lead # i)
    /\ r.state = "Leader" => \A p \in Server : PeerOK(N, i, p, r.prs[p], Len(r.log), r.Term)
    /\ ~r.panicked

\* What is to be sent is true, and claims are about the own log since the last Ready.
ToSendInv(i, r, d, N, K) ==
    \A m \in r.msgs : MsgOK(N, K, m) /\ (Claim(m) => m.from = i /\ m.term >= d.Term)

\* Claims are kept by the server, and once they are sent by its disk; votes respect them.
ClaimInv(i, r, d, N, D, K) ==
    /\ \A m \in N \cup r.msgs : Claim(m) /\ m.from = i => Backs(N, D, K, m, r.log, r.Term)
    /\ \A m \in N : Claim(m) /\ m.from = i => Backs(N, D, K, m, d.log, d.Term)
    /\ \A g, m \in N \cup r.msgs : VotePair(i, g, m) => VoteOK(N, D, K, g, m)

\* What is committed is chosen, in memory and on disk.
SafeInv(r, d, N, K) ==
    /\ Safe(N, K, r.log, r.committed, r.Term) /\ Safe(N, K, d.log, d.Commit, d.Term)
    /\ TermAt(r.log, Len(r.log)) <= r.Term /\ TermAt(d.log, Len(d.log)) <= d.Term

Sound(i, r, d, N, D, K) ==
    ToSendInv(i, r, d, N, K) /\ ClaimInv(i, r, d, N, D, K) /\ SafeInv(r, d, N, K) /\ RoleInv(i, r, N)

\* All that is known of a server.
Solid(i, r, d, N, D, K) == Fit(i, r, d, N, K) /\ Law(N, D, K) /\ Sound(i, r, d, N, D, K)

DiskTerms == [p \in Server |-> disk[p].Term]

CommitHolds(K) == /\ \A i \in Server : Sound(i, node[i], disk[i], net, DiskTerms, K)
                  /\ \A m \in net : MsgOK(net, K, m)

CommitInv == Several => \E K : LogsHold(K) /\ CommitHolds(K)

-----------------------------------------------------------------------------
(* Steps of a server *)

\* With more entries.
LEMMA SoundMonotone ==
    ASSUME NEW i, NEW r, StructOK(r), NEW d, NEW N, NEW D, NEW K, Law(N, D, K), NEW L, K \subseteq L,
           Sound(i, r, d, N, D, K)
    PROVE  Sound(i, r, d, N, D, L)
<1>1. Onward(N, D, N, D) /\ N \subseteq Message /\ r.msgs \subseteq Message
  BY StayOnward, StructFields DEF Law, World
<1>2. ToSendInv(i, r, d, N, L)
  BY MsgOKMonotone DEF Sound, ToSendInv
<1>3. ClaimInv(i, r, d, N, D, L)
  <2>1. \A m \in N \cup r.msgs : m \in Message
    BY <1>1
  <2>2. \A m \in N \cup r.msgs : /\ \A log, T : Backs(N, D, K, m, log, T) => Backs(N, D, L, m, log, T)
                                 /\ \A g : VoteOK(N, D, K, g, m) => VoteOK(N, D, L, g, m)
    BY <1>1, <2>1, ClaimsMonotone
  <2> QED BY <2>2 DEF Sound, ClaimInv
<1>4. SafeInv(r, d, N, L)
  BY SafeMonotone DEF Sound, SafeInv
<1> QED BY <1>2, <1>3, <1>4 DEF Sound

\* What a server in state s may send.
MaySend(i, s, d, N, D, K, m) ==
    /\ MsgOK(N, K, m)
    /\ Claim(m) => /\ m.from = i /\ m.term = s.Term
                   /\ Backs(N, D, K, m, s.log, s.Term)
    /\ Grants(m) \/ m.type = "MsgVote" =>
          \A k \in N \cup s.msgs : VotePair(i, m, k) => VoteOK(N, D, K, m, k)

\* A step to state s: what remains to be shown.
LEMMA SoundIf ==
    ASSUME NEW i \in Server, NEW r, NEW s, NEW d, NEW N, NEW D, NEW K, Good(i, r, d, N), StructOK(s),
           Law(N, D, K), Sound(i, r, d, N, D, K), s.Term >= r.Term,
           \A m \in N \cup r.msgs : Claim(m) /\ m.from = i => Backs(N, D, K, m, s.log, s.Term),
           \A m \in s.msgs : m \in r.msgs \/ MaySend(i, s, d, N, D, K, m),
           Safe(N, K, s.log, s.committed, s.Term), TermAt(s.log, Len(s.log)) <= s.Term,
           RoleInv(i, s, N)
    PROVE  Sound(i, s, d, N, D, K)
<1>0. /\ r.Term \in Nat /\ s.Term \in Nat /\ d.Term \in Nat /\ d.Term <= r.Term
      /\ N \subseteq Message /\ r.msgs \subseteq Message /\ s.msgs \subseteq Message
  <2>1. r.Term \in Nat /\ s.Term \in Nat /\ r.msgs \subseteq Message /\ s.msgs \subseteq Message
    BY StructFields DEF Good
  <2>2. d.Term \in Nat /\ N \subseteq Message
    BY DEF Good, DiskOK, Disk
  <2>3. d.Term <= r.Term
    BY <2>1, <2>2 DEF Good, ServerInv, PastDisk
  <2> QED BY <2>1, <2>2, <2>3
<1>1. ToSendInv(i, s, d, N, K)
  <2> SUFFICES ASSUME NEW m \in s.msgs
               PROVE  MsgOK(N, K, m) /\ (Claim(m) => m.from = i /\ m.term >= d.Term)
    BY DEF ToSendInv
  <2>1. CASE m \in r.msgs
    BY <2>1 DEF Sound, ToSendInv
  <2>2. CASE MaySend(i, s, d, N, D, K, m)
    <3>1. s.Term >= d.Term
      BY <1>0
    <3> QED BY <2>2, <3>1 DEF MaySend
  <2> QED BY <2>1, <2>2
<1>2. ClaimInv(i, s, d, N, D, K)
  <2>1. ASSUME NEW m \in N \cup s.msgs, Claim(m), m.from = i PROVE Backs(N, D, K, m, s.log, s.Term)
    <3>1. CASE m \in N \cup r.msgs
      BY <2>1, <3>1
    <3>2. CASE m \notin N \cup r.msgs
      BY <2>1, <3>2 DEF MaySend
    <3> QED BY <3>1, <3>2
  <2>2. \A m \in N : Claim(m) /\ m.from = i => Backs(N, D, K, m, d.log, d.Term)
    BY DEF Sound, ClaimInv
  <2>3. ASSUME NEW g \in N \cup s.msgs, NEW m \in N \cup s.msgs, VotePair(i, g, m)
        PROVE  VoteOK(N, D, K, g, m)
    <3>1. CASE g \notin N \cup r.msgs
      BY <2>3, <3>1 DEF MaySend, VotePair
    <3>2. CASE g \in N \cup r.msgs /\ m \in N \cup r.msgs
      BY <2>3, <3>2 DEF Sound, ClaimInv
    <3>3. CASE g \in N \cup r.msgs /\ m \notin N \cup r.msgs
      <4>1. m.term = s.Term /\ m.term < g.term /\ g.term \in Nat
        BY <1>0, <2>3, <3>3 DEF MaySend, VotePair, Message
      <4>2. g \in r.msgs \cup N /\ TellsVote(g) /\ g.from = i
        BY <2>3, <3>3 DEF VotePair, TellsVote
      <4>3. ~(g.term > r.Term)
        BY <4>2, ToldInPast
      <4> QED BY <1>0, <4>1, <4>3
    <3> QED BY <3>1, <3>2, <3>3
  <2> QED BY <2>1, <2>2, <2>3 DEF ClaimInv
<1>3. SafeInv(s, d, N, K)
  BY DEF Sound, SafeInv
<1> QED BY <1>1, <1>2, <1>3 DEF Sound
\* What a server has in its log.
LEMMA OwnLogValid ==
    ASSUME NEW i, NEW r, NEW d, NEW N, NEW K, Fit(i, r, d, N, K)
    PROVE  /\ ValidIn(N, K, r.log)
           /\ r.state = "Leader" => LeaderLog(N, K, r.log, r.Term)
<1>1. StructOK(r) /\ LogInv(r, d, N, K) /\ LeaderInv(r, K)
  BY DEF Fit, Good, ReplicaInv
<1>2. ValidIn(N, K, r.log)
  BY <1>1, StructFields DEF ValidIn, LogInv
<1> QED BY <1>1, <1>2 DEF LeaderLog, LeaderInv

\* What remains to be shown of the messages of a calm step.
Apt(s, N, m) ==
    /\ m.type \in {"MsgApp", "MsgSnap", "MsgHeartbeat", "MsgAppResp", "MsgHeartbeatResp"} => m.from # m.to
    /\ m.type = "MsgApp" => m.index <= Len(s.log)
    /\ m.type = "MsgTransferLeader" => Elected(N, m.to, m.term)

\* A leader quotes its log, as far as it is committed.
LEMMA QuotesMaySend ==
    ASSUME NEW i \in Server, NEW s, NEW d, NEW N, NEW D, NEW K, StructOK(s), NEW m \in Message,
           LeaderLog(N, K, s.log, s.Term), Safe(N, K, s.log, s.committed, s.Term),
           m.type \in {"MsgApp", "MsgSnap"}, m.from = i, m.term = s.Term, Speaks(s, m), Apt(s, N, m)
    PROVE  MaySend(i, s, d, N, D, K, m)
<1>0. /\ s.Term \in Nat /\ s.committed \in Nat /\ s.committed <= Len(s.log) /\ Len(s.log) \in Nat
      /\ s.log \in Seq(Entry)
  BY StructFields DEF StructOK, LastIndex
<1>1. m.index \in Nat /\ m.commit \in Nat /\ Len(m.entries) \in Nat /\ m.entries \in Seq(Entry)
  BY DEF Message
<1>2. End(m) <= Len(s.log) /\ End(m) \in Nat
  <2>1. CASE m.type = "MsgApp"
    <3>1. m.index <= Len(s.log)
      BY <2>1 DEF Apt
    <3>2. QuotesApp(s.log, m)
      BY <2>1 DEF Speaks
    <3>3. m.index + Len(m.entries) <= Len(s.log)
      BY <1>0, <1>1, <3>1, <3>2 DEF QuotesApp
    <3> QED BY <1>1, <2>1, <3>3 DEF End
  <2>2. CASE m.type = "MsgSnap"
    BY <1>0, <1>1, <2>2 DEF Speaks, QuotesSnap, End
  <2> QED BY <2>1, <2>2
<1>3. \A k \in Nat : k <= Len(s.log) => Agree(s.log, s.log, k)
  BY <1>0 DEF Agree
<1>4. Backs(N, D, K, m, s.log, s.Term)
  BY <1>2, <1>3 DEF Backs
<1>5. \A c \in Nat : c <= s.committed => Safe(N, K, s.log, c, s.Term)
  <2> SUFFICES ASSUME NEW c \in Nat, c <= s.committed PROVE Safe(N, K, s.log, c, s.Term)
    OBVIOUS
  <2>1. Agree(s.log, s.log, c) /\ s.Term <= s.Term
    BY <1>0, <1>3
  <2> QED BY <1>0, <2>1, SafeOther
<1>6. m.type = "MsgApp" => AppOK(N, K, m)
  <2> SUFFICES ASSUME m.type = "MsgApp" PROVE AppOK(N, K, m)
    OBVIOUS
  <2>1. QuotesApp(s.log, m) /\ m.commit <= s.committed /\ m.index <= Len(s.log)
    BY DEF Speaks, Apt
  <2>2. /\ m.index + Len(m.entries) <= Len(s.log) /\ m.logTerm = TermAt(s.log, m.index)
        /\ \A k \in 1..Len(m.entries) : m.entries[k] = s.log[m.index + k]
    BY <1>0, <1>1, <2>1 DEF QuotesApp
  <2>3. m.commit <= Len(s.log) /\ Safe(N, K, s.log, m.commit, m.term)
    BY <1>0, <1>1, <1>5, <2>1
  <2> QED BY <1>2, <2>2, <2>3 DEF AppOK
<1>7. m.type = "MsgSnap" => SnapOK(N, K, m)
  BY <1>1, <1>5 DEF SnapOK, Speaks
<1>8. MsgOK(N, K, m) /\ ~Grants(m) /\ m.type # "MsgVote"
  BY <1>6, <1>7 DEF MsgOK, Apt, Grants
<1> QED BY <1>4, <1>8 DEF MaySend

\* A step with no part in elections that leaves the log alone.
LEMMA CalmKeepsSolid ==
    ASSUME NEW i \in Server, NEW r, NEW s, NEW d, NEW N, NEW D, NEW K, Solid(i, r, d, N, D, K), Calm(i, r, s),
           Safe(N, K, s.log, s.committed, s.Term), RoleInv(i, s, N),
           \A m \in s.msgs : m \in r.msgs \/ Apt(s, N, m)
    PROVE  Solid(i, s, d, N, D, K)
<1>1. Fit(i, r, d, N, K) /\ Law(N, D, K) /\ Sound(i, r, d, N, D, K) /\ Good(i, r, d, N)
  BY DEF Solid, Fit
<1>2. Fit(i, s, d, N, K)
  BY <1>1, CalmKeepsFit
<1>3. StructOK(s) /\ s.state = r.state /\ s.Term = r.Term /\ s.log = r.log
  BY CalmFields
<1>4. s.Term >= r.Term
  <2>1. r.Term \in Nat
    BY <1>1, StructFields DEF Good
  <2> QED BY <1>3, <2>1
<1>5. \A m \in N \cup r.msgs : Claim(m) /\ m.from = i => Backs(N, D, K, m, s.log, s.Term)
  BY <1>1, <1>3 DEF Sound, ClaimInv
<1>6. ASSUME NEW m \in s.msgs, m \notin r.msgs PROVE MaySend(i, s, d, N, D, K, m)
  <2>1. QuietMessage(i, r, m) /\ Speaks(s, m) /\ Apt(s, N, m)
    BY <1>6 DEF Calm, Quiet, Stays
  <2>2. CASE m.type \in {"MsgApp", "MsgSnap"}
    <3>1. m \in Message /\ m.from = i /\ m.term = s.Term /\ s.state = "Leader"
      BY <1>3, <2>1, <2>2 DEF QuietMessage, FromLeader
    <3>2. LeaderLog(N, K, s.log, s.Term)
      BY <1>2, <3>1, OwnLogValid
    <3> QED BY <1>3, <2>1, <2>2, <3>1, <3>2, QuotesMaySend
  <2>3. CASE m.type \notin {"MsgApp", "MsgSnap"}
    <3>1. ~Grants(m) /\ m.type # "MsgVote" /\ m.type # "MsgHeartbeat" /\ (m.type = "MsgAppResp" => m.index = 0)
      BY <2>1 DEF QuietMessage, Speaks
    <3>2. ~Claim(m)
      BY <2>3, <3>1 DEF Claim
    <3>3. MsgOK(N, K, m)
      BY <2>1, <2>3, <3>1, <3>2 DEF MsgOK, Apt
    <3> QED BY <3>1, <3>2, <3>3 DEF MaySend
  <2> QED BY <2>2, <2>3
<1>7. TermAt(s.log, Len(s.log)) <= s.Term
  BY <1>1, <1>3 DEF Sound, SafeInv
<1>8. Sound(i, s, d, N, D, K)
  BY <1>1, <1>3, <1>4, <1>5, <1>6, <1>7, SoundIf
<1> QED BY <1>1, <1>2, <1>8 DEF Solid

-----------------------------------------------------------------------------
(* Terms and roles *)

\* A server in another term or role with the same log.
LEMMA TurnKeepsSolid ==
    ASSUME NEW i \in Server, NEW r, NEW s, NEW d, NEW N, NEW D, NEW K, Solid(i, r, d, N, D, K), Fit(i, s, d, N, K),
           s.log = r.log, s.committed = r.committed, s.msgs = r.msgs, s.Term >= r.Term, RoleInv(i, s, N)
    PROVE  Solid(i, s, d, N, D, K)
<1>1. Law(N, D, K) /\ Sound(i, r, d, N, D, K) /\ Good(i, r, d, N) /\ StructOK(r) /\ StructOK(s)
  BY DEF Solid, Fit, Good
<1>2. /\ r.Term \in Nat /\ s.Term \in Nat /\ r.committed \in Nat /\ r.log \in Seq(Entry) /\ r.msgs \subseteq Message
      /\ N \subseteq Message /\ r.committed <= Len(r.log)
  BY <1>1, StructFields DEF Good, StructOK
<1>3. ASSUME NEW m \in N \cup r.msgs, Claim(m), m.from = i PROVE Backs(N, D, K, m, s.log, s.Term)
  <2>1. Backs(N, D, K, m, r.log, r.Term) /\ m \in Message /\ r.Term <= s.Term
    BY <1>1, <1>2, <1>3 DEF Sound, ClaimInv
  <2> QED BY <1>2, <2>1, BacksLater
<1>4. Safe(N, K, s.log, s.committed, s.Term)
  <2>1. Agree(r.log, s.log, r.committed) /\ r.committed <= r.committed /\ r.Term <= s.Term
    BY <1>2 DEF Agree
  <2>2. Safe(N, K, r.log, r.committed, r.Term)
    BY <1>1 DEF Sound, SafeInv
  <2>3. Safe(N, K, s.log, r.committed, s.Term)
    BY <1>2, <2>1, <2>2, SafeOther
  <2> QED BY <2>3
<1>5. TermAt(s.log, Len(s.log)) <= s.Term
  <2>1. TermAt(r.log, Len(r.log)) <= r.Term /\ TermAt(r.log, Len(r.log)) \in Nat
    BY <1>1, OwnLogValid, LastTermType DEF Sound, SafeInv, Solid
  <2> HIDE DEF TermAt
  <2> QED BY <1>2, <2>1
<1>6. Sound(i, s, d, N, D, K)
  BY <1>1, <1>3, <1>4, <1>5, SoundIf
<1> QED BY <1>1, <1>6 DEF Solid

\* The role of a server that does not lead.
LEMMA RoleIf ==
    ASSUME NEW i, NEW s, NEW N, ~s.panicked, s.state # "Leader",
           s.lead # None => Elected(N, s.lead, s.Term) /\ s.lead # i
    PROVE  RoleInv(i, s, N)
BY DEF RoleInv

\* Fields that reset and becomeFollower leave alone, or set (raft.go:584-613, 680-687).
LEMMA BecomeFollowerFields ==
    ASSUME NEW r, StructOK(r), NEW term, NEW lead
    PROVE  LET s == BecomeFollower(r, term, lead)
           IN  /\ s.lead = lead /\ s.panicked = r.panicked /\ s.state = "Follower" /\ s.Term = term
               /\ s.log = r.log /\ s.committed = r.committed /\ s.msgs = r.msgs
<1>1. r \in RaftStruct
  BY DEF StructOK
<1> QED BY <1>1 DEF BecomeFollower, Reset, RaftStruct

\* A server that is solid: its fields.
LEMMA SolidFields ==
    ASSUME NEW i, NEW r, NEW d, NEW N, NEW D, NEW K, Solid(i, r, d, N, D, K)
    PROVE  /\ Fit(i, r, d, N, K) /\ Law(N, D, K) /\ Sound(i, r, d, N, D, K) /\ RoleInv(i, r, N)
           /\ Good(i, r, d, N) /\ StructOK(r) /\ ~r.panicked /\ N \subseteq Message
           /\ r.Term \in Nat /\ r.committed \in Nat /\ r.log \in Seq(Entry) /\ Len(r.log) \in Nat
           /\ r.committed <= Len(r.log) /\ Safe(N, K, r.log, r.committed, r.Term) /\ World(N, K)
<1>1. Fit(i, r, d, N, K) /\ Law(N, D, K) /\ Sound(i, r, d, N, D, K)
  BY DEF Solid
<1>2. Good(i, r, d, N) /\ StructOK(r) /\ N \subseteq Message
  BY <1>1 DEF Fit, Good
<1>3. RoleInv(i, r, N) /\ ~r.panicked /\ Safe(N, K, r.log, r.committed, r.Term)
  BY <1>1 DEF Sound, RoleInv, SafeInv
<1> QED BY <1>1, <1>2, <1>3, StructFields DEF Law, StructOK, LastIndex

\* Stepping down (raft.go:680-687).
LEMMA StepDownSolid ==
    ASSUME NEW i \in Server, NEW r, NEW d, NEW N, NEW D, NEW K, Solid(i, r, d, N, D, K)
    PROVE  Solid(i, BecomeFollower(r, r.Term, None), d, N, D, K)
<1> DEFINE s == BecomeFollower(r, r.Term, None)
<1>1. Good(i, r, d, N) /\ StructOK(r) /\ r.Term \in Nat /\ Fit(i, r, d, N, K) /\ ~r.panicked
  BY SolidFields
<1>2. Good(i, s, d, N)
  BY <1>1, StepDownKeepsInv
<1>3. /\ s.lead = None /\ s.panicked = r.panicked /\ s.state = "Follower" /\ s.Term = r.Term
      /\ s.log = r.log /\ s.committed = r.committed /\ s.msgs = r.msgs
  BY <1>1, BecomeFollowerFields
<1>4. Turns(r, s, r.Term, KeptVote(r, r.Term), "Follower")
  BY <1>1, BecomeFollowerTurns
<1> HIDE DEF s
<1>5. Fit(i, s, d, N, K)
  BY <1>1, <1>2, <1>4, TurnKeepsFit
<1>6. RoleInv(i, s, N) /\ s.Term >= r.Term
  BY <1>1, <1>3, RoleIf
<1>7. Solid(i, s, d, N, D, K)
  BY <1>3, <1>5, <1>6, TurnKeepsSolid
<1> QED BY <1>7 DEF s

\* Who speaks as a leader was elected, and is another server.
LEMMA SpeakerElected ==
    ASSUME NEW i, NEW N, NEW D, NEW K, Law(N, D, K), NEW m \in N, m.to = i, FromLeader(m)
    PROVE  Elected(N, m.from, m.term) /\ m.from # i
<1>1. NetInv(N) /\ MsgOK(N, K, m)
  BY DEF Law
<1> QED BY <1>1 DEF NetInv, MsgOK, FromLeader

\* The term of a message is dealt with (raft.go:861-906).
LEMMA ObserveSolid ==
    ASSUME NEW i \in Server, NEW r, NEW d, NEW N, NEW D, NEW K, Solid(i, r, d, N, D, K), NEW m \in N, m.to = i
    PROVE  Solid(i, Observe(r, m), d, N, D, K)
<1> DEFINE lead == IF FromLeader(m) THEN m.from ELSE None
           s == BecomeFollower(r, m.term, lead)
<1>1. /\ StructOK(r) /\ r.Term \in Nat /\ Fit(i, r, d, N, K) /\ ~r.panicked /\ N \subseteq Message
      /\ Law(N, D, K)
  BY SolidFields
<1>2. CASE ~AdoptsTerm(r, m)
  BY <1>2 DEF Observe
<1>3. CASE AdoptsTerm(r, m)
  <2>1. Observe(r, m) = s
    BY <1>3 DEF Observe
  <2>2. /\ s.lead = lead /\ s.panicked = r.panicked /\ s.state = "Follower" /\ s.Term = m.term
        /\ s.log = r.log /\ s.committed = r.committed /\ s.msgs = r.msgs
    BY <1>1, BecomeFollowerFields
  <2>3. Fit(i, s, d, N, K)
    BY <1>1, <2>1, ObserveFit
  <2> HIDE DEF s
  <2>4. s.Term >= r.Term
    <3>1. m.term \in Nat /\ m.term > r.Term
      BY <1>1, <1>3 DEF AdoptsTerm, Message
    <3> QED BY <1>1, <2>2, <3>1
  <2>5. RoleInv(i, s, N)
    BY <1>1, <2>2, SpeakerElected, RoleIf
  <2> QED BY <2>1, <2>2, <2>3, <2>4, <2>5, TurnKeepsSolid
<1> QED BY <1>2, <1>3

\* The leader of the term is heard (raft.go:1386-1394, 1429-1440).
LEMMA FollowSolid ==
    ASSUME NEW i \in Server, NEW r, NEW d, NEW N, NEW D, NEW K, Solid(i, r, d, N, D, K), NEW m \in N, m.to = i,
           FromLeader(m), m.term = r.Term, r.state # "Leader"
    PROVE  /\ Solid(i, Follow(r, m), d, N, D, K) /\ Follow(r, m).state = "Follower"
           /\ Follow(r, m).Term = r.Term
<1> DEFINE s == Follow(r, m)
<1>1. /\ StructOK(r) /\ r.Term \in Nat /\ Fit(i, r, d, N, K) /\ ~r.panicked /\ m \in Message
      /\ Law(N, D, K)
  BY SolidFields
<1>2. Fit(i, s, d, N, K) /\ StructOK(s) /\ s.state = "Follower"
  BY <1>1, FollowFit
<1>3. /\ s.lead = m.from /\ s.panicked = r.panicked /\ s.Term = r.Term
      /\ s.log = r.log /\ s.committed = r.committed /\ s.msgs = r.msgs
  <2>1. CASE r.state = "Follower"
    <3>1. r \in RaftStruct
      BY <1>1 DEF StructOK
    <3> QED BY <2>1, <3>1 DEF Follow, RaftStruct
  <2>2. CASE r.state # "Follower"
    <3>1. s = BecomeFollower(r, m.term, m.from)
      BY <2>2 DEF Follow
    <3> QED BY <1>1, <3>1, BecomeFollowerFields
  <2> QED BY <2>1, <2>2
<1> HIDE DEF s
<1>4. RoleInv(i, s, N)
  <2>1. Elected(N, m.from, m.term) /\ m.from # i
    BY <1>1, SpeakerElected
  <2> QED BY <1>1, <1>2, <1>3, <2>1, RoleIf
<1>a. s.Term >= r.Term
  BY <1>1, <1>3
<1>5. Solid(i, s, d, N, D, K)
  BY <1>2, <1>3, <1>4, <1>a, TurnKeepsSolid
<1> QED BY <1>2, <1>3, <1>5 DEF s

-----------------------------------------------------------------------------
(* What a leader knows of its peers *)

\* Only Match, Next and PendingSnapshot count.
LEMMA PeerIf ==
    ASSUME NEW N, NEW i, NEW p, NEW pr, NEW n \in Nat, NEW t, PeerOK(N, i, p, pr, n, t),
           NEW q, q.Match = pr.Match, q.Next \in {pr.Next, pr.Match + 1, pr.PendingSnapshot + 1},
           q.PendingSnapshot \in {pr.PendingSnapshot, 0}, pr \in ProgressRecord
    PROVE  PeerOK(N, i, p, q, n, t)
<1>1. pr.Match \in Nat /\ pr.Next \in Nat /\ pr.PendingSnapshot \in Nat
  BY DEF ProgressRecord
<1> QED BY <1>1 DEF PeerOK

\* The operators of progress.go that are not told an index.
LEMMA PeerSteps ==
    ASSUME NEW N, NEW i, NEW p, NEW pr \in ProgressRecord, NEW n \in Nat, NEW t, PeerOK(N, i, p, pr, n, t),
           NEW k \in Nat, NEW failed \in BOOLEAN
    PROVE  /\ PeerOK(N, i, p, BecomeProbe(pr), n, t) /\ PeerOK(N, i, p, BecomeReplicate(pr), n, t)
           /\ PeerOK(N, i, p, FreeLE(pr, k), n, t) /\ PeerOK(N, i, p, Resumed(pr), n, t)
           /\ PeerOK(N, i, p, SnapshotStatus(pr, failed), n, t)
           /\ \A b : PeerOK(N, i, p, [pr EXCEPT !.RecentActive = b], n, t)
           /\ \A b : PeerOK(N, i, p, [pr EXCEPT !.ProbeSent = b], n, t)
<1>0. pr.Match \in Nat /\ pr.Next \in Nat /\ pr.PendingSnapshot \in Nat
  BY DEF ProgressRecord
<1>1. ASSUME NEW q \in ProgressRecord, PeerOK(N, i, p, q, n, t) PROVE PeerOK(N, i, p, BecomeProbe(q), n, t)
  <2> DEFINE s == BecomeProbe(q)
  <2>1. /\ s.Match = q.Match /\ s.PendingSnapshot = 0
        /\ s.Next \in {Max2(q.Match + 1, q.PendingSnapshot + 1), q.Match + 1}
    BY DEF BecomeProbe, ResetState, ProgressRecord
  <2> HIDE DEF s
  <2>2. s.Next \in {q.Match + 1, q.PendingSnapshot + 1}
    BY <2>1 DEF Max2
  <2>3. PeerOK(N, i, p, s, n, t)
    BY <1>1, <2>1, <2>2, PeerIf
  <2> QED BY <2>3 DEF s
<1>2. PeerOK(N, i, p, BecomeReplicate(pr), n, t)
  <2> DEFINE s == BecomeReplicate(pr)
  <2>1. s.Match = pr.Match /\ s.PendingSnapshot = 0 /\ s.Next = pr.Match + 1
    BY DEF BecomeReplicate, ResetState, ProgressRecord
  <2> HIDE DEF s
  <2>2. PeerOK(N, i, p, s, n, t)
    BY <2>1, PeerIf
  <2> QED BY <2>2 DEF s
<1>4. PeerOK(N, i, p, FreeLE(pr, k), n, t)
  <2> DEFINE s == FreeLE(pr, k)
  <2>1. s.Match = pr.Match /\ s.PendingSnapshot = pr.PendingSnapshot /\ s.Next = pr.Next
    BY DEF FreeLE, ProgressRecord
  <2> HIDE DEF s
  <2>2. PeerOK(N, i, p, s, n, t)
    BY <2>1, PeerIf
  <2> QED BY <2>2 DEF s
<1>5. PeerOK(N, i, p, Resumed(pr), n, t)
  <2> DEFINE s == Resumed(pr)
  <2>1. s.Match = pr.Match /\ s.PendingSnapshot = pr.PendingSnapshot /\ s.Next = pr.Next
    BY DEF Resumed, FreeFirstOne, ProgressRecord
  <2> HIDE DEF s
  <2>2. PeerOK(N, i, p, s, n, t)
    BY <2>1, PeerIf
  <2> QED BY <2>2 DEF s
<1>6. PeerOK(N, i, p, SnapshotStatus(pr, failed), n, t)
  <2> DEFINE z == [pr EXCEPT !.PendingSnapshot = 0]
             q == IF failed THEN z ELSE pr
             s == [BecomeProbe(q) EXCEPT !.ProbeSent = TRUE]
  <2>1. PeerOK(N, i, p, z, n, t) /\ z \in ProgressRecord
    <3>1. z.Match = pr.Match /\ z.PendingSnapshot = 0 /\ z.Next = pr.Next /\ z \in ProgressRecord
      BY DEF ProgressRecord
    <3> HIDE DEF z
    <3> QED BY <3>1, PeerIf
  <2> HIDE DEF z
  <2>2. PeerOK(N, i, p, q, n, t) /\ q \in ProgressRecord
    BY <2>1
  <2> HIDE DEF q
  <2>3. BecomeProbe(q) \in ProgressRecord
    BY <2>2, ProgressTypes
  <2>4. PeerOK(N, i, p, BecomeProbe(q), n, t)
    BY <1>1, <2>2
  <2>5. s.Match = BecomeProbe(q).Match /\ s.Next = BecomeProbe(q).Next /\ s.PendingSnapshot = BecomeProbe(q).PendingSnapshot
    BY <2>3 DEF ProgressRecord
  <2> HIDE DEF s
  <2>6. PeerOK(N, i, p, s, n, t)
    BY <2>3, <2>4, <2>5, PeerIf
  <2> QED BY <2>6 DEF SnapshotStatus, s, q, z
<1>7. ASSUME NEW b PROVE PeerOK(N, i, p, [pr EXCEPT !.RecentActive = b], n, t)
  <2> DEFINE s == [pr EXCEPT !.RecentActive = b]
  <2>1. s.Match = pr.Match /\ s.PendingSnapshot = pr.PendingSnapshot /\ s.Next = pr.Next
    BY DEF ProgressRecord
  <2> HIDE DEF s
  <2>2. PeerOK(N, i, p, s, n, t)
    BY <2>1, PeerIf
  <2> QED BY <2>2 DEF s
<1>8. ASSUME NEW b PROVE PeerOK(N, i, p, [pr EXCEPT !.ProbeSent = b], n, t)
  <2> DEFINE s == [pr EXCEPT !.ProbeSent = b]
  <2>1. s.Match = pr.Match /\ s.PendingSnapshot = pr.PendingSnapshot /\ s.Next = pr.Next
    BY DEF ProgressRecord
  <2> HIDE DEF s
  <2>2. PeerOK(N, i, p, s, n, t)
    BY <2>1, PeerIf
  <2> QED BY <2>2 DEF s
<1> QED BY <1>1, <1>2, <1>4, <1>5, <1>6, <1>7, <1>8

\* The operators that are told an index: it is one of the leader's log.
LEMMA PeerIndexSteps ==
    ASSUME NEW N, NEW i, NEW p, NEW pr \in ProgressRecord, NEW n \in Nat, NEW t, PeerOK(N, i, p, pr, n, t),
           NEW k \in Nat, k <= n
    PROVE  /\ PeerOK(N, i, p, BecomeSnapshot(pr, k), n, t) /\ PeerOK(N, i, p, SentUpTo(pr, k), n, t)
           /\ (p # i /\ k # 0 => Acknowledged(N, p, t, k)) => PeerOK(N, i, p, MaybeUpdate(pr, k), n, t)
<1>0. pr.Match \in Nat /\ pr.Next \in Nat /\ pr.PendingSnapshot \in Nat
  BY DEF ProgressRecord
<1>1. PeerOK(N, i, p, BecomeSnapshot(pr, k), n, t)
  <2> DEFINE s == BecomeSnapshot(pr, k)
  <2>1. s.Match = pr.Match /\ s.PendingSnapshot = k /\ s.Next = pr.Next
    BY DEF BecomeSnapshot, ResetState, ProgressRecord
  <2> HIDE DEF s
  <2>2. PeerOK(N, i, p, s, n, t)
    BY <2>1 DEF PeerOK
  <2> QED BY <2>2 DEF s
<1>2. PeerOK(N, i, p, SentUpTo(pr, k), n, t)
  <2> DEFINE s == SentUpTo(pr, k)
  <2>1. s.Match = pr.Match /\ s.PendingSnapshot = pr.PendingSnapshot /\ s.Next = k + 1
    BY DEF SentUpTo, ProgressRecord
  <2> HIDE DEF s
  <2>2. PeerOK(N, i, p, s, n, t)
    BY <2>1 DEF PeerOK
  <2> QED BY <2>2 DEF s
<1>3. ASSUME p # i /\ k # 0 => Acknowledged(N, p, t, k) PROVE PeerOK(N, i, p, MaybeUpdate(pr, k), n, t)
  <2> DEFINE s == MaybeUpdate(pr, k)
  <2>1. s.Match = Max2(pr.Match, k) /\ s.PendingSnapshot = pr.PendingSnapshot /\ s.Next = Max2(pr.Next, k + 1)
    BY DEF MaybeUpdate, ProgressRecord
  <2> HIDE DEF s
  <2>2. s.Match <= n /\ s.Next <= n + 1 /\ s.PendingSnapshot <= n
    BY <1>0, <2>1 DEF PeerOK, Max2
  <2>3. p # i => s.Match = 0 \/ Acknowledged(N, p, t, s.Match)
    <3>1. s.Match \in {pr.Match, k}
      BY <2>1 DEF Max2
    <3> QED BY <1>3, <3>1 DEF PeerOK
  <2>4. PeerOK(N, i, p, s, n, t)
    BY <2>2, <2>3 DEF PeerOK
  <2> QED BY <2>4 DEF s
<1> QED BY <1>1, <1>2, <1>3

\* A rejection that counts (progress.go:160-191).
LEMMA PeerDecreases ==
    ASSUME NEW N, NEW i, NEW p, NEW pr \in ProgressRecord, NEW n \in Nat, NEW t, PeerOK(N, i, p, pr, n, t),
           NEW rejected \in Nat, NEW hint \in Nat, Decreases(pr, rejected)
    PROVE  PeerOK(N, i, p, MaybeDecrTo(pr, rejected, hint), n, t)
<1> DEFINE s == MaybeDecrTo(pr, rejected, hint)
           next == Max2(Min2(rejected, hint + 1), 1)
<1>0. pr.Match \in Nat /\ pr.Next \in Nat /\ pr.PendingSnapshot \in Nat
  BY DEF ProgressRecord
<1>1. CASE pr.State = "Replicate"
  <2>1. s.Match = pr.Match /\ s.PendingSnapshot = pr.PendingSnapshot /\ s.Next = pr.Match + 1
    BY <1>1 DEF MaybeDecrTo, ProgressRecord
  <2> HIDE DEF s
  <2>2. PeerOK(N, i, p, s, n, t)
    BY <2>1, PeerIf
  <2> QED BY <2>2 DEF s
<1>2. CASE pr.State # "Replicate"
  <2>1. s.Match = pr.Match /\ s.PendingSnapshot = pr.PendingSnapshot /\ s.Next = next
    BY <1>2 DEF MaybeDecrTo, ProgressRecord
  <2>2. pr.Next - 1 = rejected /\ pr.Next <= n + 1
    BY <1>2 DEF Decreases, PeerOK
  <2>3. next <= n + 1
    BY <1>0, <2>2 DEF Max2, Min2
  <2> HIDE DEF s, next
  <2>4. PeerOK(N, i, p, s, n, t)
    BY <2>1, <2>3 DEF PeerOK
  <2> QED BY <2>4 DEF s
<1> QED BY <1>1, <1>2

-----------------------------------------------------------------------------
(* A leader replicates its log *)

Leading(i, r, d, N, D, K) == Solid(i, r, d, N, D, K) /\ r.state = "Leader"

\* A leader that knows something else of its peers.
LEMMA LeaderRole ==
    ASSUME NEW i, NEW r, NEW s, NEW N, RoleInv(i, r, N), r.state = "Leader",
           s.state = "Leader", s.lead = r.lead, s.Term = r.Term, s.log = r.log, s.panicked = r.panicked,
           \A p \in Server : PeerOK(N, i, p, s.prs[p], Len(r.log), r.Term)
    PROVE  RoleInv(i, s, N)
BY DEF RoleInv

\* What a leader is.
LEMMA LeadingFields ==
    ASSUME NEW i, NEW r, NEW d, NEW N, NEW D, NEW K, Leading(i, r, d, N, D, K)
    PROVE  /\ Solid(i, r, d, N, D, K) /\ r.state = "Leader" /\ RoleInv(i, r, N) /\ StructOK(r)
           /\ r.Term \in Nat /\ r.committed \in Nat /\ r.log \in Seq(Entry) /\ Len(r.log) \in Nat
           /\ r.committed <= Len(r.log) /\ Safe(N, K, r.log, r.committed, r.Term) /\ ~r.panicked
           /\ r.prs \in [Server -> ProgressRecord]
           /\ \A p \in Server : PeerOK(N, i, p, r.prs[p], Len(r.log), r.Term)
           /\ LeaderLog(N, K, r.log, r.Term)
<1>1. Solid(i, r, d, N, D, K) /\ r.state = "Leader"
  BY DEF Leading
<1>2. RoleInv(i, r, N) /\ StructOK(r) /\ Fit(i, r, d, N, K)
  BY <1>1, SolidFields
<1>3. \A p \in Server : PeerOK(N, i, p, r.prs[p], Len(r.log), r.Term)
  BY <1>1, <1>2 DEF RoleInv
<1>4. LeaderLog(N, K, r.log, r.Term)
  BY <1>1, <1>2, OwnLogValid
<1>5. r.prs \in [Server -> ProgressRecord]
  BY <1>2, StructFields
<1> QED BY <1>1, <1>2, <1>3, <1>4, <1>5, SolidFields

\* A leader learns something of one peer, and sends or does not.
LEMMA PeerSolid ==
    ASSUME NEW i \in Server, NEW r, NEW s, NEW d, NEW N, NEW D, NEW K, Leading(i, r, d, N, D, K), Calm(i, r, s),
           s.committed = r.committed, s.lead = r.lead, s.panicked = r.panicked,
           \A p \in Server : s.prs[p] = r.prs[p] \/ PeerOK(N, i, p, s.prs[p], Len(r.log), r.Term),
           \A m \in s.msgs : m \in r.msgs \/ Apt(s, N, m)
    PROVE  Leading(i, s, d, N, D, K)
<1>1. s.state = "Leader" /\ s.log = r.log /\ s.Term = r.Term
  BY LeadingFields, CalmFields
<1>2. \A p \in Server : PeerOK(N, i, p, s.prs[p], Len(r.log), r.Term)
  BY LeadingFields
<1>3. RoleInv(i, s, N)
  BY <1>1, <1>2, LeadingFields, LeaderRole
<1>4. Safe(N, K, s.log, s.committed, s.Term)
  BY <1>1, LeadingFields
<1>5. Solid(i, r, d, N, D, K)
  BY LeadingFields
<1> QED BY <1>1, <1>3, <1>4, <1>5, CalmKeepsSolid DEF Leading

\* A change of the progress of a peer.
LEMMA ProgressSolid ==
    ASSUME NEW i \in Server, NEW r, NEW d, NEW N, NEW D, NEW K, Leading(i, r, d, N, D, K), NEW to \in Server,
           NEW pr \in ProgressRecord, PeerOK(N, i, to, pr, Len(r.log), r.Term)
    PROVE  LET s == [r EXCEPT !.prs[to] = pr]
           IN  /\ Leading(i, s, d, N, D, K) /\ s.log = r.log /\ s.Term = r.Term /\ s.prs[to] = pr
               /\ s.leadTransferee = r.leadTransferee
<1> DEFINE s == [r EXCEPT !.prs[to] = pr]
<1>1. StructOK(r) /\ r \in RaftStruct
  BY LeadingFields DEF StructOK
<1>2. Calm(i, r, s)
  BY <1>1, CalmProgress
<1>3. /\ s.committed = r.committed /\ s.lead = r.lead /\ s.panicked = r.panicked /\ s.msgs = r.msgs
      /\ s.log = r.log /\ s.Term = r.Term /\ s.leadTransferee = r.leadTransferee
  BY <1>1 DEF RaftStruct
<1>4. s.prs[to] = pr /\ \A p \in Server : s.prs[p] = r.prs[p] \/ p = to
  BY <1>1 DEF RaftStruct
<1> SUFFICES Leading(i, s, d, N, D, K) /\ s.log = r.log /\ s.Term = r.Term /\ s.prs[to] = pr
             /\ s.leadTransferee = r.leadTransferee
  OBVIOUS
<1> HIDE DEF s
<1>5. Leading(i, s, d, N, D, K)
  BY <1>2, <1>3, <1>4, PeerSolid
<1> QED BY <1>3, <1>4, <1>5

\* maybeSendAppend to another server (raft.go:424-491).
LEMMA MaybeSendAppendSolid ==
    ASSUME NEW i \in Server, NEW r, NEW d, NEW N, NEW D, NEW K, Leading(i, r, d, N, D, K), NEW to \in Server, to # i,
           NEW sendIfEmpty, scenario \in Scenarios
    PROVE  LET s == MaybeSendAppend(i, r, to, sendIfEmpty)
           IN  /\ Leading(i, s, d, N, D, K) /\ s.log = r.log /\ s.Term = r.Term /\ s.committed = r.committed
               /\ s.lead = r.lead /\ s.panicked = r.panicked
               /\ \A m \in s.msgs : m \in r.msgs \/ Apt(s, N, m)
               /\ PeerOK(N, i, to, s.prs[to], Len(r.log), r.Term)
<1> DEFINE pr        == r.prs[to]
           next      == pr.Next
           compacted == Compacted(r, next)
           upto      == Min2(LastIndex(r), next + MaxEnts - 1)
           ents      == IF compacted THEN <<>> ELSE SubSeq(r.log, next, upto)
           last      == next + Len(ents) - 1
           app       == [Msg("MsgApp", i, to, r.Term) EXCEPT
                           !.index = next - 1, !.logTerm = Term(r, next - 1),
                           !.entries = ents, !.commit = r.committed]
           snap      == [Msg("MsgSnap", i, to, r.Term) EXCEPT
                           !.index = r.offset, !.logTerm = Term(r, r.offset), !.entries = SubSeq(r.log, 1, r.offset)]
           pr1       == BecomeSnapshot(pr, r.offset)
           pr2       == IF ents = <<>> THEN pr
                        ELSE IF pr.State = "Replicate" THEN SentUpTo(pr, last)
                        ELSE [pr EXCEPT !.ProbeSent = TRUE]
           s         == MaybeSendAppend(i, r, to, sendIfEmpty)
<1> SUFFICES /\ Leading(i, s, d, N, D, K) /\ s.log = r.log /\ s.Term = r.Term /\ s.committed = r.committed
             /\ s.lead = r.lead /\ s.panicked = r.panicked
             /\ \A m \in s.msgs : m \in r.msgs \/ Apt(s, N, m)
             /\ PeerOK(N, i, to, s.prs[to], Len(r.log), r.Term)
  OBVIOUS
<1>0. /\ StructOK(r) /\ r \in RaftStruct /\ r.state = "Leader" /\ r.offset \in Nat /\ LastIndex(r) = Len(r.log)
      /\ r.log \in Seq(Entry) /\ Len(r.log) \in Nat /\ r.offset <= Len(r.log)
      /\ pr \in ProgressRecord /\ PeerOK(N, i, to, pr, Len(r.log), r.Term)
  <2>1. StructOK(r) /\ r \in RaftStruct /\ r.state = "Leader" /\ r.log \in Seq(Entry) /\ Len(r.log) \in Nat
    BY LeadingFields DEF StructOK
  <2>2. r.offset \in Nat /\ r.committed \in Nat /\ r.offset <= r.committed /\ r.committed <= Len(r.log)
    BY <2>1, StructFields DEF StructOK
  <2>3. pr \in ProgressRecord /\ PeerOK(N, i, to, pr, Len(r.log), r.Term)
    BY LeadingFields
  <2> QED BY <2>1, <2>2, <2>3 DEF LastIndex
<1>1. \/ s = r
      \/ s = Send([r EXCEPT !.prs[to] = pr1], snap)
      \/ ~compacted /\ s = Send([r EXCEPT !.prs[to] = pr2], app)
  <2>1. r.prs \in [Server -> ProgressRecord]
    BY <1>0, StructFields
  <2> QED BY <1>0 DEF MaybeSendAppend, RaftStruct
<1>2. Calm(i, r, s) /\ s.committed = r.committed
  BY <1>0, MaybeSendAppendCalm
<1>3. next \in Nat \ {0} /\ next - 1 \in Nat /\ next <= Len(r.log) + 1 /\ upto \in Nat /\ upto <= Len(r.log)
  <2>1. next \in Nat \ {0} /\ MaxEnts \in Nat \ {0} /\ next <= Len(r.log) + 1
    BY <1>0, ScenarioAssumption DEF ProgressRecord, MaxEnts, PeerOK
  <2>2. next - 1 \in Nat /\ next + MaxEnts - 1 \in Nat
    <3>1. \A x, y \in Nat \ {0} : x - 1 \in Nat /\ x + y - 1 \in Nat
      OBVIOUS
    <3> QED BY <2>1, <3>1
  <2> QED BY <1>0, <2>1, <2>2, MinMaxType
<1>4. ~compacted => last \in Nat /\ last <= Len(r.log)
  <2> SUFFICES ASSUME ~compacted PROVE last \in Nat /\ last <= Len(r.log)
    OBVIOUS
  <2> HIDE DEF upto, next
  <2>1. Len(ents) = IF next <= upto THEN upto - next + 1 ELSE 0
    <3>1. ents = SubSeq(r.log, next, upto) /\ upto \in Int
      BY <1>3
    <3> QED BY <1>0, <1>3, <3>1, SubSeqType
  <2> HIDE DEF ents
  <2> QED BY <1>0, <1>3, <2>1
<1>5. PeerOK(N, i, to, pr1, Len(r.log), r.Term)
  BY <1>0, PeerIndexSteps
<1>6. ~compacted => PeerOK(N, i, to, pr2, Len(r.log), r.Term)
  <2>1. 0 \in Nat /\ TRUE \in BOOLEAN
    OBVIOUS
  <2> HIDE DEF pr, ents, last, compacted
  <2>2. PeerOK(N, i, to, [pr EXCEPT !.ProbeSent = TRUE], Len(r.log), r.Term)
    BY <1>0, <2>1, PeerSteps
  <2>3. ~compacted => PeerOK(N, i, to, SentUpTo(pr, last), Len(r.log), r.Term)
    BY <1>0, <1>4, PeerIndexSteps
  <2> QED BY <1>0, <2>2, <2>3
<1>7. Apt(s, N, snap) /\ (s.log = r.log => Apt(s, N, app))
  <2>1. snap.type = "MsgSnap" /\ snap.from = i /\ snap.to = to
    BY DEF Msg
  <2>2. app.type = "MsgApp" /\ app.from = i /\ app.to = to /\ app.index = next - 1
    BY DEF Msg
  <2>3. next - 1 <= Len(r.log)
    BY <1>0, <1>3
  <2> HIDE DEF snap, app, s, next
  <2> QED BY <2>1, <2>2, <2>3 DEF Apt
<1> HIDE DEF s, pr1, pr2, app, snap, compacted
<1>8. ASSUME NEW q, NEW m, s = Send([r EXCEPT !.prs[to] = q], m)
      PROVE  /\ s.log = r.log /\ s.msgs = r.msgs \cup {m} /\ s.lead = r.lead /\ s.panicked = r.panicked
             /\ s.prs[to] = q /\ \A p \in Server : p # to => s.prs[p] = r.prs[p]
  BY <1>0, <1>8 DEF Send, RaftStruct
<1>9. /\ s.log = r.log /\ s.lead = r.lead /\ s.panicked = r.panicked
      /\ \A p \in Server : p # to => s.prs[p] = r.prs[p]
      /\ \A m \in s.msgs : m \in r.msgs \/ Apt(s, N, m)
      /\ PeerOK(N, i, to, s.prs[to], Len(r.log), r.Term)
  <2>1. CASE s = r
    BY <1>0, <2>1 DEF pr
  <2>2. CASE s = Send([r EXCEPT !.prs[to] = pr1], snap)
    <3>1. /\ s.log = r.log /\ s.msgs = r.msgs \cup {snap} /\ s.lead = r.lead /\ s.panicked = r.panicked
          /\ s.prs[to] = pr1 /\ \A p \in Server : p # to => s.prs[p] = r.prs[p]
      BY <1>8, <2>2
    <3> QED BY <1>5, <1>7, <2>2, <3>1
  <2>3. CASE ~compacted /\ s = Send([r EXCEPT !.prs[to] = pr2], app)
    <3>1. /\ s.log = r.log /\ s.msgs = r.msgs \cup {app} /\ s.lead = r.lead /\ s.panicked = r.panicked
          /\ s.prs[to] = pr2 /\ \A p \in Server : p # to => s.prs[p] = r.prs[p]
      BY <1>8, <2>3
    <3> QED BY <1>6, <1>7, <2>3, <3>1
  <2> QED BY <1>1, <2>1, <2>2, <2>3
<1>10. Leading(i, s, d, N, D, K)
  BY <1>2, <1>9, PeerSolid
<1> QED BY <1>2, <1>9, <1>10, CalmFields

\* The loop over maybeSendAppend (raft.go:1289-1293).
LEMMA SendAllAppendsSolid ==
    ASSUME NEW i \in Server, NEW r, NEW d, NEW N, NEW D, NEW K, Leading(i, r, d, N, D, K), NEW to \in Server, to # i,
           scenario \in Scenarios
    PROVE  Leading(i, SendAllAppends(i, r, to), d, N, D, K)
<1>a. \E f : IsRounds(i, r, to, f)
  BY RoundsExist
<1>1. PICK f : IsRounds(i, r, to, f) /\ SendAllAppends(i, r, to) = f[LastIndex(r)]
  BY <1>a DEF SendAllAppends, IsRounds
<1>2. \A n \in Nat : f[n] = IF n = 0 THEN r ELSE MaybeSendAppend(i, f[n - 1], to, FALSE)
  BY <1>1 DEF IsRounds
<1> DEFINE Wrong == {n \in Nat : ~Leading(i, f[n], d, N, D, K)}
<1>3. Wrong = {}
  <2> SUFFICES ASSUME Wrong # {} PROVE FALSE
    OBVIOUS
  <2>1. PICK x \in Wrong : \A y \in Wrong : x <= y
    BY LeastNat
  <2>2. x # 0
    BY <1>2, <2>1
  <2>3. x \in Nat /\ x - 1 \in Nat /\ Leading(i, f[x - 1], d, N, D, K)
    BY <2>1, <2>2
  <2>4. Leading(i, MaybeSendAppend(i, f[x - 1], to, FALSE), d, N, D, K)
    BY <2>3, MaybeSendAppendSolid
  <2> QED BY <1>2, <2>1, <2>2, <2>3, <2>4
<1>4. LastIndex(r) \in Nat
  BY LeadingFields DEF LastIndex
<1> QED BY <1>1, <1>3, <1>4

\* bcastAppend (raft.go:518-525)
LEMMA BcastAppendSolid ==
    ASSUME NEW i \in Server, NEW r, NEW d, NEW N, NEW D, NEW K, Leading(i, r, d, N, D, K), scenario \in Scenarios
    PROVE  Leading(i, BcastAppend(i, r), d, N, D, K)
<1> DEFINE sent(p) == SendAppend(i, r, p)
           prs == [p \in Server |-> IF p = i THEN r.prs[p] ELSE sent(p).prs[p]]
           all == r.msgs \cup UNION {sent(p).msgs : p \in Server \ {i}}
           s   == [r EXCEPT !.prs = prs, !.msgs = all]
<1>1. BcastAppend(i, r) = s
  BY DEF BcastAppend
<1>2. ASSUME NEW p \in Server, p # i
      PROVE  /\ sent(p).log = r.log
             /\ \A m \in sent(p).msgs : m \in r.msgs \/ Apt(sent(p), N, m)
             /\ PeerOK(N, i, p, sent(p).prs[p], Len(r.log), r.Term)
  <2> DEFINE yes == TRUE
             t == MaybeSendAppend(i, r, p, yes)
  <2> HIDE DEF yes
  <2>1. /\ t.log = r.log
        /\ \A m \in t.msgs : m \in r.msgs \/ Apt(t, N, m)
        /\ PeerOK(N, i, p, t.prs[p], Len(r.log), r.Term)
    BY <1>2, MaybeSendAppendSolid
  <2> QED BY <2>1 DEF SendAppend, yes
<1> HIDE DEF sent
<1>3. /\ \A m \in all : m \in r.msgs \/ \E p \in Server : p # i /\ m \in sent(p).msgs
      /\ \A p \in Server : prs[p] = r.prs[p] \/ (p # i /\ prs[p] = sent(p).prs[p])
  OBVIOUS
<1> HIDE DEF prs, all
<1>4. StructOK(r) /\ r \in RaftStruct /\ r.state = "Leader"
  BY LeadingFields DEF StructOK
<1>5. /\ s.log = r.log /\ s.committed = r.committed /\ s.msgs = all /\ s.prs = prs /\ s.lead = r.lead
      /\ s.panicked = r.panicked
  BY <1>4 DEF RaftStruct
<1> HIDE DEF s
<1>6. Calm(i, r, s)
  BY <1>1, <1>4, BcastAppendCalm
<1>7. \A m \in s.msgs : m \in r.msgs \/ Apt(s, N, m)
  <2> SUFFICES ASSUME NEW m \in s.msgs, m \notin r.msgs PROVE Apt(s, N, m)
    OBVIOUS
  <2>1. PICK p \in Server : p # i /\ m \in sent(p).msgs
    BY <1>3, <1>5
  <2>2. Apt(sent(p), N, m) /\ sent(p).log = s.log
    BY <1>2, <1>5, <2>1
  <2> QED BY <2>2 DEF Apt
<1>8. \A p \in Server : s.prs[p] = r.prs[p] \/ PeerOK(N, i, p, s.prs[p], Len(r.log), r.Term)
  BY <1>2, <1>3, <1>5
<1> QED BY <1>1, <1>5, <1>6, <1>7, <1>8, PeerSolid

\* The first entries of a log.
LEMMA PrefixValid ==
    ASSUME NEW N, NEW K, NEW a, ValidIn(N, K, a), NEW k \in Nat, k <= Len(a)
    PROVE  /\ ValidIn(N, K, SubSeq(a, 1, k)) /\ Len(SubSeq(a, 1, k)) = k
           /\ \A x \in 1..k : SubSeq(a, 1, k)[x] = a[x]
<1> DEFINE b == SubSeq(a, 1, k)
<1>0. a \in Seq(Entry) /\ Len(a) \in Nat
  BY DEF ValidIn
<1>1. b \in Seq(Entry) /\ Len(b) = k /\ \A x \in 1..k : b[x] = a[x]
  <2>1. 1 \in Nat \ {0} /\ k \in Int
    OBVIOUS
  <2>2. b \in Seq(Entry) /\ Len(b) = (IF 1 <= k THEN k - 1 + 1 ELSE 0) /\ \A x \in 1..(k - 1 + 1) : b[x] = a[1 + x - 1]
    BY <1>0, <2>1, SubSeqType
  <2> HIDE DEF b
  <2> QED BY <2>2
<1> HIDE DEF b
<1>2. Valid(N, b)
  <2> SUFFICES ASSUME NEW x \in 1..Len(b) PROVE Behind(N, x, b[x].term, TermAt(b, x - 1))
    BY DEF Valid
  <2>1. x \in 1..Len(a) /\ b[x] = a[x] /\ (x - 1 # 0 => b[x - 1] = a[x - 1])
    BY <1>0, <1>1
  <2>2. TermAt(b, x - 1) = TermAt(a, x - 1)
    BY <2>1 DEF TermAt
  <2>3. Behind(N, x, a[x].term, TermAt(a, x - 1))
    BY <2>1 DEF ValidIn, Valid
  <2> QED BY <2>1, <2>2, <2>3
<1>3. \A x, e : InLog(b, x, e) => InLog(a, x, e)
  BY <1>0, <1>1 DEF InLog
<1>4. ValidIn(N, K, b)
  BY <1>1, <1>2, <1>3 DEF ValidIn
<1> QED BY <1>1, <1>4 DEF b

\* The index that maybeCommit counts (raft.go:579-582, quorum/majority.go:126-172).
LEMMA CountedIndex ==
    ASSUME NEW r, StructOK(r), \A p \in Server : r.prs[p].Match <= Len(r.log)
    PROVE  LET mci == JointCommittedIndex(Conf, Acked(r))
           IN  /\ mci \in Nat /\ mci <= Len(r.log)
               /\ HasQuorum(Server, {p \in Server : r.prs[p].Match >= mci})
<1> DEFINE acked == Acked(r)
           n     == Len(r.log)
           ci    == CommittedIndex(Server, acked)
           mci   == JointCommittedIndex(Conf, acked)
<1>1. n \in Nat /\ r.prs \in [Server -> ProgressRecord]
  BY StructFields DEF LastIndex
<1>2. acked \in [Server -> 0..n] /\ \A p \in Server : acked[p] = r.prs[p].Match
  <2>1. \A p \in Server : r.prs[p].Match \in Nat
    BY <1>1 DEF ProgressRecord
  <2> QED BY <1>1, <2>1 DEF Acked
<1> HIDE DEF acked, n
<1>3. /\ ci \in 0..n
      /\ \A x \in 0..n : HasQuorum(Server, {p \in Server : acked[p] >= x}) <=> x <= ci
  BY <1>1, <1>2, ServerAssumption, CommittedIndexMeaning
<1>4. CommittedIndex({}, acked) = 1000000
  BY DEF CommittedIndex, Unbounded
<1>5. mci = IF ci < 1000000 THEN ci ELSE 1000000
  BY <1>4 DEF JointCommittedIndex, Conf
<1> HIDE DEF ci, mci
<1>6. mci \in 0..n /\ mci <= ci
  BY <1>1, <1>3, <1>5
<1>7. HasQuorum(Server, {p \in Server : acked[p] >= mci})
  BY <1>3, <1>6
<1>8. {p \in Server : acked[p] >= mci} = {p \in Server : r.prs[p].Match >= mci}
  BY <1>2
<1>9. mci \in Nat /\ mci <= n /\ HasQuorum(Server, {p \in Server : r.prs[p].Match >= mci})
  <2>1. mci \in Nat /\ mci <= n
    BY <1>1, <1>6
  <2> QED BY <1>7, <1>8, <2>1
<1> QED BY <1>9 DEF mci, n, acked

\* An ack that a leader has counted is about its own log.
LEMMA AckInLeader ==
    ASSUME Several, NEW i \in Server, NEW r, NEW d, NEW N, NEW D, NEW K, Leading(i, r, d, N, D, K),
           NEW m \in N, m.type = "MsgAppResp", Claim(m), m.term = r.Term
    PROVE  /\ m.index \in 1..Len(r.log)
           /\ \E a : LeaderLog(N, K, a, r.Term) /\ m.index <= Len(a) /\ Agree(a, r.log, Len(a))
           /\ r.log[m.index].term = r.Term => ClaimOf(N, i, r.Term, m.index)
<1>0. /\ Fit(i, r, d, N, K) /\ Law(N, D, K) /\ World(N, K) /\ N \subseteq Message /\ r.state = "Leader"
      /\ Len(r.log) \in Nat /\ ValidIn(N, K, r.log)
  BY LeadingFields, SolidFields, OwnLogValid
<1>1. m \in Message /\ m.index \in Nat /\ m.index > 0
  BY <1>0 DEF Claim, Message
<1>2. PICK a : /\ LeaderLog(N, K, a, m.term) /\ m.index <= Len(a)
               /\ a[m.index].term = m.term =>
                     \E c \in Server : Elected(N, c, m.term) /\ ClaimOf(N, c, m.term, m.index)
  <2>1. MsgOK(N, K, m)
    BY <1>0 DEF Law
  <2> QED BY <2>1 DEF MsgOK, AckOK
<1>3. Len(a) \in Nat /\ Len(a) \in 1..Len(a) /\ ValidIn(N, K, a) /\ a[Len(a)].term = r.Term /\ LeaderLog(N, K, a, r.Term)
  <2>1. ValidIn(N, K, a) /\ Len(a) > 0 /\ a[Len(a)].term = r.Term /\ Len(a) \in Nat
    BY <1>2 DEF LeaderLog, ValidIn
  <2> QED BY <1>2, <2>1
<1>4. InLog(r.log, Len(a), a[Len(a)])
  <2>1. <<Len(a), a[Len(a)]>> \in K
    BY <1>3 DEF ValidIn, InLog
  <2>2. LeaderInv(r, K)
    BY <1>0 DEF Fit, ReplicaInv
  <2> QED BY <1>0, <1>3, <2>1, <2>2 DEF LeaderInv
<1>5. Len(a) <= Len(r.log) /\ r.log[Len(a)] = a[Len(a)]
  BY <1>0, <1>3, <1>4 DEF InLog
<1>6. Agree(a, r.log, Len(a))
  <2>1. Len(a) >= 1 /\ Len(a) <= Len(a)
    BY <1>3
  <2>2. \A x \in 1..Len(a) : a[x] = r.log[x]
    BY <1>0, <1>3, <1>5, <2>1, LogsAgree
  <2> QED BY <1>5, <2>1, <2>2 DEF Agree
<1>7. m.index \in 1..Len(r.log) /\ m.index \in 1..Len(a)
  BY <1>0, <1>1, <1>2, <1>3, <1>5
<1>8. ASSUME r.log[m.index].term = r.Term PROVE ClaimOf(N, i, r.Term, m.index)
  <2>1. a[m.index].term = m.term
    BY <1>6, <1>7, <1>8 DEF Agree
  <2>2. PICK c \in Server : Elected(N, c, r.Term) /\ ClaimOf(N, c, r.Term, m.index)
    BY <1>2, <2>1
  <2>3. Elected(N, i, r.Term)
    BY <1>0 DEF Fit, Good, ServerInv, CampaignInv
  <2>4. NetLogInv(N, K) /\ \A p \in Server : OneVote(p, N)
    BY <1>0 DEF World
  <2>5. c = i
    BY <2>2, <2>3, <2>4, ElectedIsOne
  <2> QED BY <2>2, <2>5
<1> QED BY <1>2, <1>3, <1>6, <1>7, <1>8

\* An entry of the own term that a quorum has acknowledged is chosen (raft.go:579-582).
LEMMA CountedIsSafe ==
    ASSUME Several, NEW i \in Server, NEW r, NEW d, NEW N, NEW D, NEW K, Leading(i, r, d, N, D, K),
           NEW c \in 1..Len(r.log), r.log[c].term = r.Term,
           HasQuorum(Server, {p \in Server : r.prs[p].Match >= c})
    PROVE  Safe(N, K, r.log, c, r.Term)
<1> DEFINE Q == {p \in Server : r.prs[p].Match >= c}
           b == SubSeq(r.log, 1, c)
<1>0. /\ Fit(i, r, d, N, K) /\ Law(N, D, K) /\ N \subseteq Message /\ r.Term \in Nat
      /\ Len(r.log) \in Nat /\ ValidIn(N, K, r.log) /\ LeaderLog(N, K, r.log, r.Term)
      /\ r.prs \in [Server -> ProgressRecord] /\ c \in Nat
      /\ \A p \in Server : PeerOK(N, i, p, r.prs[p], Len(r.log), r.Term)
  BY LeadingFields, SolidFields, OwnLogValid
<1>1. ASSUME NEW p \in Q, p # i
      PROVE  \E m \in N : /\ m.type = "MsgAppResp" /\ Claim(m) /\ m.from = p /\ m.term = r.Term
                          /\ m.index >= c /\ End(m) = m.index
  <2>1. p \in Server /\ r.prs[p].Match >= c /\ r.prs[p].Match \in Nat
    BY <1>0 DEF ProgressRecord
  <2>2. r.prs[p].Match # 0
    BY <1>0, <2>1
  <2>3. Acknowledged(N, p, r.Term, r.prs[p].Match)
    BY <1>0, <1>1, <2>1, <2>2 DEF PeerOK
  <2>4. PICK m \in N : m.type = "MsgAppResp" /\ ~m.reject /\ m.from = p /\ m.term = r.Term /\ m.index = r.prs[p].Match
    BY <2>3 DEF Acknowledged
  <2>5. m.index > 0
    BY <2>1, <2>2, <2>4
  <2> QED BY <2>1, <2>4, <2>5 DEF Claim, End
<1>2. ClaimOf(N, i, r.Term, c)
  <2>1. PICK p \in Server : p \in Q /\ p # i
    BY QuorumHasOther
  <2>2. PICK m \in N : /\ m.type = "MsgAppResp" /\ Claim(m) /\ m.from = p /\ m.term = r.Term
                       /\ m.index >= c /\ End(m) = m.index
    BY <1>1, <2>1
  <2>3. m.index \in 1..Len(r.log) /\ (r.log[m.index].term = r.Term => ClaimOf(N, i, r.Term, m.index))
    BY <2>2, AckInLeader
  <2>4. r.log[m.index].term = r.Term
    <3>1. /\ \A x \in 1..Len(r.log) : r.log[x].term \in Nat
          /\ \A y \in 1..Len(r.log) : \A x \in 1..y : r.log[x].term <= r.log[y].term
      BY <1>0, TermsGrow
    <3>2. c \in 1..m.index /\ m.index \in 1..Len(r.log) /\ Len(r.log) \in 1..Len(r.log) /\ m.index \in 1..Len(r.log)
      BY <1>0, <2>2, <2>3
    <3>3. r.log[c].term <= r.log[m.index].term /\ r.log[m.index].term <= r.log[Len(r.log)].term
      BY <3>1, <3>2
    <3>4. r.log[Len(r.log)].term = r.Term
      BY <1>0 DEF LeaderLog
    <3> QED BY <1>0, <3>1, <3>2, <3>3, <3>4
  <2>5. PICK k \in N : Claim(k) /\ k.from = i /\ k.term = r.Term /\ End(k) >= m.index
    BY <2>3, <2>4 DEF ClaimOf
  <2>6. End(k) \in Nat
    BY <1>0, <2>5, EndType
  <2>7. End(k) >= c
    BY <1>0, <2>2, <2>3, <2>5, <2>6
  <2> QED BY <2>5, <2>7 DEF ClaimOf
<1>3. Q \subseteq Claimants(N, r.Term, c)
  <2> SUFFICES ASSUME NEW p \in Q PROVE p \in Claimants(N, r.Term, c)
    OBVIOUS
  <2>1. CASE p = i
    BY <1>2, <2>1 DEF Claimants
  <2>2. CASE p # i
    <3>1. PICK m \in N : Claim(m) /\ m.from = p /\ m.term = r.Term /\ m.index >= c /\ End(m) = m.index
      BY <1>1, <2>2
    <3> QED BY <3>1 DEF Claimants, ClaimOf
  <2> QED BY <2>1, <2>2
<1>4. HasQuorum(Server, Claimants(N, r.Term, c))
  <2> HIDE DEF Q
  <2>1. HasQuorum(Server, Q)
    BY DEF Q
  <2> QED BY <1>3, <2>1, ServerAssumption, HasQuorumMonotone
<1>5. ValidIn(N, K, b) /\ Len(b) = c /\ \A x \in 1..c : b[x] = r.log[x]
  <2>1. c <= Len(r.log)
    BY <1>0
  <2> QED BY <1>0, <2>1, PrefixValid
<1> HIDE DEF b
<1>6. TermAt(b, Len(b)) = r.Term /\ Len(b) > 0
  BY <1>0, <1>5 DEF TermAt
<1>7. Chosen(N, b)
  BY <1>4, <1>5, <1>6 DEF Chosen
<1>8. Agree(r.log, b, c)
  BY <1>0, <1>5 DEF Agree
<1>9. TermAt(b, Len(b)) <= r.Term
  BY <1>0, <1>6
<1> QED BY <1>5, <1>7, <1>8, <1>9 DEF Safe

\* maybeCommit (raft.go:579-582)
LEMMA MaybeCommitSolid ==
    ASSUME Several, NEW i \in Server, NEW r, NEW d, NEW N, NEW D, NEW K, Leading(i, r, d, N, D, K)
    PROVE  LET s == MaybeCommit(r)
           IN  Leading(i, s, d, N, D, K) /\ s.log = r.log /\ s.Term = r.Term
<1> DEFINE s == MaybeCommit(r)
           mci == JointCommittedIndex(Conf, Acked(r))
<1> SUFFICES Leading(i, s, d, N, D, K) /\ s.log = r.log /\ s.Term = r.Term
  OBVIOUS
<1>0. /\ StructOK(r) /\ r \in RaftStruct /\ RoleInv(i, r, N) /\ r.state = "Leader"
      /\ Solid(i, r, d, N, D, K) /\ r.committed \in Nat /\ Len(r.log) \in Nat /\ r.Term \in Nat
  BY LeadingFields DEF StructOK
<1>1. mci \in Nat /\ mci <= Len(r.log) /\ HasQuorum(Server, {p \in Server : r.prs[p].Match >= mci})
  <2>1. \A p \in Server : r.prs[p].Match <= Len(r.log)
    BY LeadingFields DEF PeerOK
  <2> QED BY <1>0, <2>1, CountedIndex
<1>2. s = IF mci > r.committed /\ Term(r, mci) = r.Term THEN CommitTo(r, mci) ELSE r
  BY DEF MaybeCommit
<1>3. Calm(i, r, s)
  BY <1>0, CalmCommit
<1> HIDE DEF mci, s
<1>4. CASE s = r
  BY <1>4
<1>5. CASE mci > r.committed /\ Term(r, mci) = r.Term
  <2>1. s = [r EXCEPT !.committed = mci]
    BY <1>0, <1>1, <1>2, <1>5 DEF CommitTo, LastIndex
  <2>2. /\ s.log = r.log /\ s.Term = r.Term /\ s.committed = mci /\ s.msgs = r.msgs /\ s.state = "Leader"
        /\ s.lead = r.lead /\ s.panicked = r.panicked /\ s.prs = r.prs
    BY <1>0, <2>1 DEF RaftStruct
  <2>3. mci \in 1..Len(r.log) /\ r.log[mci].term = r.Term
    <3>1. mci > 0 /\ mci >= r.offset
      <4>1. r.offset \in Nat /\ r.offset <= r.committed
        BY <1>0, StructFields DEF StructOK
      <4> QED BY <1>0, <1>1, <1>5, <4>1
    <3>2. Term(r, mci) = TermAt(r.log, mci)
      BY <1>0, <1>1, <3>1, TermIsTermAt
    <3> QED BY <1>0, <1>1, <1>5, <3>1, <3>2 DEF TermAt
  <2>4. Safe(N, K, r.log, mci, r.Term)
    BY <1>1, <2>3, CountedIsSafe
  <2>5. RoleInv(i, s, N)
    BY <1>0, <2>2 DEF RoleInv
  <2>6. Solid(i, s, d, N, D, K)
    BY <1>0, <1>3, <2>2, <2>4, <2>5, CalmKeepsSolid
  <2> QED BY <2>2, <2>6 DEF Leading
<1> QED BY <1>2, <1>4, <1>5

-----------------------------------------------------------------------------
(* What a leader does with answers *)

\* send() of a message without entries that is no part of an election.
LEMMA SendSolid ==
    ASSUME NEW i \in Server, NEW r, NEW d, NEW N, NEW D, NEW K, Solid(i, r, d, N, D, K),
           NEW m \in Message, m.entries = <<>>,
           m.type \in {"MsgPreVote", "MsgPreVoteResp", "MsgHeartbeatResp", "MsgTimeoutNow",
                       "MsgProp", "MsgTransferLeader"},
           m.type = "MsgHeartbeatResp" => m.from # m.to,
           m.type = "MsgTransferLeader" => Elected(N, m.to, m.term)
    PROVE  Solid(i, Send(r, m), d, N, D, K) /\ Send(r, m).state = r.state
<1> DEFINE s == Send(r, m)
<1>1. StructOK(r) /\ r \in RaftStruct /\ RoleInv(i, r, N)
  BY SolidFields DEF StructOK
<1>2. Calm(i, r, s)
  <2>1. SnapshotComplete(m)
    BY DEF SnapshotComplete
  <2>2. QuietMessage(i, r, m)
    BY <2>1, QuietMessages
  <2>3. Speaks(r, m)
    BY SpeaksOther
  <2> QED BY <1>1, <2>2, <2>3, SendQuiet, SendStays DEF Calm
<1>4. /\ s.msgs = r.msgs \cup {m} /\ s.log = r.log /\ s.committed = r.committed /\ s.Term = r.Term
      /\ s.lead = r.lead /\ s.state = r.state /\ s.panicked = r.panicked /\ s.prs = r.prs
  BY <1>1 DEF Send, RaftStruct
<1> HIDE DEF s
<1>5. Apt(s, N, m)
  BY DEF Apt
<1>6. RoleInv(i, s, N)
  BY <1>1, <1>4 DEF RoleInv
<1>7. Safe(N, K, s.log, s.committed, s.Term)
  BY <1>4, SolidFields
<1>8. Solid(i, s, d, N, D, K)
  BY <1>2, <1>4, <1>5, <1>6, <1>7, CalmKeepsSolid
<1> QED BY <1>4, <1>8 DEF s

\* A rejected MsgApp (raft.go:1104-1231)
LEMMA HandleRejectSolid ==
    ASSUME NEW i \in Server, NEW r, NEW d, NEW N, NEW D, NEW K, Leading(i, r, d, N, D, K), scenario \in Scenarios,
           NEW m \in Message, m.from # i
    PROVE  Leading(i, HandleReject(i, r, m), d, N, D, K)
<1> DEFINE from  == m.from
           probe == IF m.logTerm > 0 THEN FindConflictByTerm(r, m.rejectHint, m.logTerm)
                                     ELSE m.rejectHint
           pr    == MaybeDecrTo(r.prs[from], m.index, probe)
           pr1   == IF pr.State = "Replicate" THEN BecomeProbe(pr) ELSE pr
           r1    == [r EXCEPT !.prs[from] = pr1]
           yes   == TRUE
<1>1. HandleReject(i, r, m) = IF Decreases(r.prs[from], m.index) THEN MaybeSendAppend(i, r1, from, yes) ELSE r
  BY DEF HandleReject, SendAppend
<1> HIDE DEF yes
<1> SUFFICES ASSUME Decreases(r.prs[from], m.index)
             PROVE  Leading(i, MaybeSendAppend(i, r1, from, yes), d, N, D, K)
  BY <1>1
<1>2. from \in Server /\ m.index \in Nat /\ m.logTerm \in Nat /\ m.rejectHint \in Nat
  BY DEF Message
<1>3. /\ StructOK(r) /\ r.prs[from] \in ProgressRecord /\ PeerOK(N, i, from, r.prs[from], Len(r.log), r.Term)
      /\ Len(r.log) \in Nat
  BY <1>2, LeadingFields
<1>4. probe \in Nat
  BY <1>2, <1>3, FindConflictByTermType
<1> HIDE DEF probe, from
<1>5. pr \in ProgressRecord /\ PeerOK(N, i, from, pr, Len(r.log), r.Term)
  BY <1>2, <1>3, <1>4, ProgressTypes, PeerDecreases
<1> HIDE DEF pr
<1>6. pr1 \in ProgressRecord /\ PeerOK(N, i, from, pr1, Len(r.log), r.Term)
  <2>1. 0 \in Nat /\ TRUE \in BOOLEAN
    OBVIOUS
  <2>2. BecomeProbe(pr) \in ProgressRecord
    BY <1>5, <2>1, ProgressTypes
  <2>3. PeerOK(N, i, from, BecomeProbe(pr), Len(r.log), r.Term)
    BY <1>3, <1>5, <2>1, PeerSteps
  <2> QED BY <1>5, <2>2, <2>3
<1> HIDE DEF pr1
<1>7. Leading(i, r1, d, N, D, K)
  BY <1>2, <1>6, ProgressSolid
<1> HIDE DEF r1
<1>8. from # i
  BY DEF from
<1> QED BY <1>2, <1>7, <1>8, MaybeSendAppendSolid

\* An index of the leader's log is acknowledged (raft.go:1232-1262).
LEMMA AckedPeer ==
    ASSUME NEW N, NEW i, NEW p, NEW pr \in ProgressRecord, NEW n \in Nat, NEW t, PeerOK(N, i, p, pr, n, t),
           NEW k \in Nat, k <= n, p # i /\ k # 0 => Acknowledged(N, p, t, k)
    PROVE  AckProgress(pr, k) \in ProgressRecord /\ PeerOK(N, i, p, AckProgress(pr, k), n, t)
<1> DEFINE pr1 == MaybeUpdate(pr, k)
<1>0. FALSE \in BOOLEAN
  OBVIOUS
<1>1. pr1 \in ProgressRecord /\ PeerOK(N, i, p, pr1, n, t)
  BY ProgressTypes, PeerIndexSteps
<1>2. AckProgress(pr, k) \in {BecomeReplicate(pr1), BecomeReplicate(BecomeProbe(pr1)), pr1, FreeLE(pr1, k)}
  <2>1. /\ pr1.State \in {"Probe", "Replicate", "Snapshot"}
        /\ pr1.Match >= pr1.PendingSnapshot \/ pr1.Match < pr1.PendingSnapshot
    <3>1. pr1.Match \in Nat /\ pr1.PendingSnapshot \in Nat /\ pr1.State \in {"Probe", "Replicate", "Snapshot"}
      BY <1>1 DEF ProgressRecord
    <3> HIDE DEF pr1
    <3> QED BY <3>1
  <2> QED BY <2>1 DEF AckProgress
<1> HIDE DEF pr1
<1>3. AckProgress(pr, k) \in ProgressRecord
  BY <1>0, HandlerProgressTypes
<1>4. BecomeProbe(pr1) \in ProgressRecord /\ PeerOK(N, i, p, BecomeProbe(pr1), n, t)
  <2>1. BecomeProbe(pr1) \in ProgressRecord
    BY <1>1, ProgressTypes
  <2> QED BY <1>0, <1>1, <2>1, PeerSteps
<1>5. /\ PeerOK(N, i, p, BecomeReplicate(pr1), n, t) /\ PeerOK(N, i, p, FreeLE(pr1, k), n, t)
      /\ PeerOK(N, i, p, BecomeReplicate(BecomeProbe(pr1)), n, t)
  BY <1>0, <1>1, <1>4, PeerSteps
<1> QED BY <1>1, <1>2, <1>3, <1>5

\* An acknowledged MsgApp (raft.go:1232-1301)
LEMMA HandleAckSolid ==
    ASSUME Several, NEW i \in Server, NEW r, NEW d, NEW N, NEW D, NEW K, Leading(i, r, d, N, D, K), scenario \in Scenarios,
           NEW m \in Message, m.from # i, m.index <= Len(r.log), Acknowledged(N, m.from, r.Term, m.index)
    PROVE  Leading(i, HandleAck(i, r, m), d, N, D, K)
<1> DEFINE from == m.from
           pr == AckProgress(r.prs[from], m.index)
           r1 == [r EXCEPT !.prs[from] = pr]
           r2 == MaybeCommit(r1)
           yes == TRUE
           r3 == IF r2.committed # r1.committed THEN BcastAppend(i, r2)
                 ELSE IF IsPaused(r.prs[from]) THEN MaybeSendAppend(i, r2, from, yes)
                 ELSE r2
           r4 == SendAllAppends(i, r3, from)
           n  == Msg("MsgTimeoutNow", i, from, r4.Term)
<1>1. HandleAck(i, r, m) \in {Send(r4, n), r4}
  BY DEF HandleAck, SendAppend
<1>2. from \in Server /\ m.index \in Nat /\ from # i
  BY DEF Message
<1>3. /\ r.prs[from] \in ProgressRecord /\ PeerOK(N, i, from, r.prs[from], Len(r.log), r.Term)
      /\ Len(r.log) \in Nat
  BY <1>2, LeadingFields
<1>4. pr \in ProgressRecord /\ PeerOK(N, i, from, pr, Len(r.log), r.Term)
  BY <1>2, <1>3, AckedPeer
<1> HIDE DEF pr, from, yes
<1>5. Leading(i, r1, d, N, D, K)
  BY <1>2, <1>4, ProgressSolid
<1> HIDE DEF r1
<1>6. Leading(i, r2, d, N, D, K)
  BY <1>5, MaybeCommitSolid
<1> HIDE DEF r2
<1>7. Leading(i, r3, d, N, D, K)
  BY <1>2, <1>6, BcastAppendSolid, MaybeSendAppendSolid
<1> HIDE DEF r3
<1>8. Leading(i, r4, d, N, D, K)
  BY <1>2, <1>7, SendAllAppendsSolid
<1> HIDE DEF r4
<1>9. Leading(i, Send(r4, n), d, N, D, K)
  <2>1. Solid(i, r4, d, N, D, K) /\ r4.state = "Leader" /\ r4.Term \in Nat
    BY <1>8, LeadingFields
  <2>2. n \in Message /\ n.type = "MsgTimeoutNow" /\ n.entries = <<>>
    <3>1. "MsgTimeoutNow" \in MessageTypes
      BY DEF MessageTypes
    <3>2. IsMsg(n, "MsgTimeoutNow", i, from, r4.Term)
      BY <1>2, <2>1, <3>1, MsgType
    <3> QED BY <3>2 DEF IsMsg
  <2> HIDE DEF n
  <2>3. Solid(i, Send(r4, n), d, N, D, K) /\ Send(r4, n).state = r4.state
    BY <2>1, <2>2, SendSolid
  <2> QED BY <2>1, <2>3 DEF Leading
<1> HIDE DEF n
<1> QED BY <1>1, <1>8, <1>9

\* MsgAppResp at the leader (raft.go:1101-1301)
LEMMA HandleAppRespSolid ==
    ASSUME Several, NEW i \in Server, NEW r, NEW d, NEW N, NEW D, NEW K, Leading(i, r, d, N, D, K), scenario \in Scenarios,
           NEW m \in N, m.type = "MsgAppResp", m.to = i, m.term = r.Term
    PROVE  Leading(i, HandleAppResp(i, r, m), d, N, D, K)
<1> DEFINE pr == [r.prs[m.from] EXCEPT !.RecentActive = TRUE]
           r1 == [r EXCEPT !.prs[m.from].RecentActive = TRUE]
           pr2 == MaybeUpdate(r1.prs[m.from], m.index)
           r2 == [r1 EXCEPT !.prs[m.from] = pr2]
<1>1. HandleAppResp(i, r, m) = IF m.reject THEN HandleReject(i, r1, m)
                               ELSE IF Updates(r1.prs[m.from], m.index) THEN HandleAck(i, r1, m)
                               ELSE r2
  BY DEF HandleAppResp, StructOK, RaftStruct
<1>2. m \in Message /\ m.from # i
  <2>1. Law(N, D, K) /\ N \subseteq Message
    BY LeadingFields, SolidFields
  <2>2. MsgOK(N, K, m)
    BY <2>1 DEF Law
  <2> QED BY <2>1, <2>2 DEF MsgOK
<1>3. m.from \in Server /\ m.index \in Nat
  BY <1>2 DEF Message
<1>4. /\ r.prs[m.from] \in ProgressRecord /\ PeerOK(N, i, m.from, r.prs[m.from], Len(r.log), r.Term)
      /\ Len(r.log) \in Nat /\ StructOK(r) /\ r.Term \in Nat
  BY <1>3, LeadingFields
<1>5. pr \in ProgressRecord /\ PeerOK(N, i, m.from, pr, Len(r.log), r.Term)
  <2>1. pr \in ProgressRecord
    BY <1>4 DEF ProgressRecord
  <2>2. 0 \in Nat /\ TRUE \in BOOLEAN
    OBVIOUS
  <2> QED BY <1>4, <2>1, <2>2, PeerSteps
<1>6. r1 = [r EXCEPT !.prs[m.from] = pr]
  BY <1>4 DEF StructOK, RaftStruct
<1> HIDE DEF pr, r1
<1>7. Leading(i, r1, d, N, D, K) /\ r1.log = r.log /\ r1.Term = r.Term
  <2> DEFINE from == m.from
             s == [r EXCEPT !.prs[from] = pr]
  <2> HIDE DEF from
  <2>1. from \in Server /\ PeerOK(N, i, from, pr, Len(r.log), r.Term)
    BY <1>3, <1>5 DEF from
  <2>2. Leading(i, s, d, N, D, K) /\ s.log = r.log /\ s.Term = r.Term
    BY <1>5, <2>1, ProgressSolid
  <2> QED BY <1>6, <2>2 DEF from
<1>8. CASE m.reject
  <2>1. HandleAppResp(i, r, m) = HandleReject(i, r1, m)
    BY <1>1, <1>8
  <2> QED BY <1>2, <1>7, <2>1, HandleRejectSolid
<1>9. CASE ~m.reject
  <2>1. Acknowledged(N, m.from, r.Term, m.index)
    BY <1>9 DEF Acknowledged
  <2>2. m.index <= Len(r.log)
    <3>1. CASE m.index = 0
      BY <1>4, <3>1
    <3>2. CASE m.index # 0
      <4>1. m.index > 0
        BY <1>3, <3>2
      <4>2. Claim(m)
        BY <1>9, <4>1 DEF Claim
      <4>3. m.index \in 1..Len(r.log)
        BY <4>2, AckInLeader
      <4> QED BY <1>4, <4>3
    <3> QED BY <3>1, <3>2
  <2>3. Leading(i, HandleAck(i, r1, m), d, N, D, K)
    BY <1>2, <1>7, <2>1, <2>2, HandleAckSolid
  <2>4. Leading(i, r2, d, N, D, K)
    <3>1. r1.prs[m.from] \in ProgressRecord /\ PeerOK(N, i, m.from, r1.prs[m.from], Len(r1.log), r1.Term)
      BY <1>3, <1>7, LeadingFields
    <3>2. pr2 \in ProgressRecord
      BY <1>3, <3>1, ProgressTypes
    <3>3. PeerOK(N, i, m.from, pr2, Len(r1.log), r1.Term)
      <4>1. PeerOK(N, i, m.from, r1.prs[m.from], Len(r.log), r.Term)
        BY <1>7, <3>1
      <4>2. PeerOK(N, i, m.from, pr2, Len(r.log), r.Term)
        BY <1>3, <1>4, <2>1, <2>2, <3>1, <4>1, PeerIndexSteps
      <4> QED BY <1>7, <4>2
    <3> HIDE DEF pr2
    <3> QED BY <1>3, <1>7, <3>2, <3>3, ProgressSolid
  <2> HIDE DEF r2
  <2> QED BY <1>1, <1>9, <2>3, <2>4
<1> QED BY <1>8, <1>9

\* MsgHeartbeatResp at the leader (raft.go:1302-1325)
LEMMA HandleHeartbeatRespSolid ==
    ASSUME NEW i \in Server, NEW r, NEW d, NEW N, NEW D, NEW K, Leading(i, r, d, N, D, K), scenario \in Scenarios,
           NEW m \in N, m.type = "MsgHeartbeatResp", m.to = i
    PROVE  Leading(i, HandleHeartbeatResp(i, r, m), d, N, D, K)
<1> DEFINE from == m.from
           pr == Resumed(r.prs[from])
           r1 == [r EXCEPT !.prs[from] = pr]
           yes == TRUE
<1>1. HandleHeartbeatResp(i, r, m) \in {MaybeSendAppend(i, r1, from, yes), r1}
  BY DEF HandleHeartbeatResp, SendAppend
<1>2. from \in Server /\ from # i
  <2>1. Law(N, D, K) /\ m \in Message
    BY LeadingFields, SolidFields
  <2>2. MsgOK(N, K, m)
    BY <2>1 DEF Law
  <2> QED BY <2>1, <2>2 DEF MsgOK, Message
<1> HIDE DEF from
<1>3. /\ r.prs[from] \in ProgressRecord /\ PeerOK(N, i, from, r.prs[from], Len(r.log), r.Term)
      /\ Len(r.log) \in Nat
  BY <1>2, LeadingFields
<1>4. pr \in ProgressRecord /\ PeerOK(N, i, from, pr, Len(r.log), r.Term)
  <2>1. 0 \in Nat /\ FALSE \in BOOLEAN
    OBVIOUS
  <2> QED BY <1>3, <2>1, HandlerProgressTypes, PeerSteps
<1> HIDE DEF pr, yes
<1>5. Leading(i, r1, d, N, D, K)
  BY <1>2, <1>4, ProgressSolid
<1> HIDE DEF r1
<1>6. Leading(i, MaybeSendAppend(i, r1, from, yes), d, N, D, K)
  BY <1>2, <1>5, MaybeSendAppendSolid
<1> QED BY <1>1, <1>5, <1>6

\* Timers and the transfer target have no part in commitment.
LEMMA TimersSolid ==
    ASSUME NEW i \in Server, NEW r, NEW d, NEW N, NEW D, NEW K, Solid(i, r, d, N, D, K),
           NEW e \in {0, 1}, NEW t \in Server \cup {None}
    PROVE  LET s == [r EXCEPT !.electionElapsed = e, !.leadTransferee = t]
           IN  Solid(i, s, d, N, D, K) /\ s.state = r.state
<1> DEFINE s == [r EXCEPT !.electionElapsed = e, !.leadTransferee = t]
           f == [r EXCEPT !.electionElapsed = e, !.lead = r.lead, !.leadTransferee = t]
<1>1. StructOK(r) /\ r \in RaftStruct /\ RoleInv(i, r, N) /\ r.lead \in Server \cup {None}
  BY SolidFields, StructFields DEF StructOK
<1>2. s = f
  BY <1>1 DEF RaftStruct
<1>3. Quiet(i, r, f) /\ Stays(r, f)
  BY <1>1, OtherQuiet, FieldsStay
<1>4. /\ s.msgs = r.msgs /\ s.log = r.log /\ s.committed = r.committed /\ s.Term = r.Term
      /\ s.lead = r.lead /\ s.state = r.state /\ s.panicked = r.panicked /\ s.prs = r.prs
  BY <1>1 DEF RaftStruct
<1> SUFFICES Solid(i, s, d, N, D, K) /\ s.state = r.state
  OBVIOUS
<1> HIDE DEF s, f
<1>5. Calm(i, r, s)
  BY <1>2, <1>3 DEF Calm
<1>6. RoleInv(i, s, N)
  BY <1>1, <1>4 DEF RoleInv
<1>7. Safe(N, K, s.log, s.committed, s.Term)
  BY <1>4, SolidFields
<1> QED BY <1>4, <1>5, <1>6, <1>7, CalmKeepsSolid

\* A transfer is given up (raft.go:979-997, 1335-1365).
LEMMA NoTransferSolid ==
    ASSUME NEW i \in Server, NEW r, NEW d, NEW N, NEW D, NEW K, Solid(i, r, d, N, D, K)
    PROVE  Solid(i, [r EXCEPT !.leadTransferee = None], d, N, D, K)
<1> DEFINE e == r.electionElapsed
           t == None
           f == [r EXCEPT !.electionElapsed = e, !.leadTransferee = t]
<1>1. StructOK(r) /\ r \in RaftStruct
  BY SolidFields DEF StructOK
<1>2. [r EXCEPT !.leadTransferee = None] = f
  BY <1>1 DEF RaftStruct
<1>3. e \in {0, 1} /\ t \in Server \cup {None}
  BY <1>1, StructFields
<1> HIDE DEF e, t
<1>4. Solid(i, f, d, N, D, K)
  BY <1>3, TimersSolid
<1> QED BY <1>2, <1>4

\* MsgTransferLeader (raft.go:1335-1365, 1441-1447). A request that was forwarded goes to the
\* leader of its term: whoever gets it knows no other one, and does not forward it again.
LEMMA HandleTransferLeaderSolid ==
    ASSUME Several, NEW i \in Server, NEW r, NEW d, NEW N, NEW D, NEW K, Solid(i, r, d, N, D, K), scenario \in Scenarios,
           NEW to \in Server, NEW term, term = 0 \/ Elected(N, i, r.Term)
    PROVE  Solid(i, HandleTransferLeader(i, r, to, term), d, N, D, K)
<1> DEFINE none == [r EXCEPT !.leadTransferee = None]
           r1   == [r EXCEPT !.electionElapsed = 0, !.leadTransferee = to]
           yes  == TRUE
           n1   == Msg("MsgTimeoutNow", i, to, r.Term)
           n2   == Msg("MsgTransferLeader", to, r.lead, r.Term)
           s    == HandleTransferLeader(i, r, to, term)
<1>0. /\ StructOK(r) /\ r \in RaftStruct /\ RoleInv(i, r, N) /\ r.lead \in Server \cup {None} /\ r.Term \in Nat
  BY SolidFields, StructFields DEF StructOK
<1>1. \/ s = r
      \/ s = none
      \/ to # i /\ r.state = "Leader" /\ s \in {Send(r1, n1), MaybeSendAppend(i, r1, to, yes)}
      \/ r.state = "Follower" /\ r.lead # None /\ term # 0
      \/ r.state = "Follower" /\ r.lead # None /\ s = Send(r, n2)
  <2>1. CASE r.state = "Leader"
    <3>1. CASE r.leadTransferee = to
      BY <2>1, <3>1 DEF HandleTransferLeader
    <3>2. CASE r.leadTransferee # to /\ to = i
      BY <2>1, <3>2 DEF HandleTransferLeader
    <3>3. CASE r.leadTransferee # to /\ to # i
      BY <2>1, <3>3 DEF HandleTransferLeader, SendAppend
    <3> QED BY <3>1, <3>2, <3>3
  <2>2. CASE r.state = "Follower" /\ r.lead # None
    BY <2>2 DEF HandleTransferLeader
  <2>3. CASE r.state # "Leader" /\ ~(r.state = "Follower" /\ r.lead # None)
    BY <2>3 DEF HandleTransferLeader
  <2> QED BY <2>1, <2>2, <2>3
<1>2. Solid(i, none, d, N, D, K)
  BY NoTransferSolid
<1>3. Solid(i, r1, d, N, D, K) /\ r1.state = r.state /\ r1.Term = r.Term
  <2>1. 0 \in {0, 1} /\ to \in Server \cup {None}
    OBVIOUS
  <2>2. Solid(i, r1, d, N, D, K) /\ r1.state = r.state
    BY <2>1, TimersSolid
  <2> QED BY <1>0, <2>2 DEF RaftStruct
<1>4. CASE to # i /\ r.state = "Leader" /\ s \in {Send(r1, n1), MaybeSendAppend(i, r1, to, yes)}
  <2>1. n1 \in Message /\ n1.type = "MsgTimeoutNow" /\ n1.entries = <<>>
    <3>1. "MsgTimeoutNow" \in MessageTypes
      BY DEF MessageTypes
    <3>2. IsMsg(n1, "MsgTimeoutNow", i, to, r.Term)
      BY <1>0, <3>1, MsgType
    <3> QED BY <3>2 DEF IsMsg
  <2> HIDE DEF n1, r1, yes
  <2>2. Solid(i, Send(r1, n1), d, N, D, K)
    BY <1>3, <2>1, SendSolid
  <2>3. Leading(i, r1, d, N, D, K)
    BY <1>3, <1>4 DEF Leading
  <2>4. Leading(i, MaybeSendAppend(i, r1, to, yes), d, N, D, K)
    BY <1>4, <2>3, MaybeSendAppendSolid
  <2> QED BY <1>4, <2>2, <2>4 DEF Leading
<1>5. CASE r.state = "Follower" /\ r.lead # None /\ term # 0
  <2>1. Elected(N, i, r.Term) /\ Elected(N, r.lead, r.Term) /\ r.lead # i /\ r.lead \in Server
    BY <1>0, <1>5 DEF RoleInv
  <2>2. NetLogInv(N, K) /\ \A p \in Server : OneVote(p, N)
    BY SolidFields DEF World
  <2>3. r.lead = i
    BY <2>1, <2>2, ElectedIsOne
  <2> QED BY <2>1, <2>3
<1>6. CASE r.state = "Follower" /\ r.lead # None /\ s = Send(r, n2)
  <2>1. r.lead \in Server /\ Elected(N, r.lead, r.Term)
    BY <1>0, <1>6 DEF RoleInv
  <2>2. n2 \in Message /\ n2.type = "MsgTransferLeader" /\ n2.entries = <<>> /\ n2.to = r.lead /\ n2.term = r.Term
    <3>1. "MsgTransferLeader" \in MessageTypes
      BY DEF MessageTypes
    <3>2. IsMsg(n2, "MsgTransferLeader", to, r.lead, r.Term)
      BY <1>0, <2>1, <3>1, MsgType
    <3> QED BY <3>2 DEF IsMsg
  <2> HIDE DEF n2
  <2>3. Solid(i, Send(r, n2), d, N, D, K)
    BY <2>1, <2>2, SendSolid
  <2> QED BY <1>6, <2>3
<1> HIDE DEF none, s, r1, n1, n2
<1> QED BY <1>1, <1>2, <1>4, <1>5, <1>6 DEF s

\* bcastHeartbeat (raft.go:493-509, 546-552): the commit index is one that the follower has acknowledged.
LEMMA BeatSolid ==
    ASSUME NEW i \in Server, NEW r, NEW d, NEW N, NEW D, NEW K, Leading(i, r, d, N, D, K)
    PROVE  Solid(i, [r EXCEPT !.msgs = r.msgs \cup {Heartbeat(i, r, p) : p \in Server \ {i}}], d, N, D, K)
<1> DEFINE M   == {Heartbeat(i, r, p) : p \in Server \ {i}}
           all == r.msgs \cup M
           s   == [r EXCEPT !.msgs = all]
<1>0. /\ StructOK(r) /\ r \in RaftStruct /\ RoleInv(i, r, N) /\ Law(N, D, K) /\ Sound(i, r, d, N, D, K)
      /\ Fit(i, r, d, N, K) /\ Good(i, r, d, N) /\ r.state = "Leader" /\ r.Term \in Nat /\ r.committed \in Nat
      /\ Len(r.log) \in Nat /\ r.committed <= Len(r.log)
  BY LeadingFields, SolidFields DEF StructOK
<1>1. Fit(i, s, d, N, K)
  BY <1>0, BeatFit
<1>2. ASSUME NEW m \in M PROVE MaySend(i, s, d, N, D, K, m)
  <2>1. PICK p \in Server : p # i /\ m = Heartbeat(i, r, p)
    OBVIOUS
  <2> DEFINE c == Min2(r.prs[p].Match, r.committed)
  <2>2. m.type = "MsgHeartbeat" /\ m.from = i /\ m.to = p /\ m.term = r.Term /\ m.commit = c
    BY <2>1 DEF Heartbeat, Msg
  <2>3. r.prs[p].Match \in Nat /\ PeerOK(N, i, p, r.prs[p], Len(r.log), r.Term)
    BY LeadingFields DEF ProgressRecord
  <2>4. c \in Nat /\ c <= r.prs[p].Match /\ c <= r.committed
    BY <1>0, <2>3, MinMaxType
  <2> HIDE DEF c
  <2>5. c # 0 => ClaimOf(N, p, r.Term, c)
    <3> SUFFICES ASSUME c # 0 PROVE ClaimOf(N, p, r.Term, c)
      OBVIOUS
    <3>1. r.prs[p].Match # 0
      BY <2>3, <2>4
    <3>2. Acknowledged(N, p, r.Term, r.prs[p].Match)
      BY <2>1, <2>3, <3>1 DEF PeerOK
    <3>3. PICK k \in N : k.type = "MsgAppResp" /\ ~k.reject /\ k.from = p /\ k.term = r.Term /\ k.index = r.prs[p].Match
      BY <3>2 DEF Acknowledged
    <3>4. k.index > 0 /\ k.index >= c
      BY <2>3, <2>4, <3>1, <3>3
    <3> QED BY <3>3, <3>4 DEF ClaimOf, Claim, End
  <2>6. LeaderLog(N, K, r.log, r.Term) /\ Safe(N, K, r.log, c, r.Term)
    <3>1. LeaderLog(N, K, r.log, r.Term) /\ Safe(N, K, r.log, r.committed, r.Term)
      BY LeadingFields
    <3>2. Agree(r.log, r.log, c) /\ r.Term <= r.Term
      BY <1>0, <2>4 DEF Agree
    <3>3. Safe(N, K, r.log, c, r.Term)
      BY <1>0, <2>4, <3>1, <3>2, SafeOther
    <3> QED BY <3>1, <3>3
  <2>7. HeartbeatOK(N, K, m)
    BY <2>2, <2>5, <2>6 DEF HeartbeatOK
  <2>8. MsgOK(N, K, m) /\ ~Claim(m) /\ ~Grants(m)
    BY <2>1, <2>2, <2>7 DEF MsgOK, Claim, Grants
  <2> QED BY <2>2, <2>8 DEF MaySend
<1>3. /\ s.msgs = all /\ s.log = r.log /\ s.committed = r.committed /\ s.Term = r.Term
      /\ s.lead = r.lead /\ s.state = r.state /\ s.panicked = r.panicked /\ s.prs = r.prs
  <2> HIDE DEF all
  <2> QED BY <1>0 DEF RaftStruct
<1> SUFFICES Solid(i, s, d, N, D, K)
  OBVIOUS
<1>4. \A m \in s.msgs : m \in r.msgs \/ MaySend(i, s, d, N, D, K, m)
  BY <1>2, <1>3
<1> HIDE DEF s, all, M
<1>5. RoleInv(i, s, N)
  BY <1>0, <1>3 DEF RoleInv
<1>6. /\ \A m \in N \cup r.msgs : Claim(m) /\ m.from = i => Backs(N, D, K, m, s.log, s.Term)
      /\ Safe(N, K, s.log, s.committed, s.Term) /\ TermAt(s.log, Len(s.log)) <= s.Term
  BY <1>0, <1>3 DEF Sound, ClaimInv, SafeInv
<1>7. s.Term >= r.Term /\ StructOK(s)
  <2>1. StructOK(s)
    BY <1>1 DEF Fit, Good
  <2> QED BY <1>0, <1>3, <2>1
<1>8. Sound(i, s, d, N, D, K)
  BY <1>0, <1>4, <1>5, <1>6, <1>7, SoundIf
<1> QED BY <1>0, <1>1, <1>8 DEF Solid

\* A leader that has heard of a quorum starts to count again (raft.go:979-997).
LEMMA QuorumHeardSolid ==
    ASSUME NEW i \in Server, NEW r, NEW d, NEW N, NEW D, NEW K, Leading(i, r, d, N, D, K)
    PROVE  Solid(i, [r EXCEPT !.prs = [p \in Server |-> [r.prs[p] EXCEPT !.RecentActive = (p = i)]]], d, N, D, K)
<1> DEFINE heard(p) == (p = i)
           prs == [p \in Server |-> [r.prs[p] EXCEPT !.RecentActive = heard(p)]]
           s == [r EXCEPT !.prs = prs]
<1>0. StructOK(r) /\ r \in RaftStruct /\ r.prs \in [Server -> ProgressRecord] /\ Len(r.log) \in Nat
  BY LeadingFields DEF StructOK
<1>1. \A p \in Server : heard(p) \in BOOLEAN
  OBVIOUS
<1> SUFFICES Solid(i, s, d, N, D, K)
  OBVIOUS
<1> HIDE DEF heard
<1>2. ASSUME NEW p \in Server
      PROVE  prs[p] \in ProgressRecord /\ PeerOK(N, i, p, prs[p], Len(r.log), r.Term)
  <2> DEFINE b == heard(p)
             pr == r.prs[p]
  <2>1. pr \in ProgressRecord /\ b \in BOOLEAN /\ PeerOK(N, i, p, pr, Len(r.log), r.Term)
    BY <1>0, <1>1, LeadingFields
  <2>2. 0 \in Nat /\ prs[p] = [pr EXCEPT !.RecentActive = b]
    OBVIOUS
  <2> HIDE DEF b, pr
  <2>3. [pr EXCEPT !.RecentActive = b] \in ProgressRecord
    BY <2>1 DEF ProgressRecord
  <2>4. PeerOK(N, i, p, [pr EXCEPT !.RecentActive = b], Len(r.log), r.Term)
    BY <1>0, <2>1, <2>2, PeerSteps
  <2> QED BY <2>2, <2>3, <2>4
<1>3. prs \in [Server -> ProgressRecord]
  <2>1. \A p \in Server : prs[p] \in ProgressRecord
    BY <1>2
  <2> QED BY <2>1
<1> HIDE DEF prs
<1>4. Calm(i, r, s)
  BY <1>0, <1>3, ProgressesQuiet, FieldsStay DEF Calm
<1>5. /\ s.committed = r.committed /\ s.lead = r.lead /\ s.panicked = r.panicked /\ s.msgs = r.msgs
      /\ s.prs = prs
  BY <1>0 DEF RaftStruct
<1> HIDE DEF s
<1>6. Leading(i, s, d, N, D, K)
  BY <1>2, <1>4, <1>5, PeerSolid
<1> QED BY <1>6 DEF Leading

\* Answers to messages of an old term (raft.go:876-906).
LEMMA StaleSolid ==
    ASSUME NEW i \in Server, NEW r, NEW d, NEW N, NEW D, NEW K, Solid(i, r, d, N, D, K), NEW m \in N, m.to = i
    PROVE  Solid(i, [r EXCEPT !.msgs = r.msgs \cup AnswersToLowerTerm(i, r, m)], d, N, D, K)
<1> DEFINE M == AnswersToLowerTerm(i, r, m)
           n == Msg("MsgPreVoteResp", i, m.from, r.Term)
           n1 == [n EXCEPT !.reject = TRUE]
           n2 == Msg("MsgAppResp", i, m.from, r.Term)
           s == [r EXCEPT !.msgs = r.msgs \cup M]
<1>0. /\ StructOK(r) /\ r \in RaftStruct /\ RoleInv(i, r, N) /\ Law(N, D, K) /\ m \in Message /\ r.Term \in Nat
      /\ Safe(N, K, r.log, r.committed, r.Term)
  BY SolidFields DEF StructOK
<1>1. M = {} \/ M = {n1} \/ (M = {n2} /\ m.type \in {"MsgHeartbeat", "MsgApp"})
  BY DEF AnswersToLowerTerm
<1>2. m.from \in Server
  BY <1>0 DEF Message
<1>3. m.type \in {"MsgHeartbeat", "MsgApp"} => m.from # i
  BY <1>0 DEF Law, MsgOK
<1>4. QuietMessage(i, r, n2) /\ Speaks(r, n2) /\ n2.type = "MsgAppResp" /\ n2.from = i /\ n2.to = m.from
  <2>1. "MsgAppResp" \in OtherTypes /\ "MsgAppResp" \in MessageTypes
    BY DEF OtherTypes, MessageTypes
  <2>2. IsMsg(n2, "MsgAppResp", i, m.from, r.Term) /\ QuietMessage(i, r, n2)
    BY <1>0, <1>2, <2>1, MsgType, OtherMessageQuiet
  <2> HIDE DEF n2
  <2> QED BY <2>2 DEF IsMsg, Speaks
<1>5. QuietMessage(i, r, n1) /\ Speaks(r, n1) /\ n1.type = "MsgPreVoteResp"
  <2>1. "MsgPreVoteResp" \in MessageTypes
    BY DEF MessageTypes
  <2>2. IsMsg(n, "MsgPreVoteResp", i, m.from, r.Term)
    BY <1>0, <1>2, <2>1, MsgType
  <2> HIDE DEF n
  <2>3. n1 \in Message /\ n1.type = "MsgPreVoteResp" /\ n1.entries = <<>>
    BY <2>2 DEF IsMsg, Message
  <2> HIDE DEF n1
  <2> QED BY <2>3, QuietMessages, SpeaksOther DEF SnapshotComplete
<1> HIDE DEF M, n1, n2
<1>6. \A x \in M : QuietMessage(i, r, x) /\ Speaks(r, x) /\ Apt(s, N, x)
  <2> HIDE DEF s
  <2> QED BY <1>1, <1>3, <1>4, <1>5 DEF Apt
<1>7. Calm(i, r, s)
  BY <1>0, <1>6, SendsQuiet, SendsStay DEF Calm
<1>8. /\ s.msgs = r.msgs \cup M /\ s.log = r.log /\ s.committed = r.committed /\ s.Term = r.Term
      /\ s.lead = r.lead /\ s.state = r.state /\ s.panicked = r.panicked /\ s.prs = r.prs
  BY <1>0 DEF RaftStruct
<1> SUFFICES Solid(i, s, d, N, D, K)
  BY DEF M
<1> HIDE DEF s
<1>9. RoleInv(i, s, N)
  BY <1>0, <1>8 DEF RoleInv
<1> QED BY <1>0, <1>6, <1>7, <1>8, <1>9, CalmKeepsSolid

-----------------------------------------------------------------------------
(* What a follower does *)

\* What is safe in a log of the leader is safe in a log that agrees with one of that leader.
LEMMA SafeFollows ==
    ASSUME Several, NEW N, NEW D, NEW K, Law(N, D, K), NEW log, NEW c \in Nat, NEW T \in Nat,
           Safe(N, K, log, c, T), NEW a, LeaderLog(N, K, a, T), NEW own, NEW x \in Nat, Agree(own, a, x),
           NEW e \in Nat, e <= c, e <= x
    PROVE  Safe(N, K, own, e, T)
<1>1. Len(a) \in Nat
  BY DEF LeaderLog, ValidIn
<1>2. CASE e = 0
  BY <1>2 DEF Safe
<1>3. CASE e # 0
  <2>1. c # 0 /\ T <= T
    BY <1>3
  <2>2. \A y \in 1..c : y <= Len(a) => a[y] = log[y]
    BY <2>1, SafeInLeader
  <2>3. PICK b : Agree(log, b, c)
    BY <2>1 DEF Safe
  <2>4. e <= Len(log)
    <3>1. c <= Len(log)
      BY <2>3 DEF Agree
    <3> QED BY <3>1
  <2>5. e <= Len(own) /\ \A y \in 1..e : y \in 1..x /\ y \in 1..c /\ y <= Len(a) /\ own[y] = a[y]
    BY <1>1 DEF Agree
  <2>6. Agree(log, own, e)
    BY <2>2, <2>4, <2>5 DEF Agree
  <2> QED BY <2>1, <2>6, SafeOther
<1> QED BY <1>2, <1>3

\* commitTo up to what is safe (log.go:233-241).
LEMMA CommitToSolid ==
    ASSUME NEW i \in Server, NEW r, NEW d, NEW N, NEW D, NEW K, Solid(i, r, d, N, D, K),
           NEW c \in Nat, c <= Len(r.log), Safe(N, K, r.log, c, r.Term)
    PROVE  LET s == CommitTo(r, c)
           IN  /\ Solid(i, s, d, N, D, K) /\ s.state = r.state /\ s.Term = r.Term /\ s.log = r.log
               /\ s.msgs = r.msgs /\ s.lead = r.lead /\ s.panicked = r.panicked
               /\ s.committed \in {r.committed, c} /\ s.committed >= c
<1> DEFINE s == CommitTo(r, c)
<1> SUFFICES /\ Solid(i, s, d, N, D, K) /\ s.state = r.state /\ s.Term = r.Term /\ s.log = r.log
             /\ s.msgs = r.msgs /\ s.lead = r.lead /\ s.panicked = r.panicked
             /\ s.committed \in {r.committed, c} /\ s.committed >= c
  OBVIOUS
<1>0. StructOK(r) /\ r \in RaftStruct /\ RoleInv(i, r, N) /\ r.committed \in Nat /\ Len(r.log) \in Nat
  BY SolidFields DEF StructOK
<1>1. Calm(i, r, s)
  BY <1>0, CommitToQuiet, CommitToStays DEF Calm
<1>2. (s = r /\ r.committed >= c) \/ s = [r EXCEPT !.committed = c]
  BY <1>0 DEF CommitTo, LastIndex
<1> HIDE DEF s
<1>3. CASE s = r /\ r.committed >= c
  BY <1>3
<1>4. CASE s = [r EXCEPT !.committed = c]
  <2>1. /\ s.msgs = r.msgs /\ s.log = r.log /\ s.committed = c /\ s.Term = r.Term
        /\ s.lead = r.lead /\ s.state = r.state /\ s.panicked = r.panicked /\ s.prs = r.prs
    BY <1>0, <1>4 DEF RaftStruct
  <2>2. RoleInv(i, s, N)
    BY <1>0, <2>1 DEF RoleInv
  <2>3. Safe(N, K, s.log, s.committed, s.Term)
    BY <2>1
  <2>4. Solid(i, s, d, N, D, K)
    BY <1>1, <2>1, <2>2, <2>3, CalmKeepsSolid
  <2> QED BY <2>1, <2>4
<1> QED BY <1>2, <1>3, <1>4

\* A claim of the current term: the log agrees with that of the leader.
LEMMA OwnClaim ==
    ASSUME NEW i \in Server, NEW r, NEW d, NEW N, NEW D, NEW K, Solid(i, r, d, N, D, K),
           NEW k \in N \cup r.msgs, Claim(k), k.from = i, k.term = r.Term
    PROVE  \E a : LeaderLog(N, K, a, r.Term) /\ End(k) <= Len(a) /\ Agree(r.log, a, End(k))
<1>1. Backs(N, D, K, k, r.log, r.Term) /\ r.Term \in Nat
  BY SolidFields DEF Sound, ClaimInv
<1> QED BY <1>1 DEF Backs

\* handleHeartbeat (raft.go:1509-1512): the follower has acknowledged what it commits.
LEMMA HandleHeartbeatSolid ==
    ASSUME Several, NEW i \in Server, NEW r, NEW d, NEW N, NEW D, NEW K, Solid(i, r, d, N, D, K),
           NEW m \in N, m.type = "MsgHeartbeat", m.to = i, m.term = r.Term
    PROVE  Solid(i, HandleHeartbeat(i, r, m), d, N, D, K)
<1> DEFINE c == m.commit
           s == CommitTo(r, c)
           n == Msg("MsgHeartbeatResp", i, m.from, r.Term)
<1>0. /\ StructOK(r) /\ Law(N, D, K) /\ m \in Message /\ r.Term \in Nat /\ r.committed \in Nat /\ N \subseteq Message
      /\ Len(r.log) \in Nat
  BY SolidFields
<1>1. m.from \in Server /\ c \in Nat
  BY <1>0 DEF Message
<1>2. MsgOK(N, K, m) /\ m.from # i /\ HeartbeatOK(N, K, m)
  BY <1>0 DEF Law, MsgOK
<1>3. Safe(N, K, r.log, c, r.Term) /\ c <= Len(r.log)
  <2>1. CASE c = 0
    BY <1>0, <2>1 DEF Safe
  <2>2. CASE c # 0
    <3>1. PICK k \in N : Claim(k) /\ k.from = i /\ k.term = r.Term /\ End(k) >= c
      BY <1>2, <2>2 DEF HeartbeatOK, ClaimOf
    <3>2. PICK b : LeaderLog(N, K, b, r.Term) /\ Safe(N, K, b, c, r.Term)
      BY <1>2, <2>2 DEF HeartbeatOK
    <3>3. PICK a : LeaderLog(N, K, a, r.Term) /\ End(k) <= Len(a) /\ Agree(r.log, a, End(k))
      BY <3>1, OwnClaim
    <3>4. End(k) \in Nat
      BY <1>0, EndType
    <3>5. c <= c /\ c <= End(k)
      BY <1>1, <3>1, <3>4
    <3> HIDE DEF c
    <3>6. Safe(N, K, r.log, c, r.Term)
      BY <1>0, <1>1, <3>2, <3>3, <3>4, <3>5, SafeFollows
    <3>7. c <= Len(r.log)
      BY <1>0, <1>1, <3>3, <3>4, <3>5 DEF Agree
    <3> QED BY <3>6, <3>7
  <2> QED BY <2>1, <2>2
<1>4. HandleHeartbeat(i, r, m) = Send(s, n)
  BY DEF HandleHeartbeat
<1>5. Solid(i, s, d, N, D, K)
  BY <1>1, <1>3, CommitToSolid
<1>6. n \in Message /\ n.entries = <<>> /\ n.type = "MsgHeartbeatResp" /\ n.from # n.to
  <2>1. "MsgHeartbeatResp" \in MessageTypes
    BY DEF MessageTypes
  <2>2. IsMsg(n, "MsgHeartbeatResp", i, m.from, r.Term)
    BY <1>0, <1>1, <2>1, MsgType
  <2> HIDE DEF n
  <2> QED BY <1>2, <2>2 DEF IsMsg
<1> HIDE DEF s, n
<1> QED BY <1>4, <1>5, <1>6, SendSolid

\* What is chosen was claimed by the leader of its term: it was the first to have it.
LEMMA ChosenClaimed ==
    ASSUME Several, NEW N, NEW D, NEW K, Law(N, D, K), NEW b, ValidIn(N, K, b), Chosen(N, b),
           NEW T, T = TermAt(b, Len(b))
    PROVE  \E c \in Server : Elected(N, c, T) /\ ClaimOf(N, c, T, Len(b))
<1> DEFINE y == Len(b)
           Q == Claimants(N, T, y)
<1>0. World(N, K) /\ NetInv(N) /\ N \subseteq Message /\ y \in Nat /\ y > 0 /\ y \in 1..y /\ b[y].term = T
  <2>1. World(N, K) /\ NetInv(N) /\ N \subseteq Message /\ y \in Nat /\ y > 0
    BY DEF Law, World, ValidIn, Chosen
  <2> QED BY <2>1 DEF TermAt
<1>1. HasQuorum(Server, Q)
  BY DEF Chosen
<1>2. PICK p \in Server : p \in Q
  <2> HIDE DEF Q
  <2> DEFINE none == None
  <2> HIDE DEF none
  <2> QED BY <1>1, QuorumHasOther
<1>3. PICK m \in N : Claim(m) /\ m.from = p /\ m.term = T /\ End(m) >= y
  BY <1>2 DEF Claimants, ClaimOf
<1>4. m \in Message /\ End(m) \in Nat /\ m.index \in Nat
  BY <1>0, EndType
<1>5. CASE m.type \in {"MsgApp", "MsgSnap"}
  <2>1. Elected(N, p, T)
    BY <1>0, <1>3, <1>5 DEF NetInv, FromLeader
  <2>2. ClaimOf(N, p, T, y)
    BY <1>3 DEF ClaimOf
  <2> QED BY <2>1, <2>2
<1>6. CASE m.type = "MsgAppResp"
  <2>1. End(m) = m.index
    BY <1>6 DEF End
  <2>2. PICK a : /\ LeaderLog(N, K, a, m.term) /\ m.index <= Len(a)
                 /\ a[m.index].term = m.term =>
                       \E c \in Server : Elected(N, c, m.term) /\ ClaimOf(N, c, m.term, m.index)
    <3>1. MsgOK(N, K, m)
      BY DEF Law
    <3> QED BY <1>3, <1>6, <3>1 DEF MsgOK, AckOK
  <2>3. ValidIn(N, K, a) /\ Len(a) \in Nat /\ a[Len(a)].term = T
    BY <1>3, <2>2 DEF LeaderLog, ValidIn
  <2>4. y \in 1..Len(a) /\ Len(a) \in 1..Len(a) /\ y <= Len(a) /\ m.index \in 1..Len(a) /\ y \in 1..m.index
    BY <1>0, <1>3, <1>4, <2>1, <2>2, <2>3
  <2>5. Agree(a, b, y)
    BY <1>0, <2>3, <2>4, OwnRun
  <2>6. a[y].term = T
    BY <1>0, <2>5 DEF Agree
  <2>7. a[y].term <= a[m.index].term /\ a[m.index].term <= a[Len(a)].term /\ a[m.index].term \in Nat /\ a[y].term \in Nat
    BY <2>3, <2>4, TermsGrow
  <2>8. a[m.index].term = m.term
    BY <1>3, <2>3, <2>6, <2>7
  <2>9. PICK c \in Server : Elected(N, c, T) /\ ClaimOf(N, c, T, m.index)
    BY <1>3, <2>2, <2>8
  <2>10. PICK k \in N : Claim(k) /\ k.from = c /\ k.term = T /\ End(k) >= m.index
    BY <2>9 DEF ClaimOf
  <2>11. End(k) \in Nat
    BY <1>0, EndType
  <2>12. End(k) >= y
    BY <1>0, <1>3, <1>4, <2>1, <2>10, <2>11
  <2>13. ClaimOf(N, c, T, y)
    BY <2>10, <2>12 DEF ClaimOf
  <2> QED BY <2>9, <2>13
<1> QED BY <1>3, <1>5, <1>6 DEF Claim

\* A server with this log may acknowledge x to the leader of term T.
Confirms(N, K, log, x, T) ==
    \/ x = 0
    \/ \E a : /\ LeaderLog(N, K, a, T) /\ Agree(log, a, x)
              /\ a[x].term = T => \E c \in Server : Elected(N, c, T) /\ ClaimOf(N, c, T, x)

\* What is committed may be acknowledged.
LEMMA CommittedConfirms ==
    ASSUME Several, NEW N, NEW D, NEW K, Law(N, D, K), NEW log, NEW c \in Nat, NEW T \in Nat,
           Safe(N, K, log, c, T), NEW b, LeaderLog(N, K, b, T)
    PROVE  Confirms(N, K, log, c, T)
<1>1. CASE c = 0
  BY <1>1 DEF Confirms
<1>2. CASE c # 0
  <2>1. PICK a : LeaderLog(N, K, a, T) /\ Agree(log, a, c)
    <3>1. T <= T
      OBVIOUS
    <3> QED BY <1>2, <3>1, SafeInLeader
  <2>2. ASSUME a[c].term = T PROVE \E p \in Server : Elected(N, p, T) /\ ClaimOf(N, p, T, c)
    <3>1. PICK o : ValidIn(N, K, o) /\ Agree(log, o, c) /\ Chosen(N, o) /\ TermAt(o, Len(o)) <= T
      BY <1>2 DEF Safe
    <3>2. Len(o) \in Nat /\ c \in 1..Len(o) /\ Len(o) \in 1..Len(o) /\ c \in 1..c
      <4>1. Len(o) \in Nat /\ c <= Len(o)
        BY <3>1 DEF ValidIn, Agree
      <4> QED BY <1>2, <4>1
    <3>3. o[c].term = T
      BY <2>1, <2>2, <3>1, <3>2 DEF Agree
    <3>4. TermAt(o, Len(o)) = o[Len(o)].term
      BY <3>2 DEF TermAt
    <3>5. o[c].term <= o[Len(o)].term /\ o[Len(o)].term \in Nat
      BY <3>1, <3>2, TermsGrow
    <3>6. TermAt(o, Len(o)) = T
      BY <3>1, <3>3, <3>4, <3>5
    <3>7. PICK p \in Server : Elected(N, p, T) /\ ClaimOf(N, p, T, Len(o))
      BY <3>1, <3>6, ChosenClaimed
    <3>8. PICK k \in N : Claim(k) /\ k.from = p /\ k.term = T /\ End(k) >= Len(o)
      BY <3>7 DEF ClaimOf
    <3>9. End(k) \in Nat
      BY EndType DEF Law, World
    <3>10. End(k) >= c
      BY <3>2, <3>8, <3>9
    <3>11. ClaimOf(N, p, T, c)
      BY <3>8, <3>10 DEF ClaimOf
    <3> QED BY <3>7, <3>11
  <2> QED BY <2>1, <2>2 DEF Confirms
<1> QED BY <1>1, <1>2

\* A follower changes its log, commits and answers.
LEMMA FollowerSolid ==
    ASSUME NEW i \in Server, NEW r, NEW s, NEW d, NEW N, NEW D, NEW K, Solid(i, r, d, N, D, K), r.state # "Leader",
           Fit(i, s, d, N, K), s.Term = r.Term, s.state = r.state, s.lead = r.lead, ~s.panicked,
           \A m \in N \cup r.msgs : Claim(m) /\ m.from = i => Backs(N, D, K, m, s.log, s.Term),
           Safe(N, K, s.log, s.committed, s.Term), TermAt(s.log, Len(s.log)) <= s.Term,
           NEW n \in Message, s.msgs = r.msgs \cup {n},
           n.type = "MsgAppResp", n.from = i, n.to # i, n.term = s.Term,
           n.reject \/ Confirms(N, K, s.log, n.index, s.Term)
    PROVE  Solid(i, s, d, N, D, K)
<1>0. /\ Good(i, r, d, N) /\ Law(N, D, K) /\ Sound(i, r, d, N, D, K) /\ RoleInv(i, r, N) /\ StructOK(s)
      /\ r.Term \in Nat
  BY SolidFields DEF Fit, Good
<1>1. RoleInv(i, s, N)
  <2>1. s.lead # None => Elected(N, s.lead, s.Term) /\ s.lead # i
    BY <1>0 DEF RoleInv
  <2> QED BY <2>1, RoleIf
<1>2. MaySend(i, s, d, N, D, K, n)
  <2>1. ~Grants(n) /\ n.type # "MsgVote"
    BY DEF Grants
  <2>2. CASE ~Claim(n)
    <3>1. MsgOK(N, K, n)
      BY <2>2 DEF MsgOK
    <3> QED BY <2>1, <2>2, <3>1 DEF MaySend
  <2>3. CASE Claim(n)
    <3>1. ~n.reject /\ n.index > 0 /\ n.index \in Nat /\ End(n) = n.index
      BY <2>3 DEF Claim, End, Message
    <3>2. PICK a : /\ LeaderLog(N, K, a, n.term) /\ Agree(s.log, a, n.index)
                   /\ a[n.index].term = n.term =>
                         \E c \in Server : Elected(N, c, n.term) /\ ClaimOf(N, c, n.term, n.index)
      BY <3>1 DEF Confirms
    <3>3. n.index <= Len(a)
      BY <3>2 DEF Agree
    <3>4. AckOK(N, K, n)
      BY <3>2, <3>3 DEF AckOK
    <3>5. Backs(N, D, K, n, s.log, s.Term)
      BY <3>1, <3>2, <3>3 DEF Backs
    <3>6. MsgOK(N, K, n)
      BY <3>4 DEF MsgOK
    <3> QED BY <2>1, <3>5, <3>6 DEF MaySend
  <2> QED BY <2>2, <2>3
<1>3. s.Term >= r.Term
  BY <1>0
<1>4. \A m \in s.msgs : m \in r.msgs \/ MaySend(i, s, d, N, D, K, m)
  BY <1>2
<1>5. Sound(i, s, d, N, D, K)
  BY <1>0, <1>1, <1>3, <1>4, SoundIf
<1> QED BY <1>0, <1>5 DEF Solid

\* A message that matches the log agrees with it up to its index: a log term of 0 behind index 0
\* would match any index beyond the log (log.go:265-271).
LEMMA PrevAgrees ==
    ASSUME Several, NEW i \in Server, NEW r, NEW d, NEW N, NEW D, NEW K, Solid(i, r, d, N, D, K),
           NEW a, LeaderLog(N, K, a, r.Term), NEW x \in Nat, x <= Len(a), x >= r.committed,
           MatchTerm(r, x, TermAt(a, x))
    PROVE  Agree(r.log, a, x)
<1>0. /\ StructOK(r) /\ Law(N, D, K) /\ World(N, K) /\ ValidIn(N, K, r.log) /\ ValidIn(N, K, a)
      /\ Len(r.log) \in Nat /\ Len(a) \in Nat /\ r.committed \in Nat
  BY SolidFields, OwnLogValid DEF LeaderLog, ValidIn
<1>1. CASE x = 0
  BY <1>0, <1>1 DEF Agree
<1>2. CASE x # 0
  <2>1. x \in 1..Len(a) /\ x >= 1
    BY <1>0, <1>2
  <2>2. a[x].term \in Nat /\ a[x].term > 0 /\ TermAt(a, x) = a[x].term
    BY <1>0, <1>2, <2>1, TermsGrow DEF TermAt
  <2>3. x <= Len(r.log)
    <3>1. Term(r, x) # 0
      BY <2>2 DEF MatchTerm
    <3> QED BY <1>0, <3>1 DEF Term, LastIndex
  <2>4. r.log[x].term = a[x].term
    <3>1. r.offset \in Nat /\ r.offset <= r.committed
      BY <1>0, StructFields DEF StructOK
    <3>2. x >= r.offset
      BY <1>0, <3>1
    <3>3. Term(r, x) = TermAt(r.log, x)
      BY <1>0, <2>3, <3>2, TermIsTermAt
    <3> QED BY <1>2, <2>2, <3>3 DEF MatchTerm, TermAt
  <2>5. \A y \in 1..x : r.log[y] = a[y]
    BY <1>0, <2>1, <2>3, <2>4, LogsAgree
  <2> QED BY <2>3, <2>5 DEF Agree
<1> QED BY <1>1, <1>2

\* maybeAppend of what a leader sent never panics, and makes the log agree with the leader's up to the
\* last entry; what is committed is kept, and so is every claim (log.go:88-125).
LEMMA MergeOutcome ==
    ASSUME Several, NEW i \in Server, NEW r, NEW d, NEW N, NEW D, NEW K, Solid(i, r, d, N, D, K),
           NEW a, LeaderLog(N, K, a, r.Term), NEW prev \in Nat, prev >= r.committed, Agree(r.log, a, prev),
           NEW ents \in Seq(Entry), NEW last \in Nat, last = prev + Len(ents), last <= Len(a),
           \A k \in 1..Len(ents) : ents[k] = a[prev + k],
           NEW t, Merges(r, t, prev, ents)
    PROVE  /\ t.Term = r.Term /\ t.state = r.state /\ t.lead = r.lead /\ t.panicked = r.panicked
           /\ t.msgs = r.msgs /\ t.committed = r.committed
           /\ Agree(t.log, a, last)
           /\ Safe(N, K, t.log, t.committed, t.Term) /\ TermAt(t.log, Len(t.log)) <= t.Term
           /\ \A m \in N \cup r.msgs : Claim(m) /\ m.from = i => Backs(N, D, K, m, t.log, t.Term)
<1>0. /\ StructOK(r) /\ r \in RaftStruct /\ Law(N, D, K) /\ World(N, K) /\ ValidIn(N, K, r.log) /\ ValidIn(N, K, a)
      /\ Len(r.log) \in Nat /\ Len(a) \in Nat /\ r.committed \in Nat /\ r.Term \in Nat /\ Len(ents) \in Nat
      /\ r.committed <= Len(r.log) /\ N \subseteq Message /\ r.msgs \subseteq Message /\ r.log \in Seq(Entry)
      /\ Safe(N, K, r.log, r.committed, r.Term) /\ TermAt(r.log, Len(r.log)) <= r.Term
      /\ \A m \in N \cup r.msgs : Claim(m) /\ m.from = i => Backs(N, D, K, m, r.log, r.Term)
  <2>1. Sound(i, r, d, N, D, K)
    BY SolidFields
  <2> QED BY <2>1, SolidFields, OwnLogValid, StructFields DEF LeaderLog, ValidIn, StructOK, Sound, SafeInv, ClaimInv
<1>1. \A x \in 1..Len(a) : a[x].term \in Nat /\ a[x].term > 0 /\ a[x].term <= r.Term
  <2>1. Len(a) \in 1..Len(a) /\ a[Len(a)].term = r.Term
    BY <1>0 DEF LeaderLog
  <2> QED BY <1>0, <2>1, TermsGrow
<1>2. \A k \in (prev + 1)..last : k \in 1..Len(a) /\ k - prev \in 1..Len(ents) /\ ents[k - prev] = a[k]
  <2> SUFFICES ASSUME NEW k \in (prev + 1)..last
               PROVE  k \in 1..Len(a) /\ k - prev \in 1..Len(ents) /\ ents[k - prev] = a[k]
    OBVIOUS
  <2>1. k \in 1..Len(a) /\ k - prev \in 1..Len(ents) /\ prev + (k - prev) = k
    BY <1>0
  <2> QED BY <2>1
<1>3. \A k \in (prev + 1)..last : MatchTerm(r, k, ents[k - prev].term) => k <= Len(r.log) /\ r.log[k].term = a[k].term
  <2> SUFFICES ASSUME NEW k \in (prev + 1)..last, MatchTerm(r, k, ents[k - prev].term)
               PROVE  k <= Len(r.log) /\ r.log[k].term = a[k].term
    OBVIOUS
  <2>1. Term(r, k) = a[k].term /\ a[k].term # 0 /\ k \in Nat
    BY <1>1, <1>2 DEF MatchTerm
  <2> QED BY <1>0, <2>1 DEF Term, LastIndex
<1>4. CASE t = r /\ MatchesAll(r, prev, ents)
  <2>1. Agree(r.log, a, last)
    <3>1. CASE last = prev
      BY <3>1
    <3>2. CASE last # prev
      <4>1. last \in (prev + 1)..last /\ last - prev \in 1..Len(ents) /\ last >= 1 /\ prev + (last - prev) = last
        BY <1>0, <3>2
      <4>2. MatchTerm(r, last, ents[last - prev].term)
        BY <1>4, <4>1 DEF MatchesAll
      <4>3. last <= Len(r.log) /\ r.log[last].term = a[last].term
        BY <1>3, <4>1, <4>2
      <4>4. \A y \in 1..last : r.log[y] = a[y]
        BY <1>0, <4>1, <4>3, LogsAgree
      <4> QED BY <4>3, <4>4 DEF Agree
    <3> QED BY <3>1, <3>2
  <2> QED BY <1>0, <1>4, <2>1
<1>5. ASSUME NEW x, x <= r.committed \/ x > LastIndex(r) + 1, Conflicts(r, prev, ents, x)
      PROVE  FALSE
  <2>1. x \in (prev + 1)..last /\ x \in Nat
    BY <1>5 DEF Conflicts
  <2>2. x > Len(r.log) + 1
    BY <1>0, <1>5, <2>1 DEF LastIndex
  <2>3. prev <= Len(r.log)
    BY DEF Agree
  <2>4. x - 1 \in (prev + 1)..last /\ x - prev - 1 \in 1..(x - prev - 1) /\ prev + (x - prev - 1) = x - 1
        /\ (x - 1) - prev = x - prev - 1
    BY <1>0, <2>1, <2>2, <2>3
  <2>5. MatchTerm(r, x - 1, ents[x - prev - 1].term)
    <3>1. \A k \in 1..(x - prev - 1) : MatchTerm(r, prev + k, ents[k].term)
      BY <1>5 DEF Conflicts
    <3> QED BY <2>4, <3>1
  <2>6. x - 1 <= Len(r.log)
    BY <1>3, <2>4, <2>5
  <2> QED BY <1>0, <2>1, <2>2, <2>6
<1>6. CASE t = [r EXCEPT !.log = t.log] /\ \E x : x > r.committed /\ Splices(r.log, t.log, prev, ents, x)
  <2>1. PICK x : x > r.committed /\ Splices(r.log, t.log, prev, ents, x)
    BY <1>6
  <2>2. /\ t.Term = r.Term /\ t.state = r.state /\ t.lead = r.lead /\ t.panicked = r.panicked
        /\ t.msgs = r.msgs /\ t.committed = r.committed
    <3> DEFINE log == t.log
    <3>1. t = [r EXCEPT !.log = log]
      BY <1>6
    <3> HIDE DEF log
    <3> QED BY <1>0, <3>1 DEF RaftStruct
  <2>3. x \in (prev + 1)..last /\ x <= Len(r.log) + 1 /\ t.log \in Seq(Entry) /\ Len(t.log) = last /\ x \in 1..last
        /\ x \in Nat /\ x - 1 \in Nat
    <3>1. x \in (prev + 1)..last /\ x <= Len(r.log) + 1 /\ t.log \in Seq(Entry) /\ Len(t.log) = last
      BY <2>1 DEF Splices
    <3> QED BY <1>0, <3>1
  <2>4. \A k \in 1..(x - 1) : r.log[k] = a[k]
    <3>1. CASE x = prev + 1
      BY <3>1 DEF Agree
    <3>2. CASE x # prev + 1
      <4> DEFINE z == x - 1
      <4>1. z \in (prev + 1)..(x - 1) /\ z \in (prev + 1)..last /\ z >= 1 /\ z <= Len(r.log) /\ z <= Len(a) /\ z \in Nat
        BY <1>0, <2>3, <3>2
      <4>2. r.log[z].term = a[z].term
        <5>1. r.log[z].term = ents[z - prev].term
          BY <2>1, <4>1 DEF Splices
        <5> QED BY <1>2, <4>1, <5>1
      <4> HIDE DEF z
      <4>3. \A y \in 1..z : r.log[y] = a[y]
        <5>1. z >= 1 /\ z <= Len(r.log) /\ z <= Len(a) /\ z \in Nat
          BY <4>1
        <5>2. World(N, K) /\ ValidIn(N, K, r.log) /\ ValidIn(N, K, a)
          BY <1>0
        <5> QED BY <4>2, <5>1, <5>2, LogsAgree
      <4> QED BY <4>3 DEF z
    <3> QED BY <3>1, <3>2
  <2>5. Agree(t.log, a, last)
    <3>1. \A k \in 1..(x - 1) : t.log[k] = r.log[k]
      BY <2>1 DEF Splices
    <3>2. \A k \in x..last : t.log[k] = ents[k - prev]
      BY <2>1 DEF Splices
    <3>3. ASSUME NEW k \in 1..last PROVE t.log[k] = a[k]
      <4>1. CASE k < x
        <5>1. k \in 1..(x - 1)
          BY <2>3, <4>1
        <5> QED BY <2>4, <3>1, <5>1
      <4>2. CASE ~(k < x)
        <5>1. k \in x..last /\ k \in (prev + 1)..last
          BY <2>3, <4>2
        <5> QED BY <1>2, <3>2, <5>1
      <4> QED BY <4>1, <4>2
    <3> QED BY <1>0, <2>3, <3>3 DEF Agree
  <2>6. Safe(N, K, t.log, t.committed, t.Term)
    <3>1. r.committed <= Len(t.log)
      BY <1>0, <2>1, <2>3
    <3>2. \A k \in 1..r.committed : r.log[k] = t.log[k]
      <4>1. \A k \in 1..(x - 1) : t.log[k] = r.log[k]
        BY <2>1 DEF Splices
      <4>2. \A k \in 1..r.committed : k \in 1..(x - 1)
        BY <1>0, <2>1, <2>3
      <4> QED BY <4>1, <4>2
    <3>3. Agree(r.log, t.log, r.committed) /\ r.committed <= r.committed /\ r.Term <= r.Term
      BY <1>0, <3>1, <3>2 DEF Agree
    <3> QED BY <1>0, <2>2, <3>3, SafeOther
  <2>7. TermAt(t.log, Len(t.log)) <= t.Term
    <3>1. last \in 1..Len(a) /\ last \in 1..last /\ last # 0
      BY <1>0, <2>3
    <3>2. TermAt(t.log, Len(t.log)) = a[last].term
      BY <2>3, <2>5, <3>1 DEF TermAt, Agree
    <3> QED BY <1>1, <2>2, <3>1, <3>2
  <2>8. ASSUME NEW m \in N \cup r.msgs, Claim(m), m.from = i PROVE Backs(N, D, K, m, t.log, t.Term)
    <3>1. x <= Len(r.log) => r.log[x].term # a[x].term
      <4>1. x <= Len(r.log) => r.log[x].term # ents[x - prev].term
        BY <2>1 DEF Splices
      <4> QED BY <1>2, <2>3, <4>1
    <3>2. x \in 1..Len(t.log) /\ Agree(t.log, a, Len(t.log)) /\ m \in Message /\ Backs(N, D, K, m, r.log, r.Term)
      BY <1>0, <2>3, <2>5, <2>8
    <3> QED BY <1>0, <2>2, <2>3, <3>1, <3>2, BacksReplace
  <2> QED BY <2>2, <2>5, <2>6, <2>7, <2>8
<1> QED BY <1>4, <1>5, <1>6 DEF Merges

\* An answer to the leader.
LEMMA AppRespFields ==
    ASSUME NEW i \in Server, NEW r, r.Term \in Nat, NEW m \in Message, NEW x \in Nat
    PROVE  LET n == AppResp(i, r, m, x)
           IN  /\ n \in Message /\ n.type = "MsgAppResp" /\ n.from = i /\ n.to = m.from /\ n.term = r.Term
               /\ n.index = x
<1> DEFINE o == Msg("MsgAppResp", i, m.from, r.Term)
           n == [o EXCEPT !.index = x]
<1>1. m.from \in Server /\ "MsgAppResp" \in MessageTypes
  BY DEF Message, MessageTypes
<1>2. IsMsg(o, "MsgAppResp", i, m.from, r.Term)
  BY <1>1, MsgType
<1>3. AppResp(i, r, m, x) = n
  BY DEF AppResp
<1> HIDE DEF o
<1>4. n \in Message /\ n.type = "MsgAppResp" /\ n.from = i /\ n.to = m.from /\ n.term = r.Term /\ n.index = x
  BY <1>2 DEF IsMsg, Message
<1> QED BY <1>3, <1>4

\* commitTo within the log (log.go:233-241).
LEMMA CommitToFields ==
    ASSUME NEW r, StructOK(r), NEW c \in Nat, c <= Len(r.log)
    PROVE  LET s == CommitTo(r, c)
           IN  /\ StructOK(s) /\ s.state = r.state /\ s.Term = r.Term /\ s.log = r.log /\ s.msgs = r.msgs
               /\ s.lead = r.lead /\ s.panicked = r.panicked /\ s.committed \in {r.committed, c}
<1> DEFINE s == CommitTo(r, c)
<1> SUFFICES /\ StructOK(s) /\ s.state = r.state /\ s.Term = r.Term /\ s.log = r.log /\ s.msgs = r.msgs
             /\ s.lead = r.lead /\ s.panicked = r.panicked /\ s.committed \in {r.committed, c}
  OBVIOUS
<1>1. r \in RaftStruct /\ r.committed \in Nat /\ Len(r.log) \in Nat
  BY StructFields DEF StructOK, LastIndex
<1>2. StructOK(s)
  <2> DEFINE i == None
  <2> QED BY CommitToQuiet DEF Quiet, Grows
<1>3. s = r \/ s = [r EXCEPT !.committed = c]
  BY <1>1 DEF CommitTo, LastIndex
<1> HIDE DEF s
<1> QED BY <1>1, <1>2, <1>3 DEF RaftStruct

\* The answer is sent.
LEMMA AnswerFields ==
    ASSUME NEW r, StructOK(r), NEW n
    PROVE  LET s == Send(r, n)
           IN  /\ s.state = r.state /\ s.Term = r.Term /\ s.log = r.log /\ s.msgs = r.msgs \cup {n}
               /\ s.lead = r.lead /\ s.panicked = r.panicked /\ s.committed = r.committed
BY DEF Send, StructOK, RaftStruct

\* handleAppendEntries (raft.go:1471-1507)
LEMMA HandleAppendEntriesSolid ==
    ASSUME Several, NEW i \in Server, NEW r, NEW d, NEW N, NEW D, NEW K, Solid(i, r, d, N, D, K), r.state = "Follower",
           NEW m \in N, m.type = "MsgApp", m.to = i, m.term = r.Term
    PROVE  Solid(i, HandleAppendEntries(i, r, m), d, N, D, K)
<1> DEFINE s    == HandleAppendEntries(i, r, m)
           hint == FindConflictByTerm(r, Min2(m.index, LastIndex(r)), m.logTerm)
           ht   == Term(r, hint)
           prev == m.index
           ents == m.entries
           com  == m.commit
           last == prev + Len(ents)
           cc   == Min2(com, last)
           r1   == MaybeAppend(r, prev, ents, com)
           n1   == AppResp(i, r, m, r.committed)
           n2   == AppResp(i, r, m, last)
           n3   == [AppResp(i, r, m, prev) EXCEPT !.reject = TRUE, !.rejectHint = hint, !.logTerm = ht]
<1>0. /\ StructOK(r) /\ Law(N, D, K) /\ World(N, K) /\ m \in Message /\ r.Term \in Nat /\ r.committed \in Nat
      /\ N \subseteq Message /\ Len(r.log) \in Nat /\ ~r.panicked /\ Fit(i, r, d, N, K) /\ r.committed <= Len(r.log)
      /\ Safe(N, K, r.log, r.committed, r.Term) /\ TermAt(r.log, Len(r.log)) <= r.Term
      /\ \A k \in N \cup r.msgs : Claim(k) /\ k.from = i => Backs(N, D, K, k, r.log, r.Term)
  BY SolidFields DEF Sound, SafeInv, ClaimInv
<1>1. /\ prev \in Nat /\ m.logTerm \in Nat /\ ents \in Seq(Entry) /\ Len(ents) \in Nat /\ com \in Nat /\ last \in Nat
      /\ m.from \in Server
  BY <1>0 DEF Message
<1>2. m.from # i /\ AppOK(N, K, m) /\ Elected(N, m.from, r.Term)
  BY <1>0, SpeakerElected DEF Law, MsgOK, FromLeader
<1>3. PICK a : /\ LeaderLog(N, K, a, r.Term) /\ last <= Len(a) /\ m.logTerm = TermAt(a, prev)
               /\ \A k \in 1..Len(ents) : ents[k] = a[prev + k]
               /\ com <= Len(a) /\ Safe(N, K, a, com, r.Term)
  BY <1>2 DEF AppOK, End
<1>4. Fit(i, s, d, N, K)
  BY <1>0, HandleAppendEntriesFit
<1>5. \/ s = Send(r, n1) \/ s = Send(r, n3)
      \/ s = Send(r1, n2) /\ ~(prev < r.committed) /\ MatchTerm(r, prev, m.logTerm)
  BY DEF HandleAppendEntries, AckIndex
<1>6. hint \in Nat /\ ht \in Nat
  <2>1. Min2(prev, LastIndex(r)) \in Nat
    BY <1>0, <1>1, MinMaxType DEF LastIndex
  <2>2. hint \in Nat
    BY <1>0, <1>1, <2>1, FindConflictByTermType
  <2> HIDE DEF hint
  <2>3. hint \in Int
    BY <2>2
  <2> QED BY <1>0, <2>2, <2>3, TermType
<1>7. /\ n1 \in Message /\ n1.type = "MsgAppResp" /\ n1.from = i /\ n1.to # i /\ n1.term = r.Term /\ n1.index = r.committed
      /\ n2 \in Message /\ n2.type = "MsgAppResp" /\ n2.from = i /\ n2.to # i /\ n2.term = r.Term /\ n2.index = last
      /\ n3 \in Message /\ n3.type = "MsgAppResp" /\ n3.from = i /\ n3.to # i /\ n3.term = r.Term /\ n3.reject
  <2> DEFINE c == r.committed
  <2> HIDE DEF prev, ents, last, hint, ht, c
  <2>0. c \in Nat /\ m \in Message /\ r.Term \in Nat /\ prev \in Nat /\ last \in Nat
    BY <1>0, <1>1 DEF c
  <2>1. LET n == AppResp(i, r, m, c)
        IN  n \in Message /\ n.type = "MsgAppResp" /\ n.from = i /\ n.to = m.from /\ n.term = r.Term /\ n.index = c
    BY <2>0, AppRespFields
  <2>2. n2 \in Message /\ n2.type = "MsgAppResp" /\ n2.from = i /\ n2.to = m.from /\ n2.term = r.Term /\ n2.index = last
    BY <2>0, AppRespFields
  <2>3. n3 \in Message /\ n3.type = "MsgAppResp" /\ n3.from = i /\ n3.to = m.from /\ n3.term = r.Term /\ n3.reject
    <3> DEFINE o == AppResp(i, r, m, prev)
               n == [o EXCEPT !.reject = TRUE, !.rejectHint = hint, !.logTerm = ht]
    <3>1. o \in Message /\ o.type = "MsgAppResp" /\ o.from = i /\ o.to = m.from /\ o.term = r.Term
      BY <2>0, AppRespFields
    <3> HIDE DEF o
    <3>2. n \in Message /\ n.type = "MsgAppResp" /\ n.from = i /\ n.to = m.from /\ n.term = r.Term /\ n.reject
      BY <1>6, <3>1 DEF Message
    <3> QED BY <3>2 DEF o
  <2>4. n1 \in Message /\ n1.type = "MsgAppResp" /\ n1.from = i /\ n1.to = m.from /\ n1.term = r.Term /\ n1.index = r.committed
    BY <2>1 DEF c
  <2> HIDE DEF n1, n2, n3
  <2> QED BY <1>2, <2>2, <2>3, <2>4
<1> SUFFICES Solid(i, s, d, N, D, K)
  OBVIOUS
<1> HIDE DEF s, n1, n2, n3, hint, ht
<1>8. CASE s = Send(r, n1) \/ s = Send(r, n3)
  <2>1. PICK n \in {n1, n3} : s = Send(r, n)
    BY <1>8
  <2>2. /\ s.state = r.state /\ s.Term = r.Term /\ s.log = r.log /\ s.msgs = r.msgs \cup {n}
        /\ s.lead = r.lead /\ s.panicked = r.panicked /\ s.committed = r.committed
    BY <1>0, <2>1, AnswerFields
  <2>3. n.reject \/ Confirms(N, K, s.log, n.index, s.Term)
    <3>1. Confirms(N, K, r.log, r.committed, r.Term)
      BY <1>0, <1>3, CommittedConfirms
    <3> QED BY <1>7, <2>2, <3>1
  <2>4. n \in Message /\ n.type = "MsgAppResp" /\ n.from = i /\ n.to # i /\ n.term = s.Term
    BY <1>7, <2>2
  <2>5. /\ \A k \in N \cup r.msgs : Claim(k) /\ k.from = i => Backs(N, D, K, k, s.log, s.Term)
        /\ Safe(N, K, s.log, s.committed, s.Term) /\ TermAt(s.log, Len(s.log)) <= s.Term
        /\ ~s.panicked /\ r.state # "Leader"
    BY <1>0, <2>2
  <2> QED BY <1>4, <2>2, <2>3, <2>4, <2>5, FollowerSolid
<1>9. CASE s = Send(r1, n2) /\ ~(prev < r.committed) /\ MatchTerm(r, prev, m.logTerm)
  <2>1. prev >= r.committed /\ prev <= Len(a) /\ Len(a) \in Nat
    <3>1. Len(a) \in Nat
      BY <1>3 DEF LeaderLog, ValidIn
    <3> QED BY <1>0, <1>1, <1>3, <1>9, <3>1
  <2>2. Agree(r.log, a, prev)
    BY <1>1, <1>3, <1>9, <2>1, PrevAgrees
  <2>3. prev >= r.offset
    <3>1. r.offset \in Nat /\ r.offset <= r.committed
      BY <1>0, StructFields DEF StructOK
    <3> QED BY <1>0, <1>1, <2>1, <3>1
  <2>4. PICK t : r1 = CommitTo(t, cc) /\ StructOK(t) /\ Merges(r, t, prev, ents)
    <3> HIDE DEF prev, ents, com
    <3> QED BY <1>0, <1>1, <2>3, MaybeAppendMerges
  <2>5. /\ t.Term = r.Term /\ t.state = r.state /\ t.lead = r.lead /\ t.panicked = r.panicked
        /\ t.msgs = r.msgs /\ t.committed = r.committed
        /\ Agree(t.log, a, last)
        /\ Safe(N, K, t.log, t.committed, t.Term) /\ TermAt(t.log, Len(t.log)) <= t.Term
        /\ \A k \in N \cup r.msgs : Claim(k) /\ k.from = i => Backs(N, D, K, k, t.log, t.Term)
    <3> DEFINE l == last
    <3>1. l \in Nat /\ l = prev + Len(ents) /\ l <= Len(a)
      BY <1>1, <1>3
    <3> HIDE DEF prev, ents, l
    <3>2. Agree(t.log, a, l) /\ t.Term = r.Term /\ t.state = r.state /\ t.lead = r.lead /\ t.panicked = r.panicked
          /\ t.msgs = r.msgs /\ t.committed = r.committed
          /\ Safe(N, K, t.log, t.committed, t.Term) /\ TermAt(t.log, Len(t.log)) <= t.Term
          /\ \A k \in N \cup r.msgs : Claim(k) /\ k.from = i => Backs(N, D, K, k, t.log, t.Term)
      BY <1>1, <1>3, <2>1, <2>2, <2>4, <3>1, MergeOutcome
    <3> QED BY <3>2 DEF l
  <2>6. cc \in Nat /\ cc <= com /\ cc <= last
    BY <1>1, MinMaxType
  <2> HIDE DEF last, com, cc, r1
  <2>7. cc <= Len(t.log) /\ last <= Len(t.log)
    <3>1. last <= Len(t.log) /\ Len(t.log) \in Nat
      BY <2>4, <2>5, StructFields DEF Agree
    <3> QED BY <1>1, <2>6, <3>1
  <2>8. Safe(N, K, t.log, cc, r.Term)
    BY <1>0, <1>1, <1>3, <2>5, <2>6, SafeFollows
  <2>9. /\ StructOK(r1) /\ r1.state = t.state /\ r1.Term = t.Term /\ r1.log = t.log /\ r1.msgs = t.msgs
        /\ r1.lead = t.lead /\ r1.panicked = t.panicked /\ r1.committed \in {t.committed, cc}
    BY <2>4, <2>6, <2>7, CommitToFields
  <2>10. /\ s.state = r1.state /\ s.Term = r1.Term /\ s.log = r1.log /\ s.msgs = r1.msgs \cup {n2}
         /\ s.lead = r1.lead /\ s.panicked = r1.panicked /\ s.committed = r1.committed
    BY <1>9, <2>9, AnswerFields
  <2>11. Safe(N, K, s.log, s.committed, s.Term)
    BY <2>5, <2>8, <2>9, <2>10
  <2>12. Confirms(N, K, s.log, n2.index, s.Term)
    <3>1. ClaimOf(N, m.from, r.Term, last)
      <4>1. Claim(m) /\ End(m) = last
        BY DEF Claim, End, last
      <4>2. End(m) >= last
        BY <1>1, <4>1
      <4> QED BY <4>1, <4>2 DEF ClaimOf
    <3>2. Agree(s.log, a, last)
      BY <2>5, <2>9, <2>10
    <3>3. s.Term = r.Term
      BY <2>5, <2>9, <2>10
    <3> QED BY <1>1, <1>2, <1>3, <1>7, <3>1, <3>2, <3>3 DEF Confirms
  <2>13. s.Term = r.Term /\ s.state = r.state /\ s.lead = r.lead /\ ~s.panicked /\ s.msgs = r.msgs \cup {n2} /\ s.log = t.log
    BY <1>0, <2>5, <2>9, <2>10
  <2>14. /\ \A k \in N \cup r.msgs : Claim(k) /\ k.from = i => Backs(N, D, K, k, s.log, s.Term)
         /\ TermAt(s.log, Len(s.log)) <= s.Term /\ r.state # "Leader"
    BY <2>5, <2>13
  <2>15. n2 \in Message /\ n2.type = "MsgAppResp" /\ n2.from = i /\ n2.to # i /\ n2.term = s.Term
    BY <1>7, <2>13
  <2> QED BY <1>4, <2>11, <2>12, <2>13, <2>14, <2>15, FollowerSolid
<1> QED BY <1>5, <1>8, <1>9

\* A snapshot replaces a log that conflicts with it (raft.go:1525-1584): it is a part of the leader's
\* log, up to the conflict at least.
LEMMA RestoreOutcome ==
    ASSUME Several, NEW i \in Server, NEW r, NEW d, NEW N, NEW D, NEW K, Solid(i, r, d, N, D, K),
           NEW a, LeaderLog(N, K, a, r.Term), NEW x \in 1..Len(a), x > r.committed,
           ~MatchTerm(r, x, TermAt(a, x)), NEW log \in Seq(Entry), Len(log) = x, \A k \in 1..x : log[k] = a[k]
    PROVE  /\ Agree(log, a, x) /\ TermAt(log, Len(log)) <= r.Term
           /\ \A m \in N \cup r.msgs : Claim(m) /\ m.from = i => Backs(N, D, K, m, log, r.Term)
<1>0. /\ StructOK(r) /\ Law(N, D, K) /\ ValidIn(N, K, r.log) /\ ValidIn(N, K, a)
      /\ Len(r.log) \in Nat /\ Len(a) \in Nat /\ r.committed \in Nat /\ r.Term \in Nat
      /\ N \subseteq Message /\ r.msgs \subseteq Message /\ x \in Nat /\ x # 0 /\ x <= Len(a) /\ x \in 1..x
      /\ \A m \in N \cup r.msgs : Claim(m) /\ m.from = i => Backs(N, D, K, m, r.log, r.Term)
  <2>1. Sound(i, r, d, N, D, K) /\ Len(a) \in Nat
    BY SolidFields DEF LeaderLog, ValidIn
  <2> QED BY <2>1, SolidFields, OwnLogValid, StructFields DEF LeaderLog, Sound, ClaimInv
<1>1. Agree(log, a, x)
  BY <1>0 DEF Agree
<1>2. TermAt(log, Len(log)) <= r.Term
  <2>1. TermAt(log, Len(log)) = a[x].term
    BY <1>0 DEF TermAt
  <2>2. Len(a) \in 1..Len(a) /\ x \in 1..Len(a) /\ a[Len(a)].term = r.Term
    BY <1>0 DEF LeaderLog
  <2>3. a[x].term <= a[Len(a)].term
    BY <1>0, <2>2, TermsGrow
  <2> QED BY <2>1, <2>2, <2>3
<1>3. x <= Len(r.log) => r.log[x].term # a[x].term
  <2> SUFFICES ASSUME x <= Len(r.log) PROVE r.log[x].term # a[x].term
    OBVIOUS
  <2>1. r.offset \in Nat /\ r.offset <= r.committed
    BY <1>0, StructFields DEF StructOK
  <2>2. x >= r.offset
    BY <1>0, <2>1
  <2>3. Term(r, x) = TermAt(r.log, x)
    BY <1>0, <2>2, TermIsTermAt
  <2> QED BY <1>0, <2>3 DEF MatchTerm, TermAt
<1>4. ASSUME NEW m \in N \cup r.msgs, Claim(m), m.from = i PROVE Backs(N, D, K, m, log, r.Term)
  <2>1. x \in 1..Len(log) /\ Agree(log, a, Len(log)) /\ m \in Message /\ Backs(N, D, K, m, r.log, r.Term)
    BY <1>0, <1>1, <1>4
  <2> QED BY <1>0, <1>3, <2>1, BacksReplace
<1> QED BY <1>1, <1>2, <1>4

\* handleSnapshot and restore (raft.go:1514-1584)
LEMMA HandleSnapshotSolid ==
    ASSUME Several, NEW i \in Server, NEW r, NEW d, NEW N, NEW D, NEW K, Solid(i, r, d, N, D, K), r.state = "Follower",
           NEW m \in N, m.type = "MsgSnap", m.to = i, m.term = r.Term
    PROVE  Solid(i, HandleSnapshot(i, r, m), d, N, D, K)
<1> DEFINE s   == HandleSnapshot(i, r, m)
           x   == m.index
           log == m.entries
           r2  == [r EXCEPT !.log = log, !.offset = x, !.committed = x]
           r1  == IF x <= r.committed THEN r ELSE IF MatchTerm(r, x, m.logTerm) THEN CommitTo(r, x) ELSE r2
           n   == AppResp(i, r, m, r1.committed)
<1>0. /\ StructOK(r) /\ r \in RaftStruct /\ Law(N, D, K) /\ m \in Message /\ r.Term \in Nat /\ r.committed \in Nat
      /\ N \subseteq Message /\ Len(r.log) \in Nat /\ ~r.panicked /\ Fit(i, r, d, N, K) /\ r.committed <= Len(r.log)
      /\ Safe(N, K, r.log, r.committed, r.Term) /\ TermAt(r.log, Len(r.log)) <= r.Term
      /\ \A k \in N \cup r.msgs : Claim(k) /\ k.from = i => Backs(N, D, K, k, r.log, r.Term)
  BY SolidFields DEF Sound, SafeInv, ClaimInv, StructOK
<1>1. x \in Nat /\ m.logTerm \in Nat /\ log \in Seq(Entry) /\ m.from \in Server
  BY <1>0 DEF Message
<1>2. m.from # i /\ SnapOK(N, K, m) /\ Elected(N, m.from, r.Term)
  BY <1>0, SpeakerElected DEF Law, MsgOK, FromLeader
<1>3. PICK a : /\ LeaderLog(N, K, a, r.Term) /\ QuotesSnap(a, m) /\ Safe(N, K, a, x, r.Term)
  BY <1>2 DEF SnapOK
<1>4. /\ x = Len(log) /\ x \in 1..Len(a) /\ x <= Len(a) /\ m.logTerm = TermAt(a, x) /\ \A k \in 1..x : log[k] = a[k]
      /\ Len(a) \in Nat
  <2>1. Len(a) \in Nat
    BY <1>3 DEF LeaderLog, ValidIn
  <2> QED BY <1>1, <1>3, <2>1 DEF QuotesSnap
<1>5. Fit(i, s, d, N, K)
  <2>1. SnapshotComplete(m)
    BY <1>4 DEF SnapshotComplete
  <2> QED BY <1>0, <2>1, HandleSnapshotFit
<1>6. s = Send(r1, n)
  BY DEF HandleSnapshot
<1>7. Confirms(N, K, r.log, r.committed, r.Term)
  BY <1>0, <1>3, CommittedConfirms
<1>8. \A own : Agree(own, a, x) => Safe(N, K, own, x, r.Term) /\ Confirms(N, K, own, x, r.Term)
  <2> SUFFICES ASSUME NEW own, Agree(own, a, x)
               PROVE  Safe(N, K, own, x, r.Term) /\ Confirms(N, K, own, x, r.Term)
    OBVIOUS
  <2>1. x <= x
    BY <1>1
  <2>2. Claim(m) /\ End(m) = x
    BY DEF Claim, End
  <2>3. End(m) >= x
    BY <1>1, <2>2
  <2>4. ClaimOf(N, m.from, r.Term, x)
    BY <2>2, <2>3 DEF ClaimOf
  <2> HIDE DEF x
  <2>5. Safe(N, K, own, x, r.Term)
    BY <1>0, <1>1, <1>3, <2>1, SafeFollows
  <2>6. Confirms(N, K, own, x, r.Term)
    BY <1>1, <1>2, <1>3, <2>4 DEF Confirms
  <2> QED BY <2>5, <2>6
<1>9. /\ StructOK(r1) /\ r1.state = r.state /\ r1.Term = r.Term /\ r1.msgs = r.msgs /\ r1.lead = r.lead
      /\ r1.panicked = r.panicked /\ r1.committed \in Nat
      /\ Safe(N, K, r1.log, r1.committed, r.Term) /\ TermAt(r1.log, Len(r1.log)) <= r.Term
      /\ \A k \in N \cup r.msgs : Claim(k) /\ k.from = i => Backs(N, D, K, k, r1.log, r.Term)
      /\ Confirms(N, K, r1.log, r1.committed, r.Term)
  <2>1. CASE x <= r.committed
    <3>1. r1 = r
      BY <2>1
    <3> HIDE DEF r1
    <3> QED BY <1>0, <1>7, <3>1
  <2>2. CASE ~(x <= r.committed) /\ MatchTerm(r, x, m.logTerm)
    <3>1. r1 = CommitTo(r, x)
      BY <2>2
    <3>2. x >= r.committed /\ x > r.committed
      BY <1>0, <1>1, <2>2
    <3>3. Agree(r.log, a, x)
      BY <1>1, <1>3, <1>4, <2>2, <3>2, PrevAgrees
    <3>4. x <= Len(r.log)
      BY <3>3 DEF Agree
    <3>5. r1 = [r EXCEPT !.committed = x]
      BY <1>0, <1>1, <3>1, <3>2, <3>4 DEF CommitTo, LastIndex
    <3> HIDE DEF r1, x
    <3>6. /\ StructOK(r1) /\ r1.state = r.state /\ r1.Term = r.Term /\ r1.log = r.log /\ r1.msgs = r.msgs
          /\ r1.lead = r.lead /\ r1.panicked = r.panicked
      BY <1>0, <1>1, <3>1, <3>4, CommitToFields
    <3>7. r1.committed = x
      BY <1>0, <3>5 DEF RaftStruct
    <3> QED BY <1>0, <1>1, <1>8, <3>3, <3>6, <3>7
  <2>3. CASE ~(x <= r.committed) /\ ~MatchTerm(r, x, m.logTerm)
    <3>1. r1 = r2
      BY <2>3
    <3>2. x > r.committed
      BY <1>0, <1>1, <2>3
    <3>3. /\ Agree(log, a, x) /\ TermAt(log, Len(log)) <= r.Term
          /\ \A k \in N \cup r.msgs : Claim(k) /\ k.from = i => Backs(N, D, K, k, log, r.Term)
      BY <1>1, <1>3, <1>4, <2>3, <3>2, RestoreOutcome
    <3> HIDE DEF log, x
    <3>4. /\ r2 \in RaftStruct /\ r2.state = r.state /\ r2.Term = r.Term /\ r2.log = log /\ r2.msgs = r.msgs
          /\ r2.lead = r.lead /\ r2.panicked = r.panicked /\ r2.committed = x /\ r2.offset = x /\ r2.applied = r.applied
      BY <1>0, <1>1 DEF RaftStruct
    <3>5. StructOK(r2)
      <4>1. r.applied \in Nat /\ r.applied <= r.committed /\ \A k \in r.msgs : SnapshotComplete(k)
        BY <1>0, StructFields DEF StructOK
      <4>2. r.applied <= x /\ x <= x
        BY <1>0, <1>1, <3>2, <4>1
      <4> HIDE DEF r2
      <4> QED BY <1>4, <3>4, <4>1, <4>2 DEF StructOK
    <3> HIDE DEF r1, r2
    <3> QED BY <1>0, <1>1, <1>8, <3>1, <3>3, <3>4, <3>5
  <2> QED BY <2>1, <2>2, <2>3
<1>10. n \in Message /\ n.type = "MsgAppResp" /\ n.from = i /\ n.to = m.from /\ n.term = r.Term /\ n.index = r1.committed
  <2> DEFINE c == r1.committed
  <2>1. c \in Nat
    BY <1>9
  <2> HIDE DEF r1, c
  <2>2. LET o == AppResp(i, r, m, c)
        IN  o \in Message /\ o.type = "MsgAppResp" /\ o.from = i /\ o.to = m.from /\ o.term = r.Term /\ o.index = c
    BY <1>0, <2>1, AppRespFields
  <2> QED BY <2>2 DEF c
<1> SUFFICES Solid(i, s, d, N, D, K)
  OBVIOUS
<1> HIDE DEF s, n, r1
<1>11. /\ s.state = r1.state /\ s.Term = r1.Term /\ s.log = r1.log /\ s.msgs = r1.msgs \cup {n}
       /\ s.lead = r1.lead /\ s.panicked = r1.panicked /\ s.committed = r1.committed
  BY <1>6, <1>9, AnswerFields
<1>12. s.Term = r.Term /\ s.state = r.state /\ s.lead = r.lead /\ ~s.panicked /\ s.msgs = r.msgs \cup {n} /\ s.log = r1.log
  BY <1>0, <1>9, <1>11
<1>13. /\ \A k \in N \cup r.msgs : Claim(k) /\ k.from = i => Backs(N, D, K, k, s.log, s.Term)
       /\ Safe(N, K, s.log, s.committed, s.Term) /\ TermAt(s.log, Len(s.log)) <= s.Term /\ r.state # "Leader"
       /\ Confirms(N, K, s.log, n.index, s.Term) /\ n.to # i /\ n.term = s.Term
  BY <1>2, <1>9, <1>10, <1>11, <1>12
<1> QED BY <1>5, <1>10, <1>12, <1>13, FollowerSolid

\* A vote goes to a candidate whose log keeps the promises of the voter (raft.go:918-966).
LEMMA VoteKeepsClaims ==
    ASSUME Several, NEW i \in Server, NEW r, NEW d, NEW N, NEW D, NEW K, Solid(i, r, d, N, D, K),
           NEW m \in N, m.type = "MsgVote", IsUpToDate(r, m.index, m.logTerm),
           NEW g \in Message, Grants(g), g.to = m.from, g.term = m.term, g.term = r.Term,
           NEW k \in N \cup r.msgs, VotePair(i, g, k)
    PROVE  VoteOK(N, D, K, g, k)
<1>0. /\ StructOK(r) /\ Law(N, D, K) /\ N \subseteq Message /\ r.msgs \subseteq Message /\ r.Term \in Nat
      /\ Len(r.log) \in Nat /\ ValidIn(N, K, r.log) /\ Sound(i, r, d, N, D, K)
  BY SolidFields, OwnLogValid, StructFields
<1>1. k \in Message /\ k.term < r.Term /\ k.term \in Nat /\ Backs(N, D, K, k, r.log, r.Term)
  BY <1>0 DEF VotePair, Sound, ClaimInv, Message
<1>2. PICK a : LeaderLog(N, K, a, k.term) /\ End(k) <= Len(a) /\ Survives(N, D, k, a, r.log)
  <2>1. k.term # r.Term
    BY <1>0, <1>1
  <2> QED BY <1>1, <2>1 DEF Backs
<1>3. PICK c : AskedWith(N, K, c, m)
  BY <1>0 DEF Law, MsgOK
<1>4. \/ TermAt(c, Len(c)) > TermAt(r.log, Len(r.log))
      \/ TermAt(c, Len(c)) = TermAt(r.log, Len(r.log)) /\ Len(c) >= Len(r.log)
  <2>1. LastTerm(r) = TermAt(r.log, Len(r.log))
    <3>1. r.offset \in Nat /\ r.offset <= r.committed /\ r.committed \in Nat /\ r.committed <= Len(r.log)
      BY <1>0, StructFields DEF StructOK
    <3>2. Len(r.log) >= r.offset /\ Len(r.log) <= Len(r.log)
      BY <1>0, <3>1
    <3> QED BY <1>0, <3>2, TermIsTermAt DEF LastTerm, LastIndex
  <2> QED BY <1>3, <2>1 DEF IsUpToDate, LastIndex, AskedWith
<1>5. Survives(N, D, k, a, c)
  <2>1. ValidIn(N, K, c)
    BY <1>3 DEF AskedWith
  <2> QED BY <1>0, <1>1, <1>2, <1>4, <2>1, SurvivesVote
<1>6. Asks(m, Choice(g), g.term)
  BY DEF Asks, Choice
<1> QED BY <1>2, <1>3, <1>5, <1>6 DEF VoteOK

\* MsgVote and MsgPreVote (raft.go:918-966)
LEMMA HandleVoteSolid ==
    ASSUME Several, NEW i \in Server, NEW r, NEW d, NEW N, NEW D, NEW K, Solid(i, r, d, N, D, K),
           NEW m \in N, m.type \in {"MsgVote", "MsgPreVote"}, m.type = "MsgVote" => m.term = r.Term
    PROVE  Solid(i, HandleVote(i, r, m), d, N, D, K)
<1> DEFINE s    == HandleVote(i, r, m)
           type == RespType(m.type)
           resp == Msg(type, i, m.from, m.term)
           rej  == [resp EXCEPT !.term = r.Term, !.reject = TRUE]
           r1   == [r EXCEPT !.electionElapsed = 0, !.Vote = m.from]
<1>0. /\ StructOK(r) /\ r \in RaftStruct /\ Law(N, D, K) /\ m \in Message /\ r.Term \in Nat /\ RoleInv(i, r, N)
      /\ Sound(i, r, d, N, D, K) /\ Good(i, r, d, N) /\ Fit(i, r, d, N, K)
      /\ Safe(N, K, r.log, r.committed, r.Term) /\ TermAt(r.log, Len(r.log)) <= r.Term
      /\ \A k \in N \cup r.msgs : Claim(k) /\ k.from = i => Backs(N, D, K, k, r.log, r.Term)
  BY SolidFields DEF Sound, SafeInv, ClaimInv, StructOK
<1>1. m.from \in Server /\ m.term \in Nat /\ type \in MessageTypes /\ type \in {"MsgVoteResp", "MsgPreVoteResp"}
      /\ (type = "MsgVoteResp" => m.type = "MsgVote")
  BY <1>0 DEF Message, MessageTypes, RespType
<1>2. Fit(i, s, d, N, K)
  BY <1>0, HandleVoteFit
<1>3. resp \in Message /\ resp.type = type /\ resp.from = i /\ resp.to = m.from /\ resp.term = m.term
  <2> DEFINE from == m.from
             term == m.term
  <2> HIDE DEF type, from, term
  <2>1. IsMsg(Msg(type, i, from, term), type, i, from, term)
    BY <1>1, MsgType DEF from, term
  <2> QED BY <2>1 DEF IsMsg, from, term
<1>4. rej.type = type /\ rej.reject
  <2> HIDE DEF resp
  <2> QED BY <1>0, <1>3 DEF Message
<1>5. \/ IsUpToDate(r, m.index, m.logTerm) /\ s = Send(IF m.type = "MsgVote" THEN r1 ELSE r, resp)
      \/ s = Send(r, rej)
  BY DEF HandleVote
<1>6. /\ r1.state = r.state /\ r1.Term = r.Term /\ r1.log = r.log /\ r1.msgs = r.msgs
      /\ r1.lead = r.lead /\ r1.panicked = r.panicked /\ r1.committed = r.committed /\ r1.prs = r.prs /\ r1 \in RaftStruct
  BY <1>0, <1>1 DEF RaftStruct
<1> SUFFICES Solid(i, s, d, N, D, K)
  OBVIOUS
<1> HIDE DEF s, resp, rej, type, r1
<1>7. PICK n : /\ n = rej \/ (n = resp /\ IsUpToDate(r, m.index, m.logTerm))
               /\ s.state = r.state /\ s.Term = r.Term /\ s.log = r.log /\ s.msgs = r.msgs \cup {n}
               /\ s.lead = r.lead /\ s.panicked = r.panicked /\ s.committed = r.committed /\ s.prs = r.prs
  <2>1. \A n : /\ Send(r, n).state = r.state /\ Send(r, n).Term = r.Term /\ Send(r, n).log = r.log
               /\ Send(r, n).msgs = r.msgs \cup {n} /\ Send(r, n).lead = r.lead /\ Send(r, n).panicked = r.panicked
               /\ Send(r, n).committed = r.committed /\ Send(r, n).prs = r.prs
    BY <1>0 DEF Send, RaftStruct
  <2>2. \A n : /\ Send(r1, n).state = r.state /\ Send(r1, n).Term = r.Term /\ Send(r1, n).log = r.log
               /\ Send(r1, n).msgs = r.msgs \cup {n} /\ Send(r1, n).lead = r.lead /\ Send(r1, n).panicked = r.panicked
               /\ Send(r1, n).committed = r.committed /\ Send(r1, n).prs = r.prs
    BY <1>6 DEF Send, RaftStruct
  <2>3. CASE s = Send(r, rej)
    BY <2>1, <2>3
  <2>4. CASE IsUpToDate(r, m.index, m.logTerm) /\ s = Send(r1, resp)
    BY <2>2, <2>4
  <2>5. CASE IsUpToDate(r, m.index, m.logTerm) /\ s = Send(r, resp)
    BY <2>1, <2>5
  <2> QED BY <1>5, <2>3, <2>4, <2>5
<1>8. RoleInv(i, s, N)
  BY <1>0, <1>7 DEF RoleInv
<1>9. MaySend(i, s, d, N, D, K, n)
  <2>1. n.type \in {"MsgVoteResp", "MsgPreVoteResp"}
    BY <1>1, <1>3, <1>4, <1>7
  <2>2. ~Claim(n) /\ MsgOK(N, K, n) /\ n.type # "MsgVote"
    BY <2>1 DEF Claim, MsgOK
  <2>3. ASSUME Grants(n), NEW k \in N \cup s.msgs, VotePair(i, n, k) PROVE VoteOK(N, D, K, n, k)
    <3>1. n = resp /\ IsUpToDate(r, m.index, m.logTerm) /\ m.type = "MsgVote"
      BY <1>1, <1>3, <1>4, <1>7, <2>3 DEF Grants
    <3>2. n \in Message /\ n.to = m.from /\ n.term = m.term /\ n.term = r.Term
      BY <1>3, <3>1
    <3>3. k \in N \cup r.msgs
      BY <1>7, <2>2, <2>3 DEF VotePair
    <3> QED BY <2>3, <3>1, <3>2, <3>3, VoteKeepsClaims
  <2> QED BY <2>2, <2>3 DEF MaySend
<1>10. s.Term >= r.Term /\ StructOK(s)
  BY <1>0, <1>2, <1>7 DEF Fit, Good
<1>11. /\ \A k \in N \cup r.msgs : Claim(k) /\ k.from = i => Backs(N, D, K, k, s.log, s.Term)
       /\ Safe(N, K, s.log, s.committed, s.Term) /\ TermAt(s.log, Len(s.log)) <= s.Term
       /\ \A k \in s.msgs : k \in r.msgs \/ MaySend(i, s, d, N, D, K, k)
  BY <1>0, <1>7, <1>9
<1>12. Sound(i, s, d, N, D, K)
  BY <1>0, <1>8, <1>10, <1>11, SoundIf
<1> QED BY <1>0, <1>2, <1>12 DEF Solid

-----------------------------------------------------------------------------
(* A leader appends *)

\* The invariant for server i in state s, with what s has appended.
Solids(i, s, d, N, D, K) == \E L : Solid(i, s, d, N, D, L) /\ Appends(s, K, L)
Leads(i, s, d, N, D, K) == \E L : Leading(i, s, d, N, D, L) /\ Appends(s, K, L)

\* Nothing is appended.
LEMMA SolidIsSolids ==
    ASSUME NEW i, NEW s, NEW d, NEW N, NEW D, NEW K, Solid(i, s, d, N, D, K)
    PROVE  Solids(i, s, d, N, D, K)
<1>1. Appends(s, K, K)
  BY DEF Appends
<1> QED BY <1>1 DEF Solids

\* What is known of a peer is known with a longer log.
LEMMA PeerLonger ==
    ASSUME NEW N, NEW i, NEW p, NEW pr \in ProgressRecord, NEW n \in Nat, NEW t, PeerOK(N, i, p, pr, n, t),
           NEW k \in Nat, n <= k
    PROVE  PeerOK(N, i, p, pr, k, t)
<1>1. pr.Match \in Nat /\ pr.Next \in Nat /\ pr.PendingSnapshot \in Nat
  BY DEF ProgressRecord
<1> QED BY <1>1 DEF PeerOK

\* One entry of the own term is put behind the log of a leader, or of a candidate that has won.
LEMMA AppendSolid ==
    ASSUME Several, NEW i \in Server, NEW r, NEW s, NEW d, NEW N, NEW D, NEW K, Solid(i, r, d, N, D, K),
           r.state = "Leader" \/ (r.state = "Candidate" /\ Elected(N, i, r.Term)),
           NEW e \in Entry, e.term = r.Term, Good(i, s, d, N), s.state = "Leader", s.Term = r.Term,
           s.msgs = r.msgs, s.committed = r.committed, s.log = Append(r.log, e), RoleInv(i, s, N)
    PROVE  Leads(i, s, d, N, D, K)
<1> DEFINE L == K \cup {<<Len(r.log) + 1, e>>}
<1>0. /\ Fit(i, r, d, N, K) /\ Law(N, D, K) /\ Sound(i, r, d, N, D, K) /\ Good(i, r, d, N) /\ StructOK(r) /\ StructOK(s)
      /\ r.Term \in Nat /\ r.committed \in Nat /\ r.log \in Seq(Entry) /\ Len(r.log) \in Nat
      /\ r.committed <= Len(r.log) /\ r.msgs \subseteq Message /\ N \subseteq Message
  BY SolidFields, StructFields DEF Good
<1>1. Fit(i, s, d, N, L)
  BY <1>0, AppendKeepsFit
<1>2. Appends(s, K, L)
  <2>1. \A x, f : <<x, f>> \in L /\ <<x, f>> \notin K => f = e
    OBVIOUS
  <2> QED BY <2>1 DEF Appends
<1>3. K \subseteq L
  OBVIOUS
<1> HIDE DEF L
<1>4. Law(N, D, L)
  BY <1>0, <1>1, <1>3, LawMonotone DEF Fit
<1>5. Sound(i, r, d, N, D, L)
  BY <1>0, <1>3, SoundMonotone
<1>6. /\ s.log \in Seq(Entry) /\ Len(s.log) = Len(r.log) + 1 /\ s.log[Len(s.log)] = e
      /\ Agree(r.log, s.log, Len(r.log)) /\ Agree(r.log, s.log, r.committed)
  <2>1. s.log \in Seq(Entry) /\ Len(s.log) = Len(r.log) + 1 /\ s.log[Len(s.log)] = e
        /\ \A k \in 1..Len(r.log) : s.log[k] = r.log[k]
    BY <1>0
  <2> QED BY <1>0, <2>1 DEF Agree
<1>7. ASSUME NEW m \in N \cup r.msgs, Claim(m), m.from = i PROVE Backs(N, D, L, m, s.log, s.Term)
  <2>1. Backs(N, D, L, m, r.log, r.Term) /\ m \in Message
    BY <1>0, <1>5, <1>7 DEF Sound, ClaimInv
  <2> QED BY <1>0, <1>6, <2>1, BacksExtend
<1>8. Safe(N, L, s.log, s.committed, s.Term)
  <2>1. Safe(N, L, r.log, r.committed, r.Term)
    BY <1>5 DEF Sound, SafeInv
  <2>2. r.committed <= r.committed /\ r.Term <= r.Term
    BY <1>0
  <2> QED BY <1>0, <1>6, <2>1, <2>2, SafeOther
<1>9. TermAt(s.log, Len(s.log)) <= s.Term /\ s.Term >= r.Term
  BY <1>0, <1>6 DEF TermAt
<1>10. Sound(i, s, d, N, D, L)
  BY <1>0, <1>4, <1>5, <1>7, <1>8, <1>9, SoundIf
<1>11. Leading(i, s, d, N, D, L)
  BY <1>1, <1>4, <1>10 DEF Solid, Leading
<1> QED BY <1>2, <1>11 DEF Leads

\* appendEntry (raft.go:615-636) at u, which is r or, if that is a candidate that has won, follows from
\* r by a change of the role.
LEMMA AppendEntrySolid ==
    ASSUME Several, NEW i \in Server, NEW r, NEW u, NEW d, NEW N, NEW D, NEW K, Solid(i, r, d, N, D, K),
           r.state = "Leader" \/ (r.state = "Candidate" /\ Elected(N, i, r.Term)),
           Good(i, u, d, N), u.state = "Leader", u.Term = r.Term, u.log = r.log, u.msgs = r.msgs,
           u.committed = r.committed, RoleInv(i, u, N), NEW data \in {"empty", "cmd"}
    PROVE  Leads(i, AppendEntry(i, u, data), d, N, D, K)
<1> DEFINE e    == [term |-> u.Term, data |-> data]
           log  == Append(u.log, e)
           size == u.uncommittedSize + PayloadSize(e)
           r1   == [u EXCEPT !.log = log, !.uncommittedSize = size]
           n    == LastIndex(r1)
           pr   == MaybeUpdate(r1.prs[i], n)
           r2   == [r1 EXCEPT !.prs[i] = pr]
<1>0. /\ StructOK(u) /\ u \in RaftStruct /\ u.Term \in Nat /\ u.log \in Seq(Entry) /\ Len(u.log) \in Nat
      /\ u.committed \in Nat /\ u.committed <= Len(u.log) /\ u.prs \in [Server -> ProgressRecord]
      /\ u.uncommittedSize \in Nat
  BY StructFields DEF Good, StructOK
<1>1. AppendEntry(i, u, data) = MaybeCommit(r2)
  BY DEF AppendEntry
<1>2. e \in Entry /\ e.term = r.Term /\ PayloadSize(e) \in Nat
  BY <1>0 DEF Entry, PayloadSize
<1> HIDE DEF e
<1>3. log \in Seq(Entry) /\ Len(log) = Len(u.log) + 1 /\ size \in Nat /\ u.committed <= Len(log) /\ Len(log) \in Nat
  BY <1>0, <1>2
<1>4. Quiet(i, u, r1)
  <2> HIDE DEF log, size
  <2> QED BY <1>0, <1>3, LogQuiet
<1>5. /\ r1 \in RaftStruct /\ r1.log = log /\ r1.prs = u.prs /\ r1.msgs = u.msgs /\ r1.committed = u.committed
      /\ r1.lead = u.lead /\ r1.panicked = u.panicked /\ r1.Term = u.Term /\ r1.state = u.state
  <2> HIDE DEF log, size
  <2> QED BY <1>0, <1>3 DEF RaftStruct
<1> HIDE DEF r1
<1>6. n = Len(log) /\ n \in Nat /\ StructOK(r1) /\ n <= n
  BY <1>3, <1>4, <1>5 DEF LastIndex, Quiet, Grows
<1> HIDE DEF n, log
<1>7. \A p \in Server : PeerOK(N, i, p, u.prs[p], n, r.Term)
  <2> SUFFICES ASSUME NEW p \in Server PROVE PeerOK(N, i, p, u.prs[p], n, r.Term)
    OBVIOUS
  <2>1. PeerOK(N, i, p, u.prs[p], Len(u.log), r.Term)
    BY DEF RoleInv
  <2>2. Len(u.log) <= n /\ u.prs[p] \in ProgressRecord
    BY <1>0, <1>3, <1>6
  <2> QED BY <1>0, <1>6, <2>1, <2>2, PeerLonger
<1>8. pr \in ProgressRecord /\ PeerOK(N, i, i, pr, n, r.Term)
  <2>1. u.prs[i] \in ProgressRecord /\ PeerOK(N, i, i, u.prs[i], n, r.Term) /\ r1.prs[i] = u.prs[i]
    BY <1>0, <1>5, <1>7
  <2>2. PeerOK(N, i, i, MaybeUpdate(u.prs[i], n), n, r.Term)
    BY <1>6, <2>1, PeerIndexSteps
  <2>3. MaybeUpdate(u.prs[i], n) \in ProgressRecord
    BY <1>6, <2>1, ProgressTypes
  <2> QED BY <2>1, <2>2, <2>3
<1> HIDE DEF pr
<1>9. Quiet(i, r1, r2)
  BY <1>6, <1>8, ProgressQuiet
<1>10. /\ r2.log = log /\ r2.msgs = u.msgs /\ r2.committed = u.committed /\ r2.lead = u.lead
       /\ r2.panicked = u.panicked /\ r2.Term = u.Term /\ r2.state = u.state
       /\ \A p \in Server : r2.prs[p] = IF p = i THEN pr ELSE u.prs[p]
  BY <1>0, <1>5 DEF RaftStruct
<1> HIDE DEF r2
<1>11. Good(i, r2, d, N)
  <2>1. Quiet(i, u, r2)
    BY <1>0, <1>4, <1>9, QuietTransitive
  <2> QED BY <2>1, QuietKeepsInv
<1>12. RoleInv(i, r2, N)
  <2>1. \A p \in Server : PeerOK(N, i, p, r2.prs[p], Len(r2.log), r2.Term)
    BY <1>6, <1>7, <1>8, <1>10
  <2> QED BY <1>10, <2>1 DEF RoleInv
<1>13. r2.log = Append(r.log, e)
  BY <1>10 DEF log
<1>14. Leads(i, r2, d, N, D, K)
  BY <1>2, <1>10, <1>11, <1>12, <1>13, AppendSolid
<1>15. PICK L : Leading(i, r2, d, N, D, L) /\ Appends(r2, K, L)
  BY <1>14 DEF Leads
<1>16. LET t == MaybeCommit(r2) IN Leading(i, t, d, N, D, L) /\ t.log = r2.log /\ t.Term = r2.Term
  BY <1>15, MaybeCommitSolid
<1>17. Appends(MaybeCommit(r2), K, L)
  BY <1>15, <1>16 DEF Appends, Leading
<1> QED BY <1>1, <1>16, <1>17 DEF Leads

\* bcastAppend of a leader that has just appended (raft.go:518-525).
LEMMA BcastLeads ==
    ASSUME NEW i \in Server, NEW s, NEW d, NEW N, NEW D, NEW K, Leads(i, s, d, N, D, K), scenario \in Scenarios
    PROVE  Leads(i, BcastAppend(i, s), d, N, D, K)
<1>1. PICK L : Leading(i, s, d, N, D, L) /\ Appends(s, K, L)
  BY DEF Leads
<1> DEFINE t == BcastAppend(i, s)
<1>2. StructOK(s) /\ s.state = "Leader"
  BY <1>1, LeadingFields
<1>3. Leading(i, t, d, N, D, L)
  BY <1>1, BcastAppendSolid
<1>4. t.Term = s.Term /\ t.state = s.state
  BY <1>2, BcastAppendCalm, CalmFields
<1> SUFFICES Leads(i, t, d, N, D, K)
  OBVIOUS
<1> HIDE DEF t
<1>5. Appends(t, K, L)
  BY <1>1, <1>4 DEF Appends
<1> QED BY <1>3, <1>5 DEF Leads

\* Who leads is solid.
LEMMA LeadsIsSolids ==
    ASSUME NEW i, NEW s, NEW d, NEW N, NEW D, NEW K, Leads(i, s, d, N, D, K)
    PROVE  Solids(i, s, d, N, D, K)
BY DEF Leads, Leading, Solids

\* MsgProp at the leader (raft.go:1007-1065)
LEMMA ProposeSolids ==
    ASSUME Several, scenario \in Scenarios, NEW i \in Server, NEW r, NEW d, NEW N, NEW D, NEW K,
           Leading(i, r, d, N, D, K)
    PROVE  Solids(i, BcastAppend(i, AppendEntry(i, r, "cmd")), d, N, D, K)
<1> DEFINE data == "cmd"
           s == AppendEntry(i, r, data)
<1>1. Solid(i, r, d, N, D, K) /\ r.state = "Leader" /\ Good(i, r, d, N) /\ RoleInv(i, r, N)
  BY SolidFields DEF Leading
<1>2. data \in {"empty", "cmd"}
  OBVIOUS
<1> SUFFICES Solids(i, BcastAppend(i, s), d, N, D, K)
  OBVIOUS
<1> HIDE DEF data
<1>3. Leads(i, s, d, N, D, K)
  BY <1>1, <1>2, AppendEntrySolid
<1> HIDE DEF s
<1> QED BY <1>3, BcastLeads, LeadsIsSolids

\* What a new leader knows of its peers (raft.go:584-613, 718-757): nothing.
LEMMA NewPeers ==
    ASSUME NEW N, NEW i, NEW p, NEW n \in Nat, NEW t
    PROVE  /\ NewProgress(0, n + 1) \in ProgressRecord /\ PeerOK(N, i, p, NewProgress(0, n + 1), n, t)
           /\ BecomeReplicate(NewProgress(n, n + 1)) \in ProgressRecord
           /\ PeerOK(N, i, i, BecomeReplicate(NewProgress(n, n + 1)), n, t)
<1> DEFINE k == n + 1
           zero == 0
           a == NewProgress(zero, k)
           b == NewProgress(n, k)
           c == BecomeReplicate(b)
<1>1. k \in Nat \ {0} /\ zero \in Nat /\ k <= n + 1 /\ 0 <= n /\ n <= n
  OBVIOUS
<1>2. a.Match = 0 /\ a.Next = k /\ a.PendingSnapshot = 0 /\ b.Match = n /\ b.Next = k /\ b.PendingSnapshot = 0
  BY DEF NewProgress
<1> HIDE DEF k
<1>3. a \in ProgressRecord /\ b \in ProgressRecord
  BY <1>1, NewProgressType
<1> HIDE DEF zero
<1>4. PeerOK(N, i, p, a, n, t) /\ PeerOK(N, i, i, b, n, t)
  BY <1>1, <1>2 DEF PeerOK
<1> SUFFICES a \in ProgressRecord /\ PeerOK(N, i, p, a, n, t) /\ c \in ProgressRecord /\ PeerOK(N, i, i, c, n, t)
  BY DEF k, zero
<1> HIDE DEF a, b
<1>5. c \in ProgressRecord
  BY <1>3, <1>1, ProgressTypes
<1>6. TRUE \in BOOLEAN
  OBVIOUS
<1>7. PeerOK(N, i, i, c, n, t)
  BY <1>3, <1>4, <1>1, <1>6, PeerSteps
<1> QED BY <1>3, <1>4, <1>5, <1>7

\* becomeLeader appends the first entry of the term (raft.go:718-757).
LEMMA BecomeLeaderLeads ==
    ASSUME Several, NEW i \in Server, NEW r, NEW d, NEW N, NEW D, NEW K, Solid(i, r, d, N, D, K),
           r.state = "Candidate", TallyVotes(r) = "VoteWon"
    PROVE  Leads(i, BecomeLeader(i, r), d, N, D, K)
<1> DEFINE last == LastIndex(r)
           self == BecomeReplicate(NewProgress(last, last + 1))
           other == NewProgress(0, last + 1)
           prs  == [p \in Server |-> IF p = i THEN self ELSE other]
           t    == Reset(r, r.Term)
           u    == [t EXCEPT !.lead = i, !.state = "Leader", !.prs = prs]
           data == "empty"
<1>1. StructOK(r) /\ Good(i, r, d, N) /\ r.Term \in Nat /\ ~r.panicked /\ last = Len(r.log) /\ last \in Nat
  BY SolidFields DEF LastIndex
<1>2. BecomeLeader(i, r) = AppendEntry(i, u, data)
  BY DEF BecomeLeader
<1>3. Elected(N, i, r.Term)
  <2>1. HasQuorum(Server, {p \in Server : r.votes[p] = "yes"})
    BY <1>1, TallyMeaning
  <2>2. {p \in Server : r.votes[p] = "yes"} \subseteq Voters(N, i, r.Term)
    BY <1>1 DEF Good, ServerInv, CampaignInv, Voters
  <2> QED BY <2>1, <2>2, ServerAssumption, HasQuorumMonotone DEF Elected
<1>4. /\ self \in ProgressRecord /\ other \in ProgressRecord
      /\ \A p \in Server : PeerOK(N, i, p, other, last, r.Term)
      /\ PeerOK(N, i, i, self, last, r.Term)
  <2> HIDE DEF last
  <2> QED BY <1>1, NewPeers
<1> HIDE DEF self, other, last
<1>5. prs \in [Server -> ProgressRecord] /\ \A p \in Server : PeerOK(N, i, p, prs[p], last, r.Term)
  BY <1>4
<1>6. Turns(r, t, r.Term, r.Vote, r.state)
  BY <1>1, BecomeFollowerTurns, StructFields DEF KeptVote
<1>7. t.panicked = r.panicked
  <2>1. r \in RaftStruct
    BY <1>1 DEF StructOK
  <2> QED BY <2>1 DEF Reset, RaftStruct
<1> HIDE DEF t, prs
<1>8. /\ u \in RaftStruct /\ SameLog(r, u) /\ u.msgs = r.msgs /\ u.applied = r.applied
      /\ u.Term = r.Term /\ u.Vote = r.Vote /\ u.state = "Leader" /\ u.prs = prs /\ u.lead = i
      /\ u.panicked = r.panicked
  BY <1>5, <1>6, <1>7 DEF Turns, Grows, StructOK, SameLog, RaftStruct
<1> SUFFICES Leads(i, AppendEntry(i, u, data), d, N, D, K)
  BY <1>2
<1>9. data \in {"empty", "cmd"}
  OBVIOUS
<1> HIDE DEF u, data
<1>10. Turns(r, u, r.Term, r.Vote, "Leader")
  BY <1>1, <1>8, TurnsIf
<1>11. Good(i, u, d, N)
  BY <1>1, <1>3, <1>10 DEF Good, ServerInv, PastDisk, CampaignInv, OutboxInv, Holds, Turns, Grows
<1>12. u.log = r.log /\ u.committed = r.committed
  BY <1>8 DEF SameLog
<1>13. RoleInv(i, u, N)
  BY <1>1, <1>3, <1>5, <1>8, <1>12 DEF RoleInv
<1> QED BY <1>3, <1>8, <1>9, <1>11, <1>12, <1>13, AppendEntrySolid

-----------------------------------------------------------------------------
(* Campaigns *)

\* A server that does not lead becomes a candidate, or a pre-candidate: what changes and what does not
\* (raft.go:689-716).
LEMMA CandidateFields ==
    ASSUME NEW i \in Server, NEW r, StructOK(r), r.state # "Leader"
    PROVE  /\ LET c == NewCandidate(i, r)
              IN  /\ c.lead = None /\ c.panicked = r.panicked /\ c.Term = r.Term + 1 /\ c.log = r.log
                  /\ c.committed = r.committed /\ c.msgs = r.msgs
           /\ LET c == NewPreCandidate(i, r)
              IN  /\ c.lead = None /\ c.panicked = r.panicked /\ c.Term = r.Term /\ c.log = r.log
                  /\ c.committed = r.committed /\ c.msgs = r.msgs
<1>1. r \in RaftStruct
  BY DEF StructOK
<1>2. /\ BecomePreCandidate(r).lead = None /\ BecomePreCandidate(r).panicked = r.panicked
      /\ NewPreCandidate(i, r).lead = BecomePreCandidate(r).lead
      /\ NewPreCandidate(i, r).panicked = BecomePreCandidate(r).panicked
  BY <1>1 DEF NewPreCandidate, Poll, BecomePreCandidate, RaftStruct
<1>3. /\ BecomeCandidate(i, r).lead = None /\ BecomeCandidate(i, r).panicked = r.panicked
      /\ NewCandidate(i, r).lead = BecomeCandidate(i, r).lead
      /\ NewCandidate(i, r).panicked = BecomeCandidate(i, r).panicked
  BY <1>1 DEF NewCandidate, Poll, BecomeCandidate, Reset, RaftStruct
<1>4. TRUE \in BOOLEAN
  OBVIOUS
<1>5. Turns(r, NewCandidate(i, r), r.Term + 1, i, "Candidate")
  BY <1>4, CampaignElectionTurns
<1>6. Turns(r, NewPreCandidate(i, r), r.Term, r.Vote, "PreCandidate")
  BY CampaignPreElectionTurns
<1> QED BY <1>2, <1>3, <1>5, <1>6 DEF Turns, SameLog

\* A candidate asks for votes with its log, which keeps the promises of its earlier claims.
LEMMA RequestMaySend ==
    ASSUME NEW i \in Server, NEW s, NEW d, NEW N, NEW D, NEW K, N \subseteq Message, s.msgs \subseteq Message,
           s.Term \in Nat, ValidIn(N, K, s.log), TermAt(s.log, Len(s.log)) < s.Term,
           \A k \in N \cup s.msgs : Claim(k) /\ k.from = i => Backs(N, D, K, k, s.log, s.Term),
           NEW m \in Message, m.type = "MsgVote", m.from = i, m.term = s.Term,
           m.index = Len(s.log), m.logTerm = TermAt(s.log, Len(s.log))
    PROVE  MaySend(i, s, d, N, D, K, m)
<1>1. AskedWith(N, K, s.log, m)
  BY DEF AskedWith
<1>2. ~Claim(m) /\ ~Grants(m) /\ Choice(m) = m.from
  BY DEF Claim, Grants, Choice
<1>3. MsgOK(N, K, m)
  BY <1>1 DEF MsgOK
<1>4. ASSUME NEW k \in N \cup s.msgs, VotePair(i, m, k) PROVE VoteOK(N, D, K, m, k)
  <2>1. Claim(k) /\ k.from = i /\ k.term < s.Term /\ k.term \in Nat
    BY <1>4 DEF VotePair, Message
  <2>2. Backs(N, D, K, k, s.log, s.Term)
    BY <2>1
  <2>3. k.term # s.Term
    BY <2>1
  <2>4. PICK a : LeaderLog(N, K, a, k.term) /\ End(k) <= Len(a) /\ Survives(N, D, k, a, s.log)
    BY <2>2, <2>3 DEF Backs
  <2>5. Asks(m, Choice(m), m.term)
    BY <1>2 DEF Asks
  <2> QED BY <1>1, <2>4, <2>5 DEF VoteOK
<1> QED BY <1>2, <1>3, <1>4 DEF MaySend

\* becomeCandidate (raft.go:689-701)
LEMMA NewCandidateSolid ==
    ASSUME Several, NEW i \in Server, NEW r, NEW d, NEW N, NEW D, NEW K, Solid(i, r, d, N, D, K), r.state # "Leader"
    PROVE  LET c == NewCandidate(i, r)
           IN  /\ Solid(i, c, d, N, D, K) /\ c.state = "Candidate" /\ c.Vote = i
               /\ TermAt(c.log, Len(c.log)) < c.Term
<1> DEFINE c == NewCandidate(i, r)
<1>1. StructOK(r) /\ Fit(i, r, d, N, K) /\ r.Term \in Nat /\ ~r.panicked /\ Sound(i, r, d, N, D, K)
  BY SolidFields
<1>2. Fit(i, c, d, N, K) /\ c.state = "Candidate" /\ c.Vote = i
  BY <1>1, NewCandidateFit
<1>3. /\ c.lead = None /\ c.panicked = r.panicked /\ c.Term = r.Term + 1 /\ c.log = r.log
      /\ c.committed = r.committed /\ c.msgs = r.msgs
  BY <1>1, CandidateFields
<1> SUFFICES /\ Solid(i, c, d, N, D, K) /\ c.state = "Candidate" /\ c.Vote = i
             /\ TermAt(c.log, Len(c.log)) < c.Term
  OBVIOUS
<1> HIDE DEF c
<1>4. c.Term >= r.Term
  BY <1>1, <1>3
<1>5. RoleInv(i, c, N)
  BY <1>1, <1>2, <1>3, RoleIf
<1>6. Solid(i, c, d, N, D, K)
  BY <1>2, <1>3, <1>4, <1>5, TurnKeepsSolid
<1>7. TermAt(r.log, Len(r.log)) <= r.Term /\ ValidIn(N, K, r.log)
  BY <1>1, OwnLogValid DEF Sound, SafeInv
<1>8. TermAt(r.log, Len(r.log)) \in Nat
  BY <1>7, LastTermType
<1>9. TermAt(r.log, Len(r.log)) < c.Term
  BY <1>1, <1>3, <1>7, <1>8
<1> QED BY <1>2, <1>3, <1>6, <1>9

\* campaign(campaignElection) and campaign(campaignTransfer) (raft.go:785-844)
LEMMA CampaignElectionSolids ==
    ASSUME Several, NEW i \in Server, NEW r, NEW d, NEW N, NEW D, NEW K, Solid(i, r, d, N, D, K), r.state # "Leader",
           NEW transfer \in BOOLEAN
    PROVE  Solids(i, CampaignElection(i, r, transfer), d, N, D, K)
<1> DEFINE c == NewCandidate(i, r)
           M == VoteRequests(i, c, "MsgVote", c.Term, transfer)
           all == c.msgs \cup M
           s == [c EXCEPT !.msgs = all]
<1>1. /\ Solid(i, c, d, N, D, K) /\ c.state = "Candidate" /\ c.Vote = i
      /\ TermAt(c.log, Len(c.log)) < c.Term
  BY NewCandidateSolid
<1>2. /\ TallyVotes(c) = "VoteWon" => CampaignElection(i, r, transfer) = BecomeLeader(i, c)
      /\ TallyVotes(c) # "VoteWon" => CampaignElection(i, r, transfer) = s
  BY DEF CampaignElection, NewCandidate
<1>3. Fits(i, CampaignElection(i, r, transfer), d, N, K)
  BY CampaignElectionFits, SolidFields
<1> HIDE DEF c
<1>4. CASE TallyVotes(c) = "VoteWon"
  BY <1>1, <1>2, <1>4, BecomeLeaderLeads, LeadsIsSolids
<1>5. CASE TallyVotes(c) # "VoteWon"
  <2>1. /\ StructOK(c) /\ Good(i, c, d, N) /\ c.Term \in Nat /\ Law(N, D, K) /\ Sound(i, c, d, N, D, K)
        /\ N \subseteq Message /\ c.msgs \subseteq Message
    BY <1>1, SolidFields, StructFields
  <2>2. PICK L : Fit(i, s, d, N, L) /\ Appends(s, K, L)
    BY <1>2, <1>3, <1>5 DEF Fits
  <2>3. \A m \in M : QuietMessage(i, c, m)
    BY <1>1, <2>1, VoteRequestsQuiet
  <2>4. \A m \in M : /\ m \in Message /\ m.type = "MsgVote" /\ m.from = i /\ m.term = c.Term
                     /\ m.index = Len(c.log) /\ m.logTerm = TermAt(c.log, Len(c.log))
    BY <2>1, <2>3, VoteRequestFields DEF QuietMessage
  <2> HIDE DEF M
  <2>5. /\ s.log = c.log /\ s.state = c.state /\ s.Term = c.Term /\ s.msgs = all /\ s.committed = c.committed
        /\ s.lead = c.lead /\ s.panicked = c.panicked
    <3> HIDE DEF all
    <3> QED BY <2>1 DEF StructOK, RaftStruct
  <2> HIDE DEF s
  <2>6. K \subseteq L /\ NetLogInv(N, L) /\ EntriesInv(N, L) /\ StructOK(s) /\ ValidIn(N, L, s.log)
    BY <2>2, OwnLogValid DEF Appends, Fit, Good
  <2>7. Law(N, D, L)
    BY <2>1, <2>6, LawMonotone
  <2>8. Sound(i, c, d, N, D, L)
    BY <2>1, <2>6, SoundMonotone
  <2>9. \A k \in N \cup c.msgs : Claim(k) /\ k.from = i => Backs(N, D, L, k, s.log, s.Term)
    BY <2>5, <2>8 DEF Sound, ClaimInv
  <2>10. \A k \in N \cup s.msgs : Claim(k) /\ k.from = i => Backs(N, D, L, k, s.log, s.Term)
    BY <2>4, <2>5, <2>9 DEF Claim
  <2>11. \A m \in s.msgs : m \in c.msgs \/ MaySend(i, s, d, N, D, L, m)
    <3> SUFFICES ASSUME NEW m \in M PROVE MaySend(i, s, d, N, D, L, m)
      BY <2>5
    <3>1. s.msgs \subseteq Message /\ s.Term \in Nat /\ TermAt(s.log, Len(s.log)) < s.Term
      BY <1>1, <2>1, <2>4, <2>5
    <3>2. /\ m \in Message /\ m.type = "MsgVote" /\ m.from = i /\ m.term = s.Term
          /\ m.index = Len(s.log) /\ m.logTerm = TermAt(s.log, Len(s.log))
      BY <2>4, <2>5
    <3> QED BY <2>1, <2>6, <2>10, <3>1, <3>2, RequestMaySend
  <2>12. Safe(N, L, s.log, s.committed, s.Term) /\ TermAt(s.log, Len(s.log)) <= s.Term
    BY <2>5, <2>8 DEF Sound, SafeInv
  <2>13. RoleInv(i, s, N)
    BY <1>1, <2>5, <2>8 DEF Sound, RoleInv
  <2>14. s.Term >= c.Term
    BY <2>1, <2>5
  <2>15. Sound(i, s, d, N, D, L)
    BY <2>1, <2>6, <2>7, <2>8, <2>9, <2>11, <2>12, <2>13, <2>14, SoundIf
  <2> QED BY <1>2, <1>5, <2>2, <2>7, <2>15 DEF Solids, Solid
<1> QED BY <1>4, <1>5

\* campaign(campaignPreElection) (raft.go:785-844)
LEMMA CampaignPreElectionSolids ==
    ASSUME Several, NEW i \in Server, NEW r, NEW d, NEW N, NEW D, NEW K, Solid(i, r, d, N, D, K), r.state # "Leader"
    PROVE  Solids(i, CampaignPreElection(i, r), d, N, D, K)
<1> DEFINE c == NewPreCandidate(i, r)
           next == c.Term + 1
           no == FALSE
           M == VoteRequests(i, c, "MsgPreVote", next, no)
           all == c.msgs \cup M
           s == [c EXCEPT !.msgs = all]
<1>1. StructOK(r) /\ Good(i, r, d, N) /\ Fit(i, r, d, N, K) /\ ~r.panicked /\ r.Term \in Nat
  BY SolidFields
<1>2. Turns(r, c, r.Term, r.Vote, "PreCandidate")
  BY <1>1, CampaignPreElectionTurns
<1>3. /\ TallyVotes(c) = "VoteWon" => CampaignPreElection(i, r) = CampaignElection(i, c, no)
      /\ TallyVotes(c) # "VoteWon" => CampaignPreElection(i, r) = s
  BY DEF CampaignPreElection, NewPreCandidate
<1>4. /\ c.lead = None /\ c.panicked = r.panicked /\ c.Term = r.Term /\ c.log = r.log
      /\ c.committed = r.committed /\ c.msgs = r.msgs
  BY <1>1, CandidateFields
<1>5. no \in BOOLEAN
  OBVIOUS
<1> HIDE DEF c, no
<1>6. Good(i, c, d, N) /\ c.state = "PreCandidate" /\ c.Term >= r.Term
  BY <1>1, <1>2, <1>4, SameTermKeepsInv DEF Turns
<1>7. Fit(i, c, d, N, K)
  BY <1>1, <1>2, <1>6, TurnKeepsFit
<1>8. RoleInv(i, c, N)
  BY <1>1, <1>4, <1>6, RoleIf
<1>9. Solid(i, c, d, N, D, K)
  BY <1>4, <1>6, <1>7, <1>8, TurnKeepsSolid
<1>10. CASE TallyVotes(c) = "VoteWon"
  <2>1. c.state # "Leader"
    BY <1>6
  <2>2. Solids(i, CampaignElection(i, c, no), d, N, D, K)
    BY <1>5, <1>9, <2>1, CampaignElectionSolids
  <2> QED BY <1>3, <1>10, <2>2
<1>11. CASE TallyVotes(c) # "VoteWon"
  <2>1. StructOK(c) /\ next \in Nat /\ Safe(N, K, c.log, c.committed, c.Term)
    BY <1>9, SolidFields
  <2> HIDE DEF next
  <2>2. ASSUME NEW m \in M PROVE QuietMessage(i, c, m)
    BY <1>5, <2>1, VoteRequestsQuiet
  <2>3. \A m \in M : m.type = "MsgPreVote" /\ m.entries = <<>>
    BY <2>1, VoteRequestFields
  <2> HIDE DEF M
  <2>4. \A m \in M : Speaks(c, m)
    BY <2>3, SpeaksOther
  <2>5. Calm(i, c, s)
    BY <2>1, <2>2, <2>4, SendsQuiet, SendsStay DEF Calm
  <2>6. /\ s.log = c.log /\ s.state = c.state /\ s.Term = c.Term /\ s.msgs = all /\ s.committed = c.committed
        /\ s.lead = c.lead /\ s.panicked = c.panicked
    <3> HIDE DEF all
    <3> QED BY <2>1 DEF StructOK, RaftStruct
  <2> HIDE DEF s
  <2>7. \A m \in s.msgs : m \in c.msgs \/ Apt(s, N, m)
    BY <2>3, <2>6 DEF Apt
  <2>8. RoleInv(i, s, N) /\ Safe(N, K, s.log, s.committed, s.Term)
    BY <1>6, <1>8, <2>1, <2>6 DEF RoleInv
  <2>9. Solid(i, s, d, N, D, K)
    BY <1>9, <2>5, <2>7, <2>8, CalmKeepsSolid
  <2> QED BY <1>3, <1>11, <2>9, SolidIsSolids
<1> QED BY <1>10, <1>11

\* Answers to vote requests (raft.go:1395-1411)
LEMMA HandleVoteRespSolids ==
    ASSUME Several, scenario \in Scenarios, NEW i \in Server, NEW r, NEW d, NEW N, NEW D, NEW K, Solid(i, r, d, N, D, K),
           NEW m \in N, m.to = i, m.type = "MsgVoteResp" => m.term = r.Term
    PROVE  Solids(i, HandleVoteResp(i, r, m), d, N, D, K)
<1> DEFINE c == Poll(r, m.from, ~m.reject)
           s == HandleVoteResp(i, r, m)
           no == FALSE
<1>1. Good(i, r, d, N) /\ StructOK(r) /\ m \in Message /\ Fit(i, r, d, N, K) /\ RoleInv(i, r, N) /\ r.Term \in Nat
  BY SolidFields
<1>2. \/ ~Asked(r, m) /\ s = r
      \/ Asked(r, m) /\ s = c
      \/ Asked(r, m) /\ s = BecomeFollower(c, c.Term, None)
      \/ r.state = "PreCandidate" /\ Asked(r, m) /\ s = CampaignElection(i, c, no)
      \/ /\ r.state = "Candidate" /\ Asked(r, m) /\ TallyVotes(c) = "VoteWon"
         /\ s = BcastAppend(i, BecomeLeader(i, c))
  BY <1>1, HandleVoteRespCases
<1>3. Asked(r, m) => Good(i, c, d, N) /\ Turns(r, c, r.Term, r.Vote, r.state)
  BY <1>1, AnswerKeepsInv
<1>4. c.lead = r.lead /\ c.panicked = r.panicked
  <2>1. r \in RaftStruct
    BY <1>1 DEF StructOK
  <2> QED BY <2>1 DEF Poll, RaftStruct
<1>5. no \in BOOLEAN
  OBVIOUS
<1> SUFFICES Solids(i, s, d, N, D, K)
  OBVIOUS
<1> HIDE DEF c, s, no
<1>6. ASSUME Asked(r, m) PROVE Solid(i, c, d, N, D, K) /\ c.state = r.state /\ r.state # "Leader"
  <2>1. /\ Fit(i, c, d, N, K) /\ c.state = r.state /\ r.state # "Leader" /\ c.Term = r.Term
        /\ c.log = r.log /\ c.committed = r.committed /\ c.msgs = r.msgs
    BY <1>1, <1>3, <1>6, TurnKeepsFit DEF Turns, SameLog, Asked
  <2>2. RoleInv(i, c, N) /\ c.Term >= r.Term
    BY <1>1, <1>4, <2>1 DEF RoleInv
  <2>3. Solid(i, c, d, N, D, K)
    BY <2>1, <2>2, TurnKeepsSolid
  <2> QED BY <2>1, <2>3
<1>7. CASE s = r
  BY <1>7, SolidIsSolids
<1>8. CASE Asked(r, m) /\ s = c
  BY <1>6, <1>8, SolidIsSolids
<1>9. CASE Asked(r, m) /\ s = BecomeFollower(c, c.Term, None)
  BY <1>6, <1>9, StepDownSolid, SolidIsSolids
<1>10. CASE Asked(r, m) /\ s = CampaignElection(i, c, no)
  <2>1. Solid(i, c, d, N, D, K) /\ c.state # "Leader"
    BY <1>6, <1>10
  <2> QED BY <1>5, <1>10, <2>1, CampaignElectionSolids
<1>11. CASE /\ r.state = "Candidate" /\ Asked(r, m) /\ TallyVotes(c) = "VoteWon"
            /\ s = BcastAppend(i, BecomeLeader(i, c))
  <2> DEFINE l == BecomeLeader(i, c)
  <2>1. Leads(i, l, d, N, D, K)
    BY <1>6, <1>11, BecomeLeaderLeads
  <2>2. s = BcastAppend(i, l)
    BY <1>11
  <2> HIDE DEF l
  <2> QED BY <2>1, <2>2, BcastLeads, LeadsIsSolids
<1> QED BY <1>2, <1>7, <1>8, <1>9, <1>10, <1>11

-----------------------------------------------------------------------------
(* Steps of the system *)

\* What the invariants say of the network, and of every server.
LEMMA LawHolds ==
    ASSUME TypeInv, ElectionInv, NEW K, LogsHold(K), CommitHolds(K)
    PROVE  /\ Law(net, DiskTerms, K)
           /\ \A i \in Server : Solid(i, node[i], disk[i], net, DiskTerms, K)
<1> DEFINE D == DiskTerms
<1>1. World(net, K) /\ net \subseteq Message
  BY WorldHolds DEF World
<1>2. D \in [Server -> Nat] /\ \A p \in Server : D[p] = disk[p].Term
  BY DEF TypeInv, Disk, DiskTerms
<1>3. \A i \in Server : Sound(i, node[i], disk[i], net, D, K)
  BY DEF CommitHolds
<1> HIDE DEF D
<1>4. ASSUME NEW m \in net, TellsVote(m) PROVE D[m.from] >= m.term
  <2>1. m.from \in Server /\ m.term \in Nat
    BY <1>1 DEF Message
  <2>2. SentInv(m.from, disk[m.from], net)
    BY <2>1 DEF ElectionInv, ServerInv
  <2>3. Holds(disk[m.from], m)
    BY <1>4, <2>2 DEF SentInv
  <2>4. D[m.from] \in Nat /\ D[m.from] = disk[m.from].Term
    BY <1>2, <2>1
  <2>5. D[m.from] > m.term \/ D[m.from] = m.term
    BY <2>3, <2>4 DEF Holds
  <2> QED BY <2>1, <2>4, <2>5
<1>5. ASSUME NEW i \in Server, NEW g \in net, NEW m \in net, VotePair(i, g, m) PROVE VoteOK(net, D, K, g, m)
  BY <1>3, <1>5 DEF Sound, ClaimInv
<1>6. Law(net, D, K)
  BY <1>1, <1>2, <1>4, <1>5 DEF Law, ElectionInv, CommitHolds
<1>7. ASSUME NEW i \in Server PROVE Solid(i, node[i], disk[i], net, D, K)
  <2>1. Fit(i, node[i], disk[i], net, K)
    BY DEF TypeInv, ElectionInv, Good, LogsHold, Fit
  <2> QED BY <1>3, <1>6, <2>1 DEF Solid
<1> QED BY <1>6, <1>7 DEF D

\* Server i enters a solid state.
SolidUpdate(i, K) == \E s : Update(i, s) /\ Solids(i, s, disk[i], net, DiskTerms, K)

\* Its present state, or that after the term of a message has been dealt with.
SolidAt(i, r, K) == Solid(i, r, disk[i], net, DiskTerms, K)

\* A server enters a solid state, and appends nothing.
LEMMA EntersSolid ==
    ASSUME NEW i, NEW s, NEW K, Update(i, s), SolidAt(i, s, K)
    PROVE  SolidUpdate(i, K)
BY SolidIsSolids DEF SolidUpdate, SolidAt

\* A leader at the election timeout (raft.go:979-997)
LEMMA LeaderTimeoutSolid ==
    ASSUME NEW i \in Server, NEW K, SolidAt(i, node[i], K), LeaderTimeout(i)
    PROVE  SolidUpdate(i, K)
<1> DEFINE r == node[i]
           f == BecomeFollower(r, r.Term, None)
           h == [r EXCEPT !.prs = [p \in Server |-> [r.prs[p] EXCEPT !.RecentActive = (p = i)]]]
<1>1. \/ Update(i, [r EXCEPT !.leadTransferee = None])
      \/ Update(i, [f EXCEPT !.leadTransferee = None])
      \/ r.state = "Leader" /\ Update(i, [h EXCEPT !.leadTransferee = None])
  BY DEF LeaderTimeout
<1>2. SolidAt(i, f, K)
  BY StepDownSolid DEF SolidAt
<1>3. r.state = "Leader" => SolidAt(i, h, K)
  BY QuorumHeardSolid DEF SolidAt, Leading
<1> HIDE DEF f, h, r
<1>4. ASSUME NEW t, SolidAt(i, t, K), Update(i, [t EXCEPT !.leadTransferee = None]) PROVE SolidUpdate(i, K)
  <2>1. SolidAt(i, [t EXCEPT !.leadTransferee = None], K)
    BY <1>4, NoTransferSolid DEF SolidAt
  <2> QED BY <1>4, <2>1, EntersSolid
<1>5. SolidAt(i, r, K)
  BY DEF r
<1> QED BY <1>1, <1>2, <1>3, <1>4, <1>5

\* MsgProp: appended by the leader, forwarded by a follower (raft.go:1007-1065, 1419-1428).
LEMMA HandlePropSolid ==
    ASSUME Several, scenario \in Scenarios, NEW i \in Server, NEW r, NEW K, SolidAt(i, r, K), NEW from \in Server,
           HandleProp(i, r, from)
    PROVE  SolidUpdate(i, K)
<1> DEFINE zero == 0
           n == Msg("MsgProp", from, r.lead, zero)
<1>1. \/ r.state = "Leader" /\ Update(i, BcastAppend(i, AppendEntry(i, r, "cmd")))
      \/ r.lead # None /\ Update(i, Send(r, n))
  BY DEF HandleProp
<1>2. CASE r.state = "Leader" /\ Update(i, BcastAppend(i, AppendEntry(i, r, "cmd")))
  <2> DEFINE s == BcastAppend(i, AppendEntry(i, r, "cmd"))
  <2>1. Update(i, s)
    BY <1>2
  <2>2. Solids(i, s, disk[i], net, DiskTerms, K)
    BY <1>2, ProposeSolids DEF Leading, SolidAt
  <2> HIDE DEF s
  <2> QED BY <2>1, <2>2 DEF SolidUpdate
<1>3. CASE r.lead # None /\ Update(i, Send(r, n))
  <2>1. r.lead \in Server /\ zero \in Nat /\ "MsgProp" \in MessageTypes
    BY <1>3, SolidFields, StructFields DEF MessageTypes, SolidAt
  <2> HIDE DEF zero
  <2>2. IsMsg(n, "MsgProp", from, r.lead, zero)
    BY <2>1, MsgType
  <2> HIDE DEF n
  <2>3. n \in Message /\ n.type = "MsgProp" /\ n.entries = <<>>
    BY <2>2 DEF IsMsg
  <2>4. SolidAt(i, Send(r, n), K)
    BY <2>3, SendSolid DEF SolidAt
  <2> QED BY <1>3, <2>4, EntersSolid
<1> QED BY <1>1, <1>2, <1>3

\* What a server does by itself.
LEMMA EventsSolid ==
    ASSUME Several, scenario \in Scenarios, NEW i \in Server, NEW K, SolidAt(i, node[i], K),
           \/ Hup(i) \/ LeaseExpires(i) \/ Beat(i) \/ LeaderTimeout(i) \/ Propose(i)
           \/ \E to \in MayTransferTo : TransferLeader(i, to)
           \/ \E to \in Server \ {i} : ReportUnreachable(i, to)
           \/ \E to \in Server \ {i}, failed \in BOOLEAN : ReportSnapshot(i, to, failed)
    PROVE  SolidUpdate(i, K)
<1> DEFINE r == node[i]
<1>1. /\ StructOK(r) /\ r \in RaftStruct /\ r.Term \in Nat /\ Len(r.log) \in Nat
      /\ r.prs \in [Server -> ProgressRecord] /\ r.leadTransferee \in Server \cup {None}
  BY SolidFields, StructFields DEF SolidAt, StructOK
<1>2. CASE Hup(i)
  <2> DEFINE no == FALSE
             s1 == CampaignPreElection(i, r)
             s2 == CampaignElection(i, r, no)
  <2>1. (Update(i, s1) \/ Update(i, s2)) /\ r.state # "Leader" /\ no \in BOOLEAN
    BY <1>2 DEF Hup
  <2> HIDE DEF no
  <2>2. Solids(i, s1, disk[i], net, DiskTerms, K) /\ Solids(i, s2, disk[i], net, DiskTerms, K)
    BY <2>1, CampaignElectionSolids, CampaignPreElectionSolids DEF SolidAt
  <2> HIDE DEF s1, s2
  <2> QED BY <2>1, <2>2 DEF SolidUpdate
<1>3. CASE LeaseExpires(i)
  <2> DEFINE e == 1
             t == r.leadTransferee
             s == [r EXCEPT !.electionElapsed = e, !.leadTransferee = t]
  <2>1. [r EXCEPT !.electionElapsed = 1] = s
    BY <1>1 DEF RaftStruct
  <2>2. Update(i, s)
    BY <1>3, <2>1 DEF LeaseExpires
  <2>3. e \in {0, 1} /\ t \in Server \cup {None}
    BY <1>1
  <2> HIDE DEF e, t
  <2>4. SolidAt(i, s, K)
    BY <2>3, TimersSolid DEF SolidAt
  <2> HIDE DEF s
  <2> QED BY <2>2, <2>4, EntersSolid
<1>4. CASE Beat(i)
  <2> DEFINE s == [r EXCEPT !.msgs = r.msgs \cup {Heartbeat(i, r, p) : p \in Server \ {i}}]
  <2>1. Update(i, s) /\ r.state = "Leader"
    BY <1>4 DEF Beat
  <2>2. SolidAt(i, s, K)
    BY <2>1, BeatSolid DEF SolidAt, Leading
  <2> HIDE DEF s
  <2> QED BY <2>1, <2>2, EntersSolid
<1>5. CASE LeaderTimeout(i)
  BY <1>5, LeaderTimeoutSolid
<1>6. CASE Propose(i)
  BY <1>6, HandlePropSolid DEF Propose
<1>7. ASSUME NEW to \in MayTransferTo, TransferLeader(i, to) PROVE SolidUpdate(i, K)
  <2> DEFINE zero == 0
             s == HandleTransferLeader(i, r, to, zero)
  <2>1. to \in Server /\ zero = 0
    BY ScenarioAssumption DEF MayTransferTo
  <2>2. Update(i, s)
    BY <1>7 DEF TransferLeader
  <2> HIDE DEF zero
  <2>3. SolidAt(i, s, K)
    BY <2>1, HandleTransferLeaderSolid DEF SolidAt
  <2> HIDE DEF s
  <2> QED BY <2>2, <2>3, EntersSolid
<1>8. ASSUME NEW to \in Server, NEW pr \in ProgressRecord, r.state = "Leader",
             PeerOK(net, i, to, pr, Len(r.log), r.Term), Update(i, [r EXCEPT !.prs[to] = pr])
      PROVE  SolidUpdate(i, K)
  <2>1. SolidAt(i, [r EXCEPT !.prs[to] = pr], K)
    BY <1>8, ProgressSolid DEF SolidAt, Leading
  <2> QED BY <1>8, <2>1, EntersSolid
<1>9. ASSUME NEW to \in Server, r.state = "Leader"
      PROVE  r.prs[to] \in ProgressRecord /\ PeerOK(net, i, to, r.prs[to], Len(r.log), r.Term)
  <2>1. RoleInv(i, r, net)
    BY SolidFields DEF SolidAt
  <2> QED BY <1>1, <1>9, <2>1 DEF RoleInv
<1>10. ASSUME NEW to \in Server, ReportUnreachable(i, to) PROVE SolidUpdate(i, K)
  <2> DEFINE pr == BecomeProbe(r.prs[to])
  <2>1. r.state = "Leader" /\ Update(i, [r EXCEPT !.prs[to] = pr])
    BY <1>10 DEF ReportUnreachable
  <2>2. r.prs[to] \in ProgressRecord /\ PeerOK(net, i, to, r.prs[to], Len(r.log), r.Term)
    BY <1>9, <2>1
  <2>3. 0 \in Nat /\ TRUE \in BOOLEAN
    OBVIOUS
  <2>4. pr \in ProgressRecord
    BY <2>2, <2>3, ProgressTypes
  <2>5. PeerOK(net, i, to, pr, Len(r.log), r.Term)
    BY <1>1, <2>2, <2>3, PeerSteps
  <2> HIDE DEF pr
  <2> QED BY <1>8, <2>1, <2>4, <2>5
<1>11. ASSUME NEW to \in Server, NEW failed \in BOOLEAN, ReportSnapshot(i, to, failed) PROVE SolidUpdate(i, K)
  <2> DEFINE pr == SnapshotStatus(r.prs[to], failed)
  <2>1. r.state = "Leader" /\ Update(i, [r EXCEPT !.prs[to] = pr])
    BY <1>11 DEF ReportSnapshot
  <2>2. r.prs[to] \in ProgressRecord /\ PeerOK(net, i, to, r.prs[to], Len(r.log), r.Term)
    BY <1>9, <2>1
  <2>3. 0 \in Nat
    OBVIOUS
  <2>4. pr \in ProgressRecord
    BY <2>2, <2>3, HandlerProgressTypes
  <2>5. PeerOK(net, i, to, pr, Len(r.log), r.Term)
    BY <1>1, <2>2, <2>3, PeerSteps
  <2> HIDE DEF pr
  <2> QED BY <1>8, <2>1, <2>4, <2>5
<1> QED BY <1>2, <1>3, <1>4, <1>5, <1>6, <1>7, <1>10, <1>11

\* What a server does with a message: its term is dealt with first (raft.go:861-976).
LEMMA MessagesSolid ==
    ASSUME Several, scenario \in Scenarios, NEW i \in Server, NEW K, SolidAt(i, node[i], K),
           NEW m \in net, m.to = i, Step(i, m)
    PROVE  SolidUpdate(i, K)
<1> DEFINE r == node[i]
           d == disk[i]
           D == DiskTerms
           q == Observe(r, m)
           f == Follow(q, m)
<1>1. StructOK(r) /\ m \in Message /\ m.from \in Server /\ Law(net, D, K) /\ MsgOK(net, K, m)
  BY SolidFields DEF SolidAt, Message, Law
<1>2. SolidAt(i, q, K)
  BY ObserveSolid DEF SolidAt
<1>3. m.type \notin {"MsgPreVote", "MsgPreVoteResp"} /\ m.term >= r.Term => q.Term = m.term
  BY <1>1, ObservedTerm
<1>4. CASE StepLowerTerm(i, m)
  <2> DEFINE s == [r EXCEPT !.msgs = r.msgs \cup AnswersToLowerTerm(i, r, m)]
  <2>1. Update(i, s)
    BY <1>4 DEF StepLowerTerm
  <2>2. SolidAt(i, s, K)
    BY StaleSolid DEF SolidAt
  <2> HIDE DEF s
  <2> QED BY <2>1, <2>2, EntersSolid
<1>5. CASE StepProp(i, m)
  BY <1>1, <1>5, HandlePropSolid DEF StepProp
<1>6. CASE StepAppResp(i, m)
  <2>1. m.type = "MsgAppResp" /\ m.term = q.Term
    BY <1>3, <1>6 DEF StepAppResp, Receives
  <2>2. Update(i, IF q.state # "Leader" THEN q ELSE HandleAppResp(i, q, m))
    BY <1>6 DEF StepAppResp
  <2> HIDE DEF q
  <2>3. q.state = "Leader" => SolidAt(i, HandleAppResp(i, q, m), K)
    BY <1>2, <2>1, HandleAppRespSolid DEF SolidAt, Leading
  <2> QED BY <1>2, <2>2, <2>3, EntersSolid
<1>7. CASE StepHeartbeatResp(i, m)
  <2>1. m.type = "MsgHeartbeatResp"
    BY <1>7 DEF StepHeartbeatResp, Receives
  <2>2. Update(i, IF q.state # "Leader" THEN q ELSE HandleHeartbeatResp(i, q, m))
    BY <1>7 DEF StepHeartbeatResp
  <2> HIDE DEF q
  <2>3. q.state = "Leader" => SolidAt(i, HandleHeartbeatResp(i, q, m), K)
    BY <1>2, <2>1, HandleHeartbeatRespSolid DEF SolidAt, Leading
  <2> QED BY <1>2, <2>2, <2>3, EntersSolid
<1>8. CASE StepTransferLeader(i, m)
  <2> DEFINE from == m.from
             term == m.term
  <2>1. m.type = "MsgTransferLeader" /\ q.Term = m.term
    BY <1>3, <1>8 DEF StepTransferLeader, Receives
  <2>2. Update(i, HandleTransferLeader(i, q, from, term))
    BY <1>8 DEF StepTransferLeader
  <2> HIDE DEF q
  <2>3. Elected(net, i, q.Term) /\ from \in Server
    BY <1>1, <2>1 DEF MsgOK
  <2> HIDE DEF from, term
  <2>4. SolidAt(i, HandleTransferLeader(i, q, from, term), K)
    BY <1>2, <2>3, HandleTransferLeaderSolid DEF SolidAt
  <2> QED BY <2>2, <2>4, EntersSolid
<1>9. CASE StepApp(i, m) \/ StepHeartbeat(i, m) \/ StepSnap(i, m)
  <2>1. /\ m.type \in {"MsgApp", "MsgHeartbeat", "MsgSnap"} /\ m.term >= r.Term /\ FromLeader(m)
        /\ q.state # "Leader"
    BY <1>9 DEF StepApp, StepHeartbeat, StepSnap, Receives, FromLeader
  <2>2. m.term = q.Term
    BY <1>3, <2>1
  <2>3. \/ m.type = "MsgApp" /\ Update(i, HandleAppendEntries(i, f, m))
        \/ m.type = "MsgHeartbeat" /\ Update(i, HandleHeartbeat(i, f, m))
        \/ m.type = "MsgSnap" /\ Update(i, HandleSnapshot(i, f, m))
    BY <1>9 DEF StepApp, StepHeartbeat, StepSnap, Receives
  <2> HIDE DEF q
  <2>4. SolidAt(i, f, K) /\ f.state = "Follower" /\ m.term = f.Term
    BY <1>2, <2>1, <2>2, FollowSolid DEF SolidAt
  <2> HIDE DEF f
  <2>5. m.type = "MsgApp" => SolidAt(i, HandleAppendEntries(i, f, m), K)
    BY <2>4, HandleAppendEntriesSolid DEF SolidAt
  <2>6. m.type = "MsgSnap" => SolidAt(i, HandleSnapshot(i, f, m), K)
    BY <2>4, HandleSnapshotSolid DEF SolidAt
  <2>7. m.type = "MsgHeartbeat" => SolidAt(i, HandleHeartbeat(i, f, m), K)
    BY <2>4, HandleHeartbeatSolid DEF SolidAt
  <2> QED BY <2>3, <2>5, <2>6, <2>7, EntersSolid
<1>10. CASE StepVote(i, m)
  <2>1. /\ Update(i, HandleVote(i, q, m)) /\ m.type \in {"MsgVote", "MsgPreVote"}
        /\ m.type = "MsgVote" => m.term = q.Term
    BY <1>3, <1>10 DEF StepVote, Receives
  <2> HIDE DEF q
  <2>2. SolidAt(i, HandleVote(i, q, m), K)
    BY <1>2, <2>1, HandleVoteSolid DEF SolidAt
  <2> QED BY <2>1, <2>2, EntersSolid
<1>11. CASE StepVoteResp(i, m)
  <2> DEFINE s == HandleVoteResp(i, q, m)
  <2>1. Update(i, s) /\ (m.type = "MsgVoteResp" => m.term = q.Term)
    BY <1>3, <1>11 DEF StepVoteResp, Receives
  <2> HIDE DEF q
  <2>2. Solids(i, s, d, net, D, K)
    BY <1>2, <2>1, HandleVoteRespSolids DEF SolidAt
  <2> HIDE DEF s
  <2> QED BY <2>1, <2>2 DEF SolidUpdate
<1>12. CASE StepTimeoutNow(i, m)
  <2> DEFINE yes == TRUE
             s == CampaignElection(i, q, yes)
  <2>1. (q.state = "Follower" /\ Update(i, s)) \/ Update(i, q)
    BY <1>12 DEF StepTimeoutNow
  <2>2. yes \in BOOLEAN
    OBVIOUS
  <2> HIDE DEF q, yes
  <2>3. q.state = "Follower" => Solids(i, s, d, net, D, K)
    BY <1>2, <2>2, CampaignElectionSolids DEF SolidAt
  <2> HIDE DEF s
  <2> QED BY <1>2, <2>1, <2>3, EntersSolid DEF SolidUpdate
<1> QED BY <1>4, <1>5, <1>6, <1>7, <1>8, <1>9, <1>10, <1>11, <1>12 DEF Step

\* Every step but Ready, Compact and Restart leads to a solid state.
LEMMA StepsSolid ==
    ASSUME TypeInv, ElectionInv, Several, NEW K, LogsHold(K), CommitHolds(K), NEW i \in Server,
           \/ Hup(i) \/ LeaseExpires(i) \/ Beat(i) \/ LeaderTimeout(i) \/ Propose(i)
           \/ \E to \in MayTransferTo : TransferLeader(i, to)
           \/ \E to \in Server \ {i} : ReportUnreachable(i, to)
           \/ \E to \in Server \ {i}, failed \in BOOLEAN : ReportSnapshot(i, to, failed)
           \/ \E m \in {n \in net : n.to = i} : Step(i, m)
    PROVE  SolidUpdate(i, K)
<1>1. SolidAt(i, node[i], K) /\ scenario \in Scenarios
  BY LawHolds DEF SolidAt, TypeInv
<1>2. CASE \E m \in {n \in net : n.to = i} : Step(i, m)
  BY <1>1, <1>2, MessagesSolid
<1>3. CASE ~(\E m \in {n \in net : n.to = i} : Step(i, m))
  BY <1>1, <1>3, EventsSolid
<1> QED BY <1>2, <1>3

\* More messages do not change what is known of a leader, and of peers.
LEMMA RoleOnward ==
    ASSUME NEW N, NEW O, N \subseteq O, NEW i, NEW r, RoleInv(i, r, N)
    PROVE  RoleInv(i, r, O)
<1>1. r.lead # None => Elected(O, r.lead, r.Term)
  BY ElectedMonotone DEF RoleInv
<1>2. ASSUME NEW p \in Server, r.state = "Leader" PROVE PeerOK(O, i, p, r.prs[p], Len(r.log), r.Term)
  <2>1. PeerOK(N, i, p, r.prs[p], Len(r.log), r.Term)
    BY <1>2 DEF RoleInv
  <2> QED BY <2>1 DEF PeerOK, Acknowledged
<1> QED BY <1>1, <1>2 DEF RoleInv

\* A server whose claims and votes are all known already, while others send and write to disk.
LEMMA SoundOnward ==
    ASSUME NEW N, NEW D, NEW O, NEW E, Onward(N, D, O, E), NEW K, NEW j, NEW r, StructOK(r), NEW d,
           Sound(j, r, d, N, D, K),
           \A m \in O : m.from = j /\ (Claim(m) \/ TellsVote(m)) => m \in N
    PROVE  Sound(j, r, d, O, E, K)
<1>1. N \subseteq O /\ O \subseteq Message /\ r.msgs \subseteq Message /\ K \subseteq K
  BY StructFields DEF Onward
<1>2. ToSendInv(j, r, d, O, K)
  BY <1>1, MsgOKMonotone DEF Sound, ToSendInv
<1>3. ASSUME NEW m \in O \cup r.msgs, Claim(m), m.from = j
      PROVE  /\ Backs(O, E, K, m, r.log, r.Term)
             /\ m \in O => Backs(O, E, K, m, d.log, d.Term)
  <2>1. m \in N \cup r.msgs /\ (m \in O => m \in N) /\ m \in Message
    BY <1>1, <1>3
  <2>2. Backs(N, D, K, m, r.log, r.Term)
    BY <1>3, <2>1 DEF Sound, ClaimInv
  <2>3. m \in N => Backs(N, D, K, m, d.log, d.Term)
    BY <1>3 DEF Sound, ClaimInv
  <2> QED BY <1>1, <2>1, <2>2, <2>3, ClaimsMonotone
<1>4. ASSUME NEW g \in O \cup r.msgs, NEW m \in O \cup r.msgs, VotePair(j, g, m) PROVE VoteOK(O, E, K, g, m)
  <2>1. /\ g \in N \cup r.msgs /\ m \in N \cup r.msgs /\ m \in Message
    BY <1>1, <1>4 DEF VotePair, TellsVote
  <2>2. VoteOK(N, D, K, g, m)
    BY <1>4, <2>1 DEF Sound, ClaimInv
  <2> QED BY <1>1, <2>1, <2>2, ClaimsMonotone
<1>5. ClaimInv(j, r, d, O, E, K)
  BY <1>1, <1>3, <1>4 DEF ClaimInv
<1>6. SafeInv(r, d, O, K)
  BY <1>1, SafeMonotone DEF Sound, SafeInv
<1>7. RoleInv(j, r, O)
  BY <1>1, RoleOnward DEF Sound
<1> QED BY <1>2, <1>5, <1>6, <1>7 DEF Sound

\* The server itself, once its state is on disk and its messages are sent (rawnode.go:122-163).
LEMMA SoundPersisted ==
    ASSUME NEW N, NEW D, NEW O, NEW E, Onward(N, D, O, E), NEW K, NEW i, NEW s, StructOK(s), NEW d,
           Sound(i, s, d, N, D, K), O = N \cup s.msgs
    PROVE  Sound(i, Advanced(s), HardState(s), O, E, K)
<1> DEFINE r == Advanced(s)
           h == HardState(s)
<1>1. N \subseteq O /\ O \subseteq Message /\ s.msgs \subseteq Message /\ K \subseteq K
  BY StructFields DEF Onward
<1>2. /\ r.msgs = {} /\ r.log = s.log /\ r.Term = s.Term /\ r.committed = s.committed /\ r.state = s.state
      /\ h.log = s.log /\ h.Term = s.Term /\ h.Commit = s.committed
  BY AdvancedType, HardStateType DEF SameLog
<1>3. r.lead = s.lead /\ r.panicked = s.panicked /\ r.prs = s.prs
  <2> DEFINE c == s.committed
             u == ReduceUncommittedSize(s)
             none == {}
  <2>1. r = [s EXCEPT !.msgs = none, !.applied = c, !.uncommittedSize = u] /\ s \in RaftStruct
    BY DEF Advanced, StructOK
  <2> HIDE DEF r, c, u, none
  <2> QED BY <2>1 DEF RaftStruct
<1> SUFFICES Sound(i, r, h, O, E, K)
  OBVIOUS
<1> HIDE DEF r, h
<1>4. ToSendInv(i, r, h, O, K)
  BY <1>2 DEF ToSendInv
<1>5. ASSUME NEW m \in O, Claim(m), m.from = i PROVE Backs(O, E, K, m, s.log, s.Term)
  <2>1. Backs(N, D, K, m, s.log, s.Term) /\ m \in Message
    BY <1>1, <1>5 DEF Sound, ClaimInv
  <2> QED BY <1>1, <2>1, ClaimsMonotone
<1>6. ASSUME NEW g \in O, NEW m \in O, VotePair(i, g, m) PROVE VoteOK(O, E, K, g, m)
  <2>1. VoteOK(N, D, K, g, m) /\ m \in Message
    BY <1>1, <1>6 DEF Sound, ClaimInv
  <2> QED BY <1>1, <2>1, ClaimsMonotone
<1>7. ClaimInv(i, r, h, O, E, K)
  BY <1>2, <1>5, <1>6 DEF ClaimInv
<1>8. SafeInv(r, h, O, K)
  <2>1. Safe(O, K, s.log, s.committed, s.Term) /\ TermAt(s.log, Len(s.log)) <= s.Term
    BY <1>1, SafeMonotone DEF Sound, SafeInv
  <2> QED BY <1>2, <2>1 DEF SafeInv
<1>9. RoleInv(i, r, O)
  <2>1. RoleInv(i, s, O)
    BY <1>1, RoleOnward DEF Sound
  <2> QED BY <1>2, <1>3, <2>1 DEF RoleInv
<1> QED BY <1>4, <1>7, <1>8, <1>9 DEF Sound

\* One server is in another state, and nothing is sent.
LEMMA VolatileKeepsCommit ==
    ASSUME TypeInv, ElectionInv, TypeInv', NEW K, LogsHold(K), CommitHolds(K), NEW i \in Server, OthersKeep(i),
           NEW L, K \subseteq L, net' = net, disk'[i].Term = disk[i].Term,
           Sound(i, node'[i], disk'[i], net, DiskTerms, L)
    PROVE  CommitHolds(L)'
<1>1. Law(net, DiskTerms, K)
  BY LawHolds
<1>2. \A j \in Server \ {i} : node'[j] = node[j] /\ disk'[j] = disk[j]
  BY DEF OthersKeep, TypeInv
<1>3. DiskTerms' = DiskTerms
  BY <1>2 DEF DiskTerms
<1>4. ASSUME NEW j \in Server PROVE Sound(j, node'[j], disk'[j], net', DiskTerms', L)
  <2>1. CASE j = i
    BY <1>3, <2>1
  <2>2. CASE j # i
    <3>1. Sound(j, node[j], disk[j], net, DiskTerms, K) /\ StructOK(node[j])
      BY DEF CommitHolds, TypeInv
    <3>2. Sound(j, node[j], disk[j], net, DiskTerms, L)
      BY <1>1, <3>1, SoundMonotone
    <3> QED BY <1>2, <1>3, <2>2, <3>2
  <2> QED BY <2>1, <2>2
<1>5. \A m \in net' : MsgOK(net', L, m)
  <2>1. net \subseteq net
    OBVIOUS
  <2> QED BY <2>1, MsgOKMonotone DEF CommitHolds
<1> QED BY <1>4, <1>5 DEF CommitHolds

\* Ready: the state of server i is on disk, and its messages are sent (rawnode.go:122-163).
LEMMA PersistKeepsCommit ==
    ASSUME TypeInv, ElectionInv, TypeInv', NEW K, LogsHold(K), CommitHolds(K), NEW i \in Server, OthersKeep(i),
           NEW s, NEW L, K \subseteq L, Solid(i, s, disk[i], net, DiskTerms, L),
           node'[i] = Advanced(s), disk'[i] = HardState(s), net' = net \cup s.msgs
    PROVE  CommitHolds(L)'
<1> DEFINE N == net
           O == net'
           D == DiskTerms
           E == DiskTerms'
<1>1. Law(N, D, K) /\ StructOK(s) /\ Good(i, s, disk[i], N) /\ Sound(i, s, disk[i], N, D, L) /\ s.Term \in Nat
  BY LawHolds, SolidFields
<1>2. \A j \in Server \ {i} : node'[j] = node[j] /\ disk'[j] = disk[j]
  BY DEF OthersKeep, TypeInv
<1>3. D \in [Server -> Nat] /\ \A p \in Server : D[p] = disk[p].Term
  BY DEF TypeInv, Disk, DiskTerms
<1>4. E \in [Server -> Nat] /\ \A p \in Server : E[p] = disk'[p].Term
  BY DEF TypeInv, Disk, DiskTerms
<1>5. N \subseteq O /\ O \subseteq Message /\ N \subseteq Message /\ O = N \cup s.msgs
  BY DEF TypeInv
<1> HIDE DEF N, O, D, E
<1>6. ASSUME NEW p \in Server PROVE D[p] <= E[p]
  <2>1. CASE p = i
    <3>1. E[p] = s.Term
      BY <1>1, <1>4, <2>1, HardStateType
    <3>2. PastDisk(s, disk[p])
      BY <1>1, <2>1 DEF Good, ServerInv
    <3>3. D[p] < s.Term \/ D[p] = s.Term
      BY <1>3, <3>2 DEF PastDisk
    <3>4. D[p] \in Nat
      BY <1>3
    <3> QED BY <1>1, <3>1, <3>3, <3>4
  <2>2. CASE p # i
    <3>1. D[p] = E[p] /\ D[p] \in Nat
      BY <1>2, <1>3, <1>4, <2>2
    <3> QED BY <3>1
  <2> QED BY <2>1, <2>2
<1>7. Onward(N, D, O, E)
  <2>1. ASSUME NEW m \in s.msgs, Claim(m) PROVE m.term >= D[m.from]
    <3>1. m.from = i /\ m.term >= disk[i].Term
      BY <1>1, <2>1 DEF Sound, ToSendInv
    <3> QED BY <1>3, <3>1
  <2> QED BY <1>3, <1>4, <1>5, <1>6, <2>1 DEF Onward
<1>8. ASSUME NEW j \in Server PROVE Sound(j, node'[j], disk'[j], O, E, L)
  <2>1. CASE j = i
    BY <1>1, <1>5, <1>7, <2>1, SoundPersisted
  <2>2. CASE j # i
    <3>1. Sound(j, node[j], disk[j], N, D, K) /\ StructOK(node[j])
      BY DEF CommitHolds, TypeInv, N, D
    <3>2. Sound(j, node[j], disk[j], N, D, L)
      BY <1>1, <3>1, SoundMonotone
    <3>3. \A m \in O : m.from = j /\ (Claim(m) \/ TellsVote(m)) => m \in N
      <4>1. \A m \in s.msgs : Claim(m) \/ TellsVote(m) => m.from = i
        BY <1>1 DEF Sound, ToSendInv, Good, ServerInv, OutboxInv
      <4> QED BY <1>5, <2>2, <4>1
    <3>4. Sound(j, node[j], disk[j], O, E, L)
      BY <1>7, <3>1, <3>2, <3>3, SoundOnward
    <3> QED BY <1>2, <2>2, <3>4
  <2> QED BY <2>1, <2>2
<1>9. ASSUME NEW m \in O PROVE MsgOK(O, L, m)
  <2>1. CASE m \in N
    <3>1. MsgOK(N, K, m)
      BY <2>1 DEF CommitHolds, N
    <3> QED BY <1>5, <3>1, MsgOKMonotone
  <2>2. CASE m \in s.msgs
    <3>1. MsgOK(N, L, m) /\ L \subseteq L
      BY <1>1, <2>2 DEF Sound, ToSendInv
    <3> QED BY <1>5, <3>1, MsgOKMonotone
  <2> QED BY <1>5, <2>1, <2>2
<1> QED BY <1>8, <1>9 DEF CommitHolds, O, E

\* A server that starts from its disk: its disk keeps its promises (raft.go:318-355).
LEMMA RestartSound ==
    ASSUME NEW i \in Server, NEW r, NEW d, DiskOK(d), NEW N, NEW D, NEW K, Sound(i, r, d, N, D, K)
    PROVE  Sound(i, FromDisk(d), d, N, D, K)
<1> DEFINE s == FromDisk(d)
<1>1. s.Term = d.Term /\ s.state = "Follower" /\ s.msgs = {} /\ s.log = d.log /\ s.committed = d.Commit
  BY FromDiskType
<1>2. s.lead = None /\ ~s.panicked
  <2>1. ~(d.Commit < d.offset \/ d.Commit > Len(d.log))
    BY DEF DiskOK, Disk
  <2> QED BY <2>1 DEF FromDisk, BecomeFollower, Reset
<1> SUFFICES Sound(i, s, d, N, D, K)
  OBVIOUS
<1> HIDE DEF s
<1>3. ToSendInv(i, s, d, N, K)
  BY <1>1 DEF ToSendInv
<1>4. ClaimInv(i, s, d, N, D, K)
  BY <1>1 DEF Sound, ClaimInv
<1>5. SafeInv(s, d, N, K)
  BY <1>1 DEF Sound, SafeInv
<1>6. RoleInv(i, s, N)
  BY <1>1, <1>2, RoleIf
<1> QED BY <1>3, <1>4, <1>5, <1>6 DEF Sound

\* At the start nothing is committed.
LEMMA CommitInvInit == Init => CommitInv
<1> SUFFICES ASSUME Init PROVE LogsHold({}) /\ CommitHolds({})
  BY DEF CommitInv
<1> DEFINE none == {}
           d == EmptyDisk
           s == FromDisk(d)
<1>1. LogsHold({})
  <2> DEFINE K == {}
  <2>1. \A x : x \notin K
    OBVIOUS
  <2>2. DiskOK(d) /\ d.log = <<>>
    BY DEF DiskOK, Disk, EmptyDisk
  <2>3. s.log = d.log /\ s.msgs = none /\ s.state = "Follower"
    BY <2>2, FromDiskType
  <2>4. net = none /\ \A i \in Server : node[i] = s /\ disk[i] = d
    BY DEF Init
  <2> HIDE DEF s, d, none
  <2>5. \A x : x \notin none
    BY DEF none
  <2> HIDE DEF K
  <2>6. \A i \in Server : ReplicaInv(i, s, d, none, K)
    BY <2>1, <2>2, <2>3, <2>5 DEF ReplicaInv, LogInv, Valid, InLog, AskInv, CandidateInv, LeaderInv
  <2>7. LogsHold(K)
    BY <2>1, <2>4, <2>5, <2>6 DEF LogsHold, NetLogInv, EntriesInv
  <2> QED BY <2>7 DEF K
<1>2. DiskOK(d) /\ d.log = <<>> /\ d.Term = 0 /\ d.Commit = 0
  BY DEF DiskOK, Disk, EmptyDisk
<1>3. net = none /\ \A i \in Server : node[i] = s /\ disk[i] = d
  BY DEF Init
<1>4. s.log = <<>> /\ s.msgs = none /\ s.state = "Follower" /\ s.Term = 0 /\ s.committed = 0
  BY <1>2, FromDiskType
<1>5. s.lead = None /\ ~s.panicked
  <2>1. ~(d.Commit < d.offset \/ d.Commit > Len(d.log))
    BY <1>2 DEF DiskOK, Disk
  <2> QED BY <2>1 DEF FromDisk, BecomeFollower, Reset
<1>6. \A x : x \notin none
  OBVIOUS
<1> HIDE DEF s, d, none
<1>7. ASSUME NEW i \in Server, NEW D, NEW K PROVE Sound(i, s, d, none, D, K)
  <2>1. ToSendInv(i, s, d, none, K) /\ ClaimInv(i, s, d, none, D, K)
    BY <1>4, <1>6 DEF ToSendInv, ClaimInv
  <2>2. SafeInv(s, d, none, K)
    BY <1>2, <1>4 DEF SafeInv, Safe, TermAt
  <2>3. RoleInv(i, s, none)
    BY <1>4, <1>5, RoleIf
  <2> QED BY <2>1, <2>2, <2>3 DEF Sound
<1>8. CommitHolds({})
  BY <1>3, <1>6, <1>7 DEF CommitHolds
<1> QED BY <1>1, <1>8

\* Every step keeps the invariant.
LEMMA CommitInvNext ==
    ASSUME TypeInv, ElectionInv, CommitInv, [Next]_vars
    PROVE  CommitInv'
<1> SUFFICES ASSUME Several PROVE \E L : LogsHold(L)' /\ CommitHolds(L)'
  BY DEF CommitInv, Several
<1>1. PICK K : LogsHold(K) /\ CommitHolds(K)
  BY DEF CommitInv
<1>2. TypeInv' /\ ElectionInv'
  BY TypeInvNext, ElectionInvNext
<1>3. CASE UNCHANGED vars
  BY <1>1, <1>3 DEF vars, LogsHold, CommitHolds, DiskTerms
<1>4. CASE Next
  <2>1. PICK i \in Server :
            \/ Hup(i) \/ LeaseExpires(i) \/ Beat(i) \/ LeaderTimeout(i) \/ Propose(i)
            \/ \E to \in MayTransferTo : TransferLeader(i, to)
            \/ \E to \in Server \ {i} : ReportUnreachable(i, to)
            \/ \E to \in Server \ {i}, failed \in BOOLEAN : ReportSnapshot(i, to, failed)
            \/ \E m \in {n \in net : n.to = i} : Step(i, m)
            \/ Ready(i) \/ Compact(i) \/ Restart(i)
    BY <1>4 DEF Next
  <2> DEFINE r == node[i]
             none == {}
  <2>2. /\ Fit(i, r, disk[i], net, K) /\ Appends(r, K, K) /\ StructOK(r) /\ DiskOK(disk[i])
        /\ net = net \cup none /\ none \subseteq r.msgs /\ K \subseteq K
    BY <1>1 DEF TypeInv, ElectionInv, Good, LogsHold, Fit, Appends
  <2>3. Solid(i, r, disk[i], net, DiskTerms, K) /\ Sound(i, r, disk[i], net, DiskTerms, K)
    BY <1>1, LawHolds, SolidFields
  <2>4. ASSUME NEW s, StructOK(s), node'[i] = Advanced(s), disk'[i] = HardState(s)
        PROVE  /\ node'[i].log = s.log /\ node'[i].state = s.state /\ node'[i].Term = s.Term
               /\ disk'[i].log = s.log /\ node'[i].msgs \subseteq s.msgs
    BY <2>4, AdvancedType, HardStateType DEF SameLog, HardState
  <2> HIDE DEF none
  <2>5. CASE Ready(i)
    <3>1. /\ OthersKeep(i) /\ node'[i] = Advanced(r) /\ disk'[i] = HardState(r)
          /\ net' = net \cup r.msgs
      BY <2>5, ReadyType
    <3> HIDE DEF r
    <3>2. LogsHold(K)'
      BY <1>1, <1>2, <2>2, <2>4, <3>1, LogsKept
    <3>3. CommitHolds(K)'
      BY <1>1, <1>2, <2>2, <2>3, <3>1, PersistKeepsCommit
    <3> QED BY <3>2, <3>3
  <2>6. CASE Compact(i)
    <3>1. OthersKeep(i) /\ net' = net
      BY <2>6, CompactType
    <3>2. /\ node'[i].log = r.log /\ node'[i].state = r.state /\ node'[i].Term = r.Term
          /\ disk'[i].log = disk[i].log /\ node'[i].msgs = r.msgs
          /\ node'[i].committed = r.committed /\ node'[i].lead = r.lead /\ node'[i].prs = r.prs
          /\ node'[i].panicked = r.panicked
          /\ disk'[i].Term = disk[i].Term /\ disk'[i].Commit = disk[i].Commit
      <4>1. /\ node \in [Server -> RaftStruct] /\ disk \in [Server -> Disk]
            /\ r \in RaftStruct /\ disk[i] \in Disk
        BY DEF TypeInv
      <4> DEFINE o == Max2(r.offset, r.applied)
      <4>2. node'[i] = [r EXCEPT !.offset = o] /\ disk'[i] = [disk[i] EXCEPT !.offset = r.applied]
        BY <2>6, <4>1 DEF Compact
      <4> HIDE DEF o, r
      <4> QED BY <4>1, <4>2 DEF RaftStruct, Disk
    <3> HIDE DEF r
    <3>3. LogsHold(K)'
      BY <1>1, <1>2, <2>2, <3>1, <3>2, LogsKept
    <3> DEFINE t == node'[i]
               e == disk'[i]
    <3>4. Sound(i, t, e, net, DiskTerms, K)
      <4>1. /\ t.log = r.log /\ t.state = r.state /\ t.Term = r.Term /\ t.msgs = r.msgs
            /\ t.committed = r.committed /\ t.lead = r.lead /\ t.prs = r.prs /\ t.panicked = r.panicked
            /\ e.log = disk[i].log /\ e.Term = disk[i].Term /\ e.Commit = disk[i].Commit
        BY <3>2
      <4> HIDE DEF t, e
      <4>2. ToSendInv(i, t, e, net, K) /\ ClaimInv(i, t, e, net, DiskTerms, K)
        BY <2>3, <4>1 DEF Sound, ToSendInv, ClaimInv
      <4>3. SafeInv(t, e, net, K) /\ RoleInv(i, t, net)
        BY <2>3, <4>1 DEF Sound, SafeInv, RoleInv
      <4> QED BY <4>2, <4>3 DEF Sound
    <3>5. CommitHolds(K)'
      BY <1>1, <1>2, <2>2, <3>1, <3>2, <3>4, VolatileKeepsCommit
    <3> QED BY <3>3, <3>5
  <2>7. CASE Restart(i)
    <3> DEFINE s == FromDisk(disk[i])
    <3>1. OthersKeep(i) /\ node'[i] = s /\ disk'[i] = disk[i] /\ net' = net
      BY <2>7, RestartType
    <3>2. s.log = disk[i].log /\ s.msgs = {} /\ s.state = "Follower"
      BY <2>2, FromDiskType
    <3>3. Sound(i, s, disk[i], net, DiskTerms, K)
      BY <2>2, <2>3, RestartSound
    <3> HIDE DEF s
    <3>4. Good(i, s, disk[i], net)
      <4>1. Good(i, node'[i], disk'[i], net')
        BY <1>2 DEF TypeInv, ElectionInv, Good
      <4> QED BY <3>1, <4>1
    <3>5. Valid(net, s.log) /\ \A x, e : InLog(s.log, x, e) => <<x, e>> \in K
      BY <2>2, <3>2 DEF Fit, ReplicaInv, LogInv
    <3>6. Fit(i, s, disk[i], net, K)
      BY <2>2, <3>2, <3>4, <3>5, KnownKeepsFit
    <3>7. Appends(s, K, K) /\ none \subseteq s.msgs
      BY DEF Appends, none
    <3>8. LogsHold(K)'
      BY <1>1, <1>2, <2>2, <3>1, <3>6, <3>7, LogsKept
    <3>9. CommitHolds(K)'
      BY <1>1, <1>2, <2>2, <3>1, <3>3, VolatileKeepsCommit
    <3> QED BY <3>8, <3>9
  <2>8. CASE ~(Ready(i) \/ Compact(i) \/ Restart(i))
    <3>1. SolidUpdate(i, K)
      BY <1>1, <2>1, <2>8, StepsSolid
    <3>2. PICK s, L : Update(i, s) /\ Solid(i, s, disk[i], net, DiskTerms, L) /\ Appends(s, K, L)
      BY <3>1 DEF SolidUpdate, Solids
    <3>3. Fit(i, s, disk[i], net, L) /\ StructOK(s) /\ Sound(i, s, disk[i], net, DiskTerms, L)
      BY <3>2, SolidFields
    <3>4. OthersKeep(i) /\ none \subseteq s.msgs /\ K \subseteq L
      BY <3>2, UpdateEffect DEF none, Appends
    <3>5. CASE node'[i] = s /\ disk'[i] = disk[i] /\ net' = net
      <4>1. LogsHold(L)'
        BY <1>1, <1>2, <2>2, <3>2, <3>3, <3>4, <3>5, LogsKept
      <4>2. CommitHolds(L)'
        BY <1>1, <1>2, <3>3, <3>4, <3>5, VolatileKeepsCommit
      <4> QED BY <4>1, <4>2
    <3>6. CASE node'[i] = Advanced(s) /\ disk'[i] = HardState(s) /\ net' = net \cup s.msgs
      <4>1. LogsHold(L)'
        BY <1>1, <1>2, <2>4, <3>2, <3>3, <3>4, <3>6, LogsKept
      <4>2. CommitHolds(L)'
        BY <1>1, <1>2, <3>2, <3>4, <3>6, PersistKeepsCommit
      <4> QED BY <4>1, <4>2
    <3> QED BY <3>2, <3>5, <3>6, UpdateEffect
  <2> QED BY <2>5, <2>6, <2>7, <2>8
<1> QED BY <1>3, <1>4

\* Whatever is sent, lost or repeated, and whoever crashes: what a message or an ack claims is true, a
\* server gives up what it has claimed only once nobody can count on it, and only what a quorum has
\* claimed is committed (raft.go:424-491, 579-582, 615-636, 918-966, 1471-1584).
THEOREM CommitInvariant == Spec => [](TypeInv /\ ElectionInv /\ CommitInv)
<1>1. Init => TypeInv /\ ElectionInv /\ CommitInv
  BY TypeInvInit, ElectionInvInit, CommitInvInit
<1>2. TypeInv /\ ElectionInv /\ CommitInv /\ [Next]_vars => (TypeInv /\ ElectionInv /\ CommitInv)'
  BY TypeInvNext, ElectionInvNext, CommitInvNext
<1> QED BY <1>1, <1>2, PTL DEF Spec

-----------------------------------------------------------------------------
(* What follows from the invariant *)

\* A log has a part of another one as a prefix if their entries are the same.
LEMMA PrefixIf ==
    ASSUME NEW a \in Seq(Entry), NEW b \in Seq(Entry), NEW c \in Nat, c <= Len(a), c <= Len(b),
           \A x \in 1..c : a[x] = b[x]
    PROVE  HasPrefix(b, SubSeq(a, 1, c))
<1>1. Len(SubSeq(a, 1, c)) = c
  <2>1. 1 \in Nat \ {0} /\ c \in Int
    OBVIOUS
  <2>2. Len(SubSeq(a, 1, c)) = (IF 1 <= c THEN c - 1 + 1 ELSE 0)
    BY <2>1, SubSeqType
  <2> QED BY <2>2
<1>2. SubSeq(b, 1, c) = SubSeq(a, 1, c)
  OBVIOUS
<1> QED BY <1>1, <1>2 DEF HasPrefix

\* What server i regards as committed.
LEMMA CommittedFields ==
    ASSUME TypeInv, NEW i \in Server
    PROVE  /\ Committed(i) \in Seq(Entry) /\ Len(Committed(i)) = node[i].committed
           /\ node[i].committed \in Nat /\ node[i].committed <= Len(node[i].log) /\ node[i].log \in Seq(Entry)
           /\ \A x \in 1..node[i].committed : Committed(i)[x] = node[i].log[x]
<1> DEFINE c == node[i].committed
           log == node[i].log
<1>1. c \in Nat /\ log \in Seq(Entry) /\ c <= Len(log) /\ Len(log) \in Nat
  BY StructFields DEF TypeInv, StructOK
<1> SUFFICES /\ SubSeq(log, 1, c) \in Seq(Entry) /\ Len(SubSeq(log, 1, c)) = c
             /\ \A x \in 1..c : SubSeq(log, 1, c)[x] = log[x]
  BY <1>1 DEF Committed
<1> HIDE DEF c, log
<1>2. 1 \in Nat \ {0} /\ c \in Int
  BY <1>1
<1>3. /\ SubSeq(log, 1, c) \in Seq(Entry) /\ Len(SubSeq(log, 1, c)) = (IF 1 <= c THEN c - 1 + 1 ELSE 0)
      /\ \A x \in 1..(c - 1 + 1) : SubSeq(log, 1, c)[x] = log[1 + x - 1]
  BY <1>1, <1>2, SubSeqType
<1>4. Len(SubSeq(log, 1, c)) = c /\ c - 1 + 1 = c /\ \A x \in 1..c : 1 + x - 1 = x
  BY <1>1, <1>3
<1> QED BY <1>3, <1>4

\* A leader has every log that was ever a leader's in its term.
LEMMA LeaderHasOwn ==
    ASSUME Several, NEW i \in Server, NEW r, NEW d, NEW N, NEW D, NEW K, Solid(i, r, d, N, D, K), r.state = "Leader",
           NEW a, LeaderLog(N, K, a, r.Term)
    PROVE  Agree(a, r.log, Len(a))
<1> DEFINE y == Len(a)
<1>1. ValidIn(N, K, a) /\ a \in Seq(Entry) /\ y \in Nat /\ y > 0 /\ a[y].term = r.Term
  BY DEF LeaderLog, ValidIn
<1>2. /\ Fit(i, r, d, N, K) /\ World(N, K) /\ ValidIn(N, K, r.log) /\ Len(r.log) \in Nat
  BY SolidFields, OwnLogValid
<1>3. y \in 1..Len(a) /\ <<y, a[y]>> \in K
  <2>1. y \in 1..Len(a)
    BY <1>1
  <2> QED BY <1>1, <2>1 DEF ValidIn, InLog
<1>4. InLog(r.log, y, a[y])
  BY <1>1, <1>2, <1>3 DEF Fit, ReplicaInv, LeaderInv
<1>5. y \in 1..Len(r.log) /\ r.log[y].term = a[y].term
  BY <1>4 DEF InLog
<1> HIDE DEF y
<1>6. y <= Len(a) /\ y <= Len(r.log) /\ y >= 1
  BY <1>1, <1>2, <1>3, <1>5
<1>7. \A x \in 1..y : a[x] = r.log[x]
  BY <1>1, <1>2, <1>5, <1>6, LogsAgree
<1> QED BY <1>6, <1>7 DEF Agree, y

\* No two servers commit different entries at an index, although entries of earlier terms are
\* replicated without being counted, leaders change and messages are late (raft.go:579-582).
THEOREM CommitsAgree == Spec => []CommittedAgree
<1>1. TypeInv /\ ElectionInv /\ CommitInv => CommittedAgree
  <2> SUFFICES ASSUME TypeInv, ElectionInv, CommitInv, NEW i \in Server, NEW j \in Server
               PROVE  HasPrefix(Committed(i), Committed(j)) \/ HasPrefix(Committed(j), Committed(i))
    BY DEF CommittedAgree
  <2>1. ASSUME NEW p \in Server, NEW q \in Server, node[p].committed <= node[q].committed
        PROVE  HasPrefix(Committed(q), Committed(p))
    <3> DEFINE a == node[p].log
               b == Committed(q)
               c == node[p].committed
               e == node[q].committed
    <3>1. a \in Seq(Entry) /\ c \in Nat /\ c <= Len(a) /\ b \in Seq(Entry) /\ Len(b) = e /\ e \in Nat /\ c <= e
      BY <2>1, CommittedFields
    <3>2. ASSUME NEW x \in 1..c PROVE a[x] = b[x]
      <4>0. x \in 1..e
        BY <3>1
      <4>1. b[x] = node[q].log[x]
        BY <4>0, CommittedFields
      <4>2. CASE p = q
        BY <4>1, <4>2
      <4>3. CASE p # q
        <5>1. Several
          BY <4>3 DEF Several
        <5>2. PICK K : LogsHold(K) /\ CommitHolds(K)
          BY <5>1 DEF CommitInv
        <5>3. /\ Law(net, DiskTerms, K) /\ Solid(p, node[p], disk[p], net, DiskTerms, K)
              /\ Solid(q, node[q], disk[q], net, DiskTerms, K)
          BY <5>2, LawHolds
        <5>4. /\ Safe(net, K, node[p].log, node[p].committed, node[p].Term) /\ node[p].Term \in Nat
              /\ Safe(net, K, node[q].log, node[q].committed, node[q].Term) /\ node[q].Term \in Nat
          BY <5>3, SolidFields
        <5>5. node[p].log[x] = node[q].log[x]
          BY <3>1, <4>0, <5>1, <5>3, <5>4, SafeAgree
        <5> QED BY <4>1, <5>5
      <4> QED BY <4>2, <4>3
    <3>3. Committed(p) = SubSeq(a, 1, c)
      BY DEF Committed
    <3> HIDE DEF a, b, c, e
    <3>4. HasPrefix(b, SubSeq(a, 1, c))
      BY <3>1, <3>2, PrefixIf
    <3> QED BY <3>3, <3>4 DEF b
  <2>2. node[i].committed <= node[j].committed \/ node[j].committed <= node[i].committed
    BY CommittedFields
  <2> QED BY <2>1, <2>2
<1> QED BY <1>1, CommitInvariant, PTL

\* A leader has all that was committed in its own or an earlier term: who lacks an entry that a
\* quorum has claimed does not get the votes of a quorum (log.go:313-315).
THEOREM LeadersComplete == Spec => []LeaderCompleteness
<1>1. TypeInv /\ ElectionInv /\ CommitInv => LeaderCompleteness
  <2> SUFFICES ASSUME TypeInv, ElectionInv, CommitInv, NEW i \in Server, NEW j \in Server,
                      node[i].state = "Leader", node[j].Term <= node[i].Term
               PROVE  HasPrefix(node[i].log, Committed(j))
    BY DEF LeaderCompleteness
  <2> DEFINE a == node[j].log
             b == node[i].log
             c == node[j].committed
  <2>1. a \in Seq(Entry) /\ b \in Seq(Entry) /\ c \in Nat /\ c <= Len(a) /\ Len(b) \in Nat
    BY CommittedFields
  <2>2. c <= Len(b) /\ \A x \in 1..c : a[x] = b[x]
    <3>1. CASE i = j
      BY <2>1, <3>1
    <3>2. CASE i # j /\ c # 0
      <4>1. Several
        BY <3>2 DEF Several
      <4>2. PICK K : LogsHold(K) /\ CommitHolds(K)
        BY <4>1 DEF CommitInv
      <4>3. /\ Law(net, DiskTerms, K) /\ Solid(i, node[i], disk[i], net, DiskTerms, K)
            /\ Solid(j, node[j], disk[j], net, DiskTerms, K)
        BY <4>2, LawHolds
      <4>4. /\ Safe(net, K, a, c, node[j].Term) /\ node[j].Term \in Nat /\ node[i].Term \in Nat
            /\ LeaderLog(net, K, b, node[i].Term)
        BY <4>3, SolidFields, OwnLogValid
      <4>5. PICK l : LeaderLog(net, K, l, node[i].Term) /\ Agree(a, l, c)
        <5> HIDE DEF a, b, c
        <5> QED BY <2>1, <3>2, <4>1, <4>3, <4>4, SafeInLeader
      <4>6. Agree(l, b, Len(l)) /\ Len(l) \in Nat
        BY <4>1, <4>3, <4>5, LeaderHasOwn DEF LeaderLog, ValidIn
      <4> HIDE DEF a, b, c
      <4> QED BY <2>1, <4>5, <4>6 DEF Agree
    <3>3. CASE c = 0
      BY <2>1, <3>3
    <3> QED BY <3>1, <3>2, <3>3
  <2>3. Committed(j) = SubSeq(a, 1, c)
    BY DEF Committed
  <2> HIDE DEF a, b, c
  <2>4. HasPrefix(b, SubSeq(a, 1, c))
    BY <2>1, <2>2, PrefixIf
  <2> QED BY <2>3, <2>4 DEF b
<1> QED BY <1>1, CommitInvariant, PTL

\* What a leader believes a follower has acknowledged is on the follower's disk, unless the disk is
\* of a later term: the ack left the follower after the entries were saved (raft.go:1471-1507).
THEOREM AcksDurable == Spec => []MatchDurable
<1>1. TypeInv /\ ElectionInv /\ CommitInv => MatchDurable
  <2> SUFFICES ASSUME TypeInv, ElectionInv, CommitInv, NEW i \in Server, NEW p \in Server,
                      node[i].state = "Leader", p # i, disk[p].Term <= node[i].Term
               PROVE  HasPrefix(disk[p].log, SubSeq(node[i].log, 1, node[i].prs[p].Match))
    BY DEF MatchDurable
  <2> DEFINE a == node[i].log
             b == disk[p].log
             c == node[i].prs[p].Match
             t == node[i].Term
  <2>1. Several
    BY DEF Several
  <2>2. PICK K : LogsHold(K) /\ CommitHolds(K)
    BY <2>1 DEF CommitInv
  <2>3. /\ Law(net, DiskTerms, K) /\ Solid(i, node[i], disk[i], net, DiskTerms, K)
        /\ Solid(p, node[p], disk[p], net, DiskTerms, K)
    BY <2>2, LawHolds
  <2>4. a \in Seq(Entry) /\ t \in Nat /\ c \in Nat /\ disk[p].Term \in Nat /\ b \in Seq(Entry) /\ net \subseteq Message
    <3>1. node[i].prs \in [Server -> ProgressRecord] /\ disk[p] \in Disk /\ net \subseteq Message
      BY StructFields DEF TypeInv
    <3>2. node[i].prs[p] \in ProgressRecord
      BY <3>1
    <3>3. c \in Nat
      BY <3>2 DEF ProgressRecord
    <3>4. disk[p].Term \in Nat /\ b \in Seq(Entry)
      BY <3>1 DEF Disk
    <3> QED BY <2>3, <3>1, <3>3, <3>4, SolidFields
  <2>5. PeerOK(net, i, p, node[i].prs[p], Len(a), t)
    BY <2>3, SolidFields DEF RoleInv
  <2>6. c <= Len(a) /\ c <= Len(b) /\ \A x \in 1..c : a[x] = b[x]
    <3>0. c <= Len(a) /\ (c = 0 \/ Acknowledged(net, p, t, c)) /\ Len(a) \in Nat /\ Len(b) \in Nat
      BY <2>4, <2>5 DEF PeerOK
    <3>1. CASE c = 0
      BY <3>0, <3>1
    <3>2. CASE c # 0
      <4>1. PICK m \in net : m.type = "MsgAppResp" /\ ~m.reject /\ m.from = p /\ m.term = t /\ m.index = c
        BY <3>0, <3>2 DEF Acknowledged
      <4>2. Claim(m) /\ End(m) = c
        BY <2>4, <3>2, <4>1 DEF Claim, End
      <4>3. Backs(net, DiskTerms, K, m, disk[p].log, disk[p].Term)
        BY <2>3, <4>1, <4>2, SolidFields DEF Sound, ClaimInv
      <4>4. disk[p].Term <= t /\ m.term = t
        BY <4>1
      <4>5. PICK l : LeaderLog(net, K, l, t) /\ c <= Len(l) /\ Agree(b, l, c)
        BY <2>4, <4>2, <4>3, <4>4 DEF Backs
      <4>6. Agree(l, a, Len(l)) /\ Len(l) \in Nat
        BY <2>1, <2>3, <4>5, LeaderHasOwn DEF LeaderLog, ValidIn
      <4> HIDE DEF a, b, c
      <4> QED BY <2>4, <3>0, <4>5, <4>6 DEF Agree
    <3> QED BY <3>1, <3>2
  <2> HIDE DEF a, b, c
  <2>7. HasPrefix(b, SubSeq(a, 1, c))
    BY <2>4, <2>6, PrefixIf
  <2> QED BY <2>7 DEF a, b, c
<1> QED BY <1>1, CommitInvariant, PTL

\* A server that has claimed all of a chosen log has it on disk: it could only have given it up if
\* it were dead.
LEMMA ClaimantHas ==
    ASSUME Several, NEW p \in Server, NEW r, NEW d, NEW N, NEW D, NEW K, Solid(p, r, d, N, D, K),
           NEW a, ValidIn(N, K, a), Chosen(N, a), ClaimOf(N, p, TermAt(a, Len(a)), Len(a))
    PROVE  Agree(d.log, a, Len(a))
<1> DEFINE y == Len(a)
           t == TermAt(a, y)
<1>0. /\ Law(N, D, K) /\ World(N, K) /\ N \subseteq Message /\ ValidIn(N, K, d.log) /\ Len(d.log) \in Nat
      /\ Sound(p, r, d, N, D, K) /\ d.Term \in Nat
  <2>1. Fit(p, r, d, N, K) /\ Law(N, D, K) /\ World(N, K) /\ N \subseteq Message /\ Sound(p, r, d, N, D, K)
    BY SolidFields
  <2>2. d \in Disk
    BY <2>1 DEF Fit, Good, DiskOK
  <2>3. d.log \in Seq(Entry) /\ d.Term \in Nat
    BY <2>2 DEF Disk
  <2>4. Valid(N, d.log) /\ \A x, e : InLog(d.log, x, e) => <<x, e>> \in K
    BY <2>1 DEF Fit, ReplicaInv, LogInv
  <2> QED BY <2>1, <2>3, <2>4 DEF ValidIn
<1>1. y \in Nat /\ y > 0 /\ a[y].term = t /\ y \in 1..Len(a)
  <2>1. y \in Nat /\ y > 0
    BY DEF Chosen, ValidIn
  <2> QED BY <2>1 DEF TermAt
<1>2. PICK m \in N : Claim(m) /\ m.from = p /\ m.term = t /\ End(m) >= y
  BY DEF ClaimOf
<1>3. End(m) \in Nat /\ m.term \in Nat
  BY <1>0, EndType
<1>4. Backs(N, D, K, m, d.log, d.Term)
  BY <1>0, <1>2 DEF Sound, ClaimInv
<1>5. PICK l : /\ LeaderLog(N, K, l, m.term) /\ End(m) <= Len(l)
               /\ \/ m.term = d.Term /\ Agree(d.log, l, End(m))
                  \/ m.term < d.Term /\ Survives(N, D, m, l, d.log)
  BY <1>4 DEF Backs
<1>6. ValidIn(N, K, l) /\ Len(l) \in Nat /\ Len(l) \in 1..Len(l) /\ l[Len(l)].term = t /\ y <= Len(l)
  <2>1. ValidIn(N, K, l) /\ Len(l) \in Nat /\ Len(l) > 0 /\ l[Len(l)].term = t
    BY <1>2, <1>5 DEF LeaderLog, ValidIn
  <2> QED BY <1>1, <1>2, <1>3, <1>5, <2>1
<1> HIDE DEF y, t
<1>7. Agree(l, a, y)
  BY <1>0, <1>1, <1>6, OwnRun
<1>8. CASE Agree(d.log, l, End(m))
  <2>1. \A x \in 1..y : x \in 1..End(m)
    BY <1>1, <1>2, <1>3
  <2> QED BY <1>0, <1>1, <1>2, <1>3, <1>6, <1>7, <1>8, <2>1 DEF Agree, y
<1>9. CASE Survives(N, D, m, l, d.log)
  <2>1. y \in 1..End(m) /\ l[y].term = m.term
    BY <1>1, <1>2, <1>3, <1>7 DEF Agree
  <2>2. Has(d.log, y, t) \/ Dead(N, D, y, t)
    BY <1>2, <1>9, <2>1 DEF Survives
  <2>3. ~Dead(N, D, y, t)
    BY ChosenLives DEF y, t
  <2>4. y \in 1..Len(d.log) /\ d.log[y].term = a[y].term
    BY <1>1, <2>2, <2>3 DEF Has
  <2>5. y <= y
    BY <1>1
  <2>6. Agree(d.log, a, y)
    BY <1>0, <1>1, <2>4, <2>5, OwnRun
  <2> QED BY <2>6 DEF y
<1> QED BY <1>5, <1>8, <1>9

\* In a group of several servers, what anyone regards as committed is on the disks of a quorum; a
\* leader alone commits before its entry is on disk (raft.go:615-636).
THEOREM CommitsDurable == Spec => [](Several => CommittedDurable)
<1>1. TypeInv /\ ElectionInv /\ CommitInv => (Several => CommittedDurable)
  <2> SUFFICES ASSUME TypeInv, ElectionInv, CommitInv, Several, NEW i \in Server
               PROVE  JointHasQuorum(Conf, {v \in Server : HasPrefix(disk[v].log, Committed(i))})
    BY DEF CommittedDurable
  <2> DEFINE Q == {v \in Server : HasPrefix(disk[v].log, Committed(i))}
             log == node[i].log
             c == node[i].committed
  <2>1. PICK K : LogsHold(K) /\ CommitHolds(K)
    BY DEF CommitInv
  <2>2. Law(net, DiskTerms, K) /\ \A p \in Server : Solid(p, node[p], disk[p], net, DiskTerms, K)
    BY <2>1, LawHolds
  <2>3. Safe(net, K, log, c, node[i].Term)
    BY <2>2, SolidFields
  <2>4. c \in Nat /\ c <= Len(log) /\ log \in Seq(Entry) /\ Committed(i) = SubSeq(log, 1, c)
    BY CommittedFields DEF Committed
  <2>5. \A v \in Server : disk[v].log \in Seq(Entry)
    BY DEF TypeInv, Disk
  <2>6. ASSUME NEW v \in Server, c <= Len(disk[v].log), \A x \in 1..c : log[x] = disk[v].log[x]
        PROVE  v \in Q
    <3>1. HasPrefix(disk[v].log, SubSeq(log, 1, c))
      <4> HIDE DEF log, c
      <4> QED BY <2>4, <2>5, <2>6, PrefixIf
    <3> QED BY <2>4, <3>1
  <2>7. IsFiniteSet(Server) /\ Q \subseteq Server
    BY ServerAssumption
  <2>8. HasQuorum(Server, Q)
    <3>1. CASE c = 0
      <4>1. \A v \in Server : v \in Q
        <5>1. ASSUME NEW v \in Server PROVE v \in Q
          <6>1. c <= Len(disk[v].log) /\ \A x \in 1..c : log[x] = disk[v].log[x]
            BY <2>5, <3>1
          <6> QED BY <2>6, <6>1
        <5> QED BY <5>1
      <4>2. Q = Server
        BY <2>7, <4>1
      <4>3. 2 * Cardinality(Server) > Cardinality(Server) /\ Server \cap Server = Server
        <5>1. Cardinality(Server) \in Nat /\ Cardinality(Server) # 0
          BY <2>7, FS_CardinalityType, FS_EmptySet
        <5> QED BY <5>1
      <4> QED BY <4>2, <4>3 DEF HasQuorum
    <3>2. CASE c # 0
      <4>1. PICK a : ValidIn(net, K, a) /\ Agree(log, a, c) /\ Chosen(net, a)
        BY <2>3, <3>2 DEF Safe
      <4> DEFINE C == Claimants(net, TermAt(a, Len(a)), Len(a))
      <4>2. HasQuorum(Server, C)
        BY <4>1 DEF Chosen
      <4>3. ASSUME NEW v \in C PROVE v \in Q
        <5>1. v \in Server /\ ClaimOf(net, v, TermAt(a, Len(a)), Len(a))
          BY DEF Claimants
        <5>2. Agree(disk[v].log, a, Len(a))
          BY <2>2, <4>1, <5>1, ClaimantHas
        <5>3. Len(a) \in Nat /\ Len(disk[v].log) \in Nat
          BY <2>5, <4>1, <5>1 DEF ValidIn
        <5>4. c <= Len(disk[v].log) /\ \A x \in 1..c : log[x] = disk[v].log[x]
          BY <2>4, <4>1, <5>2, <5>3 DEF Agree
        <5> QED BY <2>6, <5>1, <5>4
      <4>4. C \subseteq Q
        BY <4>3
      <4> HIDE DEF C, Q
      <4> QED BY <2>7, <4>2, <4>4, HasQuorumMonotone
    <3> QED BY <3>1, <3>2
  <2> HIDE DEF Q
  <2>9. JointHasQuorum(Conf, Q)
    BY <2>8 DEF JointHasQuorum, HasQuorum, Conf
  <2> QED BY <2>9 DEF Q
<1> QED BY <1>1, CommitInvariant, PTL

-----------------------------------------------------------------------------
(* A group of one server *)

\* A server without peers sends nothing, and follows nobody.
Lone(i, r) == /\ StructOK(r) /\ r.msgs = {} /\ ~r.panicked
              /\ r.state # "Leader" => r.lead = None
              /\ r.state = "Leader" => r.prs[i].Match <= Len(r.log)

LoneInv == ~Several => net = {} /\ \A i \in Server : Lone(i, node[i])

\* It is alone.
LEMMA LoneServer ==
    ASSUME ~Several, NEW i \in Server
    PROVE  Server = {i} /\ Server \ {i} = {}
BY DEF Several

\* appendEntry commits at once, and not beyond the log (raft.go:615-636).
LEMMA LoneAppends ==
    ASSUME ~Several, NEW i \in Server, NEW r, Lone(i, r), r.state = "Leader", NEW data \in {"empty", "cmd"}
    PROVE  Lone(i, AppendEntry(i, r, data)) /\ AppendEntry(i, r, data).state = "Leader"
<1> DEFINE e    == [term |-> r.Term, data |-> data]
           log  == Append(r.log, e)
           size == r.uncommittedSize + PayloadSize(e)
           r1   == [r EXCEPT !.log = log, !.uncommittedSize = size]
           n    == LastIndex(r1)
           pr   == MaybeUpdate(r1.prs[i], n)
           r2   == [r1 EXCEPT !.prs[i] = pr]
           mci  == JointCommittedIndex(Conf, Acked(r2))
           s    == MaybeCommit(r2)
<1>0. /\ StructOK(r) /\ r \in RaftStruct /\ r.Term \in Nat /\ r.log \in Seq(Entry) /\ Len(r.log) \in Nat
      /\ r.committed \in Nat /\ r.committed <= Len(r.log) /\ r.prs \in [Server -> ProgressRecord]
      /\ r.uncommittedSize \in Nat
  BY StructFields DEF Lone, StructOK
<1>1. AppendEntry(i, r, data) = s
  BY DEF AppendEntry
<1>2. e \in Entry /\ PayloadSize(e) \in Nat
  BY <1>0 DEF Entry, PayloadSize
<1> HIDE DEF e
<1>3. log \in Seq(Entry) /\ Len(log) = Len(r.log) + 1 /\ size \in Nat /\ r.committed <= Len(log) /\ Len(log) \in Nat
  BY <1>0, <1>2
<1>4. Quiet(i, r, r1)
  <2> HIDE DEF log, size
  <2> QED BY <1>0, <1>3, LogQuiet
<1>5. /\ r1 \in RaftStruct /\ r1.log = log /\ r1.prs = r.prs /\ r1.msgs = r.msgs
      /\ r1.panicked = r.panicked /\ r1.state = r.state
  <2> HIDE DEF log, size
  <2> QED BY <1>0, <1>3 DEF RaftStruct
<1> HIDE DEF r1
<1>6. n = Len(log) /\ n \in Nat /\ StructOK(r1)
  BY <1>3, <1>4, <1>5 DEF LastIndex, Quiet, Grows
<1> HIDE DEF n, log
<1>7. pr \in ProgressRecord /\ pr.Match <= n
  <2>1. r1.prs[i] \in ProgressRecord /\ r1.prs[i].Match <= n
    <3>1. r.prs[i] \in ProgressRecord
      BY <1>0
    <3>2. r.prs[i].Match \in Nat /\ r.prs[i].Match <= Len(r.log)
      BY <3>1 DEF Lone, ProgressRecord
    <3>3. r.prs[i].Match <= n
      BY <1>0, <1>3, <1>6, <3>2
    <3> QED BY <1>5, <3>1, <3>3
  <2>2. pr \in ProgressRecord
    BY <1>6, <2>1, ProgressTypes
  <2>3. pr.Match = r1.prs[i].Match \/ pr.Match = n
    BY <2>1 DEF MaybeUpdate, ProgressRecord, Max2
  <2> QED BY <1>6, <2>1, <2>2, <2>3
<1> HIDE DEF pr
<1>8. Quiet(i, r1, r2)
  BY <1>6, <1>7, ProgressQuiet
<1>9. /\ r2.log = log /\ r2.msgs = {} /\ ~r2.panicked /\ r2.state = "Leader" /\ r2.prs[i] = pr
  BY <1>0, <1>5 DEF RaftStruct, Lone
<1> HIDE DEF r2
<1>10. StructOK(r2) /\ \A p \in Server : r2.prs[p].Match <= Len(r2.log)
  BY <1>6, <1>7, <1>8, <1>9, LoneServer DEF Quiet, Grows
<1>11. mci \in Nat /\ mci <= Len(r2.log)
  BY <1>10, CountedIndex
<1>12. s = CommitTo(r2, mci) \/ s = r2
  BY DEF MaybeCommit
<1>13. Quiet(i, r2, s)
  BY <1>10, MaybeCommitQuiet
<1> HIDE DEF mci, s
<1>14. CASE s = CommitTo(r2, mci)
  <2>1. s = [r2 EXCEPT !.committed = mci] \/ s = r2
    BY <1>10, <1>11, <1>14, StructFields DEF CommitTo, LastIndex
  <2>2. s.log = r2.log /\ s.msgs = r2.msgs /\ s.panicked = r2.panicked /\ s.state = r2.state /\ s.prs = r2.prs
    BY <1>10, <2>1 DEF StructOK, RaftStruct
  <2> QED BY <1>1, <1>9, <1>10, <1>13, <2>2 DEF Lone, Quiet, Grows
<1>15. CASE s = r2
  BY <1>1, <1>9, <1>10, <1>15 DEF Lone
<1> QED BY <1>12, <1>14, <1>15

\* becomeLeader (raft.go:718-757)
LEMMA LoneLeads ==
    ASSUME ~Several, NEW i \in Server, NEW r, Lone(i, r)
    PROVE  Lone(i, BecomeLeader(i, r)) /\ BecomeLeader(i, r).state = "Leader"
<1> DEFINE last == LastIndex(r)
           self == BecomeReplicate(NewProgress(last, last + 1))
           other == NewProgress(0, last + 1)
           prs  == [p \in Server |-> IF p = i THEN self ELSE other]
           t    == Reset(r, r.Term)
           u    == [t EXCEPT !.lead = i, !.state = "Leader", !.prs = prs]
           data == "empty"
           none == {}
<1>1. StructOK(r) /\ r \in RaftStruct /\ r.Term \in Nat /\ ~r.panicked /\ r.msgs = {} /\ last = Len(r.log) /\ last \in Nat
  BY StructFields DEF Lone, LastIndex, StructOK
<1>2. BecomeLeader(i, r) = AppendEntry(i, u, data)
  BY DEF BecomeLeader
<1>4. self \in ProgressRecord /\ other \in ProgressRecord /\ PeerOK(none, i, i, self, last, r.Term)
  <2> HIDE DEF last, none
  <2> QED BY <1>1, NewPeers
<1>5. prs \in [Server -> ProgressRecord] /\ prs[i].Match <= last
  BY <1>4 DEF PeerOK
<1> HIDE DEF self, other, last
<1>6. Turns(r, t, r.Term, r.Vote, r.state)
  BY <1>1, BecomeFollowerTurns DEF KeptVote
<1>7. t.panicked = r.panicked
  BY <1>1 DEF Reset, RaftStruct
<1> HIDE DEF t, prs
<1>8. /\ u \in RaftStruct /\ SameLog(r, u) /\ u.msgs = r.msgs /\ u.applied = r.applied
      /\ u.state = "Leader" /\ u.prs = prs /\ u.panicked = r.panicked
  BY <1>5, <1>6, <1>7 DEF Turns, Grows, StructOK, SameLog, RaftStruct
<1>9. data \in {"empty", "cmd"}
  OBVIOUS
<1> HIDE DEF u, data
<1>10. StructOK(u) /\ u.log = r.log
  BY <1>1, <1>8, TurnsIf DEF Turns, Grows, SameLog
<1>11. Lone(i, u)
  BY <1>1, <1>5, <1>8, <1>10 DEF Lone
<1> QED BY <1>2, <1>8, <1>9, <1>11, LoneAppends

\* Vote requests go to nobody (raft.go:785-844).
LEMMA LoneRequests ==
    ASSUME ~Several, NEW i \in Server, NEW c, NEW type, NEW term, NEW transfer
    PROVE  VoteRequests(i, c, type, term, transfer) = {}
BY LoneServer DEF VoteRequests

\* A campaign (raft.go:785-844)
LEMMA LoneCampaigns ==
    ASSUME ~Several, NEW i \in Server, NEW r, Lone(i, r), r.state # "Leader", NEW transfer \in BOOLEAN
    PROVE  Lone(i, CampaignElection(i, r, transfer))
<1> DEFINE c == NewCandidate(i, r)
           all == c.msgs \cup VoteRequests(i, c, "MsgVote", c.Term, transfer)
<1>1. StructOK(r) /\ r.msgs = {} /\ ~r.panicked
  BY DEF Lone
<1>2. Turns(r, c, r.Term + 1, i, "Candidate")
  BY <1>1, CampaignElectionTurns
<1>3. c.lead = None /\ c.panicked = r.panicked /\ c.msgs = r.msgs
  BY <1>1, CandidateFields
<1>4. \/ CampaignElection(i, r, transfer) = BecomeLeader(i, c)
      \/ CampaignElection(i, r, transfer) = [c EXCEPT !.msgs = all]
  BY DEF CampaignElection, NewCandidate
<1> HIDE DEF c
<1>5. Lone(i, c)
  BY <1>1, <1>2, <1>3 DEF Lone, Turns, Grows
<1>6. [c EXCEPT !.msgs = all] = c
  <2>1. all = c.msgs
    BY LoneRequests
  <2> HIDE DEF all
  <2> QED BY <1>5, <2>1 DEF Lone, StructOK, RaftStruct
<1>7. Lone(i, BecomeLeader(i, c))
  BY <1>5, LoneLeads
<1> QED BY <1>4, <1>5, <1>6, <1>7

\* A campaign with a pre-vote (raft.go:785-844)
LEMMA LonePreCampaigns ==
    ASSUME ~Several, NEW i \in Server, NEW r, Lone(i, r), r.state # "Leader"
    PROVE  Lone(i, CampaignPreElection(i, r))
<1> DEFINE c == NewPreCandidate(i, r)
           no == FALSE
           all == c.msgs \cup VoteRequests(i, c, "MsgPreVote", c.Term + 1, no)
<1>1. StructOK(r) /\ r.msgs = {} /\ ~r.panicked /\ no \in BOOLEAN
  BY DEF Lone
<1>2. Turns(r, c, r.Term, r.Vote, "PreCandidate")
  BY <1>1, CampaignPreElectionTurns
<1>3. c.lead = None /\ c.panicked = r.panicked /\ c.msgs = r.msgs
  BY <1>1, CandidateFields
<1>4. \/ CampaignPreElection(i, r) = CampaignElection(i, c, no)
      \/ CampaignPreElection(i, r) = [c EXCEPT !.msgs = all]
  BY DEF CampaignPreElection, NewPreCandidate
<1> HIDE DEF c, no
<1>5. Lone(i, c) /\ c.state # "Leader"
  BY <1>1, <1>2, <1>3 DEF Lone, Turns, Grows
<1>6. [c EXCEPT !.msgs = all] = c
  <2>1. all = c.msgs
    BY LoneRequests
  <2> HIDE DEF all
  <2> QED BY <1>5, <2>1 DEF Lone, StructOK, RaftStruct
<1>7. Lone(i, CampaignElection(i, c, no))
  BY <1>1, <1>5, LoneCampaigns
<1> QED BY <1>4, <1>5, <1>6, <1>7

\* A transfer is given up (raft.go:849-851).
LEMMA LoneEndsTransfer ==
    ASSUME NEW i \in Server, NEW r, Lone(i, r)
    PROVE  Lone(i, [r EXCEPT !.leadTransferee = None])
<1> DEFINE e == r.electionElapsed
           l == r.lead
           t == None
           s == [r EXCEPT !.electionElapsed = e, !.lead = l, !.leadTransferee = t]
<1>1. StructOK(r) /\ r \in RaftStruct /\ e \in {0, 1} /\ l \in Server \cup {None} /\ t \in Server \cup {None}
  BY StructFields DEF Lone, StructOK
<1>2. [r EXCEPT !.leadTransferee = None] = s
  BY <1>1 DEF RaftStruct
<1> HIDE DEF t
<1>3. /\ s.msgs = r.msgs /\ s.panicked = r.panicked /\ s.prs = r.prs /\ s.log = r.log /\ s.state = r.state
      /\ s.lead = r.lead
  BY <1>1 DEF RaftStruct
<1>4. StructOK(s)
  <2> HIDE DEF e, l
  <2> QED BY <1>1, OtherQuiet DEF Quiet, Grows
<1> HIDE DEF s
<1>5. Lone(i, s)
  BY <1>3, <1>4 DEF Lone
<1> QED BY <1>2, <1>5

\* bcastAppend (raft.go:518-525), and a proposal (raft.go:1007-1065)
LEMMA LoneProposes ==
    ASSUME ~Several, NEW i \in Server, scenario \in Scenarios, NEW r, Lone(i, r), r.state = "Leader"
    PROVE  Lone(i, BcastAppend(i, AppendEntry(i, r, "cmd")))
<1> DEFINE u == AppendEntry(i, r, "cmd")
           prs == [p \in Server |-> IF p = i THEN u.prs[p] ELSE SendAppend(i, u, p).prs[p]]
           msgs == u.msgs \cup UNION {SendAppend(i, u, p).msgs : p \in Server \ {i}}
           s == [u EXCEPT !.prs = prs, !.msgs = msgs]
<1>1. Lone(i, u) /\ u.state = "Leader"
  BY LoneAppends
<1>2. BcastAppend(i, u) = s
  BY DEF BcastAppend
<1> HIDE DEF u
<1>3. StructOK(u) /\ u \in RaftStruct /\ u.msgs = {} /\ ~u.panicked /\ u.prs[i].Match <= Len(u.log)
  BY <1>1 DEF Lone, StructOK
<1>4. prs[i] = u.prs[i]
  OBVIOUS
<1>5. msgs = {}
  BY <1>3, LoneServer
<1>6. StructOK(s)
  BY <1>1, <1>2, <1>3, BcastAppendQuiet DEF Quiet, Grows
<1> HIDE DEF prs, msgs
<1>7. s.prs = prs /\ s.msgs = msgs /\ s.panicked = u.panicked /\ s.log = u.log /\ s.state = u.state
  BY <1>3 DEF RaftStruct
<1> HIDE DEF s
<1>8. Lone(i, s)
  BY <1>1, <1>3, <1>4, <1>5, <1>6, <1>7 DEF Lone
<1> QED BY <1>2, <1>8 DEF u

\* MsgCheckQuorum at a leader, and the end of a transfer (raft.go:979-997)
LEMMA LoneTimesOut ==
    ASSUME ~Several, NEW i \in Server, Lone(i, node[i]), LeaderTimeout(i)
    PROVE  \E s : Update(i, s) /\ Lone(i, s)
<1> DEFINE r == node[i]
           f == BecomeFollower(r, r.Term, None)
           active == [p \in Server |-> [r.prs[p] EXCEPT !.RecentActive = (p = i)]]
           h == [r EXCEPT !.prs = active]
<1>1. /\ r.state = "Leader"
      /\ \/ Update(i, [r EXCEPT !.leadTransferee = None])
         \/ Update(i, [f EXCEPT !.leadTransferee = None])
         \/ Update(i, [h EXCEPT !.leadTransferee = None])
  BY DEF LeaderTimeout
<1>2. /\ StructOK(r) /\ r \in RaftStruct /\ r.Term \in Nat /\ r.prs \in [Server -> ProgressRecord]
      /\ r.msgs = {} /\ ~r.panicked /\ r.prs[i].Match <= Len(r.log)
  BY <1>1, StructFields DEF Lone, StructOK
<1>3. active \in [Server -> ProgressRecord] /\ active[i].Match = r.prs[i].Match
  BY <1>2 DEF ProgressRecord
<1>4. Lone(i, f)
  <2>1. StructOK(f)
    BY <1>2, BecomeFollowerTurns DEF Turns, Grows
  <2> QED BY <1>2, <2>1, BecomeFollowerFields DEF Lone
<1> HIDE DEF active
<1>5. Lone(i, h)
  <2>1. StructOK(h)
    BY <1>2, <1>3, ProgressesQuiet DEF Quiet, Grows
  <2>2. h.msgs = r.msgs /\ h.panicked = r.panicked /\ h.prs = active /\ h.log = r.log /\ h.state = r.state
    BY <1>2 DEF RaftStruct
  <2> QED BY <1>1, <1>2, <1>3, <2>1, <2>2 DEF Lone
<1> HIDE DEF f, h
<1>6. ASSUME NEW t, Lone(i, t), Update(i, [t EXCEPT !.leadTransferee = None])
      PROVE  \E s : Update(i, s) /\ Lone(i, s)
  <2>1. Lone(i, [t EXCEPT !.leadTransferee = None])
    BY <1>6, LoneEndsTransfer
  <2> QED BY <1>6, <2>1
<1> QED BY <1>1, <1>4, <1>5, <1>6

\* What a server alone does by itself.
LEMMA LoneSteps ==
    ASSUME ~Several, TypeInv, NEW i \in Server, Lone(i, node[i]),
           \/ Hup(i) \/ LeaseExpires(i) \/ Beat(i) \/ LeaderTimeout(i) \/ Propose(i)
           \/ \E to \in MayTransferTo : TransferLeader(i, to)
    PROVE  \E s : Update(i, s) /\ Lone(i, s)
<1> DEFINE r == node[i]
<1>0. StructOK(r) /\ r \in RaftStruct /\ r.msgs = {} /\ scenario \in Scenarios
  BY DEF Lone, StructOK, TypeInv
<1>1. CASE Hup(i)
  <2>1. r.state # "Leader" /\ (Update(i, CampaignPreElection(i, r)) \/ Update(i, CampaignElection(i, r, FALSE)))
    BY <1>1 DEF Hup
  <2>2. Lone(i, CampaignPreElection(i, r)) /\ Lone(i, CampaignElection(i, r, FALSE))
    <3> DEFINE no == FALSE
    <3>1. no \in BOOLEAN
      OBVIOUS
    <3> HIDE DEF no
    <3>2. Lone(i, CampaignElection(i, r, no))
      BY <2>1, <3>1, LoneCampaigns
    <3> QED BY <2>1, <3>2, LonePreCampaigns DEF no
  <2> QED BY <2>1, <2>2
<1>2. CASE LeaseExpires(i)
  BY <1>2 DEF LeaseExpires, Lone
<1>3. CASE Beat(i)
  <2> DEFINE all == r.msgs \cup {Heartbeat(i, r, p) : p \in Server \ {i}}
  <2>1. Update(i, [r EXCEPT !.msgs = all])
    BY <1>3 DEF Beat
  <2>2. all = r.msgs
    BY LoneServer
  <2> HIDE DEF all
  <2>3. [r EXCEPT !.msgs = all] = r
    BY <1>0, <2>2 DEF RaftStruct
  <2> QED BY <2>1, <2>3
<1>4. CASE LeaderTimeout(i)
  BY <1>4, LoneTimesOut
<1>5. CASE Propose(i)
  <2>1. r.state = "Leader" /\ Update(i, BcastAppend(i, AppendEntry(i, r, "cmd")))
    BY <1>5 DEF Propose, HandleProp, Lone
  <2>2. Lone(i, BcastAppend(i, AppendEntry(i, r, "cmd")))
    BY <1>0, <2>1, LoneProposes
  <2> QED BY <2>1, <2>2
<1>6. ASSUME NEW to \in MayTransferTo, TransferLeader(i, to)
      PROVE  \E s : Update(i, s) /\ Lone(i, s)
  <2>1. Update(i, HandleTransferLeader(i, r, to, 0))
    BY <1>6 DEF TransferLeader
  <2>2. to = i
    <3>1. to \in Server
      BY <1>0, ScenarioAssumption DEF MayTransferTo
    <3> QED BY <3>1, LoneServer
  <2>3. HandleTransferLeader(i, r, to, 0) \in {r, [r EXCEPT !.leadTransferee = None]}
    <3>1. CASE r.state = "Leader" /\ r.leadTransferee = to
      BY <3>1 DEF HandleTransferLeader
    <3>2. CASE r.state = "Leader" /\ r.leadTransferee # to
      BY <2>2, <3>2 DEF HandleTransferLeader
    <3>3. CASE r.state # "Leader"
      BY <3>3 DEF HandleTransferLeader, Lone
    <3> QED BY <3>1, <3>2, <3>3
  <2>4. Lone(i, [r EXCEPT !.leadTransferee = None])
    BY LoneEndsTransfer
  <2> QED BY <2>1, <2>3, <2>4
<1> QED BY <1>1, <1>2, <1>3, <1>4, <1>5, <1>6

\* Ready and Advance of a server with nothing to send (rawnode.go:122-163)
LEMMA LoneAdvances ==
    ASSUME NEW i \in Server, NEW r, Lone(i, r)
    PROVE  Lone(i, Advanced(r))
<1> DEFINE z == ReduceUncommittedSize(r)
           c == r.committed
           s == [r EXCEPT !.msgs = {}, !.applied = c, !.uncommittedSize = z]
<1>1. StructOK(r) /\ r \in RaftStruct
  BY DEF Lone, StructOK
<1>2. Advanced(r) = s
  BY DEF Advanced
<1>3. StructOK(s) /\ s.msgs = {}
  BY <1>1, <1>2, AdvancedType
<1> HIDE DEF z, c
<1>4. s.panicked = r.panicked /\ s.prs = r.prs /\ s.log = r.log /\ s.state = r.state /\ s.lead = r.lead
  BY <1>1 DEF RaftStruct
<1> HIDE DEF s
<1>5. Lone(i, s)
  BY <1>3, <1>4 DEF Lone
<1> QED BY <1>2, <1>5

\* It starts from its disk (raft.go:318-355).
LEMMA LoneStarts ==
    ASSUME NEW i \in Server, NEW d, DiskOK(d)
    PROVE  Lone(i, FromDisk(d))
<1>1. StructOK(FromDisk(d)) /\ FromDisk(d).state = "Follower" /\ FromDisk(d).msgs = {}
  BY FromDiskType
<1>2. FromDisk(d).lead = None /\ ~FromDisk(d).panicked
  <2>1. ~(d.Commit < d.offset \/ d.Commit > Len(d.log))
    BY DEF DiskOK, Disk
  <2> QED BY <2>1 DEF FromDisk, BecomeFollower, Reset
<1> QED BY <1>1, <1>2 DEF Lone

\* Every step of a group of one server keeps its invariant.
LEMMA LoneInvNext ==
    ASSUME TypeInv, LoneInv, [Next]_vars
    PROVE  LoneInv'
<1> SUFFICES ASSUME ~Several PROVE net' = {} /\ \A i \in Server : Lone(i, node'[i])
  BY DEF LoneInv, Several, Lone
<1>0. net = {} /\ \A i \in Server : Lone(i, node[i])
  BY DEF LoneInv
<1>1. CASE UNCHANGED vars
  BY <1>0, <1>1 DEF vars
<1>2. ASSUME NEW i \in Server, net' = {}, Lone(i, node'[i])
      PROVE  net' = {} /\ \A j \in Server : Lone(j, node'[j])
  BY <1>2, LoneServer
<1>3. CASE Next
  <2>1. PICK i \in Server :
          \/ Hup(i) \/ LeaseExpires(i) \/ Beat(i) \/ LeaderTimeout(i) \/ Propose(i)
          \/ \E to \in MayTransferTo : TransferLeader(i, to)
          \/ \E to \in Server \ {i} : ReportUnreachable(i, to)
          \/ \E to \in Server \ {i}, failed \in BOOLEAN : ReportSnapshot(i, to, failed)
          \/ \E m \in {n \in net : n.to = i} : Step(i, m)
          \/ Ready(i) \/ Compact(i) \/ Restart(i)
    BY <1>3 DEF Next
  <2>2. Lone(i, node[i]) /\ Server \ {i} = {} /\ node[i].msgs = {}
    BY <1>0, LoneServer DEF Lone
  <2>3. CASE Ready(i)
    <3>1. node'[i] = Advanced(node[i]) /\ net' = net \cup node[i].msgs
      BY <2>3, ReadyType
    <3> QED BY <1>0, <1>2, <2>2, <3>1, LoneAdvances
  <2>4. CASE Compact(i)
    <3> DEFINE r == node[i]
               o == Max2(r.offset, r.applied)
    <3>1. net' = net /\ StructOK(node'[i])
      BY <2>4, CompactType DEF Grows
    <3>2. node'[i] = [r EXCEPT !.offset = o] /\ r \in RaftStruct
      BY <2>2, <2>4 DEF Compact, TypeInv
    <3> HIDE DEF o
    <3>3. /\ node'[i].msgs = r.msgs /\ node'[i].panicked = r.panicked /\ node'[i].prs = r.prs
          /\ node'[i].log = r.log /\ node'[i].state = r.state /\ node'[i].lead = r.lead
      BY <3>2 DEF RaftStruct
    <3>4. Lone(i, node'[i])
      BY <2>2, <3>1, <3>3 DEF Lone
    <3> QED BY <1>0, <1>2, <3>1, <3>4
  <2>5. CASE Restart(i)
    <3>1. node'[i] = FromDisk(disk[i]) /\ net' = net /\ DiskOK(disk[i])
      BY <2>5, RestartType DEF TypeInv
    <3> QED BY <1>0, <1>2, <3>1, LoneStarts
  <2>6. CASE ~(Ready(i) \/ Compact(i) \/ Restart(i))
    <3>1. \/ Hup(i) \/ LeaseExpires(i) \/ Beat(i) \/ LeaderTimeout(i) \/ Propose(i)
          \/ \E to \in MayTransferTo : TransferLeader(i, to)
      BY <1>0, <2>1, <2>2, <2>6
    <3>2. PICK s : Update(i, s) /\ Lone(i, s)
      BY <2>2, <3>1, LoneSteps
    <3>3. \/ node'[i] = s /\ net' = net
          \/ node'[i] = Advanced(s) /\ net' = net \cup s.msgs
      BY <3>2, UpdateEffect
    <3>4. net' = {}
      BY <1>0, <3>2, <3>3 DEF Lone
    <3>5. Lone(i, node'[i])
      BY <3>2, <3>3, LoneAdvances
    <3> QED BY <1>2, <3>4, <3>5
  <2> QED BY <2>1, <2>3, <2>4, <2>5, <2>6
<1> QED BY <1>1, <1>3

\* A server alone sends nothing, and does not panic.
THEOREM LoneInvariant == Spec => []LoneInv
<1>1. Init => LoneInv
  <2> SUFFICES ASSUME Init PROVE net = {} /\ \A i \in Server : Lone(i, node[i])
    BY DEF LoneInv
  <2>1. DiskOK(EmptyDisk)
    BY DEF DiskOK, Disk, EmptyDisk
  <2> QED BY <2>1, LoneStarts DEF Init
<1>2. TypeInv /\ LoneInv /\ [Next]_vars => LoneInv'
  BY LoneInvNext
<1> QED BY <1>1, <1>2, CommitInvariant, PTL DEF Spec

\* The panics of raft.go, log.go and tracker are unreachable: the commit index that a leader sends is
\* within the log of the follower, no MsgApp conflicts with what is committed, and the leader to which
\* a request for a transfer is forwarded does not forward it again (log.go:88-125, 233-241,
\* raft.go:357-390, 689-716).
THEOREM PanicsUnreachable == Spec => []NoPanic
<1>1. TypeInv /\ ElectionInv /\ CommitInv /\ LoneInv => NoPanic
  <2> SUFFICES ASSUME TypeInv, ElectionInv, CommitInv, LoneInv, NEW i \in Server PROVE ~node[i].panicked
    BY DEF NoPanic
  <2>1. CASE Several
    <3>1. PICK K : LogsHold(K) /\ CommitHolds(K)
      BY <2>1 DEF CommitInv
    <3>2. Solid(i, node[i], disk[i], net, DiskTerms, K)
      BY <3>1, LawHolds
    <3> QED BY <3>2, SolidFields
  <2>2. CASE ~Several
    BY <2>2 DEF LoneInv, Lone
  <2> QED BY <2>1, <2>2
<1> QED BY <1>1, CommitInvariant, LoneInvariant, PTL

\* A MsgApp is anchored at an entry its leader has, of a real term: Next never points beyond the end
\* of the leader's log, where the term would be 0 (raft.go:424-455, log.go:257-275).
THEOREM AppsAnchored == Spec => []AppAnchored
<1>1. TypeInv /\ ElectionInv /\ CommitInv /\ LoneInv => AppAnchored
  <2> SUFFICES ASSUME TypeInv, ElectionInv, CommitInv, LoneInv, NEW m \in net, m.type = "MsgApp", m.index > 0
               PROVE  m.logTerm > 0
    BY DEF AppAnchored
  <2>1. Several
    BY DEF LoneInv
  <2>2. PICK K : LogsHold(K) /\ CommitHolds(K)
    BY <2>1 DEF CommitInv
  <2>3. Law(net, DiskTerms, K)
    BY <2>2, LawHolds
  <2>4. PICK a : LeaderLog(net, K, a, m.term) /\ End(m) <= Len(a) /\ m.logTerm = TermAt(a, m.index)
    BY <2>3 DEF Law, MsgOK, AppOK
  <2>5. ValidIn(net, K, a) /\ Len(a) \in Nat
    BY <2>4 DEF LeaderLog, ValidIn
  <2>6. m.index \in 1..Len(a)
    <3>1. m.index \in Nat /\ Len(m.entries) \in Nat
      BY DEF TypeInv, Message
    <3>2. m.index + Len(m.entries) <= Len(a)
      BY <2>4 DEF End
    <3> QED BY <2>5, <3>1, <3>2
  <2>7. a[m.index].term > 0
    BY <2>3, <2>5, <2>6, TermsGrow
  <2> QED BY <2>4, <2>6, <2>7 DEF TermAt
<1> QED BY <1>1, CommitInvariant, LoneInvariant, PTL
=============================================================================

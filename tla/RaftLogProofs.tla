--------------------------- MODULE RaftLogProofs ---------------------------
(***************************************************************************)
(* Type correctness of Raft, for every number of servers, of terms and of  *)
(* log entries, and what every operator on the raft struct leaves alone.   *)
(* The indexes of a server stay in order: compacted, committed, last.      *)
(* Then flow control: for any size of the window the leader keeps the      *)
(* contract of Inflights.  Then elections under any pattern of crashes,    *)
(* and messages that are lost, late, repeated and reordered.               *)
(*                                                                         *)
(* At the end, logs: those that agree on the term of an entry agree up to  *)
(* it.  The idea: what stands before an entry is decided by the index and  *)
(* the term of the entry alone.  The first entry of a term stands behind   *)
(* the log with which its leader asked for votes, and the request is in    *)
(* the network for good; the other ones stand behind an entry of the same  *)
(* term.                                                                   *)
(***************************************************************************)
EXTENDS Raft, QuorumProofs, SequenceTheorems

-----------------------------------------------------------------------------
(* The inductive invariant *)

\* A snapshot ends at its index.
SnapshotComplete(m) == m.type = "MsgSnap" => m.index = Len(m.entries)

\* The raft struct: its indexes are in order.
StructOK(r) == /\ r \in RaftStruct
               /\ r.offset <= r.committed /\ r.applied <= r.committed
               /\ r.committed <= Len(r.log)
               /\ \A m \in r.msgs : SnapshotComplete(m)

DiskOK(d) == d \in Disk /\ d.offset <= d.Commit /\ d.Commit <= Len(d.log)

\* Server and disk: the server is ahead, except for what was applied.
AheadOfDisk(r, d) == d.Commit <= r.committed /\ d.offset <= r.offset /\ r.applied <= d.Commit

TypeInv == /\ scenario \in Scenarios
           /\ node \in [Server -> RaftStruct] /\ disk \in [Server -> Disk] /\ net \subseteq Message
           /\ \A i \in Server : /\ StructOK(node[i]) /\ DiskOK(disk[i])
                                /\ AheadOfDisk(node[i], disk[i])
           /\ \A m \in net : SnapshotComplete(m)

-----------------------------------------------------------------------------
(* Sequences and numbers *)

\* A part of a sequence: its length and its elements, with ErrCompacted and the end of the
\* log (log.go:361-393) already excluded by the caller.
LEMMA SubSeqType ==
    ASSUME NEW S, NEW s \in Seq(S), NEW m \in Nat \ {0}, NEW n \in Int, n <= Len(s)
    PROVE  /\ SubSeq(s, m, n) \in Seq(S)
           /\ Len(SubSeq(s, m, n)) = IF m <= n THEN n - m + 1 ELSE 0
           /\ \A k \in 1..(n - m + 1) : SubSeq(s, m, n)[k] = s[m + k - 1]
<1>1. CASE m <= n
  <2>1. m \in 1..(Len(s) + 1) /\ n \in (m - 1)..Len(s)
    BY <1>1
  <2> QED BY <2>1, SubSeqProperties
<1>2. CASE ~(m <= n)
  <2>1. SubSeq(s, m, n) = <<>>
    BY <1>2, SubSeqEmpty
  <2>2. 1..(n - m + 1) = {}
    BY <1>2
  <2> QED BY <1>2, <2>1, <2>2
<1> QED BY <1>1, <1>2

\* A set of naturals that is bounded and not empty has a largest element.
LEMMA LargestNat ==
    ASSUME NEW T \in SUBSET Nat, T # {}, NEW b \in Nat, \A x \in T : x <= b
    PROVE  \E x \in T : \A y \in T : y <= x
<1> DEFINE D == {n \in Nat : b - n \in T}
<1>1. D # {}
  <2>1. PICK x \in T : TRUE
    OBVIOUS
  <2>2. b - x \in Nat /\ b - (b - x) = x
    BY <2>1
  <2> QED BY <2>1, <2>2
<1>2. PICK n \in D : \A y \in D : n <= y
  BY <1>1, LeastNat
<1>3. \A y \in T : y <= b - n
  <2> TAKE y \in T
  <2>1. b - y \in Nat /\ b - (b - y) = y
    OBVIOUS
  <2>2. b - y \in D
    BY <2>1
  <2> QED BY <1>2, <2>1, <2>2
<1> QED BY <1>2, <1>3

IsBound(h, k, b) == b \in Nat /\ \A j \in 1..k : h[j] <= b

\* The values of a finite sequence have an upper bound, by induction on its length.
LEMMA SequenceIsBounded ==
    ASSUME NEW n \in Nat, NEW h \in [1..n -> Nat]
    PROVE  \E b : IsBound(h, n, b)
<1> DEFINE Unbound == {k \in 0..n : ~ \E b : IsBound(h, k, b)}
<1> SUFFICES ASSUME ~ \E b : IsBound(h, n, b) PROVE FALSE
  OBVIOUS
<1>1. PICK k \in Unbound : \A y \in Unbound : k <= y
  <2>1. Unbound \in SUBSET Nat /\ n \in Unbound
    OBVIOUS
  <2> HIDE DEF Unbound
  <2> QED BY <2>1, LeastNat
<1>2. k \in 0..n /\ ~ \E b : IsBound(h, k, b)
  OBVIOUS
<1>3. k # 0
  <2>1. IsBound(h, 0, 0)
    BY DEF IsBound
  <2> QED BY <1>2, <2>1
<1>4. k - 1 \in 0..n /\ ~(k <= k - 1) /\ k \in 1..n
  BY <1>2, <1>3
<1>5. PICK b : IsBound(h, k - 1, b)
  BY <1>1, <1>4, Zenon
<1> HIDE DEF Unbound
<1>6. IsBound(h, k, b + h[k])
  <2>1. h[k] \in Nat
    BY <1>4
  <2>2. b \in Nat /\ b + h[k] \in Nat
    <3>1. b \in Nat
      BY <1>5 DEF IsBound
    <3>2. \A x \in Nat, y \in Nat : x + y \in Nat
      OBVIOUS
    <3> QED BY <2>1, <3>1, <3>2
  <2>3. ASSUME NEW j \in 1..k PROVE h[j] <= b + h[k]
    <3>1. j \in 1..n /\ h[j] \in Nat
      BY <1>4
    <3>2. CASE j = k
      BY <2>1, <2>2, <3>2
    <3>3. CASE j # k
      BY <1>4, <1>5, <2>1, <2>2, <3>1, <3>3 DEF IsBound
    <3> QED BY <3>2, <3>3
  <2> QED BY <2>2, <2>3 DEF IsBound
<1> QED BY <1>2, <1>6

\* So have finitely many naturals.
LEMMA FiniteIsBounded ==
    ASSUME NEW S, IsFiniteSet(S), NEW f \in [S -> Nat]
    PROVE  \E b \in Nat : \A x \in S : f[x] <= b
<1>1. PICK n \in Nat : ExistsSurjection(1..n, S)
  BY FS_NatSurjection
<1>2. PICK g \in Surjection(1..n, S) : TRUE
  BY <1>1 DEF ExistsSurjection
<1>3. g \in [1..n -> S] /\ \A x \in S : \E k \in 1..n : g[k] = x
  BY <1>2 DEF Surjection
<1> DEFINE h == [k \in 1..n |-> f[g[k]]]
<1>4. h \in [1..n -> Nat]
  BY <1>3
<1>5. PICK b : IsBound(h, n, b)
  <2> HIDE DEF h
  <2> QED BY <1>4, SequenceIsBounded
<1>6. \A x \in S : f[x] <= b
  BY <1>3, <1>5 DEF IsBound
<1> QED BY <1>5, <1>6 DEF IsBound

-----------------------------------------------------------------------------
(* Messages and progress *)

IsMsg(m, type, from, to, term) ==
    /\ m \in Message
    /\ m.type = type /\ m.from = from /\ m.to = to /\ m.term = term
    /\ m.index = 0 /\ m.commit = 0 /\ m.reject = FALSE /\ m.entries = <<>>

\* A message as Msg builds it.
LEMMA MsgType ==
    ASSUME NEW type \in MessageTypes, NEW from \in Server, NEW to \in Server, NEW term \in Nat
    PROVE  IsMsg(Msg(type, from, to, term), type, from, to, term)
<1>1. <<>> \in Seq(Entry)
  OBVIOUS
<1> QED BY <1>1 DEF IsMsg, Msg, Message

\* How many messages FreeLE frees is defined: it stops before the first one above `to`.
LEMMA FreedType ==
    ASSUME NEW window \in Seq(Nat), NEW to \in Nat
    PROVE  /\ Freed(window, to) \in 0..Len(window)
           /\ Freed(window, to) < Len(window) => window[Freed(window, to) + 1] > to
<1> DEFINE Above == {k \in Nat : k = Len(window) \/ (k < Len(window) /\ window[k + 1] > to)}
<1>1. Above \in SUBSET Nat /\ Len(window) \in Above
  OBVIOUS
<1>2. PICK k \in Above : \A y \in Above : k <= y
  <2> HIDE DEF Above
  <2> QED BY <1>1, LeastNat
<1>3. k \in 0..Len(window)
  OBVIOUS
<1>4. k < Len(window) => window[k + 1] > to
  OBVIOUS
<1>5. ASSUME NEW j \in 1..k PROVE window[j] <= to
  <2>1. j - 1 \in Nat /\ ~(k <= j - 1) /\ j - 1 < Len(window)
    BY <1>3
  <2>2. j - 1 \notin Above
    BY <1>2, <2>1
  <2>3. ~(window[j] > to)
    BY <2>1, <2>2
  <2> QED BY <1>3, <2>3
<1>6. \E x \in 0..Len(window) : /\ \A j \in 1..x : window[j] <= to
                                /\ x < Len(window) => window[x + 1] > to
  BY <1>3, <1>4, <1>5
<1> QED BY <1>6 DEF Freed

\* min and max of util.go and tracker.go.
LEMMA MinMaxType ==
    ASSUME NEW a \in Nat, NEW b \in Nat
    PROVE  /\ Max2(a, b) \in Nat /\ Max2(a, b) >= a /\ Max2(a, b) >= b
           /\ Min2(a, b) \in Nat /\ Min2(a, b) <= a /\ Min2(a, b) <= b
BY DEF Max2, Min2

\* The progress that reset builds is one.
LEMMA NewProgressType ==
    ASSUME NEW a \in Nat, NEW b \in Nat \ {0}
    PROVE  NewProgress(a, b) \in ProgressRecord
BY DEF NewProgress, ProgressRecord

\* Every operator on a progress yields a progress.
LEMMA ProgressTypes ==
    ASSUME NEW pr \in ProgressRecord, NEW n \in Nat, NEW k \in Nat
    PROVE  /\ BecomeProbe(pr) \in ProgressRecord
           /\ BecomeReplicate(pr) \in ProgressRecord
           /\ BecomeSnapshot(pr, n) \in ProgressRecord
           /\ MaybeUpdate(pr, n) \in ProgressRecord
           /\ SentUpTo(pr, n) \in ProgressRecord
           /\ FreeLE(pr, n) \in ProgressRecord
           /\ MaybeDecrTo(pr, n, k) \in ProgressRecord
           /\ pr.Inflights # <<>> => FreeFirstOne(pr) \in ProgressRecord
<1>0. <<>> \in Seq(Nat) /\ pr.Inflights \in Seq(Nat)
  BY DEF ProgressRecord
<1>a. /\ pr.Match \in Nat /\ pr.Match + 1 \in Nat \ {0} /\ n + 1 \in Nat \ {0}
      /\ pr.PendingSnapshot \in Nat /\ pr.PendingSnapshot + 1 \in Nat \ {0}
      /\ pr.Next \in Nat \ {0}
  BY DEF ProgressRecord
<1>b. \A x, y \in Nat \ {0} : Max2(x, y) \in Nat \ {0}
  BY DEF Max2
<1>1. BecomeProbe(pr) \in ProgressRecord
  <2> DEFINE next == IF pr.State = "Snapshot" THEN Max2(pr.Match + 1, pr.PendingSnapshot + 1)
                     ELSE pr.Match + 1
  <2>1. next \in Nat \ {0}
    BY <1>a, <1>b
  <2> DEFINE r1 == ResetState(pr, "Probe")
  <2>2. BecomeProbe(pr) = [r1 EXCEPT !.Next = next]
    BY DEF BecomeProbe
  <2>3. r1 \in ProgressRecord
    BY <1>0 DEF ResetState, ProgressRecord
  <2> HIDE DEF next, r1
  <2> QED BY <2>1, <2>2, <2>3 DEF ProgressRecord
<1>2. BecomeReplicate(pr) \in ProgressRecord
  <2> DEFINE next == pr.Match + 1
             r1 == ResetState(pr, "Replicate")
  <2>1. BecomeReplicate(pr) = [r1 EXCEPT !.Next = next]
    BY DEF BecomeReplicate
  <2>2. next \in Nat \ {0}
    BY <1>a
  <2>3. r1 \in ProgressRecord
    BY <1>0 DEF ResetState, ProgressRecord
  <2> HIDE DEF next, r1
  <2> QED BY <2>1, <2>2, <2>3 DEF ProgressRecord
<1>3. BecomeSnapshot(pr, n) \in ProgressRecord
  BY <1>0 DEF BecomeSnapshot, ResetState, ProgressRecord
<1>4. MaybeUpdate(pr, n) \in ProgressRecord
  <2> DEFINE match == Max2(pr.Match, n)
             next == Max2(pr.Next, n + 1)
             sent == IF Updates(pr, n) THEN FALSE ELSE pr.ProbeSent
  <2>1. MaybeUpdate(pr, n) = [pr EXCEPT !.Match = match, !.Next = next, !.ProbeSent = sent]
    BY DEF MaybeUpdate
  <2>2. match \in Nat /\ next \in Nat \ {0} /\ sent \in BOOLEAN
    BY <1>a, <1>b, MinMaxType DEF ProgressRecord
  <2> HIDE DEF match, next, sent
  <2> QED BY <2>1, <2>2 DEF ProgressRecord
<1>5. SentUpTo(pr, n) \in ProgressRecord
  <2> DEFINE w == Append(pr.Inflights, n)
             next == n + 1
  <2>1. w \in Seq(Nat) /\ next \in Nat \ {0}
    BY <1>0, <1>a
  <2>2. SentUpTo(pr, n) = [pr EXCEPT !.Next = next, !.Inflights = w]
    BY DEF SentUpTo
  <2> HIDE DEF w, next
  <2> QED BY <2>1, <2>2 DEF ProgressRecord
<1>6. FreeLE(pr, n) \in ProgressRecord
  <2> DEFINE w == pr.Inflights
             f == Freed(w, n)
  <2>1. f \in 0..Len(w)
    BY <1>0, FreedType
  <2> HIDE DEF f
  <2>2. SubSeq(w, f + 1, Len(w)) \in Seq(Nat)
    BY <1>0, <2>1, SubSeqType
  <2> QED BY <2>2 DEF FreeLE, ProgressRecord, f
<1>7. MaybeDecrTo(pr, n, k) \in ProgressRecord
  <2> DEFINE next == pr.Match + 1
             back == Max2(Min2(n, k + 1), 1)
  <2>1. next \in Nat \ {0} /\ back \in Nat \ {0}
    BY <1>a DEF Min2, Max2
  <2>2. MaybeDecrTo(pr, n, k) \in {[pr EXCEPT !.Next = next],
                                   [pr EXCEPT !.Next = back, !.ProbeSent = FALSE]}
    BY DEF MaybeDecrTo
  <2> HIDE DEF next, back
  <2>3. /\ [pr EXCEPT !.Next = next] \in ProgressRecord
        /\ [pr EXCEPT !.Next = back, !.ProbeSent = FALSE] \in ProgressRecord
    BY <2>1 DEF ProgressRecord
  <2> QED BY <2>2, <2>3
<1>8. pr.Inflights # <<>> => FreeFirstOne(pr) \in ProgressRecord
  <2>1. pr.Inflights # <<>> => Tail(pr.Inflights) \in Seq(Nat)
    BY <1>0
  <2> QED BY <2>1 DEF FreeFirstOne, ProgressRecord
<1> QED BY <1>1, <1>2, <1>3, <1>4, <1>5, <1>6, <1>7, <1>8

\* The same for the operators of the handlers.
LEMMA HandlerProgressTypes ==
    ASSUME NEW pr \in ProgressRecord, NEW n \in Nat, NEW failed \in BOOLEAN
    PROVE  /\ AckProgress(pr, n) \in ProgressRecord
           /\ Resumed(pr) \in ProgressRecord
           /\ SnapshotStatus(pr, failed) \in ProgressRecord
<1>1. AckProgress(pr, n) \in ProgressRecord
  <2> DEFINE pr1 == MaybeUpdate(pr, n)
  <2>1. pr1 \in ProgressRecord
    BY ProgressTypes
  <2> HIDE DEF pr1
  <2>2. /\ BecomeReplicate(pr1) \in ProgressRecord /\ FreeLE(pr1, n) \in ProgressRecord
        /\ BecomeReplicate(BecomeProbe(pr1)) \in ProgressRecord
    BY <2>1, ProgressTypes
  <2>3. /\ pr1.State \in {"Probe", "Replicate", "Snapshot"} /\ pr1.Match \in Nat
        /\ pr1.PendingSnapshot \in Nat
    BY <2>1 DEF ProgressRecord
  <2>4. pr1.Match >= pr1.PendingSnapshot \/ pr1.Match < pr1.PendingSnapshot
    BY <2>3
  <2>5. AckProgress(pr, n) \in {BecomeReplicate(pr1), FreeLE(pr1, n), BecomeReplicate(BecomeProbe(pr1)), pr1}
    BY <2>3, <2>4 DEF AckProgress, pr1
  <2> QED BY <2>1, <2>2, <2>5
<1>2. Resumed(pr) \in ProgressRecord
  <2> DEFINE pr1 == [pr EXCEPT !.RecentActive = TRUE, !.ProbeSent = FALSE]
  <2>1. pr1 \in ProgressRecord
    BY DEF ProgressRecord
  <2> HIDE DEF pr1
  <2>2. Full(pr1) => pr1.Inflights # <<>>
    BY <2>1, MaxInflightAssumption DEF Full, ProgressRecord
  <2> QED BY <2>1, <2>2, ProgressTypes DEF Resumed, pr1
<1>3. SnapshotStatus(pr, failed) \in ProgressRecord
  <2> DEFINE pr1 == IF failed THEN [pr EXCEPT !.PendingSnapshot = 0] ELSE pr
  <2>1. pr1 \in ProgressRecord
    BY DEF ProgressRecord
  <2>2. SnapshotStatus(pr, failed) = [BecomeProbe(pr1) EXCEPT !.ProbeSent = TRUE]
    BY DEF SnapshotStatus
  <2> HIDE DEF pr1
  <2>3. BecomeProbe(pr1) \in ProgressRecord
    BY <2>1, ProgressTypes
  <2> QED BY <2>2, <2>3 DEF ProgressRecord
<1> QED BY <1>1, <1>2, <1>3

-----------------------------------------------------------------------------
(* Steps of one server.  s grows from r: its indexes only move forward.    *)
(* It follows quietly if moreover it casts no vote and enters no new term  *)
(* and no new role: such a step has no part in elections.                  *)

\* A granted MsgVoteResp tells whom its sender voted for in its term.
Grants(m) == m.type = "MsgVoteResp" /\ ~m.reject

\* A message that grants no vote. Only a leader sends as one, and only who voted for itself asks
\* for votes.
QuietMessage(i, r, m) ==
    /\ m \in Message /\ SnapshotComplete(m) /\ ~Grants(m)
    /\ FromLeader(m) => r.state = "Leader" /\ m.from = i /\ m.term = r.Term
    /\ m.type = "MsgVote" => r.Vote = i /\ m.from = i /\ m.term = r.Term

Grows(r, s) ==
    /\ StructOK(s)
    /\ s.applied = r.applied /\ s.committed >= r.committed /\ s.offset >= r.offset

Quiet(i, r, s) ==
    /\ Grows(r, s)
    /\ s.Term = r.Term /\ s.Vote = r.Vote /\ s.state = r.state /\ s.votes = r.votes
    /\ \A m \in s.msgs : m \in r.msgs \/ QuietMessage(i, r, m)

\* The fields that no quiet step changes.
Same(r, s) == /\ s.Term = r.Term /\ s.Vote = r.Vote /\ s.state = r.state /\ s.votes = r.votes
              /\ s.applied = r.applied

SameLog(r, s) == s.log = r.log /\ s.offset = r.offset /\ s.committed = r.committed

\* The fields of a raft struct.
LEMMA StructFields ==
    ASSUME NEW r, StructOK(r)
    PROVE  /\ r.Term \in Nat /\ r.Vote \in Server \cup {None}
           /\ r.state \in {"Follower", "PreCandidate", "Candidate", "Leader"}
           /\ r.lead \in Server \cup {None} /\ r.leadTransferee \in Server \cup {None}
           /\ r.electionElapsed \in {0, 1} /\ r.votes \in [Server -> Votes]
           /\ r.prs \in [Server -> ProgressRecord] /\ r.log \in Seq(Entry)
           /\ r.offset \in Nat /\ r.committed \in Nat /\ r.applied \in Nat
           /\ r.uncommittedSize \in Nat /\ r.msgs \subseteq Message /\ r.panicked \in BOOLEAN
           /\ LastIndex(r) \in Nat
BY DEF StructOK, RaftStruct, LastIndex

\* Growing, and growing quietly, are transitive: a handler is as quiet as its steps.
LEMMA QuietTransitive ==
    ASSUME NEW i, NEW r, NEW s, NEW t, StructOK(r), Quiet(i, r, s), Quiet(i, s, t)
    PROVE  Quiet(i, r, t)
<1>1. StructOK(s) /\ StructOK(t)
  BY DEF Quiet, Grows
<1>2. Grows(r, t)
  BY <1>1, StructFields DEF Quiet, Grows
<1> QED BY <1>2 DEF Quiet, QuietMessage

\* Growth composes: the calls of a handler one after the other.
LEMMA GrowsTransitive ==
    ASSUME NEW r, NEW s, NEW t, StructOK(r), Grows(r, s), Grows(s, t)
    PROVE  Grows(r, t)
<1>1. StructOK(s) /\ StructOK(t)
  BY DEF Grows
<1> QED BY <1>1, StructFields DEF Grows

\* Doing nothing is quiet.
LEMMA QuietSelf ==
    ASSUME NEW i, NEW r, StructOK(r)
    PROVE  Quiet(i, r, r)
BY StructFields DEF Quiet, Grows

\* What remains to be shown of a quiet step.
LEMMA SameIsQuiet ==
    ASSUME NEW i, NEW r, NEW s, StructOK(r), s \in RaftStruct, Same(r, s),
           s.committed >= r.committed, s.offset >= r.offset, s.offset <= s.committed,
           s.committed <= Len(s.log),
           \A m \in s.msgs : m \in r.msgs \/ QuietMessage(i, r, m)
    PROVE  Quiet(i, r, s)
<1>1. s.applied <= s.committed
  <2>1. s.committed \in Nat
    BY DEF RaftStruct
  <2> QED BY <2>1, StructFields DEF StructOK, Same
<1>2. \A m \in s.msgs : SnapshotComplete(m)
  BY DEF StructOK, QuietMessage
<1> QED BY <1>1, <1>2 DEF Quiet, Grows, StructOK, Same

\* The indexes of a log that is not touched stay in order.
LEMMA LogIsKept ==
    ASSUME NEW r, NEW s, StructOK(r), SameLog(r, s)
    PROVE  /\ s.committed >= r.committed /\ s.offset >= r.offset /\ s.offset <= s.committed
           /\ s.committed <= Len(s.log)
BY StructFields DEF SameLog, StructOK

\* What may be sent without a part in elections: what only the leader sends, a refused vote,
\* and messages of the other kinds.
LEMMA QuietMessages ==
    ASSUME NEW i \in Server, NEW r, NEW m \in Message, SnapshotComplete(m),
           \/ m.type \notin {"MsgApp", "MsgHeartbeat", "MsgSnap", "MsgVote", "MsgVoteResp"}
           \/ m.type \notin {"MsgVote", "MsgVoteResp"} /\ r.state = "Leader" /\ m.from = i /\ m.term = r.Term
           \/ m.type = "MsgVote" /\ r.Vote = i /\ m.from = i /\ m.term = r.Term
           \/ m.type = "MsgVoteResp" /\ m.reject
    PROVE  QuietMessage(i, r, m)
BY DEF QuietMessage, Grants, FromLeader

\* Whatever is sent, send leaves all but msgs alone (raft.go:357-390).
LEMMA SendsQuiet ==
    ASSUME NEW i, NEW r, NEW M, StructOK(r), \A m \in M : QuietMessage(i, r, m)
    PROVE  Quiet(i, r, [r EXCEPT !.msgs = r.msgs \cup M])
<1> DEFINE all == r.msgs \cup M
           s == [r EXCEPT !.msgs = all]
<1>1. all \subseteq Message
  BY StructFields DEF QuietMessage
<1>2. \A m \in all : m \in r.msgs \/ QuietMessage(i, r, m)
  OBVIOUS
<1> HIDE DEF all
<1>3. s \in RaftStruct /\ s.msgs = all /\ Same(r, s) /\ SameLog(r, s)
  BY <1>1 DEF Same, SameLog, StructOK, RaftStruct
<1> HIDE DEF s
<1>4. Quiet(i, r, s)
  BY <1>2, <1>3, SameIsQuiet, LogIsKept
<1> QED BY <1>4 DEF s, all

\* send() with one message (raft.go:388-422).
LEMMA SendQuiet ==
    ASSUME NEW i, NEW r, NEW m, StructOK(r), QuietMessage(i, r, m)
    PROVE  Quiet(i, r, Send(r, m))
<1>1. Quiet(i, r, [r EXCEPT !.msgs = r.msgs \cup {m}])
  BY SendsQuiet
<1> QED BY <1>1 DEF Send

\* A panic leaves the state as it was.
LEMMA PanicQuiet ==
    ASSUME NEW i, NEW r, StructOK(r)
    PROVE  Quiet(i, r, Panic(r))
<1>1. /\ Panic(r) \in RaftStruct /\ Panic(r).msgs = r.msgs
      /\ Same(r, Panic(r)) /\ SameLog(r, Panic(r))
  BY DEF Panic, Same, SameLog, StructOK, RaftStruct
<1> QED BY <1>1, SameIsQuiet, LogIsKept

\* The commit index moves forward and stays within the log (log.go:233-241).
LEMMA CommitToQuiet ==
    ASSUME NEW i, NEW r, NEW c \in Nat, StructOK(r)
    PROVE  Quiet(i, r, CommitTo(r, c))
<1>1. CASE r.committed >= c
  BY <1>1, QuietSelf DEF CommitTo
<1>2. CASE ~(r.committed >= c) /\ LastIndex(r) < c
  BY <1>2, PanicQuiet DEF CommitTo
<1>3. CASE ~(r.committed >= c) /\ ~(LastIndex(r) < c)
  <2>1. CommitTo(r, c) = [r EXCEPT !.committed = c]
    BY <1>3 DEF CommitTo
  <2>2. c >= r.committed /\ r.offset <= c /\ r.applied <= c /\ c <= Len(r.log)
    BY <1>3, StructFields DEF StructOK, LastIndex
  <2> DEFINE s == [r EXCEPT !.committed = c]
  <2>3. /\ s \in RaftStruct /\ s.msgs = r.msgs /\ Same(r, s)
        /\ s.committed = c /\ s.offset = r.offset /\ s.log = r.log
    BY DEF Same, StructOK, RaftStruct
  <2> HIDE DEF s
  <2>4. Quiet(i, r, s)
    BY <2>2, <2>3, SameIsQuiet, StructFields
  <2> QED BY <2>1, <2>4 DEF s
<1> QED BY <1>1, <1>2, <1>3

\* What a leader knows of the followers has no part in elections.
LEMMA ProgressesQuiet ==
    ASSUME NEW i, NEW r, NEW prs \in [Server -> ProgressRecord], StructOK(r)
    PROVE  Quiet(i, r, [r EXCEPT !.prs = prs])
<1> DEFINE s == [r EXCEPT !.prs = prs]
<1>1. s \in RaftStruct /\ s.msgs = r.msgs /\ Same(r, s) /\ SameLog(r, s)
  BY DEF Same, SameLog, StructOK, RaftStruct
<1> QED BY <1>1, SameIsQuiet, LogIsKept

\* The same for the progress of one peer: the handlers of the answers (raft.go:1102-1300).
LEMMA ProgressQuiet ==
    ASSUME NEW i, NEW r, NEW to \in Server, NEW pr \in ProgressRecord, StructOK(r)
    PROVE  Quiet(i, r, [r EXCEPT !.prs[to] = pr])
<1> DEFINE prs == [r.prs EXCEPT ![to] = pr]
<1>1. prs \in [Server -> ProgressRecord]
  BY StructFields
<1>2. [r EXCEPT !.prs[to] = pr] = [r EXCEPT !.prs = prs]
  BY DEF StructOK, RaftStruct
<1> HIDE DEF prs
<1> QED BY <1>1, <1>2, ProgressesQuiet

\* Nor has the log, as long as the committed part is kept.
LEMMA LogQuiet ==
    ASSUME NEW i, NEW r, NEW log \in Seq(Entry), NEW size \in Nat, StructOK(r),
           r.committed <= Len(log)
    PROVE  Quiet(i, r, [r EXCEPT !.log = log, !.uncommittedSize = size])
<1> DEFINE s == [r EXCEPT !.log = log, !.uncommittedSize = size]
<1>1. /\ s \in RaftStruct /\ s.msgs = r.msgs /\ Same(r, s)
      /\ s.committed = r.committed /\ s.offset = r.offset /\ s.log = log
  BY DEF Same, StructOK, RaftStruct
<1>2. r.offset <= r.committed /\ r.applied <= r.committed
  BY DEF StructOK
<1> HIDE DEF s
<1>3. Quiet(i, r, s)
  BY <1>1, <1>2, SameIsQuiet, StructFields
<1> QED BY <1>3 DEF s

\* The rest of the volatile state.
LEMMA OtherQuiet ==
    ASSUME NEW i, NEW r, StructOK(r), NEW e \in {0, 1}, NEW l \in Server \cup {None},
           NEW t \in Server \cup {None}
    PROVE  Quiet(i, r, [r EXCEPT !.electionElapsed = e, !.lead = l, !.leadTransferee = t])
<1> DEFINE s == [r EXCEPT !.electionElapsed = e, !.lead = l, !.leadTransferee = t]
<1>1. s \in RaftStruct /\ s.msgs = r.msgs /\ Same(r, s) /\ SameLog(r, s)
  BY DEF Same, SameLog, StructOK, RaftStruct
<1> QED BY <1>1, SameIsQuiet, LogIsKept

-----------------------------------------------------------------------------
(* The log *)

\* term(i) is defined everywhere (log.go:257-275), and so is the index that
\* findConflictByTerm stops at, at index 0 at the latest (log.go:140-166).
LEMMA TermType ==
    ASSUME NEW r, StructOK(r), NEW k \in Int
    PROVE  Term(r, k) \in Nat /\ (k <= 0 => Term(r, k) = 0)
<1> DEFINE lo == Max2(r.offset, 1)
<1>1. lo \in Nat /\ lo >= 1
  BY StructFields DEF Max2
<1>2. CASE k < lo \/ k > LastIndex(r)
  BY <1>2 DEF Term
<1>3. CASE ~(k < lo \/ k > LastIndex(r))
  <2>1. k \in 1..Len(r.log) /\ ~(k <= 0)
    BY <1>1, <1>3, StructFields DEF LastIndex
  <2>2. r.log[k] \in Entry
    BY <2>1, StructFields
  <2>3. Term(r, k) = r.log[k].term
    BY <1>3 DEF Term
  <2> QED BY <2>1, <2>2, <2>3 DEF Entry
<1> QED BY <1>2, <1>3

\* The hint of a rejection is an index, whatever log it is searched in (log.go:143-163).
LEMMA FindConflictByTermType ==
    ASSUME NEW r, StructOK(r), NEW index \in Nat, NEW t \in Nat
    PROVE  FindConflictByTerm(r, index, t) \in Nat
<1>1. CASE index > LastIndex(r)
  BY <1>1 DEF FindConflictByTerm
<1>2. CASE ~(index > LastIndex(r))
  <2> DEFINE Low == {k \in 0..index : Term(r, k) <= t}
  <2>1. Low \in SUBSET Nat /\ 0 \in Low /\ \A k \in Low : k <= index
    BY TermType
  <2>2. PICK k \in Low : \A y \in Low : y <= k
    <3> HIDE DEF Low
    <3> QED BY <2>1, LargestNat
  <2>3. ASSUME NEW j \in (k + 1)..index PROVE Term(r, j) > t
    <3>1. j \in 0..index /\ ~(j <= k)
      BY <2>2
    <3>2. Term(r, j) \in Nat
      BY TermType
    <3> QED BY <2>2, <3>1, <3>2
  <2>4. \E x \in 0..index : Term(r, x) <= t /\ \A j \in (x + 1)..index : Term(r, j) > t
    BY <2>2, <2>3
  <2> QED BY <1>2, <2>4 DEF FindConflictByTerm
<1> QED BY <1>1, <1>2

\* findConflict is 0 or the index of one of the entries (log.go:127-138).
LEMMA FindConflictType ==
    ASSUME NEW r, NEW prev \in Nat, NEW ents \in Seq(Entry)
    PROVE  FindConflict(r, prev, ents) \in {0} \cup (prev + 1)..(prev + Len(ents))
<1> DEFINE bad == {k \in 1..Len(ents) : ~MatchTerm(r, prev + k, ents[k].term)}
<1>1. CASE bad = {}
  BY <1>1 DEF FindConflict
<1>2. CASE bad # {}
  <2>1. bad \in SUBSET Nat /\ bad \subseteq 1..Len(ents)
    OBVIOUS
  <2> HIDE DEF bad
  <2>2. \E k \in bad : \A j \in bad : k <= j
    BY <1>2, <2>1, LeastNat
  <2> DEFINE k == CHOOSE k \in bad : \A j \in bad : k <= j
  <2>3. k \in bad
    BY <2>2
  <2>4. FindConflict(r, prev, ents) = prev + k
    BY <1>2 DEF FindConflict, bad
  <2> HIDE DEF k
  <2>5. k \in 1..Len(ents)
    BY <2>1, <2>3
  <2> QED BY <2>4, <2>5
<1> QED BY <1>1, <1>2

\* maybeAppend replaces the log only behind the commit index, and without a gap
\* (log.go:88-125, log_unstable.go:122-165).
LEMMA MaybeAppendQuiet ==
    ASSUME NEW i, NEW r, NEW prev \in Nat, NEW ents \in Seq(Entry), NEW commit \in Nat, StructOK(r)
    PROVE  Quiet(i, r, MaybeAppend(r, prev, ents, commit))
<1> DEFINE ci == FindConflict(r, prev, ents)
           log == SubSeq(r.log, 1, ci - 1) \o SubSeq(ents, ci - prev, Len(ents))
           r1 == IF ci = 0 THEN r
                 ELSE IF ci <= r.committed \/ ci > LastIndex(r) + 1 THEN Panic(r)
                 ELSE [r EXCEPT !.log = log]
           c  == Min2(commit, prev + Len(ents))
<1>1. MaybeAppend(r, prev, ents, commit) = CommitTo(r1, c)
  BY DEF MaybeAppend
<1>2. ci \in {0} \cup (prev + 1)..(prev + Len(ents)) /\ c \in Nat
  <2>1. prev + Len(ents) \in Nat
    OBVIOUS
  <2> QED BY <2>1, FindConflictType, MinMaxType
<1>3. Quiet(i, r, r1)
  <2>1. CASE ci = 0
    BY <2>1, QuietSelf
  <2>2. CASE ci # 0 /\ (ci <= r.committed \/ ci > LastIndex(r) + 1)
    BY <2>2, PanicQuiet
  <2>3. CASE ci # 0 /\ ~(ci <= r.committed \/ ci > LastIndex(r) + 1)
    <3> HIDE DEF ci
    <3>1. /\ ci - 1 \in Int /\ ci - 1 <= Len(r.log) /\ ci - prev \in Nat \ {0}
          /\ 1 \in Nat \ {0} /\ Len(ents) \in Int /\ ci > r.committed
      BY <1>2, <2>3, StructFields DEF LastIndex
    <3> DEFINE front == SubSeq(r.log, 1, ci - 1)
               back == SubSeq(ents, ci - prev, Len(ents))
    <3>2. front \in Seq(Entry) /\ Len(front) = ci - 1
      <4>1. r.log \in Seq(Entry)
        BY StructFields
      <4>2. front \in Seq(Entry) /\ Len(front) = IF 1 <= ci - 1 THEN ci - 1 - 1 + 1 ELSE 0
        BY <3>1, <4>1, SubSeqType
      <4> HIDE DEF front
      <4>3. ci \in Nat /\ ci >= 1
        BY <1>2, <2>3
      <4> QED BY <4>2, <4>3
    <3>3. back \in Seq(Entry) /\ Len(back) = Len(ents) - (ci - prev) + 1
      <4>1. /\ back \in Seq(Entry)
            /\ Len(back) = IF ci - prev <= Len(ents) THEN Len(ents) - (ci - prev) + 1 ELSE 0
        BY <3>1, SubSeqType
      <4> HIDE DEF back
      <4>2. ci - prev <= Len(ents)
        BY <1>2, <2>3
      <4> QED BY <4>1, <4>2
    <3>4. log \in Seq(Entry) /\ Len(log) = prev + Len(ents)
      <4>1. log = front \o back
        OBVIOUS
      <4> HIDE DEF front, back, log
      <4>2. log \in Seq(Entry) /\ Len(log) = Len(front) + Len(back)
        BY <3>2, <3>3, <4>1, ConcatProperties
      <4>3. ci \in Nat /\ Len(ents) \in Nat
        BY <1>2
      <4> QED BY <3>2, <3>3, <4>2, <4>3
    <3>5. Len(log) >= r.committed
      <4> HIDE DEF log
      <4>1. ci \in Nat /\ Len(ents) \in Nat /\ ci <= prev + Len(ents)
        BY <1>2, <2>3
      <4> QED BY <3>1, <3>4, <4>1, StructFields
    <3>6. r1 = [r EXCEPT !.log = log, !.uncommittedSize = r.uncommittedSize]
      BY <2>3 DEF StructOK, RaftStruct
    <3> HIDE DEF log, r1
    <3> QED BY <3>4, <3>5, <3>6, LogQuiet, StructFields
  <2> QED BY <2>1, <2>2, <2>3
<1> HIDE DEF r1, c
<1>4. Quiet(i, r1, CommitTo(r1, c))
  BY <1>2, <1>3, CommitToQuiet DEF Quiet, Grows
<1> QED BY <1>1, <1>3, <1>4, QuietTransitive

-----------------------------------------------------------------------------
(* Commitment and replication *)

\* The index that a quorum has acknowledged is one (quorum/majority.go:126-172).
LEMMA AckedIndexType ==
    ASSUME NEW r, StructOK(r)
    PROVE  JointCommittedIndex(Conf, Acked(r)) \in Nat
<1> DEFINE f == Acked(r)
<1>1. f \in [Server -> Nat]
  BY StructFields DEF Acked, ProgressRecord
<1> HIDE DEF f
<1>2. PICK hi \in Nat : \A p \in Server : f[p] <= hi
  BY <1>1, ServerAssumption, FiniteIsBounded
<1>3. f \in [Server -> 0..hi]
  BY <1>1, <1>2
<1>4. CommittedIndex(Server, f) \in 0..hi
  BY <1>3, ServerAssumption, CommittedIndexMeaning
<1>5. CommittedIndex({}, f) = 1000000
  BY DEF CommittedIndex, Unbounded
<1>6. Conf[1] = Server /\ Conf[2] = {}
  BY DEF Conf
<1>7. JointCommittedIndex(Conf, f) \in {CommittedIndex(Server, f), CommittedIndex({}, f)}
  BY <1>6 DEF JointCommittedIndex
<1>8. JointCommittedIndex(Conf, f) \in Nat
  BY <1>4, <1>5, <1>7
<1> QED BY <1>8 DEF f

\* maybeCommit (raft.go:579-582)
LEMMA MaybeCommitQuiet ==
    ASSUME NEW i, NEW r, StructOK(r)
    PROVE  Quiet(i, r, MaybeCommit(r))
BY CommitToQuiet, QuietSelf, AckedIndexType DEF MaybeCommit

\* appendEntry extends the log (raft.go:615-636).
LEMMA AppendEntryQuiet ==
    ASSUME NEW i \in Server, NEW r, NEW data \in {"empty", "cmd"}, StructOK(r)
    PROVE  Quiet(i, r, AppendEntry(i, r, data))
<1> DEFINE e    == [term |-> r.Term, data |-> data]
           log  == Append(r.log, e)
           size == r.uncommittedSize + PayloadSize(e)
           r1   == [r EXCEPT !.log = log, !.uncommittedSize = size]
           pr   == MaybeUpdate(r1.prs[i], LastIndex(r1))
           r2   == [r1 EXCEPT !.prs[i] = pr]
<1>1. AppendEntry(i, r, data) = MaybeCommit(r2)
  BY DEF AppendEntry
<1>2. log \in Seq(Entry) /\ Len(log) = Len(r.log) + 1 /\ size \in Nat
  <2>1. e \in Entry
    BY StructFields DEF Entry
  <2> QED BY <2>1, StructFields DEF PayloadSize
<1>3. Quiet(i, r, r1)
  <2>1. r.committed <= Len(log)
    BY <1>2, StructFields DEF StructOK
  <2> HIDE DEF log, size
  <2> QED BY <1>2, <2>1, LogQuiet
<1> HIDE DEF r1
<1>4. StructOK(r1)
  BY <1>3 DEF Quiet, Grows
<1>5. pr \in ProgressRecord
  BY <1>4, StructFields, ProgressTypes
<1> HIDE DEF pr
<1>6. Quiet(i, r1, r2)
  BY <1>4, <1>5, ProgressQuiet
<1> HIDE DEF r2
<1>7. Quiet(i, r2, MaybeCommit(r2))
  BY <1>6, MaybeCommitQuiet DEF Quiet, Grows
<1> QED BY <1>1, <1>3, <1>4, <1>6, <1>7, QuietTransitive

\* What comes of a quiet step is a raft struct in the same role.
LEMMA QuietStruct ==
    ASSUME NEW i, NEW r, NEW s, Quiet(i, r, s)
    PROVE  StructOK(s) /\ s.state = r.state
  BY DEF Quiet, Grows

\* maybeSendAppend: entries from Next on or a snapshot, and what that does to the progress
\* (raft.go:424-491).
LEMMA MaybeSendAppendQuiet ==
    ASSUME NEW i \in Server, NEW r, NEW to \in Server, NEW sendIfEmpty,
           scenario \in Scenarios, StructOK(r), r.state = "Leader"
    PROVE  Quiet(i, r, MaybeSendAppend(i, r, to, sendIfEmpty))
<1> DEFINE pr        == r.prs[to]
           compacted == Compacted(r, pr.Next)
           upto      == Min2(LastIndex(r), pr.Next + MaxEnts - 1)
           ents      == IF compacted THEN <<>> ELSE SubSeq(r.log, pr.Next, upto)
           last      == pr.Next + Len(ents) - 1
           anchor    == Term(r, pr.Next - 1)
           app       == [Msg("MsgApp", i, to, r.Term) EXCEPT
                           !.index = pr.Next - 1, !.logTerm = anchor,
                           !.entries = ents, !.commit = r.committed]
           base      == Term(r, r.offset)
           data      == SubSeq(r.log, 1, r.offset)
           snap      == [Msg("MsgSnap", i, to, r.Term) EXCEPT
                           !.index = r.offset, !.logTerm = base, !.entries = data]
           pr1       == BecomeSnapshot(r.prs[to], r.offset)
           pr2       == IF ents = <<>> THEN r.prs[to]
                        ELSE IF pr.State = "Replicate" THEN SentUpTo(r.prs[to], last)
                        ELSE [r.prs[to] EXCEPT !.ProbeSent = TRUE]
           r1        == [r EXCEPT !.prs[to] = pr1]
           r2        == [r EXCEPT !.prs[to] = pr2]
<1>1. MaybeSendAppend(i, r, to, sendIfEmpty) \in {r, Send(r1, snap), Send(r2, app)}
  BY DEF MaybeSendAppend
<1>2. /\ r.log \in Seq(Entry) /\ Len(r.log) \in Nat /\ LastIndex(r) = Len(r.log)
      /\ r.offset \in Nat /\ r.offset <= Len(r.log) /\ r.committed \in Nat /\ r.Term \in Nat
  BY StructFields DEF StructOK, LastIndex
<1>3. /\ pr \in ProgressRecord /\ pr.Next \in Nat \ {0} /\ pr.Next - 1 \in Nat
      /\ upto \in Int /\ upto <= Len(r.log)
  <2>1. pr \in ProgressRecord
    BY StructFields
  <2>2. pr.Next \in Nat \ {0} /\ MaxEnts \in Nat \ {0}
    BY <2>1, ScenarioAssumption DEF ProgressRecord, MaxEnts
  <2>3. pr.Next - 1 \in Nat /\ pr.Next + MaxEnts - 1 \in Nat
    <3>1. \A x, y \in Nat \ {0} : x - 1 \in Nat /\ x + y - 1 \in Nat
      OBVIOUS
    <3> QED BY <2>2, <3>1
  <2>4. upto \in Nat /\ upto <= LastIndex(r)
    BY <1>2, <2>3, MinMaxType
  <2> QED BY <1>2, <2>1, <2>2, <2>3, <2>4
<1>4. ents \in Seq(Entry) /\ Len(ents) \in Nat /\ last \in Nat
  <2> HIDE DEF upto, pr
  <2>1. SubSeq(r.log, pr.Next, upto) \in Seq(Entry) /\ <<>> \in Seq(Entry)
    BY <1>2, <1>3, SubSeqType
  <2>2. ents \in Seq(Entry)
    BY <2>1
  <2> HIDE DEF ents
  <2> QED BY <1>3, <2>2
<1>5. data \in Seq(Entry) /\ Len(data) = r.offset
  <2>1. 1 \in Nat \ {0} /\ r.offset \in Int
    BY <1>2
  <2>2. data \in Seq(Entry) /\ Len(data) = IF 1 <= r.offset THEN r.offset - 1 + 1 ELSE 0
    BY <1>2, <2>1, SubSeqType
  <2> HIDE DEF data
  <2> QED BY <1>2, <2>2
<1>6. anchor \in Nat /\ base \in Nat
  <2>1. pr.Next - 1 \in Int /\ r.offset \in Int
    BY <1>2, <1>3
  <2> QED BY <2>1, TermType
<1>7. QuietMessage(i, r, app)
  <2> DEFINE m == Msg("MsgApp", i, to, r.Term)
  <2>1. IsMsg(m, "MsgApp", i, to, r.Term)
    <3>1. "MsgApp" \in MessageTypes
      BY DEF MessageTypes
    <3> QED BY <1>2, <3>1, MsgType
  <2>2. app = [m EXCEPT !.index = pr.Next - 1, !.logTerm = anchor, !.entries = ents, !.commit = r.committed]
    OBVIOUS
  <2> HIDE DEF m, pr, ents, anchor
  <2>3. app \in Message /\ app.type = "MsgApp" /\ app.from = i /\ app.term = r.Term
    BY <1>2, <1>3, <1>4, <1>6, <2>1, <2>2 DEF IsMsg, Message
  <2> HIDE DEF app
  <2> QED BY <2>3, QuietMessages DEF SnapshotComplete
<1>8. QuietMessage(i, r, snap)
  <2> DEFINE m == Msg("MsgSnap", i, to, r.Term)
  <2>1. IsMsg(m, "MsgSnap", i, to, r.Term)
    <3>1. "MsgSnap" \in MessageTypes
      BY DEF MessageTypes
    <3> QED BY <1>2, <3>1, MsgType
  <2>2. snap = [m EXCEPT !.index = r.offset, !.logTerm = base, !.entries = data]
    OBVIOUS
  <2> HIDE DEF m, base, data
  <2>3. /\ snap \in Message /\ snap.type = "MsgSnap" /\ snap.from = i /\ snap.term = r.Term
        /\ snap.index = r.offset /\ snap.entries = data
    BY <1>2, <1>5, <1>6, <2>1, <2>2 DEF IsMsg, Message
  <2> HIDE DEF snap
  <2> QED BY <1>5, <2>3, QuietMessages DEF SnapshotComplete
<1>9. Quiet(i, r, r1) /\ Quiet(i, r, r2)
  <2>1. pr1 \in ProgressRecord
    BY <1>2, <1>3, ProgressTypes
  <2>2. pr2 \in ProgressRecord
    <3>1. SentUpTo(pr, last) \in ProgressRecord
      <4> HIDE DEF pr, last
      <4> QED BY <1>3, <1>4, ProgressTypes
    <3>2. [pr EXCEPT !.ProbeSent = TRUE] \in ProgressRecord
      <4> HIDE DEF pr
      <4> QED BY <1>3 DEF ProgressRecord
    <3> HIDE DEF ents, last
    <3> QED BY <1>3, <3>1, <3>2
  <2> HIDE DEF pr1, pr2
  <2> QED BY <2>1, <2>2, ProgressQuiet
<1> HIDE DEF app, snap, r1, r2
<1>10. QuietMessage(i, r1, snap) /\ QuietMessage(i, r2, app)
  BY <1>7, <1>8, <1>9 DEF Quiet, QuietMessage
<1>11. Quiet(i, r1, Send(r1, snap)) /\ Quiet(i, r2, Send(r2, app))
  BY <1>9, <1>10, SendQuiet DEF Quiet, Grows
<1>12. Quiet(i, r, Send(r1, snap)) /\ Quiet(i, r, Send(r2, app)) /\ Quiet(i, r, r)
  BY <1>9, <1>11, QuietTransitive, QuietSelf
<1> QED BY <1>1, <1>12

\* The states that the rounds of the loop `for maybeSendAppend(to, false) {}` go through.
IsRounds(i, r, to, f) ==
    f = [n \in Nat |-> IF n = 0 THEN r ELSE MaybeSendAppend(i, f[n - 1], to, FALSE)]

\* The recursion of SendAllAppends is well founded: there is such a function. Its first n
\* values exist for every n, and are the same for all larger n.
LEMMA RoundsExist ==
    ASSUME NEW i, NEW r, NEW to
    PROVE  \E f : IsRounds(i, r, to, f)
<1> DEFINE Round(s) == MaybeSendAppend(i, s, to, FALSE)
           UpToRound(g, n) == g = [k \in 0..n |-> IF k = 0 THEN r ELSE Round(g[k - 1])]
           Missing == {n \in Nat : ~ \E g : UpToRound(g, n)}
<1> HIDE DEF Round
<1>1. Missing = {}
  <2> SUFFICES ASSUME Missing # {} PROVE FALSE
    OBVIOUS
  <2>1. PICK x \in Missing : \A y \in Missing : x <= y
    BY LeastNat
  <2>2. x # 0
    <3>1. UpToRound([k \in 0..0 |-> r], 0)
      OBVIOUS
    <3> QED BY <2>1, <3>1
  <2>3. x - 1 \in Nat /\ x - 1 \notin Missing
    <3> HIDE DEF UpToRound
    <3>1. x \in Nat
      BY <2>1
    <3> QED BY <2>1, <2>2, <3>1
  <2>4. PICK g : UpToRound(g, x - 1)
    BY <2>3
  <2> DEFINE h == [k \in 0..x |-> IF k < x THEN g[k] ELSE Round(g[x - 1])]
  <2>5. UpToRound(h, x)
    <3>1. \A k \in 0..x : h[k] = IF k = 0 THEN r ELSE Round(h[k - 1])
      BY <2>1, <2>2, <2>4
    <3>2. h = [k \in 0..x |-> h[k]]
      OBVIOUS
    <3> HIDE DEF h
    <3> QED BY <3>1, <3>2
  <2> QED BY <2>1, <2>5
<1> DEFINE G(n) == CHOOSE g : UpToRound(g, n)
<1>2. \A n \in Nat : UpToRound(G(n), n)
  BY <1>1
<1> HIDE DEF G
<1>3. ASSUME NEW n \in Nat, NEW m \in Nat, m <= n
      PROVE  G(n)[m] = G(m)[m]
  <2> DEFINE Differ == {k \in Nat : \E l \in Nat : k <= l /\ l <= n /\ G(n)[k] # G(l)[k]}
  <2> SUFFICES ASSUME Differ # {} PROVE FALSE
    BY <1>3
  <2>1. PICK k \in Differ : \A y \in Differ : k <= y
    BY LeastNat
  <2>2. PICK l \in Nat : k <= l /\ l <= n /\ G(n)[k] # G(l)[k]
    BY <2>1
  <2>3. /\ G(n)[k] = (IF k = 0 THEN r ELSE Round(G(n)[k - 1]))
        /\ G(l)[k] = (IF k = 0 THEN r ELSE Round(G(l)[k - 1]))
    <3>1. k \in 0..n /\ k \in 0..l
      BY <2>1, <2>2
    <3>2. UpToRound(G(n), n) /\ UpToRound(G(l), l)
      BY <1>2
    <3> QED BY <3>1, <3>2
  <2>4. k # 0
    BY <2>2, <2>3
  <2>5. k - 1 \in Nat /\ k - 1 <= l /\ k - 1 <= n /\ k - 1 \notin Differ
    BY <2>1, <2>2, <2>4
  <2>6. G(n)[k - 1] = G(l)[k - 1]
    BY <2>2, <2>5
  <2> QED BY <2>2, <2>3, <2>6
<1> DEFINE F == [n \in Nat |-> G(n)[n]]
<1>4. \A n \in Nat : F[n] = IF n = 0 THEN r ELSE Round(F[n - 1])
  <2> TAKE n \in Nat
  <2>1. G(n)[n] = IF n = 0 THEN r ELSE Round(G(n)[n - 1])
    <3>1. UpToRound(G(n), n) /\ n \in 0..n
      BY <1>2
    <3> QED BY <3>1
  <2>2. n # 0 => G(n)[n - 1] = G(n - 1)[n - 1]
    BY <1>3
  <2> QED BY <2>1, <2>2
<1>5. F = [n \in Nat |-> F[n]]
  OBVIOUS
<1> HIDE DEF F
<1>6. F = [n \in Nat |-> IF n = 0 THEN r ELSE Round(F[n - 1])]
  BY <1>4, <1>5
<1> QED BY <1>6 DEF IsRounds, Round

\* Sending more appends in a loop has no part in elections either, by induction on the rounds
\* (raft.go:1289-1293).
LEMMA SendAllAppendsQuiet ==
    ASSUME NEW i \in Server, NEW r, NEW to \in Server,
           scenario \in Scenarios, StructOK(r), r.state = "Leader"
    PROVE  Quiet(i, r, SendAllAppends(i, r, to))
<1>a. \E f : IsRounds(i, r, to, f)
  BY RoundsExist
<1>1. PICK f : IsRounds(i, r, to, f) /\ SendAllAppends(i, r, to) = f[LastIndex(r)]
  BY <1>a DEF SendAllAppends, IsRounds
<1>2. \A n \in Nat : f[n] = IF n = 0 THEN r ELSE MaybeSendAppend(i, f[n - 1], to, FALSE)
  BY <1>1 DEF IsRounds
<1> DEFINE Loud == {n \in Nat : ~Quiet(i, r, f[n])}
<1>3. Loud = {}
  <2> SUFFICES ASSUME Loud # {} PROVE FALSE
    OBVIOUS
  <2>1. PICK x \in Loud : \A y \in Loud : x <= y
    BY LeastNat
  <2>2. x # 0
    BY <1>2, <2>1, QuietSelf
  <2>3. x \in Nat /\ x - 1 \in Nat /\ Quiet(i, r, f[x - 1])
    BY <2>1, <2>2
  <2>4. Quiet(i, f[x - 1], MaybeSendAppend(i, f[x - 1], to, FALSE))
    <3> DEFINE r1 == f[x - 1]
    <3>1. StructOK(r1) /\ r1.state = "Leader"
      BY <2>3, QuietStruct
    <3> HIDE DEF r1
    <3>2. Quiet(i, r1, MaybeSendAppend(i, r1, to, FALSE))
      BY <3>1, MaybeSendAppendQuiet
    <3> QED BY <3>2 DEF r1
  <2>5. Quiet(i, r, f[x])
    BY <1>2, <2>2, <2>3, <2>4, QuietTransitive
  <2> QED BY <2>1, <2>5
<1>4. LastIndex(r) \in Nat
  BY StructFields
<1> QED BY <1>1, <1>3, <1>4

\* bcastAppend (raft.go:518-525)
LEMMA BcastAppendQuiet ==
    ASSUME NEW i \in Server, NEW r, scenario \in Scenarios, StructOK(r), r.state = "Leader"
    PROVE  Quiet(i, r, BcastAppend(i, r))
<1> DEFINE sent(p) == SendAppend(i, r, p)
           prs == [p \in Server |-> IF p = i THEN r.prs[p] ELSE sent(p).prs[p]]
           new == UNION {sent(p).msgs : p \in Server \ {i}}
           fresh == {m \in new : m \notin r.msgs}
           r1  == [r EXCEPT !.prs = prs]
<1>1. BcastAppend(i, r) = [r1 EXCEPT !.msgs = r1.msgs \cup fresh]
  <2>1. BcastAppend(i, r) = [r EXCEPT !.prs = prs, !.msgs = r.msgs \cup new]
    BY DEF BcastAppend
  <2>2. r.msgs \cup new = r.msgs \cup fresh
    OBVIOUS
  <2> HIDE DEF prs, new, fresh
  <2> QED BY <2>1, <2>2 DEF StructOK, RaftStruct
<1>2. \A p \in Server : Quiet(i, r, sent(p))
  BY MaybeSendAppendQuiet DEF SendAppend
<1> HIDE DEF sent
<1>3. prs \in [Server -> ProgressRecord]
  <2>1. \A p \in Server : sent(p).prs[p] \in ProgressRecord /\ r.prs[p] \in ProgressRecord
    BY <1>2, StructFields DEF Quiet, Grows
  <2> QED BY <2>1
<1>4. \A m \in fresh : QuietMessage(i, r, m)
  BY <1>2 DEF Quiet
<1> HIDE DEF prs, fresh
<1>5. Quiet(i, r, r1)
  BY <1>3, ProgressesQuiet
<1>6. \A m \in fresh : QuietMessage(i, r1, m)
  BY <1>4, <1>5 DEF Quiet, QuietMessage
<1> HIDE DEF r1
<1>7. Quiet(i, r1, [r1 EXCEPT !.msgs = r1.msgs \cup fresh])
  BY <1>5, <1>6, SendsQuiet DEF Quiet, Grows
<1> QED BY <1>1, <1>5, <1>7, QuietTransitive

-----------------------------------------------------------------------------
(* Terms, votes and roles *)

\* s is r in another term or role: nothing is sent, and the log stays.
Turns(r, s, term, vote, state) ==
    /\ Grows(r, s) /\ SameLog(r, s) /\ s.msgs = r.msgs
    /\ s.Term = term /\ s.Vote = vote /\ s.state = state

KeptVote(r, term) == IF r.Term # term THEN None ELSE r.Vote

\* What remains to be shown of a new term or role.
LEMMA TurnsIf ==
    ASSUME NEW r, NEW s, StructOK(r), s \in RaftStruct, SameLog(r, s), s.msgs = r.msgs,
           s.applied = r.applied
    PROVE  Turns(r, s, s.Term, s.Vote, s.state)
BY StructFields DEF Turns, Grows, StructOK, SameLog

\* reset and becomeFollower (raft.go:584-613, 680-687): the vote goes only with the term.
LEMMA BecomeFollowerTurns ==
    ASSUME NEW r, StructOK(r), NEW term \in Nat, NEW lead \in Server \cup {None}
    PROVE  /\ Turns(r, Reset(r, term), term, KeptVote(r, term), r.state)
           /\ Reset(r, term).votes = NoVotes
           /\ Turns(r, BecomeFollower(r, term, lead), term, KeptVote(r, term), "Follower")
<1> DEFINE s == Reset(r, term)
           t == BecomeFollower(r, term, lead)
<1>1. NoVotes \in [Server -> Votes] /\ NoProgress \in [Server -> ProgressRecord]
  BY NewProgressType DEF NoVotes, Votes, NoProgress
<1>2. KeptVote(r, term) \in Server \cup {None}
  BY StructFields DEF KeptVote
<1>3. s = [r EXCEPT !.Term = term, !.Vote = KeptVote(r, term),
                    !.lead = None, !.leadTransferee = None, !.electionElapsed = 0,
                    !.votes = NoVotes, !.prs = NoProgress, !.uncommittedSize = 0]
  BY DEF Reset, KeptVote
<1>a. r \in RaftStruct
  BY DEF StructOK
<1> DEFINE vote == KeptVote(r, term)
           r1 == [r EXCEPT !.Term = term, !.Vote = vote, !.lead = None, !.leadTransferee = None]
           r2 == [r1 EXCEPT !.electionElapsed = 0, !.votes = NoVotes, !.prs = NoProgress,
                            !.uncommittedSize = 0]
<1>b. s \in RaftStruct
  <2>1. vote \in Server \cup {None}
    BY <1>2
  <2>2. s = r2
    BY <1>3, <1>a DEF RaftStruct
  <2> HIDE DEF vote
  <2>3. r1 \in RaftStruct
    BY <1>a, <2>1 DEF RaftStruct
  <2> HIDE DEF r1
  <2>4. r2 \in RaftStruct
    BY <1>1, <2>3 DEF RaftStruct
  <2> QED BY <2>2, <2>4
<1>4. /\ s \in RaftStruct /\ SameLog(r, s) /\ s.msgs = r.msgs /\ s.applied = r.applied
      /\ s.Term = term /\ s.Vote = KeptVote(r, term) /\ s.state = r.state /\ s.votes = NoVotes
  BY <1>3, <1>a, <1>b DEF RaftStruct, SameLog
<1> HIDE DEF s
<1>5. t = [s EXCEPT !.lead = lead, !.state = "Follower"]
  BY DEF BecomeFollower, s
<1>6. /\ t \in RaftStruct /\ SameLog(r, t) /\ t.msgs = r.msgs /\ t.applied = r.applied
      /\ t.Term = term /\ t.Vote = KeptVote(r, term) /\ t.state = "Follower"
  BY <1>4, <1>5 DEF RaftStruct, SameLog
<1> HIDE DEF t
<1>7. Turns(r, s, term, KeptVote(r, term), r.state) /\ s.votes = NoVotes
  BY <1>4, TurnsIf
<1>8. Turns(r, t, term, KeptVote(r, term), "Follower")
  BY <1>6, TurnsIf
<1> QED BY <1>7, <1>8 DEF s, t

\* becomeCandidate votes for itself in the next term (raft.go:689-700).
LEMMA BecomeCandidateTurns ==
    ASSUME NEW i \in Server, NEW r, StructOK(r)
    PROVE  /\ Turns(r, BecomeCandidate(i, r), r.Term + 1, i, "Candidate")
           /\ BecomeCandidate(i, r).votes = NoVotes
<1> DEFINE s == Reset(r, r.Term + 1)
           t == BecomeCandidate(i, r)
           p == s.panicked \/ r.state = "Leader"
<1>1. r.Term + 1 \in Nat
  BY StructFields
<1>2. Turns(r, s, r.Term + 1, KeptVote(r, r.Term + 1), r.state) /\ s.votes = NoVotes
  BY <1>1, BecomeFollowerTurns
<1>3. t = [s EXCEPT !.Vote = i, !.state = "Candidate", !.panicked = p]
  BY DEF BecomeCandidate
<1> HIDE DEF s
<1>4. s \in RaftStruct /\ p \in BOOLEAN
  BY <1>2 DEF Turns, Grows, StructOK, RaftStruct
<1> HIDE DEF p
<1>5. /\ t \in RaftStruct /\ SameLog(r, t) /\ t.msgs = r.msgs /\ t.applied = r.applied
      /\ t.Term = r.Term + 1 /\ t.Vote = i /\ t.state = "Candidate" /\ t.votes = NoVotes
  BY <1>2, <1>3, <1>4 DEF Turns, Grows, SameLog, RaftStruct
<1> HIDE DEF t
<1>6. Turns(r, t, r.Term + 1, i, "Candidate") /\ t.votes = NoVotes
  BY <1>5, TurnsIf
<1> QED BY <1>6 DEF t

\* becomePreCandidate changes neither term nor vote (raft.go:702-716).
LEMMA BecomePreCandidateTurns ==
    ASSUME NEW r, StructOK(r)
    PROVE  Turns(r, BecomePreCandidate(r), r.Term, r.Vote, "PreCandidate")
<1> DEFINE t == BecomePreCandidate(r)
           p == r.panicked \/ r.state = "Leader"
<1>1. NoVotes \in [Server -> Votes] /\ p \in BOOLEAN
  BY DEF NoVotes, Votes
<1>2. t = [r EXCEPT !.votes = NoVotes, !.lead = None, !.state = "PreCandidate",
                    !.electionElapsed = 0, !.panicked = p]
  BY DEF BecomePreCandidate
<1> HIDE DEF p
<1>3. /\ t \in RaftStruct /\ SameLog(r, t) /\ t.msgs = r.msgs /\ t.applied = r.applied
      /\ t.Term = r.Term /\ t.Vote = r.Vote /\ t.state = "PreCandidate"
  <2>1. r \in RaftStruct
    BY DEF StructOK
  <2>2. t \in RaftStruct
    BY <1>1, <1>2, <2>1 DEF RaftStruct
  <2>3. SameLog(r, t) /\ t.msgs = r.msgs /\ t.applied = r.applied
    BY <1>2, <2>1 DEF RaftStruct, SameLog
  <2>4. t.Term = r.Term /\ t.Vote = r.Vote /\ t.state = "PreCandidate"
    BY <1>2, <2>1 DEF RaftStruct
  <2> QED BY <2>2, <2>3, <2>4
<1> HIDE DEF t
<1>4. Turns(r, t, r.Term, r.Vote, "PreCandidate")
  BY <1>3, TurnsIf
<1> QED BY <1>4 DEF t

\* poll records one answer (raft.go:846-857).
LEMMA PollTurns ==
    ASSUME NEW r, StructOK(r), NEW from \in Server, NEW granted \in BOOLEAN
    PROVE  /\ Turns(r, Poll(r, from, granted), r.Term, r.Vote, r.state)
           /\ \A p \in Server : Poll(r, from, granted).votes[p] = "yes" =>
                                    r.votes[p] = "yes" \/ (p = from /\ granted)
<1> DEFINE v == IF r.votes[from] # "missing" THEN r.votes[from] ELSE IF granted THEN "yes" ELSE "no"
           votes == [r.votes EXCEPT ![from] = v]
           t == Poll(r, from, granted)
<1>1. v \in Votes /\ (v = "yes" => r.votes[from] = "yes" \/ granted)
  BY StructFields DEF Votes
<1>2. t = [r EXCEPT !.votes = votes]
  BY DEF Poll, StructOK, RaftStruct
<1> HIDE DEF v
<1>3. /\ votes \in [Server -> Votes]
      /\ \A p \in Server : votes[p] = "yes" => r.votes[p] = "yes" \/ (p = from /\ granted)
  BY <1>1, StructFields
<1> HIDE DEF votes
<1>4. /\ t \in RaftStruct /\ SameLog(r, t) /\ t.msgs = r.msgs /\ t.applied = r.applied
      /\ t.Term = r.Term /\ t.Vote = r.Vote /\ t.state = r.state /\ t.votes = votes
  BY <1>2, <1>3 DEF StructOK, RaftStruct, SameLog
<1> HIDE DEF t
<1>5. /\ Turns(r, t, r.Term, r.Vote, r.state)
      /\ \A p \in Server : t.votes[p] = "yes" => r.votes[p] = "yes" \/ (p = from /\ granted)
  BY <1>3, <1>4, TurnsIf
<1> QED BY <1>5 DEF t

\* becomeLeader keeps term and vote, and appends an entry as the leader it has become
\* (raft.go:718-757).
LEMMA BecomeLeaderTurns ==
    ASSUME NEW i \in Server, NEW r, StructOK(r)
    PROVE  \E s : Turns(r, s, r.Term, r.Vote, "Leader") /\ Quiet(i, s, BecomeLeader(i, r))
<1> DEFINE last == LastIndex(r)
           prs  == [p \in Server |-> IF p = i THEN BecomeReplicate(NewProgress(last, last + 1))
                                              ELSE NewProgress(0, last + 1)]
           t    == Reset(r, r.Term)
           s    == [t EXCEPT !.lead = i, !.state = "Leader", !.prs = prs]
<1>1. BecomeLeader(i, r) = AppendEntry(i, s, "empty")
  BY DEF BecomeLeader
<1>2. prs \in [Server -> ProgressRecord]
  <2>1. last \in Nat /\ last + 1 \in Nat \ {0} /\ 0 \in Nat
    BY StructFields
  <2> HIDE DEF last
  <2>2. NewProgress(last, last + 1) \in ProgressRecord /\ NewProgress(0, last + 1) \in ProgressRecord
    BY <2>1, NewProgressType
  <2>3. BecomeReplicate(NewProgress(last, last + 1)) \in ProgressRecord
    BY <2>1, <2>2, ProgressTypes
  <2> QED BY <2>2, <2>3
<1>3. Turns(r, t, r.Term, r.Vote, r.state)
  BY BecomeFollowerTurns, StructFields DEF KeptVote
<1> HIDE DEF t, prs
<1>4. /\ s \in RaftStruct /\ SameLog(r, s) /\ s.msgs = r.msgs /\ s.applied = r.applied
      /\ s.Term = r.Term /\ s.Vote = r.Vote /\ s.state = "Leader"
  BY <1>2, <1>3 DEF Turns, Grows, StructOK, SameLog, RaftStruct
<1> HIDE DEF s
<1>5. Turns(r, s, r.Term, r.Vote, "Leader")
  BY <1>4, TurnsIf
<1>6. Quiet(i, s, AppendEntry(i, s, "empty"))
  BY <1>5, AppendEntryQuiet DEF Turns, Grows
<1> QED BY <1>1, <1>5, <1>6

-----------------------------------------------------------------------------
(* Handlers that are quiet *)

OtherTypes == {"MsgAppResp", "MsgPreVote", "MsgPreVoteResp", "MsgHeartbeatResp",
               "MsgTimeoutNow", "MsgProp", "MsgTransferLeader"}

\* Anyone may send a message of another kind.
LEMMA OtherMessageQuiet ==
    ASSUME NEW i \in Server, NEW r, NEW type \in OtherTypes, NEW from \in Server,
           NEW to \in Server, NEW term \in Nat
    PROVE  QuietMessage(i, r, Msg(type, from, to, term))
<1> DEFINE m == Msg(type, from, to, term)
<1>1. type \in MessageTypes
  BY DEF OtherTypes, MessageTypes
<1>2. IsMsg(m, type, from, to, term)
  BY <1>1, MsgType
<1> HIDE DEF m
<1>3. QuietMessage(i, r, m)
  BY <1>2, QuietMessages DEF IsMsg, OtherTypes, SnapshotComplete
<1> QED BY <1>3 DEF m

\* Answers to MsgApp and MsgSnap.
LEMMA AppRespQuiet ==
    ASSUME NEW i \in Server, NEW r, NEW s, NEW m \in Message, NEW index \in Nat, NEW hint \in Nat,
           NEW t \in Nat, StructOK(r)
    PROVE  /\ QuietMessage(i, s, AppResp(i, r, m, index))
           /\ QuietMessage(i, s, [AppResp(i, r, m, index) EXCEPT
                                    !.reject = TRUE, !.rejectHint = hint, !.logTerm = t])
<1> DEFINE n == Msg("MsgAppResp", i, m.from, r.Term)
           a == [n EXCEPT !.index = index]
           b == [a EXCEPT !.reject = TRUE, !.rejectHint = hint, !.logTerm = t]
<1>1. IsMsg(n, "MsgAppResp", i, m.from, r.Term)
  <2>1. "MsgAppResp" \in MessageTypes /\ m.from \in Server
    BY DEF MessageTypes, Message
  <2> QED BY <2>1, StructFields, MsgType
<1> HIDE DEF n
<1>2. a \in Message /\ a.type = "MsgAppResp"
  BY <1>1 DEF IsMsg, Message
<1> HIDE DEF a
<1>3. b \in Message /\ b.type = "MsgAppResp"
  BY <1>2 DEF Message
<1> HIDE DEF b
<1>4. QuietMessage(i, s, a) /\ QuietMessage(i, s, b)
  BY <1>2, <1>3, QuietMessages DEF SnapshotComplete
<1> QED BY <1>4 DEF a, b, n, AppResp

\* handleAppendEntries (raft.go:1471-1507)
LEMMA HandleAppendEntriesQuiet ==
    ASSUME NEW i \in Server, NEW r, StructOK(r), NEW m \in Message
    PROVE  Quiet(i, r, HandleAppendEntries(i, r, m))
<1> DEFINE hint == FindConflictByTerm(r, Min2(m.index, LastIndex(r)), m.logTerm)
           r1   == MaybeAppend(r, m.index, m.entries, m.commit)
           n1   == AppResp(i, r, m, r.committed)
           n2   == AppResp(i, r, m, AckIndex(r1, m))
           n3   == [AppResp(i, r, m, m.index) EXCEPT
                      !.reject = TRUE, !.rejectHint = hint, !.logTerm = Term(r, hint)]
<1>1. HandleAppendEntries(i, r, m) \in {Send(r, n1), Send(r1, n2), Send(r, n3)}
  BY DEF HandleAppendEntries
<1>2. /\ m.index \in Nat /\ m.logTerm \in Nat /\ m.commit \in Nat /\ m.entries \in Seq(Entry)
      /\ AckIndex(r1, m) \in Nat
  BY DEF Message, AckIndex
<1>3. hint \in Nat /\ Term(r, hint) \in Nat
  <2>1. Min2(m.index, LastIndex(r)) \in Nat
    BY <1>2, StructFields, MinMaxType
  <2>2. hint \in Nat
    BY <1>2, <2>1, FindConflictByTermType
  <2> HIDE DEF hint
  <2> QED BY <2>2, TermType
<1>4. Quiet(i, r, r1)
  BY <1>2, MaybeAppendQuiet
<1>5. QuietMessage(i, r, n1) /\ QuietMessage(i, r1, n2) /\ QuietMessage(i, r, n3)
  <2> HIDE DEF hint, r1
  <2> QED BY <1>2, <1>3, AppRespQuiet, StructFields
<1> HIDE DEF r1, n1, n2, n3
<1>6. Quiet(i, r, Send(r, n1)) /\ Quiet(i, r1, Send(r1, n2)) /\ Quiet(i, r, Send(r, n3))
  BY <1>4, <1>5, SendQuiet DEF Quiet, Grows
<1>7. Quiet(i, r, Send(r1, n2))
  BY <1>4, <1>6, QuietTransitive
<1> QED BY <1>1, <1>6, <1>7

\* handleHeartbeat (raft.go:1509-1512)
LEMMA HandleHeartbeatQuiet ==
    ASSUME NEW i \in Server, NEW r, StructOK(r), NEW m \in Message
    PROVE  Quiet(i, r, HandleHeartbeat(i, r, m))
<1> DEFINE r1 == CommitTo(r, m.commit)
           n  == Msg("MsgHeartbeatResp", i, m.from, r.Term)
<1>1. m.commit \in Nat /\ m.from \in Server /\ r.Term \in Nat
  BY StructFields DEF Message
<1>2. Quiet(i, r, r1)
  BY <1>1, CommitToQuiet
<1>3. QuietMessage(i, r1, n)
  <2>1. "MsgHeartbeatResp" \in OtherTypes
    BY DEF OtherTypes
  <2> QED BY <1>1, <2>1, OtherMessageQuiet
<1>4. HandleHeartbeat(i, r, m) = Send(r1, n)
  BY DEF HandleHeartbeat
<1> HIDE DEF r1, n
<1>5. Quiet(i, r1, Send(r1, n))
  BY <1>2, <1>3, SendQuiet DEF Quiet, Grows
<1> QED BY <1>2, <1>4, <1>5, QuietTransitive

\* handleSnapshot and restore: a newer snapshot replaces the log (raft.go:1514-1584).
LEMMA HandleSnapshotQuiet ==
    ASSUME NEW i \in Server, NEW r, StructOK(r), NEW m \in Message,
           m.type = "MsgSnap", SnapshotComplete(m)
    PROVE  Quiet(i, r, HandleSnapshot(i, r, m))
<1> DEFINE r2 == [r EXCEPT !.log = m.entries, !.offset = m.index, !.committed = m.index]
           r1 == IF m.index <= r.committed THEN r
                 ELSE IF MatchTerm(r, m.index, m.logTerm) THEN CommitTo(r, m.index)
                 ELSE r2
           n  == AppResp(i, r, m, r1.committed)
<1>1. HandleSnapshot(i, r, m) = Send(r1, n)
  BY DEF HandleSnapshot
<1>2. /\ m.index \in Nat /\ m.entries \in Seq(Entry) /\ m.index = Len(m.entries)
  BY DEF Message, SnapshotComplete
<1>3. Quiet(i, r, r1)
  <2>1. CASE m.index <= r.committed
    BY <2>1, QuietSelf
  <2>2. CASE ~(m.index <= r.committed) /\ MatchTerm(r, m.index, m.logTerm)
    BY <1>2, <2>2, CommitToQuiet
  <2>3. CASE ~(m.index <= r.committed) /\ ~MatchTerm(r, m.index, m.logTerm)
    <3>1. /\ r2 \in RaftStruct /\ r2.msgs = r.msgs /\ Same(r, r2)
          /\ r2.committed = m.index /\ r2.offset = m.index /\ r2.log = m.entries
      BY <1>2 DEF Same, StructOK, RaftStruct
    <3>2. m.index >= r.committed /\ m.index >= r.offset
      BY <1>2, <2>3, StructFields DEF StructOK
    <3> HIDE DEF r2
    <3>3. Quiet(i, r, r2)
      BY <1>2, <3>1, <3>2, SameIsQuiet
    <3> QED BY <2>3, <3>3
  <2> QED BY <2>1, <2>2, <2>3
<1> HIDE DEF r1
<1>4. StructOK(r1) /\ r1.committed \in Nat
  BY <1>3, StructFields DEF Quiet, Grows
<1>5. QuietMessage(i, r1, n)
  BY <1>4, AppRespQuiet
<1> HIDE DEF n
<1>6. Quiet(i, r1, Send(r1, n))
  BY <1>4, <1>5, SendQuiet
<1> QED BY <1>1, <1>3, <1>6, QuietTransitive

\* A rejected MsgApp is probed further back (raft.go:1104-1231).
LEMMA HandleRejectQuiet ==
    ASSUME NEW i \in Server, NEW r, scenario \in Scenarios, StructOK(r), r.state = "Leader",
           NEW m \in Message
    PROVE  Quiet(i, r, HandleReject(i, r, m))
<1> DEFINE probe == IF m.logTerm > 0 THEN FindConflictByTerm(r, m.rejectHint, m.logTerm)
                                     ELSE m.rejectHint
           pr    == MaybeDecrTo(r.prs[m.from], m.index, probe)
           pr1   == IF pr.State = "Replicate" THEN BecomeProbe(pr) ELSE pr
           r1    == [r EXCEPT !.prs[m.from] = pr1]
<1>1. HandleReject(i, r, m) \in {SendAppend(i, r1, m.from), r}
  BY DEF HandleReject
<1>2. m.from \in Server /\ m.index \in Nat /\ m.logTerm \in Nat /\ m.rejectHint \in Nat
  BY DEF Message
<1>3. probe \in Nat
  BY <1>2, FindConflictByTermType
<1> HIDE DEF probe
<1>4. pr \in ProgressRecord
  BY <1>2, <1>3, StructFields, ProgressTypes
<1> HIDE DEF pr
<1>5. pr1 \in ProgressRecord
  <2>1. 0 \in Nat
    OBVIOUS
  <2> QED BY <1>4, <2>1, ProgressTypes
<1> HIDE DEF pr1
<1>6. Quiet(i, r, r1)
  BY <1>2, <1>5, ProgressQuiet
<1> HIDE DEF r1
<1>7. Quiet(i, r1, SendAppend(i, r1, m.from))
  BY <1>2, <1>6, QuietStruct, MaybeSendAppendQuiet DEF SendAppend
<1> QED BY <1>1, <1>6, <1>7, QuietTransitive, QuietSelf

\* An acknowledged MsgApp: commit, broadcast, refill, finish a transfer (raft.go:1232-1301).
LEMMA HandleAckQuiet ==
    ASSUME NEW i \in Server, NEW r, scenario \in Scenarios, StructOK(r), r.state = "Leader",
           NEW m \in Message
    PROVE  Quiet(i, r, HandleAck(i, r, m))
<1> DEFINE from == m.from
           pr == AckProgress(r.prs[from], m.index)
           r1 == [r EXCEPT !.prs[from] = pr]
           r2 == MaybeCommit(r1)
           r3 == IF r2.committed # r1.committed THEN BcastAppend(i, r2)
                 ELSE IF IsPaused(r.prs[from]) THEN SendAppend(i, r2, from)
                 ELSE r2
           r4 == SendAllAppends(i, r3, from)
           n  == Msg("MsgTimeoutNow", i, from, r4.Term)
<1>1. HandleAck(i, r, m) \in {Send(r4, n), r4}
  BY DEF HandleAck
<1>2. from \in Server /\ m.index \in Nat
  BY DEF Message
<1>3. pr \in ProgressRecord
  <2>1. FALSE \in BOOLEAN /\ r.prs[from] \in ProgressRecord
    BY <1>2, StructFields
  <2> QED BY <1>2, <2>1, HandlerProgressTypes
<1> HIDE DEF pr, from
<1>4. Quiet(i, r, r1)
  BY <1>2, <1>3, ProgressQuiet
<1> HIDE DEF r1
<1>5. Quiet(i, r1, r2) /\ Quiet(i, r, r2)
  BY <1>4, MaybeCommitQuiet, QuietTransitive DEF Quiet, Grows
<1> HIDE DEF r2
<1>6. StructOK(r2) /\ r2.state = "Leader"
  BY <1>5 DEF Quiet, Grows
<1>7. Quiet(i, r2, r3)
  BY <1>2, <1>6, BcastAppendQuiet, MaybeSendAppendQuiet, QuietSelf DEF SendAppend
<1> HIDE DEF r3
<1>8. StructOK(r3) /\ r3.state = "Leader"
  BY <1>6, <1>7 DEF Quiet, Grows
<1>9. Quiet(i, r3, r4)
  BY <1>2, <1>8, SendAllAppendsQuiet
<1> HIDE DEF r4
<1>10. StructOK(r4) /\ r4.Term \in Nat
  BY <1>9, StructFields DEF Quiet, Grows
<1>11. Quiet(i, r, r4)
  <2>1. Quiet(i, r, r3)
    BY <1>5, <1>7, QuietTransitive
  <2> QED BY <1>9, <2>1, QuietTransitive
<1>12. QuietMessage(i, r4, n)
  <2>1. "MsgTimeoutNow" \in OtherTypes
    BY DEF OtherTypes
  <2> QED BY <1>2, <1>10, <2>1, OtherMessageQuiet
<1> HIDE DEF n
<1>13. Quiet(i, r4, Send(r4, n))
  BY <1>10, <1>12, SendQuiet
<1> QED BY <1>1, <1>11, <1>13, QuietTransitive

\* MsgAppResp at the leader (raft.go:1101-1301)
LEMMA HandleAppRespQuiet ==
    ASSUME NEW i \in Server, NEW r, scenario \in Scenarios, StructOK(r), r.state = "Leader",
           NEW m \in Message
    PROVE  Quiet(i, r, HandleAppResp(i, r, m))
<1> DEFINE pr == [r.prs[m.from] EXCEPT !.RecentActive = TRUE]
           r1 == [r EXCEPT !.prs[m.from].RecentActive = TRUE]
           pr2 == MaybeUpdate(r1.prs[m.from], m.index)
           r2 == [r1 EXCEPT !.prs[m.from] = pr2]
<1>1. HandleAppResp(i, r, m) \in {HandleReject(i, r1, m), HandleAck(i, r1, m), r2}
  BY DEF HandleAppResp
<1>2. m.from \in Server /\ m.index \in Nat /\ r.prs[m.from] \in ProgressRecord
  BY StructFields DEF Message
<1>3. pr \in ProgressRecord
  BY <1>2 DEF ProgressRecord
<1>4. r1 = [r EXCEPT !.prs[m.from] = pr]
  BY DEF StructOK, RaftStruct
<1> HIDE DEF pr, r1
<1>5. Quiet(i, r, r1)
  BY <1>2, <1>3, <1>4, ProgressQuiet
<1>6. StructOK(r1) /\ r1.state = "Leader"
  BY <1>5 DEF Quiet, Grows
<1>7. pr2 \in ProgressRecord
  BY <1>2, <1>6, StructFields, ProgressTypes
<1> HIDE DEF pr2
<1>8. Quiet(i, r1, r2)
  BY <1>2, <1>6, <1>7, ProgressQuiet
<1>9. Quiet(i, r1, HandleReject(i, r1, m)) /\ Quiet(i, r1, HandleAck(i, r1, m))
  BY <1>6, HandleRejectQuiet, HandleAckQuiet
<1> HIDE DEF r2
<1> QED BY <1>1, <1>5, <1>8, <1>9, QuietTransitive

\* MsgHeartbeatResp at the leader (raft.go:1302-1325)
LEMMA HandleHeartbeatRespQuiet ==
    ASSUME NEW i \in Server, NEW r, scenario \in Scenarios, StructOK(r), r.state = "Leader",
           NEW m \in Message
    PROVE  Quiet(i, r, HandleHeartbeatResp(i, r, m))
<1> DEFINE pr == Resumed(r.prs[m.from])
           r1 == [r EXCEPT !.prs[m.from] = pr]
<1>1. HandleHeartbeatResp(i, r, m) \in {SendAppend(i, r1, m.from), r1}
  BY DEF HandleHeartbeatResp
<1>2. m.from \in Server /\ r.prs[m.from] \in ProgressRecord
  BY StructFields DEF Message
<1>3. pr \in ProgressRecord
  <2>1. 0 \in Nat /\ FALSE \in BOOLEAN
    OBVIOUS
  <2> QED BY <1>2, <2>1, HandlerProgressTypes
<1> HIDE DEF pr
<1>4. Quiet(i, r, r1)
  BY <1>2, <1>3, ProgressQuiet
<1> HIDE DEF r1
<1>5. Quiet(i, r1, SendAppend(i, r1, m.from))
  BY <1>2, <1>4, QuietStruct, MaybeSendAppendQuiet DEF SendAppend
<1> QED BY <1>1, <1>4, <1>5, QuietTransitive

\* MsgTransferLeader (raft.go:1335-1365, 1441-1447)
LEMMA HandleTransferLeaderQuiet ==
    ASSUME NEW i \in Server, NEW r, scenario \in Scenarios, StructOK(r),
           NEW to \in Server, NEW term
    PROVE  Quiet(i, r, HandleTransferLeader(i, r, to, term))
<1> DEFINE r1 == [r EXCEPT !.electionElapsed = 0, !.leadTransferee = to]
           r2 == [r EXCEPT !.leadTransferee = None]
           n1 == Msg("MsgTimeoutNow", i, to, r.Term)
           n2 == Msg("MsgTransferLeader", to, r.lead, r.Term)
<1>1. \/ HandleTransferLeader(i, r, to, term) \in {r, r2, Panic(r)}
      \/ r.state = "Leader" /\ HandleTransferLeader(i, r, to, term) \in {Send(r1, n1), SendAppend(i, r1, to)}
      \/ r.lead # None /\ HandleTransferLeader(i, r, to, term) = Send(r, n2)
  BY DEF HandleTransferLeader
<1>2. Quiet(i, r, r1) /\ Quiet(i, r, r2)
  <2>1. r1 = [r EXCEPT !.electionElapsed = 0, !.lead = r.lead, !.leadTransferee = to]
    BY DEF StructOK, RaftStruct
  <2>2. r2 = [r EXCEPT !.electionElapsed = r.electionElapsed, !.lead = r.lead, !.leadTransferee = None]
    BY DEF StructOK, RaftStruct
  <2> HIDE DEF r1, r2
  <2> QED BY <2>1, <2>2, OtherQuiet, StructFields
<1>3. QuietMessage(i, r1, n1) /\ (r.lead # None => QuietMessage(i, r, n2))
  <2>1. "MsgTimeoutNow" \in OtherTypes /\ "MsgTransferLeader" \in OtherTypes
    BY DEF OtherTypes
  <2> HIDE DEF r1
  <2> QED BY <2>1, StructFields, OtherMessageQuiet
<1> HIDE DEF r1, r2, n1, n2
<1>4. Quiet(i, r1, Send(r1, n1)) /\ (r.lead # None => Quiet(i, r, Send(r, n2)))
  BY <1>2, <1>3, SendQuiet DEF Quiet, Grows
<1>5. r.state = "Leader" => Quiet(i, r1, SendAppend(i, r1, to))
  BY <1>2, QuietStruct, MaybeSendAppendQuiet DEF SendAppend
<1>6. Quiet(i, r, r) /\ Quiet(i, r, Panic(r))
  BY QuietSelf, PanicQuiet
<1>7. Quiet(i, r, Send(r1, n1)) /\ (r.state = "Leader" => Quiet(i, r, SendAppend(i, r1, to)))
  BY <1>2, <1>4, <1>5, QuietTransitive
<1> QED BY <1>1, <1>2, <1>4, <1>6, <1>7

-----------------------------------------------------------------------------
(* Campaigns, votes and terms *)

\* The term of a message is dealt with (raft.go:861-906).
LEMMA ObserveTurns ==
    ASSUME NEW r, StructOK(r), NEW m \in Message
    PROVE  \/ ~AdoptsTerm(r, m) /\ Observe(r, m) = r
           \/ /\ AdoptsTerm(r, m)
              /\ Turns(r, Observe(r, m), m.term, KeptVote(r, m.term), "Follower")
<1>1. m.term \in Nat /\ m.from \in Server
  BY DEF Message
<1>2. (IF FromLeader(m) THEN m.from ELSE None) \in Server \cup {None}
  BY <1>1
<1> QED BY <1>1, <1>2, BecomeFollowerTurns DEF Observe

\* The leader of the term is heard (raft.go:1386-1394, 1429-1440).
LEMMA FollowTurns ==
    ASSUME NEW i, NEW r, StructOK(r), NEW m \in Message
    PROVE  \/ r.state = "Follower" /\ Quiet(i, r, Follow(r, m))
           \/ r.state # "Follower" /\ Turns(r, Follow(r, m), m.term, KeptVote(r, m.term), "Follower")
<1>1. m.term \in Nat /\ m.from \in Server
  BY DEF Message
<1> DEFINE s == [r EXCEPT !.electionElapsed = 0, !.lead = m.from]
<1>2. s = [r EXCEPT !.electionElapsed = 0, !.lead = m.from, !.leadTransferee = r.leadTransferee]
  BY DEF StructOK, RaftStruct
<1> HIDE DEF s
<1>3. Quiet(i, r, s)
  BY <1>1, <1>2, OtherQuiet, StructFields
<1>4. r.state = "Follower" => Follow(r, m) = s
  BY DEF Follow, s
<1> QED BY <1>1, <1>3, <1>4, BecomeFollowerTurns DEF Follow

\* The votes are counted (raft.go:846-857, quorum/joint.go:61-75).
LEMMA TallyMeaning ==
    ASSUME NEW r, StructOK(r)
    PROVE  /\ TallyVotes(r) \in VoteResults
           /\ TallyVotes(r) = "VoteWon" => HasQuorum(Server, {p \in Server : r.votes[p] = "yes"})
<1>1. r.votes \in [Server -> Votes]
  BY StructFields
<1>2. /\ VoteResult(Server, r.votes) \in VoteResults
      /\ VoteResult(Server, r.votes) = "VoteWon" <=> HasQuorum(Server, {p \in Server : r.votes[p] = "yes"})
  <2>1. Server \in SUBSET Server
    OBVIOUS
  <2> QED BY <1>1, <2>1, ServerAssumption, VoteResultMeaning
<1>3. VoteResult({}, r.votes) = "VoteWon"
  BY DEF VoteResult
<1>4. Conf[1] = Server /\ Conf[2] = {}
  BY DEF Conf
<1> QED BY <1>2, <1>3, <1>4 DEF TallyVotes, JointVoteResult, VoteResults

\* Vote requests are no votes, but tell that the server voted for itself.
LEMMA VoteRequestsQuiet ==
    ASSUME NEW i \in Server, NEW r, NEW s, StructOK(r), NEW type \in {"MsgVote", "MsgPreVote"},
           NEW term \in Nat, NEW transfer \in BOOLEAN, NEW m \in VoteRequests(i, r, type, term, transfer),
           type = "MsgVote" => s.Vote = i /\ s.Term = term
    PROVE  QuietMessage(i, s, m)
<1>1. PICK p \in Server : m = [Msg(type, i, p, term) EXCEPT !.index = LastIndex(r),
                                 !.logTerm = LastTerm(r), !.transfer = transfer]
  BY DEF VoteRequests
<1> DEFINE n == Msg(type, i, p, term)
<1>2. IsMsg(n, type, i, p, term)
  <2>1. type \in MessageTypes
    BY DEF MessageTypes
  <2> QED BY <2>1, MsgType
<1>3. LastIndex(r) \in Nat /\ LastTerm(r) \in Nat
  BY StructFields, TermType DEF LastTerm
<1>4. m = [n EXCEPT !.index = LastIndex(r), !.logTerm = LastTerm(r), !.transfer = transfer]
  BY <1>1
<1> HIDE DEF n
<1>5. m \in Message /\ m.type = type /\ m.from = i /\ m.term = term
  BY <1>2, <1>3, <1>4 DEF IsMsg, Message
<1> QED BY <1>5, QuietMessages DEF SnapshotComplete

\* A candidate that has voted for itself: the state in which campaign counts the votes.
NewCandidate(i, r) == Poll(BecomeCandidate(i, r), i, TRUE)

\* campaign(campaignElection) and campaign(campaignTransfer) (raft.go:785-844): the only vote
\* so far is its own.
LEMMA CampaignElectionTurns ==
    ASSUME NEW i \in Server, NEW r, StructOK(r), NEW transfer \in BOOLEAN
    PROVE  LET c == NewCandidate(i, r)
           IN  /\ Turns(r, c, r.Term + 1, i, "Candidate")
               /\ \A p \in Server : c.votes[p] = "yes" => p = i
               /\ \/ /\ TallyVotes(c) = "VoteWon"
                     /\ CampaignElection(i, r, transfer) = BecomeLeader(i, c)
                  \/ Quiet(i, c, CampaignElection(i, r, transfer))
<1> DEFINE b == BecomeCandidate(i, r)
           c == NewCandidate(i, r)
           M == VoteRequests(i, c, "MsgVote", c.Term, transfer)
<1>1. Turns(r, b, r.Term + 1, i, "Candidate") /\ b.votes = NoVotes
  BY BecomeCandidateTurns
<1>2. c = Poll(b, i, TRUE)
  BY DEF NewCandidate
<1> HIDE DEF b, c
<1>3. StructOK(b)
  BY <1>1 DEF Turns, Grows
<1>4. /\ Turns(b, c, b.Term, b.Vote, b.state)
      /\ \A p \in Server : c.votes[p] = "yes" => b.votes[p] = "yes" \/ p = i
  BY <1>2, <1>3, PollTurns
<1>5. Turns(r, c, r.Term + 1, i, "Candidate")
  BY <1>1, <1>3, <1>4, GrowsTransitive DEF Turns, SameLog
<1>6. \A p \in Server : c.votes[p] = "yes" => p = i
  BY <1>1, <1>4 DEF NoVotes
<1>7. StructOK(c) /\ c.Term \in Nat /\ c.Vote = i
  BY <1>5, StructFields DEF Turns, Grows
<1>8. \A m \in M : QuietMessage(i, c, m)
  BY <1>7, VoteRequestsQuiet
<1>9. /\ TallyVotes(c) = "VoteWon" => CampaignElection(i, r, transfer) = BecomeLeader(i, c)
      /\ TallyVotes(c) # "VoteWon" => CampaignElection(i, r, transfer) = [c EXCEPT !.msgs = c.msgs \cup M]
  BY DEF CampaignElection, c, NewCandidate
<1> HIDE DEF M
<1>10. Quiet(i, c, [c EXCEPT !.msgs = c.msgs \cup M])
  BY <1>7, <1>8, SendsQuiet
<1> QED BY <1>5, <1>6, <1>9, <1>10 DEF c

\* A pre-candidate that has voted for itself.
NewPreCandidate(i, r) == Poll(BecomePreCandidate(r), i, TRUE)

\* campaign(campaignPreElection) (raft.go:785-844)
LEMMA CampaignPreElectionTurns ==
    ASSUME NEW i \in Server, NEW r, StructOK(r)
    PROVE  LET c == NewPreCandidate(i, r)
           IN  /\ Turns(r, c, r.Term, r.Vote, "PreCandidate")
               /\ \/ CampaignPreElection(i, r) = CampaignElection(i, c, FALSE)
                  \/ Quiet(i, c, CampaignPreElection(i, r))
<1> DEFINE b == BecomePreCandidate(r)
           c == NewPreCandidate(i, r)
           M == VoteRequests(i, c, "MsgPreVote", c.Term + 1, FALSE)
<1>1. Turns(r, b, r.Term, r.Vote, "PreCandidate")
  BY BecomePreCandidateTurns
<1>2. c = Poll(b, i, TRUE)
  BY DEF NewPreCandidate
<1> HIDE DEF b, c
<1>3. StructOK(b)
  BY <1>1 DEF Turns, Grows
<1>4. Turns(b, c, b.Term, b.Vote, b.state)
  BY <1>2, <1>3, PollTurns
<1>5. Turns(r, c, r.Term, r.Vote, "PreCandidate")
  BY <1>1, <1>3, <1>4, GrowsTransitive DEF Turns, SameLog
<1>6. StructOK(c) /\ c.Term \in Nat /\ c.Term + 1 \in Nat
  BY <1>5, StructFields DEF Turns, Grows
<1>7. \A m \in M : QuietMessage(i, c, m)
  BY <1>6, VoteRequestsQuiet
<1>8. /\ TallyVotes(c) = "VoteWon" => CampaignPreElection(i, r) = CampaignElection(i, c, FALSE)
      /\ TallyVotes(c) # "VoteWon" => CampaignPreElection(i, r) = [c EXCEPT !.msgs = c.msgs \cup M]
  BY DEF CampaignPreElection, c, NewPreCandidate
<1> HIDE DEF M
<1>9. Quiet(i, c, [c EXCEPT !.msgs = c.msgs \cup M])
  BY <1>6, <1>7, SendsQuiet
<1> QED BY <1>5, <1>8, <1>9 DEF c

\* A leader is one after a campaign that was won at once.
LEMMA CampaignGrows ==
    ASSUME NEW i \in Server, NEW r, StructOK(r), NEW transfer \in BOOLEAN
    PROVE  Grows(r, CampaignElection(i, r, transfer)) /\ Grows(r, CampaignPreElection(i, r))
<1>1. ASSUME NEW s, StructOK(s), NEW x \in BOOLEAN PROVE Grows(s, CampaignElection(i, s, x))
  <2> DEFINE c == NewCandidate(i, s)
  <2>1. Turns(s, c, s.Term + 1, i, "Candidate")
    BY <1>1, CampaignElectionTurns
  <2>2. \/ CampaignElection(i, s, x) = BecomeLeader(i, c)
        \/ Quiet(i, c, CampaignElection(i, s, x))
    BY <1>1, CampaignElectionTurns
  <2> HIDE DEF c
  <2>3. Grows(s, c) /\ StructOK(c)
    BY <2>1 DEF Turns, Grows
  <2>4. PICK t : Turns(c, t, c.Term, c.Vote, "Leader") /\ Quiet(i, t, BecomeLeader(i, c))
    BY <2>3, BecomeLeaderTurns
  <2>5. Grows(c, BecomeLeader(i, c))
    BY <2>3, <2>4, GrowsTransitive DEF Turns, Quiet
  <2> QED BY <1>1, <2>2, <2>3, <2>5, GrowsTransitive DEF Quiet
<1> DEFINE c == NewPreCandidate(i, r)
<1>2. /\ Turns(r, c, r.Term, r.Vote, "PreCandidate")
      /\ \/ CampaignPreElection(i, r) = CampaignElection(i, c, FALSE)
         \/ Quiet(i, c, CampaignPreElection(i, r))
  BY CampaignPreElectionTurns
<1> HIDE DEF c
<1>3. Grows(r, c) /\ StructOK(c)
  BY <1>2 DEF Turns, Grows
<1>4. Grows(c, CampaignPreElection(i, r))
  BY <1>1, <1>2, <1>3 DEF Quiet
<1> QED BY <1>1, <1>3, <1>4, GrowsTransitive

\* A vote is granted, or not (raft.go:918-966).
LEMMA HandleVoteType ==
    ASSUME NEW i \in Server, NEW r, StructOK(r), NEW m \in Message, m.type \in {"MsgVote", "MsgPreVote"}
    PROVE  \/ Quiet(i, r, HandleVote(i, r, m))
           \/ /\ m.type = "MsgVote" /\ CanVote(r, m)
              /\ Grows(r, HandleVote(i, r, m))
              /\ LET s == HandleVote(i, r, m)
                 IN  /\ s.Term = r.Term /\ s.Vote = m.from /\ s.state = r.state /\ s.votes = r.votes
                     /\ s.msgs = r.msgs \cup {Msg("MsgVoteResp", i, m.from, m.term)}
<1> DEFINE n  == Msg(RespType(m.type), i, m.from, m.term)
           n1 == [n EXCEPT !.term = r.Term, !.reject = TRUE]
           r1 == [r EXCEPT !.electionElapsed = 0, !.Vote = m.from]
<1>1. /\ ~(CanVote(r, m) /\ IsUpToDate(r, m.index, m.logTerm)) => HandleVote(i, r, m) = Send(r, n1)
      /\ CanVote(r, m) /\ IsUpToDate(r, m.index, m.logTerm) =>
            HandleVote(i, r, m) = Send(IF m.type = "MsgVote" THEN r1 ELSE r, n)
  BY DEF HandleVote
<1>2. m.from \in Server /\ m.term \in Nat /\ r.Term \in Nat
  BY StructFields DEF Message
<1>3. IsMsg(n, RespType(m.type), i, m.from, m.term)
  <2>1. RespType(m.type) \in MessageTypes
    BY DEF RespType, MessageTypes
  <2> QED BY <1>2, <2>1, MsgType
<1>4. RespType(m.type) \in {"MsgVoteResp", "MsgPreVoteResp"}
  BY DEF RespType
<1>5. Quiet(i, r, Send(r, n1))
  <2> HIDE DEF n
  <2>1. n1 \in Message /\ n1.type = n.type /\ n1.reject = TRUE
    BY <1>2, <1>3 DEF IsMsg, Message
  <2> HIDE DEF n1
  <2>2. QuietMessage(i, r, n1)
    BY <1>3, <1>4, <2>1, QuietMessages DEF IsMsg, SnapshotComplete
  <2> QED BY <2>2, SendQuiet
<1>6. CASE ~(CanVote(r, m) /\ IsUpToDate(r, m.index, m.logTerm))
  <2> HIDE DEF n1
  <2> QED BY <1>1, <1>5, <1>6
<1>7. CASE CanVote(r, m) /\ IsUpToDate(r, m.index, m.logTerm) /\ m.type = "MsgPreVote"
  <2>1. RespType(m.type) = "MsgPreVoteResp"
    BY <1>7 DEF RespType
  <2> HIDE DEF n, r1
  <2>2. QuietMessage(i, r, n)
    BY <1>3, <2>1, QuietMessages DEF IsMsg, SnapshotComplete
  <2> QED BY <1>1, <1>7, <2>2, SendQuiet
<1>8. CASE CanVote(r, m) /\ IsUpToDate(r, m.index, m.logTerm) /\ m.type = "MsgVote"
  <2>1. n = Msg("MsgVoteResp", i, m.from, m.term)
    BY <1>8 DEF RespType
  <2> HIDE DEF n
  <2> DEFINE M == r.msgs \cup {n}
             s == [r EXCEPT !.electionElapsed = 0, !.Vote = m.from, !.msgs = M]
  <2>2. HandleVote(i, r, m) = s
    BY <1>1, <1>8 DEF Send, StructOK, RaftStruct
  <2>3. M \subseteq Message /\ \A x \in M : SnapshotComplete(x)
    BY <1>3, <1>4, StructFields DEF IsMsg, StructOK, SnapshotComplete
  <2> HIDE DEF M
  <2>4. /\ s \in RaftStruct /\ SameLog(r, s) /\ s.applied = r.applied
        /\ s.Term = r.Term /\ s.Vote = m.from /\ s.state = r.state /\ s.votes = r.votes /\ s.msgs = M
    BY <1>2, <2>3 DEF StructOK, RaftStruct, SameLog
  <2> HIDE DEF s
  <2>5. Grows(r, s)
    BY <2>3, <2>4, StructFields DEF Grows, StructOK, SameLog
  <2>6. s.msgs = r.msgs \cup {Msg("MsgVoteResp", i, m.from, m.term)}
    BY <2>1, <2>4 DEF M
  <2> QED BY <1>8, <2>2, <2>4, <2>5, <2>6
<1> QED BY <1>6, <1>7, <1>8

\* An answer to a vote request (raft.go:1395-1411). Answers that were not asked for change nothing.
Asked(r, m) == \/ r.state = "Candidate" /\ m.type = "MsgVoteResp"
               \/ r.state = "PreCandidate" /\ m.type = "MsgPreVoteResp"

\* What an answer can lead to: nothing, a vote counted, an election lost, a pre-election won or an
\* election won.
LEMMA HandleVoteRespCases ==
    ASSUME NEW i \in Server, NEW r, StructOK(r), NEW m \in Message
    PROVE  LET c == Poll(r, m.from, ~m.reject)
               s == HandleVoteResp(i, r, m)
           IN  \/ ~Asked(r, m) /\ s = r
               \/ Asked(r, m) /\ s = c
               \/ Asked(r, m) /\ s = BecomeFollower(c, c.Term, None)
               \/ r.state = "PreCandidate" /\ Asked(r, m) /\ s = CampaignElection(i, c, FALSE)
               \/ /\ r.state = "Candidate" /\ Asked(r, m) /\ TallyVotes(c) = "VoteWon"
                  /\ s = BcastAppend(i, BecomeLeader(i, c))
<1> DEFINE c == Poll(r, m.from, ~m.reject)
<1>1. m.from \in Server /\ (~m.reject) \in BOOLEAN
  BY DEF Message
<1>2. StructOK(c)
  BY <1>1, PollTurns DEF Turns, Grows
<1>3. CASE ~Asked(r, m)
  BY <1>3 DEF HandleVoteResp, Asked
<1>4. CASE Asked(r, m)
  <2>1. r.state \in {"Candidate", "PreCandidate"}
    BY <1>4 DEF Asked
  <2>2. HandleVoteResp(i, r, m) =
            CASE TallyVotes(c) = "VoteWon" /\ r.state = "PreCandidate" -> CampaignElection(i, c, FALSE)
              [] TallyVotes(c) = "VoteWon" /\ r.state = "Candidate" -> BcastAppend(i, BecomeLeader(i, c))
              [] TallyVotes(c) = "VoteLost" -> BecomeFollower(c, c.Term, None)
              [] TallyVotes(c) = "VotePending" -> c
    BY <1>4 DEF HandleVoteResp, Asked
  <2> HIDE DEF c
  <2>3. TallyVotes(c) \in {"VoteWon", "VotePending", "VoteLost"}
    BY <1>2, TallyMeaning DEF VoteResults
  <2>4. \/ HandleVoteResp(i, r, m) = c
        \/ HandleVoteResp(i, r, m) = BecomeFollower(c, c.Term, None)
        \/ r.state = "PreCandidate" /\ HandleVoteResp(i, r, m) = CampaignElection(i, c, FALSE)
        \/ /\ r.state = "Candidate" /\ TallyVotes(c) = "VoteWon"
           /\ HandleVoteResp(i, r, m) = BcastAppend(i, BecomeLeader(i, c))
    BY <2>1, <2>2, <2>3
  <2> QED BY <1>4, <2>4 DEF c
<1> QED BY <1>3, <1>4

\* Whichever it is, term, log, commit index and configuration only grow (raft.go:1395-1411).
LEMMA HandleVoteRespGrows ==
    ASSUME NEW i \in Server, NEW r, scenario \in Scenarios, StructOK(r), NEW m \in Message
    PROVE  Grows(r, HandleVoteResp(i, r, m))
<1> DEFINE c == Poll(r, m.from, ~m.reject)
           s == HandleVoteResp(i, r, m)
<1>1. m.from \in Server /\ (~m.reject) \in BOOLEAN
  BY DEF Message
<1>2. Grows(r, c) /\ StructOK(c)
  <2>1. Turns(r, c, r.Term, r.Vote, r.state)
    BY <1>1, PollTurns
  <2> QED BY <2>1 DEF Turns, Grows
<1>3. \/ s = r
      \/ s = c
      \/ s = BecomeFollower(c, c.Term, None)
      \/ s = CampaignElection(i, c, FALSE)
      \/ s = BcastAppend(i, BecomeLeader(i, c))
  BY HandleVoteRespCases
<1> HIDE DEF c, s
<1>4. Grows(c, BecomeFollower(c, c.Term, None))
  BY <1>2, StructFields, BecomeFollowerTurns DEF Turns
<1>5. Grows(c, CampaignElection(i, c, FALSE))
  BY <1>2, CampaignGrows
<1>6. Grows(c, BcastAppend(i, BecomeLeader(i, c)))
  <2>1. PICK t : Turns(c, t, c.Term, c.Vote, "Leader") /\ Quiet(i, t, BecomeLeader(i, c))
    BY <1>2, BecomeLeaderTurns
  <2>2. StructOK(t) /\ StructOK(BecomeLeader(i, c)) /\ BecomeLeader(i, c).state = "Leader"
    BY <2>1 DEF Turns, Quiet, Grows
  <2>3. Quiet(i, BecomeLeader(i, c), BcastAppend(i, BecomeLeader(i, c)))
    BY <2>2, BcastAppendQuiet
  <2>4. Quiet(i, t, BcastAppend(i, BecomeLeader(i, c)))
    BY <2>1, <2>2, <2>3, QuietTransitive
  <2> QED BY <1>2, <2>1, <2>4, GrowsTransitive DEF Turns, Quiet
<1>7. Grows(r, r)
  BY QuietSelf DEF Quiet
<1>8. Grows(r, s)
  BY <1>2, <1>3, <1>4, <1>5, <1>6, <1>7, GrowsTransitive
<1> QED BY <1>8 DEF s

-----------------------------------------------------------------------------
(* The actions.  All but Ready, Compact and Restart are an Update.         *)

\* Server i enters a state that follows quietly from r.
QuietUpdate(i, r) == \E s : Update(i, s) /\ Quiet(i, r, s)

\* What the server does by itself, and what it does whatever the term of the message.
LEMMA LocalActionsQuiet ==
    ASSUME NEW i \in Server, scenario \in Scenarios, StructOK(node[i]),
           \/ LeaseExpires(i) \/ Beat(i) \/ Propose(i)
           \/ \E to \in MayTransferTo : TransferLeader(i, to)
           \/ \E to \in Server : ReportUnreachable(i, to)
           \/ \E to \in Server, failed \in BOOLEAN : ReportSnapshot(i, to, failed)
           \/ \E m \in Message : StepLowerTerm(i, m) \/ StepProp(i, m)
    PROVE  QuietUpdate(i, node[i])
<1> DEFINE r == node[i]
<1>1. CASE LeaseExpires(i)
  <2> DEFINE s == [r EXCEPT !.electionElapsed = 1]
  <2>1. s = [r EXCEPT !.electionElapsed = 1, !.lead = r.lead, !.leadTransferee = r.leadTransferee]
    BY DEF StructOK, RaftStruct
  <2>2. Update(i, s)
    BY <1>1 DEF LeaseExpires
  <2> HIDE DEF s
  <2>3. Quiet(i, r, s)
    BY <2>1, OtherQuiet, StructFields
  <2> QED BY <2>2, <2>3 DEF QuietUpdate
<1>2. CASE Beat(i)
  <2> DEFINE M == {Heartbeat(i, r, p) : p \in Server \ {i}}
  <2>1. ASSUME NEW m \in M PROVE QuietMessage(i, r, m)
    <3>1. PICK p \in Server : m = Heartbeat(i, r, p)
      OBVIOUS
    <3> DEFINE n == Msg("MsgHeartbeat", i, p, r.Term)
               c == Min2(r.prs[p].Match, r.committed)
    <3>2. m = [n EXCEPT !.commit = c]
      BY <3>1 DEF Heartbeat
    <3>3. c \in Nat
      BY StructFields, MinMaxType DEF ProgressRecord
    <3>4. IsMsg(n, "MsgHeartbeat", i, p, r.Term)
      <4>1. "MsgHeartbeat" \in MessageTypes
        BY DEF MessageTypes
      <4> QED BY <4>1, StructFields, MsgType
    <3> HIDE DEF n, c
    <3>5. m \in Message /\ m.type = "MsgHeartbeat" /\ m.from = i /\ m.term = r.Term
      BY <3>2, <3>3, <3>4 DEF IsMsg, Message
    <3> QED BY <1>2, <3>5, QuietMessages DEF Beat, SnapshotComplete
  <2>2. Update(i, [r EXCEPT !.msgs = r.msgs \cup M])
    BY <1>2 DEF Beat
  <2> HIDE DEF M
  <2> QED BY <2>1, <2>2, SendsQuiet DEF QuietUpdate
<1>3. ASSUME NEW from \in Server, HandleProp(i, r, from) PROVE QuietUpdate(i, r)
  <2>1. CASE r.state = "Leader" /\ Update(i, BcastAppend(i, AppendEntry(i, r, "cmd")))
    <3> DEFINE s == AppendEntry(i, r, "cmd")
    <3>1. Quiet(i, r, s)
      BY AppendEntryQuiet
    <3>2. Update(i, BcastAppend(i, s))
      BY <2>1
    <3> HIDE DEF s
    <3>3. Quiet(i, s, BcastAppend(i, s))
      BY <2>1, <3>1, BcastAppendQuiet DEF Quiet, Grows
    <3> QED BY <3>1, <3>2, <3>3, QuietTransitive DEF QuietUpdate
  <2>2. CASE r.lead # None /\ Update(i, Send(r, Msg("MsgProp", from, r.lead, 0)))
    <3>1. "MsgProp" \in OtherTypes /\ r.lead \in Server /\ 0 \in Nat
      BY <2>2, StructFields DEF OtherTypes
    <3>2. QuietMessage(i, r, Msg("MsgProp", from, r.lead, 0))
      BY <1>3, <3>1, OtherMessageQuiet
    <3> QED BY <2>2, <3>2, SendQuiet DEF QuietUpdate
  <2> QED BY <1>3, <2>1, <2>2 DEF HandleProp
<1>4. CASE Propose(i)
  BY <1>3, <1>4 DEF Propose
<1>5. ASSUME NEW to \in MayTransferTo, TransferLeader(i, to) PROVE QuietUpdate(i, r)
  <2>1. to \in Server
    BY ScenarioAssumption DEF MayTransferTo
  <2>2. Update(i, HandleTransferLeader(i, r, to, 0))
    BY <1>5 DEF TransferLeader
  <2> QED BY <2>1, <2>2, HandleTransferLeaderQuiet DEF QuietUpdate
<1>6. ASSUME NEW to \in Server, ReportUnreachable(i, to) PROVE QuietUpdate(i, r)
  <2> DEFINE pr == BecomeProbe(r.prs[to])
  <2>1. pr \in ProgressRecord
    <3>1. 0 \in Nat /\ r.prs[to] \in ProgressRecord
      BY StructFields
    <3> QED BY <3>1, ProgressTypes
  <2>2. Update(i, [r EXCEPT !.prs[to] = pr])
    BY <1>6 DEF ReportUnreachable
  <2> HIDE DEF pr
  <2> QED BY <2>1, <2>2, ProgressQuiet DEF QuietUpdate
<1>7. ASSUME NEW to \in Server, NEW failed \in BOOLEAN, ReportSnapshot(i, to, failed)
      PROVE  QuietUpdate(i, r)
  <2> DEFINE pr == SnapshotStatus(r.prs[to], failed)
  <2>1. pr \in ProgressRecord
    <3>1. 0 \in Nat /\ r.prs[to] \in ProgressRecord
      BY StructFields
    <3> QED BY <3>1, HandlerProgressTypes
  <2>2. Update(i, [r EXCEPT !.prs[to] = pr])
    BY <1>7 DEF ReportSnapshot
  <2> HIDE DEF pr
  <2> QED BY <2>1, <2>2, ProgressQuiet DEF QuietUpdate
<1>8. ASSUME NEW m \in Message, StepLowerTerm(i, m) PROVE QuietUpdate(i, r)
  <2> DEFINE M == AnswersToLowerTerm(i, r, m)
             n == Msg("MsgPreVoteResp", i, m.from, r.Term)
             n1 == [n EXCEPT !.reject = TRUE]
             n2 == Msg("MsgAppResp", i, m.from, r.Term)
  <2>1. M \subseteq {n1, n2}
    BY DEF AnswersToLowerTerm
  <2>2. m.from \in Server /\ r.Term \in Nat
    BY StructFields DEF Message
  <2>3. QuietMessage(i, r, n2)
    <3>1. "MsgAppResp" \in OtherTypes
      BY DEF OtherTypes
    <3> QED BY <2>2, <3>1, OtherMessageQuiet
  <2>4. QuietMessage(i, r, n1)
    <3>1. "MsgPreVoteResp" \in MessageTypes
      BY DEF MessageTypes
    <3>2. IsMsg(n, "MsgPreVoteResp", i, m.from, r.Term)
      BY <2>2, <3>1, MsgType
    <3> HIDE DEF n
    <3>3. n1 \in Message /\ n1.type = "MsgPreVoteResp"
      BY <3>2 DEF IsMsg, Message
    <3> HIDE DEF n1
    <3> QED BY <3>3, QuietMessages DEF SnapshotComplete
  <2>5. Update(i, [r EXCEPT !.msgs = r.msgs \cup M])
    BY <1>8 DEF StepLowerTerm
  <2> HIDE DEF M, n1, n2
  <2>6. \A x \in M : QuietMessage(i, r, x)
    BY <2>1, <2>3, <2>4
  <2> QED BY <2>5, <2>6, SendsQuiet DEF QuietUpdate
<1>9. ASSUME NEW m \in Message, StepProp(i, m) PROVE QuietUpdate(i, r)
  <2>1. m.from \in Server /\ HandleProp(i, r, m.from)
    BY <1>9 DEF StepProp, Message
  <2> QED BY <1>3, <2>1
<1> QED BY <1>1, <1>2, <1>4, <1>5, <1>6, <1>7, <1>8, <1>9

\* Messages that count only once their term has been dealt with.
LEMMA AnswersQuiet ==
    ASSUME NEW i \in Server, scenario \in Scenarios, NEW m \in Message, StructOK(Observe(node[i], m)),
           StepAppResp(i, m) \/ StepHeartbeatResp(i, m) \/ StepTransferLeader(i, m)
    PROVE  QuietUpdate(i, Observe(node[i], m))
<1> DEFINE r == Observe(node[i], m)
<1>1. Quiet(i, r, r)
  BY QuietSelf
<1>2. m.from \in Server
  BY DEF Message
<1>3. CASE StepAppResp(i, m)
  <2>1. Update(i, IF r.state # "Leader" THEN r ELSE HandleAppResp(i, r, m))
    BY <1>3 DEF StepAppResp
  <2> HIDE DEF r
  <2>2. r.state = "Leader" => Quiet(i, r, HandleAppResp(i, r, m))
    BY HandleAppRespQuiet DEF r
  <2> QED BY <1>1, <2>1, <2>2 DEF QuietUpdate, r
<1>4. CASE StepHeartbeatResp(i, m)
  <2>1. Update(i, IF r.state # "Leader" THEN r ELSE HandleHeartbeatResp(i, r, m))
    BY <1>4 DEF StepHeartbeatResp
  <2> HIDE DEF r
  <2>2. r.state = "Leader" => Quiet(i, r, HandleHeartbeatResp(i, r, m))
    BY HandleHeartbeatRespQuiet DEF r
  <2> QED BY <1>1, <2>1, <2>2 DEF QuietUpdate, r
<1>5. CASE StepTransferLeader(i, m)
  <2>1. Update(i, HandleTransferLeader(i, r, m.from, m.term))
    BY <1>5 DEF StepTransferLeader
  <2>2. Quiet(i, r, HandleTransferLeader(i, r, m.from, m.term))
    BY <1>2, HandleTransferLeaderQuiet
  <2> QED BY <2>1, <2>2 DEF QuietUpdate
<1> QED BY <1>3, <1>4, <1>5

\* Messages of the leader.
LEMMA LeaderMessagesQuiet ==
    ASSUME NEW i \in Server, scenario \in Scenarios, NEW m \in Message, SnapshotComplete(m),
           StructOK(Follow(Observe(node[i], m), m)),
           StepApp(i, m) \/ StepHeartbeat(i, m) \/ StepSnap(i, m)
    PROVE  QuietUpdate(i, Follow(Observe(node[i], m), m))
<1> DEFINE r == Follow(Observe(node[i], m), m)
<1>1. CASE StepApp(i, m)
  <2>1. Update(i, HandleAppendEntries(i, r, m))
    BY <1>1 DEF StepApp
  <2> QED BY <2>1, HandleAppendEntriesQuiet DEF QuietUpdate
<1>2. CASE StepHeartbeat(i, m)
  <2>1. Update(i, HandleHeartbeat(i, r, m))
    BY <1>2 DEF StepHeartbeat
  <2> QED BY <2>1, HandleHeartbeatQuiet DEF QuietUpdate
<1>3. CASE StepSnap(i, m)
  <2>1. Update(i, HandleSnapshot(i, r, m)) /\ m.type = "MsgSnap"
    BY <1>3 DEF StepSnap, Receives
  <2> QED BY <2>1, HandleSnapshotQuiet DEF QuietUpdate
<1> QED BY <1>1, <1>2, <1>3

\* A leader that has lost its quorum steps down (raft.go:979-997).
LEMMA LeaderTimeoutQuiet ==
    ASSUME NEW i \in Server, scenario \in Scenarios, StructOK(node[i]), LeaderTimeout(i)
    PROVE  \/ QuietUpdate(i, node[i])
           \/ QuietUpdate(i, BecomeFollower(node[i], node[i].Term, None))
<1> DEFINE r   == node[i]
           f   == BecomeFollower(r, r.Term, None)
           prs == [p \in Server |-> [r.prs[p] EXCEPT !.RecentActive = (p = i)]]
           t   == [r EXCEPT !.prs = prs]
           Done(s) == [s EXCEPT !.leadTransferee = None]
<1>1. Update(i, Done(r)) \/ Update(i, Done(f)) \/ Update(i, Done(t))
  BY DEF LeaderTimeout
<1>2. StructOK(f)
  BY StructFields, BecomeFollowerTurns DEF Turns, Grows
<1>3. Quiet(i, r, t)
  <2>1. \A p \in Server : [r.prs[p] EXCEPT !.RecentActive = (p = i)] \in ProgressRecord
    <3>1. \A pr \in ProgressRecord, b \in BOOLEAN : [pr EXCEPT !.RecentActive = b] \in ProgressRecord
      BY DEF ProgressRecord
    <3> QED BY <3>1, StructFields
  <2>2. prs \in [Server -> ProgressRecord]
    BY <2>1
  <2> HIDE DEF prs
  <2> QED BY <2>2, ProgressesQuiet
<1>4. ASSUME NEW s, StructOK(s) PROVE Quiet(i, s, Done(s))
  <2>1. Done(s) = [s EXCEPT !.electionElapsed = s.electionElapsed, !.lead = s.lead, !.leadTransferee = None]
    BY <1>4 DEF StructOK, RaftStruct
  <2>2. /\ s.electionElapsed \in {0, 1} /\ s.lead \in Server \cup {None}
        /\ None \in Server \cup {None}
    BY <1>4, StructFields
  <2>3. Quiet(i, s, [s EXCEPT !.electionElapsed = s.electionElapsed, !.lead = s.lead, !.leadTransferee = None])
    BY <1>4, <2>2, OtherQuiet
  <2> HIDE DEF Done
  <2> QED BY <2>1, <2>3
<1> HIDE DEF f, t, Done
<1>5. Quiet(i, r, Done(r)) /\ Quiet(i, f, Done(f)) /\ Quiet(i, r, Done(t))
  BY <1>2, <1>3, <1>4, QuietTransitive DEF Quiet, Grows
<1> QED BY <1>1, <1>5 DEF QuietUpdate, f

-----------------------------------------------------------------------------
(* Ready, restart, and the inductive invariant *)

\* A server that starts from its disk has the term, the vote and the log of the disk
\* (raft.go:318-355).
LEMMA FromDiskType ==
    ASSUME NEW d, DiskOK(d)
    PROVE  LET s == FromDisk(d)
           IN  /\ StructOK(s) /\ s.Term = d.Term /\ s.Vote = d.Vote /\ s.state = "Follower"
               /\ s.msgs = {} /\ s.log = d.log /\ s.offset = d.offset /\ s.committed = d.Commit
               /\ s.applied = d.offset
<1> DEFINE p == d.Commit < d.offset \/ d.Commit > Len(d.log)
           r == [Term |-> d.Term, Vote |-> d.Vote, state |-> "Follower", lead |-> None,
                 leadTransferee |-> None, electionElapsed |-> 0, votes |-> NoVotes, prs |-> NoProgress,
                 log |-> d.log, offset |-> d.offset, committed |-> d.Commit, applied |-> d.offset,
                 uncommittedSize |-> 0, msgs |-> {}, panicked |-> p]
<1>1. /\ d.Term \in Nat /\ d.Vote \in Server \cup {None} /\ d.log \in Seq(Entry)
      /\ d.offset \in Nat /\ d.Commit \in Nat /\ d.offset <= d.Commit /\ d.Commit <= Len(d.log)
  BY DEF DiskOK, Disk
<1>2. NoVotes \in [Server -> Votes] /\ NoProgress \in [Server -> ProgressRecord] /\ p \in BOOLEAN
  BY NewProgressType DEF NoVotes, Votes, NoProgress
<1>3. FromDisk(d) = BecomeFollower(r, d.Term, None)
  BY DEF FromDisk
<1> HIDE DEF p
<1>4. /\ r \in RaftStruct /\ r.Term = d.Term /\ r.Vote = d.Vote /\ r.msgs = {}
      /\ r.log = d.log /\ r.offset = d.offset /\ r.committed = d.Commit /\ r.applied = d.offset
  BY <1>1, <1>2 DEF RaftStruct
<1> HIDE DEF r
<1>5. StructOK(r)
  BY <1>1, <1>4 DEF StructOK
<1>6. KeptVote(r, d.Term) = d.Vote
  BY <1>4 DEF KeptVote
<1>7. Turns(r, BecomeFollower(r, d.Term, None), d.Term, d.Vote, "Follower")
  BY <1>1, <1>5, <1>6, BecomeFollowerTurns
<1> QED BY <1>3, <1>4, <1>7 DEF Turns, Grows, SameLog

\* The counter of the uncommitted size does not underflow (raft.go:1779-1797).
LEMMA ReducedSizeType ==
    ASSUME NEW r, StructOK(r)
    PROVE  ReduceUncommittedSize(r) \in Nat
<1> DEFINE S == {k \in (r.applied + 1)..r.committed : PayloadSize(r.log[k]) > 0}
<1>1. r.applied + 1 \in Int /\ r.committed \in Int /\ r.uncommittedSize \in Nat
  BY StructFields
<1>2. IsFiniteSet((r.applied + 1)..r.committed)
  BY <1>1, FS_Interval
<1>3. Cardinality(S) \in Nat
  <2>1. S \subseteq (r.applied + 1)..r.committed
    OBVIOUS
  <2> HIDE DEF S
  <2> QED BY <1>2, <2>1, FS_Subset, FS_CardinalityType
<1>4. ReduceUncommittedSize(r) = Max2(r.uncommittedSize - Cardinality(S), 0)
  BY DEF ReduceUncommittedSize
<1> HIDE DEF S
<1> QED BY <1>1, <1>3, <1>4 DEF Max2

\* What was handed out is sent and applied; nothing else changes (rawnode.go:122-163).
LEMMA AdvancedType ==
    ASSUME NEW r, StructOK(r)
    PROVE  LET s == Advanced(r)
           IN  /\ StructOK(s) /\ s.Term = r.Term /\ s.Vote = r.Vote /\ s.state = r.state
               /\ s.votes = r.votes /\ SameLog(r, s) /\ s.applied = r.committed /\ s.msgs = {}
<1> DEFINE z == ReduceUncommittedSize(r)
           s == [r EXCEPT !.msgs = {}, !.applied = r.committed, !.uncommittedSize = z]
<1>1. z \in Nat
  BY ReducedSizeType
<1>2. Advanced(r) = s
  BY DEF Advanced
<1> HIDE DEF z
<1>3. /\ s \in RaftStruct /\ s.Term = r.Term /\ s.Vote = r.Vote /\ s.state = r.state
      /\ s.votes = r.votes /\ SameLog(r, s) /\ s.applied = r.committed /\ s.msgs = {}
  BY <1>1 DEF StructOK, RaftStruct, SameLog
<1> HIDE DEF s
<1>4. StructOK(s)
  BY <1>3, StructFields DEF StructOK, SameLog
<1> QED BY <1>2, <1>3, <1>4

\* What is made durable is a disk.
LEMMA HardStateType ==
    ASSUME NEW r, StructOK(r)
    PROVE  LET d == HardState(r)
           IN  /\ DiskOK(d) /\ d.Term = r.Term /\ d.Vote = r.Vote /\ d.Commit = r.committed
               /\ d.offset = r.offset /\ d.log = r.log
<1> DEFINE d == HardState(r)
<1>1. /\ d \in Disk /\ d.Term = r.Term /\ d.Vote = r.Vote /\ d.Commit = r.committed
      /\ d.offset = r.offset /\ d.log = r.log
  BY StructFields DEF HardState, Disk
<1> HIDE DEF d
<1>2. DiskOK(d)
  BY <1>1 DEF DiskOK, StructOK
<1> QED BY <1>1, <1>2 DEF d

\* The variables, apart from what they say of server i.
OthersKeep(i) ==
    /\ scenario' = scenario
    /\ node' = [node EXCEPT ![i] = node'[i]] /\ disk' = [disk EXCEPT ![i] = disk'[i]]

\* Server i enters state r, and an eager application handles the Ready at once.
LEMMA UpdateEffect ==
    ASSUME NEW i \in Server, NEW r, TypeInv, Update(i, r)
    PROVE  /\ OthersKeep(i)
           /\ \/ node'[i] = r /\ disk'[i] = disk[i] /\ net' = net
              \/ node'[i] = Advanced(r) /\ disk'[i] = HardState(r) /\ net' = net \cup r.msgs
<1>1. node \in [Server -> RaftStruct] /\ disk \in [Server -> Disk]
  BY DEF TypeInv
<1>2. CASE HandleReady(i, r)
  BY <1>1, <1>2 DEF HandleReady, OthersKeep
<1>3. CASE node' = [node EXCEPT ![i] = r] /\ UNCHANGED <<disk, net, scenario>>
  BY <1>1, <1>3 DEF OthersKeep
<1> QED BY <1>2, <1>3 DEF Update

\* The part of the invariant that is about server i and the network.
LEMMA TypeInvKept ==
    ASSUME NEW i \in Server, TypeInv, OthersKeep(i),
           StructOK(node'[i]), DiskOK(disk'[i]), AheadOfDisk(node'[i], disk'[i]),
           \A m \in net' : m \in Message /\ SnapshotComplete(m)
    PROVE  TypeInv'
<1>1. /\ node' = [node EXCEPT ![i] = node'[i]] /\ disk' = [disk EXCEPT ![i] = disk'[i]]
      /\ scenario' = scenario
  BY DEF OthersKeep
<1>2. node'[i] \in RaftStruct /\ disk'[i] \in Disk
  BY DEF StructOK, DiskOK
<1>3. node' \in [Server -> RaftStruct] /\ disk' \in [Server -> Disk]
  BY <1>1, <1>2 DEF TypeInv
<1>4. \A j \in Server : j # i => node'[j] = node[j] /\ disk'[j] = disk[j]
  BY <1>1 DEF TypeInv
<1>5. \A j \in Server : StructOK(node'[j]) /\ DiskOK(disk'[j]) /\ AheadOfDisk(node'[j], disk'[j])
  BY <1>4 DEF TypeInv
<1> QED BY <1>1, <1>3, <1>5 DEF TypeInv

\* A step of a server, with its Ready at once where that is eager (rawnode.go:105-166), keeps the
\* types and the order of the indexes in memory and on disk.
LEMMA UpdateType ==
    ASSUME NEW i \in Server, NEW r, TypeInv, Grows(node[i], r), Update(i, r)
    PROVE  TypeInv'
<1>1. StructOK(node[i]) /\ DiskOK(disk[i]) /\ AheadOfDisk(node[i], disk[i]) /\ StructOK(r)
  BY DEF TypeInv, Grows
<1>2. OthersKeep(i)
  BY UpdateEffect
<1>3. CASE node'[i] = r /\ disk'[i] = disk[i] /\ net' = net
  <2>1. disk[i].Commit \in Nat /\ disk[i].offset \in Nat
    BY <1>1 DEF DiskOK, Disk
  <2>2. AheadOfDisk(r, disk[i])
    BY <1>1, <2>1, StructFields DEF AheadOfDisk, Grows
  <2>3. \A m \in net : m \in Message /\ SnapshotComplete(m)
    BY DEF TypeInv
  <2> QED BY <1>1, <1>2, <1>3, <2>2, <2>3, TypeInvKept
<1>4. CASE node'[i] = Advanced(r) /\ disk'[i] = HardState(r) /\ net' = net \cup r.msgs
  <2> DEFINE s == Advanced(r)
             d == HardState(r)
  <2>1. StructOK(s) /\ SameLog(r, s) /\ s.applied = r.committed
    BY <1>1, AdvancedType
  <2>2. DiskOK(d) /\ d.Commit = r.committed /\ d.offset = r.offset
    BY <1>1, HardStateType
  <2>3. node'[i] = s /\ disk'[i] = d
    BY <1>4
  <2> HIDE DEF s, d
  <2>4. AheadOfDisk(s, d)
    BY <1>1, <2>1, <2>2, StructFields DEF AheadOfDisk, SameLog
  <2>5. \A m \in net' : m \in Message /\ SnapshotComplete(m)
    BY <1>1, <1>4, StructFields DEF TypeInv, StructOK
  <2> QED BY <1>2, <2>1, <2>2, <2>3, <2>4, <2>5, TypeInvKept
<1> QED BY <1>3, <1>4, UpdateEffect

\* Ready: what the server has on disk, sends and applies is what it is in.
LEMMA ReadyType ==
    ASSUME NEW i \in Server, TypeInv, Ready(i)
    PROVE  /\ OthersKeep(i) /\ TypeInv'
           /\ node'[i] = Advanced(node[i]) /\ disk'[i] = HardState(node[i])
           /\ net' = net \cup node[i].msgs
<1> DEFINE r == node[i]
           s == Advanced(r)
           d == HardState(r)
<1>1. StructOK(r) /\ node \in [Server -> RaftStruct] /\ disk \in [Server -> Disk]
  BY DEF TypeInv
<1>2. OthersKeep(i) /\ node'[i] = s /\ disk'[i] = d /\ net' = net \cup r.msgs
  BY <1>1 DEF Ready, HandleReady, OthersKeep
<1>3. StructOK(s) /\ SameLog(r, s) /\ s.applied = r.committed
  BY <1>1, AdvancedType
<1>4. DiskOK(d) /\ d.Commit = r.committed /\ d.offset = r.offset
  BY <1>1, HardStateType
<1>5. \A m \in net' : m \in Message /\ SnapshotComplete(m)
  BY <1>1, <1>2, StructFields DEF TypeInv, StructOK
<1>6. TypeInv'
  <2>1. /\ r.offset \in Nat /\ r.committed \in Nat
    BY <1>1, StructFields
  <2> HIDE DEF s, d, r
  <2>2. AheadOfDisk(s, d)
    BY <2>1, <1>3, <1>4 DEF AheadOfDisk, SameLog
  <2> QED BY <1>2, <1>3, <1>4, <1>5, <2>2, TypeInvKept
<1> QED BY <1>2, <1>6

\* Compact: only what is applied, and so on disk, is compacted (storage.go:200-247).
LEMMA CompactType ==
    ASSUME NEW i \in Server, TypeInv, Compact(i)
    PROVE  /\ OthersKeep(i) /\ TypeInv' /\ net' = net
           /\ Grows(node[i], node'[i]) /\ Quiet(i, node[i], node'[i])
           /\ disk'[i].Term = disk[i].Term /\ disk'[i].Vote = disk[i].Vote
           /\ disk'[i].Commit = disk[i].Commit /\ disk'[i].offset >= disk[i].offset
<1> DEFINE r == node[i]
           d == disk[i]
           o == Max2(r.offset, r.applied)
           s == [r EXCEPT !.offset = o]
           e == [d EXCEPT !.offset = r.applied]
<1>1. /\ StructOK(r) /\ DiskOK(d) /\ AheadOfDisk(r, d) /\ node \in [Server -> RaftStruct]
      /\ disk \in [Server -> Disk]
  BY DEF TypeInv
<1>2. OthersKeep(i) /\ node'[i] = s /\ disk'[i] = e /\ net' = net /\ r.applied > d.offset
  BY <1>1 DEF Compact, OthersKeep
<1>3. /\ r.offset \in Nat /\ r.applied \in Nat /\ r.committed \in Nat /\ r.applied <= r.committed
      /\ r.offset <= r.committed /\ r.committed <= Len(r.log) /\ Len(r.log) \in Nat
      /\ d.offset \in Nat /\ d.Commit \in Nat /\ d.Commit <= Len(d.log)
  BY <1>1, StructFields DEF StructOK, DiskOK, Disk
<1>4. o \in Nat /\ o >= r.offset /\ o >= r.applied /\ o <= r.committed
  BY <1>3 DEF Max2
<1> HIDE DEF o
<1>5. /\ s \in RaftStruct /\ s.msgs = r.msgs /\ Same(r, s) /\ s.committed = r.committed
      /\ s.offset = o /\ s.log = r.log
  BY <1>1, <1>4 DEF StructOK, RaftStruct, Same
<1>6. /\ e \in Disk /\ e.Term = d.Term /\ e.Vote = d.Vote /\ e.Commit = d.Commit /\ e.log = d.log
      /\ e.offset = r.applied
  BY <1>1, <1>3 DEF DiskOK, Disk
<1> HIDE DEF s, e
<1>7. Quiet(i, r, s)
  BY <1>1, <1>3, <1>4, <1>5, SameIsQuiet
<1>8. DiskOK(e) /\ AheadOfDisk(s, e)
  BY <1>1, <1>3, <1>4, <1>5, <1>6 DEF DiskOK, AheadOfDisk, Same
<1>9. \A m \in net' : m \in Message /\ SnapshotComplete(m)
  BY <1>2 DEF TypeInv
<1>10. StructOK(s) /\ Grows(r, s)
  BY <1>7 DEF Quiet, Grows
<1>11. TypeInv'
  BY <1>2, <1>8, <1>9, <1>10, TypeInvKept
<1> QED BY <1>2, <1>3, <1>6, <1>7, <1>10, <1>11

\* Restart: the server starts again from its disk.
LEMMA RestartType ==
    ASSUME NEW i \in Server, TypeInv, Restart(i)
    PROVE  /\ OthersKeep(i) /\ TypeInv'
           /\ node'[i] = FromDisk(disk[i]) /\ disk'[i] = disk[i] /\ net' = net
<1> DEFINE d == disk[i]
           s == FromDisk(d)
<1>1. DiskOK(d) /\ node \in [Server -> RaftStruct] /\ disk \in [Server -> Disk]
  BY DEF TypeInv
<1>2. OthersKeep(i) /\ node'[i] = s /\ disk'[i] = d /\ net' = net
  BY <1>1 DEF Restart, OthersKeep
<1>3. StructOK(s) /\ s.offset = d.offset /\ s.committed = d.Commit /\ s.applied = d.offset
  BY <1>1, FromDiskType
<1>4. d.offset \in Nat /\ d.Commit \in Nat /\ d.offset <= d.Commit
  BY <1>1 DEF DiskOK, Disk
<1> HIDE DEF s, d
<1>5. AheadOfDisk(s, d)
  BY <1>3, <1>4 DEF AheadOfDisk
<1>6. \A m \in net' : m \in Message /\ SnapshotComplete(m)
  BY <1>2 DEF TypeInv
<1>7. TypeInv'
  BY <1>1, <1>2, <1>3, <1>5, <1>6, TypeInvKept
<1> QED BY <1>2, <1>7 DEF s, d

\* A message of the network.
LEMMA NetMessage ==
    ASSUME TypeInv, NEW m \in net
    PROVE  m \in Message /\ SnapshotComplete(m)
BY DEF TypeInv

\* Every step of a server but Ready, Compact and Restart moves its indexes forward.
LEMMA StepsGrow ==
    ASSUME TypeInv, NEW i \in Server,
           \/ Hup(i) \/ LeaseExpires(i) \/ Beat(i) \/ LeaderTimeout(i) \/ Propose(i)
           \/ \E to \in MayTransferTo : TransferLeader(i, to)
           \/ \E to \in Server \ {i} : ReportUnreachable(i, to)
           \/ \E to \in Server \ {i}, failed \in BOOLEAN : ReportSnapshot(i, to, failed)
           \/ \E m \in {n \in net : n.to = i} : Step(i, m)
    PROVE  \E s : Update(i, s) /\ Grows(node[i], s)
<1> DEFINE r == node[i]
<1>1. StructOK(r) /\ scenario \in Scenarios
  BY DEF TypeInv
<1>2. ASSUME NEW t, Grows(r, t), QuietUpdate(i, t) PROVE \E s : Update(i, s) /\ Grows(r, s)
  <2>1. PICK s : Update(i, s) /\ Quiet(i, t, s)
    BY <1>2 DEF QuietUpdate
  <2>2. Grows(r, s)
    BY <1>1, <1>2, <2>1, GrowsTransitive DEF Quiet
  <2> QED BY <2>1, <2>2
<1>3. Grows(r, r)
  BY <1>1, QuietSelf DEF Quiet
<1>4. CASE Hup(i)
  <2>1. Update(i, CampaignPreElection(i, r)) \/ Update(i, CampaignElection(i, r, FALSE))
    BY <1>4 DEF Hup
  <2> QED BY <1>1, <2>1, CampaignGrows
<1>5. CASE LeaderTimeout(i)
  <2>1. Grows(r, BecomeFollower(r, r.Term, None))
    BY <1>1, StructFields, BecomeFollowerTurns DEF Turns
  <2> QED BY <1>1, <1>2, <1>3, <1>5, <2>1, LeaderTimeoutQuiet
<1>6. CASE \/ LeaseExpires(i) \/ Beat(i) \/ Propose(i)
           \/ \E to \in MayTransferTo : TransferLeader(i, to)
           \/ \E to \in Server \ {i} : ReportUnreachable(i, to)
           \/ \E to \in Server \ {i}, failed \in BOOLEAN : ReportSnapshot(i, to, failed)
  BY <1>1, <1>2, <1>3, <1>6, LocalActionsQuiet
<1>7. ASSUME NEW m \in net, Step(i, m) PROVE \E s : Update(i, s) /\ Grows(r, s)
  <2> DEFINE q == Observe(r, m)
             f == Follow(q, m)
  <2>1. m \in Message /\ SnapshotComplete(m) /\ m.from \in Server
    BY NetMessage DEF Message
  <2>2. Grows(r, q) /\ StructOK(q)
    BY <1>1, <1>3, <2>1, ObserveTurns DEF Turns, Grows
  <2> HIDE DEF q
  <2>3. Grows(r, f) /\ StructOK(f)
    <3>1. Grows(q, f)
      BY <2>1, <2>2, FollowTurns DEF Turns, Quiet
    <3> QED BY <1>1, <2>2, <3>1, GrowsTransitive DEF Grows
  <2> HIDE DEF f
  <2>4. CASE StepLowerTerm(i, m) \/ StepProp(i, m)
    BY <1>1, <1>2, <1>3, <2>1, <2>4, LocalActionsQuiet
  <2>5. CASE StepAppResp(i, m) \/ StepHeartbeatResp(i, m) \/ StepTransferLeader(i, m)
    BY <1>1, <1>2, <2>1, <2>2, <2>5, AnswersQuiet DEF q
  <2>6. CASE StepApp(i, m) \/ StepHeartbeat(i, m) \/ StepSnap(i, m)
    BY <1>1, <1>2, <2>1, <2>3, <2>6, LeaderMessagesQuiet DEF q, f
  <2>7. CASE StepVote(i, m)
    <3>1. Update(i, HandleVote(i, q, m)) /\ m.type \in {"MsgVote", "MsgPreVote"}
      BY <2>7 DEF StepVote, q
    <3>2. Grows(q, HandleVote(i, q, m))
      BY <2>1, <2>2, <3>1, HandleVoteType DEF Quiet
    <3> QED BY <1>1, <2>2, <3>1, <3>2, GrowsTransitive
  <2>8. CASE StepVoteResp(i, m)
    <3>1. Update(i, HandleVoteResp(i, q, m))
      BY <2>8 DEF StepVoteResp, q
    <3>2. Grows(q, HandleVoteResp(i, q, m))
      BY <1>1, <2>1, <2>2, HandleVoteRespGrows
    <3> QED BY <1>1, <2>2, <3>1, <3>2, GrowsTransitive
  <2>9. CASE StepTimeoutNow(i, m)
    <3>1. Update(i, CampaignElection(i, q, TRUE)) \/ Update(i, q)
      BY <2>9 DEF StepTimeoutNow, q
    <3>2. Grows(q, CampaignElection(i, q, TRUE))
      BY <2>2, CampaignGrows
    <3> QED BY <1>1, <2>2, <3>1, <3>2, GrowsTransitive
  <2> QED BY <1>7, <2>4, <2>5, <2>6, <2>7, <2>8, <2>9 DEF Step
<1> QED BY <1>4, <1>5, <1>6, <1>7

\* A group starts with empty disks (storage.go:89-94, raft.go:318-360).
LEMMA TypeInvInit == Init => TypeInv
<1> SUFFICES ASSUME Init PROVE TypeInv
  OBVIOUS
<1> DEFINE d == EmptyDisk
           s == FromDisk(d)
<1>1. DiskOK(d) /\ d.offset = 0 /\ d.Commit = 0
  BY DEF DiskOK, Disk, EmptyDisk
<1>2. StructOK(s) /\ s.offset = d.offset /\ s.committed = d.Commit /\ s.applied = d.offset
  BY <1>1, FromDiskType
<1>3. node = [i \in Server |-> s] /\ disk = [i \in Server |-> d] /\ net = {} /\ scenario \in Scenarios
  BY DEF Init
<1> HIDE DEF s, d
<1>4. s \in RaftStruct /\ d \in Disk /\ AheadOfDisk(s, d)
  BY <1>1, <1>2 DEF StructOK, DiskOK, AheadOfDisk
<1> QED BY <1>1, <1>2, <1>3, <1>4 DEF TypeInv

\* Every event of a server, its Ready, a compaction and a restart from disk keep the types and the
\* order of the indexes.
LEMMA TypeInvNext == TypeInv /\ [Next]_vars => TypeInv'
<1> SUFFICES ASSUME TypeInv, [Next]_vars PROVE TypeInv'
  OBVIOUS
<1>1. CASE UNCHANGED vars
  BY <1>1 DEF vars, TypeInv
<1>2. CASE Next
  <2>1. PICK i \in Server :
            \/ Hup(i) \/ LeaseExpires(i) \/ Beat(i) \/ LeaderTimeout(i) \/ Propose(i)
            \/ \E to \in MayTransferTo : TransferLeader(i, to)
            \/ \E to \in Server \ {i} : ReportUnreachable(i, to)
            \/ \E to \in Server \ {i}, failed \in BOOLEAN : ReportSnapshot(i, to, failed)
            \/ \E m \in {n \in net : n.to = i} : Step(i, m)
            \/ Ready(i) \/ Compact(i) \/ Restart(i)
    BY <1>2 DEF Next
  <2>2. CASE Ready(i) \/ Compact(i) \/ Restart(i)
    BY <2>2, ReadyType, CompactType, RestartType
  <2>3. CASE ~(Ready(i) \/ Compact(i) \/ Restart(i))
    <3>1. PICK s : Update(i, s) /\ Grows(node[i], s)
      BY <2>1, <2>3, StepsGrow
    <3> QED BY <3>1, UpdateType
  <2> QED BY <2>2, <2>3
<1> QED BY <1>1, <1>2

\* The inductive invariant: types, and the order of a server's indexes.
THEOREM TypeInvariant == Spec => []TypeInv
<1> QED BY TypeInvInit, TypeInvNext, PTL DEF Spec

\* Servers, disks and messages keep their types in every reachable state, whatever is lost,
\* repeated or crashes; in particular the counter of the uncommitted size does not underflow
\* and no progress falls below index 1.
THEOREM TypeCorrect == Spec => []TypeOK
<1>1. TypeInv => TypeOK
  BY DEF TypeInv, TypeOK
<1> QED BY <1>1, TypeInvariant, PTL

\* Commit index and compaction point on disk never go back (log.go:233-241, raft.go:1514-1584).
LEMMA IndexesMonotonic ==
    ASSUME TypeInv, [Next]_vars, NEW j \in Server
    PROVE  disk'[j].Commit >= disk[j].Commit /\ disk'[j].offset >= disk[j].offset
<1>1. ASSUME NEW k \in Server PROVE disk[k].Commit \in Nat /\ disk[k].offset \in Nat
  BY DEF TypeInv, DiskOK, Disk
<1>2. CASE UNCHANGED vars
  BY <1>1, <1>2 DEF vars
<1>3. CASE Next
  <2>1. PICK i \in Server :
            \/ Hup(i) \/ LeaseExpires(i) \/ Beat(i) \/ LeaderTimeout(i) \/ Propose(i)
            \/ \E to \in MayTransferTo : TransferLeader(i, to)
            \/ \E to \in Server \ {i} : ReportUnreachable(i, to)
            \/ \E to \in Server \ {i}, failed \in BOOLEAN : ReportSnapshot(i, to, failed)
            \/ \E m \in {n \in net : n.to = i} : Step(i, m)
            \/ Ready(i) \/ Compact(i) \/ Restart(i)
    BY <1>3 DEF Next
  <2>2. ASSUME NEW r, StructOK(r), r.committed >= node[i].committed, r.offset >= node[i].offset,
               disk'[i] = HardState(r)
        PROVE  disk'[i].Commit >= disk[i].Commit /\ disk'[i].offset >= disk[i].offset
    <3>1. disk'[i].Commit = r.committed /\ disk'[i].offset = r.offset
      BY <2>2, HardStateType
    <3>2. /\ StructOK(node[i]) /\ disk[i].Commit <= node[i].committed
          /\ disk[i].offset <= node[i].offset
      BY DEF TypeInv, AheadOfDisk
    <3> QED BY <1>1, <2>2, <3>1, <3>2, StructFields
  <2>3. CASE Ready(i)
    <3>1. OthersKeep(i) /\ disk'[i] = HardState(node[i]) /\ StructOK(node[i])
      BY <2>3, ReadyType DEF TypeInv
    <3>2. node[i].committed >= node[i].committed /\ node[i].offset >= node[i].offset
      BY <3>1, StructFields
    <3> QED BY <1>1, <2>2, <3>1, <3>2 DEF OthersKeep, TypeInv
  <2>4. CASE Compact(i)
    BY <1>1, <2>4, CompactType DEF OthersKeep, TypeInv
  <2>5. CASE Restart(i)
    BY <1>1, <2>5, RestartType DEF OthersKeep, TypeInv
  <2>6. CASE ~(Ready(i) \/ Compact(i) \/ Restart(i))
    <3>1. PICK s : Update(i, s) /\ Grows(node[i], s)
      BY <2>1, <2>6, StepsGrow
    <3>2. OthersKeep(i) /\ (disk'[i] = disk[i] \/ disk'[i] = HardState(s))
      BY <3>1, UpdateEffect
    <3> QED BY <1>1, <2>2, <3>1, <3>2 DEF OthersKeep, TypeInv, Grows
  <2> QED BY <2>3, <2>4, <2>5, <2>6
<1> QED BY <1>2, <1>3


-----------------------------------------------------------------------------
(* Flow control: the inductive invariant *)

\* The window holds growing indexes above Match and below Next; only in StateReplicate
\* is there one, and there Next is beyond Match.
WindowOK(pr) ==
    LET w == pr.Inflights
    IN  /\ Len(w) <= MaxInflight
        /\ pr.State = "Replicate" => pr.Match < pr.Next
        /\ pr.State # "Replicate" => w = <<>>
        /\ \A k \in 1..Len(w) : pr.Match < w[k] /\ w[k] < pr.Next
        /\ \A j, k \in 1..Len(w) : j < k => w[j] < w[k]

Windowed(i, r) == r.state = "Leader" => \A p \in Server \ {i} : WindowOK(r.prs[p])

WindowsInv == \A i \in Server : Windowed(i, node[i])

-----------------------------------------------------------------------------
(* The progress of one follower *)

\* Where nothing is in flight, only Next matters.
LEMMA EmptyWindow ==
    ASSUME NEW pr, pr.Inflights = <<>>, pr.State = "Replicate" => pr.Match < pr.Next
    PROVE  WindowOK(pr)
BY MaxInflightAssumption DEF WindowOK

\* Flags are no part of the window, and Next may move on.
LEMMA SameWindow ==
    ASSUME NEW pr \in ProgressRecord, NEW s \in ProgressRecord, WindowOK(pr), s.State = pr.State,
           s.Match = pr.Match, s.Inflights = pr.Inflights, s.Next >= pr.Next
    PROVE  WindowOK(s)
<1>1. /\ pr.Match \in Nat /\ pr.Next \in Nat /\ s.Next \in Nat /\ pr.Inflights \in Seq(Nat)
  BY DEF ProgressRecord
<1>2. \A k \in 1..Len(pr.Inflights) : pr.Inflights[k] \in Nat
  BY <1>1
<1> QED BY <1>1, <1>2 DEF WindowOK

\* BecomeProbe, BecomeReplicate and BecomeSnapshot start an empty window (tracker/progress.go:86-123).
LEMMA ResetWindows ==
    ASSUME NEW pr \in ProgressRecord, NEW n \in Nat
    PROVE  /\ WindowOK(BecomeProbe(pr)) /\ WindowOK(BecomeReplicate(pr))
           /\ WindowOK(BecomeSnapshot(pr, n))
<1> DEFINE a == BecomeProbe(pr)
           b == BecomeReplicate(pr)
           c == BecomeSnapshot(pr, n)
<1>1. a.Inflights = <<>> /\ a.State = "Probe"
  BY DEF BecomeProbe, ResetState, ProgressRecord
<1>2. b.Inflights = <<>> /\ b.Match = pr.Match /\ b.Next = pr.Match + 1
  BY DEF BecomeReplicate, ResetState, ProgressRecord
<1>3. c.Inflights = <<>> /\ c.State = "Snapshot"
  BY DEF BecomeSnapshot, ResetState, ProgressRecord
<1>4. pr.Match \in Nat
  BY DEF ProgressRecord
<1> HIDE DEF a, b, c
<1>5. WindowOK(a) /\ WindowOK(b) /\ WindowOK(c)
  BY <1>1, <1>2, <1>3, <1>4, EmptyWindow
<1> QED BY <1>5 DEF a, b, c

\* OptimisticUpdate and Inflights.Add: a message that was sent ends at or behind Next, and there
\* was room for it (raft.go:470-476).
LEMMA SentWindow ==
    ASSUME NEW pr \in ProgressRecord, WindowOK(pr), pr.State = "Replicate", ~Full(pr),
           NEW n \in Nat, n >= pr.Next
    PROVE  WindowOK(SentUpTo(pr, n))
<1> DEFINE w == pr.Inflights
           v == Append(w, n)
           s == SentUpTo(pr, n)
<1>1. s.Match = pr.Match /\ s.State = pr.State /\ s.Next = n + 1 /\ s.Inflights = v
  BY DEF SentUpTo, ProgressRecord
<1>2. pr.Match \in Nat /\ pr.Next \in Nat /\ w \in Seq(Nat)
  BY DEF ProgressRecord
<1>3. /\ Len(v) = Len(w) + 1 /\ v[Len(w) + 1] = n /\ Len(w) \in Nat
      /\ \A k \in 1..Len(w) : v[k] = w[k] /\ w[k] \in Nat
  BY <1>2
<1>4. /\ Len(w) <= MaxInflight /\ Len(w) # MaxInflight /\ pr.Match < pr.Next
      /\ \A k \in 1..Len(w) : pr.Match < w[k] /\ w[k] < pr.Next
      /\ \A j, k \in 1..Len(w) : j < k => w[j] < w[k]
  BY DEF WindowOK, Full
<1> HIDE DEF s, v, w
<1>5. Len(v) <= MaxInflight
  BY <1>3, <1>4, MaxInflightAssumption
<1>6. ASSUME NEW k \in 1..Len(v) PROVE s.Match < v[k] /\ v[k] < s.Next
  <2>1. k \in 1..Len(w) \/ k = Len(w) + 1
    BY <1>3
  <2> QED BY <1>1, <1>2, <1>3, <1>4, <2>1
<1>7. ASSUME NEW j \in 1..Len(v), NEW k \in 1..Len(v), j < k PROVE v[j] < v[k]
  <2>1. j \in 1..Len(w) /\ (k \in 1..Len(w) \/ k = Len(w) + 1)
    BY <1>3, <1>7
  <2> QED BY <1>2, <1>3, <1>4, <1>7, <2>1
<1>8. s.Match < s.Next
  BY <1>1, <1>2, <1>4
<1>9. WindowOK(s)
  BY <1>1, <1>5, <1>6, <1>7, <1>8 DEF WindowOK
<1> QED BY <1>9 DEF s

\* The rest of a window is one: what is left when the first f messages are freed.
LEMMA RestWindow ==
    ASSUME NEW pr \in ProgressRecord, WindowOK(pr), NEW s \in ProgressRecord, NEW f \in 0..Len(pr.Inflights),
           s.State = pr.State, s.State = "Replicate", s.Next >= pr.Next, s.Match < s.Next,
           Len(s.Inflights) = Len(pr.Inflights) - f,
           \A k \in 1..(Len(pr.Inflights) - f) : s.Inflights[k] = pr.Inflights[f + k],
           \A k \in (f + 1)..Len(pr.Inflights) : s.Match < pr.Inflights[k]
    PROVE  WindowOK(s)
<1> DEFINE w == pr.Inflights
           v == s.Inflights
<1>1. w \in Seq(Nat) /\ Len(w) \in Nat /\ f \in Nat /\ f <= Len(w) /\ s.Next \in Nat /\ pr.Next \in Nat
  BY DEF ProgressRecord
<1>2. /\ Len(w) <= MaxInflight
      /\ \A k \in 1..Len(w) : w[k] < pr.Next /\ w[k] \in Nat
      /\ \A j, k \in 1..Len(w) : j < k => w[j] < w[k]
  BY <1>1 DEF WindowOK
<1>3. Len(v) <= MaxInflight
  BY <1>1, <1>2, MaxInflightAssumption
<1> HIDE DEF w, v
<1>4. ASSUME NEW k \in 1..Len(v)
      PROVE  k \in Nat /\ f + k \in (f + 1)..Len(w) /\ f + k \in 1..Len(w) /\ v[k] = w[f + k]
  <2>1. k \in 1..(Len(w) - f)
    BY <1>1 DEF w, v
  <2> QED BY <1>1, <2>1 DEF w, v
<1>5. ASSUME NEW k \in 1..Len(v) PROVE s.Match < v[k] /\ v[k] < s.Next
  <2> DEFINE x == f + k
  <2>1. x \in (f + 1)..Len(w) /\ x \in 1..Len(w) /\ v[k] = w[x]
    BY <1>4
  <2> HIDE DEF x
  <2>2. s.Match < w[x]
    BY <2>1 DEF w
  <2>3. w[x] < s.Next
    BY <1>1, <1>2, <2>1
  <2> QED BY <2>1, <2>2, <2>3
<1>6. ASSUME NEW j \in 1..Len(v), NEW k \in 1..Len(v), j < k PROVE v[j] < v[k]
  <2> DEFINE x == f + j
             y == f + k
  <2>1. x \in 1..Len(w) /\ y \in 1..Len(w) /\ v[j] = w[x] /\ v[k] = w[y] /\ x < y
    BY <1>1, <1>4, <1>6
  <2> HIDE DEF x, y
  <2> QED BY <1>2, <2>1
<1> QED BY <1>3, <1>5, <1>6 DEF WindowOK, v

\* An ack that is news moves Match, and frees the messages it covers (raft.go:1232-1252).
LEMMA AckWindow ==
    ASSUME NEW pr \in ProgressRecord, WindowOK(pr), NEW n \in Nat, Updates(pr, n)
    PROVE  WindowOK(AckProgress(pr, n))
<1> DEFINE pr1 == MaybeUpdate(pr, n)
           w   == pr.Inflights
           f   == Freed(w, n)
           s   == FreeLE(pr1, n)
<1>1. /\ pr.Match \in Nat /\ pr.Next \in Nat \ {0} /\ w \in Seq(Nat) /\ Len(w) \in Nat
      /\ pr.State \in {"Probe", "Replicate", "Snapshot"}
  BY DEF ProgressRecord
<1>2. pr1 \in ProgressRecord
  BY ProgressTypes
<1>3. pr1.Match = n /\ pr1.Next = Max2(pr.Next, n + 1) /\ pr1.State = pr.State /\ pr1.Inflights = w
  <2>1. Max2(pr.Match, n) = n
    BY <1>1 DEF Updates, Max2
  <2> QED BY <2>1 DEF MaybeUpdate, ProgressRecord
<1>4. pr1.Next >= pr.Next /\ n < pr1.Next /\ pr1.Next \in Nat
  BY <1>1, <1>3 DEF Max2
<1> HIDE DEF pr1
<1>5. CASE pr.State # "Replicate"
  <2>1. WindowOK(pr1)
    BY <1>3, <1>5, EmptyWindow DEF WindowOK
  <2>2. BecomeProbe(pr1) \in ProgressRecord
    BY <1>2, ProgressTypes
  <2>3. WindowOK(BecomeReplicate(pr1)) /\ WindowOK(BecomeReplicate(BecomeProbe(pr1)))
    BY <1>2, <2>2, ResetWindows
  <2>4. pr1.Match >= pr1.PendingSnapshot \/ pr1.Match < pr1.PendingSnapshot
    BY <1>2 DEF ProgressRecord
  <2>5. AckProgress(pr, n) \in {BecomeReplicate(pr1), BecomeReplicate(BecomeProbe(pr1)), pr1}
    BY <1>1, <1>3, <1>5, <2>4 DEF AckProgress, pr1
  <2> QED BY <2>1, <2>3, <2>5
<1>6. CASE pr.State = "Replicate"
  <2>1. AckProgress(pr, n) = s
    BY <1>3, <1>6 DEF AckProgress, pr1
  <2>2. f \in 0..Len(w) /\ (f < Len(w) => w[f + 1] > n)
    BY <1>1, FreedType
  <2>3. s.State = pr1.State /\ s.Match = pr1.Match /\ s.Next = pr1.Next /\ s.Inflights = SubSeq(w, f + 1, Len(w))
    BY <1>2, <1>3 DEF FreeLE, ProgressRecord
  <2>4. s \in ProgressRecord
    BY <1>2, ProgressTypes
  <2> HIDE DEF f, s
  <2>5. /\ Len(s.Inflights) = Len(w) - f
        /\ \A k \in 1..(Len(w) - f) : s.Inflights[k] = w[f + k]
    <3> DEFINE a == f + 1
    <3>1. a \in Nat \ {0} /\ Len(w) \in Int /\ Len(w) - a + 1 = Len(w) - f
      BY <1>1, <2>2
    <3>2. /\ Len(SubSeq(w, a, Len(w))) = IF a <= Len(w) THEN Len(w) - a + 1 ELSE 0
          /\ \A k \in 1..(Len(w) - a + 1) : SubSeq(w, a, Len(w))[k] = w[a + k - 1]
      <4> HIDE DEF a
      <4> QED BY <1>1, <3>1, SubSeqType
    <3>3. \A k \in Nat : a + k - 1 = f + k
      BY <2>2
    <3>4. Len(SubSeq(w, a, Len(w))) = Len(w) - f
      BY <1>1, <2>2, <3>2
    <3>5. ASSUME NEW k \in 1..(Len(w) - f) PROVE SubSeq(w, a, Len(w))[k] = w[f + k]
      <4>1. k \in 1..(Len(w) - a + 1) /\ k \in Nat
        BY <3>1
      <4>2. SubSeq(w, a, Len(w))[k] = w[a + k - 1]
        BY <3>2, <4>1
      <4> QED BY <3>3, <4>1, <4>2
    <3> QED BY <2>3, <3>4, <3>5
  <2>6. ASSUME NEW k \in (f + 1)..Len(w) PROVE n < w[k]
    <3> DEFINE a == f + 1
    <3>1. a \in 1..Len(w) /\ k \in 1..Len(w) /\ w[a] > n /\ (k = a \/ a < k)
      BY <1>1, <2>2, <2>6
    <3>2. k = a \/ w[a] < w[k]
      <4> HIDE DEF a
      <4> QED BY <3>1 DEF WindowOK
    <3>3. w[a] \in Nat /\ w[k] \in Nat
      BY <1>1, <3>1
    <3> HIDE DEF a
    <3> QED BY <3>1, <3>2, <3>3
  <2>7. WindowOK(s)
    <3>1. /\ s.State = pr.State /\ s.State = "Replicate" /\ s.Next >= pr.Next /\ s.Match < s.Next
          /\ \A k \in (f + 1)..Len(w) : s.Match < w[k]
      BY <1>3, <1>4, <1>6, <2>3, <2>6
    <3> QED BY <2>2, <2>4, <2>5, <3>1, RestWindow
  <2> QED BY <2>1, <2>7
<1> QED BY <1>5, <1>6

\* A rejection moves Next back where nothing is in flight, or starts to probe
\* (raft.go:1221-1229, tracker/progress.go:168-194).
LEMMA RejectWindow ==
    ASSUME NEW pr \in ProgressRecord, WindowOK(pr), NEW n \in Nat, NEW hint \in Nat
    PROVE  LET pr1 == MaybeDecrTo(pr, n, hint)
           IN  WindowOK(IF pr1.State = "Replicate" THEN BecomeProbe(pr1) ELSE pr1)
<1> DEFINE pr1 == MaybeDecrTo(pr, n, hint)
<1>1. pr1 \in ProgressRecord
  BY ProgressTypes
<1>2. pr1.State = pr.State /\ pr1.Inflights = pr.Inflights
  BY DEF MaybeDecrTo, ProgressRecord
<1> HIDE DEF pr1
<1>3. CASE pr.State = "Replicate"
  <2>1. 0 \in Nat
    OBVIOUS
  <2>2. WindowOK(BecomeProbe(pr1))
    BY <1>1, <2>1, ResetWindows
  <2> QED BY <1>2, <1>3, <2>2 DEF pr1
<1>4. CASE pr.State # "Replicate"
  <2>1. WindowOK(pr1)
    BY <1>2, <1>4, EmptyWindow DEF WindowOK
  <2> QED BY <1>2, <1>4, <2>1 DEF pr1
<1> QED BY <1>3, <1>4

\* A heartbeat was answered: a full window opens a slot (raft.go:1302-1309).
LEMMA ResumedWindow ==
    ASSUME NEW pr \in ProgressRecord, WindowOK(pr)
    PROVE  WindowOK(Resumed(pr))
<1> DEFINE a == [pr EXCEPT !.RecentActive = TRUE, !.ProbeSent = FALSE]
           w == pr.Inflights
           s == FreeFirstOne(a)
<1>1. /\ a \in ProgressRecord /\ a.State = pr.State /\ a.Match = pr.Match /\ a.Next = pr.Next
      /\ a.Inflights = w
  BY DEF ProgressRecord
<1>2. pr.Match \in Nat /\ pr.Next \in Nat /\ w \in Seq(Nat) /\ Len(w) \in Nat
  BY DEF ProgressRecord
<1>3. WindowOK(a)
  <2> HIDE DEF a
  <2> QED BY <1>1, <1>2, SameWindow
<1>4. Resumed(pr) = IF a.State = "Replicate" /\ Full(a) THEN s ELSE a
  BY DEF Resumed
<1> HIDE DEF a
<1>5. CASE a.State = "Replicate" /\ Full(a)
  <2>1. w # <<>> /\ Len(w) > 0
    BY <1>1, <1>2, <1>5, MaxInflightAssumption DEF Full
  <2>2. s \in ProgressRecord
    <3>1. 0 \in Nat
      OBVIOUS
    <3> QED BY <1>1, <2>1, <3>1, ProgressTypes
  <2>3. s.State = a.State /\ s.Match = a.Match /\ s.Next = a.Next /\ s.Inflights = Tail(w)
    BY <1>1 DEF FreeFirstOne, ProgressRecord
  <2> HIDE DEF s
  <2>4. Len(Tail(w)) = Len(w) - 1 /\ \A k \in 1..(Len(w) - 1) : Tail(w)[k] = w[1 + k]
    BY <1>2, <2>1
  <2>5. a.Match < a.Next /\ \A k \in 1..Len(w) : a.Match < w[k]
    BY <1>1, <1>3, <1>5 DEF WindowOK
  <2>6. 1 \in 0..Len(w) /\ \A k \in (1 + 1)..Len(w) : k \in 1..Len(w)
    BY <1>2, <2>1
  <2>7. WindowOK(s)
    <3>1. /\ s.State = pr.State /\ s.State = "Replicate" /\ s.Next >= pr.Next /\ s.Match < s.Next
          /\ \A k \in (1 + 1)..Len(w) : s.Match < w[k]
      BY <1>1, <1>2, <1>5, <2>3, <2>5, <2>6
    <3> QED BY <2>2, <2>3, <2>4, <2>6, <3>1, RestWindow
  <2> QED BY <1>4, <1>5, <2>7
<1>6. CASE ~(a.State = "Replicate" /\ Full(a))
  BY <1>3, <1>4, <1>6
<1> QED BY <1>5, <1>6

-----------------------------------------------------------------------------
(* Handlers of the leader *)

\* Only progress and role matter.
LEMMA SameWindowed ==
    ASSUME NEW i, NEW r, NEW s, Windowed(i, r), s.state = "Leader" => s.state = r.state /\ s.prs = r.prs
    PROVE  Windowed(i, s)
BY DEF Windowed

\* The progress of one peer.
LEMMA ProgressWindowed ==
    ASSUME NEW i, NEW r, StructOK(r), Windowed(i, r), NEW to \in Server, NEW pr,
           r.state = "Leader" /\ to # i => WindowOK(pr)
    PROVE  Windowed(i, [r EXCEPT !.prs[to] = pr])
<1> DEFINE s == [r EXCEPT !.prs[to] = pr]
<1>1. s.state = r.state /\ \A p \in Server : s.prs[p] = IF p = to THEN pr ELSE r.prs[p]
  BY DEF StructOK, RaftStruct
<1> HIDE DEF s
<1>2. Windowed(i, s)
  BY <1>1 DEF Windowed
<1> QED BY <1>2 DEF s

\* send()
LEMMA SendWindowed ==
    ASSUME NEW i, NEW r, StructOK(r), Windowed(i, r), NEW m
    PROVE  Windowed(i, Send(r, m))
<1> DEFINE s == Send(r, m)
<1>1. s.state = r.state /\ s.prs = r.prs
  BY DEF Send, StructOK, RaftStruct
<1> HIDE DEF s
<1>2. Windowed(i, s)
  BY <1>1, SameWindowed
<1> QED BY <1>2 DEF s

\* maybeCommit
LEMMA CommitWindowed ==
    ASSUME NEW i, NEW r, StructOK(r), Windowed(i, r)
    PROVE  Windowed(i, MaybeCommit(r))
<1>1. ASSUME NEW c PROVE CommitTo(r, c).state = r.state /\ CommitTo(r, c).prs = r.prs
  BY DEF CommitTo, Panic, StructOK, RaftStruct
<1>2. MaybeCommit(r).state = r.state /\ MaybeCommit(r).prs = r.prs
  BY <1>1 DEF MaybeCommit
<1> QED BY <1>2, SameWindowed

\* A message of entries is added to a window that has room (raft.go:424-491).
LEMMA MaybeSendAppendWindowed ==
    ASSUME NEW i, NEW r, NEW to \in Server, NEW sendIfEmpty,
           scenario \in Scenarios, StructOK(r), r.state = "Leader", Windowed(i, r)
    PROVE  Windowed(i, MaybeSendAppend(i, r, to, sendIfEmpty))
<1> DEFINE pr        == r.prs[to]
           compacted == Compacted(r, pr.Next)
           upto      == Min2(LastIndex(r), pr.Next + MaxEnts - 1)
           ents      == IF compacted THEN <<>> ELSE SubSeq(r.log, pr.Next, upto)
           last      == pr.Next + Len(ents) - 1
           app       == [Msg("MsgApp", i, to, r.Term) EXCEPT
                           !.index = pr.Next - 1, !.logTerm = Term(r, pr.Next - 1),
                           !.entries = ents, !.commit = r.committed]
           snap      == [Msg("MsgSnap", i, to, r.Term) EXCEPT
                           !.index = r.offset, !.logTerm = Term(r, r.offset),
                           !.entries = SubSeq(r.log, 1, r.offset)]
           pr1       == BecomeSnapshot(r.prs[to], r.offset)
           pr2       == IF ents = <<>> THEN r.prs[to]
                        ELSE IF pr.State = "Replicate" THEN SentUpTo(r.prs[to], last)
                        ELSE [r.prs[to] EXCEPT !.ProbeSent = TRUE]
           r1        == [r EXCEPT !.prs[to] = pr1]
           r2        == [r EXCEPT !.prs[to] = pr2]
           s         == MaybeSendAppend(i, r, to, sendIfEmpty)
<1>1. s = r \/ s = Send(r1, snap) \/ (~IsPaused(pr) /\ s = Send(r2, app))
  BY DEF MaybeSendAppend
<1>2. /\ r.log \in Seq(Entry) /\ Len(r.log) \in Nat /\ LastIndex(r) = Len(r.log) /\ r.offset \in Nat
  BY StructFields DEF LastIndex
<1>3. /\ pr \in ProgressRecord /\ pr.Next \in Nat \ {0} /\ upto \in Int /\ upto <= Len(r.log)
  <2>1. pr \in ProgressRecord
    BY StructFields
  <2>2. pr.Next \in Nat \ {0} /\ MaxEnts \in Nat \ {0}
    BY <2>1, ScenarioAssumption DEF ProgressRecord, MaxEnts
  <2>3. pr.Next + MaxEnts - 1 \in Nat
    <3>1. \A x, y \in Nat \ {0} : x + y - 1 \in Nat
      OBVIOUS
    <3> QED BY <2>2, <3>1
  <2>4. upto \in Nat /\ upto <= LastIndex(r)
    BY <1>2, <2>3, MinMaxType
  <2> QED BY <1>2, <2>1, <2>2, <2>4
<1>4. ents \in Seq(Entry) /\ Len(ents) \in Nat
  <2> HIDE DEF upto, pr
  <2>1. SubSeq(r.log, pr.Next, upto) \in Seq(Entry) /\ <<>> \in Seq(Entry)
    BY <1>2, <1>3, SubSeqType
  <2> QED BY <2>1
<1>5. ents # <<>> => last \in Nat /\ last >= pr.Next
  <2> HIDE DEF ents, pr
  <2>1. ents # <<>> => Len(ents) > 0
    BY <1>4
  <2> QED BY <1>3, <1>4, <2>1
<1> HIDE DEF ents, last, upto
<1>6. WindowOK(pr1)
  BY <1>2, <1>3, ResetWindows
<1>7. ASSUME ~IsPaused(pr), to # i PROVE WindowOK(pr2)
  <2>1. WindowOK(pr)
    BY <1>7 DEF Windowed
  <2>2. CASE ents = <<>>
    BY <2>1, <2>2
  <2>3. CASE ents # <<>> /\ pr.State = "Replicate"
    <3>1. ~Full(pr)
      BY <1>7, <2>3 DEF IsPaused
    <3>2. pr2 = SentUpTo(pr, last)
      BY <2>3
    <3> HIDE DEF pr, pr2
    <3>3. WindowOK(SentUpTo(pr, last))
      BY <1>3, <1>5, <2>1, <2>3, <3>1, SentWindow
    <3> QED BY <3>2, <3>3
  <2>4. CASE ents # <<>> /\ pr.State # "Replicate"
    <3> DEFINE t == [pr EXCEPT !.ProbeSent = TRUE]
    <3>1. /\ t \in ProgressRecord /\ t.State = pr.State /\ t.Match = pr.Match /\ t.Next = pr.Next
          /\ t.Inflights = pr.Inflights
      <4> HIDE DEF pr
      <4> QED BY <1>3 DEF ProgressRecord
    <3>2. pr2 = t
      BY <2>4
    <3> HIDE DEF t, pr
    <3>3. WindowOK(t)
      <4>1. t.Next >= pr.Next
        BY <1>3, <3>1
      <4> QED BY <1>3, <2>1, <3>1, <4>1, SameWindow
    <3> QED BY <3>2, <3>3
  <2> QED BY <2>2, <2>3, <2>4
<1>8. pr1 \in ProgressRecord /\ pr2 \in ProgressRecord
  <2>1. pr1 \in ProgressRecord
    BY <1>2, <1>3, ProgressTypes
  <2>2. ents # <<>> => SentUpTo(pr, last) \in ProgressRecord
    <3> HIDE DEF pr
    <3> QED BY <1>3, <1>5, ProgressTypes
  <2>3. [pr EXCEPT !.ProbeSent = TRUE] \in ProgressRecord
    <3> HIDE DEF pr
    <3> QED BY <1>3 DEF ProgressRecord
  <2> QED BY <1>3, <2>1, <2>2, <2>3
<1> HIDE DEF pr1, pr2, app, snap
<1>9. Windowed(i, r1) /\ (~IsPaused(pr) => Windowed(i, r2))
  BY <1>6, <1>7, ProgressWindowed
<1>10. StructOK(r1) /\ StructOK(r2)
  <2>1. Quiet(i, r, r1) /\ Quiet(i, r, r2)
    BY <1>8, ProgressQuiet
  <2> QED BY <2>1 DEF Quiet, Grows
<1> HIDE DEF r1, r2, pr
<1>11. Windowed(i, Send(r1, snap)) /\ (~IsPaused(pr) => Windowed(i, Send(r2, app)))
  BY <1>9, <1>10, SendWindowed
<1>12. Windowed(i, s)
  <2> HIDE DEF s
  <2> QED BY <1>1, <1>11
<1> QED BY <1>12

\* The loop `for maybeSendAppend(to, false) {}`, by induction on its rounds.
LEMMA SendAllAppendsWindowed ==
    ASSUME NEW i \in Server, NEW r, NEW to \in Server,
           scenario \in Scenarios, StructOK(r), r.state = "Leader", Windowed(i, r)
    PROVE  Windowed(i, SendAllAppends(i, r, to))
<1>a. \E f : IsRounds(i, r, to, f)
  BY RoundsExist
<1>1. PICK f : IsRounds(i, r, to, f) /\ SendAllAppends(i, r, to) = f[LastIndex(r)]
  BY <1>a DEF SendAllAppends, IsRounds
<1>2. \A n \in Nat : f[n] = IF n = 0 THEN r ELSE MaybeSendAppend(i, f[n - 1], to, FALSE)
  BY <1>1 DEF IsRounds
<1> DEFINE Fine(s) == StructOK(s) /\ s.state = "Leader" /\ Windowed(i, s)
           Bad == {n \in Nat : ~Fine(f[n])}
<1>3. Bad = {}
  <2> SUFFICES ASSUME Bad # {} PROVE FALSE
    OBVIOUS
  <2>1. PICK x \in Bad : \A y \in Bad : x <= y
    BY LeastNat
  <2>2. x # 0
    BY <1>2, <2>1
  <2>3. x \in Nat /\ x - 1 \in Nat /\ Fine(f[x - 1])
    <3> HIDE DEF Fine
    <3> QED BY <2>1, <2>2
  <2> DEFINE t == f[x - 1]
             u == MaybeSendAppend(i, t, to, FALSE)
  <2>4. f[x] = u
    BY <1>2, <2>2, <2>3
  <2> HIDE DEF t
  <2>5. Fine(t)
    BY <2>3 DEF t
  <2>6. Windowed(i, u) /\ Quiet(i, t, u)
    BY <2>5, MaybeSendAppendQuiet, MaybeSendAppendWindowed
  <2>7. Fine(u)
    BY <2>5, <2>6 DEF Quiet, Grows
  <2> QED BY <2>1, <2>4, <2>7
<1>4. LastIndex(r) \in Nat
  BY StructFields
<1> QED BY <1>1, <1>3, <1>4

\* bcastAppend
LEMMA BcastAppendWindowed ==
    ASSUME NEW i \in Server, NEW r, scenario \in Scenarios, StructOK(r), r.state = "Leader", Windowed(i, r)
    PROVE  Windowed(i, BcastAppend(i, r))
<1> DEFINE sent(p) == SendAppend(i, r, p)
           prs == [p \in Server |-> IF p = i THEN r.prs[p] ELSE sent(p).prs[p]]
           all == r.msgs \cup UNION {sent(p).msgs : p \in Server \ {i}}
           s   == [r EXCEPT !.prs = prs, !.msgs = all]
<1>1. BcastAppend(i, r) = s
  BY DEF BcastAppend
<1>2. ASSUME NEW p \in Server \ {i} PROVE WindowOK(sent(p).prs[p])
  <2>1. Windowed(i, sent(p)) /\ Quiet(i, r, sent(p))
    BY MaybeSendAppendWindowed, MaybeSendAppendQuiet DEF SendAppend
  <2> QED BY <2>1 DEF Quiet, Windowed
<1> HIDE DEF sent, all
<1>3. \A p \in Server \ {i} : WindowOK(prs[p])
  BY <1>2
<1> HIDE DEF prs
<1>4. s.prs = prs
  BY DEF StructOK, RaftStruct
<1> HIDE DEF s
<1> QED BY <1>1, <1>3, <1>4 DEF Windowed

\* A rejected MsgApp
LEMMA HandleRejectWindowed ==
    ASSUME NEW i \in Server, NEW r, scenario \in Scenarios, StructOK(r), r.state = "Leader", Windowed(i, r),
           NEW m \in Message
    PROVE  Windowed(i, HandleReject(i, r, m))
<1> DEFINE probe == IF m.logTerm > 0 THEN FindConflictByTerm(r, m.rejectHint, m.logTerm)
                                     ELSE m.rejectHint
           pr    == MaybeDecrTo(r.prs[m.from], m.index, probe)
           pr1   == IF pr.State = "Replicate" THEN BecomeProbe(pr) ELSE pr
           r1    == [r EXCEPT !.prs[m.from] = pr1]
<1>1. HandleReject(i, r, m) \in {SendAppend(i, r1, m.from), r}
  BY DEF HandleReject
<1>2. m.from \in Server /\ m.index \in Nat /\ m.logTerm \in Nat /\ m.rejectHint \in Nat
  BY DEF Message
<1>3. probe \in Nat
  BY <1>2, FindConflictByTermType
<1> HIDE DEF probe
<1>4. pr \in ProgressRecord /\ r.prs[m.from] \in ProgressRecord
  BY <1>2, <1>3, StructFields, ProgressTypes
<1>5. m.from # i => WindowOK(pr1)
  BY <1>2, <1>3, <1>4, RejectWindow DEF Windowed
<1> HIDE DEF pr
<1>6. pr1 \in ProgressRecord
  <2>1. 0 \in Nat
    OBVIOUS
  <2> QED BY <1>4, <2>1, ProgressTypes
<1> HIDE DEF pr1
<1>7. Windowed(i, r1) /\ StructOK(r1) /\ r1.state = "Leader"
  <2>1. Quiet(i, r, r1)
    BY <1>2, <1>6, ProgressQuiet
  <2> QED BY <1>2, <1>5, <2>1, ProgressWindowed DEF Quiet, Grows
<1> HIDE DEF r1
<1>8. Windowed(i, SendAppend(i, r1, m.from))
  BY <1>2, <1>7, MaybeSendAppendWindowed DEF SendAppend
<1> QED BY <1>1, <1>8

\* An ack that is news
LEMMA HandleAckWindowed ==
    ASSUME NEW i \in Server, NEW r, scenario \in Scenarios, StructOK(r), r.state = "Leader", Windowed(i, r),
           NEW m \in Message, Updates(r.prs[m.from], m.index)
    PROVE  Windowed(i, HandleAck(i, r, m))
<1> DEFINE from == m.from
           pr == AckProgress(r.prs[from], m.index)
           r1 == [r EXCEPT !.prs[from] = pr]
           r2 == MaybeCommit(r1)
           r3 == IF r2.committed # r1.committed THEN BcastAppend(i, r2)
                 ELSE IF IsPaused(r.prs[from]) THEN SendAppend(i, r2, from)
                 ELSE r2
           r4 == SendAllAppends(i, r3, from)
           n  == Msg("MsgTimeoutNow", i, from, r4.Term)
<1>1. HandleAck(i, r, m) \in {Send(r4, n), r4}
  BY DEF HandleAck
<1>2. from \in Server /\ m.index \in Nat /\ r.prs[from] \in ProgressRecord
  BY StructFields DEF Message
<1>3. pr \in ProgressRecord
  <2>1. FALSE \in BOOLEAN
    OBVIOUS
  <2> QED BY <1>2, <2>1, HandlerProgressTypes
<1>4. from # i => WindowOK(pr)
  BY <1>2, AckWindow DEF Windowed
<1> HIDE DEF pr, from
<1>5. Windowed(i, r1) /\ StructOK(r1) /\ r1.state = "Leader"
  <2>1. Quiet(i, r, r1)
    BY <1>2, <1>3, ProgressQuiet
  <2> QED BY <1>2, <1>4, <2>1, ProgressWindowed DEF Quiet, Grows
<1> HIDE DEF r1
<1>6. Windowed(i, r2) /\ StructOK(r2) /\ r2.state = "Leader"
  <2>1. Quiet(i, r1, r2)
    BY <1>5, MaybeCommitQuiet
  <2> QED BY <1>5, <2>1, CommitWindowed DEF Quiet, Grows
<1> HIDE DEF r2
<1>7. Windowed(i, r3) /\ StructOK(r3) /\ r3.state = "Leader"
  <2>1. Quiet(i, r2, r3)
    BY <1>2, <1>6, BcastAppendQuiet, MaybeSendAppendQuiet, QuietSelf DEF SendAppend
  <2>2. Windowed(i, r3)
    BY <1>2, <1>6, BcastAppendWindowed, MaybeSendAppendWindowed DEF SendAppend
  <2> QED BY <1>6, <2>1, <2>2 DEF Quiet, Grows
<1> HIDE DEF r3
<1>8. Windowed(i, r4) /\ StructOK(r4)
  <2>1. Quiet(i, r3, r4)
    BY <1>2, <1>7, SendAllAppendsQuiet
  <2> QED BY <1>2, <1>7, <2>1, SendAllAppendsWindowed DEF Quiet, Grows
<1> HIDE DEF r4, n
<1> QED BY <1>1, <1>8, SendWindowed

\* MsgAppResp at the leader
LEMMA HandleAppRespWindowed ==
    ASSUME NEW i \in Server, NEW r, scenario \in Scenarios, StructOK(r), r.state = "Leader", Windowed(i, r),
           NEW m \in Message
    PROVE  Windowed(i, HandleAppResp(i, r, m))
<1> DEFINE pr == [r.prs[m.from] EXCEPT !.RecentActive = TRUE]
           r1 == [r EXCEPT !.prs[m.from].RecentActive = TRUE]
           pr2 == MaybeUpdate(r1.prs[m.from], m.index)
           r2 == [r1 EXCEPT !.prs[m.from] = pr2]
<1>1. \/ HandleAppResp(i, r, m) = HandleReject(i, r1, m)
      \/ Updates(r1.prs[m.from], m.index) /\ HandleAppResp(i, r, m) = HandleAck(i, r1, m)
      \/ ~Updates(r1.prs[m.from], m.index) /\ HandleAppResp(i, r, m) = r2
  BY DEF HandleAppResp
<1>2. m.from \in Server /\ m.index \in Nat /\ r.prs[m.from] \in ProgressRecord
  BY StructFields DEF Message
<1>3. /\ pr \in ProgressRecord /\ pr.State = r.prs[m.from].State /\ pr.Match = r.prs[m.from].Match
      /\ pr.Next = r.prs[m.from].Next /\ pr.Inflights = r.prs[m.from].Inflights
      /\ r.prs[m.from].Next \in Nat
  BY <1>2 DEF ProgressRecord
<1>4. r1 = [r EXCEPT !.prs[m.from] = pr]
  BY DEF StructOK, RaftStruct
<1> HIDE DEF pr, r1
<1>5. m.from # i => WindowOK(pr)
  <2>1. m.from # i => WindowOK(r.prs[m.from])
    BY <1>2 DEF Windowed
  <2>2. r.prs[m.from].Next >= r.prs[m.from].Next
    BY <1>3
  <2> QED BY <1>2, <1>3, <2>1, <2>2, SameWindow
<1>6. Windowed(i, r1) /\ StructOK(r1) /\ r1.state = "Leader"
  <2>1. Quiet(i, r, r1)
    BY <1>2, <1>3, <1>4, ProgressQuiet
  <2>2. Windowed(i, r1)
    BY <1>2, <1>4, <1>5, ProgressWindowed
  <2> QED BY <2>1, <2>2 DEF Quiet, Grows
<1>7. ASSUME ~Updates(r1.prs[m.from], m.index) PROVE Windowed(i, r2)
  <2> DEFINE old == r1.prs[m.from]
  <2>1. old \in ProgressRecord /\ pr2 \in ProgressRecord
    BY <1>2, <1>6, StructFields, ProgressTypes
  <2>2. old.Match \in Nat /\ old.Next \in Nat
    BY <2>1 DEF ProgressRecord
  <2>3. /\ pr2.Match = Max2(old.Match, m.index) /\ pr2.Next = Max2(old.Next, m.index + 1)
        /\ pr2.State = old.State /\ pr2.Inflights = old.Inflights
    BY <2>1 DEF MaybeUpdate, ProgressRecord
  <2>4. pr2.Match = old.Match /\ pr2.Next >= old.Next
    BY <1>2, <1>7, <2>2, <2>3 DEF Max2, Updates
  <2>5. m.from # i => WindowOK(old)
    BY <1>2, <1>6 DEF Windowed
  <2> HIDE DEF pr2, old
  <2>6. m.from # i => WindowOK(pr2)
    BY <2>1, <2>3, <2>4, <2>5, SameWindow
  <2> QED BY <1>2, <1>6, <2>6, ProgressWindowed
<1> HIDE DEF r2
<1>8. /\ Windowed(i, HandleReject(i, r1, m))
      /\ Updates(r1.prs[m.from], m.index) => Windowed(i, HandleAck(i, r1, m))
  BY <1>6, HandleRejectWindowed, HandleAckWindowed
<1> QED BY <1>1, <1>7, <1>8

\* MsgHeartbeatResp at the leader
LEMMA HandleHeartbeatRespWindowed ==
    ASSUME NEW i \in Server, NEW r, scenario \in Scenarios, StructOK(r), r.state = "Leader", Windowed(i, r),
           NEW m \in Message
    PROVE  Windowed(i, HandleHeartbeatResp(i, r, m))
<1> DEFINE pr == Resumed(r.prs[m.from])
           r1 == [r EXCEPT !.prs[m.from] = pr]
<1>1. HandleHeartbeatResp(i, r, m) \in {SendAppend(i, r1, m.from), r1}
  BY DEF HandleHeartbeatResp
<1>2. m.from \in Server /\ r.prs[m.from] \in ProgressRecord
  BY StructFields DEF Message
<1>3. pr \in ProgressRecord
  <2>1. 0 \in Nat /\ FALSE \in BOOLEAN
    OBVIOUS
  <2> QED BY <1>2, <2>1, HandlerProgressTypes
<1>4. m.from # i => WindowOK(pr)
  BY <1>2, ResumedWindow DEF Windowed
<1> HIDE DEF pr
<1>5. Windowed(i, r1) /\ StructOK(r1) /\ r1.state = "Leader"
  <2>1. Quiet(i, r, r1)
    BY <1>2, <1>3, ProgressQuiet
  <2> QED BY <1>2, <1>4, <2>1, ProgressWindowed DEF Quiet, Grows
<1> HIDE DEF r1
<1>6. Windowed(i, SendAppend(i, r1, m.from))
  BY <1>2, <1>5, MaybeSendAppendWindowed DEF SendAppend
<1> QED BY <1>1, <1>5, <1>6

\* MsgTransferLeader
LEMMA HandleTransferLeaderWindowed ==
    ASSUME NEW i \in Server, NEW r, scenario \in Scenarios, StructOK(r), Windowed(i, r),
           NEW to \in Server, NEW term
    PROVE  Windowed(i, HandleTransferLeader(i, r, to, term))
<1> DEFINE r1 == [r EXCEPT !.electionElapsed = 0, !.leadTransferee = to]
           r2 == [r EXCEPT !.leadTransferee = None]
           n1 == Msg("MsgTimeoutNow", i, to, r.Term)
           n2 == Msg("MsgTransferLeader", to, r.lead, r.Term)
<1>1. \/ HandleTransferLeader(i, r, to, term) \in {r, r2, Panic(r), Send(r, n2)}
      \/ r.state = "Leader" /\ HandleTransferLeader(i, r, to, term) \in {Send(r1, n1), SendAppend(i, r1, to)}
  BY DEF HandleTransferLeader
<1>2. /\ r1 \in RaftStruct /\ r1.state = r.state /\ r1.prs = r.prs /\ SameLog(r, r1)
      /\ r1.msgs = r.msgs /\ r1.applied = r.applied
      /\ r2.state = r.state /\ r2.prs = r.prs
      /\ Panic(r).state = r.state /\ Panic(r).prs = r.prs
  BY DEF StructOK, RaftStruct, SameLog, Panic
<1> HIDE DEF r1, r2, n1, n2
<1>3. StructOK(r1)
  BY <1>2, TurnsIf DEF Turns, Grows
<1>4. Windowed(i, r1) /\ Windowed(i, r2) /\ Windowed(i, Panic(r))
  BY <1>2, SameWindowed
<1>5. Windowed(i, Send(r1, n1)) /\ Windowed(i, Send(r, n2))
  BY <1>3, <1>4, SendWindowed
<1>6. r.state = "Leader" => Windowed(i, SendAppend(i, r1, to))
  BY <1>2, <1>3, <1>4, MaybeSendAppendWindowed DEF SendAppend
<1> QED BY <1>1, <1>4, <1>5, <1>6

\* appendEntry: the leader's own progress has no window.
LEMMA AppendEntryWindowed ==
    ASSUME NEW i \in Server, NEW r, NEW data \in {"empty", "cmd"}, StructOK(r), Windowed(i, r)
    PROVE  Windowed(i, AppendEntry(i, r, data))
<1> DEFINE e    == [term |-> r.Term, data |-> data]
           log  == Append(r.log, e)
           size == r.uncommittedSize + PayloadSize(e)
           r1   == [r EXCEPT !.log = log, !.uncommittedSize = size]
           pr   == MaybeUpdate(r1.prs[i], LastIndex(r1))
           r2   == [r1 EXCEPT !.prs[i] = pr]
<1>1. AppendEntry(i, r, data) = MaybeCommit(r2)
  BY DEF AppendEntry
<1>2. log \in Seq(Entry) /\ Len(log) = Len(r.log) + 1 /\ size \in Nat
  <2>1. e \in Entry
    BY StructFields DEF Entry
  <2> QED BY <2>1, StructFields DEF PayloadSize
<1>3. Quiet(i, r, r1)
  <2>1. r.committed <= Len(log)
    BY <1>2, StructFields DEF StructOK
  <2> HIDE DEF log, size
  <2> QED BY <1>2, <2>1, LogQuiet
<1>4. r1.state = r.state /\ r1.prs = r.prs
  <2> HIDE DEF log, size
  <2> QED BY DEF StructOK, RaftStruct
<1> HIDE DEF r1
<1>5. StructOK(r1) /\ Windowed(i, r1)
  BY <1>3, <1>4, SameWindowed DEF Quiet, Grows
<1>6. pr \in ProgressRecord
  BY <1>5, StructFields, ProgressTypes
<1> HIDE DEF pr
<1>7. Windowed(i, r2) /\ StructOK(r2)
  <2>1. Quiet(i, r1, r2)
    BY <1>5, <1>6, ProgressQuiet
  <2> QED BY <1>5, <2>1, ProgressWindowed DEF Quiet, Grows
<1> HIDE DEF r2
<1> QED BY <1>1, <1>7, CommitWindowed

\* becomeLeader: all windows are empty.
LEMMA BecomeLeaderWindowed ==
    ASSUME NEW i \in Server, NEW r, StructOK(r)
    PROVE  Windowed(i, BecomeLeader(i, r))
<1> DEFINE last == LastIndex(r)
           next == last + 1
           prs  == [p \in Server |-> IF p = i THEN BecomeReplicate(NewProgress(last, next))
                                              ELSE NewProgress(0, next)]
           t    == Reset(r, r.Term)
           s    == [t EXCEPT !.lead = i, !.state = "Leader", !.prs = prs]
<1>1. BecomeLeader(i, r) = AppendEntry(i, s, "empty")
  BY DEF BecomeLeader
<1>2. last \in Nat /\ next \in Nat \ {0} /\ 0 \in Nat
  BY StructFields
<1> HIDE DEF last, next
<1>3. prs \in [Server -> ProgressRecord]
  <2>1. NewProgress(last, next) \in ProgressRecord /\ NewProgress(0, next) \in ProgressRecord
    BY <1>2, NewProgressType
  <2>2. BecomeReplicate(NewProgress(last, next)) \in ProgressRecord
    BY <1>2, <2>1, ProgressTypes
  <2> QED BY <2>1, <2>2
<1>4. \A p \in Server \ {i} : WindowOK(prs[p])
  <2> DEFINE pr == NewProgress(0, next)
  <2>1. pr.Inflights = <<>> /\ pr.State = "Probe"
    BY DEF NewProgress
  <2>2. \A p \in Server \ {i} : prs[p] = pr
    OBVIOUS
  <2> HIDE DEF pr
  <2> QED BY <2>1, <2>2, EmptyWindow
<1>5. Turns(r, t, r.Term, r.Vote, r.state)
  BY BecomeFollowerTurns, StructFields DEF KeptVote
<1> HIDE DEF t, prs
<1>6. /\ s \in RaftStruct /\ SameLog(r, s) /\ s.msgs = r.msgs /\ s.applied = r.applied /\ s.prs = prs
  BY <1>3, <1>5 DEF Turns, Grows, StructOK, SameLog, RaftStruct
<1> HIDE DEF s
<1>7. StructOK(s) /\ Windowed(i, s)
  <2>1. StructOK(s)
    BY <1>6, TurnsIf DEF Turns, Grows
  <2> QED BY <1>4, <1>6, <2>1 DEF Windowed
<1> QED BY <1>1, <1>7, AppendEntryWindowed

\* A campaign: no window but that of a leader that is alone.
LEMMA CampaignWindowed ==
    ASSUME NEW i \in Server, NEW r, StructOK(r), NEW transfer \in BOOLEAN
    PROVE  Windowed(i, CampaignElection(i, r, transfer)) /\ Windowed(i, CampaignPreElection(i, r))
<1>1. ASSUME NEW s, StructOK(s), NEW x \in BOOLEAN PROVE Windowed(i, CampaignElection(i, s, x))
  <2> DEFINE c == NewCandidate(i, s)
  <2>1. Turns(s, c, s.Term + 1, i, "Candidate")
    BY <1>1, CampaignElectionTurns
  <2>2. \/ CampaignElection(i, s, x) = BecomeLeader(i, c)
        \/ Quiet(i, c, CampaignElection(i, s, x))
    BY <1>1, CampaignElectionTurns
  <2> HIDE DEF c
  <2>3. StructOK(c) /\ c.state = "Candidate"
    BY <2>1 DEF Turns, Grows
  <2>4. Windowed(i, BecomeLeader(i, c))
    BY <2>3, BecomeLeaderWindowed
  <2>5. CASE Quiet(i, c, CampaignElection(i, s, x))
    BY <2>3, <2>5 DEF Quiet, Windowed
  <2> QED BY <2>2, <2>4, <2>5
<1> DEFINE c == NewPreCandidate(i, r)
<1>2. /\ Turns(r, c, r.Term, r.Vote, "PreCandidate")
      /\ \/ CampaignPreElection(i, r) = CampaignElection(i, c, FALSE)
         \/ Quiet(i, c, CampaignPreElection(i, r))
  BY CampaignPreElectionTurns
<1> HIDE DEF c
<1>3. StructOK(c) /\ c.state = "PreCandidate"
  BY <1>2 DEF Turns, Grows
<1>4. Windowed(i, CampaignElection(i, c, FALSE))
  BY <1>1, <1>3
<1>5. CASE Quiet(i, c, CampaignPreElection(i, r))
  BY <1>1, <1>3, <1>5 DEF Quiet, Windowed
<1> QED BY <1>1, <1>2, <1>4, <1>5

-----------------------------------------------------------------------------
(* The steps *)

\* Server i enters a state whose windows are in order.
WindowedUpdate(i) == \E s : Update(i, s) /\ Windowed(i, s)

\* Who does not lead, and does not start to, has no windows.
LEMMA QuietWindowed ==
    ASSUME NEW i, NEW r, r.state # "Leader", QuietUpdate(i, r)
    PROVE  WindowedUpdate(i)
BY DEF QuietUpdate, WindowedUpdate, Quiet, Grows, Windowed

\* Answers to vote requests (raft.go:1395-1411)
LEMMA HandleVoteRespWindowed ==
    ASSUME NEW i \in Server, NEW r, scenario \in Scenarios, StructOK(r), Windowed(i, r), NEW m \in Message
    PROVE  Windowed(i, HandleVoteResp(i, r, m))
<1> DEFINE c == Poll(r, m.from, ~m.reject)
           s == HandleVoteResp(i, r, m)
           l == BecomeLeader(i, c)
<1>1. m.from \in Server /\ (~m.reject) \in BOOLEAN
  BY DEF Message
<1>2. StructOK(c) /\ c.state = r.state
  <2>1. Turns(r, c, r.Term, r.Vote, r.state)
    BY <1>1, PollTurns
  <2> QED BY <2>1 DEF Turns, Grows
<1>3. \/ s = r
      \/ Asked(r, m) /\ s = c
      \/ s = BecomeFollower(c, c.Term, None)
      \/ s = CampaignElection(i, c, FALSE)
      \/ s = BcastAppend(i, l)
  BY HandleVoteRespCases
<1> HIDE DEF c, s
<1>4. Asked(r, m) => Windowed(i, c)
  BY <1>2 DEF Asked, Windowed
<1>5. Windowed(i, BecomeFollower(c, c.Term, None))
  BY <1>2, StructFields, BecomeFollowerTurns DEF Turns, Windowed
<1>6. Windowed(i, CampaignElection(i, c, FALSE))
  BY <1>2, CampaignWindowed
<1>7. Windowed(i, BcastAppend(i, l))
  <2>1. PICK t : Turns(c, t, c.Term, c.Vote, "Leader") /\ Quiet(i, t, l)
    BY <1>2, BecomeLeaderTurns
  <2>2. StructOK(l) /\ l.state = "Leader"
    BY <2>1 DEF Turns, Quiet, Grows
  <2>3. Windowed(i, l)
    BY <1>2, BecomeLeaderWindowed
  <2> HIDE DEF l
  <2> QED BY <2>2, <2>3, BcastAppendWindowed
<1>8. Windowed(i, s)
  BY <1>3, <1>4, <1>5, <1>6, <1>7
<1> QED BY <1>8 DEF s

\* What a leader does by itself or for the application.
LEMMA LeaderActionsWindowed ==
    ASSUME NEW i \in Server, scenario \in Scenarios, StructOK(node[i]), Windowed(i, node[i]),
           node[i].state = "Leader",
           \/ Beat(i) \/ LeaderTimeout(i) \/ Propose(i)
           \/ \E to \in MayTransferTo : TransferLeader(i, to)
           \/ \E to \in Server : ReportUnreachable(i, to)
           \/ \E to \in Server, failed \in BOOLEAN : ReportSnapshot(i, to, failed)
           \/ \E m \in Message : StepLowerTerm(i, m) \/ StepProp(i, m)
    PROVE  WindowedUpdate(i)
<1> DEFINE r == node[i]
<1>1. ASSUME NEW M, Update(i, [r EXCEPT !.msgs = r.msgs \cup M]) PROVE WindowedUpdate(i)
  <2> DEFINE s == [r EXCEPT !.msgs = r.msgs \cup M]
  <2>1. s.state = r.state /\ s.prs = r.prs
    BY DEF StructOK, RaftStruct
  <2>2. Update(i, s)
    BY <1>1
  <2> HIDE DEF s
  <2>3. Windowed(i, s)
    BY <2>1, SameWindowed
  <2> QED BY <2>2, <2>3 DEF WindowedUpdate
<1>2. CASE Beat(i)
  BY <1>1, <1>2 DEF Beat
<1>3. CASE LeaderTimeout(i)
  <2> DEFINE f   == BecomeFollower(r, r.Term, None)
             prs == [p \in Server |-> [r.prs[p] EXCEPT !.RecentActive = (p = i)]]
             t   == [r EXCEPT !.prs = prs]
             Done(s) == [s EXCEPT !.leadTransferee = None]
  <2>1. Update(i, Done(r)) \/ Update(i, Done(f)) \/ Update(i, Done(t))
    BY <1>3 DEF LeaderTimeout
  <2>2. f \in RaftStruct /\ f.state = "Follower"
    <3>1. Turns(r, f, r.Term, KeptVote(r, r.Term), "Follower")
      BY StructFields, BecomeFollowerTurns
    <3> QED BY <3>1 DEF Turns, Grows, StructOK
  <2>3. \A p \in Server \ {i} : WindowOK(prs[p])
    <3> TAKE p \in Server \ {i}
    <3> DEFINE pr == r.prs[p]
               b  == (p = i)
               q  == [pr EXCEPT !.RecentActive = b]
    <3>1. pr \in ProgressRecord /\ WindowOK(pr) /\ b \in BOOLEAN /\ prs[p] = q
      BY StructFields DEF Windowed
    <3> HIDE DEF pr, b, prs
    <3>2. /\ q \in ProgressRecord /\ q.State = pr.State /\ q.Match = pr.Match /\ q.Next = pr.Next
          /\ q.Inflights = pr.Inflights /\ pr.Next \in Nat
      BY <3>1 DEF ProgressRecord
    <3> HIDE DEF q
    <3>3. q.Next >= pr.Next
      BY <3>2
    <3> QED BY <3>1, <3>2, <3>3, SameWindow
  <2>4. prs \in [Server -> ProgressRecord]
    <3>1. \A pr \in ProgressRecord, b \in BOOLEAN : [pr EXCEPT !.RecentActive = b] \in ProgressRecord
      BY DEF ProgressRecord
    <3> QED BY <3>1, StructFields
  <2> HIDE DEF prs, f
  <2>5. /\ Done(r).state = r.state /\ Done(r).prs = r.prs
        /\ Done(f).state = "Follower"
        /\ Done(t).state = r.state /\ Done(t).prs = prs
    BY <2>2, <2>4 DEF StructOK, RaftStruct
  <2> HIDE DEF t, Done
  <2>6. Windowed(i, Done(r)) /\ Windowed(i, Done(f)) /\ Windowed(i, Done(t))
    BY <2>3, <2>5 DEF Windowed
  <2> QED BY <2>1, <2>6 DEF WindowedUpdate
<1>4. ASSUME NEW from \in Server, HandleProp(i, r, from) PROVE WindowedUpdate(i)
  <2> DEFINE s == AppendEntry(i, r, "cmd")
  <2>1. Update(i, BcastAppend(i, s))
    BY <1>4 DEF HandleProp
  <2>2. Quiet(i, r, s) /\ Windowed(i, s)
    BY AppendEntryQuiet, AppendEntryWindowed
  <2> HIDE DEF s
  <2>3. StructOK(s) /\ s.state = "Leader"
    BY <2>2 DEF Quiet, Grows
  <2>4. Windowed(i, BcastAppend(i, s))
    BY <2>2, <2>3, BcastAppendWindowed
  <2> QED BY <2>1, <2>4 DEF WindowedUpdate
<1>5. ASSUME NEW to \in MayTransferTo, TransferLeader(i, to) PROVE WindowedUpdate(i)
  <2>1. to \in Server
    BY ScenarioAssumption DEF MayTransferTo
  <2>2. Update(i, HandleTransferLeader(i, r, to, 0))
    BY <1>5 DEF TransferLeader
  <2> QED BY <2>1, <2>2, HandleTransferLeaderWindowed DEF WindowedUpdate
<1>6. ASSUME NEW to \in Server, NEW pr, WindowOK(pr), Update(i, [r EXCEPT !.prs[to] = pr])
      PROVE  WindowedUpdate(i)
  BY <1>6, ProgressWindowed DEF WindowedUpdate
<1>7. ASSUME NEW to \in Server, ReportUnreachable(i, to) PROVE WindowedUpdate(i)
  <2> DEFINE pr == BecomeProbe(r.prs[to])
  <2>1. WindowOK(pr)
    <3>1. 0 \in Nat /\ r.prs[to] \in ProgressRecord
      BY StructFields
    <3> QED BY <3>1, ResetWindows
  <2>2. Update(i, [r EXCEPT !.prs[to] = pr])
    BY <1>7 DEF ReportUnreachable
  <2> HIDE DEF pr
  <2> QED BY <1>6, <2>1, <2>2
<1>8. ASSUME NEW to \in Server, NEW failed \in BOOLEAN, ReportSnapshot(i, to, failed)
      PROVE  WindowedUpdate(i)
  <2> DEFINE old == IF failed THEN [r.prs[to] EXCEPT !.PendingSnapshot = 0] ELSE r.prs[to]
             b   == BecomeProbe(old)
             pr  == [b EXCEPT !.ProbeSent = TRUE]
  <2>1. old \in ProgressRecord
    <3>1. r.prs[to] \in ProgressRecord
      BY StructFields
    <3>2. [r.prs[to] EXCEPT !.PendingSnapshot = 0] \in ProgressRecord
      BY <3>1 DEF ProgressRecord
    <3> QED BY <3>1, <3>2
  <2>2. Update(i, [r EXCEPT !.prs[to] = pr])
    BY <1>8 DEF ReportSnapshot, SnapshotStatus
  <2> HIDE DEF old
  <2>3. b.Inflights = <<>> /\ b.State = "Probe" /\ b \in ProgressRecord
    <3>1. 0 \in Nat
      OBVIOUS
    <3> QED BY <2>1, <3>1, ProgressTypes DEF BecomeProbe, ResetState, ProgressRecord
  <2> HIDE DEF b
  <2>4. pr.Inflights = <<>> /\ pr.State = "Probe"
    BY <2>3 DEF ProgressRecord
  <2> HIDE DEF pr
  <2>5. WindowOK(pr)
    BY <2>4, EmptyWindow
  <2> QED BY <1>6, <2>2, <2>5
<1>9. ASSUME NEW m \in Message, StepLowerTerm(i, m) PROVE WindowedUpdate(i)
  BY <1>1, <1>9 DEF StepLowerTerm
<1>10. ASSUME NEW m \in Message, StepProp(i, m) PROVE WindowedUpdate(i)
  BY <1>4, <1>10 DEF StepProp, Message
<1>11. CASE Propose(i)
  BY <1>4, <1>11 DEF Propose
<1> QED BY <1>2, <1>3, <1>5, <1>7, <1>8, <1>9, <1>10, <1>11

\* Every step of a server but Ready, Compact and Restart leaves its windows in order.
LEMMA StepsWindowed ==
    ASSUME TypeInv, NEW i \in Server, Windowed(i, node[i]),
           \/ Hup(i) \/ LeaseExpires(i) \/ Beat(i) \/ LeaderTimeout(i) \/ Propose(i)
           \/ \E to \in MayTransferTo : TransferLeader(i, to)
           \/ \E to \in Server \ {i} : ReportUnreachable(i, to)
           \/ \E to \in Server \ {i}, failed \in BOOLEAN : ReportSnapshot(i, to, failed)
           \/ \E m \in {n \in net : n.to = i} : Step(i, m)
    PROVE  WindowedUpdate(i)
<1> DEFINE r == node[i]
<1>1. StructOK(r) /\ scenario \in Scenarios
  BY DEF TypeInv
<1>2. CASE Hup(i)
  <2>1. Update(i, CampaignPreElection(i, r)) \/ Update(i, CampaignElection(i, r, FALSE))
    BY <1>2 DEF Hup
  <2> QED BY <1>1, <2>1, CampaignWindowed DEF WindowedUpdate
<1>3. CASE LeaseExpires(i)
  <2>1. QuietUpdate(i, r) /\ r.state # "Leader"
    BY <1>1, <1>3, LocalActionsQuiet DEF LeaseExpires
  <2> QED BY <2>1, QuietWindowed
<1>4. ASSUME r.state # "Leader",
             \/ Beat(i) \/ Propose(i)
             \/ \E to \in MayTransferTo : TransferLeader(i, to)
             \/ \E to \in Server : ReportUnreachable(i, to)
             \/ \E to \in Server, failed \in BOOLEAN : ReportSnapshot(i, to, failed)
             \/ \E m \in Message : StepLowerTerm(i, m) \/ StepProp(i, m)
      PROVE  WindowedUpdate(i)
  <2>1. QuietUpdate(i, r)
    BY <1>1, <1>4, LocalActionsQuiet
  <2> QED BY <1>4, <2>1, QuietWindowed
<1>5. CASE LeaderTimeout(i)
  <2>1. r.state = "Leader"
    BY <1>5 DEF LeaderTimeout
  <2> QED BY <1>1, <1>5, <2>1, LeaderActionsWindowed
<1>6. CASE \/ Beat(i) \/ Propose(i)
           \/ \E to \in MayTransferTo : TransferLeader(i, to)
           \/ \E to \in Server \ {i} : ReportUnreachable(i, to)
           \/ \E to \in Server \ {i}, failed \in BOOLEAN : ReportSnapshot(i, to, failed)
  <2>1. CASE r.state = "Leader"
    BY <1>1, <1>6, <2>1, LeaderActionsWindowed
  <2>2. CASE r.state # "Leader"
    BY <1>4, <1>6, <2>2
  <2> QED BY <2>1, <2>2
<1>7. ASSUME NEW m \in net, Step(i, m) PROVE WindowedUpdate(i)
  <2> DEFINE q == Observe(r, m)
             f == Follow(q, m)
  <2>1. m \in Message /\ SnapshotComplete(m) /\ m.from \in Server
    BY NetMessage DEF Message
  <2>2. StructOK(q) /\ Windowed(i, q)
    BY <1>1, <2>1, ObserveTurns DEF Turns, Grows, Windowed
  <2> HIDE DEF q
  <2>3. StructOK(f) /\ f.state = "Follower"
    BY <2>1, <2>2, FollowTurns DEF Turns, Quiet, Grows
  <2> HIDE DEF f
  <2>4. CASE StepLowerTerm(i, m) \/ StepProp(i, m)
    <3>1. CASE r.state = "Leader"
      BY <1>1, <2>1, <2>4, <3>1, LeaderActionsWindowed
    <3>2. CASE r.state # "Leader"
      BY <1>4, <2>1, <2>4, <3>2
    <3> QED BY <3>1, <3>2
  <2>5. CASE StepAppResp(i, m) \/ StepHeartbeatResp(i, m) \/ StepTransferLeader(i, m)
    <3>1. \/ Update(i, q)
          \/ q.state = "Leader" /\ Update(i, HandleAppResp(i, q, m))
          \/ q.state = "Leader" /\ Update(i, HandleHeartbeatResp(i, q, m))
          \/ Update(i, HandleTransferLeader(i, q, m.from, m.term))
      BY <2>5 DEF StepAppResp, StepHeartbeatResp, StepTransferLeader, q
    <3>2. /\ Windowed(i, HandleTransferLeader(i, q, m.from, m.term))
          /\ q.state = "Leader" => /\ Windowed(i, HandleAppResp(i, q, m))
                                   /\ Windowed(i, HandleHeartbeatResp(i, q, m))
      BY <1>1, <2>1, <2>2, HandleAppRespWindowed, HandleHeartbeatRespWindowed, HandleTransferLeaderWindowed
    <3> QED BY <2>2, <3>1, <3>2 DEF WindowedUpdate
  <2>6. CASE StepApp(i, m) \/ StepHeartbeat(i, m) \/ StepSnap(i, m)
    <3>1. QuietUpdate(i, f)
      BY <1>1, <2>1, <2>3, <2>6, LeaderMessagesQuiet DEF q, f
    <3> QED BY <2>3, <3>1, QuietWindowed
  <2>7. CASE StepVote(i, m)
    <3>1. Update(i, HandleVote(i, q, m))
      BY <2>7 DEF StepVote, q
    <3>2. HandleVote(i, q, m).state = q.state /\ HandleVote(i, q, m).prs = q.prs
      BY <2>2 DEF HandleVote, Send, StructOK, RaftStruct
    <3>3. Windowed(i, HandleVote(i, q, m))
      BY <2>2, <3>2, SameWindowed
    <3> QED BY <3>1, <3>3 DEF WindowedUpdate
  <2>8. CASE StepVoteResp(i, m)
    <3>1. Update(i, HandleVoteResp(i, q, m))
      BY <2>8 DEF StepVoteResp, q
    <3>2. Windowed(i, HandleVoteResp(i, q, m))
      BY <1>1, <2>1, <2>2, HandleVoteRespWindowed
    <3> QED BY <3>1, <3>2 DEF WindowedUpdate
  <2>9. CASE StepTimeoutNow(i, m)
    <3>1. Update(i, CampaignElection(i, q, TRUE)) \/ Update(i, q)
      BY <2>9 DEF StepTimeoutNow, q
    <3>2. Windowed(i, CampaignElection(i, q, TRUE))
      BY <2>2, CampaignWindowed
    <3> QED BY <2>2, <3>1, <3>2 DEF WindowedUpdate
  <2> QED BY <1>7, <2>4, <2>5, <2>6, <2>7, <2>8, <2>9 DEF Step
<1> QED BY <1>2, <1>3, <1>5, <1>6, <1>7

\* Handling a Ready leaves the progress alone.
LEMMA AdvancedWindowed ==
    ASSUME NEW i, NEW s, Advanced(s) \in RaftStruct, Windowed(i, s)
    PROVE  Windowed(i, Advanced(s))
<1> DEFINE z == ReduceUncommittedSize(s)
           c == s.committed
           t == [s EXCEPT !.msgs = {}, !.applied = c, !.uncommittedSize = z]
<1>1. Advanced(s) = t
  BY DEF Advanced
<1> HIDE DEF z, c
<1>2. DOMAIN t = DOMAIN s /\ "prs" \in DOMAIN t /\ "state" \in DOMAIN t
  BY <1>1 DEF RaftStruct
<1>3. t.prs = s.prs /\ t.state = s.state
  BY <1>2
<1> HIDE DEF t
<1>4. Windowed(i, t)
  BY <1>3, SameWindowed
<1> QED BY <1>1, <1>4

\* A group starts without a leader.
LEMMA WindowsInit == Init => WindowsInv
<1> SUFFICES ASSUME Init, NEW i \in Server PROVE Windowed(i, node[i])
  BY DEF WindowsInv
<1> DEFINE d == EmptyDisk
<1>1. DiskOK(d)
  BY DEF DiskOK, Disk, EmptyDisk
<1>2. FromDisk(d).state = "Follower"
  BY <1>1, FromDiskType
<1>3. node[i] = FromDisk(d)
  BY DEF Init
<1> HIDE DEF d
<1> QED BY <1>2, <1>3 DEF Windowed

\* Every step keeps the windows in order; a restart loses them with the leadership.
LEMMA WindowsNext == TypeInv /\ WindowsInv /\ [Next]_vars => WindowsInv'
<1> SUFFICES ASSUME TypeInv, WindowsInv, [Next]_vars PROVE WindowsInv'
  OBVIOUS
<1>1. TypeInv'
  BY TypeInvNext
<1>2. CASE UNCHANGED vars
  BY <1>2 DEF vars, WindowsInv, Windowed
<1>3. CASE Next
  <2>1. PICK i \in Server :
            \/ Hup(i) \/ LeaseExpires(i) \/ Beat(i) \/ LeaderTimeout(i) \/ Propose(i)
            \/ \E to \in MayTransferTo : TransferLeader(i, to)
            \/ \E to \in Server \ {i} : ReportUnreachable(i, to)
            \/ \E to \in Server \ {i}, failed \in BOOLEAN : ReportSnapshot(i, to, failed)
            \/ \E m \in {n \in net : n.to = i} : Step(i, m)
            \/ Ready(i) \/ Compact(i) \/ Restart(i)
    BY <1>3 DEF Next
  <2>2. Windowed(i, node[i]) /\ StructOK(node[i]) /\ node'[i] \in RaftStruct /\ DiskOK(disk[i])
    BY <1>1 DEF WindowsInv, TypeInv
  <2>3. OthersKeep(i) /\ Windowed(i, node'[i])
    <3>1. CASE Ready(i)
      BY <2>2, <3>1, ReadyType, AdvancedWindowed
    <3>2. CASE Compact(i)
      <4>1. node'[i].prs = node[i].prs /\ node'[i].state = node[i].state
        BY <2>2, <3>2 DEF Compact, TypeInv, RaftStruct
      <4> QED BY <2>2, <3>2, <4>1, CompactType, SameWindowed
    <3>3. CASE Restart(i)
      <4>1. OthersKeep(i) /\ node'[i] = FromDisk(disk[i])
        BY <3>3, RestartType
      <4>2. node'[i].state = "Follower"
        BY <2>2, <4>1, FromDiskType
      <4> QED BY <4>1, <4>2 DEF Windowed
    <3>4. CASE ~(Ready(i) \/ Compact(i) \/ Restart(i))
      <4>1. PICK s : Update(i, s) /\ Windowed(i, s)
        BY <2>1, <2>2, <3>4, StepsWindowed DEF WindowedUpdate
      <4>2. OthersKeep(i) /\ (node'[i] = s \/ node'[i] = Advanced(s))
        BY <4>1, UpdateEffect
      <4> QED BY <2>2, <4>1, <4>2, AdvancedWindowed
    <3> QED BY <3>1, <3>2, <3>3, <3>4
  <2>4. ASSUME NEW j \in Server PROVE Windowed(j, node'[j])
    <3>1. j # i => node'[j] = node[j]
      BY <2>3 DEF OthersKeep, TypeInv
    <3> QED BY <2>3, <3>1 DEF WindowsInv
  <2> QED BY <2>4 DEF WindowsInv
<1> QED BY <1>2, <1>3

\* The leader keeps the contract of Inflights, whatever acks, rejections, heartbeats, snapshots
\* and reports arrive in whatever order: a window of growing indexes above Match and below Next,
\* never over its capacity (raft.go:470-476, 1232-1309).
THEOREM WindowsAreKept == Spec => []InflightsContract
<1>1. Init => TypeInv /\ WindowsInv
  BY TypeInvInit, WindowsInit
<1>2. TypeInv /\ WindowsInv /\ [Next]_vars => (TypeInv /\ WindowsInv)'
  BY TypeInvNext, WindowsNext
<1>3. TypeInv /\ WindowsInv => InflightsContract
  <2> SUFFICES ASSUME TypeInv, WindowsInv, NEW i \in Server, node[i].state = "Leader", NEW p \in Server \ {i}
               PROVE  LET pr == node[i].prs[p]
                      IN  /\ Len(pr.Inflights) <= MaxInflight
                          /\ \A k \in 1..Len(pr.Inflights) :
                                /\ pr.Match < pr.Inflights[k] /\ pr.Inflights[k] < pr.Next
                                /\ k > 1 => pr.Inflights[k - 1] < pr.Inflights[k]
    BY DEF InflightsContract
  <2> DEFINE pr == node[i].prs[p]
             w  == pr.Inflights
  <2>1. WindowOK(pr)
    BY DEF WindowsInv, Windowed
  <2>2. ASSUME NEW k \in 1..Len(w), k > 1 PROVE w[k - 1] < w[k]
    <3> DEFINE j == k - 1
    <3>1. j \in 1..Len(w) /\ j < k
      BY <2>2
    <3> HIDE DEF j
    <3>2. w[j] < w[k]
      BY <2>1, <3>1 DEF WindowOK
    <3> QED BY <3>2 DEF j
  <2> HIDE DEF pr
  <2>3. Len(w) <= MaxInflight /\ \A k \in 1..Len(w) : pr.Match < w[k] /\ w[k] < pr.Next
    BY <2>1 DEF WindowOK
  <2> QED BY <2>2, <2>3 DEF pr
<1> QED BY <1>1, <1>2, <1>3, PTL DEF Spec

-----------------------------------------------------------------------------
(* Elections: a vote that left a server is not taken back, and a term has  *)
(* at most one leader.  The invariant says nothing of what the logs hold:  *)
(* elections are safe even where replication is not.                       *)

-----------------------------------------------------------------------------
(* The inductive invariant.  Its parts take the state r of one server, its *)
(* disk d and the network N as arguments.                                  *)

\* Besides a granted vote, a message that only a leader sends and a request for votes tell of a
\* vote: the sender voted for itself.
TellsVote(m) == Grants(m) \/ FromLeader(m) \/ m.type = "MsgVote"
Choice(m) == IF Grants(m) THEN m.to ELSE m.from

\* HardState r holds the vote that m tells of, or is of a later term.
Holds(r, m) == r.Term > m.term \/ (r.Term = m.term /\ r.Vote = Choice(m))

\* p has granted its vote to c in term t.
Granted(N, p, c, t) == \E m \in N : Grants(m) /\ m.from = p /\ m.to = c /\ m.term = t

\* A quorum voted for c in term t; c's own vote is not sent.
Voters(N, c, t) == {p \in Server : p = c \/ Granted(N, p, c, t)}
Elected(N, c, t) == HasQuorum(Server, Voters(N, c, t))

\* A server is in the term of its disk, with the same vote if there is one, or past it.
PastDisk(r, d) == d.Term < r.Term \/ (d.Term = r.Term /\ (d.Vote # None => r.Vote = d.Vote))

\* Candidates and leaders voted for themselves; their votes are there.
CampaignInv(i, r, N) ==
    /\ r.state \in {"Candidate", "Leader"} => r.Vote = i
    /\ r.state = "Candidate" =>
          \A p \in Server : r.votes[p] = "yes" => p = i \/ Granted(N, p, i, r.Term)
    /\ r.state = "Leader" => Elected(N, i, r.Term)

\* What server i is about to send: votes it still holds, and as a leader only if elected.
OutboxInv(i, r, N) ==
    \A m \in r.msgs :
        /\ TellsVote(m) => m.from = i /\ Holds(r, m)
        /\ FromLeader(m) => Elected(N, i, m.term)

\* No server tells of two different votes of one term.
OneVote(i, M) ==
    \A m, n \in M : TellsVote(m) /\ TellsVote(n) /\ m.from = i /\ n.from = i /\ m.term = n.term
                        => Choice(m) = Choice(n)

\* The votes that server i has told of are on its disk.
SentInv(i, d, N) == \A m \in N : TellsVote(m) /\ m.from = i => Holds(d, m)

ServerInv(i, r, d, N) ==
    /\ PastDisk(r, d) /\ CampaignInv(i, r, N) /\ OutboxInv(i, r, N) /\ SentInv(i, d, N)
    /\ OneVote(i, r.msgs \cup N)

\* Only who is elected speaks as a leader.
NetInv(N) == \A m \in N : FromLeader(m) => Elected(N, m.from, m.term)

ElectionInv == /\ \A i \in Server : ServerInv(i, node[i], disk[i], net)
               /\ NetInv(net)

\* The same for one server, with its types.
Good(i, r, d, N) == StructOK(r) /\ DiskOK(d) /\ N \subseteq Message /\ ServerInv(i, r, d, N)

-----------------------------------------------------------------------------
(* Votes and quorums *)

\* Whom a message tells of is a server.
LEMMA ChoiceType ==
    ASSUME NEW m \in Message
    PROVE  Choice(m) \in Server /\ Choice(m) # None /\ m.term \in Nat /\ m.from \in Server
BY ServerAssumption DEF Message, Choice

\* More messages do not undo an election.
LEMMA ElectedMonotone ==
    ASSUME NEW N, NEW O, N \subseteq O, NEW c, NEW t, Elected(N, c, t)
    PROVE  Elected(O, c, t)
<1>1. Voters(N, c, t) \subseteq Voters(O, c, t)
  BY DEF Voters, Granted
<1> QED BY <1>1, ServerAssumption, HasQuorumMonotone DEF Elected

\* A vote that the disk holds is held by the server.
LEMMA DiskVoteHeld ==
    ASSUME NEW r, NEW d, StructOK(r), DiskOK(d), PastDisk(r, d), NEW m \in Message, Holds(d, m)
    PROVE  Holds(r, m)
<1>1. r.Term \in Nat /\ d.Term \in Nat /\ m.term \in Nat /\ Choice(m) # None
  BY StructFields, ChoiceType DEF DiskOK, Disk
<1> QED BY <1>1 DEF PastDisk, Holds

\* A server in term t that has voted told of no other vote in t.
LEMMA TellsOwnVote ==
    ASSUME NEW i, NEW r, NEW d, NEW N, Good(i, r, d, N),
           NEW m \in r.msgs \cup N, TellsVote(m), m.from = i, m.term = r.Term
    PROVE  r.Vote = Choice(m)
<1>1. m \in Message /\ StructOK(r) /\ DiskOK(d)
  BY StructFields DEF Good
<1>2. Holds(r, m)
  <2>1. CASE m \in r.msgs
    BY <2>1 DEF Good, ServerInv, OutboxInv
  <2>2. CASE m \in N
    BY <1>1, <2>2, DiskVoteHeld DEF Good, ServerInv, SentInv
  <2> QED BY <2>1, <2>2
<1>3. r.Term \in Nat
  BY <1>1, StructFields
<1> QED BY <1>2, <1>3 DEF Holds

-----------------------------------------------------------------------------
(* Steps of a server *)

\* A quiet step has no part in elections.
LEMMA QuietKeepsInv ==
    ASSUME NEW i \in Server, NEW r, NEW s, NEW d, NEW N, Good(i, r, d, N), Quiet(i, r, s)
    PROVE  Good(i, s, d, N)
<1>1. StructOK(s) /\ PastDisk(s, d) /\ CampaignInv(i, s, N)
  BY DEF Good, ServerInv, PastDisk, CampaignInv, Quiet, Grows
<1>2. ASSUME NEW m \in s.msgs, m \notin r.msgs, TellsVote(m)
      PROVE  m.from = i /\ m.term = r.Term /\ Choice(m) = i /\ r.Vote = i
  BY <1>2 DEF Quiet, QuietMessage, TellsVote, Choice, Good, ServerInv, CampaignInv
<1>3. OutboxInv(i, s, N)
  <2> SUFFICES ASSUME NEW m \in s.msgs
               PROVE  /\ TellsVote(m) => m.from = i /\ Holds(s, m)
                      /\ FromLeader(m) => Elected(N, i, m.term)
    BY DEF OutboxInv
  <2>1. CASE m \in r.msgs
    BY <2>1 DEF Quiet, Good, ServerInv, OutboxInv, Holds
  <2>2. CASE m \notin r.msgs
    BY <1>2, <2>2 DEF Quiet, QuietMessage, Good, ServerInv, CampaignInv, Holds, TellsVote
  <2> QED BY <2>1, <2>2
<1>4. OneVote(i, s.msgs \cup N)
  <2> SUFFICES ASSUME NEW m \in s.msgs \cup N, NEW n \in s.msgs \cup N,
                      TellsVote(m), TellsVote(n), m.from = i, n.from = i, m.term = n.term
               PROVE  Choice(m) = Choice(n)
    BY DEF OneVote
  <2>1. CASE m \in r.msgs \cup N /\ n \in r.msgs \cup N
    BY <2>1 DEF Good, ServerInv, OneVote
  <2>2. CASE m \notin r.msgs \cup N /\ n \in r.msgs \cup N
    BY <1>2, <2>2, TellsOwnVote
  <2>3. CASE m \in r.msgs \cup N /\ n \notin r.msgs \cup N
    BY <1>2, <2>3, TellsOwnVote
  <2>4. CASE m \notin r.msgs \cup N /\ n \notin r.msgs \cup N
    BY <1>2, <2>4
  <2> QED BY <2>1, <2>2, <2>3, <2>4
<1> QED BY <1>1, <1>3, <1>4 DEF Good, ServerInv

\* A follower or pre-candidate of the same term with the same vote.
LEMMA SameTermKeepsInv ==
    ASSUME NEW i \in Server, NEW r, NEW s, NEW d, NEW N, Good(i, r, d, N),
           NEW state \in {"Follower", "PreCandidate"}, Turns(r, s, r.Term, r.Vote, state)
    PROVE  Good(i, s, d, N)
BY DEF Good, ServerInv, PastDisk, CampaignInv, OutboxInv, Holds, Turns, Grows

\* A later term: all votes told of are of the past.
LEMMA NewTermKeepsInv ==
    ASSUME NEW i \in Server, NEW r, NEW s, NEW d, NEW N, Good(i, r, d, N),
           NEW term \in Nat, term > r.Term, NEW vote, NEW state, Turns(r, s, term, vote, state),
           \/ state = "Follower"
           \/ state = "Candidate" /\ vote = i /\ \A p \in Server : s.votes[p] = "yes" => p = i
    PROVE  Good(i, s, d, N)
<1>1. /\ StructOK(s) /\ r.Term \in Nat /\ d.Term \in Nat /\ s.Term = term /\ s.msgs = r.msgs
      /\ s.Vote = vote /\ s.state = state
  BY StructFields DEF Good, DiskOK, Disk, Turns, Grows
<1>2. d.Term <= r.Term
  BY <1>1 DEF Good, ServerInv, PastDisk
<1>3. PastDisk(s, d)
  BY <1>1, <1>2 DEF PastDisk
<1>4. OutboxInv(i, s, N)
  <2> SUFFICES ASSUME NEW m \in r.msgs
               PROVE  /\ TellsVote(m) => m.from = i /\ Holds(s, m)
                      /\ FromLeader(m) => Elected(N, i, m.term)
    BY <1>1 DEF OutboxInv
  <2>1. m.term \in Nat
    BY StructFields, ChoiceType DEF Good
  <2>2. TellsVote(m) => m.term <= r.Term
    BY <1>1, <2>1 DEF Good, ServerInv, OutboxInv, Holds
  <2> QED BY <1>1, <2>1, <2>2 DEF Good, ServerInv, OutboxInv, Holds
<1>5. CampaignInv(i, s, N)
  BY <1>1 DEF CampaignInv
<1> QED BY <1>1, <1>3, <1>4, <1>5 DEF Good, ServerInv

\* The term of a message is observed.
LEMMA ObserveKeepsInv ==
    ASSUME NEW i \in Server, NEW r, NEW d, NEW N, Good(i, r, d, N), NEW m \in Message
    PROVE  Good(i, Observe(r, m), d, N)
<1>1. StructOK(r)
  BY DEF Good
<1>2. CASE AdoptsTerm(r, m)
  <2>1. Turns(r, Observe(r, m), m.term, KeptVote(r, m.term), "Follower")
    BY <1>1, <1>2, ObserveTurns
  <2>2. m.term \in Nat /\ m.term > r.Term
    BY <1>2 DEF AdoptsTerm, Message
  <2> QED BY <2>1, <2>2, NewTermKeepsInv
<1>3. CASE ~AdoptsTerm(r, m)
  BY <1>1, <1>3, ObserveTurns
<1> QED BY <1>2, <1>3

\* Stepping down within the term keeps the vote.
LEMMA StepDownKeepsInv ==
    ASSUME NEW i \in Server, NEW r, NEW d, NEW N, Good(i, r, d, N), NEW lead \in Server \cup {None}
    PROVE  Good(i, BecomeFollower(r, r.Term, lead), d, N)
<1>1. StructOK(r) /\ r.Term \in Nat /\ KeptVote(r, r.Term) = r.Vote
  BY StructFields DEF Good, KeptVote
<1>2. Turns(r, BecomeFollower(r, r.Term, lead), r.Term, r.Vote, "Follower")
  BY <1>1, BecomeFollowerTurns
<1> QED BY <1>2, SameTermKeepsInv

\* A leader of the term is heard: it is followed, but the vote stays.
LEMMA FollowKeepsInv ==
    ASSUME NEW i \in Server, NEW r, NEW d, NEW N, Good(i, r, d, N), NEW m \in Message, m.term = r.Term
    PROVE  Good(i, Follow(r, m), d, N)
<1>1. StructOK(r) /\ m.from \in Server /\ KeptVote(r, r.Term) = r.Vote
  BY DEF Good, Message, KeptVote
<1>2. \/ Quiet(i, r, Follow(r, m))
      \/ Turns(r, Follow(r, m), r.Term, r.Vote, "Follower")
  BY <1>1, FollowTurns
<1> QED BY <1>2, QuietKeepsInv, SameTermKeepsInv

\* A candidate with a quorum of votes becomes leader (raft.go:1395-1405).
LEMMA BecomeLeaderKeepsInv ==
    ASSUME NEW i \in Server, NEW r, NEW d, NEW N, Good(i, r, d, N),
           r.state = "Candidate", TallyVotes(r) = "VoteWon"
    PROVE  Good(i, BecomeLeader(i, r), d, N) /\ BecomeLeader(i, r).state = "Leader"
<1>1. StructOK(r)
  BY DEF Good
<1>2. PICK s : Turns(r, s, r.Term, r.Vote, "Leader") /\ Quiet(i, s, BecomeLeader(i, r))
  BY <1>1, BecomeLeaderTurns
<1>3. Elected(N, i, r.Term)
  <2>1. HasQuorum(Server, {p \in Server : r.votes[p] = "yes"})
    BY <1>1, TallyMeaning
  <2>2. {p \in Server : r.votes[p] = "yes"} \subseteq Voters(N, i, r.Term)
    BY DEF Good, ServerInv, CampaignInv, Voters
  <2> QED BY <2>1, <2>2, ServerAssumption, HasQuorumMonotone DEF Elected
<1>4. Good(i, s, d, N)
  BY <1>2, <1>3 DEF Good, ServerInv, PastDisk, CampaignInv, OutboxInv, Holds, Turns, Grows
<1>5. s.state = "Leader"
  BY <1>2 DEF Turns
<1> QED BY <1>2, <1>4, <1>5, QuietKeepsInv DEF Quiet

\* A campaign starts a new term with the server's own vote.
LEMMA CampaignElectionKeepsInv ==
    ASSUME NEW i \in Server, NEW r, NEW d, NEW N, Good(i, r, d, N), NEW transfer \in BOOLEAN
    PROVE  Good(i, CampaignElection(i, r, transfer), d, N)
<1> DEFINE c == NewCandidate(i, r)
<1>1. StructOK(r) /\ r.Term \in Nat
  BY StructFields DEF Good
<1>2. /\ Turns(r, c, r.Term + 1, i, "Candidate")
      /\ \A p \in Server : c.votes[p] = "yes" => p = i
      /\ \/ TallyVotes(c) = "VoteWon" /\ CampaignElection(i, r, transfer) = BecomeLeader(i, c)
         \/ Quiet(i, c, CampaignElection(i, r, transfer))
  BY <1>1, CampaignElectionTurns
<1> HIDE DEF c
<1>3. Good(i, c, d, N)
  <2>1. r.Term + 1 \in Nat /\ r.Term + 1 > r.Term
    BY <1>1
  <2> QED BY <1>2, <2>1, NewTermKeepsInv
<1>4. c.state = "Candidate"
  BY <1>2 DEF Turns
<1> QED BY <1>2, <1>3, <1>4, BecomeLeaderKeepsInv, QuietKeepsInv

\* A pre-campaign leaves term and vote alone.
LEMMA CampaignPreElectionKeepsInv ==
    ASSUME NEW i \in Server, NEW r, NEW d, NEW N, Good(i, r, d, N)
    PROVE  Good(i, CampaignPreElection(i, r), d, N)
<1> DEFINE c == NewPreCandidate(i, r)
<1>1. StructOK(r)
  BY DEF Good
<1>2. /\ Turns(r, c, r.Term, r.Vote, "PreCandidate")
      /\ \/ CampaignPreElection(i, r) = CampaignElection(i, c, FALSE)
         \/ Quiet(i, c, CampaignPreElection(i, r))
  BY <1>1, CampaignPreElectionTurns
<1> HIDE DEF c
<1>3. Good(i, c, d, N)
  BY <1>2, SameTermKeepsInv
<1>4. CASE CampaignPreElection(i, r) = CampaignElection(i, c, FALSE)
  BY <1>3, <1>4, CampaignElectionKeepsInv
<1>5. CASE Quiet(i, c, CampaignPreElection(i, r))
  BY <1>3, <1>5, QuietKeepsInv
<1> QED BY <1>2, <1>4, <1>5

\* A vote is granted only if none was given in the term, or the same one (raft.go:918-966).
LEMMA HandleVoteKeepsInv ==
    ASSUME NEW i \in Server, NEW r, NEW d, NEW N, Good(i, r, d, N), NEW m \in Message,
           m.type \in {"MsgVote", "MsgPreVote"}, m.type = "MsgVote" => m.term = r.Term
    PROVE  Good(i, HandleVote(i, r, m), d, N)
<1> DEFINE s == HandleVote(i, r, m)
           n == Msg("MsgVoteResp", i, m.from, m.term)
<1>1. StructOK(r) /\ r.Term \in Nat /\ DiskOK(d) /\ d.Term \in Nat
  BY StructFields DEF Good, DiskOK, Disk
<1>2. CASE Quiet(i, r, s)
  BY <1>2, QuietKeepsInv
<1>3. CASE ~Quiet(i, r, s)
  <2>1. /\ m.type = "MsgVote" /\ CanVote(r, m) /\ Grows(r, s)
        /\ s.Term = r.Term /\ s.Vote = m.from /\ s.state = r.state /\ s.votes = r.votes
        /\ s.msgs = r.msgs \cup {n}
    BY <1>1, <1>3, HandleVoteType
  <2>2. m.from \in Server /\ m.from # None /\ m.term = r.Term
    BY <2>1, ServerAssumption DEF Message
  <2>3. r.Vote # None => r.Vote = m.from
    BY <2>1 DEF CanVote
  <2>4. n \in Message /\ TellsVote(n) /\ ~FromLeader(n) /\ Choice(n) = m.from /\ n.from = i /\ n.term = r.Term
    <3>1. "MsgVoteResp" \in MessageTypes
      BY DEF MessageTypes
    <3>2. IsMsg(n, "MsgVoteResp", i, m.from, m.term)
      BY <1>1, <2>2, <3>1, MsgType
    <3> HIDE DEF n
    <3> QED BY <2>2, <3>2 DEF IsMsg, TellsVote, Grants, FromLeader, Choice
  <2> HIDE DEF s, n
  <2>5. PastDisk(s, d) /\ CampaignInv(i, s, N)
    BY <1>1, <2>1, <2>2, <2>3, ServerAssumption DEF Good, ServerInv, PastDisk, CampaignInv
  <2>6. ASSUME NEW x \in r.msgs \cup N, TellsVote(x), x.from = i, x.term = r.Term
        PROVE  Choice(x) = m.from
    <3>1. x \in Message
      BY <1>1, StructFields DEF Good
    <3> QED BY <2>3, <2>6, <3>1, TellsOwnVote, ChoiceType
  <2>7. OutboxInv(i, s, N)
    <3> SUFFICES ASSUME NEW x \in s.msgs
                 PROVE  /\ TellsVote(x) => x.from = i /\ Holds(s, x)
                        /\ FromLeader(x) => Elected(N, i, x.term)
      BY DEF OutboxInv
    <3>1. CASE x = n
      BY <2>1, <2>4, <3>1 DEF Holds
    <3>2. CASE x # n
      <4>1. x \in r.msgs /\ x \in r.msgs \cup N
        BY <2>1, <3>2
      <4>2. /\ TellsVote(x) => x.from = i /\ Holds(r, x)
            /\ FromLeader(x) => Elected(N, i, x.term)
        BY <4>1 DEF Good, ServerInv, OutboxInv
      <4>3. TellsVote(x) => Holds(s, x)
        BY <2>1, <2>6, <4>1, <4>2 DEF Holds
      <4> QED BY <4>2, <4>3
    <3> QED BY <3>1, <3>2
  <2>8. OneVote(i, s.msgs \cup N)
    <3> SUFFICES ASSUME NEW x \in s.msgs \cup N, NEW y \in s.msgs \cup N,
                        TellsVote(x), TellsVote(y), x.from = i, y.from = i, x.term = y.term
                 PROVE  Choice(x) = Choice(y)
      BY DEF OneVote
    <3>1. CASE x # n /\ y # n
      <4>1. x \in r.msgs \cup N /\ y \in r.msgs \cup N
        BY <2>1, <3>1
      <4> QED BY <4>1 DEF Good, ServerInv, OneVote
    <3>2. CASE x = n /\ y # n
      BY <2>1, <2>4, <2>6, <3>2
    <3>3. CASE x # n /\ y = n
      BY <2>1, <2>4, <2>6, <3>3
    <3>4. CASE x = n /\ y = n
      BY <3>4
    <3> QED BY <3>1, <3>2, <3>3, <3>4
  <2>9. Good(i, s, d, N)
    BY <2>1, <2>5, <2>7, <2>8 DEF Good, ServerInv, Grows
  <2> QED BY <2>9 DEF s
<1> QED BY <1>2, <1>3

\* A vote is counted, once the answer of the own kind of request is there (raft.go:846-857).
LEMMA AnswerKeepsInv ==
    ASSUME NEW i \in Server, NEW r, NEW d, NEW N, Good(i, r, d, N), NEW m \in N, m.to = i, Asked(r, m),
           m.type = "MsgVoteResp" => m.term = r.Term
    PROVE  LET c == Poll(r, m.from, ~m.reject)
           IN  Good(i, c, d, N) /\ Turns(r, c, r.Term, r.Vote, r.state)
<1> DEFINE c == Poll(r, m.from, ~m.reject)
<1>1. m \in Message /\ m.from \in Server /\ (~m.reject) \in BOOLEAN /\ StructOK(r)
  BY DEF Good, Message
<1>2. /\ Turns(r, c, r.Term, r.Vote, r.state)
      /\ \A p \in Server : c.votes[p] = "yes" => r.votes[p] = "yes" \/ (p = m.from /\ ~m.reject)
  <2> DEFINE g == ~m.reject
  <2>1. c = Poll(r, m.from, g) /\ g \in BOOLEAN
    BY <1>1
  <2> HIDE DEF g, c
  <2>2. /\ Turns(r, c, r.Term, r.Vote, r.state)
        /\ \A p \in Server : c.votes[p] = "yes" => r.votes[p] = "yes" \/ (p = m.from /\ g)
    BY <1>1, <2>1, PollTurns
  <2> QED BY <2>2 DEF g
<1> SUFFICES Good(i, c, d, N)
  BY <1>2
<1> HIDE DEF c
<1>3. CASE r.state = "PreCandidate"
  BY <1>2, <1>3, SameTermKeepsInv
<1>4. CASE r.state = "Candidate"
  <2>1. m.type = "MsgVoteResp" /\ m.term = r.Term
    BY <1>4 DEF Asked
  <2>2. \A p \in Server : c.votes[p] = "yes" => p = i \/ Granted(N, p, i, r.Term)
    BY <1>2, <1>4, <2>1 DEF Good, ServerInv, CampaignInv, Granted, Grants
  <2>3. c.state = "Candidate" /\ c.Term = r.Term /\ c.Vote = r.Vote /\ c.msgs = r.msgs /\ StructOK(c)
    BY <1>2, <1>4 DEF Turns, Grows
  <2>4. CampaignInv(i, c, N)
    BY <1>4, <2>2, <2>3 DEF Good, ServerInv, CampaignInv
  <2> QED BY <2>3, <2>4 DEF Good, ServerInv, PastDisk, OutboxInv, Holds
<1> QED BY <1>3, <1>4 DEF Asked

\* An answer is counted only in the term and the role it was asked for (raft.go:1395-1411).
LEMMA HandleVoteRespKeepsInv ==
    ASSUME NEW i \in Server, NEW r, NEW d, NEW N, Good(i, r, d, N), scenario \in Scenarios,
           NEW m \in N, m.to = i, m.type = "MsgVoteResp" => m.term = r.Term
    PROVE  Good(i, HandleVoteResp(i, r, m), d, N)
<1> DEFINE c == Poll(r, m.from, ~m.reject)
           s == HandleVoteResp(i, r, m)
<1>1. m \in Message /\ m.from \in Server /\ (~m.reject) \in BOOLEAN /\ StructOK(r)
  BY DEF Good, Message
<1>2. Asked(r, m) => Good(i, c, d, N) /\ Turns(r, c, r.Term, r.Vote, r.state)
  BY AnswerKeepsInv
<1>3. \/ ~Asked(r, m) /\ s = r
      \/ Asked(r, m) /\ s = c
      \/ Asked(r, m) /\ s = BecomeFollower(c, c.Term, None)
      \/ r.state = "PreCandidate" /\ Asked(r, m) /\ s = CampaignElection(i, c, FALSE)
      \/ /\ r.state = "Candidate" /\ Asked(r, m) /\ TallyVotes(c) = "VoteWon"
         /\ s = BcastAppend(i, BecomeLeader(i, c))
  BY <1>1, HandleVoteRespCases
<1> SUFFICES Good(i, s, d, N)
  OBVIOUS
<1> HIDE DEF c, s
<1>4. CASE s = r \/ (Asked(r, m) /\ s = c)
  BY <1>2, <1>4
<1>5. CASE Asked(r, m) /\ s = BecomeFollower(c, c.Term, None)
  BY <1>2, <1>5, StepDownKeepsInv
<1>6. CASE r.state = "PreCandidate" /\ Asked(r, m) /\ s = CampaignElection(i, c, FALSE)
  BY <1>2, <1>6, CampaignElectionKeepsInv
<1>7. CASE /\ r.state = "Candidate" /\ Asked(r, m) /\ TallyVotes(c) = "VoteWon"
            /\ s = BcastAppend(i, BecomeLeader(i, c))
  <2> DEFINE l == BecomeLeader(i, c)
  <2>1. Good(i, l, d, N) /\ l.state = "Leader"
    <3>1. c.state = "Candidate"
      BY <1>2, <1>7 DEF Turns
    <3> QED BY <1>2, <1>7, <3>1, BecomeLeaderKeepsInv
  <2> HIDE DEF l
  <2>2. StructOK(l)
    BY <2>1 DEF Good
  <2>3. Quiet(i, l, BcastAppend(i, l))
    BY <2>1, <2>2, BcastAppendQuiet
  <2>4. Good(i, BcastAppend(i, l), d, N)
    BY <2>1, <2>3, QuietKeepsInv
  <2> QED BY <1>7, <2>4 DEF l
<1> QED BY <1>3, <1>4, <1>5, <1>6, <1>7

-----------------------------------------------------------------------------
(* Steps of the system *)

\* A message of the leader, a MsgVote or a MsgVoteResp that passes the term check is of the term
\* the server is in once it has observed it (raft.go:861-906).
LEMMA ObservedTerm ==
    ASSUME NEW i \in Server, NEW m \in Message, StructOK(node[i]), m.term >= node[i].Term,
           m.type # "MsgPreVote", m.type # "MsgPreVoteResp"
    PROVE  Observe(node[i], m).Term = m.term
<1>1. node[i].Term \in Nat /\ m.term \in Nat
  BY StructFields DEF Message
<1>2. CASE m.term > node[i].Term
  BY <1>2, ObserveTurns DEF AdoptsTerm, Turns
<1>3. CASE m.term = node[i].Term
  BY <1>1, <1>3, ObserveTurns DEF AdoptsTerm
<1> QED BY <1>1, <1>2, <1>3

\* Every step but Ready, Compact and Restart keeps the invariant of its server.
LEMMA StepsKeepInv ==
    ASSUME TypeInv, ElectionInv, NEW i \in Server,
           \/ Hup(i) \/ LeaseExpires(i) \/ Beat(i) \/ LeaderTimeout(i) \/ Propose(i)
           \/ \E to \in MayTransferTo : TransferLeader(i, to)
           \/ \E to \in Server \ {i} : ReportUnreachable(i, to)
           \/ \E to \in Server \ {i}, failed \in BOOLEAN : ReportSnapshot(i, to, failed)
           \/ \E m \in {n \in net : n.to = i} : Step(i, m)
    PROVE  \E s : Update(i, s) /\ Good(i, s, disk[i], net)
<1> DEFINE r == node[i]
           Ok(s) == Good(i, s, disk[i], net)
<1> SUFFICES \E s : Update(i, s) /\ Ok(s)
  OBVIOUS
<1>1. StructOK(r) /\ scenario \in Scenarios /\ Ok(r)
  BY DEF TypeInv, ElectionInv, Good
<1>2. ASSUME NEW t, Ok(t), QuietUpdate(i, t) PROVE \E s : Update(i, s) /\ Ok(s)
  <2>1. PICK s : Update(i, s) /\ Quiet(i, t, s)
    BY <1>2 DEF QuietUpdate
  <2>2. Ok(s)
    BY <1>2, <2>1, QuietKeepsInv
  <2> QED BY <2>1, <2>2
<1>3. CASE Hup(i)
  <2>1. Update(i, CampaignPreElection(i, r)) \/ Update(i, CampaignElection(i, r, FALSE))
    BY <1>3 DEF Hup
  <2> QED BY <1>1, <2>1, CampaignElectionKeepsInv, CampaignPreElectionKeepsInv
<1>4. CASE LeaderTimeout(i)
  <2>1. Ok(BecomeFollower(r, r.Term, None))
    BY <1>1, StepDownKeepsInv
  <2> HIDE DEF Ok
  <2> QED BY <1>1, <1>2, <1>4, <2>1, LeaderTimeoutQuiet
<1>5. CASE \/ LeaseExpires(i) \/ Beat(i) \/ Propose(i)
           \/ \E to \in MayTransferTo : TransferLeader(i, to)
           \/ \E to \in Server \ {i} : ReportUnreachable(i, to)
           \/ \E to \in Server \ {i}, failed \in BOOLEAN : ReportSnapshot(i, to, failed)
  <2> HIDE DEF Ok
  <2> QED BY <1>1, <1>2, <1>5, LocalActionsQuiet
<1>6. ASSUME NEW m \in net, m.to = i, Step(i, m) PROVE \E s : Update(i, s) /\ Ok(s)
  <2> DEFINE q == Observe(r, m)
             f == Follow(q, m)
  <2>1. m \in Message /\ SnapshotComplete(m) /\ m.from \in Server
    BY NetMessage DEF Message
  <2>2. Ok(q) /\ StructOK(q)
    <3>1. Ok(q)
      BY <1>1, <2>1, ObserveKeepsInv
    <3> QED BY <3>1 DEF Good
  <2>3. m.type \notin {"MsgPreVote", "MsgPreVoteResp"} /\ m.term >= r.Term => q.Term = m.term
    BY <1>1, <2>1, ObservedTerm
  <2> HIDE DEF q
  <2>4. CASE StepLowerTerm(i, m) \/ StepProp(i, m)
    <3> HIDE DEF Ok
    <3> QED BY <1>1, <1>2, <2>1, <2>4, LocalActionsQuiet
  <2>5. CASE StepAppResp(i, m) \/ StepHeartbeatResp(i, m) \/ StepTransferLeader(i, m)
    <3> HIDE DEF Ok
    <3> QED BY <1>1, <1>2, <2>1, <2>2, <2>5, AnswersQuiet DEF q
  <2>6. CASE StepApp(i, m) \/ StepHeartbeat(i, m) \/ StepSnap(i, m)
    <3>1. m.type \in {"MsgApp", "MsgHeartbeat", "MsgSnap"} /\ m.term >= r.Term
      BY <2>6 DEF StepApp, StepHeartbeat, StepSnap, Receives
    <3>2. Ok(f)
      BY <2>1, <2>2, <2>3, <3>1, FollowKeepsInv
    <3>3. StructOK(f)
      BY <3>2 DEF Good
    <3> HIDE DEF Ok, f
    <3> QED BY <1>1, <1>2, <2>1, <2>6, <3>2, <3>3, LeaderMessagesQuiet DEF q, f
  <2>7. CASE StepVote(i, m)
    <3>1. /\ Update(i, HandleVote(i, q, m)) /\ m.type \in {"MsgVote", "MsgPreVote"}
          /\ m.term >= r.Term
      BY <2>7 DEF StepVote, Receives, q
    <3>2. Ok(HandleVote(i, q, m))
      BY <2>1, <2>2, <2>3, <3>1, HandleVoteKeepsInv
    <3> QED BY <3>1, <3>2
  <2>8. CASE StepVoteResp(i, m)
    <3>1. Update(i, HandleVoteResp(i, q, m)) /\ m.term >= r.Term
      BY <2>8 DEF StepVoteResp, Receives, q
    <3>2. Ok(HandleVoteResp(i, q, m))
      BY <1>1, <1>6, <2>2, <2>3, <3>1, HandleVoteRespKeepsInv
    <3> QED BY <3>1, <3>2
  <2>9. CASE StepTimeoutNow(i, m)
    <3>1. Update(i, CampaignElection(i, q, TRUE)) \/ Update(i, q)
      BY <2>9 DEF StepTimeoutNow, q
    <3>2. Ok(CampaignElection(i, q, TRUE))
      BY <2>2, CampaignElectionKeepsInv
    <3> QED BY <2>2, <3>1, <3>2
  <2> HIDE DEF Ok
  <2> QED BY <1>6, <2>4, <2>5, <2>6, <2>7, <2>8, <2>9 DEF Step
<1> HIDE DEF Ok
<1>7. CASE \E m \in {n \in net : n.to = i} : Step(i, m)
  <2>1. PICK m \in net : m.to = i /\ Step(i, m)
    BY <1>7
  <2> QED BY <1>6, <2>1
<1> QED BY <1>3, <1>4, <1>5, <1>7

\* The messages of one server reach the network: nothing changes for the others.
LEMMA OthersKeepInv ==
    ASSUME TypeInv, ElectionInv, NEW i \in Server, OthersKeep(i), NEW M,
           \A m \in M : TellsVote(m) => m.from = i,
           net' = net \cup M, NEW j \in Server, j # i
    PROVE  ServerInv(j, node'[j], disk'[j], net')
<1>1. node'[j] = node[j] /\ disk'[j] = disk[j]
  BY DEF OthersKeep, TypeInv
<1>2. net \subseteq net'
  OBVIOUS
<1>3. CampaignInv(j, node[j], net')
  <2>1. \A p, t : Granted(net, p, j, t) => Granted(net', p, j, t)
    BY <1>2 DEF Granted
  <2>2. \A t : Elected(net, j, t) => Elected(net', j, t)
    BY <1>2, ElectedMonotone
  <2>3. CampaignInv(j, node[j], net)
    BY DEF ElectionInv, ServerInv
  <2> QED BY <2>1, <2>2, <2>3 DEF CampaignInv
<1>4. OutboxInv(j, node[j], net')
  BY <1>2, ElectedMonotone DEF ElectionInv, ServerInv, OutboxInv
<1>5. SentInv(j, disk[j], net') /\ OneVote(j, node[j].msgs \cup net')
  BY DEF ElectionInv, ServerInv, SentInv, OneVote
<1> QED BY <1>1, <1>3, <1>4, <1>5 DEF ElectionInv, ServerInv

\* Ready: the votes are on disk before anyone hears of them (rawnode.go:122-163).
LEMMA PersistKeepsInv ==
    ASSUME TypeInv, ElectionInv, NEW i \in Server, OthersKeep(i), NEW r, Good(i, r, disk[i], net),
           node'[i] = Advanced(r), disk'[i] = HardState(r), net' = net \cup r.msgs
    PROVE  ElectionInv' /\ PastDisk(disk'[i], disk[i])
<1> DEFINE s == Advanced(r)
           e == HardState(r)
           d == disk[i]
<1>1. StructOK(r) /\ DiskOK(d) /\ net \subseteq Message /\ ServerInv(i, r, d, net)
  BY DEF Good
<1>2. /\ s.Term = r.Term /\ s.Vote = r.Vote /\ s.state = r.state /\ s.votes = r.votes /\ s.msgs = {}
      /\ e.Term = r.Term /\ e.Vote = r.Vote
  BY <1>1, AdvancedType, HardStateType
<1> HIDE DEF s, e, d
<1>3. net \subseteq net' /\ net' \subseteq Message
  BY <1>1, StructFields
<1>4. ServerInv(i, s, e, net')
  <2>1. PastDisk(s, e)
    BY <1>2 DEF PastDisk
  <2>2. CampaignInv(i, s, net')
    BY <1>1, <1>2, <1>3, ElectedMonotone DEF ServerInv, CampaignInv, Granted
  <2>3. OutboxInv(i, s, net')
    BY <1>2 DEF OutboxInv
  <2>4. SentInv(i, e, net')
    <3> SUFFICES ASSUME NEW m \in net', TellsVote(m), m.from = i PROVE Holds(e, m)
      BY DEF SentInv
    <3>1. Holds(r, m)
      <4>1. CASE m \in r.msgs
        BY <1>1, <4>1 DEF ServerInv, OutboxInv
      <4>2. CASE m \in net
        BY <1>1, <4>2, DiskVoteHeld DEF ServerInv, SentInv
      <4> QED BY <4>1, <4>2
    <3> QED BY <1>2, <3>1 DEF Holds
  <2>5. OneVote(i, s.msgs \cup net')
    BY <1>1, <1>2 DEF ServerInv, OneVote
  <2> QED BY <2>1, <2>2, <2>3, <2>4, <2>5 DEF ServerInv
<1>5. \A m \in r.msgs : TellsVote(m) => m.from = i
  BY <1>1 DEF ServerInv, OutboxInv
<1>6. ASSUME NEW j \in Server PROVE ServerInv(j, node'[j], disk'[j], net')
  BY <1>4, <1>5, OthersKeepInv DEF s, e
<1>7. NetInv(net')
  <2> SUFFICES ASSUME NEW m \in net', FromLeader(m) PROVE Elected(net', m.from, m.term)
    BY DEF NetInv
  <2>1. CASE m \in net
    BY <1>3, <2>1, ElectedMonotone DEF ElectionInv, NetInv
  <2>2. CASE m \in r.msgs
    BY <1>1, <1>3, <1>5, <2>2, ElectedMonotone DEF ServerInv, OutboxInv, TellsVote
  <2> QED BY <2>1, <2>2
<1>8. PastDisk(e, d)
  BY <1>1, <1>2 DEF ServerInv, PastDisk
<1> QED BY <1>6, <1>7, <1>8 DEF ElectionInv, e, d

\* No change of the disk: term and vote stay.
LEMMA VolatileKeepsInv ==
    ASSUME TypeInv, ElectionInv, NEW i \in Server, OthersKeep(i), net' = net,
           ServerInv(i, node'[i], disk'[i], net)
    PROVE  ElectionInv'
<1>1. ASSUME NEW j \in Server PROVE ServerInv(j, node'[j], disk'[j], net')
  <2> DEFINE none == {}
  <2>1. net' = net \cup none /\ \A m \in none : TellsVote(m) => m.from = i
    OBVIOUS
  <2> HIDE DEF none
  <2>2. CASE j = i
    BY <2>2
  <2>3. CASE j # i
    BY <2>1, <2>3, OthersKeepInv
  <2> QED BY <2>2, <2>3
<1> QED BY <1>1 DEF ElectionInv

\* No vote is cast or asked for when a group starts from empty disks.
LEMMA ElectionInvInit == Init => ElectionInv
<1> SUFFICES ASSUME Init PROVE ElectionInv
  OBVIOUS
<1> DEFINE d == EmptyDisk
           s == FromDisk(d)
<1>1. DiskOK(d)
  BY DEF DiskOK, Disk, EmptyDisk
<1>2. s.Term = d.Term /\ s.Vote = d.Vote /\ s.state = "Follower" /\ s.msgs = {}
  BY <1>1, FromDiskType
<1>3. node = [i \in Server |-> s] /\ disk = [i \in Server |-> d] /\ net = {}
  BY DEF Init
<1> HIDE DEF s, d
<1>4. ASSUME NEW i \in Server PROVE ServerInv(i, s, d, {})
  BY <1>2 DEF ServerInv, PastDisk, CampaignInv, OutboxInv, SentInv, OneVote
<1> QED BY <1>3, <1>4 DEF ElectionInv, NetInv

\* Every step keeps the invariant, and no disk falls back behind its term or changes its vote.
LEMMA ElectionInvNext ==
    ASSUME TypeInv, ElectionInv, [Next]_vars
    PROVE  ElectionInv' /\ \A j \in Server : PastDisk(disk'[j], disk[j])
<1>a. \A j \in Server : PastDisk(disk[j], disk[j])
  BY DEF PastDisk
<1>1. CASE UNCHANGED vars
  BY <1>a, <1>1 DEF vars, ElectionInv
<1>2. CASE Next
  <2>1. PICK i \in Server :
            \/ Hup(i) \/ LeaseExpires(i) \/ Beat(i) \/ LeaderTimeout(i) \/ Propose(i)
            \/ \E to \in MayTransferTo : TransferLeader(i, to)
            \/ \E to \in Server \ {i} : ReportUnreachable(i, to)
            \/ \E to \in Server \ {i}, failed \in BOOLEAN : ReportSnapshot(i, to, failed)
            \/ \E m \in {n \in net : n.to = i} : Step(i, m)
            \/ Ready(i) \/ Compact(i) \/ Restart(i)
    BY <1>2 DEF Next
  <2>2. Good(i, node[i], disk[i], net)
    BY DEF TypeInv, ElectionInv, Good
  <2>3. OthersKeep(i) /\ PastDisk(disk'[i], disk[i]) => \A j \in Server : PastDisk(disk'[j], disk[j])
    BY <1>a DEF OthersKeep, TypeInv
  <2>4. CASE Ready(i)
    BY <2>2, <2>3, <2>4, ReadyType, PersistKeepsInv
  <2>5. CASE Compact(i)
    <3>1. /\ OthersKeep(i) /\ net' = net /\ Quiet(i, node[i], node'[i])
          /\ disk'[i].Term = disk[i].Term /\ disk'[i].Vote = disk[i].Vote
      BY <2>5, CompactType
    <3>2. Good(i, node'[i], disk[i], net)
      BY <2>2, <3>1, QuietKeepsInv
    <3>3. ServerInv(i, node'[i], disk'[i], net) /\ PastDisk(disk'[i], disk[i])
      BY <3>1, <3>2 DEF Good, ServerInv, PastDisk, SentInv, Holds
    <3> QED BY <2>3, <3>1, <3>3, VolatileKeepsInv
  <2>6. CASE Restart(i)
    <3> DEFINE d == disk[i]
               s == FromDisk(d)
    <3>1. OthersKeep(i) /\ node'[i] = s /\ disk'[i] = d /\ net' = net
      BY <2>6, RestartType
    <3>2. DiskOK(d)
      BY DEF TypeInv
    <3>3. s.Term = d.Term /\ s.Vote = d.Vote /\ s.state = "Follower" /\ s.msgs = {}
      BY <3>2, FromDiskType
    <3> HIDE DEF s
    <3>4. ServerInv(i, s, d, net)
      BY <2>2, <3>3 DEF Good, ServerInv, PastDisk, CampaignInv, OutboxInv, OneVote
    <3> QED BY <1>a, <2>3, <3>1, <3>4, VolatileKeepsInv
  <2>7. CASE ~(Ready(i) \/ Compact(i) \/ Restart(i))
    <3>1. PICK r : Update(i, r) /\ Good(i, r, disk[i], net)
      BY <2>1, <2>7, StepsKeepInv
    <3>2. OthersKeep(i)
      BY <3>1, UpdateEffect
    <3>3. CASE node'[i] = r /\ disk'[i] = disk[i] /\ net' = net
      BY <1>a, <2>3, <3>1, <3>2, <3>3, VolatileKeepsInv DEF Good
    <3>4. CASE node'[i] = Advanced(r) /\ disk'[i] = HardState(r) /\ net' = net \cup r.msgs
      BY <2>3, <3>1, <3>2, <3>4, PersistKeepsInv
    <3> QED BY <3>1, <3>3, <3>4, UpdateEffect
  <2> QED BY <2>4, <2>5, <2>6, <2>7
<1> QED BY <1>1, <1>2

\* Whatever arrives, is lost or repeated, and whenever a server restarts: a term and a vote in memory
\* are those on disk or newer, a candidate counts only votes that were sent, and a vote is sent only
\* once it is on disk (raft.go:388-422, 843-870, 935-957; rawnode.go:105-166).
THEOREM ElectionInvariant == Spec => [](TypeInv /\ ElectionInv)
<1>1. Init => TypeInv /\ ElectionInv
  BY TypeInvInit, ElectionInvInit
<1>2. TypeInv /\ ElectionInv /\ [Next]_vars => (TypeInv /\ ElectionInv)'
  BY TypeInvNext, ElectionInvNext
<1> QED BY <1>1, <1>2, PTL DEF Spec

-----------------------------------------------------------------------------
(* Theorems *)

\* A granted vote that left its server is on that server's disk, or the disk is past its term:
\* no crash lets it vote twice (raft.go:378-380).
THEOREM VotesAreDurable == Spec => []VotesDurable
<1>1. TypeInv /\ ElectionInv => VotesDurable
  <2> SUFFICES ASSUME TypeInv, ElectionInv, NEW m \in net, m.type = "MsgVoteResp", ~m.reject
               PROVE  \/ disk[m.from].Term > m.term
                      \/ disk[m.from].Term = m.term /\ disk[m.from].Vote = m.to
    BY DEF VotesDurable
  <2>1. m.from \in Server
    BY NetMessage DEF Message
  <2>2. TellsVote(m) /\ Choice(m) = m.to
    BY DEF TellsVote, Grants, Choice, FromLeader
  <2> QED BY <2>1, <2>2 DEF ElectionInv, ServerInv, SentInv, Holds
<1> QED BY <1>1, ElectionInvariant, PTL

\* Who leads term t, or is known as its leader from a message, was elected, and granted no vote
\* of t to anyone else.
LEMMA LeadersAreElected ==
    ASSUME TypeInv, ElectionInv, NEW t, NEW i \in LeadersOf(t)
    PROVE  /\ i \in Server /\ Elected(net, i, t)
           /\ \A m \in net : Grants(m) /\ m.from = i /\ m.term = t => m.to = i
<1>1. CASE i \in Server /\ node[i].state = "Leader" /\ node[i].Term = t
  <2>1. Good(i, node[i], disk[i], net)
    BY <1>1 DEF TypeInv, ElectionInv, Good
  <2>2. Elected(net, i, t) /\ node[i].Vote = i
    BY <1>1, <2>1 DEF Good, ServerInv, CampaignInv
  <2>3. ASSUME NEW m \in net, Grants(m), m.from = i, m.term = t PROVE m.to = i
    <3>1. TellsVote(m) /\ Choice(m) = m.to
      BY <2>3 DEF TellsVote, Choice, Grants, FromLeader
    <3> QED BY <1>1, <2>1, <2>2, <2>3, <3>1, TellsOwnVote
  <2> QED BY <1>1, <2>2, <2>3
<1>2. CASE \E n \in net : FromLeader(n) /\ n.term = t /\ n.from = i
  <2>1. PICK n \in net : FromLeader(n) /\ n.term = t /\ n.from = i
    BY <1>2
  <2>2. i \in Server /\ Elected(net, i, t)
    BY <2>1, NetMessage DEF ElectionInv, NetInv, Message
  <2>3. ASSUME NEW m \in net, Grants(m), m.from = i, m.term = t PROVE m.to = i
    <3>1. TellsVote(m) /\ Choice(m) = m.to /\ TellsVote(n) /\ Choice(n) = i
      BY <2>1, <2>3 DEF TellsVote, Choice, Grants, FromLeader
    <3> QED BY <2>1, <2>2, <2>3, <3>1 DEF ElectionInv, ServerInv, OneVote
  <2> QED BY <2>2, <2>3
<1> QED BY <1>1, <1>2 DEF LeadersOf

\* At most one server ever leads a term: two quorums share a server, and that server voted once
\* (raft.go:918-966, 1395-1405).
THEOREM OneLeaderPerTerm == Spec => []ElectionSafety
<1>1. TypeInv /\ ElectionInv => ElectionSafety
  <2> SUFFICES ASSUME TypeInv, ElectionInv, NEW t \in 1..MaxTerm PROVE Cardinality(LeadersOf(t)) <= 1
    BY DEF ElectionSafety
  <2>1. ASSUME NEW i \in LeadersOf(t), NEW j \in LeadersOf(t) PROVE i = j
    <3>1. /\ i \in Server /\ Elected(net, i, t)
          /\ \A m \in net : Grants(m) /\ m.from = i /\ m.term = t => m.to = i
      BY LeadersAreElected
    <3>2. /\ j \in Server /\ Elected(net, j, t)
          /\ \A m \in net : Grants(m) /\ m.from = j /\ m.term = t => m.to = j
      BY LeadersAreElected
    <3>3. PICK p \in Server : p \in Voters(net, i, t) /\ p \in Voters(net, j, t)
      BY <3>1, <3>2, ServerAssumption, QuorumsIntersect DEF Elected
    <3>4. CASE p = i
      BY <3>1, <3>3, <3>4 DEF Voters, Granted
    <3>5. CASE p = j
      BY <3>2, <3>3, <3>5 DEF Voters, Granted
    <3>6. CASE p # i /\ p # j
      <4>1. PICK m \in net : Grants(m) /\ m.from = p /\ m.to = i /\ m.term = t
        BY <3>3, <3>6 DEF Voters, Granted
      <4>2. PICK n \in net : Grants(n) /\ n.from = p /\ n.to = j /\ n.term = t
        BY <3>3, <3>6 DEF Voters, Granted
      <4>3. TellsVote(m) /\ Choice(m) = i /\ TellsVote(n) /\ Choice(n) = j
        BY <4>1, <4>2 DEF TellsVote, Choice, Grants, FromLeader
      <4>4. OneVote(p, node[p].msgs \cup net)
        BY DEF ElectionInv, ServerInv
      <4> QED BY <4>1, <4>2, <4>3, <4>4 DEF OneVote
    <3> QED BY <3>4, <3>5, <3>6
  <2>2. CASE LeadersOf(t) = {}
    BY <2>2, FS_EmptySet
  <2>3. CASE LeadersOf(t) # {}
    <3>1. PICK i \in LeadersOf(t) : TRUE
      BY <2>3
    <3>2. LeadersOf(t) = {i}
      BY <2>1, <3>1
    <3> QED BY <3>2, FS_Singleton
  <2> QED BY <2>2, <2>3
<1> QED BY <1>1, ElectionInvariant, PTL

\* Term, commit index and compaction point on disk never go back, and a vote is not changed
\* within a term (raft.go:584-588, 1530-1533, log.go:233-241).
THEOREM HardStateIsMonotonic == Spec => HardStateMonotonic
<1>1. TypeInv /\ ElectionInv /\ [Next]_vars =>
        [\A i \in Server :
            /\ disk'[i].Term >= disk[i].Term
            /\ disk'[i].Commit >= disk[i].Commit
            /\ disk'[i].offset >= disk[i].offset
            /\ disk'[i].Term = disk[i].Term /\ disk[i].Vote # None => disk'[i].Vote = disk[i].Vote]_vars
  <2> SUFFICES ASSUME TypeInv, ElectionInv, [Next]_vars, NEW i \in Server
               PROVE  /\ disk'[i].Term >= disk[i].Term
                      /\ disk'[i].Commit >= disk[i].Commit
                      /\ disk'[i].offset >= disk[i].offset
                      /\ disk'[i].Term = disk[i].Term /\ disk[i].Vote # None => disk'[i].Vote = disk[i].Vote
    OBVIOUS
  <2>1. PastDisk(disk'[i], disk[i])
    BY ElectionInvNext
  <2>2. disk'[i].Commit >= disk[i].Commit /\ disk'[i].offset >= disk[i].offset
    BY IndexesMonotonic
  <2>3. disk[i].Term \in Nat /\ disk'[i].Term \in Nat
    <3>1. TypeInv'
      BY TypeInvNext
    <3> QED BY <3>1 DEF TypeInv, DiskOK, Disk
  <2> QED BY <2>1, <2>2, <2>3 DEF PastDisk
<1> QED BY <1>1, ElectionInvariant, PTL DEF Spec, HardStateMonotonic

-----------------------------------------------------------------------------
(* The inductive invariant about logs.  Its parts take the state r of a    *)
(* server, its disk d, the network N and the set K of all entries there    *)
(* ever were, with their indexes, as arguments.                            *)

\* A group of one server sends no messages.
Several == \E a, b \in Server : a # b

\* c asked for votes in term t.
Asks(q, c, t) == q.type = "MsgVote" /\ q.from = c /\ q.term = t

TermAt(log, k) == IF k = 0 THEN 0 ELSE log[k].term

\* An entry of term t at index x stands behind one of term p.
Behind(N, x, t, p) ==
    \E q \in N : /\ Asks(q, q.from, t) /\ Elected(N, q.from, t)
                 /\ x > q.index /\ p = IF x = q.index + 1 THEN q.logTerm ELSE t

Valid(N, log) == \A x \in 1..Len(log) : Behind(N, x, log[x].term, TermAt(log, x - 1))

\* The entries of a MsgApp start behind its index, those of a snapshot at the start.
Anchor(m) == IF m.type = "MsgApp" THEN m.index ELSE 0
AnchorTerm(m) == IF m.type = "MsgApp" THEN m.logTerm ELSE 0

ValidMsg(N, m) ==
    \A k \in 1..Len(m.entries) :
        Behind(N, Anchor(m) + k, m.entries[k].term, IF k = 1 THEN AnchorTerm(m) ELSE m.entries[k - 1].term)

InLog(log, x, e) == x \in 1..Len(log) /\ log[x] = e
InMsg(m, x, e) == \E k \in 1..Len(m.entries) : x = Anchor(m) + k /\ m.entries[k] = e

\* A message that any server may send: its entries are known, and it asks for no votes; a vote
\* answers a request.
Answered(N, m) == Grants(m) => \E q \in N : Asks(q, m.to, m.term)
Known(N, K, m) == ValidMsg(N, m) /\ (\A x, e : InMsg(m, x, e) => <<x, e>> \in K) /\ Answered(N, m)

\* Logs and messages of one server
LogInv(r, d, N, K) ==
    /\ Valid(N, r.log) /\ Valid(N, d.log)
    /\ \A x, e : InLog(r.log, x, e) \/ InLog(d.log, x, e) => <<x, e>> \in K
    /\ \A m \in r.msgs : Known(N, K, m)

\* All requests for votes of one term are about the same log, and a candidate still has it.
AskInv(i, r, N) ==
    /\ \A t : \A q, n \in r.msgs \cup N :
          Asks(q, i, t) /\ Asks(n, i, t) => q.index = n.index /\ q.logTerm = n.logTerm
    /\ r.state = "Candidate" => \A q \in r.msgs \cup N :
          Asks(q, i, r.Term) => q.index = Len(r.log) /\ q.logTerm = TermAt(r.log, Len(r.log))

\* An elected candidate is the first to append in its term.
CandidateInv(i, r, N, K) ==
    r.state = "Candidate" /\ Elected(N, i, r.Term) => \A x, e : <<x, e>> \in K => e.term # r.Term

\* A leader has all there is of its term.
LeaderInv(r, K) ==
    r.state = "Leader" => /\ Len(r.log) > 0 /\ r.log[Len(r.log)].term = r.Term
                          /\ \A x, e : <<x, e>> \in K /\ e.term = r.Term => InLog(r.log, x, e)

ReplicaInv(i, r, d, N, K) ==
    LogInv(r, d, N, K) /\ AskInv(i, r, N) /\ CandidateInv(i, r, N, K) /\ LeaderInv(r, K)

NetLogInv(N, K) == \A m \in N : Known(N, K, m)

\* There is one entry of a term at an index, and a leader of that term.
EntriesInv(N, K) ==
    /\ \A x, e, f : <<x, e>> \in K /\ <<x, f>> \in K /\ e.term = f.term => e = f
    /\ \A x, e : <<x, e>> \in K => \E c \in Server : Elected(N, c, e.term)

LogsHold(K) == /\ \A i \in Server : ReplicaInv(i, node[i], disk[i], net, K)
               /\ NetLogInv(net, K) /\ EntriesInv(net, K)

LogsInv == Several => \E K : LogsHold(K)

\* The same for one server, with what is known of elections.
Fit(i, r, d, N, K) ==
    /\ Good(i, r, d, N) /\ ReplicaInv(i, r, d, N, K) /\ NetLogInv(N, K) /\ EntriesInv(N, K)

-----------------------------------------------------------------------------
(* Steps that leave the log alone *)

\* A MsgApp holds the entries from some index on, and the term before them; one that starts
\* beyond the log holds nothing. A snapshot holds the log up to its index.
QuotesApp(log, m) ==
    \/ m.index > Len(log) /\ m.entries = <<>>
    \/ /\ m.index + Len(m.entries) <= Len(log) /\ m.logTerm = TermAt(log, m.index)
       /\ \A k \in 1..Len(m.entries) : m.entries[k] = log[m.index + k]
QuotesSnap(log, m) ==
    /\ m.index = Len(m.entries) /\ m.index \in 1..Len(log) /\ m.logTerm = TermAt(log, m.index)
    /\ \A k \in 1..Len(m.entries) : m.entries[k] = log[k]

\* What a server may say without a change of its log: as a leader, what its log holds.
Speaks(r, m) ==
    /\ m.type = "MsgApp" => QuotesApp(r.log, m) /\ m.commit <= r.committed
    /\ m.type = "MsgSnap" => QuotesSnap(r.log, m) /\ m.index <= r.committed
    /\ m.type \notin {"MsgApp", "MsgSnap"} => m.entries = <<>>
    /\ m.type \notin {"MsgVote", "MsgHeartbeat"}
    /\ m.type = "MsgAppResp" => m.index = 0

Stays(r, s) ==
    /\ s.log = r.log /\ s.committed >= r.committed
    /\ \A m \in s.msgs : m \in r.msgs \/ Speaks(s, m)

\* A message that has nothing to do with the log, or rejects a MsgApp.
LEMMA SpeaksOther ==
    ASSUME NEW r, NEW m, m.entries = <<>>,
           m.type \notin {"MsgApp", "MsgSnap", "MsgVote", "MsgHeartbeat", "MsgAppResp"}
    PROVE  Speaks(r, m)
BY DEF Speaks

\* What was said of a log can still be said when more is committed.
LEMMA StaysTransitive ==
    ASSUME NEW r, NEW s, NEW t, StructOK(r), StructOK(s), StructOK(t), Stays(r, s), Stays(s, t)
    PROVE  Stays(r, t)
<1>1. r.committed \in Nat /\ s.committed \in Nat /\ t.committed \in Nat
  BY StructFields
<1>2. t.log = r.log /\ t.committed >= r.committed
  BY <1>1 DEF Stays
<1>3. ASSUME NEW m \in t.msgs, m \notin r.msgs PROVE Speaks(t, m)
  <2>1. CASE m \in s.msgs
    <3>1. Speaks(s, m) /\ m \in Message
      BY <1>3, <2>1, StructFields DEF Stays
    <3>2. m.commit \in Nat /\ m.index \in Nat
      BY <3>1 DEF Message
    <3> QED BY <1>1, <3>1, <3>2 DEF Stays, Speaks
  <2>2. CASE m \notin s.msgs
    BY <2>2 DEF Stays
  <2> QED BY <2>1, <2>2
<1> QED BY <1>2, <1>3 DEF Stays

\* Nothing is said, and the log stays.
LEMMA StaysIf ==
    ASSUME NEW r, NEW s, StructOK(r), s.log = r.log, s.committed = r.committed, s.msgs = r.msgs
    PROVE  Stays(r, s)
BY StructFields DEF Stays

\* Progress, timers and the transfer target are no part of the log.
LEMMA FieldsStay ==
    ASSUME NEW r, StructOK(r), NEW prs, NEW e, NEW l, NEW t
    PROVE  /\ Stays(r, r) /\ Stays(r, Panic(r))
           /\ Stays(r, [r EXCEPT !.prs = prs])
           /\ Stays(r, [r EXCEPT !.electionElapsed = e, !.lead = l, !.leadTransferee = t])
<1> DEFINE s1 == Panic(r)
           s2 == [r EXCEPT !.prs = prs]
           s3 == [r EXCEPT !.electionElapsed = e, !.lead = l, !.leadTransferee = t]
<1>1. r \in RaftStruct
  BY DEF StructOK
<1>2. s1.log = r.log /\ s1.committed = r.committed /\ s1.msgs = r.msgs
  BY <1>1 DEF RaftStruct, Panic
<1>3. s2.log = r.log /\ s2.committed = r.committed /\ s2.msgs = r.msgs
  BY <1>1 DEF RaftStruct
<1>4. s3.log = r.log /\ s3.committed = r.committed /\ s3.msgs = r.msgs
  BY <1>1 DEF RaftStruct
<1> HIDE DEF s1, s2, s3
<1>5. Stays(r, r) /\ Stays(r, s1) /\ Stays(r, s2) /\ Stays(r, s3)
  BY <1>2, <1>3, <1>4, StaysIf
<1> QED BY <1>5 DEF s1, s2, s3

\* The progress of one peer.
LEMMA ProgressStays ==
    ASSUME NEW r, StructOK(r), NEW to \in Server, NEW pr
    PROVE  Stays(r, [r EXCEPT !.prs[to] = pr])
<1> DEFINE prs == [r.prs EXCEPT ![to] = pr]
<1>1. [r EXCEPT !.prs[to] = pr] = [r EXCEPT !.prs = prs]
  BY DEF StructOK, RaftStruct
<1> HIDE DEF prs
<1> QED BY <1>1, FieldsStay

\* send() (raft.go:388-422)
LEMMA SendsStay ==
    ASSUME NEW r, StructOK(r), NEW M, \A m \in M : Speaks(r, m)
    PROVE  Stays(r, [r EXCEPT !.msgs = r.msgs \cup M])
<1> DEFINE all == r.msgs \cup M
           s == [r EXCEPT !.msgs = all]
<1> HIDE DEF all
<1>1. s.log = r.log /\ s.committed = r.committed /\ s.msgs = all
  BY DEF StructOK, RaftStruct
<1> HIDE DEF s
<1>2. \A m : Speaks(r, m) => Speaks(s, m)
  BY <1>1 DEF Speaks
<1>3. r.committed \in Nat
  BY StructFields
<1>4. Stays(r, s)
  BY <1>1, <1>2, <1>3 DEF Stays, all
<1> QED BY <1>4 DEF s, all

\* send() of one message
LEMMA SendStays ==
    ASSUME NEW r, StructOK(r), NEW m, Speaks(r, m)
    PROVE  Stays(r, Send(r, m))
<1>1. Stays(r, [r EXCEPT !.msgs = r.msgs \cup {m}])
  BY SendsStay
<1> QED BY <1>1 DEF Send

\* commitTo (log.go:233-241)
LEMMA CommitToStays ==
    ASSUME NEW r, StructOK(r), NEW c \in Nat
    PROVE  Stays(r, CommitTo(r, c))
<1>1. r \in RaftStruct /\ r.committed \in Nat
  BY StructFields DEF StructOK
<1>2. CASE r.committed >= c \/ LastIndex(r) < c
  BY <1>2, FieldsStay DEF CommitTo
<1>3. CASE ~(r.committed >= c) /\ ~(LastIndex(r) < c)
  <2> DEFINE s == [r EXCEPT !.committed = c]
  <2>1. s.log = r.log /\ s.committed = c /\ s.msgs = r.msgs
    BY <1>1 DEF RaftStruct
  <2>2. CommitTo(r, c) = s
    BY <1>3 DEF CommitTo
  <2> HIDE DEF s
  <2> QED BY <1>1, <1>3, <2>1, <2>2 DEF Stays
<1> QED BY <1>2, <1>3

\* maybeCommit (raft.go:579-582)
LEMMA MaybeCommitStays ==
    ASSUME NEW r, StructOK(r)
    PROVE  Stays(r, MaybeCommit(r))
<1>1. JointCommittedIndex(Conf, Acked(r)) \in Nat
  BY AckedIndexType
<1> QED BY <1>1, CommitToStays, FieldsStay DEF MaybeCommit

-----------------------------------------------------------------------------
(* Steps that add nothing to what is known *)

\* A message without entries holds nothing unknown.
LEMMA EmptyIsKnown ==
    ASSUME NEW N, NEW K, NEW m, m.entries = <<>>, Answered(N, m)
    PROVE  Known(N, K, m)
BY DEF Known, ValidMsg, InMsg

\* What a leader quotes from its log stands there behind the same entries.
LEMMA QuoteIsKnown ==
    ASSUME NEW N, NEW K, NEW log \in Seq(Entry), Valid(N, log), \A x, e : InLog(log, x, e) => <<x, e>> \in K,
           NEW r, r.log = log, NEW m \in Message, Speaks(r, m), ~Grants(m)
    PROVE  Known(N, K, m)
<1>1. m.entries \in Seq(Entry) /\ Len(m.entries) \in Nat /\ m.index \in Nat /\ Len(log) \in Nat
  BY DEF Message
<1>2. Answered(N, m)
  BY DEF Answered
<1>3. CASE m.entries = <<>>
  BY <1>2, <1>3, EmptyIsKnown
<1>4. CASE m.entries # <<>>
  <2> DEFINE a == Anchor(m)
  <2>1. /\ a \in Nat /\ a + Len(m.entries) <= Len(log) /\ AnchorTerm(m) = TermAt(log, a)
        /\ \A k \in 1..Len(m.entries) : m.entries[k] = log[a + k]
    <3>1. CASE m.type = "MsgApp"
      BY <1>1, <1>4, <3>1 DEF Speaks, QuotesApp, Anchor, AnchorTerm
    <3>2. CASE m.type = "MsgSnap"
      BY <1>1, <1>4, <3>2 DEF Speaks, QuotesSnap, Anchor, AnchorTerm, TermAt
    <3> QED BY <1>4, <3>1, <3>2 DEF Speaks
  <2> HIDE DEF a
  <2>2. ASSUME NEW k \in 1..Len(m.entries), NEW x, x = a + k
        PROVE  /\ InLog(log, x, m.entries[k])
               /\ Behind(N, x, m.entries[k].term, IF k = 1 THEN AnchorTerm(m) ELSE m.entries[k - 1].term)
    <3>1. x \in 1..Len(log) /\ m.entries[k] = log[x] /\ x - 1 = a + (k - 1)
      BY <1>1, <2>1, <2>2
    <3>2. (IF k = 1 THEN AnchorTerm(m) ELSE m.entries[k - 1].term) = TermAt(log, x - 1)
      <4>1. CASE k = 1
        <5>1. x - 1 = a
          BY <1>1, <2>1, <3>1, <4>1
        <5> QED BY <2>1, <4>1, <5>1
      <4>2. CASE k # 1
        <5>1. k - 1 \in 1..Len(m.entries) /\ x - 1 # 0
          BY <1>1, <2>1, <3>1, <4>2
        <5> QED BY <2>1, <3>1, <4>2, <5>1 DEF TermAt
      <4> QED BY <4>1, <4>2
    <3>3. Behind(N, x, log[x].term, TermAt(log, x - 1)) /\ InLog(log, x, log[x])
      BY <3>1 DEF Valid, InLog
    <3> QED BY <3>1, <3>2, <3>3
  <2>3. ValidMsg(N, m)
    BY <2>2 DEF ValidMsg, a
  <2>4. \A x, e : InMsg(m, x, e) => <<x, e>> \in K
    BY <2>2 DEF InMsg, a
  <2> QED BY <1>2, <2>3, <2>4 DEF Known
<1> QED BY <1>3, <1>4

\* A step that leaves candidates and leaders as they are, and with it only what is known is said
\* and put into the log.
LEMMA KnownKeepsFit ==
    ASSUME NEW i \in Server, NEW r, NEW s, NEW d, NEW N, NEW K, Fit(i, r, d, N, K), Good(i, s, d, N),
           \/ s.state \in {"Follower", "PreCandidate"}
           \/ s.state = r.state /\ s.Term = r.Term /\ s.log = r.log,
           s.log = r.log \/ (Valid(N, s.log) /\ \A x, e : InLog(s.log, x, e) => <<x, e>> \in K),
           \A m \in s.msgs : m \in r.msgs \/ (Known(N, K, m) /\ m.type # "MsgVote")
    PROVE  Fit(i, s, d, N, K)
<1>1. ReplicaInv(i, r, d, N, K)
  BY DEF Fit
<1>2. LogInv(s, d, N, K)
  BY <1>1 DEF ReplicaInv, LogInv
<1>3. AskInv(i, s, N)
  <2>1. \A q \in s.msgs \cup N : q.type = "MsgVote" => q \in r.msgs \cup N
    OBVIOUS
  <2> QED BY <1>1, <2>1 DEF ReplicaInv, AskInv, Asks
<1>4. CandidateInv(i, s, N, K) /\ LeaderInv(s, K)
  BY <1>1 DEF ReplicaInv, CandidateInv, LeaderInv
<1> QED BY <1>2, <1>3, <1>4 DEF Fit, ReplicaInv

\* A step with no part in elections that leaves the log alone.
Calm(i, r, s) == Quiet(i, r, s) /\ Stays(r, s)

\* Calm steps keep the invariant.
LEMMA CalmKeepsFit ==
    ASSUME NEW i \in Server, NEW r, NEW s, NEW d, NEW N, NEW K, Fit(i, r, d, N, K), Calm(i, r, s)
    PROVE  Fit(i, s, d, N, K)
<1>1. Good(i, r, d, N) /\ ReplicaInv(i, r, d, N, K)
  BY DEF Fit
<1>2. Good(i, s, d, N)
  BY <1>1, QuietKeepsInv DEF Calm
<1>3. r.log \in Seq(Entry) /\ s.log = r.log /\ s.state = r.state /\ s.Term = r.Term
  BY <1>1, StructFields DEF Good, Calm, Stays, Quiet
<1>4. ASSUME NEW m \in s.msgs, m \notin r.msgs PROVE Known(N, K, m) /\ m.type # "MsgVote"
  <2>1. m \in Message /\ ~Grants(m) /\ Speaks(s, m)
    BY <1>4 DEF Calm, Quiet, QuietMessage, Stays
  <2>2. Valid(N, r.log) /\ \A x, e : InLog(r.log, x, e) => <<x, e>> \in K
    BY <1>1 DEF ReplicaInv, LogInv
  <2>3. Known(N, K, m)
    BY <1>3, <2>1, <2>2, QuoteIsKnown
  <2> QED BY <2>1, <2>3 DEF Speaks
<1> QED BY <1>2, <1>3, <1>4, KnownKeepsFit

\* A new term or role that is not that of a candidate or leader (raft.go:584-613, 681-724).
LEMMA TurnKeepsFit ==
    ASSUME NEW i \in Server, NEW r, NEW s, NEW d, NEW N, NEW K, Fit(i, r, d, N, K), Good(i, s, d, N),
           NEW term, NEW vote, NEW state, Turns(r, s, term, vote, state),
           state \in {"Follower", "PreCandidate"} \/ (state = r.state /\ term = r.Term)
    PROVE  Fit(i, s, d, N, K)
<1>1. s.log = r.log /\ s.msgs = r.msgs /\ s.state = state /\ s.Term = term
  BY DEF Turns, SameLog
<1> QED BY <1>1, KnownKeepsFit

-----------------------------------------------------------------------------
(* Calm handlers *)

\* A handler is calm if each of its steps is.
LEMMA CalmTransitive ==
    ASSUME NEW i, NEW r, NEW s, NEW t, StructOK(r), Calm(i, r, s), Calm(i, s, t)
    PROVE  Calm(i, r, t)
<1>1. StructOK(s) /\ StructOK(t)
  BY DEF Calm, Quiet, Grows
<1> QED BY <1>1, QuietTransitive, StaysTransitive DEF Calm

\* A calm step keeps the types and the role.
LEMMA CalmFields ==
    ASSUME NEW i, NEW r, NEW s, Calm(i, r, s)
    PROVE  /\ StructOK(s) /\ s.state = r.state /\ s.Term = r.Term /\ s.log = r.log
           /\ LastIndex(s) = LastIndex(r)
BY DEF Calm, Quiet, Grows, Stays, LastIndex

\* Doing nothing, and a panic.
LEMMA CalmSelf ==
    ASSUME NEW i, NEW r, StructOK(r)
    PROVE  Calm(i, r, r) /\ Calm(i, r, Panic(r))
BY QuietSelf, PanicQuiet, FieldsStay DEF Calm

\* A change of the progress of a peer.
LEMMA CalmProgress ==
    ASSUME NEW i, NEW r, StructOK(r), NEW to \in Server, NEW pr \in ProgressRecord
    PROVE  Calm(i, r, [r EXCEPT !.prs[to] = pr])
BY ProgressQuiet, ProgressStays DEF Calm

\* maybeCommit
LEMMA CalmCommit ==
    ASSUME NEW i, NEW r, StructOK(r)
    PROVE  Calm(i, r, MaybeCommit(r))
BY MaybeCommitQuiet, MaybeCommitStays DEF Calm

\* send() of a message without entries that is no part of an election.
LEMMA CalmSend ==
    ASSUME NEW i \in Server, NEW r, StructOK(r), NEW from \in Server, NEW to \in Server, NEW term \in Nat,
           NEW type \in {"MsgPreVote", "MsgPreVoteResp", "MsgHeartbeatResp", "MsgTimeoutNow",
                         "MsgProp", "MsgTransferLeader"}
    PROVE  Calm(i, r, Send(r, Msg(type, from, to, term)))
<1> DEFINE m == Msg(type, from, to, term)
<1>1. type \in OtherTypes /\ type \in MessageTypes
  BY DEF OtherTypes, MessageTypes
<1>2. QuietMessage(i, r, m)
  BY <1>1, OtherMessageQuiet
<1>3. IsMsg(m, type, from, to, term)
  BY <1>1, MsgType
<1> HIDE DEF m
<1>4. Speaks(r, m)
  BY <1>3, SpeaksOther DEF IsMsg
<1>5. Calm(i, r, Send(r, m))
  BY <1>2, <1>4, SendQuiet, SendStays DEF Calm
<1> QED BY <1>5 DEF m

\* A leader says something of its log.
LEMMA SaysStays ==
    ASSUME NEW r, StructOK(r), NEW s, s.log = r.log, s.committed = r.committed, NEW m, Speaks(r, m),
           s.msgs = r.msgs \cup {m}
    PROVE  Stays(r, s)
<1>1. Speaks(s, m)
  BY DEF Speaks
<1> QED BY <1>1, StructFields DEF Stays

\* The term of an entry that is not compacted, or the last compacted one, is known (log.go:265-284).
LEMMA TermIsTermAt ==
    ASSUME NEW r, StructOK(r), NEW k \in Nat, k >= r.offset, k <= Len(r.log)
    PROVE  Term(r, k) = TermAt(r.log, k)
<1>1. r.offset \in Nat /\ Len(r.log) \in Nat
  BY StructFields DEF LastIndex
<1> QED BY <1>1 DEF Term, TermAt, Max2, LastIndex

\* maybeSendAppend quotes the log from Next on, or up to the compaction point (raft.go:424-491).
LEMMA MaybeSendAppendCalm ==
    ASSUME NEW i \in Server, NEW r, NEW to \in Server, NEW sendIfEmpty,
           scenario \in Scenarios, StructOK(r), r.state = "Leader"
    PROVE  /\ Calm(i, r, MaybeSendAppend(i, r, to, sendIfEmpty))
           /\ MaybeSendAppend(i, r, to, sendIfEmpty).committed = r.committed
<1> DEFINE next      == r.prs[to].Next
           compacted == Compacted(r, next)
           upto      == Min2(LastIndex(r), next + MaxEnts - 1)
           ents      == IF compacted THEN <<>> ELSE SubSeq(r.log, next, upto)
           anchor    == Term(r, next - 1)
           app       == [Msg("MsgApp", i, to, r.Term) EXCEPT
                           !.index = next - 1, !.logTerm = anchor,
                           !.entries = ents, !.commit = r.committed]
           base      == Term(r, r.offset)
           data      == SubSeq(r.log, 1, r.offset)
           snap      == [Msg("MsgSnap", i, to, r.Term) EXCEPT
                           !.index = r.offset, !.logTerm = base, !.entries = data]
           s         == MaybeSendAppend(i, r, to, sendIfEmpty)
<1> SUFFICES Calm(i, r, s) /\ s.committed = r.committed
  OBVIOUS
<1>1. \/ s = r
      \/ compacted /\ \E pr : s = Send([r EXCEPT !.prs[to] = pr], snap)
      \/ ~compacted /\ \E pr : s = Send([r EXCEPT !.prs[to] = pr], app)
  BY DEF MaybeSendAppend
<1>2. Quiet(i, r, s)
  BY MaybeSendAppendQuiet
<1>3. ASSUME NEW m, NEW pr, s = Send([r EXCEPT !.prs[to] = pr], m)
      PROVE  s.log = r.log /\ s.committed = r.committed /\ s.msgs = r.msgs \cup {m}
  <2>1. r \in RaftStruct
    BY DEF StructOK
  <2> HIDE DEF s
  <2> QED BY <1>3, <2>1 DEF Send, RaftStruct
<1>4. /\ r.log \in Seq(Entry) /\ Len(r.log) \in Nat /\ LastIndex(r) = Len(r.log)
      /\ r.offset \in Nat /\ r.offset <= Len(r.log) /\ r.committed \in Nat /\ r.offset <= r.committed
      /\ r.Term \in Nat
  BY StructFields DEF StructOK, LastIndex
<1>5. next \in Nat \ {0} /\ next - 1 \in Nat /\ upto \in Nat /\ upto <= Len(r.log)
  <2>1. r.prs[to] \in ProgressRecord
    BY StructFields
  <2>2. next \in Nat \ {0} /\ MaxEnts \in Nat \ {0}
    BY <2>1, ScenarioAssumption DEF ProgressRecord, MaxEnts
  <2>3. next - 1 \in Nat /\ next + MaxEnts - 1 \in Nat
    <3>1. \A x, y \in Nat \ {0} : x - 1 \in Nat /\ x + y - 1 \in Nat
      OBVIOUS
    <3> QED BY <2>2, <3>1
  <2> QED BY <1>4, <2>2, <2>3, MinMaxType
<1> HIDE DEF next, upto
<1>6. CASE compacted
  <2>1. next <= r.offset /\ r.offset \in 1..Len(r.log)
    BY <1>4, <1>5, <1>6 DEF Compacted
  <2>2. 1 \in Nat \ {0} /\ r.offset \in Int
    BY <1>4
  <2>3. /\ data \in Seq(Entry) /\ Len(data) = r.offset
        /\ \A k \in 1..Len(data) : data[k] = r.log[k]
    <3>1. /\ data \in Seq(Entry) /\ Len(data) = IF 1 <= r.offset THEN r.offset - 1 + 1 ELSE 0
          /\ \A k \in 1..(r.offset - 1 + 1) : data[k] = r.log[1 + k - 1]
      BY <1>4, <2>2, SubSeqType
    <3> HIDE DEF data
    <3> QED BY <1>4, <3>1
  <2>4. base = TermAt(r.log, r.offset)
    BY <1>4, TermIsTermAt
  <2> HIDE DEF base, data
  <2>5. snap.type = "MsgSnap" /\ snap.index = r.offset /\ snap.logTerm = base /\ snap.entries = data
    BY DEF Msg
  <2> HIDE DEF snap
  <2>6. Speaks(r, snap)
    BY <1>4, <2>1, <2>3, <2>4, <2>5 DEF Speaks, QuotesSnap
  <2> HIDE DEF compacted, s
  <2> QED BY <1>1, <1>2, <1>3, <1>6, <2>6, SaysStays, CalmSelf DEF Calm
<1>7. CASE ~compacted
  <2>1. next > r.offset /\ next - 1 >= r.offset
    BY <1>4, <1>5, <1>7 DEF Compacted
  <2>2. /\ ents \in Seq(Entry) /\ Len(ents) = IF next <= upto THEN upto - next + 1 ELSE 0
        /\ \A k \in 1..(upto - next + 1) : ents[k] = r.log[next + k - 1]
    <3>1. ents = SubSeq(r.log, next, upto) /\ upto \in Int
      BY <1>5, <1>7
    <3> QED BY <1>4, <1>5, <3>1, SubSeqType
  <2>3. next - 1 <= Len(r.log) => anchor = TermAt(r.log, next - 1)
    BY <1>5, <2>1, TermIsTermAt
  <2> HIDE DEF anchor, ents
  <2>4. /\ app.type = "MsgApp" /\ app.index = next - 1 /\ app.logTerm = anchor /\ app.entries = ents
        /\ app.commit = r.committed
    BY DEF Msg
  <2> HIDE DEF app
  <2>5. QuotesApp(r.log, app)
    <3>1. CASE next - 1 > Len(r.log)
      <4>1. Len(ents) = 0
        BY <1>4, <1>5, <2>2, <3>1
      <4>2. ents = <<>>
        BY <2>2, <4>1, EmptySeq
      <4> QED BY <2>4, <3>1, <4>2 DEF QuotesApp
    <3>2. CASE next - 1 <= Len(r.log)
      <4>1. next - 1 + Len(ents) <= Len(r.log)
        BY <1>4, <1>5, <2>2, <3>2
      <4>2. \A k \in 1..Len(ents) : ents[k] = r.log[next - 1 + k]
        BY <1>4, <1>5, <2>2
      <4> QED BY <2>3, <2>4, <3>2, <4>1, <4>2 DEF QuotesApp
    <3> QED BY <1>4, <1>5, <3>1, <3>2
  <2>6. Speaks(r, app)
    BY <1>4, <2>4, <2>5 DEF Speaks
  <2> HIDE DEF compacted, s
  <2> QED BY <1>1, <1>2, <1>3, <1>7, <2>6, SaysStays, CalmSelf DEF Calm
<1> QED BY <1>6, <1>7

\* The loop over maybeSendAppend, by induction on its rounds (raft.go:1289-1293).
LEMMA SendAllAppendsCalm ==
    ASSUME NEW i \in Server, NEW r, NEW to \in Server,
           scenario \in Scenarios, StructOK(r), r.state = "Leader"
    PROVE  Calm(i, r, SendAllAppends(i, r, to))
<1>a. \E f : IsRounds(i, r, to, f)
  BY RoundsExist
<1>1. PICK f : IsRounds(i, r, to, f) /\ SendAllAppends(i, r, to) = f[LastIndex(r)]
  BY <1>a DEF SendAllAppends, IsRounds
<1>2. \A n \in Nat : f[n] = IF n = 0 THEN r ELSE MaybeSendAppend(i, f[n - 1], to, FALSE)
  BY <1>1 DEF IsRounds
<1> DEFINE Loud == {n \in Nat : ~Calm(i, r, f[n])}
<1>3. Loud = {}
  <2> SUFFICES ASSUME Loud # {} PROVE FALSE
    OBVIOUS
  <2>1. PICK x \in Loud : \A y \in Loud : x <= y
    BY LeastNat
  <2>2. x # 0
    BY <1>2, <2>1, CalmSelf
  <2>3. x \in Nat /\ x - 1 \in Nat /\ Calm(i, r, f[x - 1])
    BY <2>1, <2>2
  <2>4. Calm(i, f[x - 1], MaybeSendAppend(i, f[x - 1], to, FALSE))
    <3>1. StructOK(f[x - 1]) /\ f[x - 1].state = "Leader"
      BY <2>3, CalmFields
    <3> QED BY <3>1, MaybeSendAppendCalm
  <2>5. Calm(i, r, f[x])
    BY <1>2, <2>2, <2>3, <2>4, CalmTransitive
  <2> QED BY <2>1, <2>5
<1>4. LastIndex(r) \in Nat
  BY StructFields
<1> QED BY <1>1, <1>3, <1>4

\* bcastAppend (raft.go:518-525)
LEMMA BcastAppendCalm ==
    ASSUME NEW i \in Server, NEW r, scenario \in Scenarios, StructOK(r), r.state = "Leader"
    PROVE  Calm(i, r, BcastAppend(i, r))
<1> DEFINE sent(p) == SendAppend(i, r, p)
           prs == [p \in Server |-> IF p = i THEN r.prs[p] ELSE sent(p).prs[p]]
           all == r.msgs \cup UNION {sent(p).msgs : p \in Server \ {i}}
           s   == [r EXCEPT !.prs = prs, !.msgs = all]
<1>1. BcastAppend(i, r) = s
  BY DEF BcastAppend
<1>2. \A p \in Server : Calm(i, r, sent(p)) /\ sent(p).committed = r.committed
  BY MaybeSendAppendCalm DEF SendAppend
<1> HIDE DEF sent
<1>3. \A m \in all : m \in r.msgs \/ \E p \in Server : m \in sent(p).msgs
  OBVIOUS
<1> HIDE DEF prs, all
<1>4. s.log = r.log /\ s.committed = r.committed /\ s.msgs = all
  BY DEF StructOK, RaftStruct
<1> HIDE DEF s
<1>5. Quiet(i, r, s)
  BY <1>1, BcastAppendQuiet
<1>6. ASSUME NEW m \in s.msgs, m \notin r.msgs PROVE Speaks(s, m)
  <2>1. PICK p \in Server : m \in sent(p).msgs
    BY <1>3, <1>4, <1>6
  <2>2. Speaks(sent(p), m) /\ sent(p).log = s.log /\ sent(p).committed = s.committed
    BY <1>2, <1>4, <1>6, <2>1 DEF Calm, Stays
  <2> QED BY <2>2 DEF Speaks
<1> QED BY <1>1, <1>4, <1>5, <1>6, StructFields DEF Calm, Stays

\* A rejected MsgApp (raft.go:1104-1231)
LEMMA HandleRejectCalm ==
    ASSUME NEW i \in Server, NEW r, scenario \in Scenarios, StructOK(r), r.state = "Leader",
           NEW m \in Message
    PROVE  Calm(i, r, HandleReject(i, r, m))
<1> DEFINE probe == IF m.logTerm > 0 THEN FindConflictByTerm(r, m.rejectHint, m.logTerm)
                                     ELSE m.rejectHint
           pr    == MaybeDecrTo(r.prs[m.from], m.index, probe)
           pr1   == IF pr.State = "Replicate" THEN BecomeProbe(pr) ELSE pr
           r1    == [r EXCEPT !.prs[m.from] = pr1]
<1>1. HandleReject(i, r, m) \in {SendAppend(i, r1, m.from), r}
  BY DEF HandleReject
<1>2. m.from \in Server /\ m.index \in Nat /\ m.logTerm \in Nat /\ m.rejectHint \in Nat
  BY DEF Message
<1>3. probe \in Nat
  BY <1>2, FindConflictByTermType
<1> HIDE DEF probe
<1>4. pr \in ProgressRecord
  BY <1>2, <1>3, StructFields, ProgressTypes
<1> HIDE DEF pr
<1>5. pr1 \in ProgressRecord
  <2>1. 0 \in Nat
    OBVIOUS
  <2> QED BY <1>4, <2>1, ProgressTypes
<1> HIDE DEF pr1
<1>6. Calm(i, r, r1)
  BY <1>2, <1>5, CalmProgress
<1> HIDE DEF r1
<1>7. StructOK(r1) /\ r1.state = "Leader"
  BY <1>6, CalmFields
<1>8. Calm(i, r1, SendAppend(i, r1, m.from))
  BY <1>2, <1>7, MaybeSendAppendCalm DEF SendAppend
<1> QED BY <1>1, <1>6, <1>8, CalmTransitive, CalmSelf

\* An acknowledged MsgApp (raft.go:1232-1301)
LEMMA HandleAckCalm ==
    ASSUME NEW i \in Server, NEW r, scenario \in Scenarios, StructOK(r), r.state = "Leader",
           NEW m \in Message
    PROVE  Calm(i, r, HandleAck(i, r, m))
<1> DEFINE from == m.from
           pr == AckProgress(r.prs[from], m.index)
           r1 == [r EXCEPT !.prs[from] = pr]
           r2 == MaybeCommit(r1)
           r3 == IF r2.committed # r1.committed THEN BcastAppend(i, r2)
                 ELSE IF IsPaused(r.prs[from]) THEN SendAppend(i, r2, from)
                 ELSE r2
           r4 == SendAllAppends(i, r3, from)
           n  == Msg("MsgTimeoutNow", i, from, r4.Term)
<1>1. HandleAck(i, r, m) \in {Send(r4, n), r4}
  BY DEF HandleAck
<1>2. from \in Server /\ m.index \in Nat
  BY DEF Message
<1>3. pr \in ProgressRecord
  <2>1. FALSE \in BOOLEAN /\ r.prs[from] \in ProgressRecord
    BY <1>2, StructFields
  <2> QED BY <1>2, <2>1, HandlerProgressTypes
<1> HIDE DEF pr, from
<1>4. Calm(i, r, r1)
  BY <1>2, <1>3, CalmProgress
<1> HIDE DEF r1
<1>5. Calm(i, r1, r2) /\ StructOK(r1)
  BY <1>4, CalmCommit, CalmFields
<1> HIDE DEF r2
<1>6. Calm(i, r, r2)
  BY <1>4, <1>5, CalmTransitive
<1>7. StructOK(r2) /\ r2.state = "Leader"
  BY <1>6, CalmFields
<1>8. Calm(i, r2, r3)
  BY <1>2, <1>7, BcastAppendCalm, MaybeSendAppendCalm, CalmSelf DEF SendAppend
<1> HIDE DEF r3
<1>9. StructOK(r3) /\ r3.state = "Leader"
  BY <1>7, <1>8, CalmFields
<1>10. Calm(i, r3, r4)
  BY <1>2, <1>9, SendAllAppendsCalm
<1> HIDE DEF r4
<1>11. StructOK(r4) /\ r4.Term \in Nat
  BY <1>10, CalmFields, StructFields
<1>12. Calm(i, r, r4)
  <2>1. Calm(i, r, r3)
    BY <1>6, <1>8, CalmTransitive
  <2> QED BY <1>10, <2>1, CalmTransitive
<1>13. Calm(i, r4, Send(r4, n))
  BY <1>2, <1>11, CalmSend
<1> HIDE DEF n
<1> QED BY <1>1, <1>12, <1>13, CalmTransitive

\* MsgAppResp at the leader (raft.go:1101-1301)
LEMMA HandleAppRespCalm ==
    ASSUME NEW i \in Server, NEW r, scenario \in Scenarios, StructOK(r), r.state = "Leader",
           NEW m \in Message
    PROVE  Calm(i, r, HandleAppResp(i, r, m))
<1> DEFINE pr == [r.prs[m.from] EXCEPT !.RecentActive = TRUE]
           r1 == [r EXCEPT !.prs[m.from].RecentActive = TRUE]
           pr2 == MaybeUpdate(r1.prs[m.from], m.index)
           r2 == [r1 EXCEPT !.prs[m.from] = pr2]
<1>1. HandleAppResp(i, r, m) \in {HandleReject(i, r1, m), HandleAck(i, r1, m), r2}
  BY DEF HandleAppResp
<1>2. m.from \in Server /\ m.index \in Nat /\ r.prs[m.from] \in ProgressRecord
  BY StructFields DEF Message
<1>3. pr \in ProgressRecord
  BY <1>2 DEF ProgressRecord
<1>4. r1 = [r EXCEPT !.prs[m.from] = pr]
  BY DEF StructOK, RaftStruct
<1> HIDE DEF pr, r1
<1>5. Calm(i, r, r1)
  BY <1>2, <1>3, <1>4, CalmProgress
<1>6. StructOK(r1) /\ r1.state = "Leader"
  BY <1>5, CalmFields
<1>7. pr2 \in ProgressRecord
  BY <1>2, <1>6, StructFields, ProgressTypes
<1> HIDE DEF pr2
<1>8. Calm(i, r1, r2)
  BY <1>2, <1>6, <1>7, CalmProgress
<1>9. Calm(i, r1, HandleReject(i, r1, m)) /\ Calm(i, r1, HandleAck(i, r1, m))
  BY <1>6, HandleRejectCalm, HandleAckCalm
<1> HIDE DEF r2
<1> QED BY <1>1, <1>5, <1>8, <1>9, CalmTransitive

\* MsgHeartbeatResp at the leader (raft.go:1302-1325)
LEMMA HandleHeartbeatRespCalm ==
    ASSUME NEW i \in Server, NEW r, scenario \in Scenarios, StructOK(r), r.state = "Leader",
           NEW m \in Message
    PROVE  Calm(i, r, HandleHeartbeatResp(i, r, m))
<1> DEFINE pr == Resumed(r.prs[m.from])
           r1 == [r EXCEPT !.prs[m.from] = pr]
<1>1. HandleHeartbeatResp(i, r, m) \in {SendAppend(i, r1, m.from), r1}
  BY DEF HandleHeartbeatResp
<1>2. m.from \in Server /\ r.prs[m.from] \in ProgressRecord
  BY StructFields DEF Message
<1>3. pr \in ProgressRecord
  <2>1. 0 \in Nat /\ FALSE \in BOOLEAN
    OBVIOUS
  <2> QED BY <1>2, <2>1, HandlerProgressTypes
<1> HIDE DEF pr
<1>4. Calm(i, r, r1)
  BY <1>2, <1>3, CalmProgress
<1> HIDE DEF r1
<1>5. StructOK(r1) /\ r1.state = "Leader"
  BY <1>4, CalmFields
<1>6. Calm(i, r1, SendAppend(i, r1, m.from))
  BY <1>2, <1>5, MaybeSendAppendCalm DEF SendAppend
<1> QED BY <1>1, <1>4, <1>6, CalmTransitive

\* MsgTransferLeader (raft.go:1335-1365, 1441-1447)
LEMMA HandleTransferLeaderCalm ==
    ASSUME NEW i \in Server, NEW r, scenario \in Scenarios, StructOK(r),
           NEW to \in Server, NEW term
    PROVE  Calm(i, r, HandleTransferLeader(i, r, to, term))
<1> DEFINE r1 == [r EXCEPT !.electionElapsed = 0, !.leadTransferee = to]
           r2 == [r EXCEPT !.leadTransferee = None]
           n1 == Msg("MsgTimeoutNow", i, to, r.Term)
           n2 == Msg("MsgTransferLeader", to, r.lead, r.Term)
<1>1. \/ HandleTransferLeader(i, r, to, term) \in {r, r2, Panic(r)}
      \/ r.state = "Leader" /\ HandleTransferLeader(i, r, to, term) \in {Send(r1, n1), SendAppend(i, r1, to)}
      \/ r.lead # None /\ HandleTransferLeader(i, r, to, term) = Send(r, n2)
  BY DEF HandleTransferLeader
<1>2. Calm(i, r, r1) /\ Calm(i, r, r2) /\ r1.Term = r.Term
  <2>1. r1 = [r EXCEPT !.electionElapsed = 0, !.lead = r.lead, !.leadTransferee = to]
    BY DEF StructOK, RaftStruct
  <2>2. r2 = [r EXCEPT !.electionElapsed = r.electionElapsed, !.lead = r.lead, !.leadTransferee = None]
    BY DEF StructOK, RaftStruct
  <2>3. r1.Term = r.Term
    BY DEF StructOK, RaftStruct
  <2> HIDE DEF r1, r2
  <2>4. Quiet(i, r, r1) /\ Quiet(i, r, r2)
    BY <2>1, <2>2, OtherQuiet, StructFields
  <2>5. Stays(r, r1) /\ Stays(r, r2)
    BY <2>1, <2>2, FieldsStay
  <2> QED BY <2>3, <2>4, <2>5 DEF Calm
<1>3. r.Term \in Nat /\ r.lead \in Server \cup {None}
  BY StructFields
<1> HIDE DEF r1, r2
<1>4. StructOK(r1) /\ r1.state = r.state
  BY <1>2, CalmFields
<1>5. Calm(i, r1, Send(r1, n1)) /\ (r.lead # None => Calm(i, r, Send(r, n2)))
  BY <1>3, <1>4, CalmSend
<1> HIDE DEF n1, n2
<1>6. r.state = "Leader" => Calm(i, r1, SendAppend(i, r1, to))
  BY <1>4, MaybeSendAppendCalm DEF SendAppend
<1>7. Calm(i, r, r) /\ Calm(i, r, Panic(r))
  BY CalmSelf
<1>8. Calm(i, r, Send(r1, n1)) /\ (r.state = "Leader" => Calm(i, r, SendAppend(i, r1, to)))
  BY <1>2, <1>5, <1>6, CalmTransitive
<1> QED BY <1>1, <1>2, <1>5, <1>7, <1>8

\* handleHeartbeat (raft.go:1509-1512)
LEMMA HandleHeartbeatCalm ==
    ASSUME NEW i \in Server, NEW r, StructOK(r), NEW m \in Message
    PROVE  Calm(i, r, HandleHeartbeat(i, r, m))
<1> DEFINE r1 == CommitTo(r, m.commit)
           n  == Msg("MsgHeartbeatResp", i, m.from, r.Term)
<1>1. m.from \in Server /\ m.commit \in Nat /\ r.Term \in Nat
  BY StructFields DEF Message
<1>2. Calm(i, r, r1)
  BY <1>1, CommitToQuiet, CommitToStays DEF Calm
<1>3. HandleHeartbeat(i, r, m) = Send(r1, n)
  BY DEF HandleHeartbeat
<1> HIDE DEF r1
<1>4. Calm(i, r1, Send(r1, n))
  BY <1>1, <1>2, CalmFields, CalmSend
<1> HIDE DEF n
<1> QED BY <1>2, <1>3, <1>4, CalmTransitive

\* Server i enters a state that follows calmly from r.
CalmUpdate(i, r) == \E s : Update(i, s) /\ Calm(i, r, s)

\* A forwarded proposal is no part of the follower's log (raft.go:1419-1428).
LEMMA HandlePropCases ==
    ASSUME NEW i \in Server, NEW r, StructOK(r), NEW from \in Server, HandleProp(i, r, from)
    PROVE  \/ r.state = "Leader" /\ Update(i, BcastAppend(i, AppendEntry(i, r, "cmd")))
           \/ CalmUpdate(i, r)
<1>1. CASE r.lead # None /\ Update(i, Send(r, Msg("MsgProp", from, r.lead, 0)))
  <2>1. r.lead \in Server /\ 0 \in Nat
    BY <1>1, StructFields
  <2>2. Calm(i, r, Send(r, Msg("MsgProp", from, r.lead, 0)))
    BY <2>1, CalmSend
  <2> QED BY <1>1, <2>2 DEF CalmUpdate
<1> QED BY <1>1 DEF HandleProp

\* What a server does by itself, and its answers to old messages.
LEMMA LocalActionsCalm ==
    ASSUME NEW i \in Server, scenario \in Scenarios, StructOK(node[i]),
           \/ LeaseExpires(i)
           \/ \E to \in MayTransferTo : TransferLeader(i, to)
           \/ \E to \in Server : ReportUnreachable(i, to)
           \/ \E to \in Server, failed \in BOOLEAN : ReportSnapshot(i, to, failed)
           \/ \E m \in Message : StepLowerTerm(i, m)
    PROVE  CalmUpdate(i, node[i])
<1> DEFINE r == node[i]
<1>1. CASE LeaseExpires(i)
  <2> DEFINE s == [r EXCEPT !.electionElapsed = 1]
  <2>1. s = [r EXCEPT !.electionElapsed = 1, !.lead = r.lead, !.leadTransferee = r.leadTransferee]
    BY DEF StructOK, RaftStruct
  <2>2. Update(i, s)
    BY <1>1 DEF LeaseExpires
  <2> HIDE DEF s
  <2>3. Quiet(i, r, s) /\ Stays(r, s)
    BY <2>1, OtherQuiet, FieldsStay, StructFields
  <2> QED BY <2>2, <2>3 DEF CalmUpdate, Calm
<1>2. ASSUME NEW to \in MayTransferTo, TransferLeader(i, to) PROVE CalmUpdate(i, r)
  <2>1. to \in Server
    BY ScenarioAssumption DEF MayTransferTo
  <2>2. Update(i, HandleTransferLeader(i, r, to, 0))
    BY <1>2 DEF TransferLeader
  <2> QED BY <2>1, <2>2, HandleTransferLeaderCalm DEF CalmUpdate
<1>3. ASSUME NEW to \in Server, ReportUnreachable(i, to) PROVE CalmUpdate(i, r)
  <2> DEFINE pr == BecomeProbe(r.prs[to])
  <2>1. pr \in ProgressRecord
    <3>1. 0 \in Nat /\ r.prs[to] \in ProgressRecord
      BY StructFields
    <3> QED BY <3>1, ProgressTypes
  <2>2. Update(i, [r EXCEPT !.prs[to] = pr])
    BY <1>3 DEF ReportUnreachable
  <2> HIDE DEF pr
  <2> QED BY <2>1, <2>2, CalmProgress DEF CalmUpdate
<1>4. ASSUME NEW to \in Server, NEW failed \in BOOLEAN, ReportSnapshot(i, to, failed)
      PROVE  CalmUpdate(i, r)
  <2> DEFINE pr == SnapshotStatus(r.prs[to], failed)
  <2>1. pr \in ProgressRecord
    <3>1. 0 \in Nat /\ r.prs[to] \in ProgressRecord
      BY StructFields
    <3> QED BY <3>1, HandlerProgressTypes
  <2>2. Update(i, [r EXCEPT !.prs[to] = pr])
    BY <1>4 DEF ReportSnapshot
  <2> HIDE DEF pr
  <2> QED BY <2>1, <2>2, CalmProgress DEF CalmUpdate
<1>5. ASSUME NEW m \in Message, StepLowerTerm(i, m) PROVE CalmUpdate(i, r)
  <2> DEFINE M == AnswersToLowerTerm(i, r, m)
             n == Msg("MsgPreVoteResp", i, m.from, r.Term)
             n1 == [n EXCEPT !.reject = TRUE]
             n2 == Msg("MsgAppResp", i, m.from, r.Term)
  <2>1. M \subseteq {n1, n2}
    BY DEF AnswersToLowerTerm
  <2>2. m.from \in Server /\ r.Term \in Nat
    BY StructFields DEF Message
  <2>3. QuietMessage(i, r, n2) /\ Speaks(r, n2)
    <3>1. "MsgAppResp" \in OtherTypes /\ "MsgAppResp" \in MessageTypes
      BY DEF OtherTypes, MessageTypes
    <3>2. IsMsg(n2, "MsgAppResp", i, m.from, r.Term) /\ QuietMessage(i, r, n2)
      BY <2>2, <3>1, MsgType, OtherMessageQuiet
    <3> HIDE DEF n2
    <3> QED BY <3>2 DEF IsMsg, Speaks
  <2>4. QuietMessage(i, r, n1) /\ Speaks(r, n1)
    <3>1. "MsgPreVoteResp" \in MessageTypes
      BY DEF MessageTypes
    <3>2. IsMsg(n, "MsgPreVoteResp", i, m.from, r.Term)
      BY <2>2, <3>1, MsgType
    <3> HIDE DEF n
    <3>3. n1 \in Message /\ n1.type = "MsgPreVoteResp" /\ n1.entries = <<>>
      BY <3>2 DEF IsMsg, Message
    <3> HIDE DEF n1
    <3> QED BY <3>3, QuietMessages, SpeaksOther DEF SnapshotComplete
  <2>5. Update(i, [r EXCEPT !.msgs = r.msgs \cup M])
    BY <1>5 DEF StepLowerTerm
  <2> HIDE DEF M, n1, n2
  <2>6. \A x \in M : QuietMessage(i, r, x) /\ Speaks(r, x)
    BY <2>1, <2>3, <2>4
  <2>7. Calm(i, r, [r EXCEPT !.msgs = r.msgs \cup M])
    BY <2>6, SendsQuiet, SendsStay DEF Calm
  <2> QED BY <2>5, <2>7 DEF CalmUpdate
<1> QED BY <1>1, <1>2, <1>3, <1>4, <1>5

\* Messages that count only once their term has been dealt with.
LEMMA AnswersCalm ==
    ASSUME NEW i \in Server, scenario \in Scenarios, NEW m \in Message, StructOK(Observe(node[i], m)),
           StepAppResp(i, m) \/ StepHeartbeatResp(i, m) \/ StepTransferLeader(i, m)
    PROVE  CalmUpdate(i, Observe(node[i], m))
<1> DEFINE r == Observe(node[i], m)
<1>1. Calm(i, r, r)
  BY CalmSelf
<1>2. m.from \in Server
  BY DEF Message
<1>3. CASE StepAppResp(i, m)
  <2>1. Update(i, IF r.state # "Leader" THEN r ELSE HandleAppResp(i, r, m))
    BY <1>3 DEF StepAppResp
  <2> HIDE DEF r
  <2>2. r.state = "Leader" => Calm(i, r, HandleAppResp(i, r, m))
    BY HandleAppRespCalm DEF r
  <2> QED BY <1>1, <2>1, <2>2 DEF CalmUpdate, r
<1>4. CASE StepHeartbeatResp(i, m)
  <2>1. Update(i, IF r.state # "Leader" THEN r ELSE HandleHeartbeatResp(i, r, m))
    BY <1>4 DEF StepHeartbeatResp
  <2> HIDE DEF r
  <2>2. r.state = "Leader" => Calm(i, r, HandleHeartbeatResp(i, r, m))
    BY HandleHeartbeatRespCalm DEF r
  <2> QED BY <1>1, <2>1, <2>2 DEF CalmUpdate, r
<1>5. CASE StepTransferLeader(i, m)
  <2>1. Update(i, HandleTransferLeader(i, r, m.from, m.term))
    BY <1>5 DEF StepTransferLeader
  <2>2. Calm(i, r, HandleTransferLeader(i, r, m.from, m.term))
    BY <1>2, HandleTransferLeaderCalm
  <2> QED BY <2>1, <2>2 DEF CalmUpdate
<1> QED BY <1>3, <1>4, <1>5

\* A leader at the election timeout (raft.go:979-997).
LEMMA LeaderTimeoutCalm ==
    ASSUME NEW i \in Server, scenario \in Scenarios, StructOK(node[i]), LeaderTimeout(i)
    PROVE  \/ CalmUpdate(i, node[i])
           \/ CalmUpdate(i, BecomeFollower(node[i], node[i].Term, None))
<1> DEFINE r   == node[i]
           f   == BecomeFollower(r, r.Term, None)
           prs == [p \in Server |-> [r.prs[p] EXCEPT !.RecentActive = (p = i)]]
           t   == [r EXCEPT !.prs = prs]
           Done(s) == [s EXCEPT !.leadTransferee = None]
<1>1. Update(i, Done(r)) \/ Update(i, Done(f)) \/ Update(i, Done(t))
  BY DEF LeaderTimeout
<1>2. StructOK(f)
  BY StructFields, BecomeFollowerTurns DEF Turns, Grows
<1>3. Calm(i, r, t)
  <2>1. \A p \in Server : [r.prs[p] EXCEPT !.RecentActive = (p = i)] \in ProgressRecord
    <3>1. \A pr \in ProgressRecord, b \in BOOLEAN : [pr EXCEPT !.RecentActive = b] \in ProgressRecord
      BY DEF ProgressRecord
    <3> QED BY <3>1, StructFields
  <2>2. prs \in [Server -> ProgressRecord]
    BY <2>1
  <2> HIDE DEF prs
  <2> QED BY <2>2, ProgressesQuiet, FieldsStay DEF Calm
<1>4. ASSUME NEW s, StructOK(s) PROVE Calm(i, s, Done(s))
  <2> DEFINE e == [s EXCEPT !.electionElapsed = s.electionElapsed, !.lead = s.lead, !.leadTransferee = None]
  <2>1. Done(s) = e
    BY <1>4 DEF StructOK, RaftStruct
  <2>2. /\ s.electionElapsed \in {0, 1} /\ s.lead \in Server \cup {None}
        /\ None \in Server \cup {None}
    BY <1>4, StructFields
  <2>3. Quiet(i, s, e) /\ Stays(s, e)
    BY <1>4, <2>2, OtherQuiet, FieldsStay
  <2> HIDE DEF Done, e
  <2> QED BY <2>1, <2>3 DEF Calm
<1> HIDE DEF f, t, Done
<1>5. Calm(i, r, Done(r)) /\ Calm(i, f, Done(f)) /\ Calm(i, r, Done(t))
  <2>1. StructOK(t)
    BY <1>3, CalmFields
  <2> QED BY <1>2, <1>3, <1>4, <2>1, CalmTransitive
<1> QED BY <1>1, <1>5 DEF CalmUpdate, f

-----------------------------------------------------------------------------
(* Elections and the first entry of a term *)

\* More messages do not undo what stands behind what.
LEMMA BehindMonotone ==
    ASSUME NEW N, NEW O, N \subseteq O
    PROVE  /\ \A x, t, p : Behind(N, x, t, p) => Behind(O, x, t, p)
           /\ \A log : Valid(N, log) => Valid(O, log)
           /\ \A m : ValidMsg(N, m) => ValidMsg(O, m)
<1>1. ASSUME NEW x, NEW t, NEW p, Behind(N, x, t, p) PROVE Behind(O, x, t, p)
  <2>1. PICK q \in N : /\ Asks(q, q.from, t) /\ Elected(N, q.from, t)
                       /\ x > q.index /\ p = IF x = q.index + 1 THEN q.logTerm ELSE t
    BY <1>1 DEF Behind
  <2>2. Elected(O, q.from, t) /\ q \in O
    BY <2>1, ElectedMonotone
  <2> QED BY <2>1, <2>2 DEF Behind
<1> QED BY <1>1 DEF Valid, ValidMsg

\* More messages and entries do not make a message unknown.
LEMMA KnownMonotone ==
    ASSUME NEW N, NEW O, N \subseteq O, NEW K, NEW L, K \subseteq L, NEW m, Known(N, K, m)
    PROVE  Known(O, L, m)
BY BehindMonotone DEF Known, Answered

\* A quorum of several servers has another member.
LEMMA QuorumHasOther ==
    ASSUME Several, NEW c, NEW S, HasQuorum(Server, S)
    PROVE  \E p \in Server : p \in S /\ p # c
<1> SUFFICES ASSUME \A p \in Server : p \in S => p = c PROVE FALSE
  OBVIOUS
<1>1. PICK a, b \in Server : a # b
  BY DEF Several
<1>2. Cardinality(S \cap Server) <= 1 /\ Cardinality(S \cap Server) \in Nat
  <2>1. S \cap Server \subseteq {c}
    OBVIOUS
  <2>2. IsFiniteSet({c}) /\ Cardinality({c}) = 1
    BY FS_Singleton
  <2>3. IsFiniteSet(S \cap Server) /\ Cardinality(S \cap Server) <= Cardinality({c})
    BY <2>1, <2>2, FS_Subset
  <2> QED BY <2>2, <2>3, FS_CardinalityType
<1>3. Cardinality(Server) \in Nat /\ Cardinality(Server) >= 2
  <2>1. IsFiniteSet({a}) /\ Cardinality({a}) = 1 /\ b \notin {a}
    BY <1>1, FS_Singleton
  <2>2. Cardinality({a} \cup {b}) = 2
    BY <2>1, FS_AddElement
  <2>3. {a} \cup {b} \subseteq Server
    BY <1>1
  <2> HIDE DEF Several
  <2>4. Cardinality({a} \cup {b}) <= Cardinality(Server)
    BY <2>3, ServerAssumption, FS_Subset
  <2>5. Cardinality(Server) \in Nat
    BY ServerAssumption, FS_CardinalityType
  <2> QED BY <2>2, <2>4, <2>5
<1>4. 2 * Cardinality(S \cap Server) > Cardinality(Server)
  BY <1>2, <1>3, MajorityIsMoreThanHalf DEF HasQuorum, Majority
<1> QED BY <1>2, <1>3, <1>4

\* Who is elected asked for votes, and all can see it.
LEMMA ElectedAsked ==
    ASSUME Several, NEW N, NEW K, NetLogInv(N, K), NEW c, NEW t, Elected(N, c, t)
    PROVE  \E q \in N : Asks(q, c, t)
<1>1. PICK p \in Server : p \in Voters(N, c, t) /\ p # c
  BY QuorumHasOther DEF Elected
<1>2. PICK m \in N : Grants(m) /\ m.to = c /\ m.term = t
  BY <1>1 DEF Voters, Granted
<1> QED BY <1>2 DEF NetLogInv, Known, Answered

\* An entry of the own term stands behind the log of a leader, or of a candidate that has won.
LEMMA NextIsBehind ==
    ASSUME Several, NEW i \in Server, NEW r, NEW d, NEW N, NEW K, Fit(i, r, d, N, K),
           r.state = "Leader" \/ (r.state = "Candidate" /\ Elected(N, i, r.Term))
    PROVE  Behind(N, Len(r.log) + 1, r.Term, TermAt(r.log, Len(r.log)))
<1>1. StructOK(r) /\ N \subseteq Message /\ ReplicaInv(i, r, d, N, K) /\ NetLogInv(N, K)
  BY DEF Fit, Good
<1>2. Len(r.log) \in Nat
  BY <1>1, StructFields DEF LastIndex
<1>3. CASE r.state = "Leader"
  <2>1. Len(r.log) > 0 /\ r.log[Len(r.log)].term = r.Term
    BY <1>1, <1>3 DEF ReplicaInv, LeaderInv
  <2>2. Behind(N, Len(r.log), r.log[Len(r.log)].term, TermAt(r.log, Len(r.log) - 1))
    BY <1>1, <1>2, <2>1 DEF ReplicaInv, LogInv, Valid
  <2>3. PICK q \in N : /\ Asks(q, q.from, r.Term) /\ Elected(N, q.from, r.Term)
                       /\ Len(r.log) > q.index
    BY <2>1, <2>2 DEF Behind
  <2>4. q.index \in Nat
    BY <1>1, <2>3 DEF Message
  <2>5. Len(r.log) + 1 > q.index /\ Len(r.log) + 1 # q.index + 1 /\ TermAt(r.log, Len(r.log)) = r.Term
    BY <1>2, <2>1, <2>3, <2>4 DEF TermAt
  <2> QED BY <2>3, <2>5 DEF Behind
<1>4. CASE r.state = "Candidate" /\ Elected(N, i, r.Term)
  <2>1. PICK q \in N : Asks(q, i, r.Term)
    BY <1>1, <1>4, ElectedAsked
  <2>2. q.index = Len(r.log) /\ q.logTerm = TermAt(r.log, Len(r.log))
    BY <1>1, <1>4, <2>1 DEF ReplicaInv, AskInv
  <2>3. q.from = i /\ Asks(q, q.from, r.Term) /\ Len(r.log) + 1 > q.index
    BY <1>2, <2>1, <2>2 DEF Asks
  <2> QED BY <1>4, <2>2, <2>3 DEF Behind
<1> QED BY <1>3, <1>4

\* A leader appends to its log, or begins it with the first entry of its term.
LEMMA AppendKeepsFit ==
    ASSUME Several, NEW i \in Server, NEW r, NEW d, NEW N, NEW K, Fit(i, r, d, N, K),
           r.state = "Leader" \/ (r.state = "Candidate" /\ Elected(N, i, r.Term)),
           NEW e \in Entry, e.term = r.Term,
           NEW s, Good(i, s, d, N), s.state = "Leader", s.Term = r.Term, s.msgs = r.msgs,
           s.log = Append(r.log, e)
    PROVE  Fit(i, s, d, N, K \cup {<<Len(r.log) + 1, e>>})
<1> DEFINE n == Len(r.log) + 1
           L == K \cup {<<n, e>>}
<1> SUFFICES Fit(i, s, d, N, L)
  OBVIOUS
<1>1. /\ StructOK(r) /\ N \subseteq Message /\ ReplicaInv(i, r, d, N, K) /\ NetLogInv(N, K)
      /\ EntriesInv(N, K)
  BY DEF Fit, Good
<1>2. /\ r.log \in Seq(Entry) /\ Len(r.log) \in Nat /\ n \in Nat /\ Len(s.log) = n
      /\ s.log[n] = e /\ \A x \in 1..Len(r.log) : s.log[x] = r.log[x]
  BY <1>1, StructFields, AppendProperties DEF LastIndex
<1>3. Behind(N, n, e.term, TermAt(s.log, n - 1))
  <2>1. Behind(N, n, r.Term, TermAt(r.log, Len(r.log)))
    BY NextIsBehind
  <2>2. TermAt(s.log, n - 1) = TermAt(r.log, Len(r.log))
    BY <1>2 DEF TermAt
  <2> QED BY <2>1, <2>2
<1>4. K \subseteq L /\ <<n, e>> \in L /\ \A x, f : <<x, f>> \in L => <<x, f>> \in K \/ (x = n /\ f = e)
  OBVIOUS
<1>5. \A f : <<n, f>> \in K => f.term # r.Term
  <2>1. CASE r.state = "Leader"
    BY <1>1, <1>2, <2>1 DEF ReplicaInv, LeaderInv, InLog
  <2>2. CASE r.state = "Candidate" /\ Elected(N, i, r.Term)
    BY <1>1, <2>2 DEF ReplicaInv, CandidateInv
  <2> QED BY <2>1, <2>2
<1>6. Elected(N, i, r.Term)
  BY DEF Good, ServerInv, CampaignInv
<1> HIDE DEF n, L
<1>7. LogInv(s, d, N, L)
  <2>1. ASSUME NEW x \in 1..Len(s.log) PROVE Behind(N, x, s.log[x].term, TermAt(s.log, x - 1))
    <3>1. CASE x = n
      BY <1>2, <1>3, <3>1
    <3>2. CASE x # n
      <4>1. x \in 1..Len(r.log)
        BY <1>2, <3>2 DEF n
      <4>2. TermAt(s.log, x - 1) = TermAt(r.log, x - 1)
        BY <1>2, <4>1 DEF TermAt
      <4>3. Behind(N, x, r.log[x].term, TermAt(r.log, x - 1))
        BY <1>1, <4>1 DEF ReplicaInv, LogInv, Valid
      <4> QED BY <1>2, <4>1, <4>2, <4>3
    <3> QED BY <3>1, <3>2
  <2>2. Valid(N, s.log)
    BY <2>1 DEF Valid
  <2>3. ASSUME NEW x, NEW f, InLog(s.log, x, f) PROVE <<x, f>> \in L
    <3>1. CASE x = n
      BY <1>2, <1>4, <2>3, <3>1 DEF InLog
    <3>2. CASE x # n
      <4>1. x \in 1..Len(r.log) /\ InLog(r.log, x, f)
        BY <1>2, <2>3, <3>2 DEF n, InLog
      <4> QED BY <1>1, <1>4, <4>1 DEF ReplicaInv, LogInv
    <3> QED BY <3>1, <3>2
  <2>4. \A m \in s.msgs : Known(N, L, m)
    BY <1>1, <1>4, KnownMonotone DEF ReplicaInv, LogInv
  <2> QED BY <1>1, <1>4, <2>2, <2>3, <2>4 DEF ReplicaInv, LogInv
<1>8. AskInv(i, s, N) /\ CandidateInv(i, s, N, L)
  BY <1>1 DEF ReplicaInv, AskInv, CandidateInv
<1>9. LeaderInv(s, L)
  <2>1. Len(s.log) > 0 /\ s.log[Len(s.log)].term = s.Term
    BY <1>2 DEF n
  <2>2. ASSUME NEW x, NEW f, <<x, f>> \in L, f.term = s.Term PROVE InLog(s.log, x, f)
    <3>1. CASE x = n /\ f = e
      BY <1>2, <3>1 DEF InLog, n
    <3>2. CASE <<x, f>> \in K
      <4>1. r.state = "Leader"
        BY <1>1, <2>2, <3>2 DEF ReplicaInv, CandidateInv
      <4>2. InLog(r.log, x, f)
        BY <1>1, <2>2, <3>2, <4>1 DEF ReplicaInv, LeaderInv
      <4> QED BY <1>2, <4>2 DEF InLog, n
    <3> QED BY <1>4, <2>2, <3>1, <3>2
  <2> QED BY <2>1, <2>2 DEF LeaderInv
<1>10. NetLogInv(N, L)
  BY <1>1, <1>4, KnownMonotone DEF NetLogInv
<1>11. EntriesInv(N, L)
  <2>1. ASSUME NEW x, NEW f, NEW g, <<x, f>> \in L, <<x, g>> \in L, f.term = g.term PROVE f = g
    BY <1>1, <1>4, <1>5, <2>1 DEF EntriesInv
  <2>2. ASSUME NEW x, NEW f, <<x, f>> \in L PROVE \E c \in Server : Elected(N, c, f.term)
    BY <1>1, <1>4, <1>6, <2>2 DEF EntriesInv
  <2> QED BY <2>1, <2>2 DEF EntriesInv
<1> QED BY <1>7, <1>8, <1>9, <1>10, <1>11 DEF Fit, ReplicaInv

-----------------------------------------------------------------------------
(* Entries of a leader are put into the log *)

\* commitTo touches neither the log nor the messages (log.go:233-241).
LEMMA CommitToLog ==
    ASSUME NEW r, StructOK(r), NEW c
    PROVE  LET s == CommitTo(r, c)
           IN  /\ s.log = r.log /\ s.msgs = r.msgs /\ (s.committed = r.committed \/ s.committed = c)
               /\ r.panicked => s.panicked
<1>1. r \in RaftStruct
  BY DEF StructOK
<1> QED BY <1>1 DEF CommitTo, Panic, RaftStruct

\* The log has all of the entries behind prev, or x is the first one that it does not have.
MatchesAll(r, prev, ents) == \A k \in 1..Len(ents) : MatchTerm(r, prev + k, ents[k].term)
Conflicts(r, prev, ents, x) ==
    /\ x \in (prev + 1)..(prev + Len(ents)) /\ ~MatchTerm(r, x, ents[x - prev].term)
    /\ \A k \in 1..(x - prev - 1) : MatchTerm(r, prev + k, ents[k].term)

\* findConflict: the first entry that the log does not have (log.go:127-138).
LEMMA FindConflictMeaning ==
    ASSUME NEW r, NEW prev \in Nat, NEW ents \in Seq(Entry)
    PROVE  LET ci == FindConflict(r, prev, ents)
           IN  (ci = 0 /\ MatchesAll(r, prev, ents)) \/ Conflicts(r, prev, ents, ci)
<1> DEFINE bad == {k \in 1..Len(ents) : ~MatchTerm(r, prev + k, ents[k].term)}
           first == CHOOSE k \in bad : \A j \in bad : k <= j
           Agrees(k) == MatchTerm(r, prev + k, ents[k].term)
           Found(c) == \/ c = 0 /\ \A k \in 1..Len(ents) : Agrees(k)
                       \/ /\ c \in (prev + 1)..(prev + Len(ents))
                          /\ ~MatchTerm(r, c, ents[c - prev].term)
                          /\ \A k \in 1..(c - prev - 1) : Agrees(k)
<1> SUFFICES Found(FindConflict(r, prev, ents))
  BY DEF MatchesAll, Conflicts
<1>1. FindConflict(r, prev, ents) = IF bad = {} THEN 0 ELSE prev + first
  BY DEF FindConflict
<1>2. CASE bad = {}
  BY <1>1, <1>2
<1>3. CASE bad # {}
  <2>1. \E k \in bad : \A j \in bad : k <= j
    <3>1. bad \in SUBSET Nat
      OBVIOUS
    <3> HIDE DEF bad
    <3> QED BY <1>3, <3>1, LeastNat
  <2>2. first \in bad /\ \A j \in bad : first <= j
    BY <2>1
  <2>3. FindConflict(r, prev, ents) = prev + first
    BY <1>1, <1>3
  <2>4. /\ Len(ents) \in Nat /\ first \in 1..Len(ents)
        /\ ~MatchTerm(r, prev + first, ents[first].term)
    BY <2>2
  <2>5. ASSUME NEW k \in 1..(first - 1) PROVE MatchTerm(r, prev + k, ents[k].term)
    <3>1. k \in 1..Len(ents) /\ ~(first <= k)
      BY <2>4, <2>5
    <3> QED BY <2>2, <3>1
  <2> HIDE DEF first, bad
  <2>6. /\ prev + first \in (prev + 1)..(prev + Len(ents)) /\ prev + first - prev - 1 = first - 1
        /\ prev + first - prev = first
    BY <2>4
  <2>7. \A k \in 1..(first - 1) : Agrees(k)
    BY <2>5
  <2>8. Found(prev + first)
    <3> HIDE DEF Agrees
    <3> QED BY <2>4, <2>6, <2>7
  <2> HIDE DEF Found
  <2> QED BY <2>3, <2>8
<1> QED BY <1>2, <1>3

\* log is the old log up to some index x, and the entries behind prev from there on; before x
\* the two have the same terms, but not at x.
Splices(old, log, prev, ents, x) ==
    /\ x \in (prev + 1)..(prev + Len(ents)) /\ x <= Len(old) + 1
    /\ log \in Seq(Entry) /\ Len(log) = prev + Len(ents)
    /\ \A k \in 1..(x - 1) : log[k] = old[k]
    /\ \A k \in x..(prev + Len(ents)) : log[k] = ents[k - prev]
    /\ \A k \in (prev + 1)..(x - 1) : old[k].term = ents[k - prev].term
    /\ x <= Len(old) => old[x].term # ents[x - prev].term

\* What maybeAppend makes of the log before it moves the commit index.
Merges(r, s, prev, ents) ==
    \/ s = r /\ MatchesAll(r, prev, ents)
    \/ s = Panic(r) /\ \E x : (x <= r.committed \/ x > LastIndex(r) + 1) /\ Conflicts(r, prev, ents, x)
    \/ s = [r EXCEPT !.log = s.log] /\ \E x : x > r.committed /\ Splices(r.log, s.log, prev, ents, x)

\* maybeAppend (log.go:88-125)
LEMMA MaybeAppendMerges ==
    ASSUME NEW r, StructOK(r), NEW prev \in Nat, prev >= r.offset, NEW ents \in Seq(Entry), NEW commit \in Nat
    PROVE  \E t : /\ MaybeAppend(r, prev, ents, commit) = CommitTo(t, Min2(commit, prev + Len(ents)))
                  /\ StructOK(t) /\ Merges(r, t, prev, ents)
<1> DEFINE ci == FindConflict(r, prev, ents)
           front == SubSeq(r.log, 1, ci - 1)
           back == SubSeq(ents, ci - prev, Len(ents))
           log == front \o back
           r1 == IF ci = 0 THEN r
                 ELSE IF ci <= r.committed \/ ci > LastIndex(r) + 1 THEN Panic(r)
                 ELSE [r EXCEPT !.log = log]
           c  == Min2(commit, prev + Len(ents))
           s  == MaybeAppend(r, prev, ents, commit)
<1>1. s = CommitTo(r1, c)
  BY DEF MaybeAppend
<1>2. /\ r \in RaftStruct /\ r.log \in Seq(Entry) /\ Len(r.log) \in Nat /\ LastIndex(r) = Len(r.log)
      /\ r.committed \in Nat /\ Len(ents) \in Nat /\ r.offset \in Nat
  BY StructFields DEF StructOK, LastIndex
<1>3. \/ ci = 0 /\ MatchesAll(r, prev, ents)
      \/ /\ ci \in (prev + 1)..(prev + Len(ents)) /\ ~MatchTerm(r, ci, ents[ci - prev].term)
         /\ \A k \in 1..(ci - prev - 1) : MatchTerm(r, prev + k, ents[k].term)
         /\ Conflicts(r, prev, ents, ci)
  BY FindConflictMeaning DEF Conflicts
<1> HIDE DEF ci
<1>4. StructOK(r1) /\ Merges(r, r1, prev, ents)
  <2>1. CASE ci = 0
    BY <1>2, <1>3, <2>1 DEF Merges
  <2>2. CASE ci # 0 /\ (ci <= r.committed \/ ci > LastIndex(r) + 1)
    <3>1. r1 = Panic(r)
      BY <2>2
    <3>2. Conflicts(r, prev, ents, ci)
      BY <1>3, <2>2
    <3>3. StructOK(Panic(r))
      BY PanicQuiet DEF Quiet, Grows
    <3> HIDE DEF r1
    <3> QED BY <2>2, <3>1, <3>2, <3>3 DEF Merges
  <2>3. CASE ci # 0 /\ ~(ci <= r.committed \/ ci > LastIndex(r) + 1)
    <3>1. /\ ci \in Nat /\ ci >= 1 /\ ci >= prev + 1 /\ ci <= prev + Len(ents) /\ ci > r.committed
          /\ ci <= Len(r.log) + 1 /\ ci - 1 \in Int /\ ci - 1 <= Len(r.log)
          /\ ci - prev \in Nat \ {0} /\ 1 \in Nat \ {0} /\ Len(ents) \in Int
      <4> DEFINE n == Len(ents)
                 last == Len(r.log)
      <4>1. ci \in (prev + 1)..(prev + n)
        BY <1>3, <2>3, Zenon
      <4>2. ~(ci <= r.committed) /\ ~(ci > last + 1) /\ n \in Nat /\ last \in Nat /\ r.committed \in Nat
        BY <1>2, <2>3
      <4> HIDE DEF n, last
      <4>3. ci \in Nat /\ ci >= 1 /\ ci >= prev + 1 /\ ci <= prev + n
        BY <4>1, <4>2
      <4>4. ci > r.committed /\ ci <= last + 1 /\ ci - 1 \in Int /\ ci - 1 <= last
        BY <4>2, <4>3
      <4>5. ci - prev \in Nat \ {0} /\ 1 \in Nat \ {0} /\ n \in Int
        BY <4>2, <4>3
      <4> QED BY <4>3, <4>4, <4>5 DEF n, last
    <3>2. /\ front \in Seq(Entry) /\ Len(front) = ci - 1
          /\ \A k \in 1..(ci - 1) : front[k] = r.log[k]
      <4>1. /\ front \in Seq(Entry) /\ Len(front) = IF 1 <= ci - 1 THEN ci - 1 - 1 + 1 ELSE 0
            /\ \A k \in 1..(ci - 1 - 1 + 1) : front[k] = r.log[1 + k - 1]
        BY <1>2, <3>1, SubSeqType
      <4> HIDE DEF front
      <4> QED BY <3>1, <4>1
    <3>3. /\ back \in Seq(Entry) /\ Len(back) = Len(ents) - (ci - prev) + 1
          /\ \A k \in 1..Len(back) : back[k] = ents[ci - prev + k - 1]
      <4>1. /\ back \in Seq(Entry)
            /\ Len(back) = IF ci - prev <= Len(ents) THEN Len(ents) - (ci - prev) + 1 ELSE 0
            /\ \A k \in 1..(Len(ents) - (ci - prev) + 1) : back[k] = ents[ci - prev + k - 1]
        BY <3>1, SubSeqType
      <4> HIDE DEF back
      <4>2. ci - prev <= Len(ents)
        BY <1>2, <3>1
      <4> QED BY <4>1, <4>2
    <3> HIDE DEF front, back
    <3>4. /\ log \in Seq(Entry) /\ Len(log) = prev + Len(ents)
          /\ \A k \in 1..(ci - 1) : log[k] = r.log[k]
          /\ \A k \in ci..(prev + Len(ents)) : log[k] = ents[k - prev]
      <4>1. /\ log \in Seq(Entry) /\ Len(log) = Len(front) + Len(back)
            /\ \A k \in 1..(Len(front) + Len(back)) :
                  log[k] = IF k <= Len(front) THEN front[k] ELSE back[k - Len(front)]
        BY <3>2, <3>3, ConcatProperties
      <4> HIDE DEF log
      <4>2. Len(log) = prev + Len(ents)
        BY <1>2, <3>1, <3>2, <3>3, <4>1
      <4>3. ASSUME NEW k \in 1..(ci - 1) PROVE log[k] = r.log[k]
        <5>1. k \in 1..(Len(front) + Len(back)) /\ k <= Len(front)
          BY <1>2, <3>1, <3>2, <3>3
        <5>2. log[k] = front[k]
          BY <4>1, <5>1
        <5> QED BY <3>2, <5>2
      <4>4. ASSUME NEW k \in ci..(prev + Len(ents)) PROVE log[k] = ents[k - prev]
        <5>1. /\ k \in 1..(Len(front) + Len(back)) /\ ~(k <= Len(front))
              /\ k - Len(front) \in 1..Len(back) /\ ci - prev + (k - Len(front)) - 1 = k - prev
          BY <1>2, <3>1, <3>2, <3>3
        <5> QED BY <3>3, <4>1, <5>1
      <4> QED BY <4>1, <4>2, <4>3, <4>4
    <3>5. ASSUME NEW k \in (prev + 1)..(ci - 1) PROVE r.log[k].term = ents[k - prev].term
      <4>1. k - prev \in 1..(ci - prev - 1) /\ prev + (k - prev) = k /\ k \in Nat /\ k >= r.offset /\ k <= Len(r.log) /\ k # 0
        BY <1>2, <3>1
      <4>2. ci \in (prev + 1)..(prev + Len(ents))
        BY <1>3, <3>1
      <4>3. Term(r, k) = ents[k - prev].term
        BY <1>3, <2>3, <4>1 DEF MatchTerm
      <4> QED BY <4>1, <4>3, TermIsTermAt DEF TermAt
    <3>51. ci <= Len(r.log) => r.log[ci].term # ents[ci - prev].term
      <4> SUFFICES ASSUME ci <= Len(r.log) PROVE r.log[ci].term # ents[ci - prev].term
        OBVIOUS
      <4>1. ci \in Nat /\ ci >= r.offset /\ ci # 0 /\ prev + 1 # 0
        BY <1>2, <3>1
      <4>2. Term(r, ci) # ents[ci - prev].term
        BY <1>3, <2>3 DEF MatchTerm
      <4> QED BY <4>1, <4>2, TermIsTermAt DEF TermAt
    <3> HIDE DEF log
    <3>6. r1 = [r EXCEPT !.log = log, !.uncommittedSize = r.uncommittedSize]
      BY <1>2, <2>3 DEF RaftStruct
    <3>7. r1.log = log /\ r1 = [r EXCEPT !.log = r1.log]
      <4>1. r1 = [r EXCEPT !.log = log]
        BY <2>3
      <4> HIDE DEF r1
      <4> QED BY <1>2, <4>1 DEF RaftStruct
    <3>8. StructOK(r1)
      <4> HIDE DEF r1
      <4>1. r.committed <= Len(log) /\ r.uncommittedSize \in Nat
        BY <1>2, <3>1, <3>4, StructFields
      <4> QED BY <3>4, <3>6, <4>1, LogQuiet DEF Quiet, Grows
    <3> HIDE DEF r1
    <3>9. Splices(r.log, r1.log, prev, ents, ci)
      BY <1>3, <2>3, <3>1, <3>4, <3>5, <3>51, <3>7 DEF Splices
    <3> QED BY <3>1, <3>7, <3>8, <3>9 DEF Merges
  <2> QED BY <2>1, <2>2, <2>3
<1> QED BY <1>1, <1>4

\* What that means for log and messages.
LEMMA MaybeAppendLog ==
    ASSUME NEW r, StructOK(r), NEW prev \in Nat, prev >= r.offset, NEW ents \in Seq(Entry), NEW commit \in Nat
    PROVE  LET s == MaybeAppend(r, prev, ents, commit)
           IN  /\ s.msgs = r.msgs
               /\ s.committed = r.committed \/ s.committed = Min2(commit, prev + Len(ents))
               /\ \/ s.log = r.log /\ (s.panicked \/ \A k \in 1..Len(ents) : MatchTerm(r, prev + k, ents[k].term))
                  \/ \E x : x > r.committed /\ Splices(r.log, s.log, prev, ents, x)
<1> DEFINE c == Min2(commit, prev + Len(ents))
           s == MaybeAppend(r, prev, ents, commit)
<1>1. PICK t : s = CommitTo(t, c) /\ StructOK(t) /\ Merges(r, t, prev, ents)
  BY MaybeAppendMerges
<1>2. r \in RaftStruct
  BY DEF StructOK
<1>3. /\ t.msgs = r.msgs /\ t.committed = r.committed
      /\ \/ t.log = r.log /\ (t.panicked \/ \A k \in 1..Len(ents) : MatchTerm(r, prev + k, ents[k].term))
         \/ \E x : x > r.committed /\ Splices(r.log, t.log, prev, ents, x)
  <2>1. CASE t = r /\ MatchesAll(r, prev, ents)
    BY <2>1 DEF MatchesAll
  <2>2. CASE t = Panic(r)
    BY <1>2, <2>2 DEF Panic, RaftStruct
  <2>3. CASE t = [r EXCEPT !.log = t.log] /\ \E x : x > r.committed /\ Splices(r.log, t.log, prev, ents, x)
    <3>1. t.msgs = r.msgs /\ t.committed = r.committed
      BY <1>2, <2>3 DEF RaftStruct
    <3> QED BY <2>3, <3>1
  <2> QED BY <1>1, <2>1, <2>2, <2>3 DEF Merges
<1> HIDE DEF s, c
<1>4. /\ s.log = t.log /\ s.msgs = t.msgs /\ (s.committed = t.committed \/ s.committed = c)
      /\ t.panicked => s.panicked
  BY <1>1, CommitToLog
<1> QED BY <1>3, <1>4 DEF s, c

-----------------------------------------------------------------------------
(* A leader appends *)

\* What is new are entries of the term that the server leads.
Appends(s, K, L) ==
    K \subseteq L /\ \A x, e : <<x, e>> \in L /\ <<x, e>> \notin K => s.state = "Leader" /\ e.term = s.Term

\* The invariant for server i in state s, with what s has appended.
Fits(i, s, d, N, K) == \E L : Fit(i, s, d, N, L) /\ Appends(s, K, L)

\* Nothing is appended.
LEMMA FitIsFits ==
    ASSUME NEW i, NEW s, NEW d, NEW N, NEW K, Fit(i, s, d, N, K)
    PROVE  Fits(i, s, d, N, K)
BY DEF Fits, Appends

\* A calm step after an append.
LEMMA CalmKeepsFits ==
    ASSUME NEW i \in Server, NEW r, NEW s, NEW d, NEW N, NEW K, Fits(i, r, d, N, K), Calm(i, r, s)
    PROVE  Fits(i, s, d, N, K)
<1>1. PICK L : Fit(i, r, d, N, L) /\ Appends(r, K, L)
  BY DEF Fits
<1>2. Fit(i, s, d, N, L)
  BY <1>1, CalmKeepsFit
<1>3. s.state = r.state /\ s.Term = r.Term
  BY CalmFields
<1> QED BY <1>1, <1>2, <1>3 DEF Fits, Appends

\* appendEntry adds one entry of the current term (raft.go:615-636).
LEMMA AppendEntryLog ==
    ASSUME NEW i \in Server, NEW r, NEW data \in {"empty", "cmd"}, StructOK(r)
    PROVE  /\ AppendEntry(i, r, data).log = Append(r.log, [term |-> r.Term, data |-> data])
           /\ AppendEntry(i, r, data).msgs = r.msgs
<1> DEFINE e    == [term |-> r.Term, data |-> data]
           log  == Append(r.log, e)
           size == r.uncommittedSize + PayloadSize(e)
           r1   == [r EXCEPT !.log = log, !.uncommittedSize = size]
           pr   == MaybeUpdate(r1.prs[i], LastIndex(r1))
           r2   == [r1 EXCEPT !.prs[i] = pr]
<1>1. AppendEntry(i, r, data) = MaybeCommit(r2)
  BY DEF AppendEntry
<1>2. log \in Seq(Entry) /\ Len(log) = Len(r.log) + 1 /\ size \in Nat
  <2>1. e \in Entry
    BY StructFields DEF Entry
  <2> QED BY <2>1, StructFields DEF PayloadSize
<1>3. Quiet(i, r, r1) /\ r1.log = log /\ r1.msgs = r.msgs
  <2>1. r.committed <= Len(log)
    BY <1>2, StructFields DEF StructOK
  <2> HIDE DEF log, size
  <2>2. r1.log = log /\ r1.msgs = r.msgs
    BY DEF StructOK, RaftStruct
  <2> QED BY <1>2, <2>1, <2>2, LogQuiet
<1> HIDE DEF r1
<1>4. StructOK(r1)
  BY <1>3 DEF Quiet, Grows
<1>5. pr \in ProgressRecord
  BY <1>4, StructFields, ProgressTypes
<1> HIDE DEF pr
<1>6. StructOK(r2) /\ r2.log = r1.log /\ r2.msgs = r1.msgs
  <2>1. StructOK(r2)
    BY <1>4, <1>5, ProgressQuiet DEF Quiet, Grows
  <2>2. r2.log = r1.log /\ r2.msgs = r1.msgs
    BY <1>4 DEF StructOK, RaftStruct
  <2> QED BY <2>1, <2>2
<1> HIDE DEF r2
<1>7. MaybeCommit(r2).log = r2.log /\ MaybeCommit(r2).msgs = r2.msgs
  BY <1>6, CommitToLog DEF MaybeCommit
<1> QED BY <1>1, <1>3, <1>6, <1>7

\* One entry of the own term is appended.
LEMMA AppendFits ==
    ASSUME Several, NEW i \in Server, NEW r, NEW d, NEW N, NEW K, Fit(i, r, d, N, K),
           r.state = "Leader" \/ (r.state = "Candidate" /\ Elected(N, i, r.Term)),
           NEW data \in {"empty", "cmd"},
           NEW s, Good(i, s, d, N), s.state = "Leader", s.Term = r.Term, s.msgs = r.msgs,
           s.log = Append(r.log, [term |-> r.Term, data |-> data])
    PROVE  Fits(i, s, d, N, K)
<1> DEFINE e == [term |-> r.Term, data |-> data]
           L == K \cup {<<Len(r.log) + 1, e>>}
<1>1. e \in Entry /\ e.term = r.Term
  BY StructFields DEF Entry, Fit, Good
<1> HIDE DEF e
<1>2. s.log = Append(r.log, e)
  BY DEF e
<1>3. Fit(i, s, d, N, L)
  BY <1>1, <1>2, AppendKeepsFit
<1>4. Appends(s, K, L)
  <2>1. \A x, f : <<x, f>> \in L /\ <<x, f>> \notin K => f = e
    OBVIOUS
  <2> QED BY <1>1, <2>1 DEF Appends
<1> HIDE DEF L
<1> QED BY <1>3, <1>4 DEF Fits

\* MsgProp at the leader (raft.go:1007-1065)
LEMMA ProposeFits ==
    ASSUME Several, scenario \in Scenarios, NEW i \in Server, NEW r, NEW d, NEW N, NEW K,
           Fit(i, r, d, N, K), r.state = "Leader"
    PROVE  Fits(i, BcastAppend(i, AppendEntry(i, r, "cmd")), d, N, K)
<1> DEFINE s == AppendEntry(i, r, "cmd")
<1>1. StructOK(r) /\ Good(i, r, d, N)
  BY DEF Fit, Good
<1>2. Quiet(i, r, s) /\ s.log = Append(r.log, [term |-> r.Term, data |-> "cmd"]) /\ s.msgs = r.msgs
  BY <1>1, AppendEntryQuiet, AppendEntryLog
<1> HIDE DEF s
<1>3. Good(i, s, d, N) /\ StructOK(s) /\ s.state = "Leader" /\ s.Term = r.Term
  BY <1>1, <1>2, QuietKeepsInv DEF Quiet, Grows
<1>4. Fits(i, s, d, N, K)
  BY <1>2, <1>3, AppendFits
<1>5. Calm(i, s, BcastAppend(i, s))
  BY <1>3, BcastAppendCalm
<1>6. Fits(i, BcastAppend(i, s), d, N, K)
  BY <1>4, <1>5, CalmKeepsFits
<1> QED BY <1>6 DEF s

\* becomeLeader appends the first entry of the term (raft.go:718-757).
LEMMA BecomeLeaderFits ==
    ASSUME Several, NEW i \in Server, NEW r, NEW d, NEW N, NEW K,
           Fit(i, r, d, N, K), r.state = "Candidate", TallyVotes(r) = "VoteWon"
    PROVE  Fits(i, BecomeLeader(i, r), d, N, K) /\ BecomeLeader(i, r).state = "Leader"
<1> DEFINE last == LastIndex(r)
           prs  == [p \in Server |-> IF p = i THEN BecomeReplicate(NewProgress(last, last + 1))
                                              ELSE NewProgress(0, last + 1)]
           t    == Reset(r, r.Term)
           u    == [t EXCEPT !.lead = i, !.state = "Leader", !.prs = prs]
           s    == BecomeLeader(i, r)
<1>1. StructOK(r) /\ Good(i, r, d, N)
  BY DEF Fit, Good
<1>2. s = AppendEntry(i, u, "empty")
  BY DEF BecomeLeader
<1>3. StructOK(u) /\ u.log = r.log /\ u.msgs = r.msgs /\ u.Term = r.Term /\ u.state = "Leader"
  <2>1. prs \in [Server -> ProgressRecord]
    <3>1. last \in Nat /\ last + 1 \in Nat \ {0} /\ 0 \in Nat
      BY <1>1, StructFields
    <3> HIDE DEF last
    <3>2. NewProgress(last, last + 1) \in ProgressRecord /\ NewProgress(0, last + 1) \in ProgressRecord
      BY <3>1, NewProgressType
    <3>3. BecomeReplicate(NewProgress(last, last + 1)) \in ProgressRecord
      BY <3>1, <3>2, ProgressTypes
    <3> QED BY <3>2, <3>3
  <2>2. Turns(r, t, r.Term, r.Vote, r.state)
    BY <1>1, BecomeFollowerTurns, StructFields DEF KeptVote
  <2> HIDE DEF t, prs
  <2>3. /\ u \in RaftStruct /\ SameLog(r, u) /\ u.msgs = r.msgs /\ u.applied = r.applied
        /\ u.Term = r.Term /\ u.Vote = r.Vote /\ u.state = "Leader"
    BY <2>1, <2>2 DEF Turns, Grows, StructOK, SameLog, RaftStruct
  <2> HIDE DEF u
  <2>4. Turns(r, u, u.Term, u.Vote, u.state)
    BY <1>1, <2>3, TurnsIf
  <2> QED BY <2>3, <2>4 DEF Turns, Grows, SameLog
<1> HIDE DEF u
<1>4. s.log = Append(r.log, [term |-> r.Term, data |-> "empty"]) /\ s.msgs = r.msgs
  BY <1>2, <1>3, AppendEntryLog
<1>5. s.Term = r.Term
  BY <1>2, <1>3, AppendEntryQuiet DEF Quiet
<1>6. Good(i, s, d, N) /\ s.state = "Leader"
  BY <1>1, BecomeLeaderKeepsInv
<1>7. Elected(N, i, r.Term)
  BY <1>5, <1>6 DEF Good, ServerInv, CampaignInv
<1> HIDE DEF s
<1>8. Fits(i, s, d, N, K)
  BY <1>4, <1>5, <1>6, <1>7, AppendFits
<1> QED BY <1>6, <1>8 DEF s

-----------------------------------------------------------------------------
(* Followers *)

\* The term of a message is dealt with (raft.go:861-906).
LEMMA ObserveFit ==
    ASSUME NEW i \in Server, NEW r, NEW d, NEW N, NEW K, Fit(i, r, d, N, K), NEW m \in Message
    PROVE  Fit(i, Observe(r, m), d, N, K) /\ StructOK(Observe(r, m))
<1>1. Good(i, r, d, N) /\ StructOK(r)
  BY DEF Fit, Good
<1>2. Good(i, Observe(r, m), d, N)
  BY <1>1, ObserveKeepsInv
<1>3. CASE Observe(r, m) = r
  BY <1>1, <1>3
<1>4. CASE Turns(r, Observe(r, m), m.term, KeptVote(r, m.term), "Follower")
  <2>1. Fit(i, Observe(r, m), d, N, K)
    BY <1>2, <1>4, TurnKeepsFit
  <2> QED BY <1>2, <2>1 DEF Good
<1> QED BY <1>1, <1>3, <1>4, ObserveTurns

\* The leader of the term is heard (raft.go:1386-1394, 1429-1440).
LEMMA FollowFit ==
    ASSUME NEW i \in Server, NEW r, NEW d, NEW N, NEW K, Fit(i, r, d, N, K), NEW m \in Message, m.term = r.Term
    PROVE  /\ Fit(i, Follow(r, m), d, N, K) /\ StructOK(Follow(r, m))
           /\ Follow(r, m).state = "Follower"
<1> DEFINE s == Follow(r, m)
<1>1. Good(i, r, d, N) /\ StructOK(r)
  BY DEF Fit, Good
<1>2. Good(i, s, d, N) /\ StructOK(s)
  BY <1>1, FollowKeepsInv DEF Good
<1>3. CASE r.state = "Follower"
  <2>1. s.log = r.log /\ s.msgs = r.msgs /\ s.state = "Follower"
    BY <1>1, <1>3 DEF Follow, StructOK, RaftStruct
  <2> HIDE DEF s
  <2>2. Fit(i, s, d, N, K)
    BY <1>2, <2>1, KnownKeepsFit
  <2> QED BY <1>2, <2>1, <2>2 DEF s
<1>4. CASE r.state # "Follower"
  <2>1. Turns(r, s, m.term, KeptVote(r, m.term), "Follower")
    BY <1>1, <1>4, FollowTurns
  <2> HIDE DEF s
  <2>2. Fit(i, s, d, N, K) /\ s.state = "Follower"
    BY <1>2, <2>1, TurnKeepsFit DEF Turns
  <2> QED BY <1>2, <2>2 DEF s
<1> QED BY <1>3, <1>4

\* A log that a MsgApp was spliced into: what is new stands behind the entries that the message
\* names.
LEMMA SpliceIsValid ==
    ASSUME NEW N, NEW old \in Seq(Entry), NEW log, NEW m \in Message, NEW x, m.type = "MsgApp",
           Valid(N, old), ValidMsg(N, m), Splices(old, log, m.index, m.entries, x),
           m.logTerm = TermAt(old, m.index)
    PROVE  /\ Valid(N, log)
           /\ \A y, e : InLog(log, y, e) => InLog(old, y, e) \/ InMsg(m, y, e)
<1> DEFINE prev == m.index
           ents == m.entries
<1>1. /\ prev \in Nat /\ Len(ents) \in Nat /\ Len(old) \in Nat
      /\ x \in (prev + 1)..(prev + Len(ents)) /\ x <= Len(old) + 1 /\ x \in Nat
      /\ Len(log) = prev + Len(ents)
      /\ Anchor(m) = prev /\ AnchorTerm(m) = TermAt(old, prev)
  BY DEF Message, Splices, Anchor, AnchorTerm
<1>2. /\ \A k \in 1..(x - 1) : log[k] = old[k]
      /\ \A k \in x..(prev + Len(ents)) : log[k] = ents[k - prev]
      /\ \A k \in (prev + 1)..(x - 1) : old[k].term = ents[k - prev].term
  BY DEF Splices
<1>3. ASSUME NEW k \in 1..Len(ents), NEW y, y = prev + k
      PROVE  Behind(N, y, ents[k].term, IF k = 1 THEN TermAt(old, prev) ELSE ents[k - 1].term)
  BY <1>1, <1>3 DEF ValidMsg
<1>4. ASSUME NEW k \in 1..Len(ents), NEW y, y = prev + k PROVE InMsg(m, y, ents[k])
  BY <1>1, <1>4 DEF InMsg
<1> HIDE DEF prev, ents
<1>5. ASSUME NEW y \in 1..Len(log)
      PROVE  /\ Behind(N, y, log[y].term, TermAt(log, y - 1))
             /\ InLog(old, y, log[y]) \/ InMsg(m, y, log[y])
  <2>1. CASE y < x
    <3>1. y \in 1..Len(old) /\ y \in 1..(x - 1) /\ (y - 1 = 0 \/ y - 1 \in 1..(x - 1))
      BY <1>1, <2>1
    <3>2. log[y] = old[y] /\ TermAt(log, y - 1) = TermAt(old, y - 1)
      BY <1>2, <3>1 DEF TermAt
    <3> QED BY <3>1, <3>2 DEF Valid, InLog
  <2>2. CASE ~(y < x)
    <3> DEFINE k == y - prev
    <3>1. k \in 1..Len(ents) /\ y = prev + k /\ y \in x..(prev + Len(ents)) /\ k \in Nat
      BY <1>1, <2>2
    <3>2. log[y] = ents[k]
      BY <1>2, <3>1
    <3>3. TermAt(log, y - 1) = IF k = 1 THEN TermAt(old, prev) ELSE ents[k - 1].term
      <4>1. CASE k = 1
        <5>1. y - 1 = prev /\ (prev = 0 \/ prev \in 1..(x - 1))
          BY <1>1, <3>1, <4>1
        <5>2. TermAt(log, prev) = TermAt(old, prev)
          BY <1>2, <5>1 DEF TermAt
        <5> QED BY <4>1, <5>1, <5>2
      <4>2. CASE k # 1
        <5>1. y - 1 # 0 /\ (y - 1) - prev = k - 1
          BY <1>1, <3>1, <4>2
        <5>2. log[y - 1].term = ents[k - 1].term
          <6>1. CASE y - 1 >= x
            <7>1. y - 1 \in x..(prev + Len(ents))
              BY <1>1, <3>1, <6>1
            <7> QED BY <1>2, <5>1, <7>1
          <6>2. CASE ~(y - 1 >= x)
            <7>1. y - 1 \in (prev + 1)..(x - 1) /\ y - 1 \in 1..(x - 1)
              BY <1>1, <3>1, <4>2, <6>2
            <7> QED BY <1>2, <5>1, <7>1
          <6> QED BY <6>1, <6>2
        <5> QED BY <4>2, <5>1, <5>2 DEF TermAt
      <4> QED BY <4>1, <4>2
    <3> HIDE DEF k
    <3>4. Behind(N, y, ents[k].term, IF k = 1 THEN TermAt(old, prev) ELSE ents[k - 1].term) /\ InMsg(m, y, ents[k])
      BY <1>3, <1>4, <3>1
    <3> QED BY <3>2, <3>3, <3>4
  <2> QED BY <2>1, <2>2
<1> QED BY <1>5 DEF Valid, InLog

\* Acknowledging or rejecting is no part of the log: msgs and log of a server that sends.
LEMMA SendFields ==
    ASSUME NEW r, StructOK(r), NEW m
    PROVE  Send(r, m).msgs = r.msgs \cup {m} /\ Send(r, m).log = r.log
BY DEF Send, StructOK, RaftStruct

\* handleAppendEntries (raft.go:1471-1507)
LEMMA HandleAppendEntriesFit ==
    ASSUME NEW i \in Server, NEW r, NEW d, NEW N, NEW K, Fit(i, r, d, N, K), r.state = "Follower",
           NEW m \in N, m.type = "MsgApp"
    PROVE  Fit(i, HandleAppendEntries(i, r, m), d, N, K)
<1> DEFINE s    == HandleAppendEntries(i, r, m)
           hint == FindConflictByTerm(r, Min2(m.index, LastIndex(r)), m.logTerm)
           r1   == MaybeAppend(r, m.index, m.entries, m.commit)
           n1   == AppResp(i, r, m, r.committed)
           n2   == AppResp(i, r, m, AckIndex(r1, m))
           n3   == [AppResp(i, r, m, m.index) EXCEPT
                      !.reject = TRUE, !.rejectHint = hint, !.logTerm = Term(r, hint)]
<1>1. Good(i, r, d, N) /\ StructOK(r) /\ m \in Message /\ Known(N, K, m) /\ ReplicaInv(i, r, d, N, K)
  BY DEF Fit, Good, NetLogInv
<1>2. Quiet(i, r, s)
  BY <1>1, HandleAppendEntriesQuiet
<1>3. Good(i, s, d, N) /\ s.state = "Follower"
  BY <1>1, <1>2, QuietKeepsInv DEF Quiet
<1>4. \/ s = Send(r, n1) \/ s = Send(r, n3)
      \/ s = Send(r1, n2) /\ ~(m.index < r.committed) /\ MatchTerm(r, m.index, m.logTerm)
  BY DEF HandleAppendEntries
<1>5. \A n \in {n1, n2, n3} : n.type = "MsgAppResp" /\ n.entries = <<>>
  <2> DEFINE at == AckIndex(r1, m)
             t  == Term(r, hint)
  <2> HIDE DEF at, t, hint
  <2>1. n1.type = "MsgAppResp" /\ n1.entries = <<>>
    BY DEF AppResp, Msg
  <2>2. AppResp(i, r, m, at).type = "MsgAppResp" /\ AppResp(i, r, m, at).entries = <<>>
    BY DEF AppResp, Msg
  <2>3. LET b == [AppResp(i, r, m, m.index) EXCEPT !.reject = TRUE, !.rejectHint = hint, !.logTerm = t]
        IN  b.type = "MsgAppResp" /\ b.entries = <<>>
    BY DEF AppResp, Msg
  <2> QED BY <2>1, <2>2, <2>3 DEF at, t
<1>6. \A n \in {n1, n2, n3} : Known(N, K, n) /\ n.type # "MsgVote"
  <2> HIDE DEF n1, n2, n3
  <2> QED BY <1>5, EmptyIsKnown DEF Answered, Grants
<1>7. CASE s = Send(r, n1) \/ s = Send(r, n3)
  <2> HIDE DEF s, n1, n3
  <2>1. s.log = r.log /\ (s.msgs = r.msgs \cup {n1} \/ s.msgs = r.msgs \cup {n3})
    BY <1>1, <1>7, SendFields
  <2>2. Fit(i, s, d, N, K)
    BY <1>3, <1>6, <2>1, KnownKeepsFit
  <2> QED BY <2>2 DEF s
<1>8. CASE s = Send(r1, n2) /\ ~(m.index < r.committed) /\ MatchTerm(r, m.index, m.logTerm)
  <2>1. /\ m.index \in Nat /\ m.logTerm \in Nat /\ m.entries \in Seq(Entry) /\ m.commit \in Nat
        /\ r.offset \in Nat /\ r.committed \in Nat /\ r.offset <= r.committed /\ m.index >= r.offset
        /\ r.log \in Seq(Entry) /\ Len(r.log) \in Nat
    BY <1>1, <1>8, StructFields DEF Message, StructOK
  <2>2. /\ r1.msgs = r.msgs
        /\ r1.log = r.log \/ \E x : Splices(r.log, r1.log, m.index, m.entries, x)
    <3> DEFINE prev == m.index
               ents == m.entries
               c    == m.commit
               t    == MaybeAppend(r, prev, ents, c)
    <3> HIDE DEF prev, ents, c
    <3>1. /\ t.msgs = r.msgs
          /\ t.committed = r.committed \/ t.committed = Min2(c, prev + Len(ents))
          /\ \/ t.log = r.log /\ (t.panicked \/ \A k \in 1..Len(ents) : MatchTerm(r, prev + k, ents[k].term))
             \/ \E x : x > r.committed /\ Splices(r.log, t.log, prev, ents, x)
      BY <1>1, <2>1, MaybeAppendLog DEF prev, ents, c
    <3> HIDE DEF t
    <3>2. t.msgs = r.msgs /\ (t.log = r.log \/ \E x : Splices(r.log, t.log, prev, ents, x))
      BY <3>1
    <3> QED BY <3>2 DEF t, prev, ents, c
  <2>3. StructOK(r1)
    BY <1>1, <2>1, MaybeAppendQuiet DEF Quiet, Grows
  <2> HIDE DEF r1, n2, s
  <2>4. s.log = r1.log /\ s.msgs = r.msgs \cup {n2}
    BY <1>8, <2>2, <2>3, SendFields
  <2>5. CASE r1.log = r.log
    <3>1. Fit(i, s, d, N, K)
      BY <1>3, <1>6, <2>4, <2>5, KnownKeepsFit
    <3> QED BY <3>1 DEF s
  <2>6. CASE \E x : Splices(r.log, r1.log, m.index, m.entries, x)
    <3>1. PICK x : Splices(r.log, r1.log, m.index, m.entries, x)
      BY <2>6
    <3>2. m.index <= Len(r.log)
      BY <2>1, <3>1 DEF Splices
    <3>3. m.logTerm = TermAt(r.log, m.index)
      BY <1>1, <1>8, <2>1, <3>2, TermIsTermAt DEF MatchTerm
    <3>4. /\ Valid(N, r1.log)
          /\ \A y, e : InLog(r1.log, y, e) => InLog(r.log, y, e) \/ InMsg(m, y, e)
      BY <1>1, <2>1, <3>1, <3>3, SpliceIsValid DEF ReplicaInv, LogInv, Known
    <3>5. \A y, e : InLog(r1.log, y, e) => <<y, e>> \in K
      BY <1>1, <3>4 DEF ReplicaInv, LogInv, Known
    <3>6. Fit(i, s, d, N, K)
      BY <1>3, <1>6, <2>4, <3>4, <3>5, KnownKeepsFit
    <3> QED BY <3>6 DEF s
  <2> QED BY <2>2, <2>5, <2>6
<1> QED BY <1>4, <1>7, <1>8

\* handleSnapshot and restore (raft.go:1514-1584): a log that is replaced as a whole.
LEMMA HandleSnapshotFit ==
    ASSUME NEW i \in Server, NEW r, NEW d, NEW N, NEW K, Fit(i, r, d, N, K), r.state = "Follower",
           NEW m \in N, m.type = "MsgSnap", SnapshotComplete(m)
    PROVE  Fit(i, HandleSnapshot(i, r, m), d, N, K)
<1> DEFINE s  == HandleSnapshot(i, r, m)
           r2 == [r EXCEPT !.log = m.entries, !.offset = m.index, !.committed = m.index]
           r1 == IF m.index <= r.committed THEN r
                 ELSE IF MatchTerm(r, m.index, m.logTerm) THEN CommitTo(r, m.index)
                 ELSE r2
           n  == AppResp(i, r, m, r1.committed)
<1>1. Good(i, r, d, N) /\ StructOK(r) /\ m \in Message /\ Known(N, K, m) /\ ReplicaInv(i, r, d, N, K)
  BY DEF Fit, Good, NetLogInv
<1>2. Quiet(i, r, s)
  BY <1>1, HandleSnapshotQuiet
<1>3. Good(i, s, d, N) /\ s.state = "Follower"
  BY <1>1, <1>2, QuietKeepsInv DEF Quiet
<1>4. s = Send(r1, n)
  BY DEF HandleSnapshot
<1>5. Known(N, K, n) /\ n.type # "MsgVote"
  <2>1. n.type = "MsgAppResp" /\ n.entries = <<>>
    <3> DEFINE c == r1.committed
    <3> HIDE DEF c
    <3>1. AppResp(i, r, m, c).type = "MsgAppResp" /\ AppResp(i, r, m, c).entries = <<>>
      BY DEF AppResp, Msg
    <3> QED BY <3>1 DEF c
  <2> HIDE DEF n
  <2> QED BY <2>1, EmptyIsKnown DEF Answered, Grants
<1>6. r1.msgs = r.msgs /\ (r1.log = r.log \/ r1.log = m.entries) /\ r1 \in RaftStruct
  <2>1. r2.msgs = r.msgs /\ r2.log = m.entries /\ r2 \in RaftStruct
    BY <1>1 DEF StructOK, RaftStruct, Message
  <2>2. CommitTo(r, m.index).msgs = r.msgs /\ CommitTo(r, m.index).log = r.log /\ CommitTo(r, m.index) \in RaftStruct
    <3>1. m.index \in Nat
      BY <1>1 DEF Message
    <3> QED BY <1>1, <3>1, CommitToLog, CommitToQuiet DEF Quiet, Grows, StructOK
  <2> HIDE DEF r2
  <2> QED BY <1>1, <2>1, <2>2 DEF StructOK
<1>7. Valid(N, m.entries) /\ \A x, e : InLog(m.entries, x, e) => <<x, e>> \in K
  <2>1. m.entries \in Seq(Entry) /\ Len(m.entries) \in Nat /\ Anchor(m) = 0 /\ AnchorTerm(m) = 0
    BY <1>1 DEF Message, Anchor, AnchorTerm
  <2>2. ASSUME NEW k \in 1..Len(m.entries), NEW x, x = Anchor(m) + k
        PROVE  /\ Behind(N, x, m.entries[k].term, IF k = 1 THEN 0 ELSE m.entries[k - 1].term)
               /\ InMsg(m, x, m.entries[k])
    BY <1>1, <2>1, <2>2 DEF Known, ValidMsg, InMsg
  <2>3. ASSUME NEW k \in 1..Len(m.entries)
        PROVE  Behind(N, k, m.entries[k].term, TermAt(m.entries, k - 1)) /\ InMsg(m, k, m.entries[k])
    <3>1. k = Anchor(m) + k /\ (k - 1 = 0 <=> k = 1)
      BY <2>1
    <3>2. TermAt(m.entries, k - 1) = IF k = 1 THEN 0 ELSE m.entries[k - 1].term
      BY <3>1 DEF TermAt
    <3> QED BY <2>2, <3>1, <3>2
  <2> QED BY <1>1, <2>3 DEF Valid, InLog, Known
<1> HIDE DEF r1, n, s
<1>8. s.log = r1.log /\ s.msgs = r1.msgs \cup {n}
  BY <1>4, <1>6 DEF Send, RaftStruct
<1>9. Fit(i, s, d, N, K)
  BY <1>3, <1>5, <1>6, <1>7, <1>8, KnownKeepsFit
<1> QED BY <1>9 DEF s

\* A vote answers a request that is in the network (raft.go:918-966).
LEMMA HandleVoteFit ==
    ASSUME NEW i \in Server, NEW r, NEW d, NEW N, NEW K, Fit(i, r, d, N, K), NEW m \in N,
           m.type \in {"MsgVote", "MsgPreVote"}, m.type = "MsgVote" => m.term = r.Term
    PROVE  Fit(i, HandleVote(i, r, m), d, N, K)
<1> DEFINE s  == HandleVote(i, r, m)
           n  == Msg(RespType(m.type), i, m.from, m.term)
           n1 == [n EXCEPT !.term = r.Term, !.reject = TRUE]
           r1 == [r EXCEPT !.electionElapsed = 0, !.Vote = m.from]
<1>1. Good(i, r, d, N) /\ StructOK(r) /\ m \in Message /\ m.from \in Server
  BY DEF Fit, Good, Message
<1>2. Good(i, s, d, N)
  BY <1>1, HandleVoteKeepsInv
<1>3. s \in {Send(r, n1), Send(r1, n), Send(r, n)}
  BY DEF HandleVote
<1>4. r1.log = r.log /\ r1.msgs = r.msgs /\ r1.state = r.state /\ r1.Term = r.Term /\ r1 \in RaftStruct
  BY <1>1 DEF StructOK, RaftStruct
<1>5. /\ n.type = RespType(m.type) /\ n.to = m.from /\ n.term = m.term /\ n.entries = <<>>
      /\ n1.type = RespType(m.type) /\ n1.reject = TRUE /\ n1.entries = <<>>
  BY DEF Msg
<1> HIDE DEF n, n1
<1>6. s.log = r.log /\ s.state = r.state /\ s.Term = r.Term /\ (s.msgs = r.msgs \cup {n} \/ s.msgs = r.msgs \cup {n1})
  <2>1. CASE s = Send(r1, n)
    <3> HIDE DEF r1
    <3> QED BY <1>4, <2>1 DEF Send, RaftStruct
  <2>2. CASE s = Send(r, n1) \/ s = Send(r, n)
    BY <1>1, <2>2 DEF Send, StructOK, RaftStruct
  <2> QED BY <1>3, <2>1, <2>2
<1> HIDE DEF s, r1
<1>7. Known(N, K, n) /\ Known(N, K, n1) /\ n.type # "MsgVote" /\ n1.type # "MsgVote"
  <2>1. Answered(N, n)
    BY <1>5 DEF Answered, Grants, RespType, Asks
  <2>2. Answered(N, n1)
    BY <1>5 DEF Answered, Grants
  <2> QED BY <1>5, <2>1, <2>2, EmptyIsKnown DEF RespType
<1>8. Fit(i, s, d, N, K)
  BY <1>2, <1>6, <1>7, KnownKeepsFit
<1> QED BY <1>8 DEF s

\* bcastHeartbeat (raft.go:493-509, 546-552)
LEMMA BeatFit ==
    ASSUME NEW i \in Server, NEW r, NEW d, NEW N, NEW K, Fit(i, r, d, N, K), r.state = "Leader"
    PROVE  Fit(i, [r EXCEPT !.msgs = r.msgs \cup {Heartbeat(i, r, p) : p \in Server \ {i}}], d, N, K)
<1> DEFINE M   == {Heartbeat(i, r, p) : p \in Server \ {i}}
           all == r.msgs \cup M
           s   == [r EXCEPT !.msgs = all]
<1>1. Good(i, r, d, N) /\ StructOK(r)
  BY DEF Fit, Good
<1>2. ASSUME NEW m \in M PROVE QuietMessage(i, r, m) /\ m.type = "MsgHeartbeat" /\ m.entries = <<>>
  <2>1. PICK p \in Server : m = Heartbeat(i, r, p)
    OBVIOUS
  <2> DEFINE n == Msg("MsgHeartbeat", i, p, r.Term)
             c == Min2(r.prs[p].Match, r.committed)
  <2>2. m = [n EXCEPT !.commit = c]
    BY <2>1 DEF Heartbeat
  <2>3. c \in Nat
    BY <1>1, StructFields, MinMaxType DEF ProgressRecord
  <2>4. IsMsg(n, "MsgHeartbeat", i, p, r.Term)
    <3>1. "MsgHeartbeat" \in MessageTypes
      BY DEF MessageTypes
    <3> QED BY <1>1, <3>1, StructFields, MsgType
  <2> HIDE DEF n, c
  <2>5. m \in Message /\ m.type = "MsgHeartbeat" /\ m.from = i /\ m.term = r.Term /\ m.entries = <<>>
    BY <2>2, <2>3, <2>4 DEF IsMsg, Message
  <2> QED BY <2>5, QuietMessages DEF SnapshotComplete
<1>3. Good(i, s, d, N)
  <2> HIDE DEF M
  <2>1. Quiet(i, r, [r EXCEPT !.msgs = r.msgs \cup M])
    BY <1>1, <1>2, SendsQuiet
  <2> QED BY <1>1, <2>1, QuietKeepsInv
<1>4. \A m \in M : Known(N, K, m) /\ m.type # "MsgVote"
  BY <1>2, EmptyIsKnown DEF Answered, Grants
<1> SUFFICES Fit(i, s, d, N, K)
  OBVIOUS
<1>5. \A m \in all : m \in r.msgs \/ (Known(N, K, m) /\ m.type # "MsgVote")
  BY <1>4
<1> HIDE DEF M, all
<1>6. s.log = r.log /\ s.state = r.state /\ s.Term = r.Term /\ s.msgs = all
  BY <1>1 DEF StructOK, RaftStruct
<1> HIDE DEF s
<1> QED BY <1>3, <1>5, <1>6, KnownKeepsFit

-----------------------------------------------------------------------------
(* Campaigns *)

\* No server tells of a vote in a term it has not been in.
LEMMA ToldInPast ==
    ASSUME NEW i, NEW r, NEW d, NEW N, Good(i, r, d, N), NEW m \in r.msgs \cup N, TellsVote(m), m.from = i
    PROVE  ~(m.term > r.Term)
<1>1. m \in Message /\ StructOK(r) /\ DiskOK(d) /\ PastDisk(r, d)
  BY StructFields DEF Good, ServerInv
<1>2. Holds(r, m)
  <2>1. CASE m \in r.msgs
    BY <2>1 DEF Good, ServerInv, OutboxInv
  <2>2. CASE m \in N
    <3>1. Holds(d, m)
      BY <2>2 DEF Good, ServerInv, SentInv
    <3> QED BY <1>1, <3>1, DiskVoteHeld
  <2> QED BY <2>1, <2>2
<1>3. r.Term \in Nat /\ m.term \in Nat
  BY <1>1, StructFields DEF Message
<1> QED BY <1>2, <1>3 DEF Holds

\* becomeCandidate (raft.go:689-701): nobody knows of the new term.
LEMMA NewCandidateFit ==
    ASSUME Several, NEW i \in Server, NEW r, NEW d, NEW N, NEW K, Fit(i, r, d, N, K)
    PROVE  LET c == NewCandidate(i, r)
           IN  /\ Fit(i, c, d, N, K) /\ StructOK(c) /\ c.state = "Candidate" /\ c.Vote = i
               /\ \A q \in c.msgs \cup N : ~Asks(q, i, c.Term)
<1> DEFINE c == NewCandidate(i, r)
<1>1. Good(i, r, d, N) /\ StructOK(r) /\ r.Term \in Nat /\ ReplicaInv(i, r, d, N, K)
  BY StructFields DEF Fit, Good
<1>2. /\ Turns(r, c, r.Term + 1, i, "Candidate")
      /\ \A p \in Server : c.votes[p] = "yes" => p = i
  <2>1. FALSE \in BOOLEAN
    OBVIOUS
  <2> QED BY <1>1, <2>1, CampaignElectionTurns
<1> SUFFICES /\ Fit(i, c, d, N, K) /\ StructOK(c) /\ c.state = "Candidate" /\ c.Vote = i
             /\ \A q \in c.msgs \cup N : ~Asks(q, i, c.Term)
  OBVIOUS
<1> HIDE DEF c
<1> DEFINE t == r.Term + 1
<1>3. t \in Nat /\ t > r.Term
  BY <1>1
<1>4. Turns(r, c, t, i, "Candidate")
  BY <1>2
<1> HIDE DEF t
<1>5. Good(i, c, d, N)
  BY <1>1, <1>2, <1>3, <1>4, NewTermKeepsInv
<1>6. c.state = "Candidate" /\ c.Vote = i /\ c.Term = t /\ c.msgs = r.msgs /\ c.log = r.log /\ StructOK(c)
  BY <1>4, <1>5 DEF Turns, SameLog, Good
<1>7. \A q \in c.msgs \cup N : ~Asks(q, i, t)
  BY <1>1, <1>3, <1>6, ToldInPast DEF Asks, TellsVote
<1>8. LogInv(c, d, N, K)
  BY <1>1, <1>6 DEF ReplicaInv, LogInv
<1>9. AskInv(i, c, N)
  BY <1>1, <1>6, <1>7 DEF ReplicaInv, AskInv
<1>10. CandidateInv(i, c, N, K)
  <2>1. ~Elected(N, i, t)
    BY <1>7, ElectedAsked DEF Fit
  <2> QED BY <1>6, <2>1 DEF CandidateInv
<1>11. LeaderInv(c, K)
  BY <1>6 DEF LeaderInv
<1> QED BY <1>5, <1>6, <1>7, <1>8, <1>9, <1>10, <1>11 DEF Fit, ReplicaInv

\* The requests of a campaign are about the log of the candidate (raft.go:785-844).
LEMMA VoteRequestFields ==
    ASSUME NEW i \in Server, NEW c, StructOK(c), NEW type, NEW term, NEW transfer,
           NEW m \in VoteRequests(i, c, type, term, transfer)
    PROVE  /\ m.type = type /\ m.from = i /\ m.term = term /\ m.entries = <<>>
           /\ m.index = Len(c.log) /\ m.logTerm = TermAt(c.log, Len(c.log))
<1>1. PICK p \in Server : m = [Msg(type, i, p, term) EXCEPT !.index = LastIndex(c),
                                 !.logTerm = LastTerm(c), !.transfer = transfer]
  BY DEF VoteRequests
<1>2. LastIndex(c) = Len(c.log) /\ LastTerm(c) = TermAt(c.log, Len(c.log))
  <2>1. Len(c.log) \in Nat /\ Len(c.log) >= c.offset /\ Len(c.log) <= Len(c.log)
    BY StructFields DEF StructOK
  <2>2. Term(c, Len(c.log)) = TermAt(c.log, Len(c.log))
    BY <2>1, TermIsTermAt
  <2> QED BY <2>2 DEF LastIndex, LastTerm
<1> DEFINE x == LastIndex(c)
           t == LastTerm(c)
<1>3. m = [Msg(type, i, p, term) EXCEPT !.index = x, !.logTerm = t, !.transfer = transfer]
  BY <1>1
<1> HIDE DEF x, t
<1>4. m.type = type /\ m.from = i /\ m.term = term /\ m.entries = <<>> /\ m.index = x /\ m.logTerm = t
  BY <1>3 DEF Msg
<1> QED BY <1>2, <1>4 DEF x, t

\* campaign(campaignElection) and campaign(campaignTransfer) (raft.go:785-844)
LEMMA CampaignElectionFits ==
    ASSUME Several, NEW i \in Server, NEW r, NEW d, NEW N, NEW K, Fit(i, r, d, N, K), NEW transfer \in BOOLEAN
    PROVE  Fits(i, CampaignElection(i, r, transfer), d, N, K)
<1> DEFINE c == NewCandidate(i, r)
           M == VoteRequests(i, c, "MsgVote", c.Term, transfer)
           all == c.msgs \cup M
           s == [c EXCEPT !.msgs = all]
<1>1. /\ Fit(i, c, d, N, K) /\ StructOK(c) /\ c.state = "Candidate" /\ c.Vote = i
      /\ \A q \in c.msgs \cup N : ~Asks(q, i, c.Term)
  BY NewCandidateFit
<1>2. /\ TallyVotes(c) = "VoteWon" => CampaignElection(i, r, transfer) = BecomeLeader(i, c)
      /\ TallyVotes(c) # "VoteWon" => CampaignElection(i, r, transfer) = s
  BY DEF CampaignElection, NewCandidate
<1> HIDE DEF c
<1>3. CASE TallyVotes(c) = "VoteWon"
  BY <1>1, <1>2, <1>3, BecomeLeaderFits
<1>4. CASE TallyVotes(c) # "VoteWon"
  <2>1. Good(i, c, d, N) /\ ReplicaInv(i, c, d, N, K) /\ c.Term \in Nat
    BY <1>1, StructFields DEF Fit
  <2>2. \A m \in M : QuietMessage(i, c, m)
    BY <1>1, <2>1, VoteRequestsQuiet
  <2>3. \A m \in M : /\ m.type = "MsgVote" /\ m.from = i /\ m.term = c.Term /\ m.entries = <<>>
                     /\ m.index = Len(c.log) /\ m.logTerm = TermAt(c.log, Len(c.log))
    BY <1>1, VoteRequestFields
  <2> HIDE DEF M
  <2>4. Good(i, s, d, N)
    <3>1. Quiet(i, c, s)
      BY <1>1, <2>2, SendsQuiet
    <3> HIDE DEF s
    <3> QED BY <2>1, <3>1, QuietKeepsInv
  <2>5. s.log = c.log /\ s.state = c.state /\ s.Term = c.Term /\ s.msgs = all
    <3> HIDE DEF all
    <3> QED BY <1>1 DEF StructOK, RaftStruct
  <2> HIDE DEF s
  <2>6. LogInv(s, d, N, K)
    <3>1. \A m \in M : Known(N, K, m)
      BY <2>3, EmptyIsKnown DEF Answered, Grants
    <3> QED BY <2>1, <2>5, <3>1 DEF ReplicaInv, LogInv
  <2>7. AskInv(i, s, N)
    <3>1. ASSUME NEW t, NEW q \in s.msgs \cup N, Asks(q, i, t)
          PROVE  \/ q \in c.msgs \cup N /\ t # c.Term
                 \/ t = c.Term /\ q.index = Len(c.log) /\ q.logTerm = TermAt(c.log, Len(c.log))
      <4>1. CASE q \in M
        BY <2>3, <3>1, <4>1 DEF Asks
      <4>2. CASE q \in c.msgs \cup N
        BY <1>1, <3>1, <4>2
      <4> QED BY <2>5, <4>1, <4>2
    <3>2. ASSUME NEW t, NEW q \in s.msgs \cup N, NEW n \in s.msgs \cup N, Asks(q, i, t), Asks(n, i, t)
          PROVE  q.index = n.index /\ q.logTerm = n.logTerm
      <4>1. CASE t = c.Term
        BY <3>1, <3>2, <4>1
      <4>2. CASE t # c.Term
        <5>1. q \in c.msgs \cup N /\ n \in c.msgs \cup N
          BY <3>1, <3>2, <4>2
        <5> QED BY <2>1, <3>2, <5>1 DEF ReplicaInv, AskInv
      <4> QED BY <4>1, <4>2
    <3>3. \A q \in s.msgs \cup N :
             Asks(q, i, s.Term) => q.index = Len(s.log) /\ q.logTerm = TermAt(s.log, Len(s.log))
      BY <2>5, <3>1
    <3> QED BY <3>2, <3>3 DEF AskInv
  <2>8. CandidateInv(i, s, N, K) /\ LeaderInv(s, K)
    BY <1>1, <2>1, <2>5 DEF ReplicaInv, CandidateInv, LeaderInv
  <2>9. Fit(i, s, d, N, K)
    BY <1>1, <2>4, <2>6, <2>7, <2>8 DEF Fit, ReplicaInv
  <2> QED BY <1>2, <1>4, <2>9, FitIsFits
<1> QED BY <1>3, <1>4

\* campaign(campaignPreElection) (raft.go:785-844)
LEMMA CampaignPreElectionFits ==
    ASSUME Several, NEW i \in Server, NEW r, NEW d, NEW N, NEW K, Fit(i, r, d, N, K)
    PROVE  Fits(i, CampaignPreElection(i, r), d, N, K)
<1> DEFINE c == NewPreCandidate(i, r)
           next == c.Term + 1
           no == FALSE
           M == VoteRequests(i, c, "MsgPreVote", next, no)
           all == c.msgs \cup M
           s == [c EXCEPT !.msgs = all]
<1>1. Good(i, r, d, N) /\ StructOK(r)
  BY DEF Fit, Good
<1>2. Turns(r, c, r.Term, r.Vote, "PreCandidate")
  BY <1>1, CampaignPreElectionTurns
<1>3. /\ TallyVotes(c) = "VoteWon" => CampaignPreElection(i, r) = CampaignElection(i, c, FALSE)
      /\ TallyVotes(c) # "VoteWon" => CampaignPreElection(i, r) = s
  BY DEF CampaignPreElection, NewPreCandidate
<1> HIDE DEF c
<1>4. Fit(i, c, d, N, K) /\ StructOK(c) /\ Good(i, c, d, N) /\ next \in Nat
  <2>1. Good(i, c, d, N)
    BY <1>1, <1>2, SameTermKeepsInv
  <2>2. StructOK(c)
    BY <2>1 DEF Good
  <2>3. c.Term \in Nat
    BY <2>2, StructFields
  <2> QED BY <1>2, <2>1, <2>2, <2>3, TurnKeepsFit
<1>n. no \in BOOLEAN
  OBVIOUS
<1> HIDE DEF next, no
<1>5. CASE TallyVotes(c) = "VoteWon"
  <2>1. FALSE \in BOOLEAN
    OBVIOUS
  <2>2. Fits(i, CampaignElection(i, c, FALSE), d, N, K)
    BY <1>4, <2>1, CampaignElectionFits
  <2> QED BY <1>3, <1>5, <2>2
<1>6. CASE TallyVotes(c) # "VoteWon"
  <2>1. ASSUME NEW m \in M PROVE QuietMessage(i, c, m)
    BY <1>4, <1>n, VoteRequestsQuiet
  <2>2. \A m \in M : m.type = "MsgPreVote" /\ m.entries = <<>>
    BY <1>4, VoteRequestFields
  <2> HIDE DEF M
  <2>3. Good(i, s, d, N)
    <3>1. Quiet(i, c, s)
      BY <1>4, <2>1, SendsQuiet
    <3> HIDE DEF s
    <3> QED BY <1>4, <3>1, QuietKeepsInv
  <2>4. s.log = c.log /\ s.state = c.state /\ s.Term = c.Term /\ s.msgs = all
    <3> HIDE DEF all
    <3> QED BY <1>4 DEF StructOK, RaftStruct
  <2>5. \A m \in M : Known(N, K, m) /\ m.type # "MsgVote"
    BY <2>2, EmptyIsKnown DEF Answered, Grants
  <2> HIDE DEF s
  <2>6. Fit(i, s, d, N, K)
    BY <1>4, <2>3, <2>4, <2>5, KnownKeepsFit
  <2> QED BY <1>3, <1>6, <2>6, FitIsFits
<1> QED BY <1>5, <1>6

\* Answers to vote requests (raft.go:1395-1411)
LEMMA HandleVoteRespFits ==
    ASSUME Several, scenario \in Scenarios, NEW i \in Server, NEW r, NEW d, NEW N, NEW K, Fit(i, r, d, N, K),
           NEW m \in N, m.to = i, m.type = "MsgVoteResp" => m.term = r.Term
    PROVE  Fits(i, HandleVoteResp(i, r, m), d, N, K)
<1> DEFINE c == Poll(r, m.from, ~m.reject)
           s == HandleVoteResp(i, r, m)
<1>1. Good(i, r, d, N) /\ StructOK(r) /\ m \in Message
  BY DEF Fit, Good
<1>2. \/ ~Asked(r, m) /\ s = r
      \/ Asked(r, m) /\ s = c
      \/ Asked(r, m) /\ s = BecomeFollower(c, c.Term, None)
      \/ r.state = "PreCandidate" /\ Asked(r, m) /\ s = CampaignElection(i, c, FALSE)
      \/ /\ r.state = "Candidate" /\ Asked(r, m) /\ TallyVotes(c) = "VoteWon"
         /\ s = BcastAppend(i, BecomeLeader(i, c))
  BY <1>1, HandleVoteRespCases
<1>3. Asked(r, m) => Good(i, c, d, N) /\ Turns(r, c, r.Term, r.Vote, r.state)
  BY <1>1, AnswerKeepsInv
<1> SUFFICES Fits(i, s, d, N, K)
  OBVIOUS
<1> HIDE DEF c, s
<1>4. CASE s = r
  BY <1>4, FitIsFits
<1>5. ASSUME Asked(r, m) PROVE Fit(i, c, d, N, K) /\ StructOK(c) /\ c.state = r.state
  BY <1>3, <1>5, TurnKeepsFit DEF Turns, Good
<1>6. CASE Asked(r, m) /\ s = c
  BY <1>5, <1>6, FitIsFits
<1>7. CASE Asked(r, m) /\ s = BecomeFollower(c, c.Term, None)
  <2>1. None \in Server \cup {None} /\ c.Term \in Nat
    BY <1>5, <1>7, StructFields
  <2>2. Good(i, s, d, N)
    BY <1>3, <1>7, <2>1, StepDownKeepsInv
  <2>3. Turns(c, s, c.Term, KeptVote(c, c.Term), "Follower")
    BY <1>5, <1>7, <2>1, BecomeFollowerTurns
  <2>4. Fit(i, s, d, N, K)
    BY <1>5, <1>7, <2>2, <2>3, TurnKeepsFit
  <2> QED BY <2>4, FitIsFits
<1>8. CASE Asked(r, m) /\ s = CampaignElection(i, c, FALSE)
  <2>1. FALSE \in BOOLEAN
    OBVIOUS
  <2> QED BY <1>5, <1>8, <2>1, CampaignElectionFits
<1>9. CASE /\ r.state = "Candidate" /\ Asked(r, m) /\ TallyVotes(c) = "VoteWon"
           /\ s = BcastAppend(i, BecomeLeader(i, c))
  <2> DEFINE l == BecomeLeader(i, c)
  <2>1. Fits(i, l, d, N, K) /\ l.state = "Leader"
    BY <1>5, <1>9, BecomeLeaderFits
  <2>2. s = BcastAppend(i, l)
    BY <1>9
  <2> HIDE DEF l
  <2>3. StructOK(l)
    BY <2>1 DEF Fits, Fit, Good
  <2>4. Calm(i, l, s)
    BY <2>1, <2>2, <2>3, BcastAppendCalm
  <2> QED BY <2>1, <2>4, CalmKeepsFits
<1> QED BY <1>2, <1>4, <1>6, <1>7, <1>8, <1>9

-----------------------------------------------------------------------------
(* Steps of the system *)

\* Only one server is elected in a term.
LEMMA ElectedIsOne ==
    ASSUME Several, NEW N, NEW K, NetLogInv(N, K), \A p \in Server : OneVote(p, N),
           NEW a \in Server, NEW b \in Server, NEW t, Elected(N, a, t), Elected(N, b, t)
    PROVE  a = b
<1>1. ASSUME NEW c \in Server, Elected(N, c, t), NEW p \in Voters(N, c, t)
      PROVE  \E m \in N : TellsVote(m) /\ m.from = p /\ m.term = t /\ Choice(m) = c
  <2>1. CASE p = c
    <3>1. PICK q \in N : Asks(q, c, t)
      BY <1>1, ElectedAsked
    <3> QED BY <2>1, <3>1 DEF Asks, TellsVote, Choice, Grants
  <2>2. CASE Granted(N, p, c, t)
    BY <2>2 DEF Granted, TellsVote, Choice
  <2> QED BY <1>1, <2>1, <2>2 DEF Voters
<1>2. PICK p \in Server : p \in Voters(N, a, t) /\ p \in Voters(N, b, t)
  BY ServerAssumption, QuorumsIntersect DEF Elected
<1>3. PICK m \in N : TellsVote(m) /\ m.from = p /\ m.term = t /\ Choice(m) = a
  BY <1>1, <1>2
<1>4. PICK n \in N : TellsVote(n) /\ n.from = p /\ n.term = t /\ Choice(n) = b
  BY <1>1, <1>2
<1> QED BY <1>3, <1>4 DEF OneVote

\* Every step but Ready, Compact and Restart keeps the invariant of its server.
LEMMA StepsFit ==
    ASSUME TypeInv, ElectionInv, Several, NEW K, LogsHold(K), NEW i \in Server,
           \/ Hup(i) \/ LeaseExpires(i) \/ Beat(i) \/ LeaderTimeout(i) \/ Propose(i)
           \/ \E to \in MayTransferTo : TransferLeader(i, to)
           \/ \E to \in Server \ {i} : ReportUnreachable(i, to)
           \/ \E to \in Server \ {i}, failed \in BOOLEAN : ReportSnapshot(i, to, failed)
           \/ \E m \in {n \in net : n.to = i} : Step(i, m)
    PROVE  \E s : Update(i, s) /\ Fits(i, s, disk[i], net, K)
<1> DEFINE r == node[i]
           d == disk[i]
           Ok(s) == Fits(i, s, d, net, K)
<1> SUFFICES \E s : Update(i, s) /\ Ok(s)
  OBVIOUS
<1>1. Good(i, r, d, net) /\ StructOK(r) /\ scenario \in Scenarios /\ Fit(i, r, d, net, K)
  BY DEF TypeInv, ElectionInv, Good, LogsHold, Fit
<1>2. ASSUME NEW t, Fit(i, t, d, net, K), CalmUpdate(i, t) PROVE \E s : Update(i, s) /\ Ok(s)
  <2>1. PICK s : Update(i, s) /\ Calm(i, t, s)
    BY <1>2 DEF CalmUpdate
  <2>2. Ok(s)
    BY <1>2, <2>1, CalmKeepsFit, FitIsFits
  <2> QED BY <2>1, <2>2
<1>3. CASE Hup(i)
  <2>1. Update(i, CampaignPreElection(i, r)) \/ Update(i, CampaignElection(i, r, FALSE))
    BY <1>3 DEF Hup
  <2>2. FALSE \in BOOLEAN
    OBVIOUS
  <2>3. Ok(CampaignPreElection(i, r)) /\ Ok(CampaignElection(i, r, FALSE))
    BY <1>1, <2>2, CampaignElectionFits, CampaignPreElectionFits
  <2> HIDE DEF Ok
  <2> QED BY <2>1, <2>3
<1>4. CASE LeaderTimeout(i)
  <2> DEFINE f == BecomeFollower(r, r.Term, None)
  <2>1. None \in Server \cup {None} /\ r.Term \in Nat
    BY <1>1, StructFields
  <2>2. Good(i, f, d, net) /\ Turns(r, f, r.Term, KeptVote(r, r.Term), "Follower")
    BY <1>1, <2>1, StepDownKeepsInv, BecomeFollowerTurns
  <2>3. CalmUpdate(i, r) \/ CalmUpdate(i, f)
    BY <1>1, <1>4, LeaderTimeoutCalm
  <2> HIDE DEF f, Ok, r, d
  <2>4. Fit(i, f, d, net, K)
    BY <1>1, <2>2, TurnKeepsFit
  <2> QED BY <1>1, <1>2, <2>3, <2>4
<1>5. CASE Beat(i)
  <2> DEFINE s == [r EXCEPT !.msgs = r.msgs \cup {Heartbeat(i, r, p) : p \in Server \ {i}}]
  <2>1. Update(i, s) /\ r.state = "Leader"
    BY <1>5 DEF Beat
  <2>2. Fit(i, s, d, net, K)
    BY <1>1, <2>1, BeatFit
  <2> HIDE DEF s
  <2> QED BY <2>1, <2>2, FitIsFits
<1>6. ASSUME NEW from \in Server, HandleProp(i, r, from) PROVE \E s : Update(i, s) /\ Ok(s)
  <2>1. CASE r.state = "Leader" /\ Update(i, BcastAppend(i, AppendEntry(i, r, "cmd")))
    BY <1>1, <2>1, ProposeFits
  <2>2. CASE CalmUpdate(i, r)
    <3> HIDE DEF Ok
    <3> QED BY <1>1, <1>2, <2>2
  <2> QED BY <1>1, <1>6, <2>1, <2>2, HandlePropCases
<1>7. CASE Propose(i)
  BY <1>6, <1>7 DEF Propose
<1>8. CASE \/ LeaseExpires(i)
           \/ \E to \in MayTransferTo : TransferLeader(i, to)
           \/ \E to \in Server \ {i} : ReportUnreachable(i, to)
           \/ \E to \in Server \ {i}, failed \in BOOLEAN : ReportSnapshot(i, to, failed)
  <2>1. CalmUpdate(i, r)
    BY <1>1, <1>8, LocalActionsCalm
  <2> HIDE DEF Ok
  <2> QED BY <1>1, <1>2, <2>1
<1>9. ASSUME NEW m \in net, m.to = i, Step(i, m) PROVE \E s : Update(i, s) /\ Ok(s)
  <2> DEFINE q == Observe(r, m)
             f == Follow(q, m)
  <2>1. m \in Message /\ SnapshotComplete(m) /\ m.from \in Server
    BY NetMessage DEF Message
  <2>2. Fit(i, q, d, net, K) /\ StructOK(q)
    BY <1>1, <2>1, ObserveFit
  <2>3. m.type \notin {"MsgPreVote", "MsgPreVoteResp"} /\ m.term >= r.Term => q.Term = m.term
    BY <1>1, <2>1, ObservedTerm
  <2>4. CASE StepLowerTerm(i, m)
    <3>1. CalmUpdate(i, r)
      BY <1>1, <2>1, <2>4, LocalActionsCalm
    <3> HIDE DEF Ok
    <3> QED BY <1>1, <1>2, <3>1
  <2>5. CASE StepProp(i, m)
    BY <1>6, <2>1, <2>5 DEF StepProp
  <2>6. CASE StepAppResp(i, m) \/ StepHeartbeatResp(i, m) \/ StepTransferLeader(i, m)
    <3>1. CalmUpdate(i, q)
      BY <1>1, <2>1, <2>2, <2>6, AnswersCalm
    <3> HIDE DEF Ok, q
    <3> QED BY <1>2, <2>2, <3>1
  <2> HIDE DEF q
  <2>7. CASE StepApp(i, m) \/ StepHeartbeat(i, m) \/ StepSnap(i, m)
    <3>1. m.type \in {"MsgApp", "MsgHeartbeat", "MsgSnap"} /\ m.term >= r.Term
      BY <2>7 DEF StepApp, StepHeartbeat, StepSnap, Receives
    <3>2. Fit(i, f, d, net, K) /\ StructOK(f) /\ f.state = "Follower"
      BY <2>1, <2>2, <2>3, <3>1, FollowFit
    <3>3. \/ m.type = "MsgApp" /\ Update(i, HandleAppendEntries(i, f, m))
          \/ m.type = "MsgHeartbeat" /\ Update(i, HandleHeartbeat(i, f, m))
          \/ m.type = "MsgSnap" /\ Update(i, HandleSnapshot(i, f, m))
      BY <2>7 DEF StepApp, StepHeartbeat, StepSnap, Receives, q
    <3> HIDE DEF f
    <3>4. m.type = "MsgApp" => Fit(i, HandleAppendEntries(i, f, m), d, net, K)
      BY <1>9, <3>2, HandleAppendEntriesFit
    <3>5. m.type = "MsgSnap" => Fit(i, HandleSnapshot(i, f, m), d, net, K)
      BY <1>9, <2>1, <3>2, HandleSnapshotFit
    <3>6. Fit(i, HandleHeartbeat(i, f, m), d, net, K)
      BY <2>1, <3>2, HandleHeartbeatCalm, CalmKeepsFit
    <3> QED BY <3>3, <3>4, <3>5, <3>6, FitIsFits
  <2>8. CASE StepVote(i, m)
    <3>1. /\ Update(i, HandleVote(i, q, m)) /\ m.type \in {"MsgVote", "MsgPreVote"}
          /\ m.term >= r.Term
      BY <2>8 DEF StepVote, Receives, q
    <3>2. Fit(i, HandleVote(i, q, m), d, net, K)
      BY <1>9, <2>2, <2>3, <3>1, HandleVoteFit
    <3> QED BY <3>1, <3>2, FitIsFits
  <2>9. CASE StepVoteResp(i, m)
    <3>1. Update(i, HandleVoteResp(i, q, m)) /\ m.term >= r.Term
      BY <2>9 DEF StepVoteResp, Receives, q
    <3>2. Ok(HandleVoteResp(i, q, m))
      BY <1>1, <1>9, <2>2, <2>3, <3>1, HandleVoteRespFits
    <3> QED BY <3>1, <3>2
  <2>10. CASE StepTimeoutNow(i, m)
    <3>1. Update(i, CampaignElection(i, q, TRUE)) \/ Update(i, q)
      BY <2>10 DEF StepTimeoutNow, q
    <3>2. TRUE \in BOOLEAN
      OBVIOUS
    <3>3. Ok(CampaignElection(i, q, TRUE)) /\ Ok(q)
      BY <2>2, <3>2, CampaignElectionFits, FitIsFits
    <3> HIDE DEF Ok
    <3> QED BY <3>1, <3>3
  <2> HIDE DEF Ok
  <2> QED BY <1>9, <2>4, <2>5, <2>6, <2>7, <2>8, <2>9, <2>10 DEF Step
<1> HIDE DEF Ok
<1>10. CASE \E m \in {n \in net : n.to = i} : Step(i, m)
  <2>1. PICK m \in net : m.to = i /\ Step(i, m)
    BY <1>10
  <2> QED BY <1>9, <2>1
<1> QED BY <1>3, <1>4, <1>5, <1>7, <1>8, <1>10

\* What holds of a server's log and messages holds with more of them in the network.
LEMMA LogInvMonotone ==
    ASSUME NEW r, NEW d, NEW N, NEW O, N \subseteq O, NEW K, NEW L, K \subseteq L, LogInv(r, d, N, K)
    PROVE  LogInv(r, d, O, L)
<1>1. Valid(O, r.log) /\ Valid(O, d.log)
  BY BehindMonotone DEF LogInv
<1>2. \A m \in r.msgs : Known(O, L, m)
  BY KnownMonotone DEF LogInv
<1> QED BY <1>1, <1>2 DEF LogInv

\* One server is in another state, has that on disk or not, and has sent its messages or not.
LEMMA LogsKept ==
    ASSUME TypeInv, ElectionInv, TypeInv', ElectionInv', Several, NEW K, LogsHold(K),
           NEW i \in Server, OthersKeep(i), NEW s, NEW L, Fit(i, s, disk[i], net, L), Appends(s, K, L),
           node'[i].log = s.log, node'[i].state = s.state, node'[i].Term = s.Term,
           disk'[i].log = s.log \/ disk'[i].log = disk[i].log,
           node'[i].msgs \subseteq s.msgs, NEW M, M \subseteq s.msgs, net' = net \cup M
    PROVE  LogsHold(L)'
<1> DEFINE N == net
           O == net'
<1>1. /\ ReplicaInv(i, s, disk[i], N, L) /\ NetLogInv(N, L) /\ EntriesInv(N, L) /\ Good(i, s, disk[i], N)
      /\ N \subseteq O /\ K \subseteq L
  BY DEF Fit, Appends
<1>2. NetLogInv(O, L)
  BY <1>1, KnownMonotone DEF NetLogInv, ReplicaInv, LogInv
<1>3. EntriesInv(O, L)
  BY <1>1, ElectedMonotone DEF EntriesInv
<1>4. \A p \in Server : OneVote(p, O)
  BY DEF ElectionInv, ServerInv, OneVote
<1>5. ASSUME NEW a \in Server, NEW b \in Server, NEW t, Elected(O, a, t), Elected(O, b, t) PROVE a = b
  BY <1>2, <1>4, <1>5, ElectedIsOne
<1>6. ASSUME NEW j \in Server, NEW t, NEW x, NEW e, <<x, e>> \in L, e.term = t, Elected(O, j, t)
      PROVE  Elected(N, j, t)
  <2>1. PICK c \in Server : Elected(N, c, t)
    BY <1>1, <1>6 DEF EntriesInv
  <2>2. Elected(O, c, t)
    BY <1>1, <2>1, ElectedMonotone
  <2> QED BY <1>5, <1>6, <2>1, <2>2
<1>7. ReplicaInv(i, node'[i], disk'[i], O, L)
  <2>1. LogInv(node'[i], disk'[i], O, L)
    <3>1. LogInv(s, disk[i], O, L)
      BY <1>1, LogInvMonotone DEF ReplicaInv
    <3> QED BY <3>1 DEF LogInv
  <2>2. AskInv(i, node'[i], O)
    <3>1. node'[i].msgs \cup O \subseteq s.msgs \cup N
      OBVIOUS
    <3> HIDE DEF N, O
    <3> QED BY <1>1, <3>1 DEF ReplicaInv, AskInv
  <2>3. CandidateInv(i, node'[i], O, L)
    <3> HIDE DEF N, O
    <3> QED BY <1>1, <1>6 DEF ReplicaInv, CandidateInv
  <2>4. LeaderInv(node'[i], L)
    BY <1>1 DEF ReplicaInv, LeaderInv
  <2> QED BY <2>1, <2>2, <2>3, <2>4 DEF ReplicaInv
<1>8. ASSUME NEW j \in Server, j # i PROVE ReplicaInv(j, node'[j], disk'[j], O, L)
  <2> DEFINE r == node[j]
  <2>1. node'[j] = r /\ disk'[j] = disk[j]
    BY <1>8 DEF OthersKeep, TypeInv
  <2>2. ReplicaInv(j, r, disk[j], N, K) /\ Good(j, r, disk[j], N)
    BY DEF LogsHold, TypeInv, ElectionInv, Good
  <2> HIDE DEF N, r
  <2>3. LogInv(r, disk[j], O, L)
    BY <1>1, <2>2, LogInvMonotone DEF ReplicaInv
  <2>4. ASSUME NEW q \in O, q.type = "MsgVote", q.from = j PROVE q \in N
    <3>1. CASE q \in M
      <4>1. q.from = i
        BY <1>1, <2>4, <3>1 DEF Good, ServerInv, OutboxInv, TellsVote
      <4> QED BY <1>8, <2>4, <4>1
    <3>2. CASE q \in net
      BY <3>2 DEF N
    <3> QED BY <2>4, <3>1, <3>2
  <2>5. AskInv(j, r, O)
    <3>1. \A t : \A q \in r.msgs \cup O : Asks(q, j, t) => q \in r.msgs \cup N
      BY <2>4 DEF Asks
    <3> HIDE DEF O
    <3> QED BY <2>2, <3>1 DEF ReplicaInv, AskInv
  <2>6. ASSUME NEW x, NEW e, <<x, e>> \in L, <<x, e>> \notin K, Elected(O, j, e.term) PROVE FALSE
    <3>1. s.state = "Leader" /\ e.term = s.Term
      BY <2>6 DEF Appends
    <3>2. Elected(N, i, s.Term)
      BY <1>1, <3>1 DEF Good, ServerInv, CampaignInv
    <3>3. Elected(O, i, e.term)
      BY <1>1, <3>1, <3>2, ElectedMonotone
    <3> QED BY <1>5, <1>8, <2>6, <3>3
  <2>7. CandidateInv(j, r, O, L)
    <3> SUFFICES ASSUME r.state = "Candidate", Elected(O, j, r.Term), NEW x, NEW e, <<x, e>> \in L, e.term = r.Term
                 PROVE  FALSE
      BY DEF CandidateInv
    <3>1. <<x, e>> \in K
      BY <2>6
    <3>2. Elected(N, j, r.Term)
      BY <1>6
    <3> QED BY <2>2, <3>1, <3>2 DEF ReplicaInv, CandidateInv
  <2>8. LeaderInv(r, L)
    <3> SUFFICES ASSUME r.state = "Leader"
                 PROVE  /\ Len(r.log) > 0 /\ r.log[Len(r.log)].term = r.Term
                        /\ \A x, e : <<x, e>> \in L /\ e.term = r.Term => InLog(r.log, x, e)
      BY DEF LeaderInv
    <3>1. Elected(N, j, r.Term)
      BY <2>2 DEF Good, ServerInv, CampaignInv
    <3>2. Elected(O, j, r.Term)
      BY <1>1, <3>1, ElectedMonotone
    <3> QED BY <2>2, <2>6, <3>2 DEF ReplicaInv, LeaderInv
  <2> QED BY <2>1, <2>3, <2>5, <2>7, <2>8 DEF ReplicaInv
<1> QED BY <1>2, <1>3, <1>7, <1>8 DEF LogsHold

\* At the start there are no entries.
LEMMA LogsInvInit == Init => LogsInv
<1> SUFFICES ASSUME Init PROVE LogsHold({})
  BY DEF LogsInv
<1> DEFINE none == {}
           d == EmptyDisk
           s == FromDisk(d)
<1>1. DiskOK(d)
  BY DEF DiskOK, Disk, EmptyDisk
<1>2. d.log = <<>> /\ s.log = d.log /\ s.msgs = none /\ s.state = "Follower"
  BY <1>1, FromDiskType DEF EmptyDisk
<1>3. net = none /\ \A i \in Server : node[i] = s /\ disk[i] = d
  BY DEF Init
<1>4. \A x : x \notin none
  OBVIOUS
<1> HIDE DEF s, d, none
<1>5. ASSUME NEW i \in Server PROVE ReplicaInv(i, s, d, none, none)
  <2>1. LogInv(s, d, none, none)
    BY <1>2, <1>4 DEF LogInv, Valid, InLog
  <2>2. AskInv(i, s, none) /\ CandidateInv(i, s, none, none) /\ LeaderInv(s, none)
    BY <1>2, <1>4 DEF AskInv, CandidateInv, LeaderInv
  <2> QED BY <2>1, <2>2 DEF ReplicaInv
<1>6. NetLogInv(none, none) /\ EntriesInv(none, none)
  BY <1>4 DEF NetLogInv, EntriesInv
<1>7. LogsHold(none)
  BY <1>3, <1>5, <1>6 DEF LogsHold
<1> QED BY <1>7 DEF none

\* Every step keeps the invariant of the logs.
LEMMA LogsInvNext ==
    ASSUME TypeInv, ElectionInv, LogsInv, [Next]_vars
    PROVE  LogsInv'
<1> SUFFICES ASSUME Several PROVE \E L : LogsHold(L)'
  BY DEF LogsInv, Several
<1>1. PICK K : LogsHold(K)
  BY DEF LogsInv
<1>2. TypeInv' /\ ElectionInv'
  BY TypeInvNext, ElectionInvNext
<1>3. CASE UNCHANGED vars
  BY <1>1, <1>3 DEF vars, LogsHold
<1>4. CASE Next
  <2>1. PICK i \in Server :
            \/ Hup(i) \/ LeaseExpires(i) \/ Beat(i) \/ LeaderTimeout(i) \/ Propose(i)
            \/ \E to \in MayTransferTo : TransferLeader(i, to)
            \/ \E to \in Server \ {i} : ReportUnreachable(i, to)
            \/ \E to \in Server \ {i}, failed \in BOOLEAN : ReportSnapshot(i, to, failed)
            \/ \E m \in {n \in net : n.to = i} : Step(i, m)
            \/ Ready(i) \/ Compact(i) \/ Restart(i)
    BY <1>4 DEF Next
  <2> DEFINE r == node[i]
             none == {}
  <2>2. /\ Fit(i, r, disk[i], net, K) /\ Appends(r, K, K) /\ StructOK(r) /\ DiskOK(disk[i])
        /\ net = net \cup none /\ none \subseteq r.msgs
    BY <1>1 DEF TypeInv, ElectionInv, Good, LogsHold, Fit, Appends
  <2>3. ASSUME NEW s, StructOK(s), node'[i] = Advanced(s), disk'[i] = HardState(s)
        PROVE  /\ node'[i].log = s.log /\ node'[i].state = s.state /\ node'[i].Term = s.Term
               /\ disk'[i].log = s.log /\ node'[i].msgs \subseteq s.msgs
    BY <2>3, AdvancedType, HardStateType DEF SameLog, HardState
  <2> HIDE DEF none
  <2>4. CASE Ready(i)
    <3>1. /\ OthersKeep(i) /\ node'[i] = Advanced(r) /\ disk'[i] = HardState(r)
          /\ net' = net \cup r.msgs
      BY <2>4, ReadyType
    <3> HIDE DEF r
    <3>2. LogsHold(K)'
      BY <1>1, <1>2, <2>2, <2>3, <3>1, LogsKept
    <3> QED BY <3>2
  <2>5. CASE Compact(i)
    <3>1. OthersKeep(i) /\ net' = net
      BY <2>5, CompactType
    <3>2. /\ node'[i].log = r.log /\ node'[i].state = r.state /\ node'[i].Term = r.Term
          /\ disk'[i].log = disk[i].log /\ node'[i].msgs = r.msgs
      <4>1. /\ node \in [Server -> RaftStruct] /\ disk \in [Server -> Disk]
            /\ r \in RaftStruct /\ disk[i] \in Disk
        BY DEF TypeInv
      <4> DEFINE o == Max2(r.offset, r.applied)
      <4>2. node'[i] = [r EXCEPT !.offset = o] /\ disk'[i] = [disk[i] EXCEPT !.offset = r.applied]
        BY <2>5, <4>1 DEF Compact
      <4> HIDE DEF o, r
      <4> QED BY <4>1, <4>2 DEF RaftStruct, Disk
    <3> HIDE DEF r
    <3>3. LogsHold(K)'
      BY <1>1, <1>2, <2>2, <3>1, <3>2, LogsKept
    <3> QED BY <3>3
  <2>6. CASE Restart(i)
    <3> DEFINE s == FromDisk(disk[i])
    <3>1. OthersKeep(i) /\ node'[i] = s /\ disk'[i] = disk[i] /\ net' = net
      BY <2>6, RestartType
    <3>2. s.log = disk[i].log /\ s.msgs = {} /\ s.state = "Follower"
      BY <2>2, FromDiskType
    <3> HIDE DEF s
    <3>3. Good(i, s, disk[i], net)
      <4>1. Good(i, node'[i], disk'[i], net')
        BY <1>2 DEF TypeInv, ElectionInv, Good
      <4> QED BY <3>1, <4>1
    <3>4. Valid(net, s.log) /\ \A x, e : InLog(s.log, x, e) => <<x, e>> \in K
      BY <2>2, <3>2 DEF Fit, ReplicaInv, LogInv
    <3>5. Fit(i, s, disk[i], net, K)
      BY <2>2, <3>2, <3>3, <3>4, KnownKeepsFit
    <3>6. Appends(s, K, K) /\ none \subseteq s.msgs
      BY DEF Appends, none
    <3>7. LogsHold(K)'
      BY <1>1, <1>2, <2>2, <3>1, <3>5, <3>6, LogsKept
    <3> QED BY <3>7
  <2>7. CASE ~(Ready(i) \/ Compact(i) \/ Restart(i))
    <3>1. PICK s : Update(i, s) /\ Fits(i, s, disk[i], net, K)
      BY <1>1, <2>1, <2>7, StepsFit
    <3>2. PICK L : Fit(i, s, disk[i], net, L) /\ Appends(s, K, L)
      BY <3>1 DEF Fits
    <3>3. OthersKeep(i) /\ StructOK(s) /\ none \subseteq s.msgs
      BY <3>1, <3>2, UpdateEffect DEF Fit, Good, none
    <3>4. CASE node'[i] = s /\ disk'[i] = disk[i] /\ net' = net
      <4>1. LogsHold(L)'
        BY <1>1, <1>2, <2>2, <3>2, <3>3, <3>4, LogsKept
      <4> QED BY <4>1
    <3>5. CASE node'[i] = Advanced(s) /\ disk'[i] = HardState(s) /\ net' = net \cup s.msgs
      <4>1. LogsHold(L)'
        BY <1>1, <1>2, <2>3, <3>2, <3>3, <3>5, LogsKept
      <4> QED BY <4>1
    <3> QED BY <3>1, <3>4, <3>5, UpdateEffect
  <2> QED BY <2>4, <2>5, <2>6, <2>7
<1> QED BY <1>3, <1>4

\* Whatever is sent, lost or repeated, and whoever crashes: an entry of a log, of a disk or of a message
\* stands behind what its index and term decide, there is one entry of a term at an index, and a
\* leader has all of its term (raft.go:424-491, 615-636, 1471-1584; log.go:88-138).
THEOREM LogsInvariant == Spec => [](TypeInv /\ ElectionInv /\ LogsInv)
<1>1. Init => TypeInv /\ ElectionInv /\ LogsInv
  BY TypeInvInit, ElectionInvInit, LogsInvInit
<1>2. TypeInv /\ ElectionInv /\ LogsInv /\ [Next]_vars => (TypeInv /\ ElectionInv /\ LogsInv)'
  BY TypeInvNext, ElectionInvNext, LogsInvNext
<1> QED BY <1>1, <1>2, PTL DEF Spec

-----------------------------------------------------------------------------
(* Log matching *)

\* What is known of the network and of all entries, whatever the servers do.
World(N, K) ==
    /\ N \subseteq Message /\ \A p \in Server : OneVote(p, N)
    /\ NetLogInv(N, K) /\ EntriesInv(N, K)
    /\ \A q, n \in N : \A t : Asks(q, q.from, t) /\ Asks(n, q.from, t) =>
          q.index = n.index /\ q.logTerm = n.logTerm

\* A log as it may be found somewhere.
ValidIn(N, K, log) ==
    /\ log \in Seq(Entry) /\ Valid(N, log)
    /\ \A x, e : InLog(log, x, e) => <<x, e>> \in K

\* The invariants of elections and logs say that.
LEMMA WorldHolds ==
    ASSUME TypeInv, ElectionInv, NEW K, LogsHold(K)
    PROVE  World(net, K)
<1>1. net \subseteq Message /\ NetLogInv(net, K) /\ EntriesInv(net, K)
  BY DEF TypeInv, LogsHold
<1>2. \A c \in Server : OneVote(c, net)
  BY DEF ElectionInv, ServerInv, OneVote
<1>3. ASSUME NEW q \in net, NEW n \in net, NEW t, Asks(q, q.from, t), Asks(n, q.from, t)
      PROVE  q.index = n.index /\ q.logTerm = n.logTerm
  <2>1. q.from \in Server
    BY <1>1 DEF Message
  <2>2. AskInv(q.from, node[q.from], net)
    BY <2>1 DEF LogsHold, ReplicaInv
  <2> QED BY <1>3, <2>2 DEF AskInv
<1> QED BY <1>1, <1>2, <1>3 DEF World

\* What stands before an entry is decided by its index and its term.
LEMMA BehindIsOne ==
    ASSUME Several, NEW N, NEW K, World(N, K), NEW x, NEW t, NEW p, NEW o,
           Behind(N, x, t, p), Behind(N, x, t, o)
    PROVE  p = o
<1>1. PICK q \in N : /\ Asks(q, q.from, t) /\ Elected(N, q.from, t)
                     /\ x > q.index /\ p = IF x = q.index + 1 THEN q.logTerm ELSE t
  BY DEF Behind
<1>2. PICK n \in N : /\ Asks(n, n.from, t) /\ Elected(N, n.from, t)
                     /\ x > n.index /\ o = IF x = n.index + 1 THEN n.logTerm ELSE t
  BY DEF Behind
<1>3. q.from \in Server /\ n.from \in Server
  BY DEF Message, World
<1>5. q.from = n.from
  BY <1>1, <1>2, <1>3, ElectedIsOne DEF World
<1>7. q.index = n.index /\ q.logTerm = n.logTerm
  BY <1>1, <1>2, <1>5 DEF World
<1> QED BY <1>1, <1>2, <1>7

\* Two logs that agree on a term agree on all terms before: otherwise take the last one on
\* which they do not.
LEMMA LogsAgree ==
    ASSUME Several, NEW N, NEW K, World(N, K), NEW a, ValidIn(N, K, a), NEW b, ValidIn(N, K, b),
           NEW k \in Nat, k >= 1, k <= Len(a), k <= Len(b), a[k].term = b[k].term
    PROVE  \A x \in 1..k : a[x] = b[x]
<1> DEFINE T == {n \in Nat : n < k /\ a[k - n].term # b[k - n].term}
<1>0. a \in Seq(Entry) /\ b \in Seq(Entry) /\ Len(a) \in Nat /\ Len(b) \in Nat
  BY DEF ValidIn
<1>1. T = {}
  <2> SUFFICES ASSUME T # {} PROVE FALSE
    OBVIOUS
  <2>1. PICK n \in T : \A l \in T : n <= l
    <3>1. T \in SUBSET Nat
      OBVIOUS
    <3> HIDE DEF T
    <3> QED BY <3>1, LeastNat
  <2>2. n \in Nat /\ n < k /\ a[k - n].term # b[k - n].term
    BY <2>1
  <2>3. n # 0
    BY <2>2
  <2>4. n - 1 \in Nat /\ n - 1 < k /\ ~(n <= n - 1)
    BY <2>2, <2>3
  <2>5. a[k - (n - 1)].term = b[k - (n - 1)].term
    BY <2>1, <2>4
  <2> DEFINE x == k - (n - 1)
  <2>6. x \in 1..Len(a) /\ x \in 1..Len(b) /\ x - 1 = k - n /\ x - 1 # 0
    BY <1>0, <2>2, <2>3
  <2>7. a[x].term = b[x].term
    BY <2>5
  <2> HIDE DEF x, T
  <2>8. Behind(N, x, a[x].term, TermAt(a, x - 1)) /\ Behind(N, x, b[x].term, TermAt(b, x - 1))
    BY <2>6 DEF Valid, ValidIn
  <2>9. TermAt(a, x - 1) = TermAt(b, x - 1)
    BY <2>7, <2>8, BehindIsOne
  <2> QED BY <2>2, <2>6, <2>9 DEF TermAt
<1>2. ASSUME NEW x \in 1..k PROVE a[x] = b[x]
  <2>1. k - x \in Nat /\ k - x < k /\ k - (k - x) = x /\ x \in 1..Len(a) /\ x \in 1..Len(b)
    BY <1>0
  <2>2. k - x \notin T
    BY <1>1
  <2>3. a[x].term = b[x].term
    BY <2>1, <2>2
  <2>4. <<x, a[x]>> \in K /\ <<x, b[x]>> \in K
    BY <2>1 DEF InLog, ValidIn
  <2>5. EntriesInv(N, K)
    BY DEF World
  <2> QED BY <2>3, <2>4, <2>5 DEF EntriesInv
<1> QED BY <1>2

\* Two logs that agree on the term of an entry agree on everything up to it, although MsgApps arrive
\* twice, late and out of order, and leaders change (log.go:88-138).
THEOREM LogsMatch == Spec => []LogMatching
<1>1. TypeInv /\ ElectionInv /\ LogsInv => LogMatching
  <2> SUFFICES ASSUME TypeInv, ElectionInv, LogsInv, NEW i \in Server, NEW j \in Server,
                      NEW k \in 1..Min2(LastIndex(node[i]), LastIndex(node[j])),
                      node[i].log[k].term = node[j].log[k].term
               PROVE  SubSeq(node[i].log, 1, k) = SubSeq(node[j].log, 1, k)
    BY DEF LogMatching
  <2> DEFINE a == node[i].log
             b == node[j].log
  <2>1. CASE i = j
    BY <2>1
  <2>2. CASE i # j
    <3>1. Several
      BY <2>2 DEF Several
    <3>2. PICK K : LogsHold(K)
      BY <3>1 DEF LogsInv
    <3>3. a \in Seq(Entry) /\ b \in Seq(Entry) /\ LastIndex(node[i]) = Len(a) /\ LastIndex(node[j]) = Len(b)
      BY StructFields DEF TypeInv, LastIndex
    <3>4. k \in Nat /\ k >= 1 /\ k <= Len(a) /\ k <= Len(b)
      BY <3>3 DEF Min2
    <3>5. ValidIn(net, K, a) /\ ValidIn(net, K, b) /\ World(net, K)
      BY <3>2, <3>3, WorldHolds DEF LogsHold, ReplicaInv, LogInv, ValidIn
    <3>6. a[k].term = b[k].term
      OBVIOUS
    <3> HIDE DEF a, b
    <3>7. \A x \in 1..k : a[x] = b[x]
      BY <3>1, <3>4, <3>5, <3>6, LogsAgree
    <3>8. SubSeq(a, 1, k) = SubSeq(b, 1, k)
      BY <3>3, <3>4, <3>7
    <3> QED BY <3>8 DEF a, b
  <2> QED BY <2>1, <2>2
<1> QED BY <1>1, LogsInvariant, PTL
=============================================================================

-------------------------- MODULE LogicalLogProofs --------------------------
(***************************************************************************)
(* RaftLog for every history of leaders: no panic is reachable, the        *)
(* application applies what is committed, and storage and unstable entries *)
(* together implement the one log of LogicalLog.                           *)
(***************************************************************************)
EXTENDS RaftLog, SequenceTheorems, NaturalsInduction, WellFoundedInduction, TLAPS

-----------------------------------------------------------------------------
(* Sequences and numbers *)

\* A non-empty set of naturals has a least element.
LEMMA LeastNatural ==
    ASSUME NEW T \in SUBSET Nat, T # {}
    PROVE  \E x \in T : \A y \in T : x <= y
<1>1. \E x \in T : \A y \in T : ~(<<y, x>> \in OpToRel(<, Nat))
  BY NatLessThanWellFounded, WFMin
<1>2. PICK x \in T : \A y \in T : ~(<<y, x>> \in OpToRel(<, Nat))
  BY <1>1
<1>3. \A y \in T : ~(y < x)
  BY <1>2 DEF OpToRel
<1> QED  BY <1>3

\* A part of a sequence: its length and its elements.
LEMMA PartOfSeq ==
    ASSUME NEW S, NEW s \in Seq(S), NEW m \in Nat \ {0}, NEW n \in Int, n <= Len(s)
    PROVE  /\ SubSeq(s, m, n) \in Seq(S)
           /\ Len(SubSeq(s, m, n)) = IF m <= n THEN n - m + 1 ELSE 0
           /\ \A k \in 1..(n - m + 1) : SubSeq(s, m, n)[k] = s[m + k - 1]
<1>1. CASE m <= n
  <2>1. m \in 1..(Len(s) + 1) /\ n \in (m - 1)..Len(s)
    BY <1>1
  <2> QED BY <2>1, SubSeqProperties
<1>2. CASE ~(m <= n)
  <2>1. SubSeq(s, m, n) = <<>>
    BY <1>2, SubSeqEmpty
  <2>2. 1..(n - m + 1) = {}
    BY <1>2
  <2> QED BY <1>2, <2>1, <2>2
<1> QED BY <1>1, <1>2

\* The first n elements, and those from m on.
LEMMA FrontOfSeq ==
    ASSUME NEW S, NEW s \in Seq(S), NEW n \in Nat, n <= Len(s)
    PROVE  /\ SubSeq(s, 1, n) \in Seq(S) /\ Len(SubSeq(s, 1, n)) = n
           /\ \A k \in 1..n : SubSeq(s, 1, n)[k] = s[k]
<1>1. /\ SubSeq(s, 1, n) \in Seq(S)
      /\ Len(SubSeq(s, 1, n)) = (IF 1 <= n THEN n - 1 + 1 ELSE 0)
      /\ \A k \in 1..(n - 1 + 1) : SubSeq(s, 1, n)[k] = s[1 + k - 1]
  BY PartOfSeq
<1>2. n - 1 + 1 = n /\ (IF 1 <= n THEN n - 1 + 1 ELSE 0) = n /\ \A k \in 1..n : 1 + k - 1 = k
  OBVIOUS
<1> QED BY <1>1, <1>2

\* A sequence from m on.
LEMMA RestOfSeq ==
    ASSUME NEW S, NEW s \in Seq(S), NEW m \in Nat \ {0}, m <= Len(s) + 1, NEW n, n = Len(s) - m + 1
    PROVE  /\ SubSeq(s, m, Len(s)) \in Seq(S) /\ Len(SubSeq(s, m, Len(s))) = n
           /\ \A k \in 1..n : SubSeq(s, m, Len(s))[k] = s[m + k - 1]
<1>0. Len(s) \in Nat
  OBVIOUS
<1> DEFINE l == Len(s)
<1>1. l \in Int /\ l <= Len(s)
  BY <1>0
<1> HIDE DEF l
<1>2. /\ SubSeq(s, m, l) \in Seq(S)
      /\ Len(SubSeq(s, m, l)) = (IF m <= l THEN l - m + 1 ELSE 0)
      /\ \A k \in 1..(l - m + 1) : SubSeq(s, m, l)[k] = s[m + k - 1]
  BY <1>1, PartOfSeq
<1>3. (IF m <= l THEN l - m + 1 ELSE 0) = n /\ l - m + 1 = n
  BY <1>0 DEF l
<1> QED BY <1>2, <1>3 DEF l

\* Elements of a concatenation.
LEMMA CatSeq ==
    ASSUME NEW S, NEW s \in Seq(S), NEW r \in Seq(S)
    PROVE  /\ s \o r \in Seq(S) /\ Len(s \o r) = Len(s) + Len(r)
           /\ \A k \in 1..(Len(s) + Len(r)) :
                 (s \o r)[k] = IF k <= Len(s) THEN s[k] ELSE r[k - Len(s)]
OBVIOUS

-----------------------------------------------------------------------------
(* The logs of the leaders *)

\* The term of the entry of leader t at i; 0 in front of the log.
Entry(c, t, i) == IF i = 0 THEN 0 ELSE c[t].log[i]

\* s is what leaders have committed.
CommittedSeq(c, s) ==
    \E t \in 1..MaxTerm :
        /\ Len(s) <= c[t].commit
        /\ \A k \in 1..Len(s) : s[k] = c[t].log[k]

\* No leader has both the entry j of term x and the entry i of term y.
Incompatible(c, j, x, i, y) ==
    \A t \in 1..MaxTerm :
        ~(/\ j \in 1..Len(c[t].log) /\ i \in 1..Len(c[t].log)
          /\ c[t].log[j] = x /\ c[t].log[i] = y)

\* What the assumption on Groups says of one leader.
LEMMA LeaderLog ==
    ASSUME NEW c \in Groups, NEW t \in 1..MaxTerm
    PROVE  /\ c[t].log \in Seq(1..t) /\ c[t].log \in Seq(1..MaxTerm)
           /\ Len(c[t].log) \in Nat
           /\ c[t].commit \in Nat /\ c[t].commit <= Len(c[t].log)
           /\ \A k \in 1..Len(c[t].log) : c[t].log[k] \in 1..t /\ c[t].log[k] \in 1..MaxTerm
           /\ \A k \in 1..(Len(c[t].log) - 1) : c[t].log[k] <= c[t].log[k + 1]
<1>0. MaxTerm \in Nat \ {0}
  BY RaftLogBounds
<1>1. IsLog(c[t].log, t) /\ c[t].commit \in 0..Len(c[t].log)
  BY GroupsAssumption DEF IsGroup
<1> DEFINE s == c[t].log
<1>2. s \in Seq(1..t) /\ \A k \in 1..(Len(s) - 1) : s[k] <= s[k + 1]
  BY <1>1 DEF IsLog
<1>3. s \in Seq(1..t) /\ 1..t \subseteq 1..MaxTerm
  BY <1>0, <1>2
<1> HIDE DEF s
<1>4. Len(s) \in Nat /\ \A k \in 1..Len(s) : s[k] \in 1..t /\ s[k] \in 1..MaxTerm
  BY <1>3
<1>5. s \in Seq(1..MaxTerm)
  BY <1>3, SeqMonotonic
<1> QED BY <1>1, <1>2, <1>4, <1>5 DEF s

\* Two leaders' logs that agree on an entry agree on those before it.
LEMMA LeadersMatch ==
    ASSUME NEW c \in Groups, NEW t1 \in 1..MaxTerm, NEW t2 \in 1..MaxTerm, NEW k \in Nat,
           k <= Len(c[t1].log), k <= Len(c[t2].log), Entry(c, t1, k) = Entry(c, t2, k),
           NEW j \in Nat, j <= k
    PROVE  Entry(c, t1, j) = Entry(c, t2, j)
<1>0. MaxTerm \in Nat \ {0} /\ t1 \in Nat /\ t2 \in Nat
  BY RaftLogBounds
<1>1. ASSUME NEW a \in 1..MaxTerm, NEW b \in 1..MaxTerm, a < b, j # 0,
             k <= Len(c[a].log), k <= Len(c[b].log), c[a].log[k] = c[b].log[k]
      PROVE  c[a].log[j] = c[b].log[j]
  <2>1. Matching(c[a].log, c[b].log)
    <3>1. b \in (a + 1)..MaxTerm
      BY <1>0, <1>1
    <3>2. IsGroup(c)
      BY GroupsAssumption
    <3> QED BY <3>1, <3>2 DEF IsGroup
  <2>2. /\ c[a].log \in Seq(1..MaxTerm) /\ c[b].log \in Seq(1..MaxTerm)
        /\ Len(c[a].log) \in Nat /\ Len(c[b].log) \in Nat
    BY LeaderLog
  <2>3. k \in 1..Min(Len(c[a].log), Len(c[b].log))
    BY <1>1, <2>2 DEF Min
  <2>4. SubSeq(c[a].log, 1, k) = SubSeq(c[b].log, 1, k)
    BY <1>1, <2>1, <2>3 DEF Matching
  <2>5. j \in 1..(k - 1 + 1)
    BY <1>1
  <2>6. SubSeq(c[a].log, 1, k)[j] = c[a].log[1 + j - 1] /\ SubSeq(c[b].log, 1, k)[j] = c[b].log[1 + j - 1]
    BY <1>1, <2>2, <2>5, PartOfSeq
  <2>7. 1 + j - 1 = j
    OBVIOUS
  <2> QED BY <2>4, <2>6, <2>7
<1>2. CASE j = 0
  BY <1>2 DEF Entry
<1>3. CASE j # 0 /\ t1 < t2
  BY <1>1, <1>3 DEF Entry
<1>4. CASE j # 0 /\ t2 < t1
  BY <1>1, <1>4 DEF Entry
<1>5. CASE t1 = t2
  BY <1>5
<1> QED BY <1>0, <1>2, <1>3, <1>4, <1>5

\* Leaders agree on what both have committed.
LEMMA CommitsMatch ==
    ASSUME NEW c \in Groups, NEW t1 \in 1..MaxTerm, NEW t2 \in 1..MaxTerm, NEW k \in Nat,
           k <= c[t1].commit, k <= c[t2].commit
    PROVE  Entry(c, t1, k) = Entry(c, t2, k)
<1>0. MaxTerm \in Nat \ {0} /\ t1 \in Nat /\ t2 \in Nat
  BY RaftLogBounds
<1>1. ASSUME NEW a \in 1..MaxTerm, NEW b \in 1..MaxTerm, a < b, k # 0, k <= c[a].commit
      PROVE  c[a].log[k] = c[b].log[k]
  <2> DEFINE n == c[a].commit
             p == SubSeq(c[a].log, 1, n)
  <2>1. HasPrefix(c[b].log, p)
    <3>1. b \in (a + 1)..MaxTerm
      BY <1>0, <1>1
    <3>2. IsGroup(c)
      BY GroupsAssumption
    <3> QED BY <3>1, <3>2 DEF IsGroup
  <2>2. /\ c[a].log \in Seq(1..MaxTerm) /\ c[b].log \in Seq(1..MaxTerm)
        /\ Len(c[a].log) \in Nat /\ Len(c[b].log) \in Nat /\ n \in Nat /\ n <= Len(c[a].log)
    BY LeaderLog
  <2>3. k \in 1..(n - 1 + 1) /\ 1 + k - 1 = k /\ 1 <= n
    BY <1>1, <2>2
  <2> HIDE DEF n
  <2>4. Len(p) = n /\ p[k] = c[a].log[k]
    BY <2>2, <2>3, PartOfSeq
  <2>5. n <= Len(c[b].log) /\ SubSeq(c[b].log, 1, n) = p
    BY <2>1, <2>4 DEF HasPrefix
  <2>6. SubSeq(c[b].log, 1, n)[k] = c[b].log[k]
    BY <2>2, <2>3, <2>5, PartOfSeq
  <2> QED BY <2>4, <2>5, <2>6
<1>2. CASE k = 0
  BY <1>2 DEF Entry
<1>3. CASE k # 0 /\ t1 < t2
  BY <1>1, <1>3 DEF Entry
<1>4. CASE k # 0 /\ t2 < t1
  BY <1>1, <1>4 DEF Entry
<1>5. CASE t1 = t2
  BY <1>5
<1> QED BY <1>0, <1>2, <1>3, <1>4, <1>5

\* The terms of a leader's log never go back.
LEMMA TermsAscend ==
    ASSUME NEW c \in Groups, NEW t \in 1..MaxTerm, NEW j \in 1..Len(c[t].log), NEW i \in 1..j
    PROVE  c[t].log[i] <= c[t].log[j]
<1> DEFINE s == c[t].log
           T == {n \in Nat : n < j /\ ~(s[j - n] <= s[j])}
<1>1. /\ Len(s) \in Nat /\ \A k \in 1..Len(s) : s[k] \in Nat
      /\ \A k \in 1..(Len(s) - 1) : s[k] <= s[k + 1]
  BY LeaderLog
<1>2. j \in Nat /\ j <= Len(s) /\ i \in Nat /\ i >= 1 /\ i <= j
  BY <1>1
<1> HIDE DEF s
<1>3. T = {}
  <2> SUFFICES ASSUME T # {} PROVE FALSE
    OBVIOUS
  <2>1. PICK n \in T : \A y \in T : n <= y
    BY LeastNatural
  <2>2. n \in Nat /\ n < j /\ ~(s[j - n] <= s[j])
    BY <2>1
  <2>3. s[j] \in Nat /\ n # 0
    BY <1>1, <1>2, <2>2
  <2>4. n - 1 \in Nat /\ n - 1 < j /\ ~(n <= n - 1)
    BY <2>2, <2>3
  <2>5. s[j - (n - 1)] <= s[j]
    BY <2>1, <2>4
  <2> DEFINE x == j - n
  <2>6. x \in 1..(Len(s) - 1) /\ x + 1 = j - (n - 1) /\ x + 1 \in 1..Len(s) /\ x \in 1..Len(s)
    BY <1>1, <1>2, <2>2, <2>3
  <2>7. s[x + 1] <= s[j] /\ ~(s[x] <= s[j])
    BY <2>2, <2>5, <2>6
  <2> HIDE DEF x, T
  <2>8. s[x] \in Nat /\ s[x + 1] \in Nat /\ s[x] <= s[x + 1]
    BY <1>1, <2>6
  <2> QED BY <2>3, <2>7, <2>8
<1>4. j - i \in Nat /\ j - i < j /\ j - (j - i) = i
  BY <1>2
<1>5. s[i] <= s[j]
  BY <1>3, <1>4
<1> QED BY <1>5 DEF s

-----------------------------------------------------------------------------
(* The log that storage and unstable entries are together *)

Storages == [index : Nat, ents : Seq(Terms), snapshot : Snapshots, hardState : HardStates]

\* Index of the dummy entry, and of the last one if unstable entries begin where they may.
Base(ms, u) == IF u.snapshot # NoSnapshot THEN u.snapshot.index ELSE ms.index
End(u) == u.offset + Len(u.ents) - 1

\* Unstable entries begin behind the snapshot, or at the latest where storage ends.
Shape(ms, u) ==
    /\ u.snapshot = NoSnapshot =>
          /\ u.offset <= StorageLast(ms) + 1
          /\ u.ents = <<>> => u.offset = StorageLast(ms) + 1
          /\ ms.index <= End(u)
    /\ u.snapshot # NoSnapshot => u.offset = u.snapshot.index + 1

\* Where the term at i is read.
ViewTerm(ms, u, i) ==
    IF i >= u.offset THEN u.ents[i - u.offset + 1]
    ELSE IF u.snapshot # NoSnapshot THEN u.snapshot.term
    ELSE ms.ents[i - ms.index + 1]

\* Terms are numbers.
LEMMA TermsNat == MaxTerm \in Nat \ {0} /\ Terms \subseteq Nat /\ 1..MaxTerm \subseteq Terms
  BY RaftLogBounds DEF Terms

\* The fields of a storage.
LEMMA StorageType ==
    ASSUME NEW ms \in Storages
    PROVE  /\ ms.index \in Nat /\ ms.ents \in Seq(Terms) /\ Len(ms.ents) \in Nat
           /\ \A k \in 1..Len(ms.ents) : ms.ents[k] \in Terms
           /\ ms.snapshot \in Snapshots /\ ms.hardState \in HardStates
           /\ StorageLast(ms) = ms.index + Len(ms.ents) - 1
           /\ ms.snapshot.index \in Nat /\ ms.snapshot.term \in Terms
           /\ ms.snapshot.data \in Seq(1..MaxTerm)
           /\ ms.hardState.commit \in Nat /\ ms.hardState.term \in Terms
           /\ (ms.ents # <<>> => Len(ms.ents) >= 1)
  BY DEF Storages, Snapshots, HardStates, StorageLast

\* The fields of the unstable log.
LEMMA UnstableType ==
    ASSUME NEW u \in Unstable
    PROVE  /\ u.snapshot \in Snapshots /\ u.offset \in Nat \ {0} /\ u.ents \in Seq(1..MaxTerm)
           /\ Len(u.ents) \in Nat /\ End(u) \in Nat /\ End(u) = u.offset + Len(u.ents) - 1
           /\ \A k \in 1..Len(u.ents) : u.ents[k] \in 1..MaxTerm
           /\ u.snapshot.index \in Nat /\ u.snapshot.term \in Terms
           /\ u.snapshot.data \in Seq(1..MaxTerm)
           /\ (u.ents # <<>> <=> Len(u.ents) >= 1)
<1>1. /\ u.snapshot \in Snapshots /\ u.offset \in Nat \ {0} /\ u.ents \in Seq(1..MaxTerm)
      /\ u.snapshot.index \in Nat /\ u.snapshot.term \in Terms
      /\ u.snapshot.data \in Seq(1..MaxTerm)
  BY DEF Unstable, Snapshots
<1>2. Len(u.ents) \in Nat /\ \A k \in 1..Len(u.ents) : u.ents[k] \in 1..MaxTerm
  BY <1>1, LenProperties, ElementOfSeq
<1>3. End(u) \in Nat /\ End(u) = u.offset + Len(u.ents) - 1
  BY <1>1, <1>2 DEF End
<1>4. u.ents # <<>> <=> Len(u.ents) >= 1
  BY <1>1, <1>2, EmptySeq
<1> QED BY <1>1, <1>2, <1>3, <1>4

\* In a log of the right shape the parts of term() find every entry (log.go:265-285).
LEMMA ViewOf ==
    ASSUME NEW ms \in Storages, NEW u \in Unstable, Shape(ms, u), ms.ents # <<>>
    PROVE  /\ Base(ms, u) \in Nat /\ FirstIndex(ms, u) = Base(ms, u) + 1
           /\ FirstIndex(ms, u) - 1 = Base(ms, u)
           /\ LastIndex(ms, u) = End(u) /\ Base(ms, u) <= End(u)
           /\ \A i \in Base(ms, u)..End(u) :
                 /\ Term(ms, u, i) = ViewTerm(ms, u, i)
                 /\ i >= u.offset => i - u.offset + 1 \in 1..Len(u.ents)
                 /\ i < u.offset /\ u.snapshot # NoSnapshot => i = u.snapshot.index
                 /\ i < u.offset /\ u.snapshot = NoSnapshot => i - ms.index + 1 \in 1..Len(ms.ents)
           /\ \A i \in Nat : i < Base(ms, u) \/ i > End(u) => Term(ms, u, i) = 0
<1>1. /\ ms.index \in Nat /\ Len(ms.ents) \in Nat /\ Len(ms.ents) >= 1
      /\ StorageLast(ms) = ms.index + Len(ms.ents) - 1
  BY StorageType
<1>2. /\ u.offset \in Nat \ {0} /\ Len(u.ents) \in Nat /\ End(u) = u.offset + Len(u.ents) - 1
      /\ u.snapshot.index \in Nat /\ (u.ents # <<>> <=> Len(u.ents) >= 1)
  BY UnstableType
<1>3. /\ Base(ms, u) \in Nat /\ FirstIndex(ms, u) = Base(ms, u) + 1
      /\ FirstIndex(ms, u) - 1 = Base(ms, u)
  BY <1>1, <1>2 DEF Base, FirstIndex
<1>4. LastIndex(ms, u) = End(u)
  BY <1>1, <1>2 DEF LastIndex, Shape
<1>5. Base(ms, u) <= End(u)
  BY <1>1, <1>2 DEF Base, Shape
<1>6. ASSUME NEW i \in Base(ms, u)..End(u)
      PROVE  /\ Term(ms, u, i) = ViewTerm(ms, u, i)
             /\ i >= u.offset => i - u.offset + 1 \in 1..Len(u.ents)
             /\ i < u.offset /\ u.snapshot # NoSnapshot => i = u.snapshot.index
             /\ i < u.offset /\ u.snapshot = NoSnapshot => i - ms.index + 1 \in 1..Len(ms.ents)
  <2>1. i \in Nat /\ i >= Base(ms, u) /\ i <= End(u) /\ ~(i < FirstIndex(ms, u) - 1) /\ ~(i > LastIndex(ms, u))
    BY <1>2, <1>3, <1>4, <1>6
  <2>2. CASE i >= u.offset
    <3>1. KnowsTerm(u, i) /\ MaybeTerm(u, i) = u.ents[i - u.offset + 1] /\ i - u.offset + 1 \in 1..Len(u.ents)
      BY <1>2, <2>1, <2>2 DEF KnowsTerm, MaybeTerm
    <3> QED BY <1>2, <2>1, <2>2, <3>1 DEF Term, ViewTerm
  <2>3. CASE i < u.offset /\ u.snapshot # NoSnapshot
    <3>1. i = u.snapshot.index
      BY <1>2, <2>1, <2>3 DEF Shape, Base
    <3>2. KnowsTerm(u, i) /\ MaybeTerm(u, i) = u.snapshot.term
      BY <2>3, <3>1 DEF KnowsTerm, MaybeTerm
    <3> QED BY <1>2, <2>1, <2>3, <3>1, <3>2 DEF Term, ViewTerm
  <2>4. CASE i < u.offset /\ u.snapshot = NoSnapshot
    <3>1. ~KnowsTerm(u, i)
      BY <1>2, <2>1, <2>4 DEF KnowsTerm
    <3>2. i >= ms.index /\ i <= StorageLast(ms) /\ i - ms.index + 1 \in 1..Len(ms.ents)
      BY <1>1, <1>2, <2>1, <2>4 DEF Base, Shape
    <3>3. StorageTerm(ms, i) = ms.ents[i - ms.index + 1]
      BY <1>1, <2>1, <3>2 DEF StorageTerm
    <3> QED BY <1>2, <2>1, <2>4, <3>1, <3>2, <3>3 DEF Term, ViewTerm
  <2> QED BY <1>2, <2>1, <2>2, <2>3, <2>4
<1>7. ASSUME NEW i \in Nat, i < Base(ms, u) \/ i > End(u) PROVE Term(ms, u, i) = 0
  BY <1>3, <1>4, <1>7 DEF Term
<1> QED BY <1>3, <1>4, <1>5, <1>6, <1>7

\* Up to hi the log is the one of leader t.
Follows(c, ms, u, t, hi) ==
    /\ hi <= Len(c[t].log)
    /\ \A i \in Base(ms, u)..hi : Term(ms, u, i) = Entry(c, t, i)

\* The log is the beginning of a leader's log.
LogOK(c, ms, u) == \E t \in 1..MaxTerm : Follows(c, ms, u, t, End(u))

\* The commit index k lies in the log, which is up to there what leaders have committed.
CommitOK(c, ms, u, k) ==
    /\ Base(ms, u) <= k /\ k <= End(u)
    /\ \E t \in 1..MaxTerm : k <= c[t].commit /\ Follows(c, ms, u, t, k)

\* A snapshot stands for what leaders have committed.
SnapOK(c, s) ==
    s # NoSnapshot => s.data # <<>> /\ s.index = Len(s.data) /\ s.term = s.data[Len(s.data)] /\ CommittedSeq(c, s.data)

LogInv(c, ms, u, k) ==
    SnapOK(c, u.snapshot) /\ Shape(ms, u) /\ LogOK(c, ms, u) /\ CommitOK(c, ms, u, k)

\* A log that has an entry of leader t has all that precede it.
LEMMA FollowsBelow ==
    ASSUME NEW c \in Groups, NEW ms \in Storages, NEW u \in Unstable, Shape(ms, u), ms.ents # <<>>,
           LogOK(c, ms, u), NEW t \in 1..MaxTerm, NEW k \in Nat, Base(ms, u) <= k, k <= End(u),
           k <= Len(c[t].log), Term(ms, u, k) = Entry(c, t, k)
    PROVE  Follows(c, ms, u, t, k)
<1>1. PICK t0 \in 1..MaxTerm : Follows(c, ms, u, t0, End(u))
  BY DEF LogOK
<1>2. Base(ms, u) \in Nat /\ End(u) \in Nat
  BY ViewOf, UnstableType
<1>3. k <= Len(c[t0].log) /\ Entry(c, t0, k) = Entry(c, t, k)
  <2>1. k \in Base(ms, u)..End(u) /\ End(u) <= Len(c[t0].log) /\ Len(c[t0].log) \in Nat
    BY <1>1, <1>2, LeaderLog DEF Follows
  <2> QED BY <1>1, <1>2, <2>1 DEF Follows
<1>4. ASSUME NEW i \in Base(ms, u)..k PROVE Term(ms, u, i) = Entry(c, t, i)
  <2>1. i \in Nat /\ i <= k /\ i \in Base(ms, u)..End(u)
    BY <1>2, <1>4
  <2>2. Term(ms, u, i) = Entry(c, t0, i)
    BY <1>1, <2>1 DEF Follows
  <2>3. Entry(c, t0, i) = Entry(c, t, i)
    BY <1>3, <2>1, LeadersMatch
  <2> QED BY <2>2, <2>3
<1> QED BY <1>4 DEF Follows

\* What is followed up to hi is followed up to less.
LEMMA FollowsLess ==
    ASSUME NEW c \in Groups, NEW ms \in Storages, NEW u \in Unstable, Base(ms, u) \in Nat,
           NEW t \in 1..MaxTerm, NEW hi \in Nat, Follows(c, ms, u, t, hi), NEW k \in Nat, k <= hi
    PROVE  Follows(c, ms, u, t, k)
<1>1. Len(c[t].log) \in Nat
  BY LeaderLog
<1>2. Base(ms, u)..k \subseteq Base(ms, u)..hi
  OBVIOUS
<1> QED BY <1>1, <1>2 DEF Follows

\* Logs with the same entries are followed alike.
LEMMA SameView ==
    ASSUME NEW c \in Groups, NEW ms \in Storages, NEW u \in Unstable, NEW ms2 \in Storages, NEW u2 \in Unstable,
           NEW b \in Nat, b <= Base(ms2, u2), Base(ms, u) = b, Base(ms2, u2) \in Nat,
           NEW t \in 1..MaxTerm, NEW hi \in Nat, Follows(c, ms, u, t, hi),
           \A i \in Base(ms2, u2)..hi : Term(ms2, u2, i) = Term(ms, u, i)
    PROVE  Follows(c, ms2, u2, t, hi)
<1>1. Base(ms2, u2)..hi \subseteq Base(ms, u)..hi
  OBVIOUS
<1> QED BY <1>1 DEF Follows

\* A change that keeps the entries of the log, but for some committed ones at its beginning.
LEMMA KeepsLog ==
    ASSUME NEW c \in Groups, NEW ms \in Storages, NEW u \in Unstable, NEW k \in Nat, ms.ents # <<>>,
           LogInv(c, ms, u, k), NEW ms2 \in Storages, NEW u2 \in Unstable, ms2.ents # <<>>,
           SnapOK(c, u2.snapshot), Shape(ms2, u2), End(u2) = End(u),
           Base(ms, u) <= Base(ms2, u2), Base(ms2, u2) <= k,
           \A i \in Base(ms2, u2)..End(u) : ViewTerm(ms2, u2, i) = ViewTerm(ms, u, i)
    PROVE  /\ LogInv(c, ms2, u2, k)
           /\ \A i \in Base(ms2, u2)..End(u) : Term(ms2, u2, i) = Term(ms, u, i)
           /\ \A t \in 1..MaxTerm : Follows(c, ms, u, t, End(u)) => Follows(c, ms2, u2, t, End(u2))
<1>1. Base(ms, u) \in Nat /\ Base(ms2, u2) \in Nat /\ End(u) \in Nat /\ k <= End(u)
  BY ViewOf, UnstableType DEF LogInv, CommitOK
<1>2. ASSUME NEW i \in Base(ms2, u2)..End(u) PROVE Term(ms2, u2, i) = Term(ms, u, i)
  <2>1. i \in Base(ms, u)..End(u) /\ i \in Base(ms2, u2)..End(u2)
    BY <1>1, <1>2
  <2>2. Term(ms, u, i) = ViewTerm(ms, u, i)
    BY <2>1, ViewOf DEF LogInv
  <2>3. Term(ms2, u2, i) = ViewTerm(ms2, u2, i)
    BY <2>1, ViewOf
  <2> QED BY <1>2, <2>2, <2>3
<1>3. ASSUME NEW t \in 1..MaxTerm, NEW hi \in Nat, hi <= End(u), Follows(c, ms, u, t, hi)
      PROVE  Follows(c, ms2, u2, t, hi)
  <2>1. Base(ms2, u2)..hi \subseteq Base(ms, u)..hi /\ Base(ms2, u2)..hi \subseteq Base(ms2, u2)..End(u)
    BY <1>1, <1>3
  <2> QED BY <1>2, <1>3, <2>1 DEF Follows
<1>4. \A t \in 1..MaxTerm : Follows(c, ms, u, t, End(u)) => Follows(c, ms2, u2, t, End(u2))
  BY <1>1, <1>3
<1>5. LogOK(c, ms2, u2)
  BY <1>4 DEF LogInv, LogOK
<1>6. CommitOK(c, ms2, u2, k)
  BY <1>1, <1>3 DEF LogInv, CommitOK
<1> QED BY <1>2, <1>4, <1>5, <1>6 DEF LogInv

\* The entries e from index ci on are leader t's.
SentBy(c, t, ci, e) ==
    /\ ci + Len(e) - 1 <= Len(c[t].log)
    /\ \A m \in 1..Len(e) : e[m] = c[t].log[ci + m - 1]

\* truncateAndAppend of entries of leader t, whose log this one follows up to them and which
\* are not committed yet: the new log follows the leader (log_unstable.go:120-140).
LEMMA AppendView ==
    ASSUME NEW c \in Groups, NEW ms \in Storages, NEW u \in Unstable, NEW k \in Nat, ms.ents # <<>>,
           LogInv(c, ms, u, k), NEW t \in 1..MaxTerm, NEW ci \in Nat, k < ci, ci <= End(u) + 1,
           NEW e \in Seq(1..MaxTerm), e # <<>>, SentBy(c, t, ci, e),
           Follows(c, ms, u, t, ci - 1),
           NEW u2, u2 = TruncateAndAppend(u, ci, e)
    PROVE  /\ u2 \in Unstable /\ u2.snapshot = u.snapshot /\ u2.offset <= u.offset
           /\ u2.ents # <<>> /\ u2.ents[Len(u2.ents)] = e[Len(e)]
           /\ End(u2) = ci + Len(e) - 1 /\ Base(ms, u2) = Base(ms, u)
           /\ \A i \in Base(ms, u)..(ci - 1) : Term(ms, u2, i) = Term(ms, u, i)
           /\ Follows(c, ms, u2, t, End(u2))
           /\ LogInv(c, ms, u2, k)
<1>0. Shape(ms, u) /\ Base(ms, u) <= k /\ k <= End(u)
  BY DEF LogInv, CommitOK
<1>1. /\ u.offset \in Nat \ {0} /\ Len(u.ents) \in Nat /\ End(u) = u.offset + Len(u.ents) - 1
      /\ u.ents \in Seq(1..MaxTerm) /\ u.snapshot \in Snapshots /\ u.snapshot.index \in Nat
      /\ End(u) \in Nat
  BY UnstableType
<1>2. Len(e) \in Nat /\ Len(e) >= 1
  BY EmptySeq
<1>3. Base(ms, u) \in Nat /\ StorageLast(ms) \in Nat /\ ms.index \in Nat
  <2>1. ms.index \in Nat /\ StorageLast(ms) = ms.index + Len(ms.ents) - 1 /\ Len(ms.ents) \in Nat /\ Len(ms.ents) >= 1
    BY StorageType
  <2> QED BY <1>0, <2>1, ViewOf
<1>4. \A i \in Base(ms, u)..End(u) : Term(ms, u, i) = ViewTerm(ms, u, i)
  BY <1>0, ViewOf
<1>5. ci \in Nat \ {0}
  BY <1>0, <1>3
<1> DEFINE n == IF ci <= u.offset THEN 0 ELSE ci - u.offset
<1>6. n \in Nat /\ n <= Len(u.ents) /\ (ci <= u.offset => n = 0) /\ (~(ci <= u.offset) => n = ci - u.offset)
  BY <1>1, <1>5
<1>7. /\ u2 \in Unstable /\ u2.snapshot = u.snapshot
      /\ u2.offset = (IF ci <= u.offset THEN ci ELSE u.offset)
      /\ Len(u2.ents) = n + Len(e)
      /\ \A m \in 1..n : u2.ents[m] = u.ents[m]
      /\ \A m \in 1..Len(e) : u2.ents[n + m] = e[m]
  <2>1. CASE ci <= u.offset
    <3>1. u2 = [u EXCEPT !.offset = ci, !.ents = e] /\ n = 0
      BY <2>1 DEF TruncateAndAppend
    <3>2. u2 \in Unstable /\ u2.snapshot = u.snapshot /\ u2.offset = ci /\ u2.ents = e
      BY <1>5, <3>1 DEF Unstable
    <3> HIDE DEF n
    <3>3. 1..n = {} /\ n + Len(e) = Len(e) /\ \A m \in 1..Len(e) : n + m = m
      BY <1>2, <3>1
    <3> QED BY <2>1, <3>2, <3>3
  <2>2. CASE ~(ci <= u.offset)
    <3> DEFINE front == SubSeq(u.ents, 1, ci - u.offset)
    <3>1. u2 = [u EXCEPT !.ents = front \o e] /\ n = ci - u.offset
      BY <2>2 DEF TruncateAndAppend
    <3>2. front = SubSeq(u.ents, 1, n)
      BY <3>1
    <3> HIDE DEF front, n
    <3>3. n \in Int /\ n <= Len(u.ents) /\ 1 <= n
      BY <1>1, <1>5, <1>6, <2>2, <3>1
    <3>4. front \in Seq(1..MaxTerm)
      BY <1>1, <1>6, <3>2, FrontOfSeq
    <3>5. Len(front) = n /\ \A m \in 1..n : front[m] = u.ents[m]
      BY <1>1, <1>6, <3>2, FrontOfSeq
    <3> DEFINE cat == front \o e
    <3>6. /\ cat \in Seq(1..MaxTerm) /\ Len(cat) = Len(front) + Len(e)
          /\ \A m \in 1..(Len(front) + Len(e)) : cat[m] = IF m <= Len(front) THEN front[m] ELSE e[m - Len(front)]
      BY <3>4, CatSeq
    <3>7. u2 = [u EXCEPT !.ents = cat]
      BY <3>1
    <3> HIDE DEF cat
    <3>8. u2 \in Unstable /\ u2.snapshot = u.snapshot /\ u2.offset = u.offset /\ u2.ents = cat
      BY <3>6, <3>7 DEF Unstable
    <3>9. ASSUME NEW m \in 1..n PROVE cat[m] = u.ents[m]
      <4>1. m \in 1..(Len(front) + Len(e)) /\ m <= Len(front)
        BY <1>2, <3>3, <3>5
      <4> QED BY <3>5, <3>6, <4>1
    <3>10. ASSUME NEW m \in 1..Len(e) PROVE cat[n + m] = e[m]
      <4> DEFINE x == n + m
      <4>1. x \in 1..(Len(front) + Len(e)) /\ ~(x <= Len(front)) /\ x - Len(front) = m
        BY <1>2, <3>3, <3>5
      <4> HIDE DEF x
      <4>2. cat[x] = e[m]
        BY <3>6, <4>1
      <4> QED BY <4>2 DEF x
    <3> QED BY <2>2, <3>5, <3>6, <3>8, <3>9, <3>10
  <2> QED BY <2>1, <2>2
<1>8. u2 \in Unstable /\ u2.snapshot = u.snapshot /\ u2.offset = IF ci <= u.offset THEN ci ELSE u.offset
  BY <1>7
<1>9. Len(u2.ents) = n + Len(e)
  BY <1>7
<1>10. /\ u2.offset \in Nat \ {0} /\ Len(u2.ents) \in Nat /\ End(u2) = u2.offset + Len(u2.ents) - 1
       /\ End(u2) \in Nat /\ (u2.ents # <<>> <=> Len(u2.ents) >= 1)
  BY <1>8, UnstableType
<1> HIDE DEF n
<1>11. u2.offset <= u.offset /\ u2.offset <= ci /\ n = ci - u2.offset /\ (n > 0 => u2.offset = u.offset)
  BY <1>1, <1>5, <1>6, <1>8, <1>10
<1>12. End(u2) = ci + Len(e) - 1 /\ Len(u2.ents) >= 1 /\ k <= End(u2) /\ ci <= End(u2)
  <2> DEFINE o2 == u2.offset
             l2 == Len(u2.ents)
             le == Len(e)
  <2>1. o2 \in Nat /\ l2 \in Nat /\ l2 = n + le /\ n = ci - o2 /\ End(u2) = o2 + l2 - 1 /\ End(u2) \in Nat
    BY <1>9, <1>10, <1>11
  <2>2. le \in Nat /\ le >= 1
    BY <1>2
  <2> SUFFICES End(u2) = ci + le - 1 /\ l2 >= 1 /\ k <= End(u2) /\ ci <= End(u2)
    OBVIOUS
  <2> HIDE DEF o2, l2, le
  <2>3. End(u2) = ci + le - 1 /\ l2 >= 1
    BY <1>6, <2>1, <2>2
  <2> QED BY <2>2, <2>3
<1>13. u2.ents # <<>> /\ End(u2) <= Len(c[t].log)
  <2>1. u2.ents # <<>>
    BY <1>10, <1>12
  <2> QED BY <1>12, <2>1 DEF SentBy
<1>14. Base(ms, u2) = Base(ms, u)
  BY <1>8 DEF Base
<1>15. u2.ents[Len(u2.ents)] = e[Len(e)]
  <2>1. Len(e) \in 1..Len(e)
    BY <1>2
  <2> QED BY <1>7, <1>9, <2>1
<1>16. Shape(ms, u2)
  <2>1. CASE u.snapshot = NoSnapshot
    <3>1. u.offset <= StorageLast(ms) + 1 /\ ms.index <= k
      BY <1>0, <2>1 DEF Shape, Base
    <3>2. u2.offset <= StorageLast(ms) + 1
      <4>1. u2.offset <= u.offset /\ u2.offset \in Nat /\ u.offset \in Nat
        BY <1>1, <1>10, <1>11
      <4> QED BY <1>3, <3>1, <4>1
    <3>3. ms.index <= End(u2)
      <4>1. k <= End(u2) /\ End(u2) \in Nat
        BY <1>10, <1>12
      <4> QED BY <1>3, <3>1, <4>1
    <3> QED BY <1>8, <1>13, <2>1, <3>2, <3>3 DEF Shape
  <2>2. CASE u.snapshot # NoSnapshot
    <3>1. u.offset = u.snapshot.index + 1 /\ u.snapshot.index <= k
      BY <1>0, <2>2 DEF Shape, Base
    <3>2. u2.offset = u.offset
      BY <1>1, <1>5, <1>8, <3>1
    <3> QED BY <1>8, <2>2, <3>1, <3>2 DEF Shape
  <2> QED BY <2>1, <2>2
<1>17. \A i \in Base(ms, u)..End(u2) : Term(ms, u2, i) = ViewTerm(ms, u2, i)
  BY <1>8, <1>14, <1>16, ViewOf
<1>18. ASSUME NEW i \in Base(ms, u)..(ci - 1) PROVE Term(ms, u2, i) = Term(ms, u, i)
  <2>1. i \in Nat /\ i < ci /\ i >= Base(ms, u)
    BY <1>3, <1>5
  <2>2. i \in Base(ms, u)..End(u) /\ i \in Base(ms, u)..End(u2)
    <3>1. ci <= End(u2) /\ End(u2) \in Nat /\ End(u) \in Nat
      BY <1>1, <1>10, <1>12
    <3> QED BY <1>3, <2>1, <3>1
  <2>3. CASE i < u2.offset
    <3>1. ~(i >= u.offset) /\ ~(i >= u2.offset)
      <4> DEFINE o == u.offset
                 o2 == u2.offset
      <4>1. o \in Nat /\ o2 \in Nat /\ o2 <= o /\ i < o2 /\ i \in Nat
        BY <1>1, <1>10, <1>11, <2>1, <2>3
      <4> HIDE DEF o, o2
      <4>2. ~(i >= o) /\ ~(i >= o2)
        BY <4>1
      <4> QED BY <4>2 DEF o, o2
    <3>2. ViewTerm(ms, u2, i) = ViewTerm(ms, u, i)
      BY <1>8, <3>1 DEF ViewTerm
    <3> QED BY <1>4, <1>17, <2>2, <3>2
  <2>4. CASE ~(i < u2.offset)
    <3> DEFINE m == i - u2.offset + 1
    <3>1. m \in 1..n /\ i >= u2.offset /\ n > 0
      <4>1. u2.offset \in Nat /\ n = ci - u2.offset
        BY <1>10, <1>11
      <4> QED BY <2>1, <2>4, <4>1
    <3>2. u2.offset = u.offset
      BY <1>11, <3>1
    <3> HIDE DEF m
    <3>3. u2.ents[m] = u.ents[m]
      BY <1>7, <3>1
    <3>4. ViewTerm(ms, u2, i) = ViewTerm(ms, u, i)
      BY <3>1, <3>2, <3>3 DEF ViewTerm, m
    <3> QED BY <1>4, <1>17, <2>2, <3>4
  <2> QED BY <2>3, <2>4
<1>19. ASSUME NEW i \in Base(ms, u)..End(u2) PROVE Term(ms, u2, i) = Entry(c, t, i)
  <2>0. i \in Nat /\ i >= Base(ms, u) /\ i <= End(u2)
    BY <1>3, <1>10
  <2>1. CASE i < ci
    <3>1. i \in Base(ms, u)..(ci - 1)
      BY <1>3, <1>5, <2>0, <2>1
    <3> QED BY <1>18, <3>1 DEF Follows
  <2>2. CASE ~(i < ci)
    <3> DEFINE m == i - ci + 1
    <3>1. m \in 1..Len(e) /\ i >= u2.offset /\ i - u2.offset + 1 = n + m /\ i = ci + m - 1 /\ i # 0
      <4> DEFINE le == Len(e)
                 o2 == u2.offset
                 z == End(u2)
      <4>1. /\ le \in Nat /\ o2 \in Nat \ {0} /\ z \in Nat /\ o2 <= ci /\ n = ci - o2 /\ z = ci + le - 1
            /\ i \in Nat /\ i <= z /\ ~(i < ci) /\ ci \in Nat
        BY <1>2, <1>10, <1>11, <1>12, <2>0, <2>2
      <4> HIDE DEF le, o2, z
      <4>2. m \in 1..le /\ i >= o2 /\ i - o2 + 1 = n + m /\ i = ci + m - 1 /\ i # 0
        BY <4>1
      <4> QED BY <4>2 DEF le, o2
    <3> HIDE DEF m
    <3>2. u2.ents[n + m] = e[m]
      BY <1>7, <3>1
    <3>3. ViewTerm(ms, u2, i) = e[m]
      BY <3>1, <3>2 DEF ViewTerm
    <3>4. e[m] = c[t].log[i]
      BY <3>1 DEF SentBy
    <3> QED BY <1>17, <3>1, <3>3, <3>4 DEF Entry
  <2> QED BY <2>1, <2>2
<1>20. Follows(c, ms, u2, t, End(u2))
  BY <1>13, <1>14, <1>19 DEF Follows
<1>21. CommitOK(c, ms, u2, k)
  <2>1. PICK t0 \in 1..MaxTerm : k <= c[t0].commit /\ Follows(c, ms, u, t0, k)
    BY DEF LogInv, CommitOK
  <2>2. \A i \in Base(ms, u)..k : i \in Base(ms, u)..(ci - 1)
    BY <1>3
  <2>3. Follows(c, ms, u2, t0, k)
    BY <1>14, <1>18, <2>1, <2>2 DEF Follows
  <2> QED BY <1>0, <1>12, <1>14, <2>1, <2>3 DEF CommitOK
<1>22. LogInv(c, ms, u2, k)
  BY <1>8, <1>16, <1>20, <1>21 DEF LogInv, LogOK
<1> QED BY <1>8, <1>11, <1>12, <1>13, <1>14, <1>15, <1>18, <1>20, <1>22

\* A snapshot that leader t took at a committed index i.
LEMMA SnapshotView ==
    ASSUME NEW c \in Groups, NEW ms \in Storages, ms.ents # <<>>, NEW t \in 1..MaxTerm,
           NEW i \in Nat \ {0}, i <= c[t].commit,
           NEW s, s = SnapshotOf(SubSeq(c[t].log, 1, i)), NEW u, u = RestoreUnstable(s)
    PROVE  /\ s \in Snapshots /\ s # NoSnapshot /\ s.index = i /\ s.term = c[t].log[i] /\ SnapOK(c, s)
           /\ u \in Unstable /\ u.snapshot = s /\ u.ents = <<>> /\ u.offset = i + 1
           /\ End(u) = i /\ Base(ms, u) = i
           /\ Follows(c, ms, u, t, i) /\ LogInv(c, ms, u, i)
<1> DEFINE d == SubSeq(c[t].log, 1, i)
<1>1. c[t].log \in Seq(1..MaxTerm) /\ c[t].commit \in Nat /\ c[t].commit <= Len(c[t].log) /\ Len(c[t].log) \in Nat
  BY LeaderLog
<1>2. i \in Nat /\ i <= Len(c[t].log)
  BY <1>1
<1>3. d \in Seq(1..MaxTerm) /\ Len(d) = i /\ \A k \in 1..i : d[k] = c[t].log[k]
  BY <1>1, <1>2, FrontOfSeq
<1>4. s = [index |-> Len(d), term |-> d[Len(d)], data |-> d]
  BY DEF SnapshotOf
<1> HIDE DEF d
<1>5. i \in 1..i /\ i \in 1..Len(c[t].log)
  BY <1>2
<1>6. s.index = i /\ s.term = c[t].log[i] /\ s.data = d /\ s.term = d[Len(d)]
  BY <1>3, <1>4, <1>5
<1>7. c[t].log[i] \in Terms
  BY <1>5, LeaderLog, TermsNat
<1>8. s \in Snapshots
  BY <1>2, <1>3, <1>4, <1>6, <1>7 DEF Snapshots
<1>9. s # NoSnapshot /\ d # <<>>
  BY <1>2, <1>3, <1>6 DEF NoSnapshot
<1>10. CommittedSeq(c, d)
  BY <1>3 DEF CommittedSeq
<1>11. SnapOK(c, s)
  BY <1>3, <1>6, <1>9, <1>10 DEF SnapOK
<1>12. u = [snapshot |-> s, offset |-> s.index + 1, ents |-> <<>>]
  BY DEF RestoreUnstable
<1>13. i + 1 \in Nat \ {0} /\ <<>> \in Seq(1..MaxTerm) /\ Len(<<>>) = 0
  BY <1>2, EmptySeq
<1>14. u \in Unstable /\ u.snapshot = s /\ u.ents = <<>> /\ u.offset = i + 1
  <2> DEFINE x == i + 1
             q == <<>>
  <2>1. u = [snapshot |-> s, offset |-> x, ents |-> q] /\ x \in Nat \ {0} /\ q \in Seq(1..MaxTerm)
    BY <1>6, <1>12, <1>13
  <2> HIDE DEF x, q
  <2>2. u \in Unstable /\ u.snapshot = s /\ u.ents = q /\ u.offset = x
    BY <1>8, <2>1 DEF Unstable
  <2> QED BY <2>2 DEF x, q
<1>15. End(u) = i /\ Base(ms, u) = i
  <2>1. End(u) = (i + 1) + 0 - 1
    BY <1>13, <1>14 DEF End
  <2>2. Base(ms, u) = i
    BY <1>6, <1>9, <1>14 DEF Base
  <2> QED BY <2>1, <2>2
<1>16. Shape(ms, u)
  BY <1>6, <1>9, <1>14 DEF Shape
<1>17. Term(ms, u, i) = c[t].log[i]
  <2>1. i \in Base(ms, u)..End(u) /\ ~(i >= u.offset)
    BY <1>2, <1>14, <1>15
  <2>2. Term(ms, u, i) = ViewTerm(ms, u, i)
    BY <1>14, <1>16, <2>1, ViewOf
  <2> QED BY <1>6, <1>9, <1>14, <2>1, <2>2 DEF ViewTerm
<1>18. Follows(c, ms, u, t, i)
  <2>1. \A j \in i..i : j = i /\ j # 0
    BY <1>2
  <2> QED BY <1>2, <1>15, <1>17, <2>1 DEF Follows, Entry
<1>19. LogOK(c, ms, u) /\ CommitOK(c, ms, u, i)
  BY <1>2, <1>15, <1>18 DEF LogOK, CommitOK
<1> QED BY <1>6, <1>8, <1>9, <1>11, <1>14, <1>15, <1>16, <1>18, <1>19 DEF LogInv

\* Storage alone: the log that a restart finds (log.go:53-75).
AllStable(ms) == [snapshot |-> NoSnapshot, offset |-> StorageLast(ms) + 1, ents |-> <<>>]

StorageOK(c, ms) ==
    /\ ms.ents # <<>> /\ SnapOK(c, ms.snapshot)
    /\ ms.index = ms.snapshot.index
    /\ LogInv(c, ms, AllStable(ms), ms.hardState.commit)

\* The empty snapshot (log_unstable.go:22) is one.
LEMMA NoSnapshotType == NoSnapshot \in Snapshots /\ NoSnapshot.index = 0 /\ NoSnapshot.data = <<>>
<1>1. 0 \in Terms /\ <<>> \in Seq(1..MaxTerm)
  BY TermsNat, EmptySeq DEF Terms
<1> QED BY <1>1 DEF NoSnapshot, Snapshots

\* With nothing unstable, as after a restart (log.go:55-80), the log is that of storage.
LEMMA AllStableType ==
    ASSUME NEW ms \in Storages, ms.ents # <<>>
    PROVE  /\ AllStable(ms) \in Unstable /\ Shape(ms, AllStable(ms))
           /\ End(AllStable(ms)) = StorageLast(ms) /\ Base(ms, AllStable(ms)) = ms.index
           /\ AllStable(ms).snapshot = NoSnapshot
           /\ \A i \in ms.index..StorageLast(ms) :
                 /\ Term(ms, AllStable(ms), i) = StorageTerm(ms, i)
                 /\ StorageTerm(ms, i) = ms.ents[i - ms.index + 1]
                 /\ ViewTerm(ms, AllStable(ms), i) = ms.ents[i - ms.index + 1]
                 /\ i - ms.index + 1 \in 1..Len(ms.ents)
<1> DEFINE u == AllStable(ms)
<1>1. /\ ms.index \in Nat /\ Len(ms.ents) \in Nat /\ Len(ms.ents) >= 1
      /\ StorageLast(ms) = ms.index + Len(ms.ents) - 1
  BY StorageType
<1>2. StorageLast(ms) + 1 \in Nat \ {0} /\ <<>> \in Seq(1..MaxTerm) /\ Len(<<>>) = 0
  BY <1>1, EmptySeq
<1>3. u.snapshot = NoSnapshot /\ u.offset = StorageLast(ms) + 1 /\ u.ents = <<>>
  BY DEF AllStable
<1>4. u \in Unstable
  BY <1>2, NoSnapshotType DEF AllStable, Unstable
<1> HIDE DEF u
<1>5. End(u) = StorageLast(ms) /\ Base(ms, u) = ms.index
  BY <1>1, <1>2, <1>3 DEF End, Base
<1>6. Shape(ms, u)
  BY <1>1, <1>3, <1>5 DEF Shape
<1>7. ASSUME NEW i \in ms.index..StorageLast(ms)
      PROVE  /\ Term(ms, u, i) = StorageTerm(ms, i)
             /\ StorageTerm(ms, i) = ms.ents[i - ms.index + 1]
             /\ ViewTerm(ms, u, i) = ms.ents[i - ms.index + 1]
             /\ i - ms.index + 1 \in 1..Len(ms.ents)
  <2>1. /\ i \in Nat /\ ~(i >= u.offset) /\ ~(i < ms.index) /\ ~(i > StorageLast(ms))
        /\ i - ms.index + 1 \in 1..Len(ms.ents)
    BY <1>1, <1>3
  <2>2. Term(ms, u, i) = ViewTerm(ms, u, i)
    BY <1>4, <1>5, <1>6, ViewOf
  <2>3. ViewTerm(ms, u, i) = ms.ents[i - ms.index + 1]
    BY <1>3, <2>1 DEF ViewTerm
  <2>4. StorageTerm(ms, i) = ms.ents[i - ms.index + 1]
    BY <2>1 DEF StorageTerm
  <2> QED BY <2>1, <2>2, <2>3, <2>4
<1> QED BY <1>3, <1>4, <1>5, <1>6, <1>7 DEF u

\* The dummy entry of a storage is committed, and any log that has it agrees with it.
LEMMA DummyAgrees ==
    ASSUME NEW c \in Groups, NEW ms \in Storages, StorageOK(c, ms), NEW u \in Unstable, NEW k \in Nat,
           LogInv(c, ms, u, k), u.snapshot = NoSnapshot
    PROVE  ms.ents[1] = Term(ms, u, ms.index)
<1> DEFINE v == AllStable(ms)
           h == ms.hardState.commit
<1>0. ms.ents # <<>> /\ LogInv(c, ms, v, h)
  BY DEF StorageOK
<1>1. /\ ms.index \in Nat /\ h \in Nat
  BY StorageType
<1>2. PICK t1 \in 1..MaxTerm : h <= c[t1].commit /\ Follows(c, ms, v, t1, h)
  BY <1>0 DEF LogInv, CommitOK
<1>3. PICK t2 \in 1..MaxTerm : k <= c[t2].commit /\ Follows(c, ms, u, t2, k)
  BY DEF LogInv, CommitOK
<1>4. Base(ms, v) = ms.index /\ ms.index <= h /\ h <= StorageLast(ms) /\ StorageLast(ms) \in Int
  <2>1. StorageLast(ms) = ms.index + Len(ms.ents) - 1 /\ Len(ms.ents) \in Nat
    BY StorageType
  <2>2. Base(ms, v) = ms.index /\ End(v) = StorageLast(ms)
    BY <1>0, AllStableType
  <2> HIDE DEF v, h
  <2> QED BY <1>0, <1>1, <2>1, <2>2 DEF LogInv, CommitOK
<1>5. Base(ms, u) = ms.index /\ ms.index <= k
  BY DEF LogInv, CommitOK, Base
<1>6. ms.ents[1] = Term(ms, v, ms.index)
  <2>1. ms.index \in ms.index..StorageLast(ms) /\ ms.index - ms.index + 1 = 1
    BY <1>1, <1>4
  <2> QED BY <1>0, <2>1, AllStableType
<1> HIDE DEF v, h
<1>7. Term(ms, v, ms.index) = Entry(c, t1, ms.index)
  BY <1>1, <1>2, <1>4 DEF Follows
<1>8. Term(ms, u, ms.index) = Entry(c, t2, ms.index)
  BY <1>1, <1>3, <1>5 DEF Follows
<1>9. c[t1].commit \in Nat /\ c[t2].commit \in Nat
  BY LeaderLog
<1>10. ms.index <= c[t1].commit /\ ms.index <= c[t2].commit
  BY <1>1, <1>2, <1>3, <1>4, <1>5, <1>9
<1>11. Entry(c, t1, ms.index) = Entry(c, t2, ms.index)
  BY <1>1, <1>10, CommitsMatch
<1> QED BY <1>6, <1>7, <1>8, <1>11

\* What a Ready asks to write: its log has this storage beneath, and is not all compacted.
Writable(c, ms, ru, k) ==
    /\ LogInv(c, ms, ru, k)
    /\ ru.snapshot # NoSnapshot => ms.index < ru.snapshot.index
    /\ ru.snapshot = NoSnapshot /\ ru.ents # <<>> => ms.index < End(ru)

SnapshotWritten(ms, ru) == IF ru.snapshot # NoSnapshot THEN ApplySnapshot(ms, ru.snapshot) ELSE ms

\* Storage once the snapshot of a Ready is written, in front of its entries: what it has
\* below them is the log's (storage.go:161-177).
LEMMA SnapshotFirst ==
    ASSUME NEW c \in Groups, NEW ms \in Storages, StorageOK(c, ms), NEW ru \in Unstable, NEW k \in Nat,
           Writable(c, ms, ru, k), NEW ms1, ms1 = SnapshotWritten(ms, ru)
    PROVE  /\ ms1 \in Storages /\ Len(ms1.ents) >= 1 /\ ms1.index = Base(ms, ru) /\ SnapOK(c, ms1.snapshot)
           /\ ms1.index = ms1.snapshot.index
           /\ ms1.snapshot = (IF ru.snapshot # NoSnapshot THEN ru.snapshot ELSE ms.snapshot)
           /\ ru.offset <= ms1.index + Len(ms1.ents)
           /\ ru.ents = <<>> => ru.offset = ms1.index + Len(ms1.ents)
           /\ ru.ents # <<>> => ms1.index < End(ru)
           /\ ms1.ents[1] = Term(ms, ru, Base(ms, ru))
           /\ \A i \in Base(ms, ru)..(ru.offset - 1) : ms1.ents[i - ms1.index + 1] = Term(ms, ru, i)
<1>0. LogInv(c, ms, ru, k) /\ Shape(ms, ru) /\ SnapOK(c, ru.snapshot) /\ ms.ents # <<>>
  BY DEF Writable, LogInv, StorageOK
<1>1. /\ ms.index \in Nat /\ Len(ms.ents) \in Nat /\ Len(ms.ents) >= 1
      /\ StorageLast(ms) = ms.index + Len(ms.ents) - 1
  BY <1>0, StorageType
<1>2. /\ ru.offset \in Nat \ {0} /\ Len(ru.ents) \in Nat /\ End(ru) = ru.offset + Len(ru.ents) - 1
      /\ End(ru) \in Nat
      /\ ru.snapshot.index \in Nat /\ ru.snapshot \in Snapshots /\ ru.snapshot.term \in Terms
      /\ (ru.ents # <<>> <=> Len(ru.ents) >= 1)
  BY UnstableType
<1>3. /\ Base(ms, ru) \in Nat /\ Base(ms, ru) <= End(ru)
      /\ \A i \in Base(ms, ru)..End(ru) : Term(ms, ru, i) = ViewTerm(ms, ru, i)
  BY <1>0, ViewOf
<1>4. CASE ru.snapshot # NoSnapshot
  <2> DEFINE s == ru.snapshot
  <2>1. ms.index < s.index /\ ms.snapshot.index = ms.index /\ ru.offset = s.index + 1
    BY <1>0, <1>4 DEF Writable, StorageOK, Shape
  <2>2. ~(ms.snapshot.index >= s.index)
    BY <1>1, <1>2, <2>1
  <2>3. ms1 = [ms EXCEPT !.snapshot = s, !.index = s.index, !.ents = <<s.term>>]
    BY <1>4, <2>2 DEF SnapshotWritten, ApplySnapshot
  <2>4. Base(ms, ru) = s.index
    BY <1>4 DEF Base
  <2>5. <<s.term>> \in Seq(Terms) /\ Len(<<s.term>>) = 1 /\ <<s.term>>[1] = s.term
    BY <1>2
  <2>6. /\ ms1 \in Storages /\ ms1.snapshot = s /\ ms1.index = s.index /\ ms1.ents = <<s.term>>
    <3> DEFINE q == <<s.term>>
               x == s.index
    <3>1. q \in Seq(Terms) /\ x \in Nat /\ s \in Snapshots /\ ms1 = [ms EXCEPT !.snapshot = s, !.index = x, !.ents = q]
      BY <1>2, <2>3, <2>5
    <3> HIDE DEF q, x
    <3>2. ms1 \in Storages /\ ms1.snapshot = s /\ ms1.index = x /\ ms1.ents = q
      BY <3>1 DEF Storages
    <3> QED BY <3>2 DEF q, x
  <2>7. Len(ms1.ents) = 1 /\ ms1.ents[1] = s.term
    BY <2>5, <2>6
  <2>8. Term(ms, ru, s.index) = s.term
    <3>1. s.index \in Base(ms, ru)..End(ru) /\ ~(s.index >= ru.offset)
      BY <1>2, <1>3, <2>1, <2>4
    <3> QED BY <1>3, <1>4, <3>1 DEF ViewTerm
  <2>9. \A i \in s.index..(ru.offset - 1) : i = s.index /\ i - s.index + 1 = 1
    BY <1>2, <2>1
  <2>10. \A i \in Base(ms, ru)..(ru.offset - 1) : ms1.ents[i - ms1.index + 1] = Term(ms, ru, i)
    BY <2>4, <2>6, <2>7, <2>8, <2>9
  <2>11. /\ ru.offset <= ms1.index + Len(ms1.ents) /\ ru.offset = ms1.index + Len(ms1.ents)
         /\ Len(ms1.ents) >= 1
    BY <1>2, <2>1, <2>6, <2>7
  <2>12. ru.ents # <<>> => s.index < End(ru)
    <3>1. ASSUME Len(ru.ents) >= 1 PROVE s.index < End(ru)
      BY <1>2, <2>1, <3>1
    <3> QED BY <1>2, <3>1
  <2> QED BY <1>0, <1>4, <2>4, <2>6, <2>7, <2>8, <2>10, <2>11, <2>12
<1>5. CASE ru.snapshot = NoSnapshot
  <2>1. ms1 = ms /\ Base(ms, ru) = ms.index
    BY <1>5 DEF SnapshotWritten, Base
  <2>2. ms.ents[1] = Term(ms, ru, ms.index)
    BY <1>0, <1>5, DummyAgrees
  <2>3. /\ ru.offset <= StorageLast(ms) + 1 /\ (ru.ents = <<>> => ru.offset = StorageLast(ms) + 1)
        /\ (ru.ents # <<>> => ms.index < End(ru))
    BY <1>0, <1>5 DEF Shape, Writable
  <2>4. ASSUME NEW i \in ms.index..(ru.offset - 1) PROVE ms.ents[i - ms.index + 1] = Term(ms, ru, i)
    <3>1. i \in Base(ms, ru)..End(ru) /\ ~(i >= ru.offset)
      BY <1>1, <1>2, <2>1
    <3> QED BY <1>3, <1>5, <3>1 DEF ViewTerm
  <2>5. ru.offset <= ms.index + Len(ms.ents) /\ (ru.ents = <<>> => ru.offset = ms.index + Len(ms.ents))
    BY <1>1, <1>2, <2>3
  <2>6. ms.index = ms.snapshot.index /\ SnapOK(c, ms.snapshot)
    BY DEF StorageOK
  <2> QED BY <1>1, <1>5, <2>1, <2>2, <2>3, <2>4, <2>5, <2>6
<1> QED BY <1>4, <1>5

\* The entries e from o on lead from this storage's entries, or its dummy, further on.
Joins(ms, o, e) ==
    /\ Len(ms.ents) >= 1 /\ o <= ms.index + Len(ms.ents)
    /\ e = <<>> => o = ms.index + Len(ms.ents)
    /\ e # <<>> => ms.index < o + Len(e) - 1

\* Append to storage: entries from o on replace what it has there, up to their end. The
\* dummy stays (storage.go:241-273).
LEMMA AppendStorage ==
    ASSUME NEW ms \in Storages, NEW o \in Nat \ {0}, NEW e \in Seq(1..MaxTerm), Joins(ms, o, e),
           NEW ms2, ms2 = StorageAppend(ms, o, e)
    PROVE  /\ ms2 \in Storages /\ ~AppendGap(ms, o, e)
           /\ ms2.index = ms.index /\ ms2.snapshot = ms.snapshot /\ ms2.hardState = ms.hardState
           /\ ms2.ents # <<>> /\ StorageLast(ms2) = o + Len(e) - 1 /\ ms2.ents[1] = ms.ents[1]
           /\ \A i \in (ms.index + 1)..(o + Len(e) - 1) :
                 ms2.ents[i - ms.index + 1] = IF i >= o THEN e[i - o + 1] ELSE ms.ents[i - ms.index + 1]
<1> DEFINE b == ms.index
           l == Len(ms.ents)
           n == Len(e)
<1>0. l >= 1 /\ o <= b + l /\ (e = <<>> => o = b + l) /\ (e # <<>> => b < o + n - 1)
  BY DEF Joins
<1>1. b \in Nat /\ l \in Nat /\ StorageLast(ms) = b + l - 1
  BY StorageType
<1>2. n \in Nat /\ (e # <<>> <=> n >= 1)
  BY EmptySeq
<1>7. ms.ents \in Seq(Terms) /\ l = Len(ms.ents) /\ b = ms.index /\ n = Len(e)
  BY StorageType
<1>8. ms2 = (IF n <= Max(b + 1 - o, 0) THEN ms
             ELSE [ms EXCEPT !.ents = SubSeq(ms.ents, 1, o + Max(b + 1 - o, 0) - b) \o SubSeq(e, Max(b + 1 - o, 0) + 1, n)])
  BY DEF StorageAppend
<1> HIDE DEF b, l, n
<1>3. ~AppendGap(ms, o, e)
  <2>1. ~(o > StorageLast(ms) + 1)
    BY <1>0, <1>1
  <2> QED BY <2>1 DEF AppendGap
<1> DEFINE skip == Max(b + 1 - o, 0)
<1>4. skip \in Nat /\ (o >= b + 1 => skip = 0) /\ (o < b + 1 => skip = b + 1 - o)
  BY <1>1 DEF Max
<1>5. CASE e = <<>>
  <2>1. ms2 = ms
    <3>1. n <= skip
      BY <1>2, <1>4, <1>5
    <3> QED BY <1>8, <3>1
  <2>2. n = 0 /\ o + n - 1 = b + l - 1
    BY <1>0, <1>1, <1>2, <1>5
  <2>3. ASSUME NEW i \in (b + 1)..(o + n - 1) PROVE ~(i >= o)
    BY <1>1, <2>2
  <2>4. ms.ents # <<>>
    BY <1>0, <1>1, <1>7, EmptySeq
  <2> QED BY <1>1, <1>3, <1>7, <2>1, <2>2, <2>3, <2>4
<1>6. CASE e # <<>>
  <2> DEFINE q == o + skip - b
             kept == SubSeq(ms.ents, 1, q)
             m0 == skip + 1
             rest == SubSeq(e, m0, n)
             cat == kept \o rest
             r == n - m0 + 1
  <2>0. b < o + n - 1 /\ n >= 1 /\ o <= b + l /\ l >= 1
    BY <1>0, <1>2, <1>6
  <2>1. ~(n <= skip)
    BY <1>1, <1>2, <1>4, <2>0
  <2>2. ms2 = [ms EXCEPT !.ents = cat]
    BY <1>8, <2>1
  <2> HIDE DEF skip
  <2>3. /\ q \in Nat /\ q <= l /\ q >= 1 /\ m0 \in Nat \ {0} /\ m0 <= n + 1 /\ r \in Nat /\ q + r = o + n - b
        /\ (o >= b + 1 => q = o - b) /\ (o < b + 1 => q = 1) /\ m0 - q = b - o + 1
    BY <1>1, <1>2, <1>4, <2>0, <2>1
  <2> HIDE DEF q, m0, r
  <2>4. q <= Len(ms.ents) /\ kept \in Seq(Terms) /\ Len(kept) = q /\ \A m \in 1..q : kept[m] = ms.ents[m]
    BY <1>7, <2>3, FrontOfSeq
  <2>5. m0 <= Len(e) + 1 /\ r = Len(e) - m0 + 1 /\ rest = SubSeq(e, m0, Len(e)) /\ q <= Len(ms.ents)
    BY <1>7, <2>3 DEF r
  <2>6. rest \in Seq(1..MaxTerm) /\ Len(rest) = r /\ \A m \in 1..r : rest[m] = e[m0 + m - 1]
    <3>1. m0 \in Nat \ {0} /\ m0 <= Len(e) + 1 /\ r = Len(e) - m0 + 1 /\ rest = SubSeq(e, m0, Len(e))
      BY <2>3, <2>5
    <3> HIDE DEF rest
    <3>2. /\ SubSeq(e, m0, Len(e)) \in Seq(1..MaxTerm) /\ Len(SubSeq(e, m0, Len(e))) = r
          /\ \A m \in 1..r : SubSeq(e, m0, Len(e))[m] = e[m0 + m - 1]
      <4> DEFINE S == 1..MaxTerm
      <4>1. e \in Seq(S)
        OBVIOUS
      <4> HIDE DEF S
      <4>2. /\ SubSeq(e, m0, Len(e)) \in Seq(S) /\ Len(SubSeq(e, m0, Len(e))) = r
            /\ \A m \in 1..r : SubSeq(e, m0, Len(e))[m] = e[m0 + m - 1]
        BY <3>1, <4>1, RestOfSeq
      <4> QED BY <4>2 DEF S
    <3> QED BY <3>1, <3>2
  <2> HIDE DEF kept, rest
  <2>7. rest \in Seq(Terms)
    BY <2>6, TermsNat, SeqMonotonic
  <2>8. /\ cat \in Seq(Terms) /\ Len(cat) = Len(kept) + Len(rest)
        /\ \A m \in 1..(Len(kept) + Len(rest)) : cat[m] = IF m <= Len(kept) THEN kept[m] ELSE rest[m - Len(kept)]
    BY <2>4, <2>7, CatSeq
  <2> HIDE DEF cat
  <2>9. /\ ms2 \in Storages /\ ms2.index = b /\ ms2.snapshot = ms.snapshot /\ ms2.hardState = ms.hardState
        /\ ms2.ents = cat
    BY <1>7, <2>2, <2>8 DEF Storages
  <2>10. /\ cat \in Seq(Terms) /\ Len(cat) = q + r
         /\ \A m \in 1..(q + r) : cat[m] = IF m <= q THEN kept[m] ELSE rest[m - q]
    BY <2>4, <2>6, <2>8
  <2>11. StorageLast(ms2) = o + n - 1
    <3>1. StorageLast(ms2) = b + (q + r) - 1
      BY <2>9, <2>10 DEF StorageLast
    <3> QED BY <1>1, <1>2, <2>3, <3>1
  <2>12. cat # <<>> /\ cat[1] = ms.ents[1]
    <3>1. 1 \in 1..(q + r) /\ 1 <= q /\ 1 \in 1..q /\ q + r >= 1
      BY <2>3
    <3>2. Len(cat) # 0
      BY <2>3, <2>10, <3>1
    <3> QED BY <2>4, <2>10, <3>1, <3>2, EmptySeq
  <2>13. ASSUME NEW i \in (b + 1)..(o + n - 1)
         PROVE  cat[i - b + 1] = IF i >= o THEN e[i - o + 1] ELSE ms.ents[i - b + 1]
    <3> DEFINE m == i - b + 1
    <3>1. i \in Nat /\ m \in 1..(q + r) /\ m >= 2
      BY <1>1, <1>2, <2>3
    <3>2. CASE i >= o
      <4> DEFINE x == m - q
      <4>1. ~(m <= q) /\ x \in 1..r /\ m0 + x - 1 = i - o + 1
        BY <1>1, <1>2, <2>3, <3>1, <3>2
      <4>2. cat[m] = rest[x]
        BY <2>10, <3>1, <4>1
      <4> HIDE DEF x
      <4>3. rest[x] = e[i - o + 1]
        BY <2>6, <4>1
      <4> QED BY <3>2, <4>2, <4>3
    <3>3. CASE ~(i >= o)
      <4>1. m <= q /\ m \in 1..q
        BY <1>1, <1>2, <2>3, <3>1, <3>3
      <4> QED BY <2>4, <2>10, <3>1, <3>3, <4>1
    <3> QED BY <3>2, <3>3
  <2> QED BY <1>3, <1>7, <2>9, <2>11, <2>12, <2>13
<1> QED BY <1>5, <1>6

\* Entries and HardState of a Ready, behind its snapshot.
RestWritten(ms1, ru, hs) == [StorageAppend(ms1, ru.offset, ru.ents) EXCEPT !.hardState = hs]

\* Storage once a Ready is written: it has the log of the Ready (rawnode.go:174-179,
\* storage.go:161-177, 241-273).
LEMMA WriteView ==
    ASSUME NEW c \in Groups, NEW ms \in Storages, StorageOK(c, ms), NEW ru \in Unstable,
           NEW hs \in HardStates, Writable(c, ms, ru, hs.commit), NEW ms1, ms1 = SnapshotWritten(ms, ru),
           NEW ms2, ms2 = RestWritten(ms1, ru, hs)
    PROVE  /\ ms2 \in Storages /\ ~AppendGap(ms1, ru.offset, ru.ents) /\ ms2.hardState = hs
           /\ ms2.snapshot = (IF ru.snapshot # NoSnapshot THEN ru.snapshot ELSE ms.snapshot)
           /\ ms2.ents # <<>> /\ ms2.index = Base(ms, ru) /\ StorageLast(ms2) = End(ru)
           /\ \A i \in Base(ms, ru)..End(ru) : ms2.ents[i - ms2.index + 1] = Term(ms, ru, i)
           /\ StorageOK(c, ms2)
<1> DEFINE b == Base(ms, ru)
           k == hs.commit
           o == ru.offset
           e == ru.ents
<1>0. LogInv(c, ms, ru, k) /\ Shape(ms, ru) /\ ms.ents # <<>> /\ k \in Nat
  BY DEF Writable, LogInv, StorageOK, HardStates
<1>1. /\ ms1 \in Storages /\ ms1.ents # <<>> /\ ms1.index = b /\ SnapOK(c, ms1.snapshot)
      /\ ms1.index = ms1.snapshot.index
      /\ ms1.snapshot = (IF ru.snapshot # NoSnapshot THEN ru.snapshot ELSE ms.snapshot)
      /\ Joins(ms1, o, e)
      /\ ms1.ents[1] = Term(ms, ru, b)
      /\ \A i \in b..(o - 1) : ms1.ents[i - ms1.index + 1] = Term(ms, ru, i)
  <2>1. /\ ms1 \in Storages /\ Len(ms1.ents) >= 1 /\ ms1.index = Base(ms, ru) /\ SnapOK(c, ms1.snapshot)
        /\ ms1.index = ms1.snapshot.index
        /\ ms1.snapshot = (IF ru.snapshot # NoSnapshot THEN ru.snapshot ELSE ms.snapshot)
        /\ ru.offset <= ms1.index + Len(ms1.ents)
        /\ ru.ents = <<>> => ru.offset = ms1.index + Len(ms1.ents)
        /\ ru.ents # <<>> => ms1.index < End(ru)
        /\ ms1.ents[1] = Term(ms, ru, Base(ms, ru))
        /\ \A i \in Base(ms, ru)..(ru.offset - 1) : ms1.ents[i - ms1.index + 1] = Term(ms, ru, i)
    BY <1>0, SnapshotFirst
  <2>2. Joins(ms1, o, e)
    BY <2>1 DEF Joins, End
  <2>3. ms1.ents # <<>>
    BY <2>1, StorageType, EmptySeq
  <2> QED BY <2>1, <2>2, <2>3
<1>2. /\ b \in Nat /\ End(ru) \in Nat /\ b <= End(ru) /\ End(ru) = o + Len(e) - 1
      /\ o \in Nat \ {0} /\ e \in Seq(1..MaxTerm) /\ Len(e) \in Nat
  BY <1>0, ViewOf, UnstableType
<1> DEFINE m == StorageAppend(ms1, o, e)
<1> HIDE DEF b, o, e, k
<1>3. /\ m \in Storages /\ ~AppendGap(ms1, o, e) /\ m.index = ms1.index /\ m.snapshot = ms1.snapshot
      /\ m.ents # <<>> /\ StorageLast(m) = o + Len(e) - 1 /\ m.ents[1] = ms1.ents[1]
      /\ \A i \in (ms1.index + 1)..(o + Len(e) - 1) :
            m.ents[i - ms1.index + 1] = IF i >= o THEN e[i - o + 1] ELSE ms1.ents[i - ms1.index + 1]
  <2>1. m = StorageAppend(ms1, o, e) /\ ms1 \in Storages /\ o \in Nat \ {0} /\ e \in Seq(1..MaxTerm) /\ Joins(ms1, o, e)
    BY <1>1, <1>2
  <2> HIDE DEF m
  <2> QED BY <2>1, AppendStorage
<1> HIDE DEF m
<1>4. ms2 = [m EXCEPT !.hardState = hs]
  BY DEF m, o, e, RestWritten
<1>5. /\ ms2 \in Storages /\ ms2.index = b /\ ms2.snapshot = ms1.snapshot /\ ms2.ents = m.ents
      /\ ms2.hardState = hs
  BY <1>1, <1>3, <1>4 DEF Storages
<1>6. StorageLast(ms2) = End(ru)
  <2>1. ms2.index = m.index /\ ms2.ents = m.ents /\ StorageLast(m) = End(ru)
    BY <1>1, <1>2, <1>3, <1>5
  <2> QED BY <2>1 DEF StorageLast
<1>7. ASSUME NEW i \in b..End(ru) PROVE ms2.ents[i - b + 1] = Term(ms, ru, i)
  <2>1. i \in Nat /\ i >= b /\ i <= End(ru)
    BY <1>2
  <2>2. CASE i = b
    <3>1. i - b + 1 = 1
      BY <1>2, <2>2
    <3> QED BY <1>1, <1>3, <1>5, <2>2, <3>1
  <2>3. CASE i # b
    <3>1. i \in (ms1.index + 1)..(o + Len(e) - 1) /\ ms1.index = b
      BY <1>1, <1>2, <2>1, <2>3
    <3>2. ms2.ents[i - b + 1] = IF i >= o THEN e[i - o + 1] ELSE ms1.ents[i - b + 1]
      BY <1>3, <1>5, <3>1
    <3>3. CASE i >= o
      <4>1. Term(ms, ru, i) = ViewTerm(ms, ru, i)
        BY <1>0, ViewOf DEF b
      <4> QED BY <3>2, <3>3, <4>1 DEF ViewTerm, o, e
    <3>4. CASE ~(i >= o)
      <4>1. i \in b..(o - 1)
        BY <1>2, <2>1, <3>4
      <4> QED BY <1>1, <3>2, <3>4, <4>1
    <3> QED BY <3>3, <3>4
  <2> QED BY <2>2, <2>3
<1>8. StorageOK(c, ms2)
  <2> DEFINE v == AllStable(ms2)
  <2>1. /\ v \in Unstable /\ Shape(ms2, v) /\ End(v) = End(ru) /\ Base(ms2, v) = b /\ v.snapshot = NoSnapshot
        /\ \A i \in b..End(ru) : ViewTerm(ms2, v, i) = ms2.ents[i - b + 1]
    <3>1. /\ v \in Unstable /\ Shape(ms2, v) /\ End(v) = StorageLast(ms2) /\ Base(ms2, v) = ms2.index
          /\ v.snapshot = NoSnapshot
          /\ \A i \in ms2.index..StorageLast(ms2) : ViewTerm(ms2, v, i) = ms2.ents[i - ms2.index + 1]
      BY <1>3, <1>5, AllStableType
    <3> HIDE DEF v
    <3> QED BY <1>5, <1>6, <3>1
  <2> HIDE DEF v
  <2>2. ASSUME NEW i \in b..End(ru) PROVE ViewTerm(ms2, v, i) = ViewTerm(ms, ru, i)
    <3>1. Term(ms, ru, i) = ViewTerm(ms, ru, i)
      BY <1>0, ViewOf DEF b
    <3> QED BY <1>7, <2>1, <3>1
  <2>3. SnapOK(c, v.snapshot)
    BY <2>1 DEF SnapOK
  <2>4. b = Base(ms, ru) /\ b <= k
    BY <1>0 DEF LogInv, CommitOK, b
  <2>5. LogInv(c, ms2, v, k)
    <3>1. b <= b
      BY <1>2
    <3>2. ms2.ents # <<>> /\ SnapOK(c, v.snapshot) /\ Shape(ms2, v) /\ End(v) = End(ru)
          /\ Base(ms, ru) <= Base(ms2, v) /\ Base(ms2, v) <= k
      BY <1>3, <1>5, <2>1, <2>3, <2>4, <3>1
    <3>3. \A i \in Base(ms2, v)..End(ru) : ViewTerm(ms2, v, i) = ViewTerm(ms, ru, i)
      BY <2>1, <2>2
    <3> QED BY <1>0, <1>5, <2>1, <3>2, <3>3, KeepsLog
  <2> QED BY <1>1, <1>3, <1>5, <2>5 DEF StorageOK, v, k
<1> QED BY <1>1, <1>3, <1>5, <1>6, <1>7, <1>8 DEF b, o, e

\* ms2 has the log that ms and ru are together.
HasLog(ms2, ms, ru) ==
    /\ ms2.ents # <<>> /\ ms2.index = Base(ms, ru) /\ StorageLast(ms2) = End(ru)
    /\ \A i \in Base(ms, ru)..End(ru) : ms2.ents[i - ms2.index + 1] = Term(ms, ru, i)

\* Unstable entries u that have replaced those of ru from some index on, at the latest
\* behind them.
Replaces(u, ru) ==
    u.snapshot = NoSnapshot =>
        ru.snapshot = NoSnapshot /\ u.offset <= ru.offset /\ (ru.ents # <<>> => u.ents # <<>>)

\* The write of a Ready leaves the server's log as it is, although that has gone on in the
\* meantime.
LEMMA WriteKeeps ==
    ASSUME NEW c \in Groups, NEW ms \in Storages, ms.ents # <<>>, NEW ru \in Unstable, NEW k2 \in Nat, LogInv(c, ms, ru, k2),
           NEW ms2 \in Storages, HasLog(ms2, ms, ru),
           NEW u \in Unstable, NEW k \in Nat, LogInv(c, ms, u, k), Replaces(u, ru)
    PROVE  /\ LogInv(c, ms2, u, k) /\ Base(ms2, u) = Base(ms, u)
           /\ \A i \in Base(ms, u)..End(u) : Term(ms2, u, i) = Term(ms, u, i)
           /\ \A t \in 1..MaxTerm : Follows(c, ms, u, t, End(u)) => Follows(c, ms2, u, t, End(u))
<1>0. Shape(ms, u) /\ Shape(ms, ru) /\ SnapOK(c, u.snapshot) /\ ms2.ents # <<>> /\ Base(ms, u) <= k
  BY DEF LogInv, HasLog, CommitOK
<1>1. /\ u.offset \in Nat \ {0} /\ Len(u.ents) \in Nat /\ End(u) = u.offset + Len(u.ents) - 1
      /\ End(u) \in Nat /\ (u.ents # <<>> <=> Len(u.ents) >= 1)
  BY UnstableType
<1>2. /\ ru.offset \in Nat \ {0} /\ Len(ru.ents) \in Nat /\ End(ru) = ru.offset + Len(ru.ents) - 1
      /\ End(ru) \in Nat /\ (ru.ents # <<>> <=> Len(ru.ents) >= 1)
  BY UnstableType
<1>3. Base(ms, u) \in Nat /\ Base(ms, u) <= End(u) /\ Base(ms, ru) \in Nat
  BY <1>0, ViewOf
<1>4. Base(ms2, u) = Base(ms, u) /\ Shape(ms2, u) /\ \A i \in Base(ms, u)..End(u) : ViewTerm(ms2, u, i) = ViewTerm(ms, u, i)
  <2>1. CASE u.snapshot # NoSnapshot
    <3>1. Base(ms2, u) = Base(ms, u)
      BY <2>1 DEF Base
    <3>2. Shape(ms2, u)
      BY <1>0, <2>1 DEF Shape
    <3>3. \A i \in Base(ms, u)..End(u) : ViewTerm(ms2, u, i) = ViewTerm(ms, u, i)
      BY <2>1 DEF ViewTerm
    <3> QED BY <3>1, <3>2, <3>3
  <2>2. CASE u.snapshot = NoSnapshot
    <3>1. ru.snapshot = NoSnapshot /\ u.offset <= ru.offset /\ (ru.ents # <<>> => u.ents # <<>>)
      BY <2>2 DEF Replaces
    <3>2. Base(ms, ru) = ms.index /\ Base(ms, u) = ms.index /\ Base(ms2, u) = ms2.index /\ ms2.index = ms.index
      BY <2>2, <3>1 DEF Base, HasLog
    <3>3. StorageLast(ms2) = End(ru)
      BY DEF HasLog
    <3>4. /\ u.offset <= StorageLast(ms) + 1 /\ (u.ents = <<>> => u.offset = StorageLast(ms) + 1)
          /\ (ru.ents = <<>> => ru.offset = StorageLast(ms) + 1)
      BY <1>0, <2>2, <3>1 DEF Shape
    <3>5. StorageLast(ms) \in Int
      <4>1. StorageLast(ms) = ms.index + Len(ms.ents) - 1 /\ ms.index \in Nat /\ Len(ms.ents) \in Nat
        BY StorageType
      <4> QED BY <4>1
    <3>6. u.offset <= End(ru) + 1
      BY <1>1, <1>2, <3>1
    <3>7. u.ents = <<>> => u.offset = End(ru) + 1
      <4>1. ASSUME u.ents = <<>> PROVE ru.offset = u.offset /\ Len(ru.ents) = 0
        BY <1>2, <3>1, <3>4, <4>1
      <4>2. ASSUME ru.offset = u.offset, Len(ru.ents) = 0 PROVE u.offset = End(ru) + 1
        BY <1>1, <1>2, <4>2
      <4> QED BY <4>1, <4>2
    <3>8. Shape(ms2, u)
      <4>1. ms2.index <= End(u)
        BY <1>3, <3>2
      <4>2. u.offset <= StorageLast(ms2) + 1 /\ (u.ents = <<>> => u.offset = StorageLast(ms2) + 1)
        BY <3>3, <3>6, <3>7
      <4> QED BY <2>2, <4>1, <4>2 DEF Shape
    <3>9. ASSUME NEW i \in Base(ms, u)..End(u) PROVE ViewTerm(ms2, u, i) = ViewTerm(ms, u, i)
      <4>1. CASE i >= u.offset
        BY <4>1 DEF ViewTerm
      <4>2. CASE ~(i >= u.offset)
        <5>1. i \in Base(ms, ru)..End(ru) /\ ~(i >= ru.offset)
          BY <1>1, <1>2, <1>3, <3>1, <3>2, <3>6, <4>2
        <5>2. ms2.ents[i - ms2.index + 1] = Term(ms, ru, i)
          BY <5>1 DEF HasLog
        <5>3. Term(ms, ru, i) = ViewTerm(ms, ru, i)
          BY <1>0, <5>1, ViewOf
        <5>4. ViewTerm(ms, ru, i) = ms.ents[i - ms.index + 1]
          BY <3>1, <5>1 DEF ViewTerm
        <5> QED BY <2>2, <3>2, <4>2, <5>2, <5>3, <5>4 DEF ViewTerm
      <4> QED BY <4>1, <4>2
    <3> QED BY <3>2, <3>8, <3>9
  <2> QED BY <2>1, <2>2
<1>5. Base(ms, u) <= Base(ms2, u) /\ Base(ms2, u) <= k /\ \A i \in Base(ms2, u)..End(u) : ViewTerm(ms2, u, i) = ViewTerm(ms, u, i)
  BY <1>0, <1>3, <1>4
<1>6. /\ LogInv(c, ms2, u, k)
      /\ \A i \in Base(ms2, u)..End(u) : Term(ms2, u, i) = Term(ms, u, i)
      /\ \A t \in 1..MaxTerm : Follows(c, ms, u, t, End(u)) => Follows(c, ms2, u, t, End(u))
  BY <1>0, <1>4, <1>5, KeepsLog
<1> QED BY <1>4, <1>6

-----------------------------------------------------------------------------
(* Advance *)

Last(ru) == ru.ents[Len(ru.ents)]

\* The unstable entries have x at i.
Holds(u, i, x) == i >= u.offset /\ i < u.offset + Len(u.ents) /\ u.ents[i - u.offset + 1] = x

\* The unstable entries still have the last one of the Ready.
Fires(u, ru) == ru.ents # <<>> /\ Holds(u, End(ru), Last(ru))

\* The unstable part after Advance of the Ready's ru (rawnode.go:181-189).
Advanced(u, ru) ==
    LET u1 == IF ru.ents = <<>> THEN u ELSE StableTo(u, End(ru), Last(ru))
    IN  IF ru.snapshot = NoSnapshot THEN u1 ELSE StableSnapTo(u1, ru.snapshot.index)

\* While the Ready is handled the unstable entries grow or are replaced from some index on;
SameBasis(u, ru) ==
    u.snapshot = ru.snapshot /\ u.offset <= ru.offset /\ (ru.ents # <<>> => u.ents # <<>>)

\* or a snapshot replaces them that is newer than the Ready's commit index k, and no log has
\* both that and an entry of the Ready behind it.
NewBasis(c, u, ru, k) ==
    /\ u.snapshot # NoSnapshot /\ u.snapshot.index > k
    /\ ru.ents # <<>> /\ End(ru) > u.snapshot.index =>
          Incompatible(c, End(ru), Last(ru), u.snapshot.index, u.snapshot.term)

\* The last unstable entry is the log's last.
LEMMA LastOf ==
    ASSUME NEW ms \in Storages, NEW u \in Unstable, Shape(ms, u), ms.ents # <<>>, u.ents # <<>>
    PROVE  Last(u) = Term(ms, u, End(u)) /\ Last(u) \in 1..MaxTerm /\ End(u) >= u.offset
<1>1. /\ u.offset \in Nat \ {0} /\ Len(u.ents) \in Nat /\ End(u) = u.offset + Len(u.ents) - 1
      /\ End(u) \in Nat /\ Len(u.ents) >= 1 /\ \A k \in 1..Len(u.ents) : u.ents[k] \in 1..MaxTerm
  BY UnstableType
<1>2. Base(ms, u) \in Nat /\ Base(ms, u) <= End(u)
  BY ViewOf
<1>3. End(u) \in Base(ms, u)..End(u) /\ End(u) >= u.offset /\ End(u) - u.offset + 1 = Len(u.ents) /\ Len(u.ents) \in 1..Len(u.ents)
  BY <1>1, <1>2
<1>4. Term(ms, u, End(u)) = ViewTerm(ms, u, End(u))
  BY <1>3, ViewOf
<1> QED BY <1>1, <1>3, <1>4 DEF ViewTerm, Last

\* stableTo drops the entries up to i if the one at i is the one written, and nothing
\* otherwise (log_unstable.go:76-90).
LEMMA StableToDrops ==
    ASSUME NEW u \in Unstable, NEW i \in Nat, NEW x, Holds(u, i, x), NEW u1, u1 = StableTo(u, i, x)
    PROVE  /\ u1 \in Unstable /\ u1.snapshot = u.snapshot /\ u1.offset = i + 1 /\ End(u1) = End(u)
           /\ \A j \in (i + 1)..End(u) : u1.ents[j - u1.offset + 1] = u.ents[j - u.offset + 1]
<1>1. /\ u.offset \in Nat \ {0} /\ Len(u.ents) \in Nat /\ End(u) = u.offset + Len(u.ents) - 1
      /\ u.ents \in Seq(1..MaxTerm)
  BY UnstableType
<1>2. i >= u.offset /\ i < u.offset + Len(u.ents) /\ u.ents[i - u.offset + 1] = x
  BY DEF Holds
<1>3. KnowsTerm(u, i) /\ MaybeTerm(u, i) = x
  <2>1. ~(i < u.offset)
    BY <1>1, <1>2
  <2> QED BY <1>2, <2>1 DEF KnowsTerm, MaybeTerm
<1> DEFINE m == i + 2 - u.offset
           o == i + 1
           r == SubSeq(u.ents, m, Len(u.ents))
           n == End(u) - i
<1>4. u1 = [u EXCEPT !.offset = o, !.ents = r]
  BY <1>2, <1>3 DEF StableTo
<1>5. m \in Nat \ {0} /\ m <= Len(u.ents) + 1 /\ n = Len(u.ents) - m + 1 /\ o \in Nat \ {0} /\ n \in Nat
  <2> DEFINE a == u.offset
             l == Len(u.ents)
             z == End(u)
  <2>1. a \in Nat \ {0} /\ l \in Nat /\ z = a + l - 1 /\ i >= a /\ i < a + l
    BY <1>1, <1>2
  <2> SUFFICES i + 2 - a \in Nat \ {0} /\ i + 2 - a <= l + 1 /\ z - i = l - (i + 2 - a) + 1 /\ i + 1 \in Nat \ {0} /\ z - i \in Nat
    OBVIOUS
  <2> HIDE DEF a, l, z
  <2> QED BY <2>1
<1>6. o + n - 1 = End(u)
  BY <1>1
<1> HIDE DEF m, n
<1>7. r \in Seq(1..MaxTerm) /\ Len(r) = n /\ \A k \in 1..n : r[k] = u.ents[m + k - 1]
  <2> DEFINE S == 1..MaxTerm
  <2>1. u.ents \in Seq(S)
    BY <1>1
  <2> HIDE DEF S
  <2>2. r \in Seq(S) /\ Len(r) = n /\ \A k \in 1..n : r[k] = u.ents[m + k - 1]
    BY <1>5, <2>1, RestOfSeq
  <2> QED BY <2>2 DEF S
<1> HIDE DEF o, r
<1>8. u1 \in Unstable /\ u1.snapshot = u.snapshot /\ u1.offset = o /\ u1.ents = r
  BY <1>4, <1>5, <1>7 DEF Unstable
<1>9. End(u1) = End(u)
  <2>1. End(u1) = o + n - 1
    BY <1>7, <1>8 DEF End
  <2> QED BY <1>6, <2>1
<1>10. ASSUME NEW j \in (i + 1)..End(u) PROVE r[j - o + 1] = u.ents[j - u.offset + 1]
  <2> DEFINE y == j - o + 1
  <2>1. y \in 1..n /\ m + y - 1 = j - u.offset + 1
    BY <1>1 DEF m, o, n
  <2> HIDE DEF y
  <2>2. r[y] = u.ents[m + y - 1]
    BY <1>7, <2>1
  <2> QED BY <2>1, <2>2 DEF y
<1> QED BY <1>8, <1>9, <1>10 DEF o

\* stableTo drops nothing when it does not find the term it was told (log_unstable.go:74-87).
LEMMA StableToKeeps ==
    ASSUME NEW u \in Unstable, NEW i \in Nat, NEW x, ~Holds(u, i, x)
    PROVE  StableTo(u, i, x) = u
<1>1. u.offset \in Nat \ {0} /\ Len(u.ents) \in Nat
  BY UnstableType
<1>2. ASSUME i >= u.offset, KnowsTerm(u, i), MaybeTerm(u, i) = x PROVE FALSE
  <2>1. ~(i < u.offset)
    BY <1>1, <1>2
  <2>2. i < u.offset + Len(u.ents) /\ u.ents[i - u.offset + 1] = x
    BY <1>2, <2>1 DEF KnowsTerm, MaybeTerm
  <2> QED BY <1>2, <2>2 DEF Holds
<1> QED BY <1>2 DEF StableTo

\* The log is the same with u2 for u.
Kept(c, ms, u, u2, k) ==
    /\ u2 \in Unstable /\ LogInv(c, ms, u2, k) /\ Base(ms, u2) = Base(ms, u) /\ End(u2) = End(u)
    /\ \A i \in Base(ms, u)..End(u) : Term(ms, u2, i) = Term(ms, u, i)

\* A log keeps itself.
LEMMA KeptSelf ==
    ASSUME NEW c, NEW ms, NEW u \in Unstable, NEW k, LogInv(c, ms, u, k)
    PROVE  Kept(c, ms, u, u, k)
  BY DEF Kept

\* Entries that are written need not be kept: storage has the log up to them, for both it
\* and the unstable entries have the Ready's last one.
LEMMA DropsWritten ==
    ASSUME NEW c \in Groups, NEW ms \in Storages, ms.ents # <<>>, NEW ru \in Unstable, NEW k2 \in Nat,
           LogInv(c, ms, ru, k2), HasLog(ms, ms, ru), NEW u \in Unstable, NEW k \in Nat, LogInv(c, ms, u, k),
           SameBasis(u, ru), Fires(u, ru), NEW u2 \in Unstable, u2.snapshot = NoSnapshot,
           u2.offset = End(ru) + 1, End(u2) = End(u),
           \A j \in (End(ru) + 1)..End(u) : u2.ents[j - u2.offset + 1] = u.ents[j - u.offset + 1]
    PROVE  Kept(c, ms, u, u2, k)
<1>0. Shape(ms, u) /\ Shape(ms, ru) /\ Base(ms, u) <= k /\ LogOK(c, ms, u) /\ LogOK(c, ms, ru)
  BY DEF LogInv, CommitOK
<1>1. /\ u.offset \in Nat \ {0} /\ Len(u.ents) \in Nat /\ End(u) = u.offset + Len(u.ents) - 1
      /\ End(u) \in Nat
  BY UnstableType
<1>2. ru.ents # <<>> /\ End(ru) >= u.offset /\ End(ru) < u.offset + Len(u.ents)
  BY DEF Fires, Holds
<1>3. u.ents[End(ru) - u.offset + 1] = Last(ru)
  BY DEF Fires, Holds
<1>4. End(ru) \in Nat
  BY UnstableType
<1>5. Base(ms, u) = Base(ms, ru) /\ Base(ms, u2) = ms.index /\ ms.index = Base(ms, ru) /\ StorageLast(ms) = End(ru)
  BY DEF SameBasis, Base, HasLog
<1>6. Base(ms, u) \in Nat /\ Base(ms, u) <= End(u) /\ Base(ms, ru) <= End(ru)
  BY <1>0, ViewOf
<1>7. End(ru) <= End(u) /\ End(ru) \in Base(ms, u)..End(u) /\ End(ru) \in Base(ms, ru)..End(ru)
  BY <1>1, <1>2, <1>4, <1>5, <1>6
<1>8. Term(ms, u, End(ru)) = Last(ru)
  <2>1. Term(ms, u, End(ru)) = ViewTerm(ms, u, End(ru))
    BY <1>0, <1>7, ViewOf
  <2> QED BY <1>2, <1>3, <2>1 DEF ViewTerm
<1>9. Term(ms, ru, End(ru)) = Last(ru)
  BY <1>0, <1>2, LastOf
<1>10. PICK t \in 1..MaxTerm : Follows(c, ms, ru, t, End(ru))
  BY <1>0 DEF LogOK
<1>11. Follows(c, ms, u, t, End(ru))
  <2>1. End(ru) <= Len(c[t].log) /\ Term(ms, ru, End(ru)) = Entry(c, t, End(ru))
    BY <1>7, <1>10 DEF Follows
  <2>2. Base(ms, u) <= End(ru)
    BY <1>5, <1>6
  <2> QED BY <1>0, <1>4, <1>7, <1>8, <1>9, <2>1, <2>2, FollowsBelow
<1>12. ASSUME NEW i \in Base(ms, u2)..End(u) PROVE ViewTerm(ms, u2, i) = ViewTerm(ms, u, i)
  <2>0. i \in Nat /\ i \in Base(ms, u)..End(u) /\ i >= ms.index /\ ms.index \in Nat
    BY <1>1, <1>5, <1>6
  <2>1. CASE i >= End(ru) + 1
    <3>1. i \in (End(ru) + 1)..End(u) /\ i >= u.offset /\ i >= u2.offset
      BY <1>1, <1>2, <1>4, <2>0, <2>1
    <3>2. u2.ents[i - u2.offset + 1] = u.ents[i - u.offset + 1]
      BY <3>1
    <3> QED BY <3>1, <3>2 DEF ViewTerm
  <2>2. CASE ~(i >= End(ru) + 1)
    <3>1. i \in Base(ms, ru)..End(ru) /\ i \in Base(ms, u)..End(ru) /\ ~(i >= u2.offset)
      BY <1>4, <1>5, <2>0, <2>2
    <3>2. ViewTerm(ms, u2, i) = ms.ents[i - ms.index + 1]
      BY <3>1 DEF ViewTerm
    <3>3. ms.ents[i - ms.index + 1] = Term(ms, ru, i)
      BY <3>1 DEF HasLog
    <3>4. Term(ms, ru, i) = Entry(c, t, i) /\ Term(ms, u, i) = Entry(c, t, i)
      BY <1>10, <1>11, <3>1 DEF Follows
    <3>5. Term(ms, u, i) = ViewTerm(ms, u, i)
      BY <1>0, <2>0, ViewOf
    <3> QED BY <3>2, <3>3, <3>4, <3>5
  <2> QED BY <2>1, <2>2
<1>13. Shape(ms, u2)
  <2>1. u2.offset = StorageLast(ms) + 1 /\ ms.index <= End(u2)
    BY <1>5, <1>6
  <2>2. StorageLast(ms) + 1 <= StorageLast(ms) + 1
    BY <1>4, <1>5
  <2> QED BY <2>1, <2>2 DEF Shape
<1>14. SnapOK(c, u2.snapshot) /\ Base(ms, u) <= Base(ms, u2) /\ Base(ms, u2) <= k /\ Base(ms, u2) = Base(ms, u)
  BY <1>0, <1>5, <1>6 DEF SnapOK
<1>15. LogInv(c, ms, u2, k) /\ \A i \in Base(ms, u2)..End(u) : Term(ms, u2, i) = Term(ms, u, i)
  BY <1>12, <1>13, <1>14, KeepsLog
<1> QED BY <1>14, <1>15 DEF Kept

\* A snapshot that is written need not be kept: it is storage's dummy now.
LEMMA DropsSnapshot ==
    ASSUME NEW c \in Groups, NEW ms \in Storages, ms.ents # <<>>, NEW ru \in Unstable, NEW k2 \in Nat,
           LogInv(c, ms, ru, k2), HasLog(ms, ms, ru), NEW u \in Unstable, NEW k \in Nat, LogInv(c, ms, u, k),
           SameBasis(u, ru), u.snapshot # NoSnapshot,
           NEW u2 \in Unstable, u2.snapshot = NoSnapshot, u2.offset = u.offset, u2.ents = u.ents
    PROVE  Kept(c, ms, u, u2, k)
<1>0. Shape(ms, u) /\ Shape(ms, ru) /\ Base(ms, u) <= k
  BY DEF LogInv, CommitOK
<1>1. u2 \in Unstable /\ u2.snapshot = NoSnapshot /\ u2.offset = u.offset /\ u2.ents = u.ents
  OBVIOUS
<1>2. End(u2) = End(u)
  BY <1>1 DEF End
<1> DEFINE x == u.snapshot.index
<1>3. /\ u.snapshot = ru.snapshot /\ (ru.ents # <<>> => u.ents # <<>>) /\ Base(ms, u) = x /\ Base(ms, ru) = x
      /\ ms.index = x /\ Base(ms, u2) = x /\ StorageLast(ms) = End(ru)
      /\ u.offset = x + 1 /\ ru.offset = x + 1
  BY <1>0, <1>1 DEF SameBasis, Base, HasLog, Shape
<1>4. x \in Nat /\ End(u) \in Nat /\ Len(ru.ents) \in Nat /\ End(ru) = ru.offset + Len(ru.ents) - 1
      /\ (ru.ents # <<>> <=> Len(ru.ents) >= 1) /\ x <= End(u) /\ x <= End(ru) /\ End(ru) \in Nat
  BY <1>0, <1>3, UnstableType, ViewOf
<1> HIDE DEF x
<1>5. u.ents = <<>> => End(ru) = x
  <2>1. ASSUME Len(ru.ents) = 0 PROVE End(ru) = x
    BY <1>3, <1>4, <2>1
  <2>2. u.ents = <<>> => Len(ru.ents) = 0
    BY <1>3, <1>4
  <2> QED BY <2>1, <2>2
<1>6. Shape(ms, u2)
  <2>1. u2.offset <= StorageLast(ms) + 1 /\ ms.index <= End(u2)
    <3>1. x + 1 <= End(ru) + 1 /\ x <= End(u)
      BY <1>4
    <3>2. u2.offset = x + 1 /\ StorageLast(ms) = End(ru) /\ ms.index = x /\ End(u2) = End(u)
      BY <1>1, <1>2, <1>3
    <3> QED BY <3>1, <3>2
  <2>2. u2.ents = <<>> => u2.offset = StorageLast(ms) + 1
    BY <1>1, <1>3, <1>5
  <2> QED BY <1>1, <2>1, <2>2 DEF Shape
<1>7. ASSUME NEW i \in Base(ms, u2)..End(u) PROVE ViewTerm(ms, u2, i) = ViewTerm(ms, u, i)
  <2>1. CASE i >= u.offset
    BY <1>1, <2>1 DEF ViewTerm
  <2>2. CASE ~(i >= u.offset)
    <3>1. i = x /\ i \in Base(ms, ru)..End(ru) /\ ~(i >= ru.offset) /\ ~(i >= u2.offset)
      BY <1>1, <1>3, <1>4, <2>2
    <3>2. ms.ents[i - ms.index + 1] = Term(ms, ru, i)
      BY <3>1 DEF HasLog
    <3>3. Term(ms, ru, i) = ViewTerm(ms, ru, i)
      BY <1>0, <3>1, ViewOf
    <3>4. ViewTerm(ms, ru, i) = u.snapshot.term /\ ViewTerm(ms, u, i) = u.snapshot.term
      BY <1>3, <2>2, <3>1 DEF ViewTerm
    <3> QED BY <1>1, <3>1, <3>2, <3>3, <3>4 DEF ViewTerm
  <2> QED BY <2>1, <2>2
<1>8. SnapOK(c, u2.snapshot) /\ Base(ms, u) <= Base(ms, u2) /\ Base(ms, u2) <= k /\ Base(ms, u2) = Base(ms, u)
  BY <1>0, <1>1, <1>3, <1>4 DEF SnapOK
<1>9. LogInv(c, ms, u2, k) /\ \A i \in Base(ms, u2)..End(u) : Term(ms, u2, i) = Term(ms, u, i)
  <2>1. /\ u2 \in Unstable /\ SnapOK(c, u2.snapshot) /\ Shape(ms, u2) /\ End(u2) = End(u)
        /\ Base(ms, u) <= Base(ms, u2) /\ Base(ms, u2) <= k
    BY <1>1, <1>2, <1>6, <1>8
  <2> QED BY <1>7, <2>1, KeepsLog
<1> QED BY <1>1, <1>2, <1>8, <1>9 DEF Kept

\* A snapshot that is newer than the Ready stays, and with it what is behind it: no log has
\* both it and the entry that the Ready ends with.
LEMMA NewBasisStays ==
    ASSUME NEW c \in Groups, NEW ms \in Storages, ms.ents # <<>>, NEW ru \in Unstable, NEW k2 \in Nat,
           LogInv(c, ms, ru, k2), NEW u \in Unstable, NEW k \in Nat, LogInv(c, ms, u, k), NewBasis(c, u, ru, k2)
    PROVE  ~Fires(u, ru) /\ Advanced(u, ru) = u
<1>0. /\ Shape(ms, u) /\ LogOK(c, ms, u) /\ SnapOK(c, u.snapshot) /\ Base(ms, ru) <= k2
      /\ u.snapshot # NoSnapshot /\ u.snapshot.index > k2
  BY DEF LogInv, CommitOK, NewBasis
<1> DEFINE x == u.snapshot.index
           l == End(ru)
<1>1. /\ x \in Nat /\ l \in Nat /\ End(u) \in Nat /\ u.offset \in Nat /\ Len(u.ents) \in Nat
      /\ End(u) = u.offset + Len(u.ents) - 1 /\ u.offset = x + 1 /\ Base(ms, u) = x
  BY <1>0, UnstableType DEF Shape, Base
<1>2. x >= 1
  <2>1. x = Len(u.snapshot.data) /\ u.snapshot.data # <<>> /\ u.snapshot.data \in Seq(1..MaxTerm)
    BY <1>0, UnstableType DEF SnapOK
  <2> QED BY <2>1, EmptySeq
<1>3. \A i \in Base(ms, u)..End(u) : Term(ms, u, i) = ViewTerm(ms, u, i)
  BY <1>0, ViewOf
<1>4. ~Fires(u, ru)
  <2> SUFFICES ASSUME Fires(u, ru) PROVE FALSE
    OBVIOUS
  <2>1. ru.ents # <<>> /\ l >= u.offset /\ l < u.offset + Len(u.ents)
    BY DEF Fires, Holds
  <2>2. u.ents[l - u.offset + 1] = Last(ru)
    BY DEF Fires, Holds
  <2>3. PICK t \in 1..MaxTerm : Follows(c, ms, u, t, End(u))
    BY <1>0 DEF LogOK
  <2>4. End(u) <= Len(c[t].log) /\ Len(c[t].log) \in Nat
    BY <2>3, LeaderLog DEF Follows
  <2> HIDE DEF x, l
  <2>5. /\ l > x /\ l \in Base(ms, u)..End(u) /\ x \in Base(ms, u)..End(u) /\ l # 0 /\ x # 0 /\ ~(x >= u.offset)
        /\ l \in 1..Len(c[t].log) /\ x \in 1..Len(c[t].log)
    <3>1. l > x /\ l <= End(u) /\ x <= End(u) /\ ~(x >= u.offset) /\ l # 0 /\ x # 0
      BY <1>1, <1>2, <2>1
    <3> DEFINE z == End(u)
               g == Len(c[t].log)
    <3>2. x \in Nat /\ l \in Nat /\ z \in Nat /\ g \in Nat /\ z <= g /\ l > x /\ l <= z /\ x >= 1
      BY <1>1, <1>2, <2>4, <3>1
    <3> HIDE DEF z, g
    <3>3. l \in x..z /\ x \in x..z /\ l \in 1..g /\ x \in 1..g
      BY <3>2
    <3> QED BY <1>1, <3>1, <3>3 DEF z, g
  <2>6. Term(ms, u, l) = Last(ru)
    BY <1>3, <2>1, <2>2, <2>5 DEF ViewTerm
  <2>7. Term(ms, u, x) = u.snapshot.term
    BY <1>0, <1>3, <2>5 DEF ViewTerm
  <2>8. c[t].log[l] = Last(ru) /\ c[t].log[x] = u.snapshot.term
    BY <2>3, <2>5, <2>6, <2>7 DEF Follows, Entry
  <2>9. Incompatible(c, l, Last(ru), x, u.snapshot.term)
    BY <2>1, <2>5 DEF NewBasis, l, x
  <2> QED BY <2>5, <2>8, <2>9 DEF Incompatible
<1>5. Advanced(u, ru) = u
  <2> DEFINE y == Last(ru)
             u1 == IF ru.ents = <<>> THEN u ELSE StableTo(u, l, y)
  <2>1. u1 = u
    <3>1. CASE ru.ents = <<>>
      BY <3>1
    <3>2. CASE ru.ents # <<>>
      <4>1. ~Holds(u, l, y)
        BY <1>4, <3>2 DEF Fires
      <4> HIDE DEF l, y
      <4>2. StableTo(u, l, y) = u
        BY <1>1, <4>1, StableToKeeps
      <4> QED BY <3>2, <4>2
    <3> QED BY <3>1, <3>2
  <2>2. ru.snapshot # NoSnapshot => ~(u.snapshot.index = ru.snapshot.index)
    <3>1. ru.snapshot # NoSnapshot => Base(ms, ru) = ru.snapshot.index
      BY DEF Base
    <3>2. ru.snapshot.index \in Nat
      BY UnstableType
    <3> QED BY <1>0, <1>1, <3>1, <3>2
  <2> HIDE DEF u1
  <2>3. ru.snapshot # NoSnapshot => StableSnapTo(u1, ru.snapshot.index) = u
    BY <2>1, <2>2 DEF StableSnapTo
  <2> QED BY <2>1, <2>3 DEF Advanced, u1
<1> QED BY <1>4, <1>5

\* Advance changes nothing of the log.
LEMMA AdvanceView ==
    ASSUME NEW c \in Groups, NEW ms \in Storages, ms.ents # <<>>, NEW ru \in Unstable, NEW k2 \in Nat,
           LogInv(c, ms, ru, k2), HasLog(ms, ms, ru), NEW u \in Unstable, NEW k \in Nat, LogInv(c, ms, u, k),
           SameBasis(u, ru) \/ NewBasis(c, u, ru, k2), NEW u2, u2 = Advanced(u, ru)
    PROVE  /\ Kept(c, ms, u, u2, k)
           /\ u2.snapshot # NoSnapshot => u2 = u /\ NewBasis(c, u, ru, k2)
           /\ u2.ents # <<>> => u.ents # <<>> /\ Last(u2) = Last(u) /\ (Fires(u, ru) => End(ru) < End(u))
<1>0. Shape(ms, u)
  BY DEF LogInv
<1>1. CASE NewBasis(c, u, ru, k2)
  <2>1. u2 = u /\ ~Fires(u, ru)
    BY <1>1, NewBasisStays
  <2> QED BY <1>1, <2>1, KeptSelf
<1>2. CASE SameBasis(u, ru)
  <2> DEFINE l == End(ru)
             y == Last(ru)
             u1 == IF ru.ents = <<>> THEN u ELSE StableTo(u, l, y)
             nosnap == [u1 EXCEPT !.snapshot = NoSnapshot]
  <2>1. u.snapshot = ru.snapshot
    BY <1>2 DEF SameBasis
  <2>2. u2 = IF u.snapshot = NoSnapshot THEN u1 ELSE StableSnapTo(u1, u.snapshot.index)
    BY <2>1 DEF Advanced
  <2>3. l \in Nat /\ End(u) \in Nat
    BY UnstableType
  <2>4. CASE Fires(u, ru)
    <3>1. ru.ents # <<>> /\ Holds(u, l, y) /\ u1 = StableTo(u, l, y)
      BY <2>4 DEF Fires
    <3> HIDE DEF l, y, u1
    <3>2. /\ u1 \in Unstable /\ u1.snapshot = u.snapshot /\ u1.offset = l + 1 /\ End(u1) = End(u)
          /\ \A j \in (l + 1)..End(u) : u1.ents[j - u1.offset + 1] = u.ents[j - u.offset + 1]
      BY <2>3, <3>1, StableToDrops
    <3>3. nosnap \in Unstable /\ nosnap.snapshot = NoSnapshot /\ nosnap.offset = u1.offset /\ nosnap.ents = u1.ents
      BY <3>2, NoSnapshotType DEF Unstable
    <3>4. u2 \in Unstable /\ u2.snapshot = NoSnapshot /\ u2.offset = u1.offset /\ u2.ents = u1.ents
      <4>1. CASE u.snapshot = NoSnapshot
        BY <2>2, <3>2, <4>1
      <4>2. CASE u.snapshot # NoSnapshot
        <5>1. u2 = nosnap
          BY <2>2, <3>2, <4>2 DEF StableSnapTo
        <5> HIDE DEF nosnap
        <5> QED BY <3>3, <5>1
      <4> QED BY <4>1, <4>2
    <3> HIDE DEF nosnap
    <3>5. u2.offset = l + 1 /\ End(u2) = End(u)
      BY <3>2, <3>4 DEF End
    <3>6. \A j \in (l + 1)..End(u) : u2.ents[j - u2.offset + 1] = u.ents[j - u.offset + 1]
      BY <3>2, <3>4
    <3>7. Kept(c, ms, u, u2, k)
      BY <1>2, <2>4, <3>4, <3>5, <3>6, DropsWritten DEF l
    <3>8. ASSUME u2.ents # <<>> PROVE u.ents # <<>> /\ End(ru) < End(u)
      <4>1. Len(u2.ents) \in Nat /\ Len(u2.ents) >= 1 /\ End(u2) = u2.offset + Len(u2.ents) - 1
        BY <3>4, <3>8, UnstableType
      <4>2. l < End(u)
        <5> DEFINE n2 == Len(u2.ents)
        <5>1. n2 \in Nat /\ n2 >= 1 /\ End(u) = (l + 1) + n2 - 1
          BY <3>5, <4>1
        <5> HIDE DEF n2
        <5> QED BY <2>3, <5>1
      <4>3. u.ents # <<>>
        <5>1. l >= u.offset /\ l < u.offset + Len(u.ents)
          BY <3>1 DEF Holds
        <5>2. u.offset \in Nat /\ Len(u.ents) \in Nat /\ (u.ents # <<>> <=> Len(u.ents) >= 1)
          BY UnstableType
        <5>3. Len(u.ents) >= 1
          BY <2>3, <5>1, <5>2
        <5> QED BY <5>2, <5>3
      <4> QED BY <4>2, <4>3 DEF l
    <3>9. ASSUME u2.ents # <<>> PROVE Last(u2) = Last(u)
      <4>1. Shape(ms, u2) /\ u.ents # <<>> /\ End(u) \in Base(ms, u)..End(u)
        <5>1. Base(ms, u) \in Nat /\ Base(ms, u) <= End(u)
          BY <1>0, ViewOf
        <5>2. End(u) \in Base(ms, u)..End(u)
          BY <2>3, <5>1
        <5> QED BY <3>7, <3>8, <3>9, <5>2 DEF Kept, LogInv
      <4>2. Last(u2) = Term(ms, u2, End(u))
        BY <3>4, <3>5, <3>9, <4>1, LastOf
      <4>3. Last(u) = Term(ms, u, End(u))
        BY <1>0, <4>1, LastOf
      <4> QED BY <3>7, <4>1, <4>2, <4>3 DEF Kept
    <3> QED BY <3>4, <3>7, <3>8, <3>9
  <2>5. CASE ~Fires(u, ru)
    <3>1. u1 = u
      <4>1. CASE ru.ents = <<>>
        BY <4>1
      <4>2. CASE ru.ents # <<>>
        <5>1. ~Holds(u, l, y)
          BY <2>5, <4>2 DEF Fires
        <5> HIDE DEF l, y
        <5> QED BY <2>3, <4>2, <5>1, StableToKeeps
      <4> QED BY <4>1, <4>2
    <3> HIDE DEF u1
    <3>2. CASE u.snapshot = NoSnapshot
      <4>1. u2 = u
        BY <2>2, <3>1, <3>2
      <4> QED BY <2>5, <3>2, <4>1, KeptSelf
    <3>3. CASE u.snapshot # NoSnapshot
      <4>1. u2 = [u EXCEPT !.snapshot = NoSnapshot]
        BY <2>2, <3>1, <3>3 DEF StableSnapTo
      <4>2. u2 \in Unstable /\ u2.snapshot = NoSnapshot /\ u2.offset = u.offset /\ u2.ents = u.ents
        BY <4>1, NoSnapshotType DEF Unstable
      <4>3. Kept(c, ms, u, u2, k)
        BY <1>2, <3>3, <4>2, DropsSnapshot
      <4> QED BY <2>5, <4>2, <4>3 DEF Last
    <3> QED BY <3>2, <3>3
  <2> QED BY <2>4, <2>5
<1> QED BY <1>1, <1>2

-----------------------------------------------------------------------------
(* Compact *)

\* ms2 has the entries of ms from a on.
Compacted(ms, ms2, a) ==
    /\ ms.index < a /\ a <= StorageLast(ms) /\ ms2.index = a
    /\ StorageLast(ms2) = StorageLast(ms) /\ ms2.ents # <<>>
    /\ \A i \in a..StorageLast(ms) : ms2.ents[i - a + 1] = ms.ents[i - ms.index + 1]

\* A compaction at committed entries leaves the rest of the log.
LEMMA CompactKeeps ==
    ASSUME NEW c \in Groups, NEW ms \in Storages, ms.ents # <<>>, NEW a \in Nat, NEW ms2 \in Storages,
           Compacted(ms, ms2, a), NEW u \in Unstable, NEW k \in Nat, LogInv(c, ms, u, k), a <= k
    PROVE  /\ LogInv(c, ms2, u, k)
           /\ \A i \in Base(ms2, u)..End(u) : Term(ms2, u, i) = Term(ms, u, i)
           /\ \A t \in 1..MaxTerm : Follows(c, ms, u, t, End(u)) => Follows(c, ms2, u, t, End(u))
           /\ Base(ms, u) <= Base(ms2, u)
<1>0. Shape(ms, u) /\ SnapOK(c, u.snapshot) /\ Base(ms, u) <= k /\ k <= End(u)
  BY DEF LogInv, CommitOK
<1>1. ms.index < a /\ a <= StorageLast(ms) /\ ms2.index = a /\ StorageLast(ms2) = StorageLast(ms) /\ ms2.ents # <<>>
  BY DEF Compacted
<1>2. /\ ms.index \in Nat /\ StorageLast(ms) \in Int /\ End(u) \in Nat /\ u.offset \in Nat
      /\ Base(ms, u) \in Nat
  <2>1. StorageLast(ms) = ms.index + Len(ms.ents) - 1 /\ ms.index \in Nat /\ Len(ms.ents) \in Nat
    BY StorageType
  <2> QED BY <1>0, <2>1, UnstableType, ViewOf
<1>3. /\ Base(ms, u) <= Base(ms2, u) /\ Base(ms2, u) <= k /\ Shape(ms2, u)
      /\ \A i \in Base(ms2, u)..End(u) : ViewTerm(ms2, u, i) = ViewTerm(ms, u, i)
  <2>1. CASE u.snapshot # NoSnapshot
    <3>1. Base(ms2, u) = Base(ms, u)
      BY <2>1 DEF Base
    <3>2. Shape(ms2, u)
      BY <1>0, <2>1 DEF Shape
    <3>3. \A i \in Base(ms, u)..End(u) : ViewTerm(ms2, u, i) = ViewTerm(ms, u, i)
      BY <2>1 DEF ViewTerm
    <3> QED BY <1>0, <1>2, <3>1, <3>2, <3>3
  <2>2. CASE u.snapshot = NoSnapshot
    <3>1. Base(ms2, u) = a /\ Base(ms, u) = ms.index
      BY <1>1, <2>2 DEF Base
    <3>2. a <= End(u)
      BY <1>0, <1>2
    <3>3. Shape(ms2, u)
      BY <1>0, <1>1, <2>2, <3>2 DEF Shape
    <3>4. ASSUME NEW i \in a..End(u) PROVE ViewTerm(ms2, u, i) = ViewTerm(ms, u, i)
      <4>1. CASE i >= u.offset
        BY <4>1 DEF ViewTerm
      <4>2. CASE ~(i >= u.offset)
        <5>1. u.offset <= StorageLast(ms) + 1
          BY <1>0, <2>2 DEF Shape
        <5>2. i \in a..StorageLast(ms)
          BY <1>2, <4>2, <5>1
        <5>3. ms2.ents[i - a + 1] = ms.ents[i - ms.index + 1]
          BY <5>2 DEF Compacted
        <5> QED BY <1>1, <2>2, <4>2, <5>3 DEF ViewTerm
      <4> QED BY <4>1, <4>2
    <3>5. ms.index <= a
      BY <1>1, <1>2
    <3> QED BY <3>1, <3>3, <3>4, <3>5
  <2> QED BY <2>1, <2>2
<1>4. /\ LogInv(c, ms2, u, k)
      /\ \A i \in Base(ms2, u)..End(u) : Term(ms2, u, i) = Term(ms, u, i)
      /\ \A t \in 1..MaxTerm : Follows(c, ms, u, t, End(u)) => Follows(c, ms2, u, t, End(u))
  BY <1>0, <1>1, <1>3, KeepsLog
<1> QED BY <1>3, <1>4

SnapshotTaken(ms, a, s) == [StorageCompact(ms, a) EXCEPT !.snapshot = SnapshotOf(s)]

\* The snapshot of the committed entries s, a of them, and the compaction behind it
\* (storage.go:181-232).
LEMMA CompactView ==
    ASSUME NEW c \in Groups, NEW ms \in Storages, StorageOK(c, ms), NEW a \in Nat, ms.index < a,
           a <= ms.hardState.commit, NEW s \in Seq(1..MaxTerm), CommittedSeq(c, s), Len(s) = a,
           NEW ms2, ms2 = SnapshotTaken(ms, a, s)
    PROVE  ms2 \in Storages /\ ms2.hardState = ms.hardState /\ Compacted(ms, ms2, a) /\ StorageOK(c, ms2)
<1> DEFINE h == ms.hardState.commit
           v == AllStable(ms)
<1>0. ms.ents # <<>> /\ LogInv(c, ms, v, h)
  BY DEF StorageOK
<1>1. /\ ms.index \in Nat /\ Len(ms.ents) \in Nat /\ Len(ms.ents) >= 1 /\ ms.ents \in Seq(Terms)
      /\ StorageLast(ms) = ms.index + Len(ms.ents) - 1 /\ h \in Nat
  BY <1>0, StorageType
<1>2. h <= StorageLast(ms)
  <2>1. End(v) = StorageLast(ms)
    BY <1>0, AllStableType
  <2> HIDE DEF v
  <2> QED BY <1>0, <2>1 DEF LogInv, CommitOK
<1> HIDE DEF v
<1> DEFINE m == a - ms.index + 1
           n == StorageLast(ms) - a + 1
           r == SubSeq(ms.ents, m, Len(ms.ents))
           x == SnapshotOf(s)
<1>3. h <= StorageLast(ms) /\ a <= h /\ ms.index < a
  BY <1>2
<1>4. /\ m \in Nat \ {0} /\ m <= Len(ms.ents) + 1 /\ n = Len(ms.ents) - m + 1 /\ n \in Nat /\ n >= 1
      /\ a + n - 1 = StorageLast(ms) /\ a <= StorageLast(ms) /\ a >= 1
  <2> DEFINE b == ms.index
             l == Len(ms.ents)
             z == StorageLast(ms)
  <2>1. b \in Nat /\ l \in Nat /\ z = b + l - 1 /\ h \in Nat /\ h <= z /\ a <= h /\ b < a
    BY <1>1, <1>3
  <2> SUFFICES /\ a - b + 1 \in Nat \ {0} /\ a - b + 1 <= l + 1 /\ z - a + 1 = l - (a - b + 1) + 1 /\ z - a + 1 \in Nat
               /\ z - a + 1 >= 1 /\ a + (z - a + 1) - 1 = z /\ a <= z /\ a >= 1
    OBVIOUS
  <2> HIDE DEF b, l, z, h
  <2> QED BY <2>1
<1>5. ms2 = [ms EXCEPT !.index = a, !.ents = r, !.snapshot = x]
  BY DEF StorageCompact, SnapshotTaken
<1>6. x \in Snapshots /\ x.index = a /\ x.term = s[Len(s)] /\ x.data = s /\ s # <<>>
  <2>1. s # <<>> /\ Len(s) \in 1..Len(s)
    BY <1>4, EmptySeq
  <2>2. s[Len(s)] \in Terms
    BY <2>1, ElementOfSeq, TermsNat
  <2> QED BY <2>1, <2>2 DEF SnapshotOf, Snapshots
<1> HIDE DEF x, m, n
<1>7. r \in Seq(Terms) /\ Len(r) = n /\ \A k \in 1..n : r[k] = ms.ents[m + k - 1]
  <2>1. m \in Nat \ {0} /\ m <= Len(ms.ents) + 1 /\ n = Len(ms.ents) - m + 1
    BY <1>4
  <2> QED BY <1>1, <2>1, RestOfSeq
<1> HIDE DEF r
<1>8. /\ ms2 \in Storages /\ ms2.index = a /\ ms2.ents = r /\ ms2.snapshot = x /\ ms2.hardState = ms.hardState
  BY <1>5, <1>6, <1>7 DEF Storages
<1>9. StorageLast(ms2) = StorageLast(ms)
  <2>1. StorageLast(ms2) = a + n - 1
    BY <1>7, <1>8 DEF StorageLast
  <2> QED BY <1>4, <2>1
<1>10. r # <<>>
  <2>1. Len(r) >= 1
    BY <1>4, <1>7
  <2> QED BY <2>1, EmptySeq
<1>11. ASSUME NEW i \in a..StorageLast(ms) PROVE r[i - a + 1] = ms.ents[i - ms.index + 1]
  <2> DEFINE y == i - a + 1
  <2>1. y \in 1..n /\ m + y - 1 = i - ms.index + 1
    <3> DEFINE b == ms.index
               z == StorageLast(ms)
    <3>1. b \in Nat /\ z \in Int /\ a <= z /\ i \in a..z
      BY <1>1, <1>4
    <3> SUFFICES i - a + 1 \in 1..(z - a + 1) /\ (a - b + 1) + (i - a + 1) - 1 = i - b + 1
      BY DEF m, n
    <3> HIDE DEF b, z
    <3> QED BY <3>1
  <2> HIDE DEF y
  <2>2. r[y] = ms.ents[m + y - 1]
    BY <1>7, <2>1
  <2> QED BY <2>1, <2>2 DEF y
<1>12. Compacted(ms, ms2, a)
  BY <1>3, <1>4, <1>8, <1>9, <1>10, <1>11 DEF Compacted
<1>13. StorageOK(c, ms2)
  <2>1. v = AllStable(ms2)
    BY <1>9 DEF AllStable, v
  <2>2. v \in Unstable
    BY <1>0, AllStableType DEF v
  <2>3. LogInv(c, ms2, v, h)
    <3> HIDE DEF h
    <3> QED BY <1>0, <1>1, <1>3, <1>8, <1>12, <2>2, CompactKeeps
  <2>4. SnapOK(c, ms2.snapshot)
    BY <1>6, <1>8 DEF SnapOK
  <2> QED BY <1>6, <1>8, <1>10, <2>1, <2>3, <2>4 DEF StorageOK
<1> QED BY <1>8, <1>12, <1>13

-----------------------------------------------------------------------------
(* The inductive invariant *)

Wrote == stage \in {"persisted", "applied"}

\* A later state of storage than the synced one only has a later commit index.
SyncedInv ==
    /\ StorageOK(cluster, storage) /\ StorageOK(cluster, synced)
    /\ synced.index = storage.index /\ synced.ents = storage.ents
    /\ synced.snapshot = storage.snapshot
    /\ synced.hardState.term = storage.hardState.term
    /\ synced.hardState.commit <= storage.hardState.commit
    /\ storage.hardState.commit <= committed
    /\ storage.hardState.term <= term

\* What is applied is stable; the unstable part ends behind it, and storage begins before it
\* unless a snapshot was written that is still to be applied.
AppliedInv ==
    /\ applied <= storage.hardState.commit
    /\ ~(Wrote /\ rd.unstable.snapshot # NoSnapshot) => storage.index <= applied
    /\ unstable.snapshot # NoSnapshot => applied < unstable.snapshot.index
    /\ unstable.ents # <<>> => applied < End(unstable) /\ Last(unstable) <= term

AppInv ==
    /\ CommittedSeq(cluster, app)
    /\ Len(app) = IF stage # "applied" \/ AppliedCursor = 0 THEN applied ELSE AppliedCursor

\* The Ready holds a log that was the server's, and a page of what is committed in it.
RdInv ==
    /\ LogInv(cluster, storage, rd.unstable, rd.hardState.commit)
    /\ rd.hardState.commit <= committed /\ storage.hardState.commit <= rd.hardState.commit
    /\ storage.hardState.term <= rd.hardState.term /\ rd.hardState.term <= term
    /\ rd.unstable.ents # <<>> => applied < End(rd.unstable) /\ Last(rd.unstable) <= rd.hardState.term
    /\ rd.unstable.snapshot # NoSnapshot => applied < rd.unstable.snapshot.index
    /\ rd.first = (IF rd.unstable.snapshot # NoSnapshot THEN rd.unstable.snapshot.index ELSE applied) + 1
    /\ rd.ents # <<>> => rd.first + Len(rd.ents) - 1 <= rd.hardState.commit
    /\ \E t \in 1..MaxTerm :
          /\ rd.hardState.commit <= cluster[t].commit
          /\ \A k \in 1..Len(rd.ents) : rd.ents[k] = cluster[t].log[rd.first + k - 1]

WroteInv ==
    /\ storage.hardState = rd.hardState
    /\ HasLog(storage, storage, rd.unstable)
    /\ rd.unstable.snapshot # NoSnapshot => storage.index = rd.unstable.snapshot.index

\* In the term x of a Ready its last entry is in the log, or compacted, or the log has become
\* that leader's and the entry can not come back.
LastOrGone(c, ms, u, ru, x) ==
    \/ End(ru) <= Base(ms, u)
    \/ End(ru) <= End(u) /\ Term(ms, u, End(ru)) = Last(ru)
    \/ /\ x \in 1..MaxTerm /\ 1 <= End(u)
       /\ Follows(c, ms, u, x, End(u))
       /\ Incompatible(c, End(ru), Last(ru), End(u), Term(ms, u, End(u)))

\* What the server does while the Ready is handled.
MeanwhileInv ==
    /\ unstable.ents # <<>> => End(unstable) > rd.hardState.commit \/ Fires(unstable, rd.unstable)
    /\ \/ SameBasis(unstable, rd.unstable)
       \/ NewBasis(cluster, unstable, rd.unstable, rd.hardState.commit)
    /\ term = rd.hardState.term /\ rd.unstable.ents # <<>> =>
          LastOrGone(cluster, storage, unstable, rd.unstable, term)

Inv ==
    /\ cluster \in Groups /\ TypeOK /\ ~panicked
    /\ LogInv(cluster, storage, unstable, committed)
    /\ SyncedInv /\ AppliedInv /\ AppInv
    /\ stage # "idle" => RdInv /\ MeanwhileInv
    /\ Wrote => WroteInv

\* Types in the form the proofs use.
LEMMA Types ==
    ASSUME TypeOK
    PROVE  /\ term \in Terms /\ committed \in Nat /\ applied \in Nat
           /\ unstable \in Unstable /\ storage \in Storages /\ synced \in Storages
           /\ rd.unstable \in Unstable /\ rd.hardState \in HardStates
           /\ rd.hardState.commit \in Nat /\ rd.hardState.term \in Terms
           /\ rd.first \in Nat /\ rd.ents \in Seq(1..MaxTerm) /\ Len(rd.ents) \in Nat
           /\ app \in Seq(1..MaxTerm) /\ Len(app) \in Nat
           /\ storage.hardState.commit \in Nat /\ storage.hardState.term \in Terms
           /\ synced.hardState.commit \in Nat /\ term \in Nat /\ rd.hardState.term \in Nat
           /\ storage.hardState.term \in Nat /\ storage.index \in Nat
           /\ rd.unstable.snapshot.index \in Nat /\ unstable.snapshot.index \in Nat
           /\ (rd.ents # <<>> => Len(rd.ents) >= 1)
<1>1. /\ term \in Terms /\ committed \in Nat /\ applied \in Nat
      /\ unstable \in Unstable /\ storage \in Storages /\ synced \in Storages
      /\ app \in Seq(1..MaxTerm)
  BY DEF TypeOK, Storages
<1>2. /\ rd.unstable \in Unstable /\ rd.hardState \in HardStates
      /\ rd.first \in Nat /\ rd.ents \in Seq(1..MaxTerm)
  BY DEF TypeOK
<1>3. rd.hardState.commit \in Nat /\ rd.hardState.term \in Terms
  BY <1>2 DEF HardStates
<1>4. storage.hardState.commit \in Nat /\ storage.hardState.term \in Terms /\ synced.hardState.commit \in Nat
      /\ storage.index \in Nat
  BY <1>1, StorageType
<1>5. term \in Nat /\ rd.hardState.term \in Nat /\ storage.hardState.term \in Nat
  BY <1>1, <1>3, <1>4, TermsNat
<1>6. Len(rd.ents) \in Nat /\ Len(app) \in Nat /\ (rd.ents # <<>> => Len(rd.ents) >= 1)
  BY <1>1, <1>2, LenProperties, EmptySeq
<1>7. rd.unstable.snapshot.index \in Nat /\ unstable.snapshot.index \in Nat
  BY <1>1, <1>2, UnstableType
<1> QED BY <1>1, <1>2, <1>3, <1>4, <1>5, <1>6, <1>7

-----------------------------------------------------------------------------
(* Messages *)

\* The commit index may move to what the log shares with what a leader has committed.
LEMMA CommitMoves ==
    ASSUME NEW c \in Groups, NEW ms \in Storages, NEW u \in Unstable, ms.ents # <<>>, NEW k \in Nat,
           LogInv(c, ms, u, k), NEW t \in 1..MaxTerm, NEW hi \in Nat, hi <= End(u), Follows(c, ms, u, t, hi),
           NEW k2 \in Nat, k <= k2, k2 <= hi, k2 <= c[t].commit
    PROVE  LogInv(c, ms, u, k2)
<1>1. Base(ms, u) \in Nat /\ End(u) \in Nat /\ Base(ms, u) <= k
  BY ViewOf, UnstableType DEF LogInv, CommitOK
<1>2. Follows(c, ms, u, t, k2)
  BY <1>1, FollowsLess
<1>3. Base(ms, u) <= k2 /\ k2 <= End(u)
  BY <1>1
<1> QED BY <1>2, <1>3 DEF LogInv, CommitOK

\* An entry that the log has in common with leader t lies in the log.
LEMMA MatchInLog ==
    ASSUME NEW c \in Groups, NEW ms \in Storages, NEW u \in Unstable, ms.ents # <<>>, NEW k \in Nat,
           LogInv(c, ms, u, k), NEW t \in 1..MaxTerm, NEW i \in Nat, k <= i, i <= Len(c[t].log),
           Term(ms, u, i) = Entry(c, t, i)
    PROVE  i <= End(u) /\ Follows(c, ms, u, t, i)
<1>1. Base(ms, u) \in Nat /\ End(u) \in Nat /\ Base(ms, u) <= k /\ Shape(ms, u) /\ LogOK(c, ms, u)
  BY ViewOf, UnstableType DEF LogInv, CommitOK
<1>2. i <= End(u)
  <2> SUFFICES ASSUME i > End(u) PROVE FALSE
    BY <1>1
  <2>1. Term(ms, u, i) = 0
    BY <1>1, ViewOf
  <2>2. i \in 1..Len(c[t].log) /\ i # 0
    BY <1>1, LeaderLog
  <2>3. c[t].log[i] \in 1..MaxTerm
    BY <2>2, LeaderLog
  <2>4. MaxTerm \in Nat
    BY TermsNat
  <2>5. c[t].log[i] # 0
    BY <2>3, <2>4
  <2> QED BY <2>1, <2>2, <2>5 DEF Entry
<1>3. Base(ms, u) <= i
  BY <1>1
<1> QED BY <1>1, <1>2, <1>3, FollowsBelow

\* findConflict: entries of leader t that begin in the log lead to it or to a first index that
\* the log lacks, up to which it is the leader's (log.go:139-151).
LEMMA Conflict ==
    ASSUME cluster \in Groups, storage \in Storages, unstable \in Unstable, storage.ents # <<>>,
           committed \in Nat, LogInv(cluster, storage, unstable, committed), NEW t \in 1..MaxTerm,
           NEW prev \in Nat, committed <= prev, prev <= Len(cluster[t].log),
           Term(storage, unstable, prev) = Entry(cluster, t, prev),
           NEW p, p = prev + 1, NEW ents \in Seq(1..MaxTerm), SentBy(cluster, t, p, ents),
           NEW ci, ci = FindConflict(prev, ents)
    PROVE  \/ ci = 0 /\ prev + Len(ents) <= End(unstable) /\ Follows(cluster, storage, unstable, t, prev + Len(ents))
           \/ /\ ci \in Nat /\ prev < ci /\ ci <= prev + Len(ents) /\ ci <= End(unstable) + 1
              /\ Follows(cluster, storage, unstable, t, ci - 1)
              /\ Term(storage, unstable, ci) # cluster[t].log[ci]
<1> DEFINE n == Len(ents)
           u == unstable
           bad == {k \in 1..n : ~MatchTerm(prev + k, ents[k])}
<1>0. n \in Nat /\ End(u) \in Nat
  BY UnstableType
<1>1. prev <= End(u) /\ Follows(cluster, storage, u, t, prev)
  BY MatchInLog
<1>2. prev + n <= Len(cluster[t].log) /\ \A k \in 1..n : ents[k] = cluster[t].log[prev + k]
  <2>1. (prev + 1) + n - 1 = prev + n /\ \A k \in 1..n : (prev + 1) + k - 1 = prev + k
    BY <1>0
  <2> QED BY <2>1 DEF SentBy
<1>3. ASSUME NEW k \in 1..n, k \notin bad
      PROVE  prev + k <= End(u) /\ Follows(cluster, storage, u, t, prev + k)
  <2> DEFINE i == prev + k
  <2>1. i \in Nat /\ i # 0 /\ committed <= i /\ i <= Len(cluster[t].log)
    <3>1. Len(cluster[t].log) \in Nat
      BY LeaderLog
    <3> QED BY <1>0, <1>2, <3>1
  <2>2. Term(storage, u, i) = Entry(cluster, t, i)
    BY <1>2, <1>3, <2>1 DEF MatchTerm, Entry
  <2> HIDE DEF i
  <2>3. i <= End(u) /\ Follows(cluster, storage, u, t, i)
    BY <2>1, <2>2, MatchInLog
  <2> QED BY <2>3 DEF i
<1>4. CASE bad = {}
  <2>1. ci = 0
    BY <1>4 DEF FindConflict
  <2>2. CASE n = 0
    <3>1. prev + n = prev
      BY <2>2
    <3> QED BY <1>1, <2>1, <3>1
  <2>3. CASE n # 0
    <3>1. n \in 1..n /\ n \notin bad
      BY <1>0, <1>4, <2>3
    <3> HIDE DEF bad
    <3> QED BY <1>3, <2>1, <3>1
  <2> QED BY <2>2, <2>3
<1>5. CASE bad # {}
  <2> DEFINE k == CHOOSE k \in bad : \A j \in bad : k <= j
  <2>1. ci = prev + k
    BY <1>5 DEF FindConflict
  <2>2. bad \in SUBSET Nat
    BY <1>0
  <2>3. \E x \in bad : \A j \in bad : x <= j
    BY <1>5, <2>2, LeastNatural
  <2>4. k \in bad /\ \A j \in bad : k <= j
    BY <2>3
  <2> HIDE DEF k
  <2>5. k \in 1..n /\ ~MatchTerm(prev + k, ents[k])
    BY <2>4
  <2>6. k - 1 \notin bad
    <3>1. ~(k <= k - 1)
      BY <1>0, <2>5
    <3> QED BY <2>4, <3>1
  <2> HIDE DEF bad
  <2>7. ci - 1 <= End(u) /\ Follows(cluster, storage, u, t, ci - 1)
    <3>1. CASE k = 1
      <4>1. ci - 1 = prev
        BY <2>1, <3>1
      <4> QED BY <1>1, <4>1
    <3>2. CASE k # 1
      <4> DEFINE j == k - 1
      <4>1. j \in 1..n /\ ci - 1 = prev + j
        BY <1>0, <2>1, <2>5, <3>2
      <4>2. j \notin bad
        BY <2>6
      <4> HIDE DEF j
      <4> QED BY <1>3, <4>1, <4>2
    <3> QED BY <3>1, <3>2
  <2>8. ci \in Nat /\ prev < ci /\ ci <= prev + n /\ ci <= End(u) + 1
    BY <1>0, <2>1, <2>5, <2>7
  <2>9. Term(storage, u, ci) # cluster[t].log[ci]
    BY <1>2, <2>1, <2>5 DEF MatchTerm
  <2> QED BY <2>7, <2>8, <2>9
<1> QED BY <1>4, <1>5

\* An index of leader t2 where it has the entry that the log has there, and below which both are
\* the same.
LEMMA SharesEntry ==
    ASSUME NEW c \in Groups, NEW t1 \in 1..MaxTerm, NEW t2 \in 1..MaxTerm, NEW j \in 1..Len(c[t1].log),
           j \in 1..Len(c[t2].log), c[t1].log[j] = c[t2].log[j], NEW i \in 1..j
    PROVE  c[t1].log[i] = c[t2].log[i]
<1>1. Len(c[t1].log) \in Nat /\ Len(c[t2].log) \in Nat
  BY LeaderLog
<1>2. j \in Nat /\ j # 0 /\ j <= Len(c[t1].log) /\ j <= Len(c[t2].log) /\ i \in Nat /\ i # 0 /\ i <= j
  BY <1>1
<1>3. Entry(c, t1, j) = Entry(c, t2, j)
  BY <1>2 DEF Entry
<1>4. Entry(c, t1, i) = Entry(c, t2, i)
  BY <1>2, <1>3, LeadersMatch
<1> QED BY <1>2, <1>4 DEF Entry

\* Entry i of the log is its leader's.
LEMMA FollowsAt ==
    ASSUME NEW c \in Groups, NEW ms \in Storages, NEW u \in Unstable, Base(ms, u) \in Nat, NEW t \in 1..MaxTerm,
           NEW hi \in Nat, Follows(c, ms, u, t, hi), NEW i \in Nat, Base(ms, u) <= i, 1 <= i, i <= hi
    PROVE  Term(ms, u, i) = c[t].log[i] /\ i \in 1..Len(c[t].log) /\ hi <= Len(c[t].log)
<1>1. Len(c[t].log) \in Nat /\ hi <= Len(c[t].log) /\ i \in Base(ms, u)..hi /\ i # 0
  BY LeaderLog DEF Follows
<1>2. i \in 1..Len(c[t].log)
  BY <1>1
<1> QED BY <1>1, <1>2 DEF Follows, Entry

\* In the term of a Ready an append leaves its last entry in the log, or replaces it for good.
LEMMA AppendGone ==
    ASSUME NEW c \in Groups, NEW ms \in Storages, NEW u \in Unstable, ms.ents # <<>>, NEW k \in Nat,
           LogInv(c, ms, u, k), NEW ru \in Unstable, NEW t \in 1..MaxTerm, LastOrGone(c, ms, u, ru, t),
           NEW ci \in Nat, k < ci, Term(ms, u, ci) # c[t].log[ci],
           NEW u2 \in Unstable, ci <= End(u2), Base(ms, u2) = Base(ms, u),
           \A i \in Base(ms, u)..(ci - 1) : Term(ms, u2, i) = Term(ms, u, i), Follows(c, ms, u2, t, End(u2))
    PROVE  LastOrGone(c, ms, u2, ru, t)
<1> DEFINE b == Base(ms, u)
           e == End(u)
           e2 == End(u2)
           l == End(ru)
           x == Last(ru)
<1>0. b \in Nat /\ e \in Nat /\ e2 \in Nat /\ l \in Nat /\ b <= k /\ LogOK(c, ms, u) /\ b <= e /\ Shape(ms, u)
  BY ViewOf, UnstableType DEF LogInv, CommitOK
<1>1. b < ci /\ 1 <= ci /\ 1 <= e2 /\ ci <= e2 /\ b <= e2
  BY <1>0
<1>2. Follows(c, ms, u2, t, e2) /\ Base(ms, u2) = b
  OBVIOUS
<1> HIDE DEF b, e, e2, l
<1>3. Term(ms, u2, e2) = c[t].log[e2] /\ e2 \in 1..Len(c[t].log)
  <2>1. e2 <= e2
    BY <1>0
  <2> QED BY <1>0, <1>1, <1>2, <2>1, FollowsAt
<1> SUFFICES ASSUME ~(l <= b) PROVE LastOrGone(c, ms, u2, ru, t)
  BY <1>2 DEF LastOrGone, l
<1>4. CASE l <= e /\ Term(ms, u, l) = x /\ l < ci
  <2>1. l \in b..(ci - 1) /\ l <= e2
    BY <1>0, <1>1, <1>4
  <2>2. Term(ms, u2, l) = x
    BY <1>4, <2>1 DEF b
  <2> QED BY <2>1, <2>2 DEF LastOrGone, l, e2
<1>5. CASE l <= e /\ Term(ms, u, l) = x /\ ~(l < ci)
  <2>1. PICK t0 \in 1..MaxTerm : Follows(c, ms, u, t0, e)
    BY <1>0 DEF LogOK, e
  <2>2. b <= l /\ 1 <= l /\ ci <= e /\ ci \in 1..l /\ ci \in 1..e2 /\ b <= ci
    BY <1>0, <1>1, <1>5
  <2>3. c[t0].log[l] = x /\ l \in 1..Len(c[t0].log)
    BY <1>0, <1>5, <2>1, <2>2, FollowsAt DEF b
  <2>4. c[t0].log[ci] = Term(ms, u, ci)
    BY <1>0, <1>1, <2>1, <2>2, FollowsAt DEF b
  <2>5. ASSUME NEW s \in 1..MaxTerm, l \in 1..Len(c[s].log), e2 \in 1..Len(c[s].log), c[s].log[l] = x,
               c[s].log[e2] = Term(ms, u2, e2)
        PROVE  FALSE
    <3>0. c[s].log[l] = c[t0].log[l] /\ l \in 1..Len(c[s].log) /\ l \in 1..Len(c[t0].log) /\ ci \in 1..l
      BY <2>2, <2>3, <2>5
    <3>1. c[s].log[ci] = c[t0].log[ci]
      BY <3>0, SharesEntry
    <3>2. c[s].log[ci] = c[t].log[ci]
      BY <1>3, <2>2, <2>5, SharesEntry
    <3> QED BY <2>4, <3>1, <3>2
  <2>6. Incompatible(c, l, x, e2, Term(ms, u2, e2))
    BY <2>5 DEF Incompatible
  <2> QED BY <1>1, <1>2, <2>6 DEF LastOrGone, l, e2
<1>6. CASE 1 <= e /\ Follows(c, ms, u, t, e) /\ Incompatible(c, l, x, e, Term(ms, u, e))
  <2>1. e < ci
    <3> SUFFICES ASSUME ci <= e PROVE FALSE
      BY <1>0
    <3>1. b <= ci
      BY <1>0, <1>1
    <3> QED BY <1>0, <1>1, <1>6, <3>1, FollowsAt DEF b
  <2>2. e \in 1..e2 /\ e <= e /\ b <= e
    BY <1>0, <1>1, <1>6, <2>1
  <2>3. c[t].log[e] = Term(ms, u, e)
    BY <1>0, <1>6, <2>2, FollowsAt DEF b
  <2>4. ASSUME NEW s \in 1..MaxTerm, l \in 1..Len(c[s].log), e2 \in 1..Len(c[s].log), c[s].log[l] = x,
               c[s].log[e2] = Term(ms, u2, e2)
        PROVE  FALSE
    <3>1. c[s].log[e] = c[t].log[e]
      BY <1>3, <2>2, <2>4, SharesEntry
    <3>2. e \in 1..Len(c[s].log)
      BY <1>0, <2>2, <2>4, LeaderLog
    <3> QED BY <1>6, <2>3, <2>4, <3>1, <3>2 DEF Incompatible
  <2>5. Incompatible(c, l, x, e2, Term(ms, u2, e2))
    BY <2>4 DEF Incompatible
  <2> QED BY <1>1, <1>2, <2>5 DEF LastOrGone, l, e2
<1> QED BY <1>4, <1>5, <1>6 DEF LastOrGone, b, e, l

\* In the term of a Ready a snapshot that the log does not match is incompatible with an entry
\* of the Ready behind it.
LEMMA SnapGone ==
    ASSUME NEW c \in Groups, NEW ms \in Storages, NEW u \in Unstable, ms.ents # <<>>, NEW k \in Nat,
           LogInv(c, ms, u, k), NEW ru \in Unstable, NEW t \in 1..MaxTerm, LastOrGone(c, ms, u, ru, t),
           NEW i \in Nat, k < i, i <= Len(c[t].log), Term(ms, u, i) # c[t].log[i], i < End(ru)
    PROVE  Incompatible(c, End(ru), Last(ru), i, c[t].log[i])
<1> DEFINE b == Base(ms, u)
           e == End(u)
           l == End(ru)
           x == Last(ru)
<1>0. b \in Nat /\ e \in Nat /\ l \in Nat /\ b <= k /\ LogOK(c, ms, u) /\ b <= e /\ Len(c[t].log) \in Nat
  BY ViewOf, UnstableType, LeaderLog DEF LogInv, CommitOK
<1>1. b < i /\ 1 <= i /\ b <= i /\ i < l /\ i \in 1..Len(c[t].log) /\ ~(l <= b)
  BY <1>0
<1> SUFFICES ASSUME NEW s \in 1..MaxTerm, l \in 1..Len(c[s].log), i \in 1..Len(c[s].log), c[s].log[l] = x,
                    c[s].log[i] = c[t].log[i]
             PROVE  FALSE
  BY DEF Incompatible
<1> HIDE DEF b, e, l, x
<1>2. CASE l <= e /\ Term(ms, u, l) = x
  <2>1. PICK t0 \in 1..MaxTerm : Follows(c, ms, u, t0, e)
    BY <1>0 DEF LogOK, e
  <2>2. b <= l /\ 1 <= l /\ i <= e /\ i \in 1..l
    BY <1>0, <1>1, <1>2
  <2>3. c[t0].log[l] = x /\ l \in 1..Len(c[t0].log)
    BY <1>0, <1>2, <2>1, <2>2, FollowsAt DEF b
  <2>4. c[t0].log[i] = Term(ms, u, i)
    BY <1>0, <1>1, <2>1, <2>2, FollowsAt DEF b
  <2>5. c[s].log[i] = c[t0].log[i]
    <3>1. c[s].log[l] = c[t0].log[l] /\ l \in 1..Len(c[s].log) /\ l \in 1..Len(c[t0].log) /\ i \in 1..l
      BY <2>2, <2>3
    <3> QED BY <3>1, SharesEntry
  <2> QED BY <2>4, <2>5
<1>3. CASE 1 <= e /\ Follows(c, ms, u, t, e) /\ Incompatible(c, l, x, e, Term(ms, u, e))
  <2>1. e < i
    <3> SUFFICES ASSUME i <= e PROVE FALSE
      BY <1>0
    <3> QED BY <1>0, <1>1, <1>3, FollowsAt DEF b
  <2>2. e \in 1..i /\ e <= e
    BY <1>0, <1>1, <1>3, <2>1
  <2>3. c[t].log[e] = Term(ms, u, e)
    BY <1>0, <1>3, <2>2, FollowsAt DEF b
  <2>4. c[s].log[e] = c[t].log[e]
    BY <1>1, <2>2, SharesEntry
  <2>5. e \in 1..Len(c[s].log)
    <3>1. Len(c[s].log) \in Nat
      BY LeaderLog
    <3> QED BY <1>0, <2>2, <3>1
  <2> QED BY <1>3, <2>3, <2>4, <2>5 DEF Incompatible
<1> QED BY <1>1, <1>2, <1>3 DEF LastOrGone, b, e, l, x

\* The entries of leader t's own term lie behind those of earlier ones.
LEMMA OwnSnapGone ==
    ASSUME NEW c \in Groups, NEW ru \in Unstable, ru.ents # <<>>, NEW t \in 1..MaxTerm, NEW i \in Nat \ {0},
           i <= Len(c[t].log), c[t].log[i] = t, Last(ru) < t, Last(ru) \in Nat, i < End(ru)
    PROVE  Incompatible(c, End(ru), Last(ru), i, c[t].log[i])
<1> DEFINE l == End(ru)
<1>1. l \in Nat /\ t \in Nat
  BY UnstableType, TermsNat
<1> SUFFICES ASSUME NEW s \in 1..MaxTerm, l \in 1..Len(c[s].log), i \in 1..Len(c[s].log),
                    c[s].log[l] = Last(ru), c[s].log[i] = t
             PROVE  FALSE
  BY DEF Incompatible
<1> HIDE DEF l
<1>2. i \in 1..l
  BY <1>1 DEF l
<1>3. c[s].log[i] <= c[s].log[l]
  BY <1>2, TermsAscend
<1> QED BY <1>1, <1>3

-----------------------------------------------------------------------------
(* Steps: messages *)

\* What a message leaves alone, and what it must preserve.
LEMMA MessageStep ==
    ASSUME Inv, UNCHANGED <<cluster, applied, storage, synced, rd, stage, app, crashes>>,
           term' \in 1..MaxTerm, term <= term', unstable' \in Unstable, committed' \in Nat,
           committed <= committed', panicked' = FALSE, LogInv(cluster, storage, unstable', committed'),
           unstable'.snapshot # NoSnapshot => applied < unstable'.snapshot.index,
           unstable'.ents # <<>> => applied < End(unstable') /\ Last(unstable') <= term',
           stage # "idle" => MeanwhileInv'
    PROVE  Inv'
<1>0. TypeOK /\ cluster \in Groups
  BY DEF Inv
<1>1. /\ committed \in Nat /\ term \in Nat /\ term' \in Nat /\ storage.hardState.commit \in Nat
      /\ storage.hardState.term \in Nat /\ rd.hardState.commit \in Nat /\ rd.hardState.term \in Nat
      /\ term' \in Terms
  BY <1>0, Types, TermsNat
<1>2. TypeOK'
  BY <1>0, <1>1 DEF TypeOK
<1>3. SyncedInv'
  <2>1. storage.hardState.commit <= committed /\ storage.hardState.term <= term
    BY DEF Inv, SyncedInv
  <2>2. storage.hardState.commit <= committed' /\ storage.hardState.term <= term'
    BY <1>1, <2>1
  <2> QED BY <2>2 DEF Inv, SyncedInv
<1>4. AppliedInv'
  BY DEF Inv, AppliedInv, Wrote
<1>5. AppInv'
  BY DEF Inv, AppInv, AppliedCursor
<1>6. ASSUME stage # "idle" PROVE RdInv'
  <2>1. RdInv
    BY <1>6 DEF Inv
  <2>2. rd.hardState.commit <= committed' /\ rd.hardState.term <= term'
    <3>1. rd.hardState.commit <= committed /\ rd.hardState.term <= term
      BY <2>1 DEF RdInv
    <3> QED BY <1>1, <3>1
  <2> QED BY <2>1, <2>2 DEF RdInv
<1>7. Wrote => WroteInv'
  BY DEF Inv, WroteInv
<1> QED BY <1>0, <1>2, <1>3, <1>4, <1>5, <1>6, <1>7 DEF Inv, Wrote

\* A message that leaves the entries alone.
LEMMA QuietStep ==
    ASSUME Inv, UNCHANGED <<cluster, applied, storage, synced, rd, stage, app, crashes>>, unstable' = unstable,
           term' \in 1..MaxTerm, term <= term', committed' \in Nat,
           committed <= committed', panicked' = FALSE, LogInv(cluster, storage, unstable, committed')
    PROVE  Inv'
<1>0. TypeOK /\ cluster \in Groups
  BY DEF Inv
<1>1. term \in Nat /\ term' \in Nat /\ rd.hardState.term \in Nat /\ unstable \in Unstable
  BY <1>0, Types, TermsNat
<1>2. unstable.snapshot # NoSnapshot => applied < unstable.snapshot.index
  BY DEF Inv, AppliedInv
<1>3. unstable.ents # <<>> => applied < End(unstable) /\ Last(unstable) <= term'
  <2>1. ASSUME unstable.ents # <<>> PROVE applied < End(unstable) /\ Last(unstable) <= term
    BY <2>1 DEF Inv, AppliedInv
  <2>2. ASSUME unstable.ents # <<>> PROVE Last(unstable) \in Nat
    <3>1. Shape(storage, unstable) /\ storage.ents # <<>> /\ storage \in Storages
      BY <1>0, Types DEF Inv, LogInv, SyncedInv, StorageOK
    <3>2. Last(unstable) \in 1..MaxTerm
      BY <1>1, <2>2, <3>1, LastOf
    <3> QED BY <3>2, TermsNat
  <2> QED BY <1>1, <2>1, <2>2
<1>4. ASSUME stage # "idle" PROVE MeanwhileInv'
  <2>1. MeanwhileInv /\ rd.hardState.term <= term
    BY <1>4 DEF Inv, RdInv
  <2>2. ASSUME term' = rd.hardState.term PROVE term' = term
    BY <1>1, <2>1, <2>2
  <2> QED BY <2>1, <2>2 DEF MeanwhileInv
<1> QED BY <1>1, <1>2, <1>3, <1>4, MessageStep

\* commitTo an index that the log shares with what leader t has committed (log.go:243-251).
LEMMA CommitToStep ==
    ASSUME cluster \in Groups, storage \in Storages, storage.ents # <<>>, committed \in Nat, ~panicked,
           NEW u \in Unstable, LogInv(cluster, storage, u, committed), NEW t \in 1..MaxTerm,
           NEW hi \in Nat, hi <= End(u), Follows(cluster, storage, u, t, hi),
           NEW k2 \in Nat, k2 <= hi, k2 <= cluster[t].commit, CommitTo(k2, LastIndex(storage, u))
    PROVE  /\ committed' \in Nat /\ committed <= committed' /\ panicked' = FALSE
           /\ LogInv(cluster, storage, u, committed')
<1>1. LastIndex(storage, u) = End(u) /\ End(u) \in Nat
  BY ViewOf, UnstableType DEF LogInv
<1>2. ~(k2 > LastIndex(storage, u)) /\ k2 <= LastIndex(storage, u)
  BY <1>1
<1>3. panicked' = FALSE
  <2>1. ~(committed < k2 /\ k2 > LastIndex(storage, u))
    BY <1>2
  <2>2. panicked' = (panicked \/ (committed < k2 /\ k2 > LastIndex(storage, u)))
    BY DEF CommitTo
  <2> QED BY <2>1, <2>2, Zenon
<1>4. CASE committed < k2
  <2>1. committed' = k2
    BY <1>2, <1>4 DEF CommitTo
  <2>2. committed <= k2
    BY <1>4
  <2>3. LogInv(cluster, storage, u, k2)
    BY <2>2, CommitMoves
  <2> QED BY <1>3, <2>1, <2>2, <2>3
<1>5. CASE ~(committed < k2)
  <2>1. committed' = committed /\ committed <= committed
    BY <1>5 DEF CommitTo
  <2> QED BY <1>3, <2>1
<1> QED BY <1>4, <1>5

\* e, from index ci on, is the m-th and what follows it of the entries that leader t sends from
\* index p on.
IsPart(c, t, p, ents, m, ci, e) ==
    /\ p \in Nat \ {0} /\ ents \in Seq(1..MaxTerm) /\ SentBy(c, t, p, ents)
    /\ m \in Nat \ {0} /\ m <= Len(ents) /\ ci = p + m - 1 /\ e = SubSeq(ents, m, Len(ents))

\* What findConflict leaves of a message is itself a part of its sender's log (log.go:127-138).
LEMMA SentPart ==
    ASSUME NEW c \in Groups, NEW t \in 1..MaxTerm, NEW p, NEW ents, NEW m, NEW ci, NEW e,
           IsPart(c, t, p, ents, m, ci, e)
    PROVE  /\ e \in Seq(1..MaxTerm) /\ e # <<>> /\ SentBy(c, t, ci, e)
           /\ ci + Len(e) - 1 = p + Len(ents) - 1 /\ e[Len(e)] \in 1..t
<1>0. /\ p \in Nat \ {0} /\ ents \in Seq(1..MaxTerm)
      /\ m \in Nat \ {0} /\ m <= Len(ents) /\ ci = p + m - 1 /\ e = SubSeq(ents, m, Len(ents))
  BY DEF IsPart
<1> DEFINE n == Len(ents)
           r == n - m + 1
           S == 1..MaxTerm
<1>1. n \in Nat /\ m <= n /\ p \in Nat \ {0} /\ m \in Nat \ {0} /\ ci = p + m - 1
  BY <1>0
<1>2. m <= n + 1 /\ r \in Nat /\ r >= 1 /\ ci + r - 1 = p + n - 1 /\ ci \in Nat \ {0}
  BY <1>1
<1>3. m <= Len(ents) + 1 /\ r = Len(ents) - m + 1 /\ ents \in Seq(S)
  BY <1>0, <1>2
<1>4. p + n - 1 <= Len(c[t].log) /\ \A k \in 1..n : ents[k] = c[t].log[p + k - 1]
  BY DEF SentBy, IsPart
<1>5. Len(c[t].log) \in Nat
  BY LeaderLog
<1> HIDE DEF r, S, n
<1>6. e \in Seq(S) /\ Len(e) = r /\ \A k \in 1..r : e[k] = ents[m + k - 1]
  BY <1>0, <1>3, RestOfSeq, SMTT(30)
<1>7. e # <<>> /\ e \in Seq(1..MaxTerm)
  <2>1. Len(e) # 0
    BY <1>2, <1>6
  <2> QED BY <1>6, <2>1, EmptySeq DEF S
<1>8. ci + r - 1 <= Len(c[t].log) /\ ci + r - 1 >= 1
  BY <1>1, <1>2, <1>4, <1>5
<1>9. ASSUME NEW k \in 1..r PROVE e[k] = c[t].log[ci + k - 1]
  <2> DEFINE y == m + k - 1
  <2>1. y \in 1..n /\ p + y - 1 = ci + k - 1
    BY <1>1, <1>2 DEF r
  <2> HIDE DEF y
  <2>2. ents[y] = c[t].log[p + y - 1]
    BY <1>4, <2>1
  <2> QED BY <1>6, <2>1, <2>2 DEF y
<1>10. SentBy(c, t, ci, e)
  BY <1>6, <1>8, <1>9 DEF SentBy
<1>11. e[Len(e)] \in 1..t
  <2>1. r \in 1..r /\ ci + r - 1 \in 1..Len(c[t].log)
    BY <1>2, <1>5, <1>8
  <2>2. e[r] = c[t].log[ci + r - 1]
    BY <1>9, <2>1
  <2> QED BY <1>6, <2>1, <2>2, LeaderLog
<1> QED BY <1>2, <1>6, <1>7, <1>10, <1>11 DEF n

\* An append while a Ready is handled.
LEMMA AppendMeanwhile ==
    ASSUME Inv, stage # "idle", UNCHANGED <<cluster, storage, rd>>, NEW t \in 1..MaxTerm, term <= t, term' = t,
           NEW ci \in Nat, committed < ci, Term(storage, unstable, ci) # cluster[t].log[ci],
           unstable' \in Unstable, unstable'.snapshot = unstable.snapshot, unstable'.offset <= unstable.offset,
           unstable'.ents # <<>>, ci <= End(unstable'), Base(storage, unstable') = Base(storage, unstable),
           \A i \in Base(storage, unstable)..(ci - 1) : Term(storage, unstable', i) = Term(storage, unstable, i),
           Follows(cluster, storage, unstable', t, End(unstable'))
    PROVE  MeanwhileInv'
<1>0. TypeOK /\ cluster \in Groups /\ LogInv(cluster, storage, unstable, committed)
  BY DEF Inv
<1>1. RdInv /\ MeanwhileInv /\ storage.ents # <<>>
  BY DEF Inv, SyncedInv, StorageOK
<1>2. /\ unstable \in Unstable /\ storage \in Storages /\ rd.unstable \in Unstable /\ committed \in Nat
      /\ term \in Nat /\ t \in Nat /\ rd.hardState.term \in Nat /\ rd.hardState.commit \in Nat
  BY <1>0, Types, TermsNat
<1>3. /\ unstable.offset \in Nat /\ rd.unstable.offset \in Nat /\ unstable'.offset \in Nat /\ End(unstable') \in Nat
  BY <1>2, UnstableType
<1>4. rd.hardState.commit <= committed /\ rd.hardState.term <= term
  BY <1>1 DEF RdInv
<1>5. End(unstable') > rd.hardState.commit
  BY <1>2, <1>3, <1>4
<1>6. \/ SameBasis(unstable', rd.unstable)
      \/ NewBasis(cluster, unstable', rd.unstable, rd.hardState.commit)
  <2>1. CASE SameBasis(unstable, rd.unstable)
    <3>1. unstable'.offset <= rd.unstable.offset
      BY <1>3, <2>1 DEF SameBasis
    <3> QED BY <2>1, <3>1 DEF SameBasis
  <2>2. CASE NewBasis(cluster, unstable, rd.unstable, rd.hardState.commit)
    BY <2>2 DEF NewBasis
  <2> QED BY <1>1, <2>1, <2>2 DEF MeanwhileInv
<1>7. ASSUME t = rd.hardState.term, rd.unstable.ents # <<>>
      PROVE  LastOrGone(cluster, storage, unstable', rd.unstable, t)
  <2>1. term = t
    BY <1>2, <1>4, <1>7
  <2>2. LastOrGone(cluster, storage, unstable, rd.unstable, t)
    BY <1>1, <1>7, <2>1 DEF MeanwhileInv
  <2> QED BY <1>0, <1>1, <1>2, <2>2, AppendGone
<1> QED BY <1>5, <1>6, <1>7 DEF MeanwhileInv

\* The n entries from p on, behind prev and up to q, of leader t.
Carries(c, t, prev, p, n, q, ents) ==
    /\ prev \in Nat /\ n \in Nat /\ p = prev + 1 /\ q = prev + n
    /\ q <= Len(c[t].log) /\ ents = SubSeq(c[t].log, p, q)

\* What a MsgApp of leader t carries behind prev.
LEMMA Sent ==
    ASSUME NEW c \in Groups, NEW t \in 1..MaxTerm, NEW prev, NEW p, NEW n, NEW q, NEW ents,
           Carries(c, t, prev, p, n, q, ents)
    PROVE  ents \in Seq(1..MaxTerm) /\ Len(ents) = n /\ SentBy(c, t, p, ents)
<1> DEFINE l == c[t].log
           S == 1..MaxTerm
<1>1. l \in Seq(S) /\ Len(l) \in Nat /\ p \in Nat \ {0} /\ q \in Int /\ q <= Len(l) /\ ents = SubSeq(l, p, q)
  BY LeaderLog DEF Carries
<1>2. (IF p <= q THEN q - p + 1 ELSE 0) = n /\ q - p + 1 = n /\ p + n - 1 = q
  <2>1. prev \in Nat /\ n \in Nat /\ p = prev + 1 /\ q = prev + n
    BY DEF Carries
  <2> QED BY <2>1
<1> HIDE DEF l, S
<1>3. /\ SubSeq(l, p, q) \in Seq(S) /\ Len(SubSeq(l, p, q)) = (IF p <= q THEN q - p + 1 ELSE 0)
      /\ \A k \in 1..(q - p + 1) : SubSeq(l, p, q)[k] = l[p + k - 1]
  BY <1>1, PartOfSeq, SMTT(30)
<1>4. ents \in Seq(S) /\ Len(ents) = n /\ \A k \in 1..n : ents[k] = l[p + k - 1]
  BY <1>1, <1>2, <1>3
<1>5. p + n - 1 <= Len(l)
  BY <1>1, <1>2
<1> QED BY <1>4, <1>5 DEF SentBy, S, l

\* The log u2 has replaced what the log u has from ci on, which is not committed.
GrownFrom(ms, u, u2, k, ci) ==
    /\ k < ci /\ ci <= End(u) + 1 /\ ci <= End(u2) /\ Base(ms, u2) = Base(ms, u)
    /\ \A i \in Base(ms, u)..(ci - 1) : Term(ms, u2, i) = Term(ms, u, i)
    /\ Term(ms, u2, ci) # Term(ms, u, ci)

\* What a message does to the log: nothing, or it appends to it, or it restores a snapshot.
MessageEffect ==
    /\ storage' = storage /\ rd' = rd /\ committed <= committed'
    /\ \/ unstable' = unstable
       \/ \E ci \in Nat : GrownFrom(storage, unstable, unstable', committed, ci)
       \/ committed < committed' /\ Base(storage, unstable') = committed' /\ End(unstable') = committed'

\* A MsgApp (raft.go:1471-1507, log.go:88-115).
LEMMA AppStep ==
    ASSUME Inv, NEW t \in 1..MaxTerm, NEW prev \in Nat, prev <= Len(cluster[t].log), NEW p, p = prev + 1,
           NEW ents \in Seq(1..MaxTerm), SentBy(cluster, t, p, ents),
           NEW cm \in {0, cluster[t].commit}, StepApp(t, prev, ents, cm)
    PROVE  Inv' /\ MessageEffect
<1> DEFINE n == Len(ents)
<1>0. /\ TypeOK /\ cluster \in Groups /\ LogInv(cluster, storage, unstable, committed) /\ ~panicked
      /\ storage.ents # <<>>
  BY DEF Inv, SyncedInv, StorageOK
<1>1. /\ unstable \in Unstable /\ storage \in Storages /\ committed \in Nat /\ applied \in Nat
      /\ term \in Nat /\ t \in Nat /\ storage.hardState.commit \in Nat
  BY <1>0, Types, TermsNat
<1>2. /\ UNCHANGED <<cluster, applied, storage, synced, rd, stage, app, crashes>>
      /\ term' = t /\ term <= t
  BY <1>1 DEF StepApp
<1>3. Len(cluster[t].log) \in Nat /\ cluster[t].commit \in Nat
  BY <1>0, LeaderLog
<1>4. prev \in Nat /\ n \in Nat /\ prev <= Len(cluster[t].log)
  BY <1>3
<1>5. Len(ents) = n
  OBVIOUS
<1> HIDE DEF n
<1>7. CASE UNCHANGED <<unstable, committed, panicked>>
  <2>1. panicked' = FALSE /\ committed <= committed'
    <3>1. panicked = FALSE
      BY <1>0 DEF TypeOK
    <3> QED BY <1>1, <1>7, <3>1
  <2>2. Inv'
    BY <1>0, <1>1, <1>2, <1>7, <2>1, QuietStep
  <2> QED BY <1>2, <1>7, <2>1, <2>2 DEF MessageEffect
<1>8. CASE /\ ~(prev < committed) /\ MatchTerm(prev, IF prev = 0 THEN 0 ELSE cluster[t].log[prev])
           /\ MaybeAppend(prev, ents, cm)
  <2> DEFINE ci == FindConflict(prev, ents)
             hi == prev + n
             k2 == Min(cm, hi)
  <2>1. committed <= prev /\ Term(storage, unstable, prev) = Entry(cluster, t, prev) /\ hi \in Nat
    BY <1>1, <1>4, <1>8 DEF MatchTerm, Entry
  <2>2. \/ ci = 0 /\ prev + Len(ents) <= End(unstable) /\ Follows(cluster, storage, unstable, t, prev + Len(ents))
        \/ /\ ci \in Nat /\ prev < ci /\ ci <= prev + Len(ents) /\ ci <= End(unstable) + 1
           /\ Follows(cluster, storage, unstable, t, ci - 1)
           /\ Term(storage, unstable, ci) # cluster[t].log[ci]
    BY <1>0, <1>1, <1>4, <2>1, Conflict
  <2>3. k2 \in Nat /\ k2 <= hi /\ k2 <= cluster[t].commit
    BY <1>3, <2>1 DEF Min
  <2>4. prev + Len(ents) = hi
    BY <1>5
  <2>5. CASE ci = 0
    <3>1. hi <= End(unstable) /\ Follows(cluster, storage, unstable, t, hi)
      BY <1>4, <2>2, <2>4, <2>5
    <3>2. unstable' = unstable /\ CommitTo(Min(cm, prev + Len(ents)), LastIndex(storage, unstable))
      BY <1>8, <2>5 DEF MaybeAppend
    <3>3. CommitTo(k2, LastIndex(storage, unstable))
      BY <2>4, <3>2
    <3> HIDE DEF k2, hi, ci
    <3>4. committed' \in Nat /\ committed <= committed' /\ panicked' = FALSE /\ LogInv(cluster, storage, unstable, committed')
      BY <1>0, <1>1, <2>1, <2>3, <3>1, <3>3, CommitToStep
    <3>5. Inv'
      BY <1>0, <1>1, <1>2, <3>2, <3>4, QuietStep
    <3> QED BY <1>2, <3>2, <3>4, <3>5 DEF MessageEffect
  <2>6. CASE ci # 0
    <3> DEFINE e == SubSeq(ents, ci - prev, Len(ents))
               u2 == TruncateAndAppend(unstable, ci, e)
    <3>1. /\ ci \in Nat /\ prev < ci /\ ci <= hi /\ ci <= End(unstable) + 1
          /\ Follows(cluster, storage, unstable, t, ci - 1)
          /\ Term(storage, unstable, ci) # cluster[t].log[ci]
      BY <2>2, <2>4, <2>6
    <3>2. committed < ci /\ ~(ci <= committed)
      BY <1>1, <1>4, <2>1, <3>1
    <3>3. unstable' = u2 /\ CommitTo(Min(cm, prev + Len(ents)), LastIndex(storage, u2))
      BY <1>8, <2>6, <3>2 DEF MaybeAppend
    <3>4. CommitTo(k2, LastIndex(storage, unstable'))
      BY <2>4, <3>3
    <3> HIDE DEF k2, ci
    <3>5. e \in Seq(1..MaxTerm) /\ e # <<>> /\ SentBy(cluster, t, ci, e) /\ ci + Len(e) - 1 = hi /\ e[Len(e)] \in 1..t
      <4> DEFINE m == ci - prev
      <4>1. /\ e = SubSeq(ents, m, Len(ents)) /\ p \in Nat \ {0} /\ m \in Nat \ {0} /\ ci = p + m - 1
            /\ m <= Len(ents) /\ p + Len(ents) - 1 = hi
        BY <1>4, <1>5, <2>4, <3>1
      <4>2. IsPart(cluster, t, p, ents, m, ci, e)
        BY <4>1 DEF IsPart
      <4> HIDE DEF m, hi, e
      <4>3. e \in Seq(1..MaxTerm) /\ e # <<>> /\ SentBy(cluster, t, ci, e) /\ ci + Len(e) - 1 = p + Len(ents) - 1 /\ e[Len(e)] \in 1..t
        BY <1>0, <4>2, SentPart
      <4> QED BY <4>1, <4>3
    <3> HIDE DEF e, hi
    <3>6. /\ unstable' \in Unstable /\ unstable'.snapshot = unstable.snapshot /\ unstable'.offset <= unstable.offset
          /\ unstable'.ents # <<>> /\ unstable'.ents[Len(unstable'.ents)] = e[Len(e)]
          /\ End(unstable') = ci + Len(e) - 1 /\ Base(storage, unstable') = Base(storage, unstable)
          /\ \A i \in Base(storage, unstable)..(ci - 1) : Term(storage, unstable', i) = Term(storage, unstable, i)
          /\ Follows(cluster, storage, unstable', t, End(unstable'))
          /\ LogInv(cluster, storage, unstable', committed)
      <4>1. /\ unstable' = TruncateAndAppend(unstable, ci, e) /\ ci \in Nat /\ ci <= End(unstable) + 1 /\ committed < ci
            /\ e \in Seq(1..MaxTerm) /\ e # <<>> /\ SentBy(cluster, t, ci, e)
            /\ Follows(cluster, storage, unstable, t, ci - 1)
        BY <3>1, <3>2, <3>3, <3>5
      <4> HIDE DEF u2
      <4> QED BY <1>0, <1>1, <4>1, AppendView, SMTT(30)
    <3>7. End(unstable') = hi /\ ci <= End(unstable') /\ Last(unstable') \in 1..t
      BY <3>1, <3>5, <3>6 DEF Last
    <3>8. committed' \in Nat /\ committed <= committed' /\ panicked' = FALSE /\ LogInv(cluster, storage, unstable', committed')
      <4>1. Follows(cluster, storage, unstable', t, hi) /\ hi <= End(unstable')
        BY <2>1, <3>6, <3>7
      <4> QED BY <1>0, <1>1, <2>1, <2>3, <3>4, <3>6, <4>1, CommitToStep
    <3>9. stage # "idle" => MeanwhileInv'
      BY <1>1, <1>2, <3>1, <3>2, <3>6, <3>7, AppendMeanwhile
    <3>10. unstable'.snapshot # NoSnapshot => applied < unstable'.snapshot.index
      BY <3>6 DEF Inv, AppliedInv
    <3>11. applied < End(unstable') /\ Last(unstable') <= term'
      <4>1. applied <= storage.hardState.commit /\ storage.hardState.commit <= committed
        BY DEF Inv, AppliedInv, SyncedInv
      <4>2. applied < hi
        BY <1>1, <2>1, <3>1, <3>2, <4>1
      <4>3. Last(unstable') <= t
        BY <1>1, <3>7
      <4> QED BY <1>2, <3>7, <4>2, <4>3
    <3>12. Inv'
      BY <1>1, <1>2, <3>6, <3>8, <3>9, <3>10, <3>11, MessageStep
    <3>13. GrownFrom(storage, unstable, unstable', committed, ci)
      <4>1. Base(storage, unstable) \in Nat /\ Base(storage, unstable) <= committed /\ End(unstable') \in Nat
        BY <1>0, <1>1, <3>6, ViewOf, UnstableType DEF LogInv, CommitOK
      <4>2. ci \in Nat /\ Base(storage, unstable') \in Nat /\ Base(storage, unstable') <= ci /\ 1 <= ci
        BY <1>1, <3>1, <3>2, <3>6, <4>1
      <4>3. Term(storage, unstable', ci) = cluster[t].log[ci]
        BY <1>0, <1>1, <3>6, <3>7, <4>1, <4>2, FollowsAt
      <4> QED BY <3>1, <3>2, <3>6, <3>7, <4>3 DEF GrownFrom
    <3> QED BY <1>2, <3>1, <3>8, <3>12, <3>13 DEF MessageEffect
  <2> QED BY <2>5, <2>6
<1> QED BY <1>7, <1>8 DEF StepApp

\* A MsgHeartbeat (raft.go:1505-1508).
LEMMA HeartbeatStep ==
    ASSUME Inv, NEW t \in 1..MaxTerm, NEW cm \in 1..cluster[t].commit, StepHeartbeat(t, cm)
    PROVE  Inv' /\ MessageEffect
<1>0. /\ TypeOK /\ cluster \in Groups /\ LogInv(cluster, storage, unstable, committed) /\ ~panicked
      /\ storage.ents # <<>>
  BY DEF Inv, SyncedInv, StorageOK
<1>1. /\ unstable \in Unstable /\ storage \in Storages /\ committed \in Nat /\ term \in Nat /\ t \in Nat
  BY <1>0, Types, TermsNat
<1>2. /\ UNCHANGED <<cluster, applied, storage, synced, rd, stage, app, crashes>> /\ unstable' = unstable
      /\ term' = t /\ term <= t /\ cm <= LastIndex(storage, unstable)
      /\ CommitTo(cm, LastIndex(storage, unstable))
  BY <1>1 DEF StepHeartbeat
<1>3. \A i \in (FirstIndex(storage, unstable) - 1)..cm : i > 0 => MatchTerm(i, cluster[t].log[i])
  BY DEF StepHeartbeat
<1>4. /\ Base(storage, unstable) \in Nat /\ FirstIndex(storage, unstable) - 1 = Base(storage, unstable)
      /\ LastIndex(storage, unstable) = End(unstable) /\ End(unstable) \in Nat
      /\ Base(storage, unstable) <= End(unstable)
  BY <1>0, <1>1, ViewOf, UnstableType DEF LogInv
<1>5. /\ Len(cluster[t].log) \in Nat /\ cluster[t].commit \in Nat /\ cluster[t].commit <= Len(cluster[t].log)
  BY <1>0, LeaderLog
<1>6. cm \in Nat /\ cm <= cluster[t].commit /\ cm <= Len(cluster[t].log) /\ cm <= End(unstable) /\ cm <= cm
  BY <1>2, <1>4, <1>5
<1>7. ASSUME NEW i \in Base(storage, unstable)..cm PROVE Term(storage, unstable, i) = Entry(cluster, t, i)
  <2>1. CASE i = 0
    <3>1. PICK t0 \in 1..MaxTerm : Follows(cluster, storage, unstable, t0, End(unstable))
      BY <1>0 DEF LogInv, LogOK
    <3>2. i \in Base(storage, unstable)..End(unstable)
      BY <1>4, <1>6, <1>7, <2>1
    <3> QED BY <2>1, <3>1, <3>2 DEF Follows, Entry
  <2>2. CASE i # 0
    <3>1. i > 0 /\ i \in (FirstIndex(storage, unstable) - 1)..cm
      BY <1>4, <1>6, <1>7, <2>2
    <3> QED BY <1>3, <2>2, <3>1 DEF MatchTerm, Entry
  <2> QED BY <2>1, <2>2
<1>8. Follows(cluster, storage, unstable, t, cm)
  BY <1>6, <1>7 DEF Follows
<1>9. /\ committed' \in Nat /\ committed <= committed' /\ panicked' = FALSE
      /\ LogInv(cluster, storage, unstable, committed')
  BY <1>0, <1>1, <1>2, <1>6, <1>8, CommitToStep
<1>10. Inv'
  BY <1>2, <1>9, QuietStep
<1> QED BY <1>2, <1>9, <1>10 DEF MessageEffect

\* A snapshot that replaces the log while a Ready is handled.
LEMMA SnapMeanwhile ==
    ASSUME Inv, stage # "idle", UNCHANGED <<cluster, storage, rd>>, NEW t \in 1..MaxTerm, term <= t, term' = t,
           NEW i \in Nat \ {0}, committed < i, i <= Len(cluster[t].log), MaySendSnap(t, i),
           Term(storage, unstable, i) # cluster[t].log[i],
           unstable' \in Unstable, unstable'.snapshot # NoSnapshot, unstable'.snapshot.index = i,
           unstable'.snapshot.term = cluster[t].log[i], unstable'.ents = <<>>,
           End(unstable') = i, Base(storage, unstable') = i, Follows(cluster, storage, unstable', t, i)
    PROVE  MeanwhileInv'
<1> DEFINE l == End(rd.unstable)
           x == Last(rd.unstable)
<1>0. TypeOK /\ cluster \in Groups /\ LogInv(cluster, storage, unstable, committed)
  BY DEF Inv
<1>1. RdInv /\ MeanwhileInv /\ storage.ents # <<>> /\ storage.hardState.term <= term
  BY DEF Inv, SyncedInv, StorageOK
<1>2. /\ unstable \in Unstable /\ storage \in Storages /\ rd.unstable \in Unstable /\ committed \in Nat
      /\ term \in Nat /\ t \in Nat /\ rd.hardState.term \in Nat /\ rd.hardState.commit \in Nat
      /\ storage.hardState.term \in Nat
  BY <1>0, Types, TermsNat
<1>3. /\ rd.hardState.commit <= committed /\ rd.hardState.term <= term
      /\ storage.hardState.term <= rd.hardState.term
  BY <1>1 DEF RdInv
<1>4. l \in Nat
  BY <1>2, UnstableType
<1>5. ASSUME rd.unstable.ents # <<>>, l > i PROVE Incompatible(cluster, l, x, i, cluster[t].log[i])
  <2>1. i < l
    BY <1>4, <1>5
  <2>2. CASE t = rd.hardState.term
    <3>1. term = t
      BY <1>2, <1>3, <2>2
    <3>2. LastOrGone(cluster, storage, unstable, rd.unstable, t)
      BY <1>1, <1>5, <2>2, <3>1 DEF MeanwhileInv
    <3> QED BY <1>0, <1>1, <1>2, <2>1, <3>2, SnapGone
  <2>3. CASE t # rd.hardState.term
    <3>1. rd.hardState.term < t /\ ~(t <= storage.hardState.term)
      BY <1>2, <1>3, <2>3
    <3>2. cluster[t].log[i] = t
      BY <3>1 DEF MaySendSnap
    <3>3. x <= rd.hardState.term
      BY <1>1, <1>5 DEF RdInv
    <3>4. x \in Nat
      <4>1. Shape(storage, rd.unstable)
        BY <1>1 DEF RdInv, LogInv
      <4>2. x \in 1..MaxTerm
        BY <1>1, <1>2, <1>5, <4>1, LastOf
      <4> QED BY <4>2, TermsNat
    <3>5. x < t
      BY <1>2, <3>1, <3>3, <3>4
    <3> QED BY <1>0, <1>2, <1>5, <2>1, <3>2, <3>4, <3>5, OwnSnapGone
  <2> QED BY <2>2, <2>3
<1>6. NewBasis(cluster, unstable', rd.unstable, rd.hardState.commit)
  <2>1. i > rd.hardState.commit
    BY <1>2, <1>3
  <2> QED BY <1>5, <2>1 DEF NewBasis
<1>7. ASSUME rd.unstable.ents # <<>> PROVE LastOrGone(cluster, storage, unstable', rd.unstable, t)
  <2>1. CASE l <= i
    BY <2>1 DEF LastOrGone
  <2>2. CASE ~(l <= i)
    <3>1. l > i /\ 1 <= i
      BY <1>4, <2>2
    <3>2. Term(storage, unstable', i) = cluster[t].log[i]
      <4>1. i \in i..i /\ i # 0
        OBVIOUS
      <4> QED BY <4>1 DEF Follows, Entry
    <3>3. Incompatible(cluster, l, x, i, cluster[t].log[i])
      BY <1>5, <1>7, <3>1
    <3> QED BY <3>1, <3>2, <3>3 DEF LastOrGone
  <2> QED BY <2>1, <2>2
<1> QED BY <1>6, <1>7 DEF MeanwhileInv

\* A MsgSnap (raft.go:1510-1583).
LEMMA SnapStep ==
    ASSUME Inv, NEW t \in 1..MaxTerm, NEW i \in 1..cluster[t].commit, StepSnap(t, i)
    PROVE  Inv' /\ MessageEffect
<1> DEFINE s == SnapshotOf(SubSeq(cluster[t].log, 1, i))
<1>0. /\ TypeOK /\ cluster \in Groups /\ LogInv(cluster, storage, unstable, committed) /\ ~panicked
      /\ storage.ents # <<>>
  BY DEF Inv, SyncedInv, StorageOK
<1>1. /\ unstable \in Unstable /\ storage \in Storages /\ committed \in Nat /\ term \in Nat /\ t \in Nat
      /\ applied \in Nat /\ storage.hardState.commit \in Nat
  BY <1>0, Types, TermsNat
<1>2. /\ UNCHANGED <<cluster, applied, storage, synced, rd, stage, app, crashes>>
      /\ term' = t /\ term <= t /\ MaySendSnap(t, i) /\ Restore(s)
  BY <1>1 DEF StepSnap
<1>3. panicked = FALSE
  BY <1>0 DEF TypeOK
<1>4. /\ Len(cluster[t].log) \in Nat /\ cluster[t].commit \in Nat /\ cluster[t].commit <= Len(cluster[t].log)
  BY <1>0, LeaderLog
<1>5. i \in Nat \ {0} /\ i <= cluster[t].commit /\ i <= Len(cluster[t].log) /\ i <= i
  BY <1>4
<1> DEFINE u == RestoreUnstable(s)
<1>6. /\ s.index = i /\ s.term = cluster[t].log[i] /\ s # NoSnapshot
      /\ u \in Unstable /\ u.snapshot = s /\ u.ents = <<>>
      /\ End(u) = i /\ Base(storage, u) = i
      /\ Follows(cluster, storage, u, t, i) /\ LogInv(cluster, storage, u, i)
  <2>1. s = SnapshotOf(SubSeq(cluster[t].log, 1, i)) /\ u = RestoreUnstable(s)
    OBVIOUS
  <2> HIDE DEF s, u
  <2> QED BY <1>0, <1>1, <1>5, <2>1, SnapshotView
<1> HIDE DEF s
<1>7. CASE s.index <= committed
  <2>1. UNCHANGED <<unstable, committed, panicked>> /\ committed <= committed
    BY <1>1, <1>2, <1>7 DEF Restore
  <2>2. Inv'
    BY <1>0, <1>1, <1>2, <1>3, <2>1, QuietStep
  <2> QED BY <1>2, <2>1, <2>2 DEF MessageEffect
<1>8. CASE ~(s.index <= committed) /\ MatchTerm(s.index, s.term)
  <2>1. CommitTo(i, LastIndex(storage, unstable)) /\ unstable' = unstable
    BY <1>2, <1>6, <1>8 DEF Restore
  <2>2. Term(storage, unstable, i) = Entry(cluster, t, i) /\ committed <= i
    BY <1>1, <1>5, <1>6, <1>8 DEF MatchTerm, Entry
  <2>3. i <= End(unstable) /\ Follows(cluster, storage, unstable, t, i)
    BY <1>0, <1>1, <1>5, <2>2, MatchInLog
  <2>4. /\ committed' \in Nat /\ committed <= committed' /\ panicked' = FALSE
        /\ LogInv(cluster, storage, unstable, committed')
    BY <1>0, <1>1, <1>5, <2>1, <2>3, CommitToStep
  <2>5. Inv'
    BY <1>2, <2>1, <2>4, QuietStep
  <2> QED BY <1>2, <2>1, <2>4, <2>5 DEF MessageEffect
<1>9. CASE ~(s.index <= committed) /\ ~MatchTerm(s.index, s.term)
  <2>1. unstable' = u /\ committed' = i /\ panicked' = FALSE
    BY <1>2, <1>3, <1>6, <1>9 DEF Restore
  <2> HIDE DEF u
  <2>2. committed < i /\ committed <= i /\ Term(storage, unstable, i) # cluster[t].log[i]
    BY <1>1, <1>5, <1>6, <1>9 DEF MatchTerm
  <2>3. stage # "idle" => MeanwhileInv'
    <3>1. /\ unstable' \in Unstable /\ unstable'.snapshot # NoSnapshot /\ unstable'.snapshot.index = i
          /\ unstable'.snapshot.term = cluster[t].log[i] /\ unstable'.ents = <<>>
          /\ End(unstable') = i /\ Base(storage, unstable') = i /\ Follows(cluster, storage, unstable', t, i)
      BY <1>6, <2>1
    <3> QED BY <1>2, <1>5, <2>2, <3>1, SnapMeanwhile
  <2>4. applied < i
    <3>1. applied <= storage.hardState.commit /\ storage.hardState.commit <= committed
      BY DEF Inv, AppliedInv, SyncedInv
    <3> QED BY <1>1, <1>5, <2>2, <3>1
  <2>5. /\ unstable' \in Unstable /\ LogInv(cluster, storage, unstable', committed') /\ unstable'.ents = <<>>
        /\ unstable'.snapshot.index = i /\ committed' \in Nat /\ committed <= committed'
    BY <1>5, <1>6, <2>1, <2>2
  <2>6. Inv'
    BY <1>1, <1>2, <2>1, <2>3, <2>4, <2>5, MessageStep
  <2> QED BY <1>2, <1>6, <2>1, <2>2, <2>5, <2>6 DEF MessageEffect
<1> QED BY <1>7, <1>8, <1>9

-----------------------------------------------------------------------------
(* Steps: the application *)

\* A function on 1..n is a sequence of n elements.
LEMMA SeqOfFunction ==
    ASSUME NEW S, NEW n \in Nat, NEW f \in [1..n -> S]
    PROVE  f \in Seq(S) /\ Len(f) = n
<1>1. f \in Seq(S)
  BY SeqDef
<1>2. DOMAIN f = 1..n /\ DOMAIN f = 1..Len(f) /\ Len(f) \in Nat
  BY <1>1, LenProperties
<1>3. ASSUME Len(f) # n PROVE FALSE
  <2>1. CASE Len(f) < n
    <3>1. n \in 1..n /\ n \notin 1..Len(f)
      BY <1>2, <2>1
    <3> QED BY <1>2, <3>1
  <2>2. CASE Len(f) > n
    <3>1. Len(f) \in 1..Len(f) /\ Len(f) \notin 1..n
      BY <1>2, <2>2
    <3> QED BY <1>2, <3>1
  <2> QED BY <1>2, <1>3, <2>1, <2>2
<1> QED BY <1>1, <1>3

\* What Ready hands out (log.go:180-190): the entries behind what is applied, none that is not
\* committed, none that is not there.
LEMMA ReadyPage ==
    ASSUME Inv, stage = "idle"
    PROVE  /\ NextFirst = (IF unstable.snapshot # NoSnapshot THEN unstable.snapshot.index ELSE applied) + 1
           /\ ~NextEntsFail /\ NextFirst \in Nat
           /\ NextEnts \in Seq(1..MaxTerm)
           /\ NextEnts # <<>> => NextFirst + Len(NextEnts) - 1 <= committed
           /\ \E t \in 1..MaxTerm :
                 /\ committed <= cluster[t].commit
                 /\ \A k \in 1..Len(NextEnts) : NextEnts[k] = cluster[t].log[NextFirst + k - 1]
<1> DEFINE u == unstable
           b == Base(storage, u)
           o == u.offset
<1>0. /\ TypeOK /\ cluster \in Groups /\ LogInv(cluster, storage, u, committed) /\ Shape(storage, u)
      /\ storage.ents # <<>> /\ b <= committed /\ committed <= End(u)
  BY DEF Inv, SyncedInv, StorageOK, LogInv, CommitOK
<1>1. /\ u \in Unstable /\ storage \in Storages /\ committed \in Nat /\ applied \in Nat
      /\ storage.index \in Nat /\ u.snapshot.index \in Nat
  BY <1>0, Types
<1>2. /\ b \in Nat /\ FirstIndex(storage, u) = b + 1 /\ End(u) \in Nat /\ o \in Nat \ {0} /\ b <= End(u)
      /\ \A i \in b..End(u) : Term(storage, u, i) = ViewTerm(storage, u, i)
  BY <1>0, <1>1, ViewOf, UnstableType
<1>3. ~(stage \in {"persisted", "applied"})
  OBVIOUS
<1>4. /\ u.snapshot = NoSnapshot => b = storage.index /\ storage.index <= applied
      /\ u.snapshot # NoSnapshot => b = u.snapshot.index /\ applied < u.snapshot.index /\ o = b + 1
  BY <1>0, <1>3 DEF Inv, AppliedInv, Wrote, Base, Shape
<1> DEFINE lo == NextFirst
           d == IF u.snapshot # NoSnapshot THEN u.snapshot.index ELSE applied
<1>5. d \in Nat /\ b <= d
  BY <1>1, <1>2, <1>4
<1>6. lo = d + 1
  <2>1. CASE u.snapshot # NoSnapshot
    <3>1. d = b /\ ~(applied + 1 >= b + 1)
      BY <1>1, <1>2, <1>4, <2>1
    <3> QED BY <1>2, <3>1 DEF NextFirst, Max
  <2>2. CASE u.snapshot = NoSnapshot
    <3>1. d = applied /\ applied + 1 >= b + 1
      BY <1>1, <1>2, <1>4, <2>2
    <3> QED BY <1>2, <3>1 DEF NextFirst, Max
  <2> QED BY <2>1, <2>2
<1>7. ~NextEntsFail
  <2> SUFFICES ASSUME NextEntsFail PROVE FALSE
    OBVIOUS
  <2>1. lo < o /\ (lo <= storage.index \/ Min(committed, o - 1) > StorageLast(storage))
    BY DEF NextEntsFail
  <2> HIDE DEF lo, d
  <2>2. CASE u.snapshot # NoSnapshot
    <3>1. o = b + 1
      BY <1>4, <2>2
    <3> QED BY <1>2, <1>5, <1>6, <2>1, <3>1
  <2>3. CASE u.snapshot = NoSnapshot
    <3>1. o <= StorageLast(storage) + 1 /\ b = storage.index
      BY <1>0, <1>4, <2>3 DEF Shape
    <3>2. StorageLast(storage) \in Int
      <4>1. StorageLast(storage) = storage.index + Len(storage.ents) - 1 /\ Len(storage.ents) \in Nat
        BY <1>1, StorageType
      <4> QED BY <1>1, <4>1
    <3>3. ~(Min(committed, o - 1) > StorageLast(storage))
      BY <1>1, <1>2, <3>1, <3>2 DEF Min
    <3>4. ~(lo <= storage.index)
      BY <1>1, <1>2, <1>5, <1>6, <3>1
    <3> QED BY <2>1, <3>3, <3>4
  <2> QED BY <2>2, <2>3
<1> DEFINE hi == Min(committed, lo + MaxNextEnts - 1)
           n == IF hi - lo + 1 >= 0 THEN hi - lo + 1 ELSE 0
           x(i) == IF i < o THEN StorageTerm(storage, i) ELSE u.ents[i - o + 1]
           f == [k \in 1..n |-> IF lo + k - 1 < o THEN StorageTerm(storage, lo + k - 1) ELSE u.ents[lo + k - o]]
<1>8. hi \in Int /\ hi <= committed /\ lo \in Nat \ {0} /\ n \in Nat /\ 1..(hi - lo + 1) = 1..n
      /\ (n >= 1 => n = hi - lo + 1)
  <2> HIDE DEF lo, d
  <2>1. lo \in Nat \ {0}
    BY <1>5, <1>6
  <2>2. hi \in Int /\ hi <= committed
    BY <1>1, <2>1, RaftLogBounds DEF Min
  <2> HIDE DEF hi
  <2> QED BY <2>1, <2>2
<1>9. NextEnts = f
  BY <1>8 DEF NextEnts, Slice
<1>10. PICK t \in 1..MaxTerm : committed <= cluster[t].commit /\ Follows(cluster, storage, u, t, committed)
  BY <1>0 DEF LogInv, CommitOK
<1> HIDE DEF lo, d, hi, n, u
<1>11. ASSUME NEW k \in 1..n
       PROVE  /\ (IF lo + k - 1 < o THEN StorageTerm(storage, lo + k - 1) ELSE u.ents[lo + k - o]) = cluster[t].log[lo + k - 1]
              /\ cluster[t].log[lo + k - 1] \in 1..MaxTerm
  <2> DEFINE i == lo + k - 1
  <2>1. /\ i \in Nat /\ i >= 1 /\ b < i /\ b <= i /\ i <= committed /\ lo + k - o = i - o + 1 /\ i >= lo
    BY <1>1, <1>2, <1>5, <1>6, <1>8
  <2> HIDE DEF i
  <2>2. i \in b..End(u)
    BY <1>0, <1>1, <1>2, <2>1
  <2>3. Term(storage, u, i) = cluster[t].log[i] /\ i \in 1..Len(cluster[t].log)
    BY <1>0, <1>1, <1>2, <1>10, <2>1, FollowsAt
  <2>4. (IF i < o THEN StorageTerm(storage, i) ELSE u.ents[i - o + 1]) = ViewTerm(storage, u, i)
    <3>1. CASE i >= o
      <4>1. ~(i < o)
        BY <1>2, <2>1, <3>1
      <4> QED BY <3>1, <4>1 DEF ViewTerm
    <3>2. CASE ~(i >= o)
      <4>1. i < o
        BY <1>2, <2>1, <3>2
      <4>2. u.snapshot = NoSnapshot
        <5> SUFFICES ASSUME u.snapshot # NoSnapshot PROVE FALSE
          OBVIOUS
        <5>1. o = b + 1
          BY <1>4
        <5> QED BY <1>2, <2>1, <4>1, <5>1
      <4>3. storage.index = b /\ o <= StorageLast(storage) + 1
        BY <1>0, <1>4, <4>2 DEF Shape
      <4>4. StorageLast(storage) \in Int
        <5>1. StorageLast(storage) = storage.index + Len(storage.ents) - 1 /\ Len(storage.ents) \in Nat
          BY <1>1, StorageType
        <5> QED BY <1>1, <5>1
      <4>5. ~(i < storage.index) /\ ~(i > StorageLast(storage))
        BY <1>2, <2>1, <4>1, <4>3, <4>4
      <4> QED BY <3>2, <4>1, <4>2, <4>5 DEF ViewTerm, StorageTerm
    <3> QED BY <3>1, <3>2
  <2>5. cluster[t].log[i] \in 1..MaxTerm
    BY <1>0, <2>3, LeaderLog
  <2>6. ViewTerm(storage, u, i) = cluster[t].log[i]
    BY <1>2, <2>2, <2>3
  <2> QED BY <2>1, <2>4, <2>5, <2>6 DEF i
<1>12. f \in [1..n -> 1..MaxTerm] /\ \A k \in 1..n : f[k] = cluster[t].log[lo + k - 1]
  BY <1>11
<1> HIDE DEF f
<1>13. f \in Seq(1..MaxTerm) /\ Len(f) = n
  BY <1>8, <1>12, SeqOfFunction
<1>14. f # <<>> => lo + Len(f) - 1 <= committed
  <2>1. ASSUME f # <<>> PROVE n >= 1
    BY <1>8, <1>13, <2>1, EmptySeq
  <2>2. ASSUME n >= 1 PROVE lo + n - 1 <= committed
    BY <1>1, <1>8, <2>2
  <2> QED BY <1>13, <2>1, <2>2
<1>15. \A k \in 1..Len(f) : f[k] = cluster[t].log[lo + k - 1]
  BY <1>12, <1>13
<1> QED BY <1>6, <1>7, <1>8, <1>9, <1>10, <1>13, <1>14, <1>15 DEF lo, d, u

\* Ready (rawnode.go:125-150).
LEMMA ReadyStep ==
    ASSUME Inv, Ready
    PROVE  Inv'
<1> DEFINE u == unstable
<1>0. /\ TypeOK /\ cluster \in Groups /\ LogInv(cluster, storage, u, committed) /\ Shape(storage, u)
      /\ storage.ents # <<>> /\ stage = "idle" /\ SyncedInv /\ AppliedInv /\ AppInv
  BY DEF Inv, SyncedInv, StorageOK, LogInv, Ready
<1>1. /\ u \in Unstable /\ storage \in Storages /\ committed \in Nat /\ applied \in Nat /\ term \in Terms
      /\ term \in Nat
  BY <1>0, Types
<1>2. /\ NextFirst = (IF unstable.snapshot # NoSnapshot THEN unstable.snapshot.index ELSE applied) + 1
      /\ ~NextEntsFail /\ NextFirst \in Nat
      /\ NextEnts \in Seq(1..MaxTerm)
      /\ NextEnts # <<>> => NextFirst + Len(NextEnts) - 1 <= committed
      /\ \E t \in 1..MaxTerm :
            /\ committed <= cluster[t].commit
            /\ \A k \in 1..Len(NextEnts) : NextEnts[k] = cluster[t].log[NextFirst + k - 1]
  BY <1>0, ReadyPage
<1>3. /\ rd' = [unstable |-> u, hardState |-> [term |-> term, commit |-> committed],
                first |-> NextFirst, ents |-> NextEnts]
      /\ stage' = "ready" /\ panicked' = panicked
      /\ UNCHANGED <<cluster, term, unstable, committed, applied, storage, synced, app, crashes>>
  BY <1>2, Zenon DEF Ready, CurrentHardState
<1>4. /\ rd'.unstable = u /\ rd'.hardState.term = term /\ rd'.hardState.commit = committed
      /\ rd'.first = NextFirst /\ rd'.ents = NextEnts
      /\ rd' \in [unstable : Unstable, hardState : HardStates, first : Nat, ents : Seq(1..MaxTerm)]
  BY <1>1, <1>2, <1>3 DEF HardStates
<1> HIDE DEF u
<1>5. TypeOK'
  BY <1>0, <1>3, <1>4 DEF TypeOK
<1>6. SyncedInv' /\ LogInv(cluster, storage, unstable, committed)'
  BY <1>0, <1>3 DEF SyncedInv, u
<1>7. AppliedInv'
  BY <1>0, <1>3 DEF AppliedInv, Wrote, u
<1>8. AppInv'
  BY <1>0, <1>3 DEF AppInv
<1>9. RdInv'
  <2>1. storage.hardState.commit <= committed /\ storage.hardState.term <= term /\ committed <= committed /\ term <= term
    BY <1>0, <1>1 DEF SyncedInv
  <2>2. /\ u.snapshot # NoSnapshot => applied < u.snapshot.index
        /\ u.ents # <<>> => applied < End(u) /\ Last(u) <= term
    BY <1>0 DEF AppliedInv, u
  <2>3. LogInv(cluster, storage, rd.unstable, rd.hardState.commit)'
    BY <1>0, <1>3, <1>4
  <2>4. (/\ rd.first = (IF rd.unstable.snapshot # NoSnapshot THEN rd.unstable.snapshot.index ELSE applied) + 1
         /\ rd.ents # <<>> => rd.first + Len(rd.ents) - 1 <= rd.hardState.commit
         /\ \E t \in 1..MaxTerm :
               /\ rd.hardState.commit <= cluster[t].commit
               /\ \A k \in 1..Len(rd.ents) : rd.ents[k] = cluster[t].log[rd.first + k - 1])'
    BY <1>2, <1>3, <1>4 DEF u
  <2>5. (/\ rd.hardState.commit <= committed /\ storage.hardState.commit <= rd.hardState.commit
         /\ storage.hardState.term <= rd.hardState.term /\ rd.hardState.term <= term
         /\ rd.unstable.ents # <<>> => applied < End(rd.unstable) /\ Last(rd.unstable) <= rd.hardState.term
         /\ rd.unstable.snapshot # NoSnapshot => applied < rd.unstable.snapshot.index)'
    BY <1>3, <1>4, <2>1, <2>2
  <2> QED BY <2>3, <2>4, <2>5 DEF RdInv
<1>10. MeanwhileInv'
  <2>1. SameBasis(u, u)
    <3>1. u.offset \in Nat
      BY <1>1, UnstableType
    <3> QED BY <3>1 DEF SameBasis
  <2>2. ASSUME u.ents # <<>> PROVE Fires(u, u) /\ LastOrGone(cluster, storage, u, u, term)
    <3>1. Last(u) = Term(storage, u, End(u)) /\ End(u) >= u.offset
      BY <1>0, <1>1, <2>2, LastOf DEF u
    <3>2. u.offset \in Nat /\ Len(u.ents) \in Nat /\ End(u) = u.offset + Len(u.ents) - 1 /\ End(u) \in Nat
      BY <1>1, UnstableType
    <3>3. End(u) < u.offset + Len(u.ents) /\ End(u) - u.offset + 1 = Len(u.ents) /\ End(u) <= End(u)
      BY <3>2
    <3> QED BY <2>2, <3>1, <3>3 DEF Fires, Holds, Last, LastOrGone
  <2> QED BY <1>3, <1>4, <2>1, <2>2 DEF MeanwhileInv, u
<1>11. ~Wrote' /\ ~panicked' /\ (cluster \in Groups)'
  BY <1>0, <1>3 DEF Wrote, Inv
<1> QED BY <1>5, <1>6, <1>7, <1>8, <1>9, <1>10, <1>11 DEF Inv

\* Storage may change beneath the log as long as this stays, but for its beginning.
LEMMA GoneKeeps ==
    ASSUME NEW c \in Groups, NEW ms \in Storages, NEW ms2 \in Storages, NEW u \in Unstable, NEW ru \in Unstable,
           NEW x, LastOrGone(c, ms, u, ru, x), NEW b \in Nat, NEW b2 \in Nat, Base(ms, u) = b, Base(ms2, u) = b2,
           b <= b2, b2 <= End(u), \A i \in b2..End(u) : Term(ms2, u, i) = Term(ms, u, i),
           \A t \in 1..MaxTerm : Follows(c, ms, u, t, End(u)) => Follows(c, ms2, u, t, End(u))
    PROVE  LastOrGone(c, ms2, u, ru, x)
<1>1. End(u) \in Nat /\ End(ru) \in Nat
  BY UnstableType
<1>2. End(u) \in b2..End(u)
  BY <1>1
<1>3. CASE End(ru) <= b2
  BY <1>3 DEF LastOrGone
<1>4. CASE ~(End(ru) <= b2)
  <2>1. ~(End(ru) <= b)
    BY <1>1, <1>4
  <2>2. CASE End(ru) <= End(u) /\ Term(ms, u, End(ru)) = Last(ru)
    <3>1. End(ru) \in b2..End(u)
      BY <1>1, <1>4, <2>2
    <3> QED BY <2>2, <3>1 DEF LastOrGone
  <2>3. CASE /\ x \in 1..MaxTerm /\ 1 <= End(u) /\ Follows(c, ms, u, x, End(u))
             /\ Incompatible(c, End(ru), Last(ru), End(u), Term(ms, u, End(u)))
    BY <1>2, <2>3 DEF LastOrGone
  <2> QED BY <2>1, <2>2, <2>3 DEF LastOrGone
<1> QED BY <1>3, <1>4

\* What a Ready asks to write fits storage.
LEMMA ReadyWritable ==
    ASSUME Inv, stage = "ready"
    PROVE  Writable(cluster, storage, rd.unstable, rd.hardState.commit)
<1>0. TypeOK /\ RdInv /\ AppliedInv /\ ~Wrote
  BY DEF Inv, Wrote
<1>1. storage.index \in Nat /\ applied \in Nat /\ rd.unstable \in Unstable
  BY <1>0, Types
<1>2. End(rd.unstable) \in Nat /\ rd.unstable.snapshot.index \in Nat
  BY <1>1, UnstableType
<1>3. storage.index <= applied
  BY <1>0 DEF AppliedInv
<1>4. ASSUME rd.unstable.snapshot # NoSnapshot PROVE storage.index < rd.unstable.snapshot.index
  <2>1. applied < rd.unstable.snapshot.index
    BY <1>0, <1>4 DEF RdInv
  <2> QED BY <1>1, <1>2, <1>3, <2>1
<1>5. ASSUME rd.unstable.ents # <<>> PROVE storage.index < End(rd.unstable)
  <2>1. applied < End(rd.unstable)
    BY <1>0, <1>5 DEF RdInv
  <2> QED BY <1>1, <1>2, <1>3, <2>1
<1> QED BY <1>0, <1>4, <1>5 DEF Writable, RdInv

\* The unstable entries have replaced those of the Ready, whatever has happened meanwhile.
LEMMA MeanwhileReplaces ==
    ASSUME MeanwhileInv
    PROVE  Replaces(unstable, rd.unstable)
BY DEF MeanwhileInv, SameBasis, NewBasis, Replaces

\* The log is the same over ms2.
SameLog(ms, ms2, u) ==
    Base(ms2, u) = Base(ms, u) /\ \A i \in Base(ms, u)..End(u) : Term(ms2, u, i) = Term(ms, u, i)

\* What the write does: storage has the log of the Ready, and the others do not notice.
PersistEffect ==
    /\ UNCHANGED <<unstable, rd, committed>> /\ HasLog(storage', storage, rd.unstable)
    /\ SameLog(storage, storage', unstable) /\ SameLog(storage, storage', rd.unstable)

\* The write of the Ready (rawnode.go:152-170).
LEMMA PersistStep ==
    ASSUME Inv, Persist
    PROVE  Inv' /\ PersistEffect
<1> DEFINE ru == rd.unstable
           hs == rd.hardState
           ms1 == SnapshotWritten(storage, ru)
<1>0. /\ TypeOK /\ cluster \in Groups /\ LogInv(cluster, storage, unstable, committed)
      /\ storage.ents # <<>> /\ stage = "ready" /\ SyncedInv /\ AppliedInv /\ AppInv /\ RdInv /\ MeanwhileInv
      /\ StorageOK(cluster, storage) /\ ~panicked
  BY DEF Inv, SyncedInv, StorageOK, Persist
<1>1. /\ unstable \in Unstable /\ storage \in Storages /\ synced \in Storages /\ committed \in Nat /\ applied \in Nat
      /\ ru \in Unstable /\ hs \in HardStates /\ hs.commit \in Nat /\ hs.term \in Nat /\ term \in Nat
      /\ storage.hardState.commit \in Nat /\ storage.hardState.term \in Nat /\ synced.hardState.commit \in Nat
  BY <1>0, Types
<1>2. Writable(cluster, storage, ru, hs.commit)
  BY <1>0, ReadyWritable
<1>3. /\ storage' = [StorageAppend(ms1, ru.offset, ru.ents) EXCEPT !.hardState = hs]
      /\ panicked' = AppendGap(ms1, ru.offset, ru.ents)
      /\ synced' = IF MustSync \/ ru.snapshot # NoSnapshot THEN storage' ELSE synced
      /\ stage' = "persisted"
      /\ UNCHANGED <<cluster, term, unstable, committed, applied, rd, app, crashes>>
  BY Zenon DEF Persist, Written, SnapshotWritten
<1>4. /\ storage' \in Storages /\ ~AppendGap(ms1, ru.offset, ru.ents) /\ storage'.hardState = hs
      /\ storage'.ents # <<>> /\ storage'.index = Base(storage, ru) /\ StorageLast(storage') = End(ru)
      /\ \A i \in Base(storage, ru)..End(ru) : storage'.ents[i - storage'.index + 1] = Term(storage, ru, i)
      /\ StorageOK(cluster, storage')
  <2> DEFINE ms2 == storage'
  <2>1. ms2 = RestWritten(ms1, ru, hs)
    BY <1>3, Zenon DEF RestWritten
  <2>2. ms1 = SnapshotWritten(storage, ru)
    OBVIOUS
  <2> HIDE DEF ru, hs, ms1, ms2
  <2>3. cluster \in Groups /\ storage \in Storages /\ StorageOK(cluster, storage) /\ ru \in Unstable /\ hs \in HardStates
    BY <1>0, <1>1
  <2>4. /\ ms2 \in Storages /\ ~AppendGap(ms1, ru.offset, ru.ents) /\ ms2.hardState = hs
        /\ ms2.ents # <<>> /\ ms2.index = Base(storage, ru) /\ StorageLast(ms2) = End(ru)
        /\ \A i \in Base(storage, ru)..End(ru) : ms2.ents[i - ms2.index + 1] = Term(storage, ru, i)
        /\ StorageOK(cluster, ms2)
    BY <1>2, <2>1, <2>2, <2>3, WriteView
  <2> QED BY <2>4 DEF ms2
<1>5. panicked' = FALSE
  <2>1. AppendGap(ms1, ru.offset, ru.ents) = FALSE
    BY <1>4 DEF AppendGap
  <2> QED BY <1>3, <2>1, Zenon
<1>6. HasLog(storage', storage, ru)
  BY <1>4, Zenon DEF HasLog
<1>7. LogInv(cluster, storage, ru, hs.commit)
  BY <1>2 DEF Writable
<1> HIDE DEF ru, hs, ms1
<1>8. /\ LogInv(cluster, storage', unstable, committed) /\ Base(storage', unstable) = Base(storage, unstable)
      /\ \A i \in Base(storage, unstable)..End(unstable) : Term(storage', unstable, i) = Term(storage, unstable, i)
      /\ \A t \in 1..MaxTerm : Follows(cluster, storage, unstable, t, End(unstable)) => Follows(cluster, storage', unstable, t, End(unstable))
  <2>1. Replaces(unstable, ru)
    BY <1>0, MeanwhileReplaces DEF ru
  <2> QED BY <1>0, <1>1, <1>4, <1>6, <1>7, <2>1, WriteKeeps
<1>9. /\ LogInv(cluster, storage', ru, hs.commit) /\ Base(storage', ru) = Base(storage, ru)
      /\ \A i \in Base(storage, ru)..End(ru) : Term(storage', ru, i) = Term(storage, ru, i)
  <2>1. Replaces(ru, ru)
    <3>1. ru.offset \in Nat
      BY <1>1, UnstableType
    <3> QED BY <3>1 DEF Replaces
  <2> QED BY <1>0, <1>1, <1>4, <1>6, <1>7, <2>1, WriteKeeps
<1>10. HasLog(storage', storage', ru)
  BY <1>4, <1>9 DEF HasLog
<1>11. \/ synced' = storage'
       \/ /\ ru.snapshot = NoSnapshot /\ hs.term = storage.hardState.term /\ synced' = synced
          /\ storage'.index = storage.index /\ storage'.ents = storage.ents /\ storage'.snapshot = storage.snapshot
  <2>1. CASE MustSync \/ ru.snapshot # NoSnapshot
    BY <1>3, <2>1
  <2>2. CASE ~(MustSync \/ ru.snapshot # NoSnapshot)
    <3>1. ru.ents = <<>> /\ hs.term = storage.hardState.term /\ ru.snapshot = NoSnapshot /\ synced' = synced
      BY <1>3, <2>2 DEF MustSync, ru, hs
    <3>2. ms1 = storage
      BY <3>1 DEF ms1, SnapshotWritten
    <3>3. StorageAppend(storage, ru.offset, ru.ents) = storage
      <4>1. storage.index \in Nat /\ ru.offset \in Nat
        BY <1>0, <1>1, UnstableType, StorageType
      <4>2. Len(ru.ents) = 0
        BY <3>1
      <4>3. Len(ru.ents) <= Max(storage.index + 1 - ru.offset, 0)
        BY <4>1, <4>2 DEF Max
      <4> QED BY <4>3 DEF StorageAppend
    <3>4. storage' = [storage EXCEPT !.hardState = hs]
      BY <1>3, <3>2, <3>3
    <3> QED BY <1>1, <3>1, <3>4 DEF Storages
  <2> QED BY <2>1, <2>2
<1>12. TypeOK'
  <2>1. synced' \in Storages
    BY <1>1, <1>4, <1>11
  <2> QED BY <1>0, <1>3, <1>4, <1>5, <2>1 DEF TypeOK, Storages
<1>13. hs.commit <= committed /\ hs.term <= term /\ storage.hardState.commit <= hs.commit /\ applied <= hs.commit
       /\ synced.hardState.commit <= hs.commit
  <2>1. /\ hs.commit <= committed /\ hs.term <= term /\ storage.hardState.commit <= hs.commit
        /\ applied <= storage.hardState.commit /\ synced.hardState.commit <= storage.hardState.commit
    BY <1>0 DEF RdInv, AppliedInv, SyncedInv, hs
  <2> QED BY <1>1, <2>1
<1>14. SyncedInv'
  <2>1. storage'.hardState.commit <= committed /\ storage'.hardState.term <= term
    BY <1>4, <1>13
  <2>2. CASE synced' = storage'
    <3>1. storage'.hardState.commit <= storage'.hardState.commit
      BY <1>1, <1>4
    <3> QED BY <1>3, <1>4, <2>1, <2>2, <3>1 DEF SyncedInv
  <2>3. CASE /\ ru.snapshot = NoSnapshot /\ hs.term = storage.hardState.term /\ synced' = synced
             /\ storage'.index = storage.index /\ storage'.ents = storage.ents /\ storage'.snapshot = storage.snapshot
    <3>1. /\ StorageOK(cluster, synced) /\ synced.index = storage.index /\ synced.ents = storage.ents
          /\ synced.snapshot = storage.snapshot /\ synced.hardState.term = storage.hardState.term
      BY <1>0 DEF SyncedInv
    <3> QED BY <1>3, <1>4, <1>13, <2>1, <2>3, <3>1 DEF SyncedInv
  <2> QED BY <1>11, <2>2, <2>3
<1>15. AppliedInv'
  <2>1. ASSUME ru.snapshot = NoSnapshot PROVE storage'.index <= applied
    <3>1. storage'.index = storage.index
      BY <1>4, <2>1 DEF Base
    <3>2. storage.index <= applied
      BY <1>0 DEF AppliedInv, Wrote
    <3> QED BY <3>1, <3>2
  <2>2. /\ unstable.snapshot # NoSnapshot => applied < unstable.snapshot.index
        /\ unstable.ents # <<>> => applied < End(unstable) /\ Last(unstable) <= term
    BY <1>0 DEF AppliedInv
  <2>3. applied <= storage'.hardState.commit
    BY <1>4, <1>13
  <2> QED BY <1>3, <2>1, <2>2, <2>3 DEF AppliedInv, Wrote, ru
<1>16. AppInv'
  BY <1>0, <1>3 DEF AppInv
<1>17. RdInv'
  <2>1. hs.commit <= hs.commit /\ hs.term <= hs.term
    BY <1>1
  <2> QED BY <1>0, <1>3, <1>4, <1>9, <2>1 DEF RdInv, ru, hs
<1>18. MeanwhileInv'
  <2>1. ASSUME LastOrGone(cluster, storage, unstable, ru, term) PROVE LastOrGone(cluster, storage', unstable, ru, term)
    <3> DEFINE b == Base(storage, unstable)
    <3>1. b \in Nat /\ b <= End(unstable) /\ b <= b
      BY <1>0, <1>1, ViewOf DEF LogInv
    <3> HIDE DEF b
    <3>2. Base(storage, unstable) = b /\ Base(storage', unstable) = b
      BY <1>8 DEF b
    <3>3. \A i \in b..End(unstable) : Term(storage', unstable, i) = Term(storage, unstable, i)
      BY <1>8, <3>2
    <3> QED BY <1>0, <1>1, <1>4, <1>8, <2>1, <3>1, <3>2, <3>3, GoneKeeps
  <2> QED BY <1>0, <1>3, <2>1 DEF MeanwhileInv, ru
<1>19. WroteInv'
  <2>1. ru.snapshot # NoSnapshot => storage'.index = ru.snapshot.index
    BY <1>4 DEF Base
  <2> QED BY <1>3, <1>4, <1>10, <2>1 DEF WroteInv, ru, hs
<1>20. LogInv(cluster, storage, unstable, committed)' /\ ~panicked' /\ (cluster \in Groups)'
  BY <1>0, <1>3, <1>5, <1>8
<1>21. Inv'
  BY <1>12, <1>14, <1>15, <1>16, <1>17, <1>18, <1>19, <1>20 DEF Inv
<1>22. PersistEffect
  BY <1>3, <1>6, <1>8, <1>9 DEF PersistEffect, SameLog, ru
<1> QED BY <1>21, <1>22

\* e are committed entries of leader t, from p on and behind d.
CommittedFrom(c, t, d, p, e) ==
    /\ p = Len(d) + 1 /\ Len(d) + Len(e) <= c[t].commit
    /\ \A k \in 1..Len(e) : e[k] = c[t].log[p + k - 1]

\* Committed entries that follow committed ones.
LEMMA CommittedCat ==
    ASSUME NEW c \in Groups, NEW d \in Seq(1..MaxTerm), NEW e \in Seq(1..MaxTerm), CommittedSeq(c, d),
           NEW t \in 1..MaxTerm, NEW p, CommittedFrom(c, t, d, p, e)
    PROVE  CommittedSeq(c, d \o e)
<1> DEFINE a == d \o e
           n == Len(d)
           m == Len(e)
<1>1. /\ a \in Seq(1..MaxTerm) /\ Len(a) = n + m
      /\ \A k \in 1..(n + m) : a[k] = IF k <= n THEN d[k] ELSE e[k - n]
  <2> DEFINE S == 1..MaxTerm
  <2>1. d \in Seq(S) /\ e \in Seq(S)
    OBVIOUS
  <2> HIDE DEF S
  <2> QED BY <2>1, CatSeq DEF S
<1>2. n \in Nat /\ m \in Nat /\ c[t].commit \in Nat
  BY LeaderLog
<1>3. PICK t1 \in 1..MaxTerm : n <= c[t1].commit /\ \A k \in 1..n : d[k] = c[t1].log[k]
  BY DEF CommittedSeq
<1> HIDE DEF a, n, m
<1>4. ASSUME NEW k \in 1..(n + m) PROVE a[k] = c[t].log[k]
  <2>1. k \in Nat /\ k >= 1
    BY <1>2
  <2>2. CASE k <= n
    <3>1. k \in 1..n /\ k <= c[t1].commit /\ k <= c[t].commit
      <4>1. c[t1].commit \in Nat
        BY LeaderLog
      <4>2. n + m <= c[t].commit
        BY DEF n, m, CommittedFrom
      <4> QED BY <1>2, <1>3, <2>1, <2>2, <4>1, <4>2
    <3>2. Entry(c, t1, k) = Entry(c, t, k)
      BY <2>1, <3>1, CommitsMatch
    <3>3. c[t1].log[k] = c[t].log[k]
      BY <2>1, <3>2 DEF Entry
    <3> QED BY <1>1, <1>3, <2>2, <3>1, <3>3
  <2>3. CASE ~(k <= n)
    <3> DEFINE j == k - n
    <3>1. j \in 1..m /\ j \in Nat /\ k = n + j
      BY <1>2, <2>1, <2>3
    <3>2. a[k] = e[j]
      BY <1>1, <2>3
    <3> HIDE DEF j
    <3>3. p = n + 1
      BY DEF n, CommittedFrom
    <3>4. p + j - 1 = k
      <4>1. \A q, z \in Nat : (q + 1) + z - 1 = q + z
        OBVIOUS
      <4> QED BY <1>2, <3>1, <3>3, <4>1
    <3>5. e[j] = c[t].log[p + j - 1]
      BY <3>1 DEF m, CommittedFrom
    <3> QED BY <3>2, <3>4, <3>5
  <2> QED BY <2>2, <2>3
<1>5. Len(a) <= c[t].commit
  BY <1>1 DEF n, m, CommittedFrom
<1>6. \A k \in 1..Len(a) : a[k] = c[t].log[k]
  BY <1>1, <1>4
<1> QED BY <1>5, <1>6 DEF CommittedSeq, a

\* The application applies its Ready (node.go:115-123).
LEMMA ApplyStep ==
    ASSUME Inv, Apply
    PROVE  Inv'
<1> DEFINE ru == rd.unstable
           d == IF ru.snapshot # NoSnapshot THEN ru.snapshot.data ELSE app
           e == rd.ents
<1>0. /\ TypeOK /\ cluster \in Groups /\ stage = "persisted" /\ AppInv /\ RdInv /\ MeanwhileInv /\ WroteInv /\ ~panicked
      /\ SyncedInv /\ AppliedInv /\ SnapOK(cluster, ru.snapshot)
  BY DEF Inv, Apply, Wrote, RdInv, LogInv
<1>1. /\ applied \in Nat /\ ru \in Unstable /\ rd.hardState.commit \in Nat
      /\ app \in Seq(1..MaxTerm) /\ e \in Seq(1..MaxTerm) /\ Len(e) \in Nat /\ rd.first \in Nat
      /\ (e # <<>> => Len(e) >= 1)
  BY <1>0, Types
<1>2. app' = d \o e /\ stage' = "applied" /\ rd' = rd /\ panicked' = panicked
      /\ UNCHANGED <<cluster, term, unstable, committed, applied, storage, synced, crashes>>
  BY DEF Apply
<1>3. /\ d \in Seq(1..MaxTerm) /\ CommittedSeq(cluster, d) /\ Len(d) \in Nat
      /\ ru.snapshot # NoSnapshot => Len(d) = ru.snapshot.index /\ Len(d) >= 1
      /\ ru.snapshot = NoSnapshot => Len(d) = applied /\ ru.snapshot.index = 0
  <2>1. CASE ru.snapshot # NoSnapshot
    <3>1. d = ru.snapshot.data /\ d \in Seq(1..MaxTerm)
      BY <1>1, <2>1, UnstableType
    <3>2. d # <<>> /\ ru.snapshot.index = Len(d) /\ CommittedSeq(cluster, d)
      BY <1>0, <2>1, <3>1 DEF SnapOK
    <3> QED BY <2>1, <3>1, <3>2, EmptySeq
  <2>2. CASE ru.snapshot = NoSnapshot
    <3>1. d = app /\ Len(app) = applied /\ CommittedSeq(cluster, app)
      BY <1>0, <2>2 DEF AppInv
    <3> QED BY <1>1, <2>2, <3>1, NoSnapshotType
  <2> QED BY <2>1, <2>2
<1>4. rd.first = Len(d) + 1
  BY <1>0, <1>3 DEF RdInv
<1> HIDE DEF d
<1>5. /\ d \o e \in Seq(1..MaxTerm) /\ Len(d \o e) = Len(d) + Len(e)
  <2> DEFINE S == 1..MaxTerm
  <2>1. d \in Seq(S) /\ e \in Seq(S)
    BY <1>1, <1>3
  <2> HIDE DEF S
  <2> QED BY <2>1, CatSeq DEF S
<1>6. CommittedSeq(cluster, d \o e)
  <2>1. CASE e = <<>>
    <3>1. d \o e = d
      BY <1>3, <2>1, ConcatEmptySeq
    <3> QED BY <1>3, <3>1
  <2>2. CASE e # <<>>
    <3>1. PICK t \in 1..MaxTerm : /\ rd.hardState.commit <= cluster[t].commit
                                  /\ \A k \in 1..Len(e) : e[k] = cluster[t].log[rd.first + k - 1]
      BY <1>0 DEF RdInv
    <3>2. rd.first + Len(e) - 1 <= rd.hardState.commit /\ cluster[t].commit \in Nat
      BY <1>0, <2>2, LeaderLog DEF RdInv
    <3>3. Len(d) + Len(e) <= cluster[t].commit
      <4> DEFINE n == Len(d)
                 m == Len(e)
                 f == rd.first
                 k == rd.hardState.commit
                 z == cluster[t].commit
      <4>1. n \in Nat /\ m \in Nat /\ k \in Nat /\ z \in Nat /\ f = n + 1 /\ f + m - 1 <= k /\ k <= z
        BY <1>1, <1>3, <1>4, <3>1, <3>2
      <4> HIDE DEF n, m, f, k, z
      <4>2. n + m <= z
        BY <4>1
      <4> QED BY <4>2 DEF n, m, z
    <3> DEFINE p == rd.first
    <3>4. p = Len(d) + 1 /\ \A k \in 1..Len(e) : e[k] = cluster[t].log[p + k - 1]
      BY <1>4, <3>1
    <3>5. cluster \in Groups /\ d \in Seq(1..MaxTerm) /\ e \in Seq(1..MaxTerm) /\ CommittedSeq(cluster, d)
      BY <1>0, <1>1, <1>3
    <3> HIDE DEF p, e
    <3>6. CommittedFrom(cluster, t, d, p, e)
      BY <3>3, <3>4 DEF CommittedFrom
    <3> QED BY <3>5, <3>6, CommittedCat
  <2> QED BY <2>1, <2>2
<1>7. AppInv'
  <2>1. AppliedCursor' = IF e # <<>> THEN rd.first + Len(e) - 1 ELSE ru.snapshot.index
    BY <1>2 DEF AppliedCursor
  <2>2. Len(app') = Len(d) + Len(e)
    BY <1>2, <1>5
  <2>3. Len(app') = IF AppliedCursor' = 0 THEN applied ELSE AppliedCursor'
    <3>1. CASE e # <<>>
      <4>1. AppliedCursor' = rd.first + Len(e) - 1 /\ Len(e) >= 1
        BY <1>1, <2>1, <3>1
      <4>2. AppliedCursor' = Len(d) + Len(e) /\ AppliedCursor' # 0
        <5> DEFINE n == Len(d)
                   m == Len(e)
                   x == AppliedCursor'
        <5>1. n \in Nat /\ m \in Nat /\ m >= 1 /\ rd.first = n + 1 /\ x = rd.first + m - 1
          BY <1>1, <1>3, <1>4, <4>1
        <5> HIDE DEF n, m, x
        <5>2. x = n + m /\ x # 0
          BY <5>1
        <5> QED BY <5>2 DEF n, m, x
      <4> QED BY <2>2, <4>2
    <3>2. CASE e = <<>>
      <4>1. AppliedCursor' = ru.snapshot.index /\ Len(e) = 0
        BY <2>1, <3>2
      <4>2. ru.snapshot.index \in Nat
        BY <1>1, UnstableType
      <4> QED BY <1>1, <1>3, <2>2, <4>1, <4>2
    <3> QED BY <3>1, <3>2
  <2>4. CommittedSeq(cluster, app)'
    BY <1>2, <1>6
  <2> QED BY <1>2, <2>3, <2>4 DEF AppInv
<1>8. TypeOK'
  BY <1>0, <1>2, <1>5 DEF TypeOK
<1>9. SyncedInv' /\ LogInv(cluster, storage, unstable, committed)' /\ RdInv' /\ MeanwhileInv' /\ WroteInv'
  BY <1>0, <1>2 DEF SyncedInv, RdInv, MeanwhileInv, WroteInv, Inv
<1>10. AppliedInv'
  BY <1>0, <1>2 DEF AppliedInv, Wrote
<1>11. panicked' = FALSE
  BY <1>0, <1>2
<1> QED BY <1>0, <1>2, <1>7, <1>8, <1>9, <1>10, <1>11 DEF Inv

\* The state of a new server has the right types.
LEMMA NoReadyType ==
    /\ NoReady \in [unstable : Unstable, hardState : HardStates, first : Nat, ents : Seq(1..MaxTerm)]
    /\ EmptyStorage \in Storages /\ RestoreUnstable(NoSnapshot) \in Unstable
<1>1. /\ 0 \in Terms /\ 1 \in Nat \ {0} /\ NoSnapshot \in Snapshots /\ NoSnapshot.index + 1 = 1
  BY TermsNat, NoSnapshotType DEF Terms
<1>2. <<>> \in Seq(1..MaxTerm) /\ <<0>> \in Seq(Terms)
  BY <1>1
<1>3. RestoreUnstable(NoSnapshot) \in Unstable
  BY <1>1, <1>2 DEF RestoreUnstable, Unstable
<1>4. EmptyStorage \in Storages /\ EmptyStorage.hardState \in HardStates
  BY <1>1, <1>2 DEF EmptyStorage, Storages, HardStates
<1> QED BY <1>2, <1>3, <1>4 DEF NoReady

\* appliedCursor lies between what was applied before and what the Ready knew to be committed
\* (node.go:99-107).
LEMMA CursorBounds ==
    ASSUME Inv, stage # "idle", NEW x, x = AppliedCursor
    PROVE  /\ x \in Nat
           /\ x # 0 => applied < x /\ x <= rd.hardState.commit
           /\ rd.unstable.snapshot # NoSnapshot => x # 0 /\ rd.unstable.snapshot.index <= x
<1> DEFINE ru == rd.unstable
           si == ru.snapshot.index
           n == Len(rd.ents)
           f == rd.first
           k == rd.hardState.commit
<1>0. TypeOK /\ RdInv
  BY DEF Inv
<1>1. si \in Nat /\ n \in Nat /\ f \in Nat /\ k \in Nat /\ applied \in Nat /\ (rd.ents # <<>> => n >= 1)
  BY <1>0, Types
<1>2. /\ ru.snapshot # NoSnapshot => applied < si /\ si <= k /\ f = si + 1
      /\ ru.snapshot = NoSnapshot => si = 0 /\ f = applied + 1
      /\ rd.ents # <<>> => f + n - 1 <= k
  BY <1>0, NoSnapshotType DEF RdInv, LogInv, CommitOK, Base
<1>3. x = IF rd.ents # <<>> THEN f + n - 1 ELSE si
  BY DEF AppliedCursor
<1> HIDE DEF si, n, f, k
<1>4. /\ x \in Nat /\ (x # 0 => applied < x /\ x <= k) /\ (ru.snapshot # NoSnapshot => x # 0 /\ si <= x)
  <2>1. CASE rd.ents # <<>>
    <3>1. x = f + n - 1 /\ n >= 1 /\ f + n - 1 <= k
      BY <1>1, <1>2, <1>3, <2>1
    <3>2. CASE ru.snapshot # NoSnapshot
      BY <1>1, <1>2, <3>1, <3>2
    <3>3. CASE ru.snapshot = NoSnapshot
      BY <1>1, <1>2, <3>1, <3>3
    <3> QED BY <3>2, <3>3
  <2>2. CASE rd.ents = <<>>
    <3>1. x = si
      BY <1>3, <2>2
    <3> QED BY <1>1, <1>2, <3>1
  <2> QED BY <2>1, <2>2
<1> QED BY <1>4 DEF si, k

\* Advance (rawnode.go:174-189, raft.go:528-556): it moves the cursors and changes nothing of
\* the log.
LEMMA AdvanceStep ==
    ASSUME Inv, Advance
    PROVE  Inv' /\ Kept(cluster, storage, unstable, unstable', committed)
<1> DEFINE ru == rd.unstable
           k == rd.hardState.commit
           u == unstable
           u2 == unstable'
           x == AppliedCursor
           a2 == applied'
<1>0. /\ TypeOK /\ cluster \in Groups /\ LogInv(cluster, storage, u, committed)
      /\ storage.ents # <<>> /\ stage = "applied" /\ SyncedInv /\ AppliedInv /\ AppInv /\ RdInv /\ MeanwhileInv
      /\ WroteInv /\ LogInv(cluster, storage, ru, k) /\ ~panicked /\ Wrote
  BY DEF Inv, SyncedInv, StorageOK, Advance, Wrote, RdInv
<1>1. /\ u \in Unstable /\ storage \in Storages /\ committed \in Nat /\ applied \in Nat
      /\ ru \in Unstable /\ k \in Nat /\ storage.index \in Nat /\ ru.snapshot.index \in Nat
      /\ storage.hardState.commit \in Nat
  BY <1>0, Types
<1>2. /\ applied' = (IF x = 0 THEN applied ELSE x)
      /\ panicked' = (x # 0 /\ (committed < x \/ x < applied))
      /\ rd' = NoReady /\ stage' = "idle"
      /\ UNCHANGED <<cluster, term, committed, storage, synced, app, crashes>>
  BY Zenon DEF Advance
<1>3. u2 = Advanced(u, ru)
  BY Zenon DEF Advance, Advanced, End, Last
<1>4. /\ x \in Nat
      /\ x # 0 => applied < x /\ x <= k
      /\ ru.snapshot # NoSnapshot => x # 0 /\ ru.snapshot.index <= x
  <2>1. stage # "idle" /\ x = AppliedCursor
    BY <1>0
  <2> HIDE DEF x
  <2> QED BY <2>1, CursorBounds
<1>5. k <= committed /\ storage.hardState.commit = k /\ applied <= k /\ k <= End(ru)
  BY <1>0 DEF RdInv, WroteInv, AppliedInv, LogInv, CommitOK
<1>6. /\ Kept(cluster, storage, u, u2, committed)
      /\ u2.snapshot # NoSnapshot => u2 = u /\ NewBasis(cluster, u, ru, k)
      /\ u2.ents # <<>> => u.ents # <<>> /\ Last(u2) = Last(u) /\ (Fires(u, ru) => End(ru) < End(u))
  <2>1. /\ HasLog(storage, storage, ru) /\ (SameBasis(u, ru) \/ NewBasis(cluster, u, ru, k))
    BY <1>0 DEF WroteInv, MeanwhileInv
  <2> HIDE DEF u, u2, ru, k
  <2> QED BY <1>0, <1>1, <1>3, <2>1, AdvanceView
<1>7. u2 \in Unstable /\ LogInv(cluster, storage, u2, committed) /\ End(u2) = End(u)
  BY <1>6 DEF Kept
<1> HIDE DEF u, u2, ru, k, x
<1>8. applied' \in Nat /\ applied <= applied' /\ applied' <= k /\ (ru.snapshot # NoSnapshot => ru.snapshot.index <= applied')
  BY <1>1, <1>2, <1>4, <1>5
<1>9. panicked' = FALSE
  <2>1. (x # 0 /\ (committed < x \/ x < applied)) = FALSE
    BY <1>1, <1>4, <1>5
  <2> QED BY <1>2, <2>1, Zenon
<1>10. TypeOK'
  BY <1>0, <1>2, <1>7, <1>8, <1>9, NoReadyType DEF TypeOK, u2
<1>11. AppInv'
  <2>1. CommittedSeq(cluster, app) /\ Len(app) = IF x = 0 THEN applied ELSE x
    BY <1>0 DEF AppInv, x
  <2> QED BY <1>2, <2>1 DEF AppInv
<1> HIDE DEF a2
<1>12. AppliedInv'
  <2>0. a2 \in Nat /\ applied <= a2 /\ a2 <= k /\ (ru.snapshot # NoSnapshot => ru.snapshot.index <= a2)
    BY <1>8 DEF a2
  <2>1. a2 <= storage.hardState.commit
    BY <1>5, <2>0
  <2>2. storage.index <= a2
    <3>1. CASE ru.snapshot # NoSnapshot
      <4>1. storage.index = ru.snapshot.index
        BY <1>0, <3>1 DEF WroteInv, ru
      <4> QED BY <2>0, <3>1, <4>1
    <3>2. CASE ru.snapshot = NoSnapshot
      <4>1. storage.index <= applied
        BY <1>0, <3>2 DEF AppliedInv, ru
      <4> QED BY <1>1, <2>0, <4>1
    <3> QED BY <3>1, <3>2
  <2>3. ASSUME u2.snapshot # NoSnapshot PROVE a2 < u2.snapshot.index
    <3>1. u2.snapshot.index > k
      BY <1>6, <2>3 DEF NewBasis
    <3>2. u2.snapshot.index \in Nat
      BY <1>7, UnstableType
    <3> QED BY <1>1, <2>0, <3>1, <3>2
  <2>4. ASSUME u2.ents # <<>> PROVE a2 < End(u2) /\ Last(u2) <= term
    <3>1. u.ents # <<>> /\ Last(u2) = Last(u) /\ (Fires(u, ru) => End(ru) < End(u))
      BY <1>6, <2>4
    <3>2. Last(u) <= term
      BY <1>0, <3>1 DEF AppliedInv, u
    <3>3. End(u) > k \/ Fires(u, ru)
      BY <1>0, <3>1 DEF MeanwhileInv, u, ru, k
    <3>4. End(u) \in Nat /\ End(ru) \in Nat
      BY <1>1, UnstableType
    <3>5. k < End(u)
      <4>1. CASE End(u) > k
        BY <1>1, <3>4, <4>1
      <4>2. CASE Fires(u, ru)
        <5>1. End(ru) < End(u)
          BY <3>1, <4>2
        <5> QED BY <1>1, <1>5, <3>4, <5>1
      <4> QED BY <3>3, <4>1, <4>2
    <3>6. a2 < End(u)
      BY <1>1, <2>0, <3>4, <3>5
    <3> QED BY <1>7, <3>1, <3>2, <3>6
  <2> QED BY <1>2, <2>1, <2>2, <2>3, <2>4 DEF AppliedInv, u2, a2
<1>13. SyncedInv'
  BY <1>0, <1>2 DEF SyncedInv
<1>14. LogInv(cluster, storage, unstable, committed)' /\ (cluster \in Groups)' /\ ~Wrote' /\ stage' = "idle" /\ ~panicked'
  BY <1>0, <1>2, <1>7, <1>9 DEF Wrote, u2
<1>15. Inv'
  BY <1>10, <1>11, <1>12, <1>13, <1>14 DEF Inv
<1> QED BY <1>6, <1>15 DEF u, u2

\* A snapshot of what is applied, and the compaction behind it (storage.go:181-232): it may come
\* at any time, also while a Ready is handled.
LEMMA CompactStep ==
    ASSUME Inv, Compact
    PROVE  /\ Inv' /\ storage.index < applied /\ applied <= committed /\ Compacted(storage, storage', applied)
           /\ UNCHANGED <<cluster, unstable, rd, committed>>
<1> DEFINE ru == rd.unstable
           hs == rd.hardState
           u == unstable
           ms2 == storage'
<1>0. /\ TypeOK /\ cluster \in Groups /\ LogInv(cluster, storage, u, committed)
      /\ storage.ents # <<>> /\ SyncedInv /\ AppliedInv /\ AppInv /\ StorageOK(cluster, storage) /\ ~panicked
      /\ (stage # "idle" => RdInv /\ MeanwhileInv) /\ (Wrote => WroteInv /\ RdInv)
  BY DEF Inv, SyncedInv, StorageOK, Wrote
<1>1. /\ u \in Unstable /\ storage \in Storages /\ committed \in Nat /\ applied \in Nat
      /\ ru \in Unstable /\ hs.commit \in Nat /\ storage.index \in Nat /\ ru.snapshot.index \in Nat
      /\ storage.hardState.commit \in Nat /\ app \in Seq(1..MaxTerm)
  BY <1>0, Types
<1>2. /\ storage.index < applied /\ Len(app) = applied
      /\ panicked' = (applied > StorageLast(storage))
      /\ storage' = IF applied > StorageLast(storage) THEN storage
                    ELSE [StorageCompact(storage, applied) EXCEPT !.snapshot = SnapshotOf(app)]
      /\ synced' = storage'
      /\ UNCHANGED <<cluster, term, unstable, committed, applied, rd, stage, app, crashes>>
  BY <1>1 DEF Compact
<1>3. applied <= storage.hardState.commit /\ storage.hardState.commit <= committed
  BY <1>0 DEF AppliedInv, SyncedInv
<1>4. ~(applied > StorageLast(storage))
  <2>1. storage.hardState.commit <= StorageLast(storage)
    BY <1>0, <1>1, AllStableType DEF StorageOK, LogInv, CommitOK
  <2>2. StorageLast(storage) \in Int
    <3>1. StorageLast(storage) = storage.index + Len(storage.ents) - 1 /\ Len(storage.ents) \in Nat
      BY <1>1, StorageType
    <3> QED BY <1>1, <3>1
  <2> QED BY <1>1, <1>3, <2>1, <2>2
<1>5. panicked' = FALSE /\ ms2 = [StorageCompact(storage, applied) EXCEPT !.snapshot = SnapshotOf(app)]
  <2>1. (applied > StorageLast(storage)) = FALSE
    BY <1>4
  <2> QED BY <1>2, <2>1, Zenon
<1>6. ms2 \in Storages /\ ms2.hardState = storage.hardState /\ Compacted(storage, ms2, applied) /\ StorageOK(cluster, ms2)
  <2>1. CommittedSeq(cluster, app)
    BY <1>0 DEF AppInv
  <2>2. ms2 = SnapshotTaken(storage, applied, app)
    BY <1>5, Zenon DEF SnapshotTaken
  <2> HIDE DEF ms2
  <2> QED BY <1>0, <1>1, <1>2, <1>3, <2>1, <2>2, CompactView
<1>7. applied <= committed
  BY <1>1, <1>3
<1> HIDE DEF u, ru, hs, ms2
<1>8. /\ LogInv(cluster, ms2, u, committed)
      /\ \A i \in Base(ms2, u)..End(u) : Term(ms2, u, i) = Term(storage, u, i)
      /\ \A t \in 1..MaxTerm : Follows(cluster, storage, u, t, End(u)) => Follows(cluster, ms2, u, t, End(u))
      /\ Base(storage, u) <= Base(ms2, u)
  BY <1>0, <1>1, <1>6, <1>7, CompactKeeps
<1>9. ASSUME stage # "idle"
      PROVE  /\ LogInv(cluster, ms2, ru, hs.commit)
             /\ \A i \in Base(ms2, ru)..End(ru) : Term(ms2, ru, i) = Term(storage, ru, i)
  <2>1. LogInv(cluster, storage, ru, hs.commit) /\ storage.hardState.commit <= hs.commit
    BY <1>0, <1>9 DEF RdInv, ru, hs
  <2>2. applied <= hs.commit
    BY <1>1, <1>3, <2>1
  <2> QED BY <1>0, <1>1, <1>6, <2>1, <2>2, CompactKeeps
<1>10. Wrote => ru.snapshot = NoSnapshot
  <2> SUFFICES ASSUME Wrote, ru.snapshot # NoSnapshot PROVE FALSE
    OBVIOUS
  <2>1. storage.index = ru.snapshot.index /\ applied < ru.snapshot.index
    BY <1>0 DEF WroteInv, RdInv, ru
  <2> QED BY <1>1, <1>2, <2>1
<1>11. TypeOK'
  BY <1>0, <1>2, <1>5, <1>6 DEF TypeOK, Storages, ms2
<1>12. SyncedInv'
  <2>1. /\ storage'.hardState.commit <= storage'.hardState.commit
        /\ storage'.hardState.commit <= committed /\ storage'.hardState.term <= term
    BY <1>0, <1>1, <1>6 DEF SyncedInv, ms2
  <2> QED BY <1>2, <1>6, <2>1 DEF SyncedInv, ms2
<1>13. AppliedInv'
  <2>1. storage'.index <= applied /\ applied <= storage'.hardState.commit
    BY <1>1, <1>3, <1>6 DEF Compacted, ms2
  <2> QED BY <1>0, <1>2, <2>1 DEF AppliedInv
<1>14. AppInv'
  BY <1>0, <1>2 DEF AppInv, AppliedCursor
<1>15. ASSUME stage # "idle" PROVE RdInv'
  <2>1. RdInv
    BY <1>0, <1>15
  <2> QED BY <1>2, <1>6, <1>9, <1>15, <2>1 DEF RdInv, ru, hs, ms2
<1>16. ASSUME stage # "idle" PROVE MeanwhileInv'
  <2>1. ASSUME LastOrGone(cluster, storage, u, ru, term) PROVE LastOrGone(cluster, ms2, u, ru, term)
    <3> DEFINE b == Base(storage, u)
               b2 == Base(ms2, u)
    <3>1. b \in Nat /\ b2 \in Nat /\ b2 <= End(u)
      BY <1>0, <1>1, <1>6, <1>8, ViewOf DEF LogInv, StorageOK
    <3>2. Base(storage, u) = b /\ Base(ms2, u) = b2 /\ b <= b2
          /\ \A i \in b2..End(u) : Term(ms2, u, i) = Term(storage, u, i)
      BY <1>8
    <3> HIDE DEF b, b2
    <3> QED BY <1>0, <1>1, <1>6, <1>8, <2>1, <3>1, <3>2, GoneKeeps
  <2>2. MeanwhileInv
    BY <1>0, <1>16
  <2> QED BY <1>2, <2>1, <2>2 DEF MeanwhileInv, u, ru, ms2
<1>17. ASSUME Wrote PROVE WroteInv'
  <2>1. ru.snapshot = NoSnapshot /\ HasLog(storage, storage, ru) /\ storage.hardState = hs
    BY <1>0, <1>10, <1>17 DEF WroteInv, ru, hs
  <2>2. Base(ms2, ru) = ms2.index /\ Base(storage, ru) = storage.index
    BY <2>1 DEF Base
  <2>3. /\ storage.index < applied /\ ms2.index = applied
        /\ StorageLast(ms2) = StorageLast(storage) /\ ms2.ents # <<>> /\ StorageLast(storage) = End(ru)
        /\ \A i \in applied..End(ru) : ms2.ents[i - applied + 1] = storage.ents[i - storage.index + 1]
    BY <1>6, <2>1 DEF Compacted, HasLog
  <2>4. End(ru) \in Nat
    BY <1>1, UnstableType
  <2>5. ASSUME NEW i \in applied..End(ru) PROVE ms2.ents[i - ms2.index + 1] = Term(ms2, ru, i)
    <3>1. i \in storage.index..End(ru)
      BY <1>1, <2>3, <2>4
    <3>2. storage.ents[i - storage.index + 1] = Term(storage, ru, i)
      BY <2>1, <2>2, <3>1 DEF HasLog
    <3>3. Term(ms2, ru, i) = Term(storage, ru, i)
      BY <1>9, <1>17, <2>2, <2>3 DEF Wrote
    <3> QED BY <2>3, <3>2, <3>3
  <2>6. HasLog(ms2, ms2, ru)
    BY <2>2, <2>3, <2>5 DEF HasLog
  <2> QED BY <1>2, <1>6, <2>1, <2>6 DEF WroteInv, ru, hs, ms2
<1>18. LogInv(cluster, storage, unstable, committed)' /\ (cluster \in Groups)' /\ ~panicked'
  BY <1>0, <1>2, <1>5, <1>8 DEF u, ms2
<1>19. Inv'
  BY <1>2, <1>11, <1>12, <1>13, <1>14, <1>15, <1>16, <1>17, <1>18 DEF Inv, Wrote
<1> QED BY <1>2, <1>6, <1>7, <1>19 DEF ms2

\* A restart from a storage that is in order, with a state machine that has applied some of what
\* is committed there (log.go:53-75, raft.go:318-375).
LEMMA RestartStep ==
    ASSUME Inv, NEW ms \in Storages, StorageOK(cluster, ms), NEW a \in Seq(1..MaxTerm), CommittedSeq(cluster, a),
           ms.index <= Len(a), Len(a) <= ms.hardState.commit, Restart(ms, a)
    PROVE  Inv'
<1> DEFINE c == ms.hardState.commit
           v == AllStable(ms)
<1>0. TypeOK /\ cluster \in Groups
  BY DEF Inv
<1>1. /\ c \in Nat /\ ms.hardState.term \in Terms /\ ms.index \in Nat /\ Len(a) \in Nat /\ ms.hardState.term \in Nat
  <2>1. c \in Nat /\ ms.hardState.term \in Terms /\ ms.index \in Nat
    BY StorageType
  <2>2. ms.hardState.term \in Nat
    BY <2>1, TermsNat
  <2> QED BY <2>1, <2>2
<1>2. ms.ents # <<>> /\ LogInv(cluster, ms, v, c) /\ ms.index <= c /\ c <= StorageLast(ms)
  BY AllStableType DEF StorageOK, LogInv, CommitOK
<1>3. v \in Unstable /\ v.snapshot = NoSnapshot /\ v.ents = <<>>
  <2>1. v \in Unstable
    BY <1>2, AllStableType
  <2> QED BY <2>1 DEF AllStable
<1>4. /\ crashes < MaxCrashes /\ crashes' = crashes + 1
      /\ panicked' = (c < ms.index \/ c > StorageLast(ms) \/ Len(a) > c \/ Len(a) < ms.index)
      /\ committed' = c /\ applied' = Len(a) /\ app' = a
      /\ term' = ms.hardState.term /\ unstable' = v
      /\ storage' = ms /\ synced' = ms
      /\ rd' = NoReady /\ stage' = "idle" /\ cluster' = cluster
  BY Zenon DEF Restart, AllStable
<1> HIDE DEF c, v
<1>5. panicked' = FALSE
  <2>1. StorageLast(ms) \in Int
    <3>1. StorageLast(ms) = ms.index + Len(ms.ents) - 1 /\ Len(ms.ents) \in Nat
      BY StorageType
    <3> QED BY <1>1, <3>1
  <2>2. (c < ms.index \/ c > StorageLast(ms) \/ Len(a) > c \/ Len(a) < ms.index) = FALSE
    <3>1. ms.index <= Len(a) /\ Len(a) <= c
      BY DEF c
    <3> QED BY <1>1, <1>2, <2>1, <3>1
  <2> QED BY <1>4, <2>2, Zenon
<1>6. crashes' \in 0..MaxCrashes
  <2>1. crashes \in 0..MaxCrashes
    BY <1>0 DEF TypeOK
  <2> QED BY <1>4, <2>1, RaftLogBounds
<1>7. TypeOK'
  BY <1>1, <1>3, <1>4, <1>5, <1>6, NoReadyType DEF TypeOK, Storages
<1>8. SyncedInv'
  <2>1. c <= c /\ ms.hardState.term <= ms.hardState.term
    BY <1>1
  <2> QED BY <1>4, <2>1 DEF SyncedInv, c
<1>9. AppliedInv'
  BY <1>3, <1>4 DEF AppliedInv, c
<1>10. AppInv'
  BY <1>4 DEF AppInv
<1>11. LogInv(cluster, storage, unstable, committed)' /\ (cluster \in Groups)' /\ ~Wrote' /\ ~panicked'
  BY <1>0, <1>2, <1>4, <1>5 DEF Wrote
<1> QED BY <1>4, <1>7, <1>8, <1>9, <1>10, <1>11 DEF Inv

\* What a crash may leave.
LEMMA CrashLeaves ==
    ASSUME Inv, Crash
    PROVE  \E ms \in {synced, storage} : \E a \in Seq(1..MaxTerm) :
              /\ ms \in Storages /\ StorageOK(cluster, ms) /\ CommittedSeq(cluster, a)
              /\ ms.index <= Len(a) /\ Len(a) <= ms.hardState.commit /\ Restart(ms, a)
<1>0. /\ TypeOK /\ cluster \in Groups /\ SyncedInv /\ AppliedInv /\ AppInv
  BY DEF Inv
<1>1. /\ storage \in Storages /\ synced \in Storages /\ app \in Seq(1..MaxTerm) /\ Len(app) \in Nat
      /\ applied \in Nat /\ storage.hardState.commit \in Nat /\ rd.hardState.commit \in Nat
  BY <1>0, Types
<1>2. ASSUME NEW ms \in {synced, storage}, Restart(ms, ms.snapshot.data)
      PROVE  /\ ms \in Storages /\ StorageOK(cluster, ms) /\ ms.snapshot.data \in Seq(1..MaxTerm)
             /\ CommittedSeq(cluster, ms.snapshot.data) /\ ms.index <= Len(ms.snapshot.data)
             /\ Len(ms.snapshot.data) <= ms.hardState.commit
  <2>1. ms \in Storages /\ StorageOK(cluster, ms)
    BY <1>0, <1>1 DEF SyncedInv
  <2>2. ms.snapshot.data \in Seq(1..MaxTerm) /\ ms.index \in Nat
    BY <2>1, StorageType
  <2>3. ms.index <= ms.hardState.commit /\ ms.index = ms.snapshot.index /\ SnapOK(cluster, ms.snapshot)
    BY <2>1, AllStableType DEF StorageOK, LogInv, CommitOK
  <2>4. Len(ms.snapshot.data) = ms.index /\ CommittedSeq(cluster, ms.snapshot.data)
    <3>1. CASE ms.snapshot # NoSnapshot
      BY <2>3, <3>1 DEF SnapOK
    <3>2. CASE ms.snapshot = NoSnapshot
      <4>1. ms.snapshot.data = <<>> /\ ms.snapshot.index = 0
        BY <3>2, NoSnapshotType
      <4>2. 1 \in 1..MaxTerm
        BY RaftLogBounds
      <4>3. Len(<<>>) <= cluster[1].commit /\ \A k \in 1..Len(<<>>) : <<>>[k] = cluster[1].log[k]
        <5>1. cluster[1].commit \in Nat
          BY <1>0, <4>2, LeaderLog
        <5> QED BY <5>1
      <4> QED BY <2>3, <4>1, <4>2, <4>3 DEF CommittedSeq
    <3> QED BY <3>1, <3>2
  <2>5. ms.index <= ms.index
    BY <2>2
  <2> QED BY <2>1, <2>2, <2>3, <2>4, <2>5
<1>3. ASSUME Len(app) >= storage.index, Restart(storage, app)
      PROVE  /\ StorageOK(cluster, storage) /\ CommittedSeq(cluster, app) /\ storage.index <= Len(app)
             /\ Len(app) <= storage.hardState.commit
  <2>1. StorageOK(cluster, storage) /\ CommittedSeq(cluster, app)
    BY <1>0 DEF SyncedInv, AppInv
  <2>2. storage.index <= Len(app)
    <3>1. storage.index \in Nat
      BY <1>1, StorageType
    <3> QED BY <1>1, <1>3, <3>1
  <2>3. Len(app) <= storage.hardState.commit
    <3> DEFINE x == AppliedCursor
    <3>1. CASE stage # "applied" \/ x = 0
      BY <1>0, <3>1 DEF AppInv, AppliedInv
    <3>2. CASE stage = "applied" /\ x # 0
      <4>1. Len(app) = x
        BY <1>0, <3>2 DEF AppInv
      <4>2. storage.hardState = rd.hardState /\ stage # "idle" /\ x = AppliedCursor
        BY <3>2 DEF Inv, Wrote, WroteInv
      <4>3. x <= rd.hardState.commit
        <5> HIDE DEF x
        <5> QED BY <3>2, <4>2, CursorBounds
      <4> QED BY <4>1, <4>2, <4>3
    <3> QED BY <3>1, <3>2
  <2> QED BY <2>1, <2>2, <2>3
<1>4. CASE \E ms \in {synced, storage} : Restart(ms, ms.snapshot.data)
  <2>1. PICK ms \in {synced, storage} : Restart(ms, ms.snapshot.data)
    BY <1>4
  <2> DEFINE a == ms.snapshot.data
  <2>2. /\ ms \in Storages /\ StorageOK(cluster, ms) /\ a \in Seq(1..MaxTerm) /\ CommittedSeq(cluster, a)
        /\ ms.index <= Len(a) /\ Len(a) <= ms.hardState.commit /\ Restart(ms, a)
    BY <1>2, <2>1
  <2> HIDE DEF a
  <2> QED BY <2>2
<1>5. CASE Len(app) >= storage.index /\ Restart(storage, app)
  BY <1>1, <1>3, <1>5
<1> QED BY <1>4, <1>5 DEF Crash

\* A crash (raft.go:1698-1705, rawnode.go:152-170).
LEMMA CrashStep ==
    ASSUME Inv, Crash
    PROVE  Inv'
<1>1. PICK ms \in {synced, storage} : \E a \in Seq(1..MaxTerm) :
              /\ ms \in Storages /\ StorageOK(cluster, ms) /\ CommittedSeq(cluster, a)
              /\ ms.index <= Len(a) /\ Len(a) <= ms.hardState.commit /\ Restart(ms, a)
  BY CrashLeaves
<1> QED BY <1>1, RestartStep

-----------------------------------------------------------------------------
(* No panic, and what is applied *)

\* Before anything has happened.
LEMMA InitInv == Init => Inv
<1> SUFFICES ASSUME Init PROVE Inv
  OBVIOUS
<1> DEFINE e == EmptyStorage
           v == AllStable(EmptyStorage)
<1>0. /\ cluster \in Groups /\ term = 0 /\ committed = 0 /\ applied = 0
      /\ unstable = RestoreUnstable(NoSnapshot) /\ storage = e /\ synced = e
      /\ rd = NoReady /\ stage = "idle" /\ app = <<>> /\ crashes = 0 /\ panicked = FALSE
  BY DEF Init
<1>1. e \in Storages /\ NoReady \in [unstable : Unstable, hardState : HardStates, first : Nat, ents : Seq(1..MaxTerm)]
      /\ unstable \in Unstable /\ 0 \in Terms /\ 0 \in 0..MaxCrashes
  BY <1>0, NoReadyType, TermsNat, RaftLogBounds DEF Terms
<1>2. /\ e.index = 0 /\ e.ents = <<0>> /\ e.ents # <<>> /\ Len(e.ents) = 1 /\ e.ents[1] = 0
      /\ e.snapshot = NoSnapshot /\ e.hardState.commit = 0 /\ e.hardState.term = 0
  BY DEF EmptyStorage
<1>3. StorageLast(e) = 0
  BY <1>2 DEF StorageLast
<1>4. unstable = v /\ v.snapshot = NoSnapshot /\ v.ents = <<>>
  BY <1>0, <1>3, NoSnapshotType DEF AllStable, RestoreUnstable
<1>5. 1 \in 1..MaxTerm /\ cluster[1].commit \in Nat /\ Len(cluster[1].log) \in Nat
  <2>1. 1 \in 1..MaxTerm
    BY RaftLogBounds
  <2> QED BY <1>0, <2>1, LeaderLog
<1> HIDE DEF e
<1>6. /\ v \in Unstable /\ Shape(e, v) /\ End(v) = 0 /\ Base(e, v) = 0 /\ Term(e, v, 0) = 0
  <2>1. /\ AllStable(e) \in Unstable /\ Shape(e, AllStable(e))
        /\ End(AllStable(e)) = StorageLast(e) /\ Base(e, AllStable(e)) = e.index
        /\ \A i \in e.index..StorageLast(e) :
              /\ Term(e, AllStable(e), i) = StorageTerm(e, i)
              /\ StorageTerm(e, i) = e.ents[i - e.index + 1]
    BY <1>1, <1>2, AllStableType
  <2>2. 0 \in 0..0 /\ 0 - 0 + 1 = 1
    OBVIOUS
  <2>3. v = AllStable(e)
    BY DEF e
  <2> HIDE DEF v
  <2> QED BY <1>2, <1>3, <2>1, <2>2, <2>3
<1> HIDE DEF v
<1>7. Follows(cluster, e, v, 1, 0)
  <2>1. \A i \in 0..0 : i = 0
    OBVIOUS
  <2>2. 0 <= Len(cluster[1].log)
    BY <1>5
  <2> QED BY <1>6, <2>1, <2>2 DEF Follows, Entry
<1>8. LogInv(cluster, e, v, 0)
  <2>1. 0 <= cluster[1].commit /\ 0 <= 0
    BY <1>5
  <2> QED BY <1>4, <1>5, <1>6, <1>7, <2>1 DEF LogInv, SnapOK, LogOK, CommitOK
<1>9. StorageOK(cluster, e)
  <2>1. v = AllStable(e)
    BY DEF e, v
  <2> QED BY <1>2, <1>8, <2>1, NoSnapshotType DEF StorageOK, SnapOK
<1>10. CommittedSeq(cluster, app)
  <2>1. Len(<<>>) <= cluster[1].commit /\ \A k \in 1..Len(<<>>) : <<>>[k] = cluster[1].log[k]
    BY <1>5
  <2> QED BY <1>0, <1>5, <2>1 DEF CommittedSeq
<1>11. TypeOK
  <2>1. <<>> \in Seq(1..MaxTerm) /\ 0 \in Nat /\ FALSE \in BOOLEAN
    OBVIOUS
  <2>2. {storage, synced} \subseteq Storages
    BY <1>0, <1>1
  <2>3. app \in Seq(1..MaxTerm) /\ crashes \in 0..MaxCrashes /\ panicked \in BOOLEAN
    BY <1>0, <1>1, <2>1, Zenon
  <2>4. stage \in {"idle", "ready", "persisted", "applied"}
    BY <1>0
  <2>5. term \in Terms /\ committed \in Nat /\ applied \in Nat
    BY <1>0, <1>1
  <2> QED BY <1>0, <1>1, <2>2, <2>3, <2>4, <2>5, Zenon DEF TypeOK, Storages
<1>12. SyncedInv
  <2>1. 0 <= 0
    OBVIOUS
  <2> QED BY <1>0, <1>2, <1>9, <2>1 DEF SyncedInv
<1>13. AppliedInv /\ AppInv /\ ~Wrote
  <2>1. 0 <= 0 /\ Len(<<>>) = 0
    OBVIOUS
  <2> QED BY <1>0, <1>2, <1>4, <1>10, <2>1 DEF AppliedInv, AppInv, Wrote
<1> QED BY <1>0, <1>4, <1>8, <1>11, <1>12, <1>13 DEF Inv

\* A message of a leader.
LEMMA MessageInv ==
    ASSUME Inv, NEW t \in 1..MaxTerm,
           \/ \E prev \in 0..Len(cluster[t].log) : \E n \in 0..Min(MaxMsgEnts, Len(cluster[t].log) - prev) :
                \E c \in {0, cluster[t].commit} :
                    StepApp(t, prev, SubSeq(cluster[t].log, prev + 1, prev + n), c)
           \/ \E c \in 1..cluster[t].commit : StepHeartbeat(t, c)
           \/ \E i \in 1..cluster[t].commit : StepSnap(t, i)
    PROVE  Inv' /\ MessageEffect
<1> DEFINE l == cluster[t].log
<1>0. cluster \in Groups
  BY DEF Inv
<1>1. ASSUME NEW prev \in 0..Len(l), NEW n \in 0..Min(MaxMsgEnts, Len(l) - prev), NEW c \in {0, cluster[t].commit},
             StepApp(t, prev, SubSeq(l, prev + 1, prev + n), c)
      PROVE  Inv' /\ MessageEffect
  <2> DEFINE p == prev + 1
             q == prev + n
             ents == SubSeq(l, prev + 1, prev + n)
             z == Len(l)
  <2>1. z \in Nat
    BY <1>0, LeaderLog
  <2>2. prev \in Nat /\ prev <= z /\ n \in Nat /\ prev + n <= z
    <3>1. prev \in 0..z /\ n \in 0..Min(MaxMsgEnts, z - prev) /\ MaxMsgEnts \in Nat
      BY RaftLogBounds
    <3> HIDE DEF z
    <3>2. prev \in Nat /\ prev <= z
      BY <2>1, <3>1
    <3>3. n \in Nat /\ n <= z - prev
      BY <2>1, <3>1, <3>2 DEF Min
    <3> QED BY <2>1, <3>2, <3>3
  <2>3. p = prev + 1 /\ q = prev + n /\ ents = SubSeq(cluster[t].log, p, q) /\ StepApp(t, prev, ents, c)
        /\ q <= Len(cluster[t].log) /\ prev <= Len(cluster[t].log)
    BY <1>1, <2>2
  <2> HIDE DEF p, q, ents, z
  <2>4. ents \in Seq(1..MaxTerm) /\ SentBy(cluster, t, p, ents)
    <3>1. Carries(cluster, t, prev, p, n, q, ents)
      BY <2>2, <2>3 DEF Carries
    <3> QED BY <1>0, <3>1, Sent
  <2> QED BY <2>2, <2>3, <2>4, AppStep
<1> QED BY <1>1, HeartbeatStep, SnapStep

\* Every step preserves the invariant.
LEMMA NextInv == Inv /\ [Next]_vars => Inv'
<1> SUFFICES ASSUME Inv, [Next]_vars PROVE Inv'
  OBVIOUS
<1>1. CASE \E t \in 1..MaxTerm :
             LET l == cluster[t].log IN
             \/ \E prev \in 0..Len(l) : \E n \in 0..Min(MaxMsgEnts, Len(l) - prev) :
                  \E c \in {0, cluster[t].commit} : StepApp(t, prev, SubSeq(l, prev + 1, prev + n), c)
             \/ \E c \in 1..cluster[t].commit : StepHeartbeat(t, c)
             \/ \E i \in 1..cluster[t].commit : StepSnap(t, i)
  BY <1>1, MessageInv
<1>2. CASE Ready
  BY <1>2, ReadyStep
<1>3. CASE Persist
  BY <1>3, PersistStep
<1>4. CASE Apply
  BY <1>4, ApplyStep
<1>5. CASE Advance
  BY <1>5, AdvanceStep
<1>6. CASE Compact
  BY <1>6, CompactStep
<1>7. CASE Crash
  BY <1>7, CrashStep
<1>8. CASE UNCHANGED vars
  BY <1>8 DEF vars, Inv, TypeOK, SyncedInv, AppliedInv, AppInv, RdInv, WroteInv, MeanwhileInv, Wrote, AppliedCursor
<1> QED BY <1>1, <1>2, <1>3, <1>4, <1>5, <1>6, <1>7, <1>8 DEF Next

\* The inductive invariant holds in every reachable state.
THEOREM LogInvariant == Spec => []Inv
BY InitInv, NextInv, PTL DEF Spec

\* No panic of log.go, storage.go or loadState is reachable, whatever the history of leaders
\* that the messages come from, the order in which they come, where the application stands with
\* its Ready, and where it crashes (log.go:180-190, 243-251, storage.go:241-273,
\* raft.go:1698-1705).
THEOREM NeverPanics == Spec => []NoPanic
<1>1. Inv => NoPanic
  BY DEF Inv, NoPanic
<1> QED BY <1>1, LogInvariant, PTL

\* The application applies every committed entry once, in order and without a gap
\* (log.go:180-190, node.go:115-123).
THEOREM AppliedIsCommitted == Spec => []AppliesCommitted
<1>1. Inv => AppliesCommitted
  <2> SUFFICES ASSUME Inv PROVE AppliesCommitted
    OBVIOUS
  <2>1. cluster \in Groups /\ TypeOK /\ AppInv
    BY DEF Inv
  <2>2. app \in Seq(1..MaxTerm) /\ Len(app) \in Nat
    BY <2>1, Types
  <2>3. PICK t \in 1..MaxTerm : /\ Len(app) <= cluster[t].commit
                                /\ \A k \in 1..Len(app) : app[k] = cluster[t].log[k]
    BY <2>1 DEF AppInv, CommittedSeq
  <2> DEFINE S == 1..MaxTerm
             l == cluster[t].log
             c == cluster[t].commit
             s == SubSeq(l, 1, c)
             n == Len(app)
             r == SubSeq(s, 1, n)
  <2>4. l \in Seq(S) /\ c \in Nat /\ c <= Len(l) /\ n \in Nat /\ n <= c /\ app \in Seq(S)
    BY <2>1, <2>2, <2>3, LeaderLog
  <2> HIDE DEF S, l, c, n
  <2>5. s \in Seq(S) /\ Len(s) = c /\ \A k \in 1..c : s[k] = l[k]
    BY <2>4, FrontOfSeq
  <2> HIDE DEF s
  <2>6. r \in Seq(S) /\ Len(r) = n /\ \A k \in 1..n : r[k] = s[k]
    BY <2>4, <2>5, FrontOfSeq
  <2> HIDE DEF r
  <2>7. \A k \in 1..n : r[k] = app[k]
    <3>1. ASSUME NEW k \in 1..n PROVE r[k] = app[k]
      <4>1. k \in 1..c
        BY <2>4
      <4>2. app[k] = l[k]
        BY <2>3 DEF n, l
      <4> QED BY <2>5, <2>6, <4>1, <4>2
    <3> QED BY <3>1
  <2>8. r = app
    <3>1. Len(r) = Len(app) /\ \A k \in 1..Len(r) : r[k] = app[k]
      BY <2>6, <2>7 DEF n
    <3> QED BY <2>4, <2>6, <3>1, SeqEqual
  <2>9. HasPrefix(s, app)
    BY <2>4, <2>5, <2>8 DEF HasPrefix, r, n
  <2>10. \E tt \in 1..MaxTerm : HasPrefix(SubSeq(cluster[tt].log, 1, cluster[tt].commit), app)
    BY <2>9 DEF s, l, c
  <2> QED BY <2>1, <2>10 DEF AppliesCommitted, AppInv
<1> QED BY <1>1, LogInvariant, PTL

-----------------------------------------------------------------------------
(* Storage and unstable entries implement one log *)

\* The log as a function.
LEMMA ViewIs ==
    ASSUME NEW ms \in Storages, NEW u \in Unstable, Shape(ms, u), ms.ents # <<>>
    PROVE  /\ Base(ms, u) \in Nat /\ End(u) \in Nat /\ Base(ms, u) <= End(u)
           /\ View(ms, u) = [i \in Base(ms, u)..End(u) |-> Term(ms, u, i)]
<1>1. /\ Base(ms, u) \in Nat /\ FirstIndex(ms, u) - 1 = Base(ms, u)
      /\ LastIndex(ms, u) = End(u) /\ Base(ms, u) <= End(u)
  BY ViewOf
<1>2. End(u) \in Nat
  BY UnstableType
<1> QED BY <1>1, <1>2 DEF View

\* Logs with the same entries are the same function.
LEMMA SameViews ==
    ASSUME NEW ms \in Storages, NEW u \in Unstable, Shape(ms, u), ms.ents # <<>>,
           NEW ms2 \in Storages, NEW u2 \in Unstable, Shape(ms2, u2), ms2.ents # <<>>,
           Base(ms2, u2) = Base(ms, u), End(u2) = End(u),
           \A i \in Base(ms, u)..End(u) : Term(ms2, u2, i) = Term(ms, u, i)
    PROVE  View(ms2, u2) = View(ms, u)
<1>1. View(ms, u) = [i \in Base(ms, u)..End(u) |-> Term(ms, u, i)]
  BY ViewIs
<1>2. View(ms2, u2) = [i \in Base(ms2, u2)..End(u2) |-> Term(ms2, u2, i)]
  BY ViewIs
<1> DEFINE b == Base(ms, u)
           e == End(u)
<1> HIDE DEF b, e
<1>3. /\ View(ms, u) = [i \in b..e |-> Term(ms, u, i)] /\ View(ms2, u2) = [i \in b..e |-> Term(ms2, u2, i)]
      /\ \A i \in b..e : Term(ms2, u2, i) = Term(ms, u, i)
  BY <1>1, <1>2 DEF b, e
<1> QED BY <1>3

\* What storage has, as a function.
LEMMA StorageViewIs ==
    ASSUME NEW ms \in Storages, ms.ents # <<>>
    PROVE  /\ ms.index \in Nat /\ StorageLast(ms) \in Nat /\ ms.index <= StorageLast(ms)
           /\ StorageView(ms) = [i \in ms.index..StorageLast(ms) |-> ms.ents[i - ms.index + 1]]
<1>1. /\ ms.index \in Nat /\ Len(ms.ents) \in Nat /\ Len(ms.ents) >= 1
      /\ StorageLast(ms) = ms.index + Len(ms.ents) - 1
  BY StorageType
<1>2. StorageLast(ms) \in Nat /\ ms.index <= StorageLast(ms)
  BY <1>1
<1>3. ASSUME NEW i \in ms.index..StorageLast(ms) PROVE StorageTerm(ms, i) = ms.ents[i - ms.index + 1]
  BY AllStableType
<1> QED BY <1>1, <1>2, <1>3 DEF StorageView

\* A storage that has a log.
LEMMA StorageIsView ==
    ASSUME NEW ms \in Storages, NEW u \in Unstable, Shape(ms, u), ms.ents # <<>>,
           NEW ms2 \in Storages, HasLog(ms2, ms, u)
    PROVE  StorageView(ms2) = View(ms, u)
<1>1. /\ ms2.ents # <<>> /\ ms2.index = Base(ms, u) /\ StorageLast(ms2) = End(u)
      /\ \A i \in Base(ms, u)..End(u) : ms2.ents[i - ms2.index + 1] = Term(ms, u, i)
  BY DEF HasLog
<1>2. StorageView(ms2) = [i \in ms2.index..StorageLast(ms2) |-> ms2.ents[i - ms2.index + 1]]
  BY <1>1, StorageViewIs
<1>3. View(ms, u) = [i \in Base(ms, u)..End(u) |-> Term(ms, u, i)]
  BY ViewIs
<1> QED BY <1>1, <1>2, <1>3

\* A server that has all of its log in storage, as after a restart.
LEMMA AllStableView ==
    ASSUME NEW ms \in Storages, ms.ents # <<>>
    PROVE  View(ms, AllStable(ms)) = StorageView(ms)
<1> DEFINE v == AllStable(ms)
<1>1. /\ v \in Unstable /\ Shape(ms, v) /\ End(v) = StorageLast(ms) /\ Base(ms, v) = ms.index
      /\ \A i \in ms.index..StorageLast(ms) :
            /\ Term(ms, v, i) = StorageTerm(ms, i) /\ StorageTerm(ms, i) = ms.ents[i - ms.index + 1]
  BY AllStableType
<1> HIDE DEF v
<1>2. HasLog(ms, ms, v)
  BY <1>1 DEF HasLog
<1>3. StorageView(ms) = View(ms, v)
  BY <1>1, <1>2, StorageIsView
<1> QED BY <1>3 DEF v

\* Without a Ready the log that was handed out last is the one in storage.
LEMMA NoReadyView ==
    ASSUME NEW ms \in Storages, ms.ents # <<>>
    PROVE  View(ms, NoReady.unstable) = StorageView(ms)
<1> DEFINE u == NoReady.unstable
<1>1. u.snapshot = NoSnapshot /\ u.offset = 1 /\ u.ents = <<>>
  BY NoSnapshotType DEF NoReady, RestoreUnstable
<1>2. ms.index \in Nat /\ StorageLast(ms) \in Nat
  BY StorageViewIs
<1> HIDE DEF u
<1>3. FirstIndex(ms, u) = ms.index + 1 /\ LastIndex(ms, u) = StorageLast(ms)
  BY <1>1 DEF FirstIndex, LastIndex
<1>4. FirstIndex(ms, u) - 1 = ms.index
  BY <1>2, <1>3
<1>5. ASSUME NEW i \in ms.index..StorageLast(ms) PROVE Term(ms, u, i) = StorageTerm(ms, i)
  <2>1. i \in Nat /\ ~(i < ms.index) /\ ~(i > StorageLast(ms))
    BY <1>2
  <2>2. ~KnowsTerm(u, i)
    <3>1. Len(u.ents) = 0
      BY <1>1
    <3>2. ~(i >= 1 /\ i < 1 + 0)
      BY <2>1
    <3> QED BY <1>1, <3>1, <3>2 DEF KnowsTerm
  <2> QED BY <1>3, <1>4, <2>1, <2>2 DEF Term
<1> QED BY <1>3, <1>4, <1>5 DEF View, StorageView, u

\* The ends of a log.
LEMMA FirstLast ==
    ASSUME NEW f, NEW a \in Int, NEW b \in Int, a <= b, DOMAIN f = a..b
    PROVE  Log!First(f) = a /\ Log!Last(f) = b
<1>1. a \in a..b /\ b \in a..b /\ (\A j \in a..b : a <= j /\ b >= j)
  OBVIOUS
<1>2. Log!First(f) = a
  <2> DEFINE P(i) == \A j \in DOMAIN f : i <= j
  <2>1. Log!First(f) = CHOOSE i \in DOMAIN f : P(i)
    BY DEF Log!First
  <2>2. a \in DOMAIN f /\ P(a)
    BY <1>1
  <2>3. \A i \in DOMAIN f : P(i) => i = a
    <3>1. ASSUME NEW i \in a..b, P(i) PROVE i = a
      <4>1. i <= a /\ a <= i
        BY <1>1, <3>1
      <4> QED BY <4>1
    <3> QED BY <3>1
  <2> HIDE DEF P
  <2> QED BY <2>1, <2>2, <2>3
<1>3. Log!Last(f) = b
  <2> DEFINE P(i) == \A j \in DOMAIN f : i >= j
  <2>1. Log!Last(f) = CHOOSE i \in DOMAIN f : P(i)
    BY DEF Log!Last
  <2>2. b \in DOMAIN f /\ P(b)
    BY <1>1
  <2>3. \A i \in DOMAIN f : P(i) => i = b
    <3>1. ASSUME NEW i \in a..b, P(i) PROVE i = b
      <4>1. i >= b /\ b >= i
        BY <1>1, <3>1
      <4> QED BY <4>1
    <3> QED BY <3>1
  <2> HIDE DEF P
  <2> QED BY <2>1, <2>2, <2>3
<1> QED BY <1>2, <1>3

\* A function on a range of numbers.
IsOn(f, b, e) == DOMAIN f = b..e /\ f = [i \in b..e |-> f[i]]

\* g is f without what lies below a.
Rest(f, b, e, a, g, b2) ==
    /\ IsOn(f, b, e) /\ IsOn(g, b2, e) /\ b <= b2 /\ a <= b2 /\ (b2 = b \/ b2 = a)
    /\ \A i \in b2..e : g[i] = f[i]

\* Drop of LogicalLog, given by its bounds.
LEMMA DropIs ==
    ASSUME NEW b \in Nat, NEW e \in Nat, NEW a \in Nat, NEW b2 \in Nat, NEW f, NEW g, Rest(f, b, e, a, g, b2)
    PROVE  g = Log!Drop(f, a)
<1>0. /\ DOMAIN f = b..e /\ f = [i \in b..e |-> f[i]] /\ g = [i \in b2..e |-> g[i]]
      /\ b <= b2 /\ a <= b2 /\ (b2 = b \/ b2 = a) /\ \A i \in b2..e : g[i] = f[i]
  BY DEF Rest, IsOn
<1>1. {j \in DOMAIN f : j >= a} = b2..e
  <2>0. b <= b2 /\ a <= b2 /\ (b2 = b \/ b2 = a)
    BY <1>0
  <2>1. ASSUME NEW j \in b..e, j >= a PROVE j \in b2..e
    BY <2>0, <2>1
  <2>2. ASSUME NEW j \in b2..e PROVE j \in b..e /\ j >= a
    BY <2>0
  <2> QED BY <1>0, <2>1, <2>2
<1>2. Log!Drop(f, a) = [i \in b2..e |-> f[i]]
  BY <1>1 DEF Log!Drop
<1> QED BY <1>0, <1>2

\* A compaction drops the beginning of the log, if no snapshot is ahead of it;
LEMMA DropView ==
    ASSUME NEW c \in Groups, NEW ms \in Storages, ms.ents # <<>>, NEW a \in Nat, NEW ms2 \in Storages,
           Compacted(ms, ms2, a), NEW u \in Unstable, NEW k \in Nat, LogInv(c, ms, u, k), a <= k,
           u.snapshot # NoSnapshot => a < u.snapshot.index
    PROVE  View(ms2, u) = Log!Drop(View(ms, u), a)
<1> DEFINE b == Base(ms, u)
           b2 == Base(ms2, u)
           e == End(u)
           f == View(ms, u)
           g == View(ms2, u)
<1>1. /\ LogInv(c, ms2, u, k) /\ (\A i \in b2..e : Term(ms2, u, i) = Term(ms, u, i)) /\ b <= b2
  BY CompactKeeps
<1>2. ms2.ents # <<>> /\ ms2.index = a
  BY DEF Compacted
<1>3. b \in Nat /\ e \in Nat /\ f = [i \in b..e |-> Term(ms, u, i)]
  BY ViewIs DEF LogInv
<1>4. b2 \in Nat /\ g = [i \in b2..e |-> Term(ms2, u, i)]
  BY <1>1, <1>2, ViewIs DEF LogInv
<1>5. a <= b2 /\ (b2 = b \/ b2 = a)
  <2>1. CASE u.snapshot # NoSnapshot
    <3>1. b = u.snapshot.index /\ b2 = u.snapshot.index /\ a < u.snapshot.index
      BY <2>1 DEF Base
    <3> HIDE DEF b, b2
    <3> QED BY <1>3, <3>1
  <2>2. CASE u.snapshot = NoSnapshot
    <3>1. b2 = a
      BY <1>2, <2>2 DEF Base
    <3> QED BY <3>1
  <2> QED BY <2>1, <2>2
<1> HIDE DEF b, b2, e, f, g
<1>6. /\ DOMAIN f = b..e /\ f = [i \in b..e |-> f[i]] /\ \A i \in b..e : f[i] = Term(ms, u, i)
  BY <1>3
<1>7. /\ DOMAIN g = b2..e /\ g = [i \in b2..e |-> g[i]] /\ \A i \in b2..e : g[i] = Term(ms2, u, i)
  BY <1>4
<1>8. \A i \in b2..e : g[i] = f[i]
  <2>1. \A i \in b2..e : i \in b..e
    BY <1>1, <1>3, <1>4
  <2>2. \A i \in b2..e : Term(ms2, u, i) = Term(ms, u, i)
    BY <1>1
  <2> QED BY <1>6, <1>7, <2>1, <2>2
<1>9. g = Log!Drop(f, a)
  <2>1. b <= b2 /\ a \in Nat
    BY <1>1
  <2>2. Rest(f, b, e, a, g, b2)
    BY <1>5, <1>6, <1>7, <1>8, <2>1 DEF Rest, IsOn
  <2> QED BY <1>3, <1>4, <2>1, <2>2, DropIs
<1> QED BY <1>9 DEF f, g

\* and that of storage.
LEMMA DropStorageView ==
    ASSUME NEW ms \in Storages, ms.ents # <<>>, NEW a \in Nat, NEW ms2 \in Storages, Compacted(ms, ms2, a)
    PROVE  /\ StorageView(ms2) = Log!Drop(StorageView(ms), a)
           /\ a \in DOMAIN StorageView(ms)
<1> DEFINE b == ms.index
           e == StorageLast(ms)
           f == StorageView(ms)
           g == StorageView(ms2)
<1>1. /\ b < a /\ a <= e /\ ms2.index = a /\ StorageLast(ms2) = e /\ ms2.ents # <<>>
      /\ \A i \in a..e : ms2.ents[i - a + 1] = ms.ents[i - ms.index + 1]
  BY DEF Compacted
<1>2. b \in Nat /\ e \in Nat /\ f = [i \in b..e |-> ms.ents[i - ms.index + 1]]
  BY StorageViewIs
<1>3. g = [i \in a..e |-> ms2.ents[i - a + 1]]
  <2>1. StorageView(ms2) = [i \in ms2.index..StorageLast(ms2) |-> ms2.ents[i - ms2.index + 1]]
    BY <1>1, StorageViewIs
  <2> QED BY <1>1, <2>1
<1> HIDE DEF b, e, f, g
<1>4. /\ DOMAIN f = b..e /\ f = [i \in b..e |-> f[i]] /\ \A i \in b..e : f[i] = ms.ents[i - ms.index + 1]
  BY <1>2
<1>5. /\ DOMAIN g = a..e /\ g = [i \in a..e |-> g[i]] /\ \A i \in a..e : g[i] = ms2.ents[i - a + 1]
  BY <1>3
<1>6. b <= a /\ a <= a /\ a \in b..e /\ a \in Nat
  <2>1. b < a /\ a <= e
    BY <1>1
  <2> QED BY <1>2, <2>1
<1>7. \A i \in a..e : g[i] = f[i]
  <2>1. \A i \in a..e : i \in b..e
    BY <1>2, <1>6
  <2>2. \A i \in a..e : ms2.ents[i - a + 1] = ms.ents[i - ms.index + 1]
    BY <1>1
  <2> QED BY <1>4, <1>5, <2>1, <2>2
<1>8. g = Log!Drop(f, a)
  <2>1. Rest(f, b, e, a, g, a)
    BY <1>4, <1>5, <1>6, <1>7 DEF Rest, IsOn
  <2> QED BY <1>2, <1>6, <2>1, DropIs
<1> QED BY <1>4, <1>6, <1>8 DEF f, g

\* Without a Ready the variable rd is empty.
Idle == stage = "idle" => rd = NoReady

\* Advance clears the Ready it was called for.
LEMMA IdleInv == Spec => []Idle
<1>1. Init => Idle
  BY DEF Init, Idle
<1>2. Idle /\ [Next]_vars => Idle'
  <2> SUFFICES ASSUME Idle, [Next]_vars PROVE Idle'
    OBVIOUS
  <2>1. ASSUME NEW t, NEW prev, NEW ents, NEW c, StepApp(t, prev, ents, c) PROVE Idle'
    BY <2>1 DEF StepApp, Idle
  <2>2. ASSUME NEW t, NEW c, StepHeartbeat(t, c) PROVE Idle'
    BY <2>2 DEF StepHeartbeat, Idle
  <2>3. ASSUME NEW t, NEW i, StepSnap(t, i) PROVE Idle'
    BY <2>3 DEF StepSnap, Idle
  <2>4. CASE Ready
    BY <2>4, Zenon DEF Ready, Idle
  <2>5. CASE Persist \/ Apply \/ Advance \/ Compact
    BY <2>5 DEF Persist, Apply, Advance, Compact, Idle
  <2>6. ASSUME NEW ms, NEW a, Restart(ms, a) PROVE Idle'
    BY <2>6 DEF Restart, Idle
  <2>7. CASE UNCHANGED vars
    BY <2>7 DEF vars, Idle
  <2> QED BY <2>1, <2>2, <2>3, <2>4, <2>5, <2>6, <2>7 DEF Next, Crash
<1> QED BY <1>1, <1>2, PTL DEF Spec

\* The log in a state of the invariant.
LEMMA InvView ==
    ASSUME Inv
    PROVE  /\ cluster \in Groups /\ storage \in Storages /\ unstable \in Unstable /\ storage.ents # <<>>
           /\ LogInv(cluster, storage, unstable, committed)
           /\ Shape(storage, unstable) /\ committed \in Nat /\ applied \in Nat /\ rd.unstable \in Unstable
           /\ Base(storage, unstable) \in Nat /\ End(unstable) \in Nat
           /\ Base(storage, unstable) <= committed /\ committed <= End(unstable)
           /\ DOMAIN View(storage, unstable) = Base(storage, unstable)..End(unstable)
           /\ \A i \in Base(storage, unstable)..End(unstable) : View(storage, unstable)[i] = Term(storage, unstable, i)
           /\ Log!First(View(storage, unstable)) = Base(storage, unstable)
           /\ Log!Last(View(storage, unstable)) = End(unstable)
<1>1. /\ TypeOK /\ cluster \in Groups /\ storage.ents # <<>> /\ LogInv(cluster, storage, unstable, committed)
      /\ Shape(storage, unstable) /\ Base(storage, unstable) <= committed /\ committed <= End(unstable)
  BY DEF Inv, SyncedInv, StorageOK, LogInv, CommitOK
<1>2. storage \in Storages /\ unstable \in Unstable /\ committed \in Nat /\ applied \in Nat /\ rd.unstable \in Unstable
  BY <1>1, Types
<1>3. /\ Base(storage, unstable) \in Nat /\ End(unstable) \in Nat /\ Base(storage, unstable) <= End(unstable)
      /\ View(storage, unstable) = [i \in Base(storage, unstable)..End(unstable) |-> Term(storage, unstable, i)]
  BY <1>1, <1>2, ViewIs
<1>4. /\ DOMAIN View(storage, unstable) = Base(storage, unstable)..End(unstable)
      /\ \A i \in Base(storage, unstable)..End(unstable) : View(storage, unstable)[i] = Term(storage, unstable, i)
  BY <1>3
<1>5. Log!First(View(storage, unstable)) = Base(storage, unstable) /\ Log!Last(View(storage, unstable)) = End(unstable)
  <2> DEFINE f == View(storage, unstable)
             b == Base(storage, unstable)
             e == End(unstable)
  <2>1. b \in Int /\ e \in Int /\ b <= e /\ DOMAIN f = b..e
    BY <1>3, <1>4
  <2> HIDE DEF f, b, e
  <2>2. Log!First(f) = b /\ Log!Last(f) = e
    BY <2>1, FirstLast
  <2> QED BY <2>2 DEF f, b, e
<1> QED BY <1>1, <1>2, <1>3, <1>4, <1>5

\* A message appends to the log, or restores a snapshot.
LEMMA MessageRefines ==
    ASSUME Inv, Inv', MessageEffect
    PROVE  Log!Append \/ Log!Restore
<1> DEFINE f == View(storage, unstable)
           g == View(storage, unstable)'
           b == Base(storage, unstable)
           b2 == Base(storage, unstable)'
           e == End(unstable)
           e2 == End(unstable)'
<1>1. /\ committed \in Nat /\ b \in Nat /\ e \in Nat /\ b <= committed /\ committed <= e
      /\ DOMAIN f = b..e /\ (\A i \in b..e : f[i] = Term(storage, unstable, i))
      /\ Log!First(f) = b /\ Log!Last(f) = e
  BY InvView
<1>2. /\ committed' \in Nat /\ b2 \in Nat /\ e2 \in Nat /\ b2 <= committed' /\ committed' <= e2
      /\ DOMAIN g = b2..e2 /\ (\A i \in b2..e2 : g[i] = Term(storage, unstable, i)')
      /\ Log!First(g) = b2 /\ Log!Last(g) = e2
  <2>1. (/\ committed \in Nat /\ Base(storage, unstable) \in Nat /\ End(unstable) \in Nat
         /\ Base(storage, unstable) <= committed /\ committed <= End(unstable)
         /\ DOMAIN View(storage, unstable) = Base(storage, unstable)..End(unstable)
         /\ (\A i \in Base(storage, unstable)..End(unstable) : View(storage, unstable)[i] = Term(storage, unstable, i))
         /\ Log!First(View(storage, unstable)) = Base(storage, unstable)
         /\ Log!Last(View(storage, unstable)) = End(unstable))'
    BY InvView, PTL
  <2> QED BY <2>1
<1>3. storage' = storage /\ rd' = rd /\ committed <= committed'
  BY DEF MessageEffect
<1>4. UNCHANGED <<View(storage, rd.unstable), StorageView(storage)>>
  BY <1>3
<1>5. committed' \in committed..Log!Last(g)
  BY <1>1, <1>2, <1>3
<1>6. CASE unstable' = unstable
  <2>1. g = f
    BY <1>3, <1>6
  <2>2. Log!Append
    BY <1>4, <1>5, <2>1 DEF Log!Append
  <2> QED BY <2>2
<1>7. CASE \E ci \in Nat : GrownFrom(storage, unstable, unstable', committed, ci)
  <2>1. PICK ci \in Nat : GrownFrom(storage, unstable, unstable', committed, ci)
    BY <1>7
  <2>2. /\ committed < ci /\ ci <= e + 1 /\ ci <= e2 /\ b2 = b
        /\ \A i \in b..(ci - 1) : Term(storage, unstable, i)' = Term(storage, unstable, i)
        /\ Term(storage, unstable, ci)' # Term(storage, unstable, ci)
    BY <1>3, <2>1 DEF GrownFrom
  <2> HIDE DEF f, g, b, b2, e, e2
  <2>3. ci \in (committed + 1)..(Log!Last(f) + 1)
    BY <1>1, <2>2
  <2>4. Log!First(g) = Log!First(f) /\ Log!Last(g) >= ci /\ DOMAIN g = Log!First(g)..Log!Last(g)
    BY <1>1, <1>2, <2>2
  <2>5. ASSUME NEW i \in Log!First(f)..(ci - 1) PROVE g[i] = f[i]
    <3>1. i \in b..(ci - 1) /\ i \in b..e /\ i \in b2..e2
      BY <1>1, <1>2, <2>2
    <3> QED BY <1>1, <1>2, <2>2, <3>1
  <2>6. ASSUME ci <= Log!Last(f) PROVE g[ci] # f[ci]
    <3>1. ci \in b..e /\ ci \in b2..e2
      BY <1>1, <1>2, <2>2, <2>6
    <3> QED BY <1>1, <1>2, <2>2, <3>1
  <2>7. /\ \E k \in (committed + 1)..(Log!Last(f) + 1) :
              /\ Log!First(g) = Log!First(f) /\ Log!Last(g) >= k
              /\ DOMAIN g = Log!First(g)..Log!Last(g)
              /\ \A i \in Log!First(f)..(k - 1) : g[i] = f[i]
              /\ k <= Log!Last(f) => g[k] # f[k]
    BY <2>3, <2>4, <2>5, <2>6
  <2>8. Log!Append
    BY <1>4, <1>5, <2>7, Zenon DEF Log!Append, f, g
  <2> QED BY <2>8
<1>8. CASE committed < committed' /\ Base(storage, unstable') = committed' /\ End(unstable') = committed'
  <2>1. b2 = committed' /\ e2 = committed'
    BY <1>3, <1>8
  <2> HIDE DEF b2, e2, g
  <2>2. DOMAIN g = {committed'} /\ committed' > committed
    <3>1. committed'..committed' = {committed'}
      BY <1>2
    <3> QED BY <1>1, <1>2, <1>8, <2>1, <3>1
  <2>3. Log!Restore
    BY <1>4, <2>2 DEF Log!Restore, g
  <2> QED BY <2>3
<1> QED BY <1>6, <1>7, <1>8 DEF MessageEffect

\* The write of a Ready makes the log that was handed out stable.
LEMMA PersistRefines ==
    ASSUME Inv, Inv', PersistEffect, stage # "idle"
    PROVE  Log!Persist
<1> DEFINE ru == rd.unstable
<1>0. /\ cluster \in Groups /\ storage \in Storages /\ unstable \in Unstable /\ storage.ents # <<>>
      /\ Shape(storage, unstable) /\ ru \in Unstable
  BY InvView
<1>1. (storage \in Storages /\ storage.ents # <<>> /\ Shape(storage, unstable))'
  BY InvView, PTL
<1>2. UNCHANGED <<unstable, rd, committed>> /\ HasLog(storage', storage, ru)
      /\ SameLog(storage, storage', unstable) /\ SameLog(storage, storage', ru)
  BY DEF PersistEffect
<1>3. Shape(storage, ru)
  BY DEF Inv, RdInv, LogInv
<1>4. Shape(storage', ru)
  <2>1. StorageLast(storage') = End(ru) /\ storage'.index = Base(storage, ru) /\ storage'.ents # <<>>
    BY <1>2 DEF HasLog
  <2>2. /\ ru.offset \in Nat /\ Len(ru.ents) \in Nat /\ End(ru) = ru.offset + Len(ru.ents) - 1
        /\ (ru.ents # <<>> <=> Len(ru.ents) >= 1)
    BY <1>0, UnstableType
  <2>3. ru.offset <= End(ru) + 1 /\ (ru.ents = <<>> => ru.offset = End(ru) + 1)
    BY <2>2
  <2>4. Base(storage, ru) <= End(ru)
    BY <1>0, <1>3, ViewIs
  <2> QED BY <1>3, <2>1, <2>3, <2>4 DEF Shape
<1> HIDE DEF ru
<1>5. StorageView(storage') = View(storage, ru)
  BY <1>0, <1>1, <1>2, <1>3, StorageIsView
<1>6. View(storage', unstable) = View(storage, unstable)
  <2>1. Shape(storage', unstable)
    BY <1>1, <1>2
  <2> QED BY <1>0, <1>1, <1>2, <2>1, SameViews DEF SameLog
<1>7. View(storage', ru) = View(storage, ru)
  BY <1>0, <1>1, <1>2, <1>3, <1>4, SameViews DEF SameLog
<1> QED BY <1>2, <1>5, <1>6, <1>7 DEF Log!Persist, ru

\* Advance changes nothing: the log handed out is the one in storage.
LEMMA AdvanceRefines ==
    ASSUME Inv, Inv', Advance
    PROVE  UNCHANGED Log!vars
<1> DEFINE ru == rd.unstable
<1>0. /\ cluster \in Groups /\ storage \in Storages /\ unstable \in Unstable /\ storage.ents # <<>>
      /\ Shape(storage, unstable) /\ ru \in Unstable
  BY InvView
<1>1. (unstable \in Unstable /\ Shape(storage, unstable))'
  BY InvView, PTL
<1>2. UNCHANGED <<storage, committed>> /\ rd' = NoReady /\ stage = "applied"
  BY DEF Advance
<1>3. Kept(cluster, storage, unstable, unstable', committed)
  BY AdvanceStep
<1>4. View(storage, unstable') = View(storage, unstable)
  <2>1. Shape(storage, unstable') /\ unstable' \in Unstable
    BY <1>1, <1>2
  <2> QED BY <1>0, <1>3, <2>1, SameViews DEF Kept
<1>5. Shape(storage, ru) /\ HasLog(storage, storage, ru)
  BY <1>2 DEF Inv, RdInv, LogInv, Wrote, WroteInv
<1>6. View(storage, ru) = StorageView(storage)
  <2> HIDE DEF ru
  <2> QED BY <1>0, <1>5, StorageIsView
<1>7. View(storage, NoReady.unstable) = StorageView(storage)
  BY <1>0, NoReadyView
<1> QED BY <1>2, <1>4, <1>6, <1>7 DEF Log!vars, ru

\* A compaction drops the same of all.
LEMMA CompactRefines ==
    ASSUME Inv, Inv', Idle, Compact
    PROVE  Log!Compact
<1> DEFINE ru == rd.unstable
           a == applied
           ms2 == storage'
<1>0. /\ cluster \in Groups /\ storage \in Storages /\ unstable \in Unstable /\ storage.ents # <<>>
      /\ LogInv(cluster, storage, unstable, committed) /\ a \in Nat /\ committed \in Nat /\ ru \in Unstable
  BY InvView
<1>1. ms2 \in Storages /\ ms2.ents # <<>>
  <2>1. (storage \in Storages /\ storage.ents # <<>>)'
    BY InvView, PTL
  <2> QED BY <2>1
<1>2. /\ a <= committed /\ Compacted(storage, ms2, a)
      /\ UNCHANGED <<cluster, unstable, rd, committed>>
  BY CompactStep
<1>3. unstable.snapshot # NoSnapshot => a < unstable.snapshot.index
  BY DEF Inv, AppliedInv
<1> HIDE DEF a, ms2
<1>4. View(ms2, unstable) = Log!Drop(View(storage, unstable), a)
  BY <1>0, <1>1, <1>2, <1>3, DropView
<1>5. /\ StorageView(ms2) = Log!Drop(StorageView(storage), a)
      /\ a \in DOMAIN StorageView(storage)
  BY <1>0, <1>1, <1>2, DropStorageView
<1>6. View(ms2, ru) = Log!Drop(View(storage, ru), a)
  <2>1. CASE stage = "idle"
    <3>1. View(storage, ru) = StorageView(storage) /\ View(ms2, ru) = StorageView(ms2)
      BY <1>0, <1>1, <2>1, NoReadyView DEF Idle
    <3> QED BY <1>5, <3>1
  <2>2. CASE stage # "idle"
    <3>1. /\ LogInv(cluster, storage, ru, rd.hardState.commit) /\ (ru.snapshot # NoSnapshot => a < ru.snapshot.index)
          /\ storage.hardState.commit <= rd.hardState.commit /\ a <= storage.hardState.commit
      BY <2>2 DEF Inv, RdInv, AppliedInv, a
    <3> DEFINE k == rd.hardState.commit
    <3>2. k \in Nat /\ storage.hardState.commit \in Nat
      BY Types DEF Inv
    <3>3. a <= k /\ LogInv(cluster, storage, ru, k)
      BY <1>0, <3>1, <3>2
    <3> HIDE DEF ru, k
    <3> QED BY <1>0, <1>1, <1>2, <3>1, <3>2, <3>3, DropView
  <2> QED BY <2>1, <2>2
<1> QED BY <1>2, <1>4, <1>5, <1>6 DEF Log!Compact, ms2, ru

\* A crash leaves what is stable.
LEMMA CrashRefines ==
    ASSUME Inv, Crash
    PROVE  Log!Restart
<1>0. /\ storage \in Storages /\ storage.ents # <<>> /\ committed \in Nat
  BY InvView
<1>1. PICK ms \in {synced, storage} : \E a \in Seq(1..MaxTerm) :
              /\ ms \in Storages /\ StorageOK(cluster, ms) /\ CommittedSeq(cluster, a)
              /\ ms.index <= Len(a) /\ Len(a) <= ms.hardState.commit /\ Restart(ms, a)
  BY CrashLeaves
<1>2. /\ ms \in Storages /\ ms.ents # <<>> /\ ms.index <= ms.hardState.commit
  <2>1. ms \in Storages /\ StorageOK(cluster, ms)
    BY <1>1
  <2>2. ms.ents # <<>>
    BY <2>1 DEF StorageOK
  <2>3. Base(ms, AllStable(ms)) = ms.index
    BY <2>1, <2>2, AllStableType
  <2> QED BY <2>1, <2>2, <2>3 DEF StorageOK, LogInv, CommitOK
<1>3. /\ committed' = ms.hardState.commit /\ unstable' = AllStable(ms)
      /\ storage' = ms /\ rd' = NoReady
  BY <1>1, Zenon DEF Restart, AllStable
<1>4. /\ ms.index = storage.index /\ ms.ents = storage.ents /\ ms.hardState.commit <= committed
      /\ ms.hardState.commit \in Nat
  <2>1. /\ synced.index = storage.index /\ synced.ents = storage.ents
        /\ synced.hardState.commit <= storage.hardState.commit /\ storage.hardState.commit <= committed
    BY DEF Inv, SyncedInv
  <2>2. synced.hardState.commit \in Nat /\ storage.hardState.commit \in Nat
    BY Types DEF Inv
  <2>3. synced.hardState.commit <= committed
    BY <1>0, <2>1, <2>2
  <2> QED BY <2>1, <2>2, <2>3
<1>5. StorageView(ms) = StorageView(storage)
  BY <1>4 DEF StorageView, StorageLast, StorageTerm
<1>6. View(ms, AllStable(ms)) = StorageView(ms) /\ View(ms, NoReady.unstable) = StorageView(ms)
  BY <1>2, AllStableView, NoReadyView
<1>7. Log!First(StorageView(storage)) = storage.index /\ storage.index \in Nat
  <2> DEFINE f == StorageView(storage)
             b == storage.index
             e == StorageLast(storage)
  <2>1. b \in Int /\ b \in Nat /\ e \in Int /\ b <= e /\ DOMAIN f = b..e
    BY <1>0, StorageViewIs
  <2> HIDE DEF f, b, e
  <2>2. Log!First(f) = b
    BY <2>1, FirstLast
  <2> QED BY <2>1, <2>2 DEF f, b
<1>8. committed' \in Log!First(StorageView(storage))..committed
  <2>1. storage.index <= ms.hardState.commit
    BY <1>2, <1>4
  <2> QED BY <1>0, <1>3, <1>4, <1>7, <2>1
<1> QED BY <1>3, <1>5, <1>6, <1>8 DEF Log!Restart

\* In the initial state nothing is in the log.
LEMMA InitRefines == Init => Log!Init
<1> SUFFICES ASSUME Init PROVE Log!Init
  OBVIOUS
<1> DEFINE e == EmptyStorage
<1>0. unstable = RestoreUnstable(NoSnapshot) /\ storage = e /\ rd = NoReady /\ committed = 0
  BY DEF Init
<1>1. e \in Storages /\ e.ents # <<>> /\ e.index = 0 /\ e.ents[1] = 0 /\ Len(e.ents) = 1
  BY NoReadyType DEF EmptyStorage
<1>2. StorageLast(e) = 0
  BY <1>1 DEF StorageLast
<1>3. NoReady.unstable = RestoreUnstable(NoSnapshot)
  BY DEF NoReady
<1> HIDE DEF e
<1>4. StorageView(e) = Log!Empty
  <2>1. StorageView(e) = [i \in 0..0 |-> e.ents[i - 0 + 1]]
    BY <1>1, <1>2, StorageViewIs
  <2>2. 0..0 = {0} /\ \A i \in {0} : i - 0 + 1 = 1
    OBVIOUS
  <2>3. StorageView(e) = [i \in {0} |-> 0]
    BY <1>1, <2>1, <2>2
  <2> QED BY <2>3 DEF Log!Empty
<1>5. View(e, NoReady.unstable) = StorageView(e)
  BY <1>1, NoReadyView
<1> QED BY <1>0, <1>3, <1>4, <1>5 DEF Log!Init

\* Storage and unstable entries together behave as one log, whatever happens between Ready,
\* the write and Advance: what becomes stable is the log as of Ready, Advance changes nothing of
\* it, and a crash leaves exactly what is stable (log_unstable.go:76-90, 120-140,
\* rawnode.go:174-179).
THEOREM BehavesAsOneLog == Spec => ImplementsLogicalLog
<1>1. Inv /\ Inv' /\ Idle /\ [Next]_vars => [Log!Next]_(Log!vars)
  <2> SUFFICES ASSUME Inv, Inv', Idle, [Next]_vars PROVE [Log!Next]_(Log!vars)
    OBVIOUS
  <2>1. CASE \E t \in 1..MaxTerm :
             LET l == cluster[t].log IN
             \/ \E prev \in 0..Len(l) : \E n \in 0..Min(MaxMsgEnts, Len(l) - prev) :
                  \E c \in {0, cluster[t].commit} : StepApp(t, prev, SubSeq(l, prev + 1, prev + n), c)
             \/ \E c \in 1..cluster[t].commit : StepHeartbeat(t, c)
             \/ \E i \in 1..cluster[t].commit : StepSnap(t, i)
    <3>1. MessageEffect
      BY <2>1, MessageInv
    <3> QED BY <3>1, MessageRefines DEF Log!Next
  <2>2. CASE Ready
    <3>1. rd' = [unstable |-> unstable, hardState |-> CurrentHardState, first |-> NextFirst, ents |-> NextEnts]
          /\ UNCHANGED <<storage, unstable, committed>>
      <4>1. ~NextEntsFail
        <5>1. stage = "idle"
          BY <2>2 DEF Ready
        <5> QED BY <5>1, ReadyPage
      <4> QED BY <2>2, <4>1, Zenon DEF Ready
    <3>2. rd'.unstable = unstable
      BY <3>1
    <3>3. Log!Ready
      BY <3>1, <3>2 DEF Log!Ready
    <3> QED BY <3>3 DEF Log!Next
  <2>3. CASE Persist
    <3>1. PersistEffect /\ stage # "idle"
      BY <2>3, PersistStep DEF Persist
    <3> QED BY <3>1, PersistRefines DEF Log!Next
  <2>4. CASE Apply
    <3>1. UNCHANGED <<storage, unstable, committed, rd>>
      BY <2>4 DEF Apply
    <3> QED BY <3>1 DEF Log!vars
  <2>5. CASE Advance
    BY <2>5, AdvanceRefines
  <2>6. CASE Compact
    BY <2>6, CompactRefines DEF Log!Next
  <2>7. CASE Crash
    BY <2>7, CrashRefines DEF Log!Next
  <2>8. CASE UNCHANGED vars
    <3>1. UNCHANGED <<storage, unstable, committed, rd>>
      BY <2>8 DEF vars
    <3> QED BY <3>1 DEF Log!vars
  <2> QED BY <2>1, <2>2, <2>3, <2>4, <2>5, <2>6, <2>7, <2>8 DEF Next
<1> QED BY <1>1, InitRefines, LogInvariant, IdleInv, PTL DEF Spec, ImplementsLogicalLog, Log!Spec
=============================================================================

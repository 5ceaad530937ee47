---------------------------- MODULE ChangerProofs ----------------------------
(***************************************************************************)
(* Configuration changes, for every set of ids and changes of any length:  *)
(* no change leads to an inconsistent configuration, a configuration is    *)
(* what Restore makes of its ConfState, and quorums before and after a     *)
(* change overlap.                                                         *)
(***************************************************************************)
EXTENDS ChangerSteps, QuorumProofs, SequenceTheorems

-----------------------------------------------------------------------------
(* The trackers there are *)

Members(v1, v2, l, n) == v1 \cup v2 \cup l \cup n

\* A tracker that no operation has refused.
Rec(v, l, n, auto, p) ==
    [voters |-> v, learners |-> l, learnersNext |-> n, autoLeave |-> auto, prs |-> p, err |-> "nil"]

\* A tracker is given by its configuration: members are tracked, and learners are
\* tracked as such.
Tracker(v1, v2, l, n, auto) ==
    Rec(<<v1, v2>>, l, n, auto, [id \in Members(v1, v2, l, n) |-> id \in l])

\* Learners do not vote; those to come still do, in the outgoing half only.
Apart(v1, v2, l, n) == l \cap (v1 \cup v2) = {} /\ n \subseteq v2 \ v1

\* A progress map that knows the learners.
Knows(p, S, l) == p \in [S -> BOOLEAN] /\ \A x \in S : p[x] <=> x \in l

\* There is one such map.
LEMMA KnowsIs ==
    ASSUME NEW S, NEW l
    PROVE  /\ Knows([x \in S |-> x \in l], S, l)
           /\ \A p : Knows(p, S, l) => p = [x \in S |-> x \in l]
<1> DEFINE q == [x \in S |-> x \in l]
<1>1. q \in [S -> BOOLEAN]
  BY SMT
<1>2. \A x \in S : q[x] <=> x \in l
  BY Zenon
<1> HIDE DEF q
<1>3. ASSUME NEW p, Knows(p, S, l) PROVE p = q
  <2>1. p \in [S -> BOOLEAN] /\ \A x \in S : p[x] <=> q[x]
    BY <1>2, <1>3 DEF Knows
  <2> QED BY <1>1, <2>1, SMT
<1>4. Knows(q, S, l)
  BY <1>1, <1>2 DEF Knows
<1> QED BY <1>3, <1>4 DEF q

\* The fields of a tracker, and what the Changer reads of them.
LEMMA TrackerFields ==
    ASSUME NEW v1, NEW v2, NEW l, NEW n, NEW auto, NEW t, t = Tracker(v1, v2, l, n, auto)
    PROVE  /\ t.voters = <<v1, v2>> /\ t.voters[1] = v1 /\ t.voters[2] = v2
           /\ t.learners = l /\ t.learnersNext = n /\ t.autoLeave = auto /\ t.err = "nil"
           /\ Knows(t.prs, Members(v1, v2, l, n), l)
           /\ Tracked(t) = Members(v1, v2, l, n) /\ IDs(t.voters) = v1 \cup v2
           /\ (Joint(t) <=> v2 # {})
<1> DEFINE S == Members(v1, v2, l, n)
           q == [x \in S |-> x \in l]
<1>1. t = [voters |-> <<v1, v2>>, learners |-> l, learnersNext |-> n, autoLeave |-> auto, prs |-> q, err |-> "nil"]
  BY DEF Tracker, Rec
<1>2. Knows(q, S, l)
  BY KnowsIs
<1> HIDE DEF q, S
<1>3. /\ t.voters = <<v1, v2>> /\ t.voters[1] = v1 /\ t.voters[2] = v2
      /\ t.learners = l /\ t.learnersNext = n /\ t.autoLeave = auto /\ t.err = "nil" /\ t.prs = q
  BY <1>1
<1>4. DOMAIN q = S
  BY <1>2 DEF Knows
<1> QED BY <1>2, <1>3, <1>4 DEF Tracked, IDs, Joint, S

\* A record with these fields.
LEMMA RecIs ==
    ASSUME NEW v, NEW l, NEW n, NEW auto, NEW p,
           NEW t \in [voters : {v}, learners : {l}, learnersNext : {n},
                      autoLeave : {auto}, prs : {p}, err : {"nil"}]
    PROVE  t = Rec(v, l, n, auto, p)
<1>1. t = [voters |-> t.voters, learners |-> t.learners, learnersNext |-> t.learnersNext,
           autoLeave |-> t.autoLeave, prs |-> t.prs, err |-> t.err]
  OBVIOUS
<1>2. /\ t.voters = v /\ t.learners = l /\ t.learnersNext = n
      /\ t.autoLeave = auto /\ t.prs = p /\ t.err = "nil"
  OBVIOUS
<1> QED BY <1>1, <1>2 DEF Rec

\* With a map that knows the learners it is a tracker.
LEMMA IsTracker ==
    ASSUME NEW v1, NEW v2, NEW l, NEW n, NEW auto, NEW p, Knows(p, Members(v1, v2, l, n), l)
    PROVE  Rec(<<v1, v2>>, l, n, auto, p) = Tracker(v1, v2, l, n, auto)
<1> DEFINE q == [id \in Members(v1, v2, l, n) |-> id \in l]
<1>1. p = q
  BY KnowsIs
<1> HIDE DEF q
<1> QED BY <1>1 DEF Tracker, q

\* Such a tracker passes checkInvariants (confchange.go:278-334).
LEMMA TrackerConsistent ==
    ASSUME NEW v1, NEW v2, NEW l, NEW n, NEW auto \in BOOLEAN, NEW t,
           t = Tracker(v1, v2, l, n, auto), Apart(v1, v2, l, n), v2 = {} => ~auto
    PROVE  CheckInvariants(t) /\ CheckAndReturn(t) = t
<1>1. /\ t.voters[1] = v1 /\ t.voters[2] = v2
      /\ t.learners = l /\ t.learnersNext = n /\ t.autoLeave = auto
      /\ Knows(t.prs, Members(v1, v2, l, n), l)
      /\ Tracked(t) = Members(v1, v2, l, n) /\ IDs(t.voters) = v1 \cup v2
      /\ (Joint(t) <=> v2 # {})
  BY TrackerFields
<1>2. n \subseteq v2 /\ \A id \in n : id \notin l
  BY DEF Apart
<1>3. \A id \in n : id \in v2 /\ ~t.prs[id]
  BY <1>1, <1>2 DEF Knows, Members
<1>4. \A id \in l : id \notin v1 \cup v2 /\ t.prs[id]
  BY <1>1 DEF Apart, Knows, Members
<1>5. v2 = {} => n = {} /\ ~auto
  BY <1>2
<1>6. CheckInvariants(t)
  BY <1>1, <1>3, <1>4, <1>5 DEF CheckInvariants, Members
<1> QED BY <1>6 DEF CheckAndReturn

\* The two halves of a joint configuration.
LEMMA HalvesExcept ==
    ASSUME NEW v1, NEW v2, NEW w
    PROVE  [<<v1, v2>> EXCEPT ![1] = w] = <<w, v2>> /\ [<<v1, v2>> EXCEPT ![2] = w] = <<v1, w>>
  OBVIOUS

-----------------------------------------------------------------------------
(* Single changes *)

\* The progress maps that single changes make.
WithVoter(p, id) == With(p, id, FALSE)
WithLearner(p, id) == With(p, id, TRUE)
AsVoter(p, id) == [p EXCEPT ![id] = FALSE]
AsLearner(p, id) == [p EXCEPT ![id] = TRUE]

\* initProgress, for a voter (confchange.go:245-276).
LEMMA InitVoterRec ==
    ASSUME NEW v1, NEW v2, NEW l, NEW n, NEW auto, NEW p, NEW id, id \notin DOMAIN p
    PROVE  MakeVoter(Rec(<<v1, v2>>, l, n, auto, p), id)
             = Rec(<<v1 \cup {id}, v2>>, l, n, auto, WithVoter(p, id))
<1> DEFINE v == <<v1, v2>>
           w == WithVoter(p, id)
           u == [[voters |-> v, learners |-> l, learnersNext |-> n, autoLeave |-> auto, prs |-> p, err |-> "nil"]
                    EXCEPT !.voters[1] = @ \cup {id}, !.learners = @, !.prs = w]
<1>1. MakeVoter(Rec(v, l, n, auto, p), id) = u
  <2>1. id \notin Tracked(Rec(v, l, n, auto, p))
    BY DEF Tracked, Rec
  <2>2. MakeVoter(Rec(v, l, n, auto, p), id) = InitProgress(Rec(v, l, n, auto, p), id, FALSE)
    BY <2>1, Zenon DEF MakeVoter
  <2>3. InitProgress(Rec(v, l, n, auto, p), id, FALSE) = u
    BY DEF InitProgress, Rec, WithVoter
  <2> QED BY <2>2, <2>3, Zenon
<1> HIDE DEF v, w
<1>2. u \in [voters : {[v EXCEPT ![1] = v[1] \cup {id}]}, learners : {l}, learnersNext : {n},
             autoLeave : {auto}, prs : {w}, err : {"nil"}]
  OBVIOUS
<1> HIDE DEF u
<1>3. [v EXCEPT ![1] = v[1] \cup {id}] = <<v1 \cup {id}, v2>>
  BY HalvesExcept DEF v
<1>4. u = Rec(<<v1 \cup {id}, v2>>, l, n, auto, w)
  BY <1>2, <1>3, RecIs
<1> QED BY <1>1, <1>4, Zenon DEF v, w

\* initProgress, for a learner.
LEMMA InitLearnerRec ==
    ASSUME NEW v1, NEW v2, NEW l, NEW n, NEW auto, NEW p, NEW id, id \notin DOMAIN p
    PROVE  MakeLearner(Rec(<<v1, v2>>, l, n, auto, p), id)
             = Rec(<<v1, v2>>, l \cup {id}, n, auto, WithLearner(p, id))
<1> DEFINE v == <<v1, v2>>
           w == WithLearner(p, id)
           u == [[voters |-> v, learners |-> l, learnersNext |-> n, autoLeave |-> auto, prs |-> p, err |-> "nil"]
                    EXCEPT !.voters[1] = @, !.learners = @ \cup {id}, !.prs = w]
<1>1. MakeLearner(Rec(v, l, n, auto, p), id) = u
  <2>1. id \notin Tracked(Rec(v, l, n, auto, p))
    BY DEF Tracked, Rec
  <2>2. MakeLearner(Rec(v, l, n, auto, p), id) = InitProgress(Rec(v, l, n, auto, p), id, TRUE)
    BY <2>1, Zenon DEF MakeLearner
  <2>3. InitProgress(Rec(v, l, n, auto, p), id, TRUE) = u
    BY DEF InitProgress, Rec, WithLearner
  <2> QED BY <2>2, <2>3, Zenon
<1> HIDE DEF v, w
<1>2. u \in [voters : {[v EXCEPT ![1] = v[1]]}, learners : {l \cup {id}}, learnersNext : {n},
             autoLeave : {auto}, prs : {w}, err : {"nil"}]
  OBVIOUS
<1> HIDE DEF u
<1>3. [v EXCEPT ![1] = v[1]] = <<v1, v2>>
  BY HalvesExcept DEF v
<1>4. u = Rec(<<v1, v2>>, l \cup {id}, n, auto, w)
  BY <1>2, <1>3, RecIs
<1> QED BY <1>1, <1>4, Zenon DEF v, w

\* makeVoter of an id that is tracked (confchange.go:178-188).
LEMMA MakeVoterRec ==
    ASSUME NEW v1, NEW v2, NEW l, NEW n, NEW auto, NEW p, NEW id, id \in DOMAIN p
    PROVE  MakeVoter(Rec(<<v1, v2>>, l, n, auto, p), id)
             = Rec(<<v1 \cup {id}, v2>>, l \ {id}, n \ {id}, auto, AsVoter(p, id))
<1> DEFINE v == <<v1, v2>>
           w == AsVoter(p, id)
           u == [[voters |-> v, learners |-> l, learnersNext |-> n, autoLeave |-> auto, prs |-> p, err |-> "nil"]
                    EXCEPT !.prs[id] = FALSE, !.learners = @ \ {id}, !.learnersNext = @ \ {id},
                           !.voters[1] = @ \cup {id}]
<1>1. MakeVoter(Rec(v, l, n, auto, p), id) = u
  BY DEF MakeVoter, Rec, Tracked
<1> HIDE DEF v
<1>2. u \in [voters : {[v EXCEPT ![1] = v[1] \cup {id}]}, learners : {l \ {id}}, learnersNext : {n \ {id}},
             autoLeave : {auto}, prs : {w}, err : {"nil"}]
  BY DEF AsVoter
<1> HIDE DEF u, w
<1>3. [v EXCEPT ![1] = v[1] \cup {id}] = <<v1 \cup {id}, v2>>
  BY HalvesExcept DEF v
<1>4. u = Rec(<<v1 \cup {id}, v2>>, l \ {id}, n \ {id}, auto, w)
  BY <1>2, <1>3, RecIs
<1> QED BY <1>1, <1>4, Zenon DEF v, w

\* What remove leaves of the progress map.
Left(p, v2, id) == IF id \in v2 THEN p ELSE Without(p, id)

\* remove of an id that is tracked (confchange.go:233-242).
LEMMA RemoveRec ==
    ASSUME NEW v1, NEW v2, NEW l, NEW n, NEW auto, NEW p, NEW id, id \in DOMAIN p
    PROVE  Remove(Rec(<<v1, v2>>, l, n, auto, p), id)
             = Rec(<<v1 \ {id}, v2>>, l \ {id}, n \ {id}, auto, Left(p, v2, id))
<1> DEFINE v == <<v1, v2>>
           w == Left(p, v2, id)
           u == [[voters |-> v, learners |-> l, learnersNext |-> n, autoLeave |-> auto, prs |-> p, err |-> "nil"]
                    EXCEPT !.voters[1] = @ \ {id}, !.learners = @ \ {id}, !.learnersNext = @ \ {id},
                           !.prs = w]
<1>1. Remove(Rec(v, l, n, auto, p), id) = u
  BY DEF Remove, Rec, Tracked, Left
<1> HIDE DEF v, w
<1>2. u \in [voters : {[v EXCEPT ![1] = v[1] \ {id}]}, learners : {l \ {id}}, learnersNext : {n \ {id}},
             autoLeave : {auto}, prs : {w}, err : {"nil"}]
  OBVIOUS
<1> HIDE DEF u
<1>3. [v EXCEPT ![1] = v[1] \ {id}] = <<v1 \ {id}, v2>>
  BY HalvesExcept DEF v
<1>4. u = Rec(<<v1 \ {id}, v2>>, l \ {id}, n \ {id}, auto, w)
  BY <1>2, <1>3, RecIs
<1> QED BY <1>1, <1>4, Zenon DEF v, w

\* Progress maps that gain, lose or change an id.
LEMMA MapsKnow ==
    ASSUME NEW S, NEW l, NEW p, Knows(p, S, l), NEW id
    PROVE  /\ DOMAIN p = S
           /\ Knows(WithVoter(p, id), S \cup {id}, l \ {id})
           /\ Knows(WithLearner(p, id), S \cup {id}, l \cup {id})
           /\ Knows(Without(p, id), S \ {id}, l \ {id})
           /\ id \in S => Knows(AsVoter(p, id), S, l \ {id}) /\ Knows(AsLearner(p, id), S, l \cup {id})
<1>1. p \in [S -> BOOLEAN] /\ \A x \in S : p[x] <=> x \in l
  BY DEF Knows
<1>2. ASSUME NEW b \in BOOLEAN
      PROVE  /\ With(p, id, b) \in [S \cup {id} -> BOOLEAN]
             /\ \A x \in S \cup {id} : With(p, id, b)[x] = IF x = id THEN b ELSE p[x]
  BY <1>1, SMT DEF With
<1>3. /\ Without(p, id) \in [S \ {id} -> BOOLEAN]
      /\ \A x \in S \ {id} : Without(p, id)[x] = p[x]
  BY <1>1, SMT DEF Without
<1>4. ASSUME NEW b \in BOOLEAN, id \in S
      PROVE  /\ [p EXCEPT ![id] = b] \in [S -> BOOLEAN]
             /\ \A x \in S : [p EXCEPT ![id] = b][x] = IF x = id THEN b ELSE p[x]
  BY <1>1, <1>4, SMT
<1>5. Knows(With(p, id, FALSE), S \cup {id}, l \ {id}) /\ Knows(With(p, id, TRUE), S \cup {id}, l \cup {id})
  BY <1>1, <1>2 DEF Knows
<1>6. Knows(Without(p, id), S \ {id}, l \ {id})
  BY <1>1, <1>3 DEF Knows
<1>7. ASSUME id \in S
      PROVE  Knows([p EXCEPT ![id] = FALSE], S, l \ {id}) /\ Knows([p EXCEPT ![id] = TRUE], S, l \cup {id})
  BY <1>1, <1>4, <1>7 DEF Knows
<1> QED BY <1>1, <1>5, <1>6, <1>7 DEF WithVoter, WithLearner, AsVoter, AsLearner

\* What makeLearner makes of a voter.
Demoted(v1, v2, l, n, auto, p, id) ==
    LET w == WithVoter(Left(p, v2, id), id)
    IN  MakeLearner(Rec(<<v1, v2>>, l, n, auto, p), id)
          = IF id \in v2 THEN Rec(<<v1 \ {id}, v2>>, l \ {id}, (n \ {id}) \cup {id}, auto, w)
            ELSE Rec(<<v1 \ {id}, v2>>, (l \ {id}) \cup {id}, n \ {id}, auto, AsLearner(w, id))

\* makeLearner of a voter (confchange.go:206-230).
LEMMA MakeLearnerRec ==
    ASSUME NEW v1, NEW v2, NEW l, NEW n, NEW auto, NEW S, NEW p, NEW id \in S,
           Knows(p, S, l), id \notin l
    PROVE  Demoted(v1, v2, l, n, auto, p, id)
<1> DEFINE t == Rec(<<v1, v2>>, l, n, auto, p)
           v == <<v1 \ {id}, v2>>
           m == l \ {id}
           k == n \ {id}
           q == Left(p, v2, id)
           w == WithVoter(q, id)
           t1 == [Remove(t, id) EXCEPT !.prs = With(@, id, FALSE)]
<1>0. DOMAIN p = S /\ ~p[id]
  BY DEF Knows
<1>1. t.voters[2] = v2 /\ t.prs = p /\ Tracked(t) = DOMAIN p
  BY DEF Rec, Tracked
<1>2. MakeLearner(t, id) = IF id \in v2 THEN [t1 EXCEPT !.learnersNext = @ \cup {id}]
                           ELSE [t1 EXCEPT !.learners = @ \cup {id}, !.prs[id] = TRUE]
  <2> HIDE DEF t, t1
  <2>1. MakeLearner(t, id) = IF id \in t.voters[2] THEN [t1 EXCEPT !.learnersNext = @ \cup {id}]
                             ELSE [t1 EXCEPT !.learners = @ \cup {id}, !.prs[id] = TRUE]
    BY <1>0, <1>1, Zenon DEF MakeLearner, t1
  <2> QED BY <1>1, <2>1
<1>3. Remove(t, id) = Rec(v, m, k, auto, q)
  BY <1>0, RemoveRec
<1>4. t1 = Rec(v, m, k, auto, w)
  <2> HIDE DEF t, v, m, k, q
  <2>1. t1 = [Rec(v, m, k, auto, q) EXCEPT !.prs = w]
    BY <1>3 DEF Rec, WithVoter
  <2> HIDE DEF w
  <2>2. [[voters |-> v, learners |-> m, learnersNext |-> k, autoLeave |-> auto, prs |-> q, err |-> "nil"] EXCEPT !.prs = w]
          \in [voters : {v}, learners : {m}, learnersNext : {k}, autoLeave : {auto}, prs : {w}, err : {"nil"}]
    OBVIOUS
  <2>3. [Rec(v, m, k, auto, q) EXCEPT !.prs = w]
          \in [voters : {v}, learners : {m}, learnersNext : {k}, autoLeave : {auto}, prs : {w}, err : {"nil"}]
    BY <2>2 DEF Rec
  <2>4. [Rec(v, m, k, auto, q) EXCEPT !.prs = w] = Rec(v, m, k, auto, w)
    BY <2>3, RecIs
  <2> QED BY <2>1, <2>4
<1> HIDE DEF t1, w, q, v, m, k
<1>5. [t1 EXCEPT !.learnersNext = @ \cup {id}] = Rec(v, m, k \cup {id}, auto, w)
  <2> DEFINE u == [[voters |-> v, learners |-> m, learnersNext |-> k, autoLeave |-> auto, prs |-> w, err |-> "nil"]
                      EXCEPT !.learnersNext = @ \cup {id}]
  <2>1. u \in [voters : {v}, learners : {m}, learnersNext : {k \cup {id}}, autoLeave : {auto}, prs : {w}, err : {"nil"}]
    OBVIOUS
  <2>2. [t1 EXCEPT !.learnersNext = @ \cup {id}] = u
    BY <1>4 DEF Rec
  <2> HIDE DEF u
  <2> QED BY <2>1, <2>2, RecIs
<1>6. [t1 EXCEPT !.learners = @ \cup {id}, !.prs[id] = TRUE]
        = Rec(v, m \cup {id}, k, auto, AsLearner(w, id))
  <2> DEFINE x == AsLearner(w, id)
             u == [[voters |-> v, learners |-> m, learnersNext |-> k, autoLeave |-> auto, prs |-> w, err |-> "nil"]
                      EXCEPT !.learners = @ \cup {id}, !.prs[id] = TRUE]
  <2>1. u \in [voters : {v}, learners : {m \cup {id}}, learnersNext : {k}, autoLeave : {auto}, prs : {x}, err : {"nil"}]
    BY DEF AsLearner
  <2>2. [t1 EXCEPT !.learners = @ \cup {id}, !.prs[id] = TRUE] = u
    BY <1>4 DEF Rec
  <2> HIDE DEF u, x
  <2>3. u = Rec(v, m \cup {id}, k, auto, x)
    BY <2>1, RecIs
  <2> QED BY <2>2, <2>3 DEF x
<1> HIDE DEF t
<1>7. MakeLearner(t, id) = IF id \in v2 THEN Rec(v, m, k \cup {id}, auto, w)
                           ELSE Rec(v, m \cup {id}, k, auto, AsLearner(w, id))
  BY <1>2, <1>5, <1>6
<1> QED BY <1>7, Zenon DEF Demoted, t, v, m, k, w, q

\* makeVoter.
LEMMA MakeVoterIs ==
    ASSUME NEW v1, NEW v2, NEW l, NEW n, NEW auto, NEW id, Apart(v1, v2, l, n)
    PROVE  MakeVoter(Tracker(v1, v2, l, n, auto), id)
             = Tracker(v1 \cup {id}, v2, l \ {id}, n \ {id}, auto)
<1> DEFINE S == Members(v1, v2, l, n)
           p == [x \in S |-> x \in l]
           t == Rec(<<v1, v2>>, l, n, auto, p)
<1>1. Tracker(v1, v2, l, n, auto) = t /\ Knows(p, S, l) /\ DOMAIN p = S
  BY KnowsIs, Zenon DEF Tracker
<1> HIDE DEF p
<1>2. Tracked(t) = S
  BY <1>1 DEF Tracked, Rec
<1>3. CASE id \notin S
  <2>1. MakeVoter(t, id) = Rec(<<v1 \cup {id}, v2>>, l, n, auto, WithVoter(p, id))
    BY <1>1, <1>3, InitVoterRec
  <2>2. l = l \ {id} /\ n = n \ {id} /\ S \cup {id} = Members(v1 \cup {id}, v2, l \ {id}, n \ {id})
    BY <1>3 DEF Members
  <2>3. Knows(WithVoter(p, id), Members(v1 \cup {id}, v2, l \ {id}, n \ {id}), l \ {id})
    <3>1. Knows(WithVoter(p, id), S \cup {id}, l \ {id})
      BY <1>1, MapsKnow
    <3> QED BY <2>2, <3>1
  <2>4. Rec(<<v1 \cup {id}, v2>>, l \ {id}, n \ {id}, auto, WithVoter(p, id))
          = Tracker(v1 \cup {id}, v2, l \ {id}, n \ {id}, auto)
    BY <2>3, IsTracker
  <2> QED BY <1>1, <2>1, <2>2, <2>4
<1>4. CASE id \in S
  <2>1. MakeVoter(t, id) = Rec(<<v1 \cup {id}, v2>>, l \ {id}, n \ {id}, auto, AsVoter(p, id))
    BY <1>1, <1>4, MakeVoterRec
  <2>2. S = Members(v1 \cup {id}, v2, l \ {id}, n \ {id})
    BY <1>4 DEF Members
  <2>3. Knows(AsVoter(p, id), Members(v1 \cup {id}, v2, l \ {id}, n \ {id}), l \ {id})
    BY <1>1, <1>4, <2>2, MapsKnow
  <2> QED BY <1>1, <2>1, <2>3, IsTracker
<1> QED BY <1>3, <1>4

\* remove.
LEMMA RemoveIs ==
    ASSUME NEW v1, NEW v2, NEW l, NEW n, NEW auto, NEW id, Apart(v1, v2, l, n)
    PROVE  Remove(Tracker(v1, v2, l, n, auto), id)
             = Tracker(v1 \ {id}, v2, l \ {id}, n \ {id}, auto)
<1> DEFINE S == Members(v1, v2, l, n)
           p == [x \in S |-> x \in l]
           t == Rec(<<v1, v2>>, l, n, auto, p)
<1>1. Tracker(v1, v2, l, n, auto) = t /\ Knows(p, S, l) /\ DOMAIN p = S
  BY KnowsIs, Zenon DEF Tracker
<1> HIDE DEF p
<1>2. Tracked(t) = S
  BY <1>1 DEF Tracked, Rec
<1>3. CASE id \notin S
  <2>1. v1 = v1 \ {id} /\ l = l \ {id} /\ n = n \ {id}
    BY <1>3 DEF Members
  <2>2. Remove(t, id) = t
    BY <1>2, <1>3, Zenon DEF Remove
  <2> QED BY <1>1, <2>1, <2>2
<1>4. CASE id \in S
  <2> DEFINE q == Left(p, v2, id)
  <2>1. Remove(t, id) = Rec(<<v1 \ {id}, v2>>, l \ {id}, n \ {id}, auto, q)
    BY <1>1, <1>4, RemoveRec
  <2>2. Knows(q, Members(v1 \ {id}, v2, l \ {id}, n \ {id}), l \ {id})
    <3>1. CASE id \in v2
      <4>1. l = l \ {id} /\ S = Members(v1 \ {id}, v2, l \ {id}, n \ {id})
        BY <3>1 DEF Members, Apart
      <4>2. q = p
        BY <3>1 DEF Left
      <4> HIDE DEF q
      <4> QED BY <1>1, <4>1, <4>2
    <3>2. CASE id \notin v2
      <4>1. S \ {id} = Members(v1 \ {id}, v2, l \ {id}, n \ {id})
        BY <3>2 DEF Members
      <4>2. q = Without(p, id)
        BY <3>2 DEF Left
      <4> HIDE DEF q
      <4>3. Knows(Without(p, id), S \ {id}, l \ {id})
        BY <1>1, MapsKnow
      <4> QED BY <4>1, <4>2, <4>3
    <3> QED BY <3>1, <3>2
  <2> HIDE DEF q
  <2> QED BY <1>1, <2>1, <2>2, IsTracker
<1> QED BY <1>3, <1>4

\* A voter of the outgoing half becomes a learner to come, another id a learner.
Learners(l, v2, id) == IF id \in v2 THEN l ELSE l \cup {id}
LearnersNext(n, v2, id) == IF id \in v2 THEN n \cup {id} ELSE n

\* makeLearner.
LEMMA MakeLearnerIs ==
    ASSUME NEW v1, NEW v2, NEW l, NEW n, NEW auto, NEW id, Apart(v1, v2, l, n)
    PROVE  MakeLearner(Tracker(v1, v2, l, n, auto), id)
             = Tracker(v1 \ {id}, v2, Learners(l, v2, id), LearnersNext(n, v2, id), auto)
<1> USE DEF Learners, LearnersNext
<1> DEFINE S == Members(v1, v2, l, n)
           p == [x \in S |-> x \in l]
           t == Rec(<<v1, v2>>, l, n, auto, p)
<1>1. Tracker(v1, v2, l, n, auto) = t /\ Knows(p, S, l) /\ DOMAIN p = S
  BY KnowsIs, Zenon DEF Tracker
<1> HIDE DEF p
<1>2. Tracked(t) = S /\ t.prs = p
  BY <1>1 DEF Tracked, Rec
<1>3. CASE id \notin S
  <2>1. MakeLearner(t, id) = Rec(<<v1, v2>>, l \cup {id}, n, auto, WithLearner(p, id))
    BY <1>1, <1>3, InitLearnerRec
  <2>2. v1 = v1 \ {id} /\ id \notin v2 /\ S \cup {id} = Members(v1, v2, l \cup {id}, n)
    BY <1>3 DEF Members
  <2>3. Knows(WithLearner(p, id), Members(v1, v2, l \cup {id}, n), l \cup {id})
    <3>1. Knows(WithLearner(p, id), S \cup {id}, l \cup {id})
      BY <1>1, MapsKnow
    <3> QED BY <2>2, <3>1
  <2>4. MakeLearner(t, id) = Tracker(v1, v2, l \cup {id}, n, auto)
    BY <2>1, <2>3, IsTracker
  <2> QED BY <1>1, <2>2, <2>4
<1>4. CASE id \in S /\ p[id]
  <2>1. MakeLearner(t, id) = t
    BY <1>2, <1>4, Zenon DEF MakeLearner
  <2>2. id \in l
    BY <1>1, <1>4 DEF Knows
  <2>3. v1 = v1 \ {id} /\ id \notin v2 /\ l \cup {id} = l
    BY <2>2 DEF Apart
  <2> QED BY <1>1, <2>1, <2>3
<1>5. CASE id \in S /\ ~p[id]
  <2> DEFINE q == Left(p, v2, id)
             w == WithVoter(q, id)
  <2>0. id \notin l
    BY <1>1, <1>5 DEF Knows
  <2>1. MakeLearner(t, id)
          = IF id \in v2 THEN Rec(<<v1 \ {id}, v2>>, l \ {id}, (n \ {id}) \cup {id}, auto, w)
            ELSE Rec(<<v1 \ {id}, v2>>, (l \ {id}) \cup {id}, n \ {id}, auto, AsLearner(w, id))
    <3>1. id \in S /\ Knows(p, S, l) /\ id \notin l
      BY <1>1, <1>5, <2>0
    <3>2. Demoted(v1, v2, l, n, auto, p, id)
      <4> HIDE DEF S
      <4> QED BY <3>1, MakeLearnerRec
    <3> QED BY <3>2, Zenon DEF Demoted
  <2>2. CASE id \in v2
    <3>1. l \ {id} = l /\ (n \ {id}) \cup {id} = n \cup {id} /\ S \cup {id} = Members(v1 \ {id}, v2, l, n \cup {id})
      BY <2>0, <2>2 DEF Members
    <3>2. q = p
      BY <2>2 DEF Left
    <3> HIDE DEF q
    <3>3. Knows(w, S \cup {id}, l \ {id})
      BY <1>1, <3>2, MapsKnow
    <3> HIDE DEF w
    <3>4. Rec(<<v1 \ {id}, v2>>, l, n \cup {id}, auto, w) = Tracker(v1 \ {id}, v2, l, n \cup {id}, auto)
      BY <3>1, <3>3, IsTracker
    <3> QED BY <1>1, <2>1, <2>2, <3>1, <3>4
  <2>3. CASE id \notin v2
    <3>1. /\ (l \ {id}) \cup {id} = l \cup {id} /\ n \ {id} = n
          /\ (S \ {id}) \cup {id} = Members(v1 \ {id}, v2, l \cup {id}, n)
          /\ ((l \ {id}) \ {id}) \cup {id} = l \cup {id}
      BY <1>5, <2>3 DEF Members, Apart
    <3>2. q = Without(p, id)
      BY <2>3 DEF Left
    <3> HIDE DEF q
    <3>3. Knows(q, S \ {id}, l \ {id})
      BY <1>1, <3>2, MapsKnow
    <3>4. Knows(w, (S \ {id}) \cup {id}, (l \ {id}) \ {id})
      BY <3>3, MapsKnow
    <3> HIDE DEF w
    <3>5. Knows(AsLearner(w, id), (S \ {id}) \cup {id}, ((l \ {id}) \ {id}) \cup {id})
      <4>1. id \in (S \ {id}) \cup {id}
        OBVIOUS
      <4> QED BY <3>4, <4>1, MapsKnow, Zenon
    <3> DEFINE x == AsLearner(w, id)
    <3>6. Rec(<<v1 \ {id}, v2>>, l \cup {id}, n, auto, AsLearner(w, id))
            = Tracker(v1 \ {id}, v2, l \cup {id}, n, auto)
      <4>1. Knows(x, Members(v1 \ {id}, v2, l \cup {id}, n), l \cup {id})
        BY <3>1, <3>5
      <4> HIDE DEF x
      <4>2. Rec(<<v1 \ {id}, v2>>, l \cup {id}, n, auto, x) = Tracker(v1 \ {id}, v2, l \cup {id}, n, auto)
        BY <4>1, IsTracker
      <4> QED BY <4>2 DEF x
    <3> QED BY <1>1, <2>1, <2>3, <3>1, <3>6
  <2> QED BY <2>2, <2>3
<1> QED BY <1>3, <1>4, <1>5

-----------------------------------------------------------------------------
(* Sequences of changes *)

\* One round of apply (confchange.go:153-171) or of chain (restore.go:99-110).
Round(kind, t, cc) ==
    IF kind = "apply" THEN ApplyOne(t, cc)
    ELSE IF t.err # "nil" THEN t ELSE Simple(t, <<cc>>)

\* The states the loop over ccs goes through.
IsLoop(kind, t, ccs, f) ==
    f = [n \in 0..Len(ccs) |-> IF n = 0 THEN t ELSE Round(kind, f[n - 1], ccs[n])]

\* The loop over ccs leads from t to t2.
Runs(kind, t, ccs, t2) == \E f : IsLoop(kind, t, ccs, f) /\ f[Len(ccs)] = t2

\* Every loop runs to its end.
LEMMA LoopExists ==
    ASSUME NEW kind, NEW t, NEW ccs, Len(ccs) \in Nat
    PROVE  \E f : IsLoop(kind, t, ccs, f)
<1> DEFINE UpToRound(g, n) == g = [k \in 0..n |-> IF k = 0 THEN t ELSE Round(kind, g[k - 1], ccs[k])]
           Missing == {n \in Nat : ~ \E g : UpToRound(g, n)}
<1>1. Missing = {}
  <2> SUFFICES ASSUME Missing # {} PROVE FALSE
    OBVIOUS
  <2>1. PICK x \in Missing : \A y \in Missing : x <= y
    BY LeastNat
  <2>2. x # 0
    <3>1. UpToRound([k \in 0..0 |-> t], 0)
      OBVIOUS
    <3> QED BY <2>1, <3>1
  <2>3. x - 1 \in Nat /\ x - 1 \notin Missing
    <3> HIDE DEF UpToRound
    <3>1. x \in Nat
      BY <2>1
    <3> QED BY <2>1, <2>2, <3>1
  <2>4. PICK g : UpToRound(g, x - 1)
    BY <2>3
  <2> DEFINE h == [k \in 0..x |-> IF k < x THEN g[k] ELSE Round(kind, g[x - 1], ccs[x])]
  <2>5. UpToRound(h, x)
    <3>1. \A k \in 0..x : h[k] = IF k = 0 THEN t ELSE Round(kind, h[k - 1], ccs[k])
      BY <2>1, <2>2, <2>4
    <3>2. h = [k \in 0..x |-> h[k]]
      OBVIOUS
    <3> HIDE DEF h
    <3> QED BY <3>1, <3>2
  <2> QED BY <2>1, <2>5
<1> QED BY <1>1 DEF IsLoop

\* There is one way to run it.
LEMMA LoopUnique ==
    ASSUME NEW kind, NEW t, NEW ccs, Len(ccs) \in Nat,
           NEW f, NEW g, IsLoop(kind, t, ccs, f), IsLoop(kind, t, ccs, g)
    PROVE  f = g
<1> DEFINE N == Len(ccs)
           Differ == {k \in Nat : k <= N /\ f[k] # g[k]}
<1>1. /\ f = [k \in 0..N |-> f[k]] /\ g = [k \in 0..N |-> g[k]]
      /\ \A k \in 0..N : /\ f[k] = IF k = 0 THEN t ELSE Round(kind, f[k - 1], ccs[k])
                         /\ g[k] = IF k = 0 THEN t ELSE Round(kind, g[k - 1], ccs[k])
  BY DEF IsLoop
<1>2. Differ = {}
  <2> SUFFICES ASSUME Differ # {} PROVE FALSE
    OBVIOUS
  <2>1. PICK x \in Differ : \A y \in Differ : x <= y
    BY LeastNat
  <2>2. x \in 0..N /\ f[x] # g[x] /\ x # 0
    <3>1. x \in Nat /\ x <= N /\ f[x] # g[x]
      BY <2>1
    <3>2. x \in 0..N /\ 0 \in 0..N
      BY <3>1
    <3>3. f[0] = t /\ g[0] = t
      BY <1>1, <3>2
    <3> QED BY <3>1, <3>2, <3>3
  <2>3. x - 1 \in Nat /\ x - 1 <= N /\ x - 1 \notin Differ
    BY <2>1, <2>2
  <2> QED BY <1>1, <2>2, <2>3
<1>3. \A k \in 0..N : f[k] = g[k]
  BY <1>2
<1> QED BY <1>1, <1>3

\* apply and chain are these loops.
LEMMA LoopsAre ==
    ASSUME NEW t, NEW ccs, Len(ccs) \in Nat, NEW t2
    PROVE  /\ Runs("apply", t, ccs, t2) <=> ApplyAll(t, ccs) = t2
           /\ Runs("simple", t, ccs, t2) <=> SimpleChain(t, ccs) = t2
<1>1. PICK f : IsLoop("apply", t, ccs, f) /\ ApplyAll(t, ccs) = f[Len(ccs)]
  <2>1. \E f : IsLoop("apply", t, ccs, f)
    BY LoopExists
  <2> QED BY <2>1 DEF ApplyAll, IsLoop, Round
<1>2. PICK g : IsLoop("simple", t, ccs, g) /\ SimpleChain(t, ccs) = g[Len(ccs)]
  <2>1. \E g : IsLoop("simple", t, ccs, g)
    BY LoopExists
  <2> QED BY <2>1 DEF SimpleChain, IsLoop, Round
<1> QED BY <1>1, <1>2, LoopUnique DEF Runs

\* Two loops in a row.
LEMMA RunsThrough ==
    ASSUME NEW kind, NEW t, NEW t1, NEW t2, NEW C, NEW a \in Seq(C), NEW c \in Seq(C),
           Runs(kind, t, a, t1), Runs(kind, t1, c, t2)
    PROVE  Runs(kind, t, a \o c, t2)
<1>1. PICK f : IsLoop(kind, t, a, f) /\ f[Len(a)] = t1
  BY DEF Runs
<1>2. PICK g : IsLoop(kind, t1, c, g) /\ g[Len(c)] = t2
  BY DEF Runs
<1> DEFINE A == Len(a)
           B == Len(c)
           ac == a \o c
           h == [k \in 0..(A + B) |-> IF k <= A THEN f[k] ELSE g[k - A]]
<1>3. A \in Nat /\ B \in Nat /\ Len(ac) = A + B
  OBVIOUS
<1>4. (\A k \in 1..A : ac[k] = a[k]) /\ (\A k \in 1..B : ac[A + k] = c[k])
  OBVIOUS
<1>5. /\ \A k \in 0..A : f[k] = IF k = 0 THEN t ELSE Round(kind, f[k - 1], a[k])
      /\ \A k \in 0..B : g[k] = IF k = 0 THEN t1 ELSE Round(kind, g[k - 1], c[k])
  BY <1>1, <1>2 DEF IsLoop
<1> HIDE DEF A, B, ac
<1>6. ASSUME NEW k \in 0..(A + B) PROVE h[k] = IF k = 0 THEN t ELSE Round(kind, h[k - 1], ac[k])
  <2>1. CASE k <= A
    <3>1. k \in 0..A /\ h[k] = f[k]
      BY <1>3, <2>1
    <3>2. k # 0 => h[k - 1] = f[k - 1] /\ ac[k] = a[k]
      BY <1>3, <1>4, <2>1
    <3> QED BY <1>5, <3>1, <3>2
  <2>2. CASE k > A
    <3> DEFINE j == k - A
    <3>1. j \in 1..B /\ h[k] = g[j] /\ k # 0 /\ j # 0 /\ k = A + j
      BY <1>3, <2>2
    <3>2. h[k - 1] = g[j - 1]
      <4>1. CASE j = 1
        <5>1. k - 1 = A /\ h[A] = f[A] /\ g[0] = t1 /\ j - 1 = 0 /\ f[A] = t1
          BY <1>1, <1>3, <1>5, <4>1 DEF A
        <5> QED BY <5>1
      <4>2. CASE j # 1
        <5>1. k - 1 \in 0..(A + B) /\ ~(k - 1 <= A) /\ (k - 1) - A = j - 1
          BY <1>3, <3>1, <4>2
        <5> QED BY <5>1
      <4> QED BY <4>1, <4>2
    <3>3. ac[k] = c[j]
      BY <1>4, <3>1
    <3>4. g[j] = Round(kind, g[j - 1], c[j])
      <4>1. j \in 0..B
        BY <3>1
      <4> QED BY <1>5, <3>1, <4>1
    <3> HIDE DEF h, j
    <3> QED BY <3>1, <3>2, <3>3, <3>4
  <2> QED BY <1>3, <2>1, <2>2
<1>7. h = [k \in 0..(A + B) |-> h[k]]
  OBVIOUS
<1>8. h[A + B] = t2
  <2>1. CASE B = 0
    BY <1>1, <1>2, <1>3, <1>5, <2>1 DEF A, B
  <2>2. CASE B # 0
    <3>1. ~(A + B <= A) /\ A + B \in 0..(A + B) /\ (A + B) - A = B
      BY <1>3, <2>2
    <3> QED BY <1>2, <3>1 DEF B
  <2> QED BY <2>1, <2>2
<1> HIDE DEF h
<1>9. IsLoop(kind, t, ac, h)
  BY <1>3, <1>6, <1>7 DEF IsLoop
<1> QED BY <1>3, <1>8, <1>9 DEF Runs, ac

-----------------------------------------------------------------------------
(* Changes of any kind *)

Changes == [type : {"AddNode", "AddLearner", "Remove", "Update"}, id : Node \cup {0}]

\* A tracker with this outgoing half.
Within(t, v2, auto) ==
    \E v1, l, n \in SUBSET Node : t = Tracker(v1, v2, l, n, auto) /\ Apart(v1, v2, l, n)

\* Whatever a single change does, learners and voters stay apart (confchange.go:153-242).
LEMMA ApplyOneKeeps ==
    ASSUME NEW t, NEW v2 \in SUBSET Node, NEW auto, Within(t, v2, auto), NEW cc \in Changes
    PROVE  Within(ApplyOne(t, cc), v2, auto)
<1>1. PICK v1 \in SUBSET Node, l \in SUBSET Node, n \in SUBSET Node :
         t = Tracker(v1, v2, l, n, auto) /\ Apart(v1, v2, l, n)
  BY DEF Within
<1> DEFINE id == cc.id
<1>2. CASE id = 0 \/ cc.type = "Update"
  BY <1>2, Zenon DEF ApplyOne
<1>3. ASSUME ~(id = 0 \/ cc.type = "Update") PROVE id \in Node /\ id # 0
  BY <1>3 DEF Changes
<1>4. CASE id # 0 /\ cc.type = "AddNode"
  <2>1. ApplyOne(t, cc) = MakeVoter(t, id)
    BY <1>4 DEF ApplyOne
  <2>2. ApplyOne(t, cc) = Tracker(v1 \cup {id}, v2, l \ {id}, n \ {id}, auto)
    BY <1>1, <2>1, MakeVoterIs
  <2>3. Apart(v1 \cup {id}, v2, l \ {id}, n \ {id})
    BY <1>1 DEF Apart
  <2>4. v1 \cup {id} \in SUBSET Node /\ l \ {id} \in SUBSET Node /\ n \ {id} \in SUBSET Node
    BY <1>3, <1>4
  <2> HIDE DEF id
  <2> QED BY <2>2, <2>3, <2>4 DEF Within
<1>5. CASE id # 0 /\ cc.type = "AddLearner"
  <2>1. ApplyOne(t, cc) = MakeLearner(t, id)
    BY <1>5 DEF ApplyOne
  <2>2. ApplyOne(t, cc) = IF id \in v2 THEN Tracker(v1 \ {id}, v2, l, n \cup {id}, auto)
                          ELSE Tracker(v1 \ {id}, v2, l \cup {id}, n, auto)
    <3>1. ApplyOne(t, cc) = Tracker(v1 \ {id}, v2, Learners(l, v2, id), LearnersNext(n, v2, id), auto)
      BY <1>1, <2>1, MakeLearnerIs
    <3> QED BY <3>1 DEF Learners, LearnersNext
  <2>3. /\ id \in v2 => Apart(v1 \ {id}, v2, l, n \cup {id})
        /\ id \notin v2 => Apart(v1 \ {id}, v2, l \cup {id}, n)
    BY <1>1 DEF Apart
  <2>4. v1 \ {id} \in SUBSET Node /\ l \cup {id} \in SUBSET Node /\ n \cup {id} \in SUBSET Node
    BY <1>3, <1>5
  <2> HIDE DEF id
  <2> QED BY <2>2, <2>3, <2>4 DEF Within
<1>6. CASE id # 0 /\ cc.type = "Remove"
  <2>1. ApplyOne(t, cc) = Remove(t, id)
    BY <1>6 DEF ApplyOne
  <2>2. ApplyOne(t, cc) = Tracker(v1 \ {id}, v2, l \ {id}, n \ {id}, auto)
    BY <1>1, <2>1, RemoveIs
  <2>3. Apart(v1 \ {id}, v2, l \ {id}, n \ {id})
    BY <1>1 DEF Apart
  <2> HIDE DEF id
  <2> QED BY <2>2, <2>3 DEF Within
<1> QED BY <1>2, <1>4, <1>5, <1>6 DEF Changes

\* A change of any length.
LEMMA ApplyAllKeeps ==
    ASSUME NEW t, NEW v2 \in SUBSET Node, NEW auto, Within(t, v2, auto), NEW ccs \in Seq(Changes)
    PROVE  Within(ApplyAll(t, ccs), v2, auto)
<1>0. Len(ccs) \in Nat
  OBVIOUS
<1>1. PICK f : IsLoop("apply", t, ccs, f) /\ f[Len(ccs)] = ApplyAll(t, ccs)
  <2>1. Runs("apply", t, ccs, ApplyAll(t, ccs))
    BY <1>0, LoopsAre
  <2> QED BY <2>1 DEF Runs
<1> DEFINE N == Len(ccs)
           Out == {k \in Nat : k <= N /\ ~Within(f[k], v2, auto)}
<1>2. \A k \in 0..N : f[k] = IF k = 0 THEN t ELSE ApplyOne(f[k - 1], ccs[k])
  BY <1>1 DEF IsLoop, Round
<1>3. Out = {}
  <2> SUFFICES ASSUME Out # {} PROVE FALSE
    OBVIOUS
  <2>1. PICK x \in Out : \A y \in Out : x <= y
    BY LeastNat
  <2>2. x \in Nat /\ x <= N /\ ~Within(f[x], v2, auto)
    BY <2>1
  <2>3. x # 0
    BY <1>0, <1>2, <2>2
  <2>4. x - 1 \in Nat /\ x - 1 <= N /\ x - 1 \notin Out
    BY <1>0, <2>1, <2>2, <2>3
  <2>5. Within(f[x - 1], v2, auto) /\ ccs[x] \in Changes /\ f[x] = ApplyOne(f[x - 1], ccs[x])
    BY <1>0, <1>2, <2>2, <2>3, <2>4
  <2> QED BY <2>2, <2>5, ApplyOneKeeps
<1> QED BY <1>0, <1>1, <1>3

-----------------------------------------------------------------------------
(* The operations of the Changer *)

\* A refused change, for a reason other than an inconsistency.
Refusal(r) == r.err \in {"joint", "no voters", "too many", "not joint"}

LEMMA RefusedIs ==
    ASSUME NEW why \in {"joint", "no voters", "too many", "not joint"}
    PROVE  Refusal(Refused(why)) /\ Refused(why).err # "nil"
<1>1. Refused(why).err = why
  BY DEF Refused, EmptyTracker
<1> QED BY <1>1 DEF Refusal

\* AutoLeave of a configuration that is not joint.
Off == FALSE

LEMMA OffIs == Off \in BOOLEAN /\ ~Off
  BY DEF Off

\* Assignments to AutoLeave and to the outgoing half.
LEMMA AutoLeaveIs ==
    ASSUME NEW v1, NEW v2, NEW l, NEW n, NEW auto, NEW b
    PROVE  [Tracker(v1, v2, l, n, auto) EXCEPT !.autoLeave = b] = Tracker(v1, v2, l, n, b)
<1> DEFINE v == <<v1, v2>>
           p == [x \in Members(v1, v2, l, n) |-> x \in l]
           u == [[voters |-> v, learners |-> l, learnersNext |-> n, autoLeave |-> auto, prs |-> p, err |-> "nil"]
                    EXCEPT !.autoLeave = b]
<1> HIDE DEF v, p
<1>1. u \in [voters : {v}, learners : {l}, learnersNext : {n}, autoLeave : {b}, prs : {p}, err : {"nil"}]
  OBVIOUS
<1>2. [Rec(v, l, n, auto, p) EXCEPT !.autoLeave = b] = u
  BY DEF Rec
<1> HIDE DEF u
<1>3. [Rec(v, l, n, auto, p) EXCEPT !.autoLeave = b] = Rec(v, l, n, b, p)
  BY <1>1, <1>2, RecIs
<1> QED BY <1>3, Zenon DEF Tracker, v, p

LEMMA OutgoingIs ==
    ASSUME NEW v1, NEW l, NEW auto
    PROVE  [Tracker(v1, {}, l, {}, auto) EXCEPT !.voters[2] = v1] = Tracker(v1, v1, l, {}, auto)
<1> DEFINE v == <<v1, {}>>
           p == [x \in Members(v1, {}, l, {}) |-> x \in l]
           u == [[voters |-> v, learners |-> l, learnersNext |-> {}, autoLeave |-> auto, prs |-> p, err |-> "nil"]
                    EXCEPT !.voters[2] = v1]
<1>0. [v EXCEPT ![2] = v1] = <<v1, v1>>
  BY HalvesExcept
<1>a. Knows(p, Members(v1, v1, l, {}), l)
  <2>1. Members(v1, {}, l, {}) = Members(v1, v1, l, {})
    BY DEF Members
  <2> QED BY <2>1, KnowsIs
<1> HIDE DEF v, p
<1>1. u \in [voters : {[v EXCEPT ![2] = v1]}, learners : {l}, learnersNext : {{}}, autoLeave : {auto}, prs : {p}, err : {"nil"}]
  OBVIOUS
<1>2. [Rec(v, l, {}, auto, p) EXCEPT !.voters[2] = v1] = u
  BY DEF Rec
<1> HIDE DEF u
<1>3. [Rec(v, l, {}, auto, p) EXCEPT !.voters[2] = v1] = Rec(<<v1, v1>>, l, {}, auto, p)
  BY <1>0, <1>1, <1>2, RecIs
<1>4. Rec(<<v1, v1>>, l, {}, auto, p) = Tracker(v1, v1, l, {}, auto)
  BY <1>a, IsTracker
<1>5. Tracker(v1, {}, l, {}, auto) = Rec(v, l, {}, auto, p)
  BY Zenon DEF Tracker, v, p
<1> QED BY <1>3, <1>4, <1>5

\* checkAndCopy accepts the trackers there are (confchange.go:336-357).
LEMMA CopyIs ==
    ASSUME NEW v1, NEW v2, NEW l, NEW n, NEW auto, Apart(v1, v2, l, n)
    PROVE  CheckAndCopy(Tracker(v1, v2, l, n, auto)) = Tracker(v1, v2, l, n, Off)
<1> DEFINE t == Tracker(v1, v2, l, n, auto)
<1>1. CheckAndCopy(t) = CheckAndReturn([t EXCEPT !.autoLeave = Off])
  BY Zenon DEF CheckAndCopy, Off
<1>2. [t EXCEPT !.autoLeave = Off] = Tracker(v1, v2, l, n, Off)
  BY AutoLeaveIs
<1>3. CheckAndReturn(Tracker(v1, v2, l, n, Off)) = Tracker(v1, v2, l, n, Off)
  BY OffIs, TrackerConsistent
<1> HIDE DEF t
<1>4. CheckAndCopy(t) = Tracker(v1, v2, l, n, Off)
  BY <1>1, <1>2, <1>3
<1> QED BY <1>4 DEF t

\* Simple changes at most one voter (confchange.go:128-147).
LEMMA SimpleIs ==
    ASSUME NEW v1 \in SUBSET Node, NEW v2 \in SUBSET Node, NEW l \in SUBSET Node, NEW n \in SUBSET Node,
           NEW auto, NEW ccs \in Seq(Changes), Apart(v1, v2, l, n),
           NEW t, t = Tracker(v1, v2, l, n, auto)
    PROVE  \/ Refusal(Simple(t, ccs))
           \/ /\ v2 = {}
              /\ \E w1, m, k \in SUBSET Node :
                   /\ Simple(t, ccs) = Tracker(w1, {}, m, k, Off) /\ Apart(w1, {}, m, k)
                   /\ w1 # {} /\ ~(Cardinality(SymDiff(v1, w1)) > 1)
<1> DEFINE t0 == CheckAndCopy(t)
           t1 == ApplyAll(t0, ccs)
<1>1. t0 = Tracker(v1, v2, l, n, Off)
  BY CopyIs
<1>2. t0.err = "nil" /\ t.voters[1] = v1 /\ (Joint(t) <=> v2 # {})
  <2>1. t0.err = "nil"
    BY <1>1, TrackerFields
  <2> QED BY <2>1, TrackerFields
<1>3. Within(t1, v2, Off)
  <2>1. Within(t0, v2, Off)
    BY <1>1 DEF Within
  <2> HIDE DEF t0
  <2> QED BY <2>1, ApplyAllKeeps
<1>4. Simple(t, ccs) = IF Joint(t) THEN Refused("joint")
                       ELSE IF t1.voters[1] = {} THEN Refused("no voters")
                       ELSE IF Cardinality(SymDiff(v1, t1.voters[1])) > 1 THEN Refused("too many")
                       ELSE CheckAndReturn(t1)
  BY <1>2, Zenon DEF Simple
<1> HIDE DEF t0, t1
<1>5. PICK w1 \in SUBSET Node, m \in SUBSET Node, k \in SUBSET Node :
         t1 = Tracker(w1, v2, m, k, Off) /\ Apart(w1, v2, m, k)
  BY <1>3 DEF Within
<1>6. t1.voters[1] = w1
  BY <1>5, TrackerFields
<1>7. CheckAndReturn(t1) = t1
  BY <1>5, OffIs, TrackerConsistent
<1>8. CASE v2 # {} \/ w1 = {} \/ Cardinality(SymDiff(v1, w1)) > 1
  BY <1>2, <1>4, <1>6, <1>8, RefusedIs
<1>9. CASE ~(v2 # {} \/ w1 = {} \/ Cardinality(SymDiff(v1, w1)) > 1)
  <2>1. Simple(t, ccs) = t1 /\ v2 = {} /\ w1 # {} /\ ~(Cardinality(SymDiff(v1, w1)) > 1)
    BY <1>2, <1>4, <1>6, <1>7, <1>9
  <2> QED BY <1>5, <2>1
<1> QED BY <1>8, <1>9

\* EnterJoint keeps the voters as the outgoing half (confchange.go:49-79).
LEMMA EnterJointIs ==
    ASSUME NEW v1 \in SUBSET Node, NEW v2 \in SUBSET Node, NEW l \in SUBSET Node, NEW n \in SUBSET Node,
           NEW auto, NEW b \in BOOLEAN, NEW ccs \in Seq(Changes), Apart(v1, v2, l, n),
           NEW t, t = Tracker(v1, v2, l, n, auto)
    PROVE  \/ Refusal(EnterJoint(t, b, ccs))
           \/ /\ v2 = {} /\ v1 # {}
              /\ \E w1, m, k \in SUBSET Node :
                   /\ EnterJoint(t, b, ccs) = Tracker(w1, v1, m, k, b) /\ Apart(w1, v1, m, k)
                   /\ w1 # {}
<1> DEFINE t0 == CheckAndCopy(t)
           tj == [t0 EXCEPT !.voters[2] = t.voters[1]]
           t1 == ApplyAll(tj, ccs)
<1>1. t0 = Tracker(v1, v2, l, n, Off)
  BY CopyIs
<1>2. t0.err = "nil" /\ t.voters[1] = v1 /\ (Joint(t) <=> v2 # {})
  <2>1. t0.err = "nil"
    BY <1>1, TrackerFields
  <2> QED BY <2>1, TrackerFields
<1>3. EnterJoint(t, b, ccs) = IF Joint(t) THEN Refused("joint")
                              ELSE IF v1 = {} \/ t1.voters[1] = {} THEN Refused("no voters")
                              ELSE CheckAndReturn([t1 EXCEPT !.autoLeave = b])
  BY <1>2, Zenon DEF EnterJoint
<1>4. CASE v2 # {} \/ v1 = {}
  <2> HIDE DEF t0, t1, tj
  <2> QED BY <1>2, <1>3, <1>4, RefusedIs
<1>5. CASE v2 = {} /\ v1 # {}
  <2>1. n = {} /\ Apart(v1, v1, l, {})
    BY <1>5 DEF Apart
  <2>2. tj = Tracker(v1, v1, l, {}, Off)
    BY <1>1, <1>2, <1>5, <2>1, OutgoingIs
  <2>3. Within(tj, v1, Off)
    <3> HIDE DEF tj
    <3> QED BY <2>1, <2>2 DEF Within
  <2>4. Within(t1, v1, Off)
    <3> HIDE DEF tj
    <3> QED BY <2>3, ApplyAllKeeps
  <2> HIDE DEF t0, t1, tj
  <2>5. PICK w1 \in SUBSET Node, m \in SUBSET Node, k \in SUBSET Node :
           t1 = Tracker(w1, v1, m, k, Off) /\ Apart(w1, v1, m, k)
    BY <2>4 DEF Within
  <2>6. t1.voters[1] = w1
    BY <2>5, TrackerFields
  <2>7. [t1 EXCEPT !.autoLeave = b] = Tracker(w1, v1, m, k, b)
    BY <2>5, AutoLeaveIs
  <2>8. CheckAndReturn(Tracker(w1, v1, m, k, b)) = Tracker(w1, v1, m, k, b)
    BY <1>5, <2>5, TrackerConsistent
  <2>9. CASE w1 = {}
    BY <1>2, <1>3, <1>5, <2>6, <2>9, RefusedIs
  <2>10. CASE w1 # {}
    <3>1. EnterJoint(t, b, ccs) = Tracker(w1, v1, m, k, b)
      BY <1>2, <1>3, <1>5, <2>6, <2>7, <2>8, <2>10
    <3> QED BY <1>5, <2>5, <2>10, <3>1
  <2> QED BY <2>9, <2>10
<1> QED BY <1>4, <1>5

\* LeaveJoint turns the learners to come into learners, and forgets who is neither voter nor
\* learner (confchange.go:94-122).
LEMMA LeaveJointIs ==
    ASSUME NEW v1, NEW v2, NEW l, NEW n, NEW auto, Apart(v1, v2, l, n),
           NEW t, t = Tracker(v1, v2, l, n, auto)
    PROVE  \/ Refusal(LeaveJoint(t))
           \/ LeaveJoint(t) = Tracker(v1, {}, l \cup n, {}, Off) /\ Apart(v1, {}, l \cup n, {})
<1> DEFINE t0 == CheckAndCopy(t)
           learners == t.learners \cup t.learnersNext
           q == [id \in {x \in Tracked(t) : x \in t.voters[2] => x \in t.voters[1] \cup learners}
                   |-> t.prs[id] \/ id \in t.learnersNext]
           u == [t EXCEPT !.learners = learners, !.learnersNext = {},
                          !.voters = <<t.voters[1], {}>>, !.autoLeave = FALSE, !.prs = q]
<1>1. t0 = Tracker(v1, v2, l, n, Off)
  BY CopyIs
<1>2. /\ t0.err = "nil" /\ t.voters[1] = v1 /\ t.voters[2] = v2 /\ (Joint(t) <=> v2 # {})
      /\ t.learners = l /\ t.learnersNext = n /\ Tracked(t) = Members(v1, v2, l, n)
      /\ Knows(t.prs, Members(v1, v2, l, n), l)
  <2>1. t0.err = "nil"
    BY <1>1, TrackerFields
  <2> QED BY <2>1, TrackerFields
<1>3. LeaveJoint(t) = IF ~Joint(t) THEN Refused("not joint") ELSE CheckAndReturn(u)
  BY <1>2, Zenon DEF LeaveJoint
<1>4. Apart(v1, {}, l \cup n, {})
  BY DEF Apart
<1>5. Knows(q, Members(v1, {}, l \cup n, {}), l \cup n)
  <2> DEFINE p == t.prs
             D == {x \in Tracked(t) : x \in t.voters[2] => x \in t.voters[1] \cup learners}
  <2>1. D = Members(v1, {}, l \cup n, {}) /\ D \subseteq Members(v1, v2, l, n)
    BY <1>2 DEF Members
  <2>2. p \in [Members(v1, v2, l, n) -> BOOLEAN] /\ \A x \in Members(v1, v2, l, n) : p[x] <=> x \in l
    BY <1>2 DEF Knows
  <2>3. q = [id \in D |-> p[id] \/ id \in n]
    BY <1>2
  <2> HIDE DEF q, D, p
  <2>4. q \in [D -> BOOLEAN]
    BY <2>3, SMT
  <2>5. \A x \in D : q[x] <=> (p[x] \/ x \in n)
    BY <2>3, Zenon
  <2>6. \A x \in D : q[x] <=> x \in l \cup n
    BY <2>1, <2>2, <2>5
  <2> QED BY <2>1, <2>4, <2>6 DEF Knows
<1>6. u = Tracker(v1, {}, l \cup n, {}, Off)
  <2> DEFINE v == <<v1, v2>>
             w == <<v1, {}>>
             p == [x \in Members(v1, v2, l, n) |-> x \in l]
             m == l \cup n
             r == [voters |-> v, learners |-> l, learnersNext |-> n, autoLeave |-> auto, prs |-> p, err |-> "nil"]
             r2 == [r EXCEPT !.learners = m, !.learnersNext = {}, !.voters = w, !.autoLeave = Off, !.prs = q]
  <2>1. t = r
    BY Zenon DEF Tracker, Rec
  <2> HIDE DEF q, v, w, p, m
  <2>2. r2 \in [voters : {w}, learners : {m}, learnersNext : {{}}, autoLeave : {Off}, prs : {q}, err : {"nil"}]
    OBVIOUS
  <2> HIDE DEF r
  <2>3. u = r2
    BY <1>2, <2>1, Zenon DEF w, m, Off
  <2> HIDE DEF r2, u
  <2>4. u = Rec(w, m, {}, Off, q)
    BY <2>2, <2>3, RecIs
  <2>5. Rec(w, m, {}, Off, q) = Tracker(v1, {}, m, {}, Off)
    BY <1>5, IsTracker DEF w, m
  <2> QED BY <2>4, <2>5, Zenon DEF m
<1>7. CheckAndReturn(Tracker(v1, {}, l \cup n, {}, Off)) = Tracker(v1, {}, l \cup n, {}, Off)
  BY <1>4, OffIs, TrackerConsistent
<1> HIDE DEF u
<1>8. CASE v2 = {}
  BY <1>2, <1>3, <1>8, RefusedIs
<1>9. CASE v2 # {}
  BY <1>2, <1>3, <1>4, <1>6, <1>7, <1>9, Zenon
<1> QED BY <1>8, <1>9

-----------------------------------------------------------------------------
(* The changes a ConfState is turned into *)

Kinds == {"AddNode", "AddLearner", "Remove", "Update"}

Least(S) == CHOOSE x \in S : \A y \in S : x <= y

\* The change of the least id comes first.
First(type, S, s) == <<[type |-> type, id |-> Least(S)]>> \o s

\* The sets of at most k ids.
Small(ids, k) == {S \in SUBSET ids : Cardinality(S) <= k}

\* f lists the changes of the ids of each of the sets D.
IsList(type, D, f) == f = [S \in D |-> IF S = {} THEN <<>> ELSE First(type, S, f[S \ {Least(S)}])]

LEMMA LeastIs ==
    ASSUME NEW S \in SUBSET Node, S # {}
    PROVE  Least(S) \in S
  BY NodeAssumption, LeastNat DEF Least

LEMMA SubsetSize ==
    ASSUME NEW S \in SUBSET Node
    PROVE  /\ IsFiniteSet(S) /\ Cardinality(S) \in Nat /\ (Cardinality(S) = 0 <=> S = {})
           /\ \A x \in S : S \ {x} \in SUBSET Node /\ Cardinality(S \ {x}) = Cardinality(S) - 1
<1>1. IsFiniteSet(S)
  BY NodeAssumption, FS_Subset
<1> QED BY <1>1, FS_CardinalityType, FS_EmptySet, FS_RemoveElement

\* The list is there: the ids are finitely many.
LEMMA ListExists ==
    ASSUME NEW type, NEW ids \in SUBSET Node
    PROVE  \E f : IsList(type, SUBSET ids, f)
<1> DEFINE Missing == {k \in Nat : ~ \E g : IsList(type, Small(ids, k), g)}
<1>1. Missing = {}
  <2> SUFFICES ASSUME Missing # {} PROVE FALSE
    OBVIOUS
  <2>1. PICK x \in Missing : \A y \in Missing : x <= y
    BY LeastNat
  <2>2. x # 0
    <3>1. \A S \in Small(ids, 0) : S = {}
      BY SubsetSize DEF Small
    <3>2. IsList(type, Small(ids, 0), [S \in Small(ids, 0) |-> <<>>])
      BY <3>1 DEF IsList
    <3> QED BY <2>1, <3>2
  <2>3. x \in Nat /\ x - 1 \in Nat /\ x - 1 \notin Missing
    <3>1. x \in Nat
      BY <2>1
    <3> QED BY <2>1, <2>2, <3>1
  <2>4. PICK g : IsList(type, Small(ids, x - 1), g)
    BY <2>3
  <2> DEFINE D == Small(ids, x)
             E == Small(ids, x - 1)
             h == [S \in D |-> IF S = {} THEN <<>> ELSE First(type, S, g[S \ {Least(S)}])]
  <2>5. \A S \in E : g[S] = IF S = {} THEN <<>> ELSE First(type, S, g[S \ {Least(S)}])
    <3> HIDE DEF E
    <3> QED BY <2>4 DEF IsList, E
  <2>6. \A S \in D : S # {} => S \ {Least(S)} \in E
    BY <2>3, LeastIs, SubsetSize DEF Small
  <2>7. E \subseteq D
    BY <2>3, SubsetSize DEF Small
  <2> HIDE DEF D, E
  <2>8. \A S \in E : h[S] = g[S]
    BY <2>5, <2>7
  <2>9. \A S \in D : h[S] = IF S = {} THEN <<>> ELSE First(type, S, h[S \ {Least(S)}])
    BY <2>6, <2>8
  <2>10. h = [S \in D |-> h[S]]
    OBVIOUS
  <2> HIDE DEF h
  <2>11. IsList(type, D, h)
    BY <2>9, <2>10 DEF IsList
  <2> QED BY <2>1, <2>11 DEF D
<1>2. Cardinality(ids) \in Nat /\ Cardinality(ids) \notin Missing
  BY <1>1, SubsetSize
<1>3. Small(ids, Cardinality(ids)) = SUBSET ids
  <2>1. \A S \in SUBSET ids : Cardinality(S) <= Cardinality(ids)
    BY SubsetSize, FS_Subset
  <2> QED BY <2>1 DEF Small
<1> QED BY <1>2, <1>3

\* A loop over no change, and over one.
LEMMA RunsNone ==
    ASSUME NEW kind, NEW t
    PROVE  Runs(kind, t, <<>>, t)
<1> DEFINE f == [n \in 0..0 |-> t]
<1>1. IsLoop(kind, t, <<>>, f) /\ f[Len(<<>>)] = t
  BY DEF IsLoop
<1> QED BY <1>1 DEF Runs

LEMMA RunsOne ==
    ASSUME NEW kind, NEW t, NEW cc
    PROVE  Runs(kind, t, <<cc>>, Round(kind, t, cc))
<1> DEFINE f == [n \in 0..1 |-> IF n = 0 THEN t ELSE Round(kind, t, cc)]
           s == <<cc>>
<1>1. Len(s) = 1 /\ s[1] = cc
  OBVIOUS
<1>2. f[0] = t /\ f[1] = Round(kind, t, cc)
  OBVIOUS
<1>3. \A n \in 0..1 : f[n] = IF n = 0 THEN t ELSE Round(kind, f[n - 1], s[n])
  BY <1>1, <1>2
<1>4. f = [n \in 0..1 |-> f[n]]
  OBVIOUS
<1> HIDE DEF f, s
<1>5. IsLoop(kind, t, s, f)
  BY <1>1, <1>3, <1>4 DEF IsLoop
<1> QED BY <1>1, <1>2, <1>5 DEF Runs, s

\* A loop over the changes of ids: G says which tracker there is once those of some ids are made.
LEMMA ListRuns ==
    ASSUME NEW kind, NEW type \in Kinds, NEW ids \in SUBSET Node, NEW G,
           \A P \in SUBSET ids, x \in ids : Round(kind, G[P], [type |-> type, id |-> x]) = G[P \cup {x}]
    PROVE  ToChanges(type, ids) \in Seq(Changes) /\ Runs(kind, G[{}], ToChanges(type, ids), G[ids])
<1>1. PICK f : IsList(type, SUBSET ids, f) /\ ToChanges(type, ids) = f[ids]
  <2>1. \E f : IsList(type, SUBSET ids, f)
    BY ListExists
  <2> QED BY <2>1, Zenon DEF ToChanges, IsList, First, Least
<1>2. \A S \in SUBSET ids : f[S] = IF S = {} THEN <<>> ELSE First(type, S, f[S \ {Least(S)}])
  BY <1>1 DEF IsList
<1> DEFINE Fine(S) == f[S] \in Seq(Changes) /\ Runs(kind, G[ids \ S], f[S], G[ids])
           Sizes == {k \in Nat : \E S \in SUBSET ids : Cardinality(S) = k /\ ~Fine(S)}
<1>3. Sizes = {}
  <2> SUFFICES ASSUME Sizes # {} PROVE FALSE
    OBVIOUS
  <2> HIDE DEF Fine
  <2>1. PICK k \in Sizes : \A y \in Sizes : k <= y
    BY LeastNat
  <2>2. PICK S \in SUBSET ids : Cardinality(S) = k /\ ~Fine(S)
    BY <2>1
  <2>3. CASE S = {}
    <3>1. ids \ S = ids /\ f[S] = <<>>
      BY <1>2, <2>3
    <3>2. Runs(kind, G[ids], <<>>, G[ids])
      BY RunsNone
    <3>3. <<>> \in Seq(Changes)
      OBVIOUS
    <3> QED BY <2>2, <3>1, <3>2, <3>3, Zenon DEF Fine
  <2>4. CASE S # {}
    <3> DEFINE x == Least(S)
               R == S \ {x}
               c == [type |-> type, id |-> x]
    <3>1. x \in S /\ x \in Node
      BY <2>4, LeastIs
    <3>2. R \in SUBSET ids /\ Cardinality(R) \in Nat /\ Cardinality(R) < k
      BY <2>2, <3>1, SubsetSize
    <3>3. f[S] = <<c>> \o f[R]
      BY <1>2, <2>4, Zenon DEF First
    <3>4. c \in Changes
      BY <3>1 DEF Changes, Kinds
    <3>5. (ids \ S) \cup {x} = ids \ R /\ ids \ S \in SUBSET ids /\ x \in ids
      BY <3>1
    <3> HIDE DEF x, R, c
    <3>6. Fine(R)
      BY <2>1, <3>2
    <3>7. <<c>> \in Seq(Changes)
      BY <3>4
    <3>8. Runs(kind, G[ids \ S], <<c>>, G[ids \ R])
      <4>1. Round(kind, G[ids \ S], c) = G[ids \ R]
        BY <3>5 DEF c
      <4>2. Runs(kind, G[ids \ S], <<c>>, Round(kind, G[ids \ S], c))
        BY RunsOne
      <4> QED BY <4>1, <4>2
    <3>9. Runs(kind, G[ids \ S], <<c>> \o f[R], G[ids]) /\ <<c>> \o f[R] \in Seq(Changes)
      <4> DEFINE a == <<c>>
                 d == f[R]
                 g1 == G[ids \ S]
                 g2 == G[ids \ R]
                 g3 == G[ids]
      <4>1. d \in Seq(Changes) /\ Runs(kind, g2, d, g3)
        BY <3>6 DEF Fine
      <4>2. a \in Seq(Changes) /\ Runs(kind, g1, a, g2)
        BY <3>7, <3>8
      <4> HIDE DEF a, d, g1, g2, g3
      <4>3. Runs(kind, g1, a \o d, g3) /\ a \o d \in Seq(Changes)
        BY <4>1, <4>2, RunsThrough
      <4> QED BY <4>3 DEF a, d, g1, g3
    <3> QED BY <2>2, <3>3, <3>9 DEF Fine
  <2> QED BY <2>3, <2>4
<1>4. Cardinality(ids) \in Nat
  BY SubsetSize
<1>5. Fine(ids)
  <2> HIDE DEF Fine
  <2> QED BY <1>3, <1>4
<1>6. ids \ ids = {}
  OBVIOUS
<1> QED BY <1>1, <1>5, <1>6

-----------------------------------------------------------------------------
(* Restore *)

\* Simple accepts a change of at most one voter that leaves a voter (confchange.go:128-147).
LEMMA SimpleTo ==
    ASSUME NEW v1, NEW l, NEW auto, Apart(v1, {}, l, {}), NEW t, t = Tracker(v1, {}, l, {}, auto),
           NEW ccs, NEW w1, NEW m, NEW k, Apart(w1, {}, m, k), w1 # {},
           ApplyAll(Tracker(v1, {}, l, {}, Off), ccs) = Tracker(w1, {}, m, k, Off),
           ~(Cardinality(SymDiff(v1, w1)) > 1)
    PROVE  Simple(t, ccs) = Tracker(w1, {}, m, k, Off)
<1> DEFINE t0 == CheckAndCopy(t)
           t1 == ApplyAll(t0, ccs)
<1>1. t0 = Tracker(v1, {}, l, {}, Off)
  BY CopyIs
<1>2. t0.err = "nil" /\ t.voters[1] = v1 /\ ~Joint(t)
  <2>1. t0.err = "nil"
    BY <1>1, TrackerFields
  <2> QED BY <2>1, TrackerFields
<1>3. t1 = Tracker(w1, {}, m, k, Off)
  BY <1>1
<1>4. Simple(t, ccs) = IF t1.voters[1] = {} THEN Refused("no voters")
                       ELSE IF Cardinality(SymDiff(v1, t1.voters[1])) > 1 THEN Refused("too many")
                       ELSE CheckAndReturn(t1)
  BY <1>2, Zenon DEF Simple
<1> HIDE DEF t0, t1
<1>5. t1.voters[1] = w1 /\ CheckAndReturn(t1) = t1
  BY <1>3, OffIs, TrackerFields, TrackerConsistent
<1> QED BY <1>3, <1>4, <1>5

\* One change by apply, and by chain.
LEMMA RoundsAre ==
    ASSUME NEW t, NEW cc
    PROVE  /\ Round("apply", t, cc) = ApplyOne(t, cc) /\ ApplyAll(t, <<cc>>) = ApplyOne(t, cc)
           /\ t.err = "nil" => Round("simple", t, cc) = Simple(t, <<cc>>)
<1>1. Round("apply", t, cc) = ApplyOne(t, cc) /\ (t.err = "nil" => Round("simple", t, cc) = Simple(t, <<cc>>))
  BY DEF Round
<1>2. Runs("apply", t, <<cc>>, ApplyOne(t, cc))
  BY <1>1, RunsOne
<1>3. Len(<<cc>>) \in Nat
  OBVIOUS
<1>4. ApplyAll(t, <<cc>>) = ApplyOne(t, cc)
  BY <1>2, <1>3, LoopsAre
<1> QED BY <1>1, <1>4

\* ApplyOne, by the type of the change.
LEMMA OneIs ==
    ASSUME NEW t, NEW id \in Node
    PROVE  /\ ApplyOne(t, [type |-> "AddNode", id |-> id]) = MakeVoter(t, id)
           /\ ApplyOne(t, [type |-> "AddLearner", id |-> id]) = MakeLearner(t, id)
           /\ ApplyOne(t, [type |-> "Remove", id |-> id]) = Remove(t, id)
<1>1. id # 0
  BY NodeAssumption
<1> QED BY <1>1 DEF ApplyOne

\* A set of at most one element.
LEMMA AtMostOne ==
    ASSUME NEW S, NEW x, S \subseteq {x}
    PROVE  ~(Cardinality(S) > 1)
<1>1. S = {} \/ S = {x}
  OBVIOUS
<1>2. Cardinality({}) = 0 /\ Cardinality({x}) = 1
  BY FS_EmptySet, FS_Singleton
<1> QED BY <1>1, <1>2

LEMMA EmptyTrackerIs == EmptyTracker = Tracker({}, {}, {}, {}, Off)
<1> DEFINE p == [id \in Members({}, {}, {}, {}) |-> id \in {}]
<1>1. <<>> = p
  BY DEF Members
<1> HIDE DEF p
<1>2. EmptyTracker = [voters |-> <<{}, {}>>, learners |-> {}, learnersNext |-> {}, autoLeave |-> Off,
                      prs |-> p, err |-> "nil"]
  BY <1>1, Zenon DEF EmptyTracker, Off
<1> QED BY <1>2, Zenon DEF Tracker, Rec, p

\* Restore's chain over voters, from an empty tracker (restore.go:119-126).
LEMMA VotersRun ==
    ASSUME NEW ids \in SUBSET Node
    PROVE  /\ ToChanges("AddNode", ids) \in Seq(Changes)
           /\ Runs("simple", EmptyTracker, ToChanges("AddNode", ids), Tracker(ids, {}, {}, {}, Off))
<1> DEFINE G == [P \in SUBSET ids |-> Tracker(P, {}, {}, {}, Off)]
<1>1. ASSUME NEW P \in SUBSET ids, NEW x \in ids
      PROVE  Round("simple", G[P], [type |-> "AddNode", id |-> x]) = G[P \cup {x}]
  <2> DEFINE t == Tracker(P, {}, {}, {}, Off)
             w == Tracker(P \cup {x}, {}, {}, {}, Off)
             c == [type |-> "AddNode", id |-> x]
  <2>1. G[P] = t /\ G[P \cup {x}] = w
    OBVIOUS
  <2>2. Apart(P, {}, {}, {}) /\ Apart(P \cup {x}, {}, {}, {}) /\ P \cup {x} # {}
    BY DEF Apart
  <2>3. MakeVoter(t, x) = w
    <3>1. MakeVoter(t, x) = Tracker(P \cup {x}, {}, {} \ {x}, {} \ {x}, Off)
      BY <2>2, MakeVoterIs
    <3>2. {} \ {x} = {}
      OBVIOUS
    <3> QED BY <3>1, <3>2
  <2>4. t.err = "nil"
    BY TrackerFields
  <2>5. ~(Cardinality(SymDiff(P, P \cup {x})) > 1)
    <3>1. SymDiff(P, P \cup {x}) \subseteq {x}
      BY DEF SymDiff
    <3> QED BY <3>1, AtMostOne
  <2>6. ApplyOne(t, c) = w
    BY <2>3, OneIs
  <2> HIDE DEF c
  <2>7. ApplyAll(t, <<c>>) = w
    BY <2>6, RoundsAre
  <2>8. Simple(t, <<c>>) = w
    BY <2>2, <2>5, <2>7, SimpleTo
  <2>9. Round("simple", t, c) = w
    BY <2>4, <2>8, RoundsAre
  <2> QED BY <2>1, <2>9 DEF c
<1>2. G[{}] = EmptyTracker /\ G[ids] = Tracker(ids, {}, {}, {}, Off)
  BY EmptyTrackerIs
<1> HIDE DEF G
<1>3. "AddNode" \in Kinds
  BY DEF Kinds
<1>4. \A P \in SUBSET ids, x \in ids : Round("simple", G[P], [type |-> "AddNode", id |-> x]) = G[P \cup {x}]
  BY <1>1, Zenon
<1>5. /\ ToChanges("AddNode", ids) \in Seq(Changes)
      /\ Runs("simple", G[{}], ToChanges("AddNode", ids), G[ids])
  BY <1>3, <1>4, ListRuns, Zenon
<1> QED BY <1>2, <1>5

-----------------------------------------------------------------------------
(* The tracker through its changes *)

\* A configuration: it has voters, those that are to be learners among the outgoing ones only.
Config(t, v1, v2, l, n, auto) ==
    /\ t = Tracker(v1, v2, l, n, auto) /\ Apart(v1, v2, l, n)
    /\ v1 # {} /\ (v2 = {} => ~auto)

Sound(t) == \E v1, v2, l, n \in SUBSET Node, auto \in BOOLEAN : Config(t, v1, v2, l, n, auto)

\* The inductive invariant.
SoundInv == Sound(tracker) /\ outcome # "inconsistent"

\* How a change moves the voters: at most one of them, or into or out of a joint configuration.
Moves(v1, v2, w1, w2) ==
    \/ v2 = {} /\ w2 = {} /\ ~(Cardinality(SymDiff(v1, w1)) > 1)
    \/ v2 = {} /\ w2 = v1
    \/ w2 = {} /\ w1 = v1

\* What a change makes of a configuration.
Follows(v1, v2, r) ==
    \E w1, w2, m, k \in SUBSET Node, b \in BOOLEAN :
        Config(r, w1, w2, m, k, b) /\ Moves(v1, v2, w1, w2)

\* A change is refused, or it makes a configuration (raft.go:1525-1558, confchange.go:49-147).
LEMMA ChangeIs ==
    ASSUME NEW v1 \in SUBSET Node, NEW v2 \in SUBSET Node, NEW l \in SUBSET Node, NEW n \in SUBSET Node,
           NEW auto \in BOOLEAN, NEW t, Config(t, v1, v2, l, n, auto), NEW cc \in ConfChanges
    PROVE  Refusal(ApplyConfChange(t, cc)) \/ Follows(v1, v2, ApplyConfChange(t, cc))
<1>1. t = Tracker(v1, v2, l, n, auto) /\ Apart(v1, v2, l, n) /\ v1 # {}
  BY DEF Config
<1>2. cc.changes \in Seq(Changes)
  BY ConfChangesAssumption DEF Changes
<1> DEFINE r == ApplyConfChange(t, cc)
<1>3. CASE LeavesJoint(cc)
  <2>1. r = LeaveJoint(t)
    BY <1>3, Zenon DEF ApplyConfChange
  <2> HIDE DEF r
  <2>2. \/ Refusal(r)
        \/ r = Tracker(v1, {}, l \cup n, {}, Off) /\ Apart(v1, {}, l \cup n, {})
    BY <1>1, <2>1, LeaveJointIs
  <2>3. ASSUME ~Refusal(r) PROVE Follows(v1, v2, r)
    <3> DEFINE m == l \cup n
    <3>1. m \in SUBSET Node
      OBVIOUS
    <3>2. r = Tracker(v1, {}, m, {}, Off) /\ Apart(v1, {}, m, {})
      BY <2>2, <2>3
    <3> HIDE DEF m
    <3>3. Config(r, v1, {}, m, {}, Off)
      BY <1>1, <3>2, OffIs DEF Config
    <3>4. Moves(v1, v2, v1, {})
      BY DEF Moves
    <3>5. {} \in SUBSET Node
      OBVIOUS
    <3> QED BY <3>1, <3>3, <3>4, <3>5, OffIs DEF Follows
  <2> QED BY <2>3 DEF r
<1>4. CASE ~LeavesJoint(cc) /\ EntersJoint(cc)
  <2> DEFINE b == cc.transition # "JointExplicit"
  <2>1. r = EnterJoint(t, b, cc.changes)
    BY <1>4, Zenon DEF ApplyConfChange
  <2>2. b \in BOOLEAN
    OBVIOUS
  <2> HIDE DEF r, b
  <2>3. \/ Refusal(r)
        \/ v2 = {} /\ \E w1, m, k \in SUBSET Node : r = Tracker(w1, v1, m, k, b) /\ Apart(w1, v1, m, k) /\ w1 # {}
    BY <1>1, <1>2, <2>1, <2>2, EnterJointIs
  <2>4. ASSUME ~Refusal(r) PROVE Follows(v1, v2, r)
    <3>1. PICK w1 \in SUBSET Node, m \in SUBSET Node, k \in SUBSET Node :
             r = Tracker(w1, v1, m, k, b) /\ Apart(w1, v1, m, k) /\ w1 # {}
      BY <2>3, <2>4
    <3>2. Config(r, w1, v1, m, k, b)
      BY <1>1, <3>1 DEF Config
    <3>3. Moves(v1, v2, w1, v1)
      BY <2>3, <2>4 DEF Moves
    <3> QED BY <2>2, <3>2, <3>3 DEF Follows
  <2> QED BY <2>4 DEF r
<1>5. CASE ~LeavesJoint(cc) /\ ~EntersJoint(cc)
  <2>1. r = Simple(t, cc.changes)
    BY <1>5, Zenon DEF ApplyConfChange
  <2> HIDE DEF r
  <2>2. \/ Refusal(r)
        \/ /\ v2 = {}
           /\ \E w1, m, k \in SUBSET Node :
                /\ r = Tracker(w1, {}, m, k, Off) /\ Apart(w1, {}, m, k)
                /\ w1 # {} /\ ~(Cardinality(SymDiff(v1, w1)) > 1)
    BY <1>1, <1>2, <2>1, SimpleIs
  <2>3. ASSUME ~Refusal(r) PROVE Follows(v1, v2, r)
    <3>1. PICK w1 \in SUBSET Node, m \in SUBSET Node, k \in SUBSET Node :
             /\ r = Tracker(w1, {}, m, k, Off) /\ Apart(w1, {}, m, k)
             /\ w1 # {} /\ ~(Cardinality(SymDiff(v1, w1)) > 1)
      BY <2>2, <2>3
    <3>2. Config(r, w1, {}, m, k, Off)
      BY <3>1, OffIs DEF Config
    <3>3. Moves(v1, v2, w1, {})
      BY <2>2, <2>3, <3>1 DEF Moves
    <3>4. {} \in SUBSET Node
      OBVIOUS
    <3> QED BY <3>2, <3>3, <3>4, OffIs DEF Follows
  <2> QED BY <2>3 DEF r
<1> QED BY <1>3, <1>4, <1>5

\* The voters a server is bootstrapped with are a configuration.
LEMMA SoundAtFirst == Init => SoundInv
<1> SUFFICES ASSUME Init PROVE SoundInv
  OBVIOUS
<1> DEFINE ccs == ToChanges("AddNode", Bootstrap)
<1>1. tracker = SimpleChain(EmptyTracker, ccs) /\ outcome = "nil"
  BY Zenon DEF Init
<1>2. ccs \in Seq(Changes) /\ Runs("simple", EmptyTracker, ccs, Tracker(Bootstrap, {}, {}, {}, Off))
  BY NodeAssumption, VotersRun
<1> HIDE DEF ccs
<1>3. tracker = Tracker(Bootstrap, {}, {}, {}, Off)
  BY <1>1, <1>2, LoopsAre
<1>4. Config(tracker, Bootstrap, {}, {}, {}, Off)
  BY <1>3, NodeAssumption, OffIs DEF Config, Apart
<1>5. {} \in SUBSET Node /\ Bootstrap \in SUBSET Node
  BY NodeAssumption
<1>6. Sound(tracker)
  BY <1>4, <1>5, OffIs DEF Sound
<1> QED BY <1>1, <1>6 DEF SoundInv

\* A step, seen from the configuration it starts in.
LEMMA SoundStep ==
    ASSUME NEW v1 \in SUBSET Node, NEW v2 \in SUBSET Node, NEW l \in SUBSET Node, NEW n \in SUBSET Node,
           NEW auto \in BOOLEAN, Config(tracker, v1, v2, l, n, auto), NEW cc \in ConfChanges, Change(cc)
    PROVE  outcome' # "inconsistent" /\ (tracker' = tracker \/ Follows(v1, v2, tracker'))
<1> DEFINE r == ApplyConfChange(tracker, cc)
<1>1. Refusal(r) \/ Follows(v1, v2, r)
  BY ChangeIs
<1>2. outcome' = r.err /\ tracker' = IF r.err = "nil" THEN r ELSE tracker
  BY Zenon DEF Change
<1> HIDE DEF r
<1>3. CASE Refusal(r)
  <2>1. r.err # "nil" /\ r.err # "inconsistent"
    BY <1>3 DEF Refusal
  <2> QED BY <1>2, <2>1
<1>4. CASE Follows(v1, v2, r)
  <2>1. r.err = "nil"
    <3>1. PICK w1, w2, m, k, b : r = Tracker(w1, w2, m, k, b)
      BY <1>4 DEF Follows, Config
    <3> QED BY <3>1, TrackerFields
  <2> QED BY <1>2, <1>4, <2>1
<1> QED BY <1>1, <1>3, <1>4

LEMMA SoundKept == SoundInv /\ [Next]_vars => SoundInv'
<1> SUFFICES ASSUME SoundInv, [Next]_vars PROVE SoundInv'
  OBVIOUS
<1>1. CASE UNCHANGED vars
  BY <1>1 DEF SoundInv, vars
<1>2. ASSUME NEW cc \in ConfChanges, Change(cc) PROVE SoundInv'
  <2>1. PICK v1 \in SUBSET Node, v2 \in SUBSET Node, l \in SUBSET Node, n \in SUBSET Node, auto \in BOOLEAN :
           Config(tracker, v1, v2, l, n, auto)
    BY DEF SoundInv, Sound
  <2>2. outcome' # "inconsistent" /\ (tracker' = tracker \/ Follows(v1, v2, tracker'))
    BY <1>2, <2>1, SoundStep
  <2>3. Follows(v1, v2, tracker') => Sound(tracker')
    BY DEF Follows, Sound
  <2> QED BY <2>2, <2>3 DEF SoundInv
<1> QED BY <1>1, <1>2 DEF Next

\* Every configuration a server goes through is sound.
LEMMA AlwaysSound == Spec => []SoundInv
  BY SoundAtFirst, SoundKept, PTL DEF Spec

\* For every set of ids and every history of changes: no change that the Changer carries out, through
\* demotions and promotions in joint configurations, fails its own consistency check, so that a change
\* is refused only for a reason that its proposer can see (confchange.go:206-230, 278-334).
THEOREM ChangesConsistent == Spec => []NeverInconsistent
<1>1. SoundInv => NeverInconsistent
  BY DEF SoundInv, NeverInconsistent
<1> QED BY <1>1, AlwaysSound, PTL

-----------------------------------------------------------------------------
(* Quorums before and after a change *)

\* Majorities still meet when a voter joins.
LEMMA QuorumsMeetAcross ==
    ASSUME NEW v, IsFiniteSet(v), NEW x, x \notin v, NEW w, w = v \cup {x}, v # {},
           NEW Q1, NEW Q2, HasQuorum(v, Q1), HasQuorum(w, Q2)
    PROVE  Q1 \cap Q2 # {}
<1> DEFINE A == Q1 \cap v
           B == Q2 \cap w
<1>1. IsFiniteSet(w) /\ Cardinality(w) = Cardinality(v) + 1 /\ Cardinality(v) \in Nat
  BY FS_AddElement, FS_CardinalityType
<1>2. A \subseteq w /\ B \subseteq w
  OBVIOUS
<1>3. Cardinality(A) \in Nat /\ Cardinality(B) \in Nat
  BY <1>1, <1>2, FS_Subset, FS_CardinalityType
<1>4. 2 * Cardinality(A) > Cardinality(v) /\ 2 * Cardinality(B) > Cardinality(w)
  BY DEF HasQuorum
<1> HIDE DEF A, B
<1>5. Cardinality(A) + Cardinality(B) > Cardinality(w)
  BY <1>1, <1>3, <1>4
<1>6. A \cap B # {}
  BY <1>1, <1>2, <1>5, FS_MajoritiesIntersect
<1> QED BY <1>6 DEF A, B

\* Sets that differ in at most one element.
LEMMA OneApart ==
    ASSUME NEW v \in SUBSET Node, NEW w \in SUBSET Node, ~(Cardinality(SymDiff(v, w)) > 1)
    PROVE  v = w \/ \E x : (x \notin v /\ w = v \cup {x}) \/ (x \notin w /\ v = w \cup {x})
<1> DEFINE D == SymDiff(v, w)
<1>1. D \in SUBSET Node /\ IsFiniteSet(D)
  BY SubsetSize DEF SymDiff
<1>2. Cardinality(D) = 0 \/ Cardinality(D) = 1
  BY <1>1, FS_CardinalityType
<1>3. D = {} \/ \E x : D = {x}
  <2> HIDE DEF D
  <2> QED BY <1>1, <1>2, FS_EmptySet, FS_Singleton
<1>4. CASE D = {}
  BY <1>4 DEF SymDiff
<1>5. ASSUME NEW x, D = {x} PROVE (x \notin v /\ w = v \cup {x}) \/ (x \notin w /\ v = w \cup {x})
  BY <1>5 DEF SymDiff
<1> HIDE DEF D
<1> QED BY <1>3, <1>4, <1>5

\* Quorums of two configurations that a change leads from one to the other.
LEMMA MovesOverlap ==
    ASSUME NEW v1 \in SUBSET Node, NEW v2 \in SUBSET Node, NEW w1 \in SUBSET Node, NEW w2 \in SUBSET Node,
           v1 # {}, w1 # {}, Moves(v1, v2, w1, w2), NEW Q1, NEW Q2,
           HasQuorum(v1, Q1), HasQuorum(v2, Q1), HasQuorum(w1, Q2), HasQuorum(w2, Q2)
    PROVE  Q1 \cap Q2 # {}
<1>1. IsFiniteSet(v1) /\ IsFiniteSet(w1)
  BY SubsetSize
<1>2. CASE ~(Cardinality(SymDiff(v1, w1)) > 1)
  <2>1. CASE v1 = w1
    BY <1>1, <2>1, QuorumsIntersect
  <2>2. ASSUME NEW x, x \notin v1, w1 = v1 \cup {x} PROVE Q1 \cap Q2 # {}
    BY <1>1, <2>2, QuorumsMeetAcross
  <2>3. ASSUME NEW x, x \notin w1, v1 = w1 \cup {x} PROVE Q1 \cap Q2 # {}
    <3>1. Q2 \cap Q1 # {}
      BY <1>1, <2>3, QuorumsMeetAcross
    <3> QED BY <3>1
  <2> QED BY <1>2, <2>1, <2>2, <2>3, OneApart
<1>3. CASE w2 = v1
  BY <1>1, <1>3, QuorumsIntersect
<1>4. CASE w1 = v1
  BY <1>1, <1>4, QuorumsIntersect
<1> QED BY <1>2, <1>3, <1>4 DEF Moves

\* For every set of ids and every history of changes: a quorum of the configuration before a change and
\* one of the configuration after it share a voter, whether the change is simple or into or out of a
\* joint configuration (confchange.go:142-144, 64-69, 119).
THEOREM ChangesOverlap == Spec => QuorumsOverlap
<1> DEFINE Meet == \A Q1 \in SUBSET IDs(tracker.voters), Q2 \in SUBSET IDs(tracker'.voters) :
                      JointHasQuorum(tracker.voters, Q1) /\ JointHasQuorum(tracker'.voters, Q2)
                         => Q1 \cap Q2 # {}
<1>1. SoundInv /\ [Next]_vars => [Meet]_vars
  <2> SUFFICES ASSUME SoundInv, NEW cc \in ConfChanges, Change(cc),
                      NEW Q1, NEW Q2, JointHasQuorum(tracker.voters, Q1), JointHasQuorum(tracker'.voters, Q2)
               PROVE  Q1 \cap Q2 # {}
    BY DEF Next
  <2>1. PICK v1 \in SUBSET Node, v2 \in SUBSET Node, l \in SUBSET Node, n \in SUBSET Node, auto \in BOOLEAN :
           Config(tracker, v1, v2, l, n, auto)
    BY DEF SoundInv, Sound
  <2>2. tracker.voters[1] = v1 /\ tracker.voters[2] = v2 /\ v1 # {}
    BY <2>1, TrackerFields DEF Config
  <2>3. HasQuorum(v1, Q1) /\ HasQuorum(v2, Q1)
    BY <2>2 DEF JointHasQuorum
  <2>4. tracker' = tracker \/ Follows(v1, v2, tracker')
    BY <2>1, SoundStep
  <2>5. CASE tracker' = tracker
    <3>1. HasQuorum(v1, Q2)
      BY <2>2, <2>5 DEF JointHasQuorum
    <3>2. IsFiniteSet(v1)
      BY SubsetSize
    <3> QED BY <2>2, <2>3, <3>1, <3>2, QuorumsIntersect
  <2>6. CASE Follows(v1, v2, tracker')
    <3>1. PICK w1 \in SUBSET Node, w2 \in SUBSET Node, m \in SUBSET Node, k \in SUBSET Node, b \in BOOLEAN :
             Config(tracker', w1, w2, m, k, b) /\ Moves(v1, v2, w1, w2)
      BY <2>6 DEF Follows
    <3>2. tracker'.voters[1] = w1 /\ tracker'.voters[2] = w2 /\ w1 # {}
      BY <3>1, TrackerFields DEF Config
    <3>3. HasQuorum(w1, Q2) /\ HasQuorum(w2, Q2)
      BY <3>2 DEF JointHasQuorum
    <3> QED BY <2>2, <2>3, <3>1, <3>2, <3>3, MovesOverlap
  <2> QED BY <2>4, <2>5, <2>6
<1> QED BY <1>1, AlwaysSound, PTL DEF Spec, QuorumsOverlap

-----------------------------------------------------------------------------
(* What Restore makes of a ConfState *)

\* Restore's chain over learners, once there are voters.
LEMMA LearnersRun ==
    ASSUME NEW v1 \in SUBSET Node, v1 # {}, NEW ids \in SUBSET Node, ids \cap v1 = {}
    PROVE  /\ ToChanges("AddLearner", ids) \in Seq(Changes)
           /\ Runs("simple", Tracker(v1, {}, {}, {}, Off), ToChanges("AddLearner", ids),
                   Tracker(v1, {}, ids, {}, Off))
<1> DEFINE G == [P \in SUBSET ids |-> Tracker(v1, {}, P, {}, Off)]
<1>1. ASSUME NEW P \in SUBSET ids, NEW x \in ids
      PROVE  Round("simple", G[P], [type |-> "AddLearner", id |-> x]) = G[P \cup {x}]
  <2> DEFINE t == Tracker(v1, {}, P, {}, Off)
             m == P \cup {x}
             w == Tracker(v1, {}, m, {}, Off)
             c == [type |-> "AddLearner", id |-> x]
  <2>1. G[P] = t /\ G[P \cup {x}] = w
    OBVIOUS
  <2>2. Apart(v1, {}, P, {}) /\ Apart(v1, {}, m, {})
    BY DEF Apart
  <2>3. MakeLearner(t, x) = w
    <3>1. MakeLearner(t, x) = Tracker(v1 \ {x}, {}, Learners(P, {}, x), LearnersNext({}, {}, x), Off)
      BY <2>2, MakeLearnerIs
    <3>2. v1 \ {x} = v1 /\ Learners(P, {}, x) = m /\ LearnersNext({}, {}, x) = {}
      BY DEF Learners, LearnersNext
    <3> QED BY <3>1, <3>2
  <2>4. t.err = "nil"
    BY TrackerFields
  <2>5. ~(Cardinality(SymDiff(v1, v1)) > 1)
    <3>1. SymDiff(v1, v1) \subseteq {x}
      BY DEF SymDiff
    <3> QED BY <3>1, AtMostOne
  <2>6. ApplyOne(t, c) = w
    BY <2>3, OneIs
  <2> HIDE DEF c, m
  <2>7. ApplyAll(t, <<c>>) = w
    BY <2>6, RoundsAre
  <2>8. Simple(t, <<c>>) = w
    BY <2>2, <2>5, <2>7, SimpleTo
  <2>9. Round("simple", t, c) = w
    BY <2>4, <2>8, RoundsAre
  <2> QED BY <2>1, <2>9 DEF c
<1>2. G[{}] = Tracker(v1, {}, {}, {}, Off) /\ G[ids] = Tracker(v1, {}, ids, {}, Off)
  OBVIOUS
<1> HIDE DEF G
<1>3. "AddLearner" \in Kinds
  BY DEF Kinds
<1>4. \A P \in SUBSET ids, x \in ids : Round("simple", G[P], [type |-> "AddLearner", id |-> x]) = G[P \cup {x}]
  BY <1>1, Zenon
<1>5. /\ ToChanges("AddLearner", ids) \in Seq(Changes)
      /\ Runs("simple", G[{}], ToChanges("AddLearner", ids), G[ids])
  BY <1>3, <1>4, ListRuns, Zenon
<1> QED BY <1>2, <1>5

\* No ids, no changes.
LEMMA NoneRun ==
    ASSUME NEW kind, NEW type \in Kinds, NEW t
    PROVE  ToChanges(type, {}) \in Seq(Changes) /\ Runs(kind, t, ToChanges(type, {}), t)
<1> DEFINE G == [P \in SUBSET {} |-> t]
<1>1. G[{}] = t
  OBVIOUS
<1>2. \A P \in SUBSET {}, x \in {} : Round(kind, G[P], [type |-> type, id |-> x]) = G[P \cup {x}]
  OBVIOUS
<1>3. {} \in SUBSET Node
  OBVIOUS
<1> HIDE DEF G
<1>4. ToChanges(type, {}) \in Seq(Changes) /\ Runs(kind, G[{}], ToChanges(type, {}), G[{}])
  BY <1>2, <1>3, ListRuns
<1> QED BY <1>1, <1>4

\* In a joint configuration the incoming half is emptied, and filled again, and the learners are
\* added, those of the outgoing half as learners to come (restore.go:63-97).
LEMMA RemovedRun ==
    ASSUME NEW v2 \in SUBSET Node
    PROVE  /\ ToChanges("Remove", v2) \in Seq(Changes)
           /\ Runs("apply", Tracker(v2, v2, {}, {}, Off), ToChanges("Remove", v2),
                   Tracker({}, v2, {}, {}, Off))
<1> DEFINE G == [P \in SUBSET v2 |-> Tracker(v2 \ P, v2, {}, {}, Off)]
<1>1. ASSUME NEW P \in SUBSET v2, NEW x \in v2
      PROVE  Round("apply", G[P], [type |-> "Remove", id |-> x]) = G[P \cup {x}]
  <2> DEFINE t == Tracker(v2 \ P, v2, {}, {}, Off)
             w == Tracker(v2 \ (P \cup {x}), v2, {}, {}, Off)
             c == [type |-> "Remove", id |-> x]
  <2>1. G[P] = t /\ G[P \cup {x}] = w
    OBVIOUS
  <2>2. Apart(v2 \ P, v2, {}, {})
    BY DEF Apart
  <2>3. Remove(t, x) = w
    <3>1. Remove(t, x) = Tracker((v2 \ P) \ {x}, v2, {} \ {x}, {} \ {x}, Off)
      BY <2>2, RemoveIs
    <3>2. (v2 \ P) \ {x} = v2 \ (P \cup {x}) /\ {} \ {x} = {}
      OBVIOUS
    <3> QED BY <3>1, <3>2
  <2>4. ApplyOne(t, c) = w
    BY <2>3, OneIs
  <2> HIDE DEF c
  <2>5. Round("apply", t, c) = w
    BY <2>4, RoundsAre
  <2> QED BY <2>1, <2>5 DEF c
<1>2. G[{}] = Tracker(v2, v2, {}, {}, Off) /\ G[v2] = Tracker({}, v2, {}, {}, Off)
  <2>1. v2 \ {} = v2 /\ v2 \ v2 = {}
    OBVIOUS
  <2>2. G[{}] = Tracker(v2 \ {}, v2, {}, {}, Off) /\ G[v2] = Tracker(v2 \ v2, v2, {}, {}, Off)
    OBVIOUS
  <2> QED BY <2>1, <2>2, Zenon
<1> HIDE DEF G
<1>3. "Remove" \in Kinds
  BY DEF Kinds
<1>4. \A P \in SUBSET v2, x \in v2 : Round("apply", G[P], [type |-> "Remove", id |-> x]) = G[P \cup {x}]
  BY <1>1, Zenon
<1>5. /\ ToChanges("Remove", v2) \in Seq(Changes)
      /\ Runs("apply", G[{}], ToChanges("Remove", v2), G[v2])
  BY <1>3, <1>4, ListRuns, Zenon
<1> QED BY <1>2, <1>5

LEMMA AddedRun ==
    ASSUME NEW v1 \in SUBSET Node, NEW v2 \in SUBSET Node
    PROVE  /\ ToChanges("AddNode", v1) \in Seq(Changes)
           /\ Runs("apply", Tracker({}, v2, {}, {}, Off), ToChanges("AddNode", v1),
                   Tracker(v1, v2, {}, {}, Off))
<1> DEFINE G == [P \in SUBSET v1 |-> Tracker(P, v2, {}, {}, Off)]
<1>1. ASSUME NEW P \in SUBSET v1, NEW x \in v1
      PROVE  Round("apply", G[P], [type |-> "AddNode", id |-> x]) = G[P \cup {x}]
  <2> DEFINE t == Tracker(P, v2, {}, {}, Off)
             w == Tracker(P \cup {x}, v2, {}, {}, Off)
             c == [type |-> "AddNode", id |-> x]
  <2>1. G[P] = t /\ G[P \cup {x}] = w
    OBVIOUS
  <2>2. Apart(P, v2, {}, {})
    BY DEF Apart
  <2>3. MakeVoter(t, x) = w
    <3>1. MakeVoter(t, x) = Tracker(P \cup {x}, v2, {} \ {x}, {} \ {x}, Off)
      BY <2>2, MakeVoterIs
    <3>2. {} \ {x} = {}
      OBVIOUS
    <3> QED BY <3>1, <3>2
  <2>4. ApplyOne(t, c) = w
    BY <2>3, OneIs
  <2> HIDE DEF c
  <2>5. Round("apply", t, c) = w
    BY <2>4, RoundsAre
  <2> QED BY <2>1, <2>5 DEF c
<1>2. G[{}] = Tracker({}, v2, {}, {}, Off) /\ G[v1] = Tracker(v1, v2, {}, {}, Off)
  OBVIOUS
<1> HIDE DEF G
<1>3. "AddNode" \in Kinds
  BY DEF Kinds
<1>4. \A P \in SUBSET v1, x \in v1 : Round("apply", G[P], [type |-> "AddNode", id |-> x]) = G[P \cup {x}]
  BY <1>1, Zenon
<1>5. /\ ToChanges("AddNode", v1) \in Seq(Changes)
      /\ Runs("apply", G[{}], ToChanges("AddNode", v1), G[v1])
  BY <1>3, <1>4, ListRuns, Zenon
<1> QED BY <1>2, <1>5

LEMMA DemotedRun ==
    ASSUME NEW v1 \in SUBSET Node, NEW v2 \in SUBSET Node, NEW l \in SUBSET Node, NEW n \in SUBSET Node,
           Apart(v1, v2, l, n)
    PROVE  /\ ToChanges("AddLearner", l) \in Seq(Changes) /\ ToChanges("AddLearner", n) \in Seq(Changes)
           /\ Runs("apply", Tracker(v1, v2, {}, {}, Off), ToChanges("AddLearner", l),
                   Tracker(v1, v2, l, {}, Off))
           /\ Runs("apply", Tracker(v1, v2, l, {}, Off), ToChanges("AddLearner", n),
                   Tracker(v1, v2, l, n, Off))
<1> DEFINE G == [P \in SUBSET l |-> Tracker(v1, v2, P, {}, Off)]
           H == [P \in SUBSET n |-> Tracker(v1, v2, l, P, Off)]
<1>1. ASSUME NEW P \in SUBSET l, NEW x \in l
      PROVE  Round("apply", G[P], [type |-> "AddLearner", id |-> x]) = G[P \cup {x}]
  <2> DEFINE t == Tracker(v1, v2, P, {}, Off)
             w == Tracker(v1, v2, P \cup {x}, {}, Off)
             c == [type |-> "AddLearner", id |-> x]
  <2>1. G[P] = t /\ G[P \cup {x}] = w
    OBVIOUS
  <2>2. Apart(v1, v2, P, {})
    BY DEF Apart
  <2>3. MakeLearner(t, x) = w
    <3>1. MakeLearner(t, x) = Tracker(v1 \ {x}, v2, Learners(P, v2, x), LearnersNext({}, v2, x), Off)
      BY <2>2, MakeLearnerIs
    <3>2. v1 \ {x} = v1 /\ Learners(P, v2, x) = P \cup {x} /\ LearnersNext({}, v2, x) = {}
      BY DEF Learners, LearnersNext, Apart
    <3> QED BY <3>1, <3>2
  <2>4. ApplyOne(t, c) = w
    BY <2>3, OneIs
  <2> HIDE DEF c
  <2>5. Round("apply", t, c) = w
    BY <2>4, RoundsAre
  <2> QED BY <2>1, <2>5 DEF c
<1>2. ASSUME NEW P \in SUBSET n, NEW x \in n
      PROVE  Round("apply", H[P], [type |-> "AddLearner", id |-> x]) = H[P \cup {x}]
  <2> DEFINE t == Tracker(v1, v2, l, P, Off)
             w == Tracker(v1, v2, l, P \cup {x}, Off)
             c == [type |-> "AddLearner", id |-> x]
  <2>1. H[P] = t /\ H[P \cup {x}] = w
    OBVIOUS
  <2>2. Apart(v1, v2, l, P)
    BY DEF Apart
  <2>3. MakeLearner(t, x) = w
    <3>1. MakeLearner(t, x) = Tracker(v1 \ {x}, v2, Learners(l, v2, x), LearnersNext(P, v2, x), Off)
      BY <2>2, MakeLearnerIs
    <3>2. v1 \ {x} = v1 /\ Learners(l, v2, x) = l /\ LearnersNext(P, v2, x) = P \cup {x}
      BY DEF Learners, LearnersNext, Apart
    <3> QED BY <3>1, <3>2
  <2>4. ApplyOne(t, c) = w
    BY <2>3, OneIs
  <2> HIDE DEF c
  <2>5. Round("apply", t, c) = w
    BY <2>4, RoundsAre
  <2> QED BY <2>1, <2>5 DEF c
<1>3. /\ G[{}] = Tracker(v1, v2, {}, {}, Off) /\ G[l] = Tracker(v1, v2, l, {}, Off)
      /\ H[{}] = Tracker(v1, v2, l, {}, Off) /\ H[n] = Tracker(v1, v2, l, n, Off)
  OBVIOUS
<1> HIDE DEF G, H
<1>4. "AddLearner" \in Kinds
  BY DEF Kinds
<1>5. /\ \A P \in SUBSET l, x \in l : Round("apply", G[P], [type |-> "AddLearner", id |-> x]) = G[P \cup {x}]
      /\ \A P \in SUBSET n, x \in n : Round("apply", H[P], [type |-> "AddLearner", id |-> x]) = H[P \cup {x}]
  BY <1>1, <1>2, Zenon
<1>6. /\ ToChanges("AddLearner", l) \in Seq(Changes)
      /\ Runs("apply", G[{}], ToChanges("AddLearner", l), G[l])
  BY <1>4, <1>5, ListRuns, Zenon
<1>7. /\ ToChanges("AddLearner", n) \in Seq(Changes)
      /\ Runs("apply", H[{}], ToChanges("AddLearner", n), H[n])
  BY <1>4, <1>5, ListRuns, Zenon
<1> QED BY <1>3, <1>6, <1>7

\* Four loops in a row.
LEMMA RunsFour ==
    ASSUME NEW kind, NEW t, NEW t1, NEW t2, NEW t3, NEW t4,
           NEW a \in Seq(Changes), NEW b \in Seq(Changes), NEW c \in Seq(Changes), NEW d \in Seq(Changes),
           Runs(kind, t, a, t1), Runs(kind, t1, b, t2), Runs(kind, t2, c, t3), Runs(kind, t3, d, t4)
    PROVE  a \o b \o c \o d \in Seq(Changes) /\ Runs(kind, t, a \o b \o c \o d, t4)
<1> DEFINE ab == a \o b
           abc == ab \o c
<1>1. ab \in Seq(Changes) /\ Runs(kind, t, ab, t2)
  BY RunsThrough
<1> HIDE DEF ab
<1>2. abc \in Seq(Changes) /\ Runs(kind, t, abc, t3)
  BY <1>1, RunsThrough
<1> HIDE DEF abc
<1>3. abc \o d \in Seq(Changes) /\ Runs(kind, t, abc \o d, t4)
  BY <1>2, RunsThrough
<1> QED BY <1>3 DEF ab, abc

\* EnterJoint, when the changes leave voters and learners apart.
LEMMA EnterJointTo ==
    ASSUME NEW v1, v1 # {}, NEW t, t = Tracker(v1, {}, {}, {}, Off), NEW b \in BOOLEAN, NEW ccs,
           NEW w1, NEW m, NEW k, w1 # {}, Apart(w1, v1, m, k),
           ApplyAll(Tracker(v1, v1, {}, {}, Off), ccs) = Tracker(w1, v1, m, k, Off)
    PROVE  EnterJoint(t, b, ccs) = Tracker(w1, v1, m, k, b)
<1> DEFINE t0 == CheckAndCopy(t)
           tj == [t0 EXCEPT !.voters[2] = t.voters[1]]
           t1 == ApplyAll(tj, ccs)
<1>0. Apart(v1, {}, {}, {})
  BY DEF Apart
<1>1. t0 = Tracker(v1, {}, {}, {}, Off)
  BY <1>0, CopyIs
<1>2. t0.err = "nil" /\ t.voters[1] = v1 /\ ~Joint(t)
  <2>1. t0.err = "nil"
    BY <1>1, TrackerFields
  <2> QED BY <2>1, TrackerFields
<1>3. EnterJoint(t, b, ccs) = IF t1.voters[1] = {} THEN Refused("no voters")
                              ELSE CheckAndReturn([t1 EXCEPT !.autoLeave = b])
  BY <1>2, Zenon DEF EnterJoint
<1>4. tj = Tracker(v1, v1, {}, {}, Off)
  BY <1>1, <1>2, OutgoingIs
<1>5. t1 = Tracker(w1, v1, m, k, Off)
  BY <1>4
<1> HIDE DEF t0, tj, t1
<1>6. t1.voters[1] = w1
  BY <1>5, TrackerFields
<1>7. [t1 EXCEPT !.autoLeave = b] = Tracker(w1, v1, m, k, b)
  BY <1>5, AutoLeaveIs
<1>8. CheckAndReturn(Tracker(w1, v1, m, k, b)) = Tracker(w1, v1, m, k, b)
  BY TrackerConsistent
<1> QED BY <1>3, <1>6, <1>7, <1>8

\* Restore of a configuration that is not joint (restore.go:132-139).
LEMMA RestoreSimple ==
    ASSUME NEW v1 \in SUBSET Node, NEW l \in SUBSET Node, v1 # {}, l \cap v1 = {}
    PROVE  SimpleChain(EmptyTracker, ToChanges("Remove", {}) \o ToChanges("AddNode", v1)
                         \o ToChanges("AddLearner", l) \o ToChanges("AddLearner", {}))
             = Tracker(v1, {}, l, {}, Off)
<1> DEFINE a == ToChanges("Remove", {})
           b == ToChanges("AddNode", v1)
           c == ToChanges("AddLearner", l)
           d == ToChanges("AddLearner", {})
           t2 == Tracker(v1, {}, {}, {}, Off)
           t3 == Tracker(v1, {}, l, {}, Off)
<1>1. a \in Seq(Changes) /\ Runs("simple", EmptyTracker, a, EmptyTracker)
  BY NoneRun DEF Kinds
<1>2. b \in Seq(Changes) /\ Runs("simple", EmptyTracker, b, t2)
  BY VotersRun
<1>3. c \in Seq(Changes) /\ Runs("simple", t2, c, t3)
  BY LearnersRun
<1>4. d \in Seq(Changes) /\ Runs("simple", t3, d, t3)
  BY NoneRun DEF Kinds
<1> HIDE DEF a, b, c, d, t2, t3
<1>5. a \o b \o c \o d \in Seq(Changes) /\ Runs("simple", EmptyTracker, a \o b \o c \o d, t3)
  BY <1>1, <1>2, <1>3, <1>4, RunsFour
<1>6. SimpleChain(EmptyTracker, a \o b \o c \o d) = t3
  <2> DEFINE s == a \o b \o c \o d
  <2>1. Len(s) \in Nat /\ Runs("simple", EmptyTracker, s, t3)
    BY <1>5
  <2> HIDE DEF s
  <2>2. SimpleChain(EmptyTracker, s) = t3
    BY <2>1, LoopsAre
  <2> QED BY <2>2 DEF s
<1> QED BY <1>6 DEF a, b, c, d, t3

\* Restore of a joint configuration, the second half of it (restore.go:140-152).
LEMMA RestoreJoint ==
    ASSUME NEW v1 \in SUBSET Node, NEW v2 \in SUBSET Node, NEW l \in SUBSET Node, NEW n \in SUBSET Node,
           v1 # {}, v2 # {}, Apart(v1, v2, l, n), NEW auto \in BOOLEAN
    PROVE  EnterJoint(Tracker(v2, {}, {}, {}, Off), auto,
                      ToChanges("Remove", v2) \o ToChanges("AddNode", v1)
                         \o ToChanges("AddLearner", l) \o ToChanges("AddLearner", n))
             = Tracker(v1, v2, l, n, auto)
<1> DEFINE a == ToChanges("Remove", v2)
           b == ToChanges("AddNode", v1)
           c == ToChanges("AddLearner", l)
           d == ToChanges("AddLearner", n)
           t0 == Tracker(v2, v2, {}, {}, Off)
           t1 == Tracker({}, v2, {}, {}, Off)
           t2 == Tracker(v1, v2, {}, {}, Off)
           t3 == Tracker(v1, v2, l, {}, Off)
           t4 == Tracker(v1, v2, l, n, Off)
<1>1. a \in Seq(Changes) /\ Runs("apply", t0, a, t1)
  BY RemovedRun
<1>2. b \in Seq(Changes) /\ Runs("apply", t1, b, t2)
  BY AddedRun
<1>3. c \in Seq(Changes) /\ d \in Seq(Changes) /\ Runs("apply", t2, c, t3) /\ Runs("apply", t3, d, t4)
  BY DemotedRun
<1> HIDE DEF a, b, c, d, t0, t1, t2, t3, t4
<1> DEFINE s == a \o b \o c \o d
<1>4. s \in Seq(Changes) /\ Runs("apply", t0, s, t4)
  BY <1>1, <1>2, <1>3, RunsFour
<1>5. Len(s) \in Nat
  BY <1>4
<1> HIDE DEF s
<1>6. ApplyAll(t0, s) = t4
  BY <1>4, <1>5, LoopsAre
<1>7. EnterJoint(Tracker(v2, {}, {}, {}, Off), auto, s) = Tracker(v1, v2, l, n, auto)
  BY <1>6, EnterJointTo DEF t0, t4
<1> QED BY <1>7 DEF s, a, b, c, d

\* What a configuration's ConfState is restored to.
LEMMA RestoreIs ==
    ASSUME NEW v1 \in SUBSET Node, NEW v2 \in SUBSET Node, NEW l \in SUBSET Node, NEW n \in SUBSET Node,
           NEW auto \in BOOLEAN, NEW t, Config(t, v1, v2, l, n, auto)
    PROVE  RestoreConf(ConfState(t)) = t
<1> DEFINE cs == ConfState(t)
<1>1. t = Tracker(v1, v2, l, n, auto) /\ Apart(v1, v2, l, n) /\ v1 # {} /\ (v2 = {} => ~auto)
  BY DEF Config
<1>2. /\ cs.voters = v1 /\ cs.votersOutgoing = v2 /\ cs.learners = l /\ cs.learnersNext = n
      /\ cs.autoLeave = auto
  <2>1. t.voters[1] = v1 /\ t.voters[2] = v2 /\ t.learners = l /\ t.learnersNext = n /\ t.autoLeave = auto
    BY <1>1, TrackerFields
  <2> QED BY <2>1 DEF ConfState
<1> HIDE DEF cs
<1> DEFINE s == ToChanges("Remove", v2) \o ToChanges("AddNode", v1)
                  \o ToChanges("AddLearner", l) \o ToChanges("AddLearner", n)
<1>3. IncomingChanges(cs) = s
  BY <1>2, Zenon DEF IncomingChanges
<1>4. CASE v2 = {}
  <2>1. RestoreConf(cs) = SimpleChain(EmptyTracker, s)
    BY <1>2, <1>3, <1>4, Zenon DEF RestoreConf
  <2>2. n = {} /\ l \cap v1 = {} /\ auto = Off
    BY <1>1, <1>4 DEF Apart, Off
  <2>3. SimpleChain(EmptyTracker, s) = Tracker(v1, {}, l, {}, Off)
    BY <1>1, <1>4, <2>2, RestoreSimple, Zenon
  <2> QED BY <1>1, <1>4, <2>1, <2>2, <2>3 DEF cs
<1>5. CASE v2 # {}
  <2> DEFINE u == SimpleChain(EmptyTracker, ToChanges("AddNode", v2))
  <2>1. u = Tracker(v2, {}, {}, {}, Off)
    <3> DEFINE b == ToChanges("AddNode", v2)
    <3>1. b \in Seq(Changes) /\ Runs("simple", EmptyTracker, b, Tracker(v2, {}, {}, {}, Off))
      BY VotersRun
    <3> HIDE DEF b
    <3>2. SimpleChain(EmptyTracker, b) = Tracker(v2, {}, {}, {}, Off)
      BY <3>1, LoopsAre
    <3> QED BY <3>2 DEF b
  <2>2. u.err = "nil"
    BY <2>1, TrackerFields
  <2>3. RestoreConf(cs) = EnterJoint(u, auto, s)
    BY <1>2, <1>3, <1>5, <2>2, Zenon DEF RestoreConf
  <2>4. EnterJoint(Tracker(v2, {}, {}, {}, Off), auto, s) = t
    BY <1>1, <1>5, RestoreJoint
  <2> HIDE DEF u, s
  <2> QED BY <2>1, <2>3, <2>4 DEF cs
<1> QED BY <1>4, <1>5

\* For every set of ids and every history of changes: the ConfState of a configuration, joint or not,
\* is restored to that configuration, with progress for exactly its members
\* (restore.go:26-97, 119-155, confchange.go:111-118, 242-245).
THEOREM RestoreIsExact == Spec => []RestoreRoundTrip
<1>1. SoundInv => RestoreRoundTrip
  BY RestoreIs DEF SoundInv, Sound, RestoreRoundTrip
<1> QED BY <1>1, AlwaysSound, PTL

=============================================================================

------------------------------ MODULE Progress ------------------------------
(***************************************************************************)
(* tracker/progress.go: what a leader knows of one follower, as operators  *)
(* on a record.  Inflights is the bounded FIFO that InflightsQueue         *)
(* describes and the ring of Inflights implements.                         *)
(***************************************************************************)
EXTENDS Integers, Sequences

CONSTANT MaxInflight     \* Config.MaxInflightMsgs

ASSUME MaxInflightAssumption == MaxInflight \in Nat \ {0}

Max2(a, b) == IF a >= b THEN a ELSE b
Min2(a, b) == IF a <= b THEN a ELSE b

\* A fresh progress, as reset() builds it.
NewProgress(match, next) ==
    [Match |-> match, Next |-> next, State |-> "Probe", PendingSnapshot |-> 0,
     RecentActive |-> FALSE, ProbeSent |-> FALSE, Inflights |-> <<>>]

Full(pr) == Len(pr.Inflights) = MaxInflight

ResetState(pr, state) ==
    [pr EXCEPT !.ProbeSent = FALSE, !.PendingSnapshot = 0,
               !.State = state, !.Inflights = <<>>]

\* After a snapshot, probing resumes behind the snapshot that was sent.
BecomeProbe(pr) ==
    [ResetState(pr, "Probe") EXCEPT
        !.Next = IF pr.State = "Snapshot"
                   THEN Max2(pr.Match + 1, pr.PendingSnapshot + 1)
                   ELSE pr.Match + 1]

BecomeReplicate(pr) == [ResetState(pr, "Replicate") EXCEPT !.Next = pr.Match + 1]

BecomeSnapshot(pr, index) ==
    [ResetState(pr, "Snapshot") EXCEPT !.PendingSnapshot = index]

\* MaybeUpdate returns true when the ack is news.
Updates(pr, n) == pr.Match < n

MaybeUpdate(pr, n) ==
    [pr EXCEPT !.Match = Max2(@, n),
               !.Next = Max2(@, n + 1),
               !.ProbeSent = IF Updates(pr, n) THEN FALSE ELSE @]

\* Mutant: what was sent is taken for acknowledged.
MutSentUpTo(pr, n) == [pr EXCEPT !.Match = n, !.Next = n + 1, !.Inflights = Append(@, n)]

\* OptimisticUpdate and Inflights.Add for a message that ends at n.
SentUpTo(pr, n) == [pr EXCEPT !.Next = n + 1, !.Inflights = Append(@, n)]

\* Mutant: the acknowledged index itself stays in the window.
MutFreed(window, to) ==
    CHOOSE k \in 0..Len(window) : /\ \A j \in 1..k : window[j] < to
                                  /\ k < Len(window) => window[k + 1] >= to

\* FreeLE looks for the first message above `to` and frees the ones before it.
Freed(window, to) ==
    CHOOSE k \in 0..Len(window) : /\ \A j \in 1..k : window[j] <= to
                                  /\ k < Len(window) => window[k + 1] > to

\* Inflights.FreeLE
FreeLE(pr, to) == [pr EXCEPT !.Inflights = SubSeq(@, Freed(@, to) + 1, Len(@))]

\* Inflights.FreeFirstOne, called on a full window only
FreeFirstOne(pr) == [pr EXCEPT !.Inflights = Tail(@)]

\* MaybeDecrTo returns false for a rejection that is stale: out of order in
\* Replicate, or not of the last probe otherwise.
Decreases(pr, rejected) ==
    IF pr.State = "Replicate" THEN rejected > pr.Match
                              ELSE pr.Next - 1 = rejected

MaybeDecrTo(pr, rejected, matchHint) ==
    IF pr.State = "Replicate"
      THEN [pr EXCEPT !.Next = pr.Match + 1]
      ELSE [pr EXCEPT !.Next = Max2(Min2(rejected, matchHint + 1), 1),
                      !.ProbeSent = FALSE]

IsPaused(pr) ==
    \/ pr.State = "Probe" /\ pr.ProbeSent
    \/ pr.State = "Replicate" /\ Full(pr)
    \/ pr.State = "Snapshot"
=============================================================================

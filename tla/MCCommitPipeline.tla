-------------------------- MODULE MCCommitPipeline --------------------------
(* Instances of CommitPipeline for TLC: three goroutines. *)
EXTENDS CommitPipeline

CONSTANTS w1, w2, w3

Do(kind, count) == [kind |-> kind, count |-> count]

Once == <<Do("commit", 1)>>

\* What the three goroutines do.
By(first, second, third) ==
    [w \in Worker |-> CASE w = w1 -> first [] w = w2 -> second [] w = w3 -> third]

Pipelines ==
    {\* One operation of each kind at a time.
     [Size |-> 4, FirstSeqNum |-> 1, Ops |-> By(Once, <<Do("sync", 2)>>, <<Do("ingest", 1)>>)],
     \* A goroutine may stop in the middle of dequeue while the queue goes round once, and
     \* the first number is 0.
     [Size |-> 4, FirstSeqNum |-> 0,
      Ops |-> By(<<Do("ingest", 1)>> \o Once \o Once \o Once, <<Do("sync", 2)>> \o Once, <<>>)],
     \* More goroutines than places.
     [Size |-> 2, FirstSeqNum |-> 1, Ops |-> By(Once, Once, Once)]}
=============================================================================

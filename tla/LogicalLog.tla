----------------------------- MODULE LogicalLog -----------------------------
(***************************************************************************)
(* What raftLog, its unstable part and the application's storage promise   *)
(* together: one log.  A log is a function from a range of indexes to      *)
(* terms; its first index is the dummy entry that compaction or a snapshot *)
(* leaves.  Writing it to storage takes two steps, Ready and Persist, and  *)
(* whatever happens between them, what becomes stable is the log as of     *)
(* Ready.                                                                  *)
(***************************************************************************)
EXTENDS Integers

VARIABLES
    log,        \* the log the protocol works on
    committed,  \* its commit index
    handed,     \* the log as of the Ready that is being handled
    stable      \* the log a restart would find

vars == <<log, committed, handed, stable>>

Empty == [i \in {0} |-> 0]

First(f) == CHOOSE i \in DOMAIN f : \A j \in DOMAIN f : i <= j
Last(f)  == CHOOSE i \in DOMAIN f : \A j \in DOMAIN f : i >= j

\* f without what lies below k.
Drop(f, k) == [i \in {j \in DOMAIN f : j >= k} |-> f[i]]

Init == /\ log = Empty /\ handed = Empty /\ stable = Empty
        /\ committed = 0

\* The log is replaced from k on, where the old one ends or differs; committed
\* entries stay, and the commit index never goes back or beyond the log.
Append ==
    /\ \/ log' = log
       \/ \E k \in (committed + 1)..(Last(log) + 1) :
            /\ First(log') = First(log) /\ Last(log') >= k
            /\ DOMAIN log' = First(log')..Last(log')
            /\ \A i \in First(log)..(k - 1) : log'[i] = log[i]
            /\ k <= Last(log) => log'[k] # log[k]
    /\ committed' \in committed..Last(log')
    /\ UNCHANGED <<handed, stable>>

\* A snapshot beyond the commit index takes the place of the log.
Restore ==
    /\ committed' > committed
    /\ DOMAIN log' = {committed'}
    /\ UNCHANGED <<handed, stable>>

Ready == handed' = log /\ UNCHANGED <<log, committed, stable>>

Persist == stable' = handed /\ UNCHANGED <<log, committed, handed>>

\* Committed entries that are stable disappear below k.
Compact ==
    /\ \E k \in DOMAIN stable :
          /\ k <= committed
          /\ log' = Drop(log, k) /\ handed' = Drop(handed, k) /\ stable' = Drop(stable, k)
    /\ UNCHANGED committed

\* Only what is stable is left, and of the commit index perhaps an earlier value.
Restart ==
    /\ log' = stable /\ handed' = stable
    /\ committed' \in First(stable)..committed
    /\ UNCHANGED stable

Next == Append \/ Restore \/ Ready \/ Persist \/ Compact \/ Restart

Spec == Init /\ [][Next]_vars
=============================================================================

----------------------------- MODULE MCRaftLog -----------------------------
(* Instances of RaftLog for TLC. *)
EXTENDS RaftLog

L(log, commit) == [log |-> log, commit |-> commit]

\* An entry is replaced, and comes back with a later leader.
ReplacedAndBack == <<L(<<1, 1>>, 0), L(<<1, 2>>, 1), L(<<1, 1, 3>>, 3)>>

\* Leaders 1 and 3 share nothing beyond what leader 2 cut off.
CutShort == <<L(<<1, 1, 1>>, 1), L(<<1, 2>>, 1), L(<<1, 3, 3>>, 3)>>

\* All is committed at once.
Steady == <<L(<<>>, 0), L(<<>>, 0), L(<<1, 1, 1>>, 3)>>

\* Leader 3 brings back what leader 2 cut off.
CutAndBack == <<L(<<1, 1, 1>>, 0), L(<<1, 2>>, 1), L(<<1, 1, 1, 3>>, 4)>>

AllGroups == {ReplacedAndBack, CutShort, Steady, CutAndBack}
=============================================================================

------------------------------ MODULE MCRejoin ------------------------------
(* Rejoin for TLC: three servers, of which two or three run. *)
EXTENDS Rejoin

CONSTANTS s1, s2, s3

\* Everybody may campaign, for terms up to five.
Rejoining ==
    {[PreVote |-> TRUE, CheckQuorum |-> TRUE, MaxEnts |-> 1, MaxUncommittedSize |-> 10,
      MaxTerm |-> 5, MaxLog |-> 10, MayCampaign |-> [t \in 1..5 |-> Server],
      Reach |-> [t \in 1..5 |-> {}], MayRestart |-> {}, MayCompact |-> {},
      MayTransferTo |-> {}, Forwarding |-> FALSE, Reports |-> FALSE, MayBeat |-> {},
      EagerReady |-> {}]}
=============================================================================

----------------------------- MODULE MCCatchup -----------------------------
(* Catchup for TLC: three servers, and logs of two earlier terms. *)
EXTENDS Catchup

CONSTANTS s1, s2, s3

Logs == {<<>>, <<1>>, <<1, 1>>, <<1, 2>>, <<2, 2>>, <<1, 1, 1>>, <<1, 2, 2>>}

\* Messages of one entry, logs of up to three.
Catching ==
    {[PreVote |-> FALSE, CheckQuorum |-> FALSE, MaxEnts |-> 1, MaxUncommittedSize |-> 10,
      MaxTerm |-> 3, MaxLog |-> 3, MayCampaign |-> [t \in 1..3 |-> {}],
      Reach |-> [t \in 1..3 |-> {}], MayRestart |-> {}, MayCompact |-> {s1},
      MayTransferTo |-> {}, Forwarding |-> FALSE, Reports |-> TRUE, MayBeat |-> {s1},
      EagerReady |-> {}]}
=============================================================================

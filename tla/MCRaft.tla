------------------------------- MODULE MCRaft -------------------------------
(* Raft for TLC: three servers, and the scenarios of the runs: who may     *)
(* campaign for a term, who exchanges the messages of a term, who may      *)
(* crash.                                                                  *)
EXTENDS Raft, TLC

CONSTANTS s1, s2, s3

Always(x, n) == [t \in 1..n |-> x]

LeaderCentred == {{s1, s2}, {s1, s3}}
CommonVoter == {{s1, s3}, {s2, s3}}

\* One server campaigns once, and everybody handles Ready at once.
Base == [PreVote |-> FALSE, CheckQuorum |-> FALSE, MaxEnts |-> 1, MaxUncommittedSize |-> 10,
         MaxTerm |-> 1, MaxLog |-> 0, MayCampaign |-> Always({s1}, 1), Reach |-> Always({}, 1),
         MayRestart |-> {}, MayCompact |-> {}, MayTransferTo |-> {}, Forwarding |-> FALSE,
         Reports |-> FALSE, MayBeat |-> {}, EagerReady |-> {s1, s2, s3}]

\* Who leads.
Elections ==
    {\* Four terms; every term only two of the servers hear each other, s1 and s2 campaign
     \* in turns and may crash: entries of old terms are overwritten and revived.
     [Base EXCEPT !.MaxTerm = 4, !.MayCampaign = Always({s1, s2}, 4),
       !.Reach = [t \in 1..4 |-> IF t % 2 = 1 THEN {{s1, s3}} ELSE {{s2, s3}}],
       !.MayRestart = {s1, s2}],
     \* Two candidates compete for the vote of s3 in two terms; s2 and s3 may crash between
     \* an event and the Ready that makes it durable.
     [Base EXCEPT !.MaxTerm = 2, !.MayCampaign = Always({s1, s2}, 2),
       !.Reach = Always(CommonVoter, 2), !.MayRestart = {s2, s3}, !.EagerReady = {s1}],
     \* Two pre-campaigns compete, and messages of the first term reach servers of the second.
     [Base EXCEPT !.PreVote = TRUE, !.MaxTerm = 2, !.MayCampaign = <<{s1, s2}, {s1}>>,
       !.Reach = <<CommonVoter, {{s1, s3}}>>],
     \* The same with leases that expire and leaders that step down; nobody hears of a second
     \* term.
     [Base EXCEPT !.PreVote = TRUE, !.CheckQuorum = TRUE, !.MaxTerm = 2,
       !.MayCampaign = <<{s1, s2}, {s1}>>, !.Reach = <<CommonVoter, {}>>],
     \* The same with a second term, and without a rival.
     [Base EXCEPT !.PreVote = TRUE, !.CheckQuorum = TRUE, !.MaxTerm = 2,
       !.MayCampaign = Always({s1}, 2), !.Reach = <<CommonVoter, {{s1, s3}}>>],
     \* Leadership is transferred, aborted and forwarded, with CheckQuorum leases that only
     \* a transfer overrides; the old leader may campaign against its successor.
     [Base EXCEPT !.CheckQuorum = TRUE, !.MaxTerm = 2,
       !.MayCampaign = Always({s1}, 2), !.Reach = Always({{s1, s2}}, 2),
       !.MayTransferTo = {s1, s2}]}

\* How the log of a leader spreads. Entries are counted with the empty one of a new leader.
Replications ==
    {\* One leader that makes its log durable at leisure, three entries, one of them
     \* uncommitted at a time, and heartbeats.
     [Base EXCEPT !.MaxLog = 3, !.MaxUncommittedSize = 1, !.Reach = Always({{s1, s2}}, 1),
       !.MayBeat = {s1}, !.EagerReady = {s2, s3}],
     \* The same, with reports of unreachable peers.
     [Base EXCEPT !.MaxLog = 2, !.Reach = Always({{s1, s2}}, 1), !.Reports = TRUE,
       !.MayBeat = {s1}, !.EagerReady = {s2, s3}],
     \* Two messages in flight fill the window; a heartbeat response frees a slot.
     [Base EXCEPT !.MaxLog = 3, !.MaxUncommittedSize = 2, !.Reach = Always({{s1, s2}}, 1),
       !.MayBeat = {s1}],
     \* Followers forward proposals.
     [Base EXCEPT !.MaxLog = 2, !.Reach = Always({{s1, s2}}, 1), !.MayBeat = {s1},
       !.Forwarding = TRUE],
     \* Heartbeats carry commit indexes to two followers, ahead of the entries; one
     \* of them may crash before what it received is durable.
     [Base EXCEPT !.MaxLog = 1, !.Reach = Always(LeaderCentred, 1),
       !.MayRestart = {s3}, !.MayBeat = {s1}, !.EagerReady = {s1, s2}],
     \* The same with one follower and a proposal.
     [Base EXCEPT !.MaxLog = 2, !.Reach = Always({{s1, s3}}, 1), !.MayRestart = {s3},
       !.MayBeat = {s1}, !.EagerReady = {s1, s2}],
     \* The leader compacts its log, crashes and comes back; a server that was cut off in
     \* the first term needs a snapshot in the second.
     [Base EXCEPT !.MaxTerm = 2, !.MaxLog = 2, !.MayCampaign = Always({s1}, 2),
       !.Reach = <<{{s1, s3}}, {{s1, s2}}>>, !.MayRestart = {s1}, !.MayCompact = {s1}],
     \* The same, with reports of what became of the snapshot.
     [Base EXCEPT !.MaxTerm = 2, !.MaxLog = 1, !.MayCampaign = Always({s1}, 2),
       !.Reach = <<{{s1, s3}}, {{s1, s2}}>>, !.MayRestart = {s1}, !.MayCompact = {s1},
       !.Reports = TRUE]}
=============================================================================

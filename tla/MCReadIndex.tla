----------------------------- MODULE MCReadIndex -----------------------------
(* Instances of ReadIndex for TLC: three servers. *)
EXTENDS ReadIndex

CONSTANTS s1, s2, s3, x1, x2

Reads ==
    {\* s1 is replaced by s2, while it is asked twice.
     [MaxTerm |-> 2, MaxLog |-> 1, MayCampaign |-> <<{s1}, {s2}>>,
      MayAsk |-> [x \in Request |-> {s1}], Up |-> Server, Lossy |-> FALSE],
     \* s1 is replaced by s2, and either is asked.
     [MaxTerm |-> 2, MaxLog |-> 1, MayCampaign |-> <<{s1}, {s2}>>,
      MayAsk |-> [x \in Request |-> IF x = x1 THEN {s1, s2} ELSE {}], Up |-> Server, Lossy |-> FALSE],
     \* s1 leads, with one follower and a transport that loses messages.
     [MaxTerm |-> 1, MaxLog |-> 2, MayCampaign |-> <<{s1}>>,
      MayAsk |-> [x \in Request |-> {s1}], Up |-> {s1, s2}, Lossy |-> TRUE]}
=============================================================================

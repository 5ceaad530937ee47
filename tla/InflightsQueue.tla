--------------------------- MODULE InflightsQueue ---------------------------
(***************************************************************************)
(* What tracker.Inflights promises its callers (the leader's               *)
(* maybeSendAppend and the MsgAppResp / MsgHeartbeatResp handlers): a      *)
(* bounded FIFO of the last log index of every MsgApp that a follower has  *)
(* not yet acknowledged.  An acknowledgement of index `to` releases        *)
(* exactly the messages at or below `to`; nothing else ever leaves the     *)
(* window, except by reset.                                                *)
(***************************************************************************)
EXTENDS Naturals, Sequences

CONSTANTS Size,      \* Config.MaxInflightMsgs: capacity of the window
          MaxIndex   \* largest log index considered

Index == 1..MaxIndex

VARIABLE window      \* sequence of last indexes, oldest message first

Init == window = <<>>

\* A message whose last entry is i goes out: there must be room and indexes grow.
Add(i) ==
    /\ Len(window) < Size
    /\ \A j \in 1..Len(window) : window[j] < i
    /\ window' = Append(window, i)

\* An ack of `to` releases all messages at or below it and keeps all others.
FreeLE(to) ==
    \E k \in 0..Len(window) :
        /\ \A j \in 1..k : window[j] <= to
        /\ \A j \in (k+1)..Len(window) : window[j] > to
        /\ window' = SubSeq(window, k + 1, Len(window))

\* A heartbeat response releases the oldest message of a full window.
FreeFirstOne ==
    /\ Len(window) = Size
    /\ window' = Tail(window)

Reset == window' = <<>>

Next == \/ \E i \in Index : Add(i)
        \/ \E to \in 0..MaxIndex : FreeLE(to)
        \/ FreeFirstOne
        \/ Reset

Spec == Init /\ [][Next]_window
=============================================================================

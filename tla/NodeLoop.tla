------------------------------ MODULE NodeLoop ------------------------------
(***************************************************************************)
(* Node: the goroutine of node.go's run(), the calls that reach it through *)
(* channels, and the application that takes Readys and applies             *)
(* configuration changes.  A rendezvous on an unbuffered channel is one    *)
(* step of both sides.                                                     *)
(*                                                                         *)
(* raft is reduced to what run() looks at: whether it knows a leader,      *)
(* whether the node is a member, and how much output waits for the next    *)
(* Ready.                                                                  *)
(***************************************************************************)
EXTENDS Integers, FiniteSets

CONSTANTS
    Caller,         \* goroutines that call Propose, Step, Status and Stop
    Leader, None,   \* leaders raft may follow, and none
    MaxMsgs,        \* raft produces no output beyond this
    MaxTicks        \* capacity of tickc

ASSUME NodeAssumption ==
    /\ IsFiniteSet(Caller) /\ IsFiniteSet(Leader) /\ None \notin Leader
    /\ MaxMsgs \in Nat \ {0} /\ MaxTicks \in Nat \ {0}

VARIABLES
    loop,       \* locals of run(): where it is, which channels are armed, rd, lead
    raft,       \* lead, member, msgs: output that was not accepted yet
    app,        \* the application: where it is, the Ready it works on
    caller,     \* caller[c]: where it is in which call
    ticks,      \* ticks in tickc
    done,       \* whether done is closed
    lost        \* output that acceptReady dropped without its being in the Ready

vars == <<loop, raft, app, caller, ticks, done, lost>>

Idle == [pc |-> "idle", op |-> None]

Init ==
    /\ loop = [pc |-> "top", propc |-> FALSE, readyc |-> FALSE, advancec |-> FALSE,
               rd |-> 0, lead |-> None, result |-> None]
    /\ raft = [lead |-> None, member |-> TRUE, msgs |-> 0]
    /\ app = [pc |-> "ready", rd |-> 0]
    /\ caller = [c \in Caller |-> Idle]
    /\ ticks = 0 /\ done = FALSE /\ lost = 0

-----------------------------------------------------------------------------
(* raft, as far as run() sees it *)

Outputs(r) == {[r EXCEPT !.msgs = n] : n \in {r.msgs, IF r.msgs < MaxMsgs THEN r.msgs + 1 ELSE r.msgs}}

\* Step of a message, and Tick: a leader may be found or lost.
Steps(r) == UNION {Outputs([r EXCEPT !.lead = l]) : l \in Leader \cup {None}}

HasReady(r) == r.msgs > 0

-----------------------------------------------------------------------------
(* The loop *)

\* Mutant: propc is armed on a change of leader only, not on the first one.
MutArmedPropc(l, r) ==
    IF l.lead = r.lead THEN l.propc ELSE r.lead # None /\ l.lead # None

\* Proposals are taken while a leader is known; a change of leader arms propc again.
ArmedPropc(l, r) == IF l.lead = r.lead THEN l.propc ELSE r.lead # None

\* Mutant: a Ready that was populated is kept until it is taken.
MutPopulated(l, r) ==
    IF l.advancec THEN [l EXCEPT !.readyc = FALSE]
    ELSE IF HasReady(r) /\ ~l.readyc THEN [l EXCEPT !.rd = r.msgs, !.readyc = TRUE]
    ELSE l

\* Mutant: the next Ready is populated while one is being handled.
MutPopulatedEarly(l, r) ==
    IF HasReady(r) THEN [l EXCEPT !.rd = r.msgs, !.readyc = ~l.advancec] ELSE l

\* Until a Ready is taken it is populated anew in every round.
Populated(l, r) ==
    IF l.advancec THEN [l EXCEPT !.readyc = FALSE]
    ELSE IF HasReady(r) THEN [l EXCEPT !.rd = r.msgs, !.readyc = TRUE]
    ELSE l

\* The head of the loop, before select
LoopTop ==
    /\ loop.pc = "top"
    /\ loop' = [Populated(loop, raft) EXCEPT !.pc = "select", !.propc = ArmedPropc(loop, raft),
                                             !.lead = raft.lead]
    /\ UNCHANGED <<raft, app, caller, ticks, done, lost>>

Selecting(c, op) == loop.pc = "select" /\ caller[c].pc = "send" /\ caller[c].op = op

\* case pm := <-propc: Propose waits for the result, ProposeConfChange does not.
RecvProp(c) ==
    /\ loop.propc
    /\ \/ /\ Selecting(c, "Propose")
          /\ loop' = [loop EXCEPT !.pc = "result", !.result = c]
          /\ caller' = [caller EXCEPT ![c].pc = "wait"]
       \/ /\ Selecting(c, "ProposeConfChange")
          /\ loop' = [loop EXCEPT !.pc = "top"]
          /\ caller' = [caller EXCEPT ![c] = Idle]
    /\ raft' \in Outputs(raft)
    /\ UNCHANGED <<app, ticks, done, lost>>

\* Mutant: the channel of the result has no buffer.
MutResultFits(c) == caller[c].pc = "wait"

\* pm.result <- err: the channel has room for one result.
ResultFits(c) == TRUE

SendResult ==
    /\ loop.pc = "result" /\ ResultFits(loop.result)
    /\ loop' = [loop EXCEPT !.pc = "top", !.result = None]
    /\ caller' = [caller EXCEPT ![loop.result] = IF @.pc = "wait" THEN Idle ELSE @]
    /\ UNCHANGED <<raft, app, ticks, done, lost>>

\* case m := <-n.recvc
RecvMsg(c) ==
    /\ Selecting(c, "Step")
    /\ raft' \in Steps(raft)
    /\ loop' = [loop EXCEPT !.pc = "top"]
    /\ caller' = [caller EXCEPT ![c] = Idle]
    /\ UNCHANGED <<app, ticks, done, lost>>

\* case <-n.tickc
RecvTick ==
    /\ loop.pc = "select" /\ ticks > 0
    /\ ticks' = ticks - 1
    /\ raft' \in Steps(raft)
    /\ loop' = [loop EXCEPT !.pc = "top"]
    /\ UNCHANGED <<app, caller, done, lost>>

\* case cc := <-n.confc: a node that is removed takes no proposals.
RecvConfChange ==
    /\ loop.pc = "select" /\ app.pc = "confchange"
    /\ \E member \in BOOLEAN :
          /\ raft' \in Outputs([raft EXCEPT !.member = member])
          /\ loop' = [loop EXCEPT !.pc = "confstate",
                                  !.propc = @ /\ ~(raft.member /\ ~member)]
    /\ app' = [app EXCEPT !.pc = "confstate"]
    /\ UNCHANGED <<caller, ticks, done, lost>>

\* case n.confstatec <- cs
SendConfState ==
    /\ loop.pc = "confstate" /\ app.pc = "confstate"
    /\ loop' = [loop EXCEPT !.pc = "top"]
    /\ app' = [app EXCEPT !.pc = "apply"]
    /\ UNCHANGED <<raft, caller, ticks, done, lost>>

\* case readyc <- rd: acceptReady drops all the output of raft.
SendReady ==
    /\ loop.pc = "select" /\ loop.readyc /\ app.pc = "ready"
    /\ app' = [pc |-> "apply", rd |-> loop.rd]
    /\ lost' = lost + (raft.msgs - loop.rd)
    /\ raft' = [raft EXCEPT !.msgs = 0]
    /\ loop' = [loop EXCEPT !.pc = "top", !.advancec = TRUE]
    /\ UNCHANGED <<caller, ticks, done>>

\* case <-advancec: Advance of the Ready that was handed out
RecvAdvance ==
    /\ loop.pc = "select" /\ loop.advancec /\ app.pc = "advance"
    /\ loop' = [loop EXCEPT !.pc = "top", !.advancec = FALSE, !.rd = 0]
    /\ app' = [pc |-> "ready", rd |-> 0]
    /\ raft' \in Outputs(raft)
    /\ UNCHANGED <<caller, ticks, done, lost>>

\* case c := <-n.status
RecvStatus(c) ==
    /\ Selecting(c, "Status")
    /\ loop' = [loop EXCEPT !.pc = "top"]
    /\ caller' = [caller EXCEPT ![c] = Idle]
    /\ UNCHANGED <<raft, app, ticks, done, lost>>

\* case <-n.stop
RecvStop(c) ==
    /\ Selecting(c, "Stop")
    /\ loop' = [loop EXCEPT !.pc = "exited"]
    /\ done' = TRUE
    /\ caller' = [caller EXCEPT ![c].pc = "wait"]
    /\ UNCHANGED <<raft, app, ticks, lost>>

-----------------------------------------------------------------------------
(* The callers *)

\* Step stands for all that goes through recvc: Campaign, ReadIndex and the reports.
Operation == {"Propose", "ProposeConfChange", "Step", "Status", "Stop"}

Call(c, op) ==
    /\ caller[c].pc = "idle"
    /\ caller' = [caller EXCEPT ![c] = [pc |-> "send", op |-> op]]
    /\ UNCHANGED <<loop, raft, app, ticks, done, lost>>

\* The context of a Propose or Step ends, in front of the channel or of the result.
Cancel(c) ==
    /\ caller[c].pc # "idle" /\ caller[c].op \in {"Propose", "ProposeConfChange", "Step"}
    /\ caller' = [caller EXCEPT ![c] = Idle]
    /\ UNCHANGED <<loop, raft, app, ticks, done, lost>>

\* case <-n.done, in every call
SeeDone(c) ==
    /\ done /\ caller[c].pc # "idle"
    /\ caller' = [caller EXCEPT ![c] = Idle]
    /\ UNCHANGED <<loop, raft, app, ticks, done, lost>>

TickFits == ticks < MaxTicks

\* Tick does not block: a tick that does not fit is dropped.
Tick ==
    /\ TickFits /\ ~done
    /\ ticks' = ticks + 1
    /\ UNCHANGED <<loop, raft, app, caller, done, lost>>

\* The application applies what is in the Ready, and then calls Advance.
Apply ==
    /\ app.pc = "apply"
    /\ app' \in {[app EXCEPT !.pc = "confchange"], [app EXCEPT !.pc = "advance"]}
    /\ UNCHANGED <<loop, raft, caller, ticks, done, lost>>

\* case <-n.done in ApplyConfChange and Advance
AppSeesDone ==
    /\ done /\ app.pc \in {"confchange", "confstate", "advance"}
    /\ app' = [app EXCEPT !.pc = IF @ = "advance" THEN "ready" ELSE "apply"]
    /\ UNCHANGED <<loop, raft, caller, ticks, done, lost>>

Next ==
    \/ LoopTop \/ SendResult \/ RecvTick
    \/ RecvConfChange \/ SendConfState \/ SendReady \/ RecvAdvance
    \/ \E c \in Caller :
          \/ RecvProp(c) \/ RecvMsg(c) \/ RecvStatus(c) \/ RecvStop(c)
          \/ \E op \in Operation : Call(c, op)
          \/ Cancel(c) \/ SeeDone(c)
    \/ Tick \/ Apply \/ AppSeesDone

Spec == Init /\ [][Next]_vars

\* Goroutines run on, and select picks at random among the channels that are ready,
\* so that none is passed over for ever.
FairSpec ==
    /\ Spec
    /\ WF_vars(LoopTop) /\ WF_vars(SendResult) /\ WF_vars(SendConfState)
    /\ WF_vars(Apply) /\ SF_vars(RecvConfChange) /\ SF_vars(RecvAdvance) /\ WF_vars(AppSeesDone)
    /\ \A c \in Caller : /\ SF_vars(RecvProp(c)) /\ SF_vars(RecvStop(c))
                         /\ WF_vars(SeeDone(c))

-----------------------------------------------------------------------------
(* Properties *)

\* A Ready holds all the output that accepting it drops from raft, although messages
\* are stepped between the moment it is populated and the moment it is taken
\* (node.go:312-322, rawnode.go:125-134).
NoOutputLost == lost = 0

\* Advance refers to the very Ready that the application has handled: rd is not
\* overwritten before (node.go:309-310, 389-395).
AdvanceMatches == ~done /\ app.pc # "ready" => loop.advancec /\ loop.rd = app.rd

\* Stop returns, whatever the others wait for (node.go:286-296).
StopReturns == \A c \in Caller :
    (caller[c].op = "Stop" /\ caller[c].pc # "idle") ~> caller[c].pc = "idle"

\* A Propose call returns once raft keeps knowing a leader, unless the node was
\* removed or the loop waits for a result nobody takes (node.go:324-337, 347-350).
ProposalsReturn == \A c \in Caller :
    (<>[](raft.lead # None) /\ []raft.member) =>
        [](caller[c].op \in {"Propose", "ProposeConfChange"} /\ caller[c].pc # "idle" => <>(caller[c].pc = "idle"))
=============================================================================

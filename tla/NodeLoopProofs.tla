--------------------------- MODULE NodeLoopProofs ---------------------------
(***************************************************************************)
(* Proofs about NodeLoop: whatever the number of callers, of ticks and of  *)
(* messages, a Ready holds all the output that accepting it drops, and     *)
(* Advance refers to the Ready the application has handled.                *)
(***************************************************************************)
EXTENDS NodeLoop, TLAPS

\* The locals of run(), what it sees of raft, and where the application is.
LoopType ==
    /\ loop \in [pc : {"top", "select", "result", "confstate", "exited"},
                 propc : BOOLEAN, readyc : BOOLEAN, advancec : BOOLEAN,
                 rd : 0..MaxMsgs, lead : Leader \cup {None}, result : Caller \cup {None}]
    /\ raft \in [lead : Leader \cup {None}, member : BOOLEAN, msgs : 0..MaxMsgs]
    /\ app \in [pc : {"ready", "apply", "confchange", "confstate", "advance"}, rd : 0..MaxMsgs]
    /\ ticks \in 0..MaxTicks
    /\ done \in BOOLEAN

\* In front of select an armed readyc offers all of raft's output.
ReadyComplete == loop.pc = "select" /\ loop.readyc => ~loop.advancec /\ loop.rd = raft.msgs

\* readyc is armed only while there is output: it need not be disarmed otherwise.
ReadyArmed == loop.readyc /\ ~loop.advancec => raft.msgs > 0

\* done is closed by the step that leaves the loop, and by no other.
DoneOnExit == done <=> loop.pc = "exited"

\* advancec is armed exactly while the application works on a Ready: the one in rd.
AdvanceArmed == ~done => /\ loop.advancec <=> app.pc # "ready"
                         /\ loop.advancec => loop.rd = app.rd

\* The inductive invariant
LoopInv == LoopType /\ NoOutputLost /\ ReadyComplete /\ ReadyArmed /\ DoneOnExit /\ AdvanceArmed

-----------------------------------------------------------------------------
RaftType == [lead : Leader \cup {None}, member : BOOLEAN, msgs : 0..MaxMsgs]

\* Output only grows, up to its bound, when raft handles something.
LEMMA OutputsGrow ==
    ASSUME NEW r \in RaftType, NEW s \in Outputs(r)
    PROVE  s \in RaftType /\ s.msgs >= r.msgs
<1>1. PICK n \in {r.msgs, IF r.msgs < MaxMsgs THEN r.msgs + 1 ELSE r.msgs} : s = [r EXCEPT !.msgs = n]
  BY DEF Outputs
<1>2. n \in 0..MaxMsgs /\ n >= r.msgs
  BY NodeAssumption DEF RaftType
<1> QED BY <1>1, <1>2 DEF RaftType

\* So it does when a message or a tick changes the leader as well.
LEMMA StepsGrow ==
    ASSUME NEW r \in RaftType, NEW s \in Steps(r)
    PROVE  s \in RaftType /\ s.msgs >= r.msgs
<1>1. PICK l \in Leader \cup {None} : s \in Outputs([r EXCEPT !.lead = l])
  BY DEF Steps
<1>2. [r EXCEPT !.lead = l] \in RaftType /\ [r EXCEPT !.lead = l].msgs = r.msgs
  BY DEF RaftType
<1> QED BY <1>1, <1>2, OutputsGrow

\* What is true of raft when its output only grows in front of select is true again
\* at the top of the loop: the Ready that was offered is not used any more.
LEMMA LoopAround ==
    ASSUME LoopInv, loop.pc = "select", ~done', raft' \in RaftType, raft'.msgs >= raft.msgs,
           loop' \in [pc : {"top", "select", "result", "confstate", "exited"},
                 propc : BOOLEAN, readyc : BOOLEAN, advancec : BOOLEAN,
                 rd : 0..MaxMsgs, lead : Leader \cup {None}, result : Caller \cup {None}],
           loop'.pc \in {"top", "result"}, loop'.readyc = loop.readyc,
           loop'.advancec = loop.advancec, loop'.rd = loop.rd,
           app' = app, ticks' \in 0..MaxTicks, UNCHANGED <<done, lost>>
    PROVE  LoopInv'
BY NodeAssumption DEF LoopInv, LoopType, RaftType, NoOutputLost, ReadyComplete, ReadyArmed, DoneOnExit, AdvanceArmed

\* The initial state satisfies the invariant.
LEMMA InitLoopInv == Init => LoopInv
<1> SUFFICES ASSUME Init PROVE LoopInv
  OBVIOUS
<1>1. 0 \in 0..MaxMsgs /\ 0 \in 0..MaxTicks
  BY NodeAssumption
<1>2. LoopType
  BY <1>1 DEF Init, LoopType
<1>3. /\ loop.pc = "top" /\ ~loop.readyc /\ ~loop.advancec /\ app.pc = "ready" /\ ~done /\ lost = 0
  BY DEF Init
<1> QED BY <1>2, <1>3 DEF LoopInv, NoOutputLost, ReadyComplete, ReadyArmed, DoneOnExit, AdvanceArmed

\* Every step of the loop, of a caller and of the application preserves the invariant.
LEMMA NextLoopInv == LoopInv /\ [Next]_vars => LoopInv'
<1> SUFFICES ASSUME LoopInv, [Next]_vars PROVE LoopInv'
  OBVIOUS
<1> USE NodeAssumption
<1>t. raft \in RaftType
  BY DEF LoopInv, LoopType, RaftType
<1>1. CASE LoopTop
  BY <1>1 DEF LoopTop, Populated, ArmedPropc, HasReady, LoopInv, LoopType, NoOutputLost,
     ReadyComplete, ReadyArmed, DoneOnExit, AdvanceArmed
<1>2. CASE SendResult
  BY <1>2 DEF SendResult, LoopInv, LoopType, NoOutputLost, ReadyComplete, ReadyArmed, DoneOnExit,
     AdvanceArmed
<1>3. CASE RecvTick
  <2>1. raft' \in RaftType /\ raft'.msgs >= raft.msgs
    BY <1>3, <1>t, StepsGrow DEF RecvTick
  <2> QED BY <1>3, <2>1, LoopAround DEF RecvTick, LoopInv, LoopType, DoneOnExit
<1>4. CASE RecvConfChange
  <2>1. PICK member \in BOOLEAN :
           /\ raft' \in Outputs([raft EXCEPT !.member = member])
           /\ loop' = [loop EXCEPT !.pc = "confstate", !.propc = @ /\ ~(raft.member /\ ~member)]
    BY <1>4 DEF RecvConfChange
  <2>2. [raft EXCEPT !.member = member] \in RaftType /\ [raft EXCEPT !.member = member].msgs = raft.msgs
    BY <1>t DEF RaftType
  <2>3. raft' \in RaftType /\ raft'.msgs >= raft.msgs
    BY <2>1, <2>2, OutputsGrow
  <2> QED BY <1>4, <2>1, <2>3 DEF RecvConfChange, RaftType, LoopInv, LoopType, NoOutputLost,
          ReadyComplete, ReadyArmed, DoneOnExit, AdvanceArmed
<1>5. CASE SendConfState
  BY <1>5 DEF SendConfState, LoopInv, LoopType, NoOutputLost, ReadyComplete, ReadyArmed, DoneOnExit,
     AdvanceArmed
<1>6. CASE SendReady
  <2>1. /\ app'.pc = "apply" /\ app'.rd = loop.rd
        /\ app' \in [pc : {"ready", "apply", "confchange", "confstate", "advance"}, rd : 0..MaxMsgs]
    BY <1>6 DEF SendReady, LoopInv, LoopType
  <2>2. /\ loop' = [loop EXCEPT !.pc = "top", !.advancec = TRUE] /\ loop.rd = raft.msgs
        /\ raft' = [raft EXCEPT !.msgs = 0] /\ raft'.msgs = 0 /\ ~done /\ ~done'
    BY <1>6 DEF SendReady, LoopInv, LoopType, ReadyComplete, DoneOnExit
  <2>3. lost' = 0
    BY <1>6, <2>2 DEF SendReady, LoopInv, LoopType, NoOutputLost
  <2>4. LoopType'
    <3>1. raft' \in [lead : Leader \cup {None}, member : BOOLEAN, msgs : 0..MaxMsgs]
      BY <2>2 DEF LoopInv, LoopType
    <3> QED BY <1>6, <2>1, <2>2, <3>1 DEF SendReady, LoopInv, LoopType
  <2>5. loop'.pc = "top" /\ loop'.advancec /\ loop'.rd = loop.rd
    BY <2>2 DEF LoopInv, LoopType
  <2> QED BY <2>1, <2>2, <2>3, <2>4, <2>5 DEF LoopInv, NoOutputLost, ReadyComplete, ReadyArmed,
          DoneOnExit, AdvanceArmed
<1>7. CASE RecvAdvance
  <2>1. raft' \in RaftType /\ raft'.msgs >= raft.msgs
    BY <1>7, <1>t, OutputsGrow DEF RecvAdvance
  <2>2. app'.pc = "ready" /\ app' \in [pc : {"ready"}, rd : 0..MaxMsgs]
    BY <1>7 DEF RecvAdvance
  <2> QED BY <1>7, <2>1, <2>2 DEF RecvAdvance, RaftType, LoopInv, LoopType, NoOutputLost,
          ReadyComplete, ReadyArmed, DoneOnExit, AdvanceArmed
<1>8. ASSUME NEW c \in Caller, RecvProp(c) PROVE LoopInv'
  <2>1. raft' \in RaftType /\ raft'.msgs >= raft.msgs
    BY <1>8, <1>t, OutputsGrow DEF RecvProp
  <2> QED BY <1>8, <2>1, LoopAround DEF RecvProp, Selecting, LoopInv, LoopType, DoneOnExit
<1>9. ASSUME NEW c \in Caller, RecvMsg(c) PROVE LoopInv'
  <2>1. raft' \in RaftType /\ raft'.msgs >= raft.msgs
    BY <1>9, <1>t, StepsGrow DEF RecvMsg
  <2> QED BY <1>9, <2>1, LoopAround DEF RecvMsg, Selecting, LoopInv, LoopType, DoneOnExit
<1>10. ASSUME NEW c \in Caller, RecvStatus(c) PROVE LoopInv'
  <2>1. raft' \in RaftType /\ raft'.msgs >= raft.msgs
    BY <1>10, <1>t DEF RecvStatus, RaftType
  <2> QED BY <1>10, <2>1, LoopAround DEF RecvStatus, Selecting, LoopInv, LoopType, DoneOnExit
<1>11. ASSUME NEW c \in Caller, RecvStop(c) PROVE LoopInv'
  BY <1>11 DEF RecvStop, Selecting, LoopInv, LoopType, NoOutputLost, ReadyComplete, ReadyArmed,
     DoneOnExit, AdvanceArmed
<1>12. ASSUME UNCHANGED <<loop, raft, app, done, lost>>, ticks' \in 0..MaxTicks PROVE LoopInv'
  BY <1>12 DEF LoopInv, LoopType, NoOutputLost, ReadyComplete, ReadyArmed, DoneOnExit, AdvanceArmed
<1>13. ASSUME NEW c \in Caller,
              (\E op \in Operation : Call(c, op)) \/ Cancel(c) \/ SeeDone(c)
       PROVE  LoopInv'
  BY <1>12, <1>13 DEF Call, Cancel, SeeDone, LoopInv, LoopType
<1>14. CASE Tick
  BY <1>12, <1>14 DEF Tick, TickFits, LoopInv, LoopType
<1>15. CASE Apply
  BY <1>15 DEF Apply, LoopInv, LoopType, NoOutputLost, ReadyComplete, ReadyArmed, DoneOnExit,
     AdvanceArmed
<1>16. CASE AppSeesDone
  BY <1>16 DEF AppSeesDone, LoopInv, LoopType, NoOutputLost, ReadyComplete, ReadyArmed, DoneOnExit,
     AdvanceArmed
<1>17. CASE UNCHANGED vars
  BY <1>12, <1>17 DEF vars, LoopInv, LoopType
<1> QED
  BY <1>1, <1>2, <1>3, <1>4, <1>5, <1>6, <1>7, <1>8, <1>9, <1>10, <1>11, <1>13, <1>14, <1>15,
     <1>16, <1>17 DEF Next

\* A Ready holds all the output that accepting it drops from raft, whatever is
\* stepped between populating it and handing it out: it is populated anew in every
\* round of run() until it is taken (node.go:312-322, rawnode.go:125-134).
THEOREM NoReadyIsIncomplete == Spec => []NoOutputLost
<1>1. LoopInv => NoOutputLost
  BY DEF LoopInv
<1> QED BY <1>1, InitLoopInv, NextLoopInv, PTL DEF Spec

\* While the application works on a Ready, the loop keeps that very Ready in rd and
\* waits for its Advance: no other Ready is populated (node.go:309-310, 389-395).
THEOREM AdvanceIsOfTheReadyTaken == Spec => []AdvanceMatches
<1>1. LoopInv => AdvanceMatches
  BY DEF LoopInv, LoopType, AdvanceArmed, AdvanceMatches
<1> QED BY <1>1, InitLoopInv, NextLoopInv, PTL DEF Spec
=============================================================================

--------------------------- MODULE CommitPipeline ---------------------------
(***************************************************************************)
(* The commit pipeline of pebble (commit.go).  Goroutines number their     *)
(* batches and write them to the WAL one at a time, apply them to the      *)
(* memtable concurrently, and make them visible in order: who finds an     *)
(* applied batch at the tail of a lock-free queue publishes it, its own or *)
(* another's.                                                              *)
(*                                                                         *)
(* A step is one atomic access to shared memory, with the local work after *)
(* it. A goroutine reuses its batch for its next operation.  Errors of the *)
(* WAL or the memtable end the program (db.go:585-588) and are left out.   *)
(***************************************************************************)
EXTENDS Integers, Sequences, FiniteSets

CONSTANTS
    Worker,         \* goroutines
    None,
    Wrap,           \* 2^dequeueBits
    FirstIndex,     \* head and tail to begin with
    Scenarios       \* records: Size of the queue, Ops[w]: operations of w, FirstSeqNum

ASSUME PipelineAssumption ==
    /\ IsFiniteSet(Worker) /\ None \notin Worker
    /\ Wrap \in Nat \ {0} /\ FirstIndex \in 0..(Wrap - 1)
    /\ \A c \in Scenarios :
          /\ c.FirstSeqNum \in Nat
          /\ c.Size \in Nat \ {0} /\ Wrap % c.Size = 0 /\ c.Size < Wrap
          /\ c.Ops \in [Worker -> Seq([kind : {"commit", "sync", "ingest"}, count : Nat \ {0}])]

VARIABLES
    headTail,       \* commitQueue.headTail, unpacked
    slots,          \* commitQueue.slots
    batch,          \* batch[w]: the batch of goroutine w
    proc,           \* proc[w]: where w is, and its locals
    mu,             \* who holds commitPipeline.mu
    sem,            \* operations that hold a place in commitPipeline.sem
    logSeqNum, visibleSeqNum,
    panicked,
    scenario

vars == <<headTail, slots, batch, proc, mu, sem, logSeqNum, visibleSeqNum, panicked, scenario>>
queueVars == <<headTail, slots>>
seqVars == <<logSeqNum, visibleSeqNum>>

Size == scenario.Size
Ops == scenario.Ops

\* Mutant: more operations than slots.
MutCapacity == Size + 1

\* One slot is left for the rotation of the WAL.
Capacity == Size - 1

NewBatch(count, wg) == [applied |-> FALSE, seqNum |-> 0, count |-> count, wg |-> wg, syncing |-> FALSE]

NoPtrs == [head |-> 0, tail |-> 0]

At(pc, n) == [pc |-> pc, n |-> n, ptrs |-> NoPtrs, t |-> None, val |-> 0]

Init ==
    /\ scenario \in Scenarios
    /\ headTail = [head |-> FirstIndex, tail |-> FirstIndex]
    /\ slots = [k \in 0..(Size - 1) |-> None]
    /\ batch = [w \in Worker |-> NewBatch(1, 0)]
    /\ proc = [w \in Worker |-> At("idle", 1)]
    /\ mu = None /\ sem = 0
    /\ logSeqNum = scenario.FirstSeqNum /\ visibleSeqNum = logSeqNum
    /\ panicked = FALSE

Bump(index) == (index + 1) % Wrap

Op(w) == Ops[w][proc[w].n]

Goto(w, pc) == [proc EXCEPT ![w] = At(pc, @.n)]

-----------------------------------------------------------------------------
(* Commit, prepare and AllocateSeqNum *)

\* A place in sem; the WaitGroup of a new batch waits for its publication, and for a
\* sync if there is to be one.
Begin(w) ==
    /\ proc[w].pc = "idle" /\ proc[w].n <= Len(Ops[w])
    /\ sem < Capacity
    /\ sem' = sem + 1
    /\ batch' = [batch EXCEPT ![w] = NewBatch(Op(w).count, IF Op(w).kind = "sync" THEN 2 ELSE 1)]
    /\ proc' = Goto(w, "lock")
    /\ UNCHANGED <<queueVars, mu, seqVars, panicked, scenario>>

\* enqueue, up to the check that the queue is not full
Lock(w) ==
    /\ proc[w].pc = "lock" /\ mu = None
    /\ mu' = w
    /\ panicked' = ((headTail.tail + Size) % Wrap = headTail.head)
    /\ proc' = [Goto(w, "store") EXCEPT ![w].ptrs = headTail]
    /\ UNCHANGED <<queueVars, batch, sem, seqVars, scenario>>

\* The slot is free once its last consumer has cleared it.
Store(w) ==
    LET slot == proc[w].ptrs.head % Size
    IN  /\ proc[w].pc = "store" /\ slots[slot] = None
        /\ slots' = [slots EXCEPT ![slot] = w]
        /\ proc' = Goto(w, "enqueue")
        /\ UNCHANGED <<headTail, batch, mu, sem, seqVars, panicked, scenario>>

\* head is the upper half: its overflow is lost.
Enqueue(w) ==
    /\ proc[w].pc = "enqueue"
    /\ headTail' = [headTail EXCEPT !.head = Bump(@)]
    /\ proc' = Goto(w, IF Op(w).kind = "ingest" THEN "allocate" ELSE "write")
    /\ UNCHANGED <<slots, batch, mu, sem, seqVars, panicked, scenario>>

\* The rest of prepare: number the batch, write it to the WAL.
Write(w) ==
    /\ proc[w].pc = "write"
    /\ batch' = [batch EXCEPT ![w].seqNum = logSeqNum, ![w].syncing = (Op(w).kind = "sync")]
    /\ logSeqNum' = logSeqNum + Op(w).count
    /\ mu' = None
    /\ proc' = Goto(w, "apply")
    /\ UNCHANGED <<queueVars, sem, visibleSeqNum, panicked, scenario>>

\* AllocateSeqNum: number 0 is not used.
Allocate(w) ==
    LET zero == IF logSeqNum = 0 THEN 1 ELSE 0
    IN  /\ proc[w].pc = "allocate"
        /\ batch' = [batch EXCEPT ![w].seqNum = logSeqNum + zero]
        /\ logSeqNum' = logSeqNum + Op(w).count + zero
        /\ proc' = [Goto(w, "spin") EXCEPT ![w].val = logSeqNum]
        /\ UNCHANGED <<queueVars, mu, sem, visibleSeqNum, panicked, scenario>>

\* Mutant: outstanding writes are not waited for.
MutAllVisible(w) == TRUE

AllVisible(w) == visibleSeqNum = proc[w].val

\* The spin loop; the callback prepare() runs with mu held.
Spin(w) ==
    /\ proc[w].pc = "spin" /\ AllVisible(w)
    /\ proc' = Goto(w, "prepare")
    /\ UNCHANGED <<queueVars, batch, mu, sem, seqVars, panicked, scenario>>

Unlock(w) ==
    /\ proc[w].pc = "prepare"
    /\ mu' = None
    /\ proc' = Goto(w, "apply")
    /\ UNCHANGED <<queueVars, batch, sem, seqVars, panicked, scenario>>

\* env.apply, or the callback apply(), and the mark at the start of publish
Apply(w) ==
    /\ proc[w].pc = "apply"
    /\ batch' = [batch EXCEPT ![w].applied = TRUE]
    /\ proc' = Goto(w, "dequeue")
    /\ UNCHANGED <<queueVars, mu, sem, seqVars, panicked, scenario>>

-----------------------------------------------------------------------------
(* publish and dequeue *)

Local(w) == UNCHANGED <<queueVars, batch, mu, sem, seqVars, panicked, scenario>>

DequeueLoad(w) ==
    /\ proc[w].pc = "dequeue"
    /\ proc' = IF headTail.head = headTail.tail THEN Goto(w, "wait")
               ELSE [Goto(w, "slot") EXCEPT ![w].ptrs = headTail]
    /\ Local(w)

LoadSlot(w) ==
    LET b == slots[proc[w].ptrs.tail % Size]
    IN  /\ proc[w].pc = "slot"
        /\ proc' = IF b = None THEN Goto(w, "wait") ELSE [proc EXCEPT ![w].pc = "check", ![w].t = b]
        /\ Local(w)

Dequeueable(b) == batch[b].applied

CheckApplied(w) ==
    /\ proc[w].pc = "check"
    /\ proc' = IF Dequeueable(proc[w].t) THEN [proc EXCEPT ![w].pc = "cas"] ELSE Goto(w, "wait")
    /\ Local(w)

\* Mutant: who loses the race for the tail leaves the rest to the winner.
MutLost(w) == Goto(w, "wait")

\* Who loses the race for the tail starts again.
Lost(w) == Goto(w, "dequeue")

MoveTail(w) ==
    /\ proc[w].pc = "cas"
    /\ IF headTail = proc[w].ptrs
         THEN /\ headTail' = [headTail EXCEPT !.tail = Bump(@)]
              /\ proc' = [proc EXCEPT ![w].pc = "clear"]
         ELSE proc' = Lost(w) /\ UNCHANGED headTail
    /\ UNCHANGED <<slots, batch, mu, sem, seqVars, panicked, scenario>>

\* The end of dequeue: the slot is given back.
Clear(w) ==
    /\ proc[w].pc = "clear"
    /\ slots' = [slots EXCEPT ![proc[w].ptrs.tail % Size] = None]
    /\ proc' = [Goto(w, "dequeued") EXCEPT ![w].t = proc[w].t]
    /\ UNCHANGED <<headTail, batch, mu, sem, seqVars, panicked, scenario>>

\* publish looks at the batch once more: one that is not applied is a panic.
CheckDequeued(w) ==
    /\ proc[w].pc = "dequeued"
    /\ panicked' = ~batch[proc[w].t].applied
    /\ proc' = [proc EXCEPT ![w].pc = "load"]
    /\ UNCHANGED <<queueVars, batch, mu, sem, seqVars, scenario>>

\* Mutant: everything that has a number is published.
MutNewSeqNum(t) == logSeqNum

NewSeqNum(t) == batch[t].seqNum + batch[t].count

LoadVisible(w) ==
    /\ proc[w].pc = "load"
    /\ proc' = IF NewSeqNum(proc[w].t) <= visibleSeqNum THEN [proc EXCEPT ![w].pc = "done"]
               ELSE [proc EXCEPT ![w].pc = "ratchet", ![w].val = visibleSeqNum]
    /\ Local(w)

\* Mutant: who loses this race takes its batch for published.
MutOvertaken == "done"

\* Who loses this race looks again.
Overtaken == "load"

Ratchet(w) ==
    /\ proc[w].pc = "ratchet"
    /\ visibleSeqNum' = IF visibleSeqNum = proc[w].val THEN NewSeqNum(proc[w].t) ELSE visibleSeqNum
    /\ proc' = [Goto(w, IF visibleSeqNum = proc[w].val THEN "done" ELSE Overtaken)
                  EXCEPT ![w].t = proc[w].t]
    /\ UNCHANGED <<queueVars, batch, mu, sem, logSeqNum, panicked, scenario>>

\* t.commit.Done(): a WaitGroup below zero is a panic.
Done(w) ==
    /\ proc[w].pc = "done"
    /\ batch' = [batch EXCEPT ![proc[w].t].wg = @ - 1]
    /\ panicked' = (batch[proc[w].t].wg = 0)
    /\ proc' = Goto(w, "dequeue")
    /\ UNCHANGED <<queueVars, mu, sem, seqVars, scenario>>

Wait(w) ==
    /\ proc[w].pc = "wait" /\ batch[w].wg = 0
    /\ proc' = Goto(w, "return")
    /\ Local(w)

Return(w) ==
    /\ proc[w].pc = "return"
    /\ sem' = sem - 1
    /\ proc' = [proc EXCEPT ![w] = At("idle", @.n + 1)]
    /\ UNCHANGED <<queueVars, batch, mu, seqVars, panicked, scenario>>

\* External: the LogWriter has synced the batch.
Synced(w) ==
    /\ batch[w].syncing
    /\ batch' = [batch EXCEPT ![w].syncing = FALSE, ![w].wg = @ - 1]
    /\ panicked' = (batch[w].wg = 0)
    /\ UNCHANGED <<queueVars, proc, mu, sem, seqVars, scenario>>

Step(w) ==
    \/ Begin(w) \/ Lock(w) \/ Store(w) \/ Enqueue(w)
    \/ Write(w) \/ Allocate(w) \/ Spin(w) \/ Unlock(w) \/ Apply(w)
    \/ DequeueLoad(w) \/ LoadSlot(w) \/ CheckApplied(w) \/ MoveTail(w) \/ Clear(w)
    \/ CheckDequeued(w) \/ LoadVisible(w) \/ Ratchet(w) \/ Done(w)
    \/ Wait(w) \/ Return(w)

Next == \E w \in Worker : ~panicked /\ (Step(w) \/ Synced(w))

Spec == Init /\ [][Next]_vars

\* Goroutines run on, and the LogWriter syncs.
FairSpec == Spec /\ \A w \in Worker : WF_vars(~panicked /\ Step(w)) /\ WF_vars(~panicked /\ Synced(w))

-----------------------------------------------------------------------------
(* Properties *)

\* Goroutine w's batch has its number, and w has not returned.
Numbered(w) == proc[w].pc \notin {"idle", "lock", "store", "enqueue", "write", "allocate"}

\* Variables keep their types, and the queue never holds more than sem lets in.
TypeOK ==
    /\ headTail \in [head : 0..(Wrap - 1), tail : 0..(Wrap - 1)]
    /\ (headTail.head - headTail.tail) % Wrap <= sem
    /\ slots \in [0..(Size - 1) -> Worker \cup {None}]
    /\ \A w \in Worker : batch[w].wg \in 0..2 /\ proc[w].t \in Worker \cup {None}
    /\ mu \in Worker \cup {None} /\ sem \in 0..Capacity
    /\ visibleSeqNum <= logSeqNum

\* The queue is never full, also when its indexes overflow, no batch leaves it that is not
\* applied, and no WaitGroup is done too often (commit.go:62-66, 403-405).
NoPanic == TypeOK /\ ~panicked

\* Readers see all of a batch or nothing, and see it only once it is applied, whoever
\* publishes it, and whatever was applied before it (commit.go:407-422).
VisibleApplied ==
    \A w \in Worker : Numbered(w) =>
        \/ visibleSeqNum <= batch[w].seqNum
        \/ batch[w].applied /\ visibleSeqNum >= batch[w].seqNum + batch[w].count

\* Who returns from Commit sees its own writes, and if it asked for it they are synced, even
\* if another goroutine has published them (commit.go:237-239, 395-401).
ReturnedVisible ==
    \A w \in Worker : proc[w].pc = "return" =>
        visibleSeqNum >= batch[w].seqNum + batch[w].count /\ ~batch[w].syncing

\* The check for overlap with the memtable finds everything that is numbered before the
\* ingestion (commit.go:323-334).
IngestSeesEarlier ==
    \A w \in Worker : proc[w].pc = "prepare" =>
        \A v \in Worker \ {w} : Numbered(v) => batch[v].applied

\* Every operation returns: no batch stays unpublished because each goroutine leaves it to
\* another one, no spinning goroutine waits for one that waits for mu (commit.go:388-401).
CommitsReturn == \A w \in Worker : proc[w].pc # "idle" ~> proc[w].pc = "idle"
=============================================================================

------------------------------ MODULE Inflights ------------------------------
(***************************************************************************)
(* tracker/inflights.go: the sliding window of unacknowledged MsgApps,     *)
(* kept as a ring of capacity Size inside a buffer that is grown on        *)
(* demand.  The ring wraps at Size and not at the length of the buffer, so *)
(* a slot number may lie beyond the memory that exists; that it never does *)
(* is an invariant.                                                        *)
(***************************************************************************)
EXTENDS Naturals, Sequences

CONSTANTS Size,       \* capacity of the window
          LastIndex   \* the largest index that is sent

ASSUME SizeAssumption == Size \in Nat \ {0}
ASSUME LastIndexAssumption == LastIndex \in Nat

Index == 1..LastIndex

VARIABLES start,     \* the starting index in the buffer
          count,     \* number of inflights in the buffer
          buffer,    \* the slice; slot n of the code is buffer[n + 1]
          panicked   \* an access outside of the slice ended the process

inflights == <<start, count, buffer, panicked>>

Full == count = Size

\* Mutant: wraps at the length of the slice instead of the capacity.
MutSlot(n) == IF start + n >= Len(buffer) THEN start + n - Len(buffer) ELSE start + n

\* start + n, wrapped at the capacity of the ring.
Slot(n) == IF start + n >= Size THEN start + n - Size ELSE start + n

\* The n-th unacknowledged index, counted from 0.
Inflight(n) == buffer[Slot(n) + 1]

\* The indexes in the window, oldest first.
Window == [n \in 1..count |-> Inflight(n - 1)]

Min2(a, b) == IF a <= b THEN a ELSE b

\* Mutant: the case of an empty buffer is forgotten.
MutGrownLenNoZero == Min2(2 * Len(buffer), Size)

\* grow(): double the buffer, to 1 from empty and never beyond Size.
GrownLen == IF Len(buffer) = 0 THEN 1 ELSE Min2(2 * Len(buffer), Size)

Grown == [n \in 1..GrownLen |-> IF n <= Len(buffer) THEN buffer[n] ELSE 0]

\* An empty window: the slice has no memory yet.
NewInflights ==
    /\ start = 0
    /\ count = 0
    /\ buffer = <<>>
    /\ panicked = FALSE

\* Add(i): panics on a full window; grows the buffer when the slot is not in it.
Add(i) ==
    LET next == Slot(count)
        buf  == IF next >= Len(buffer) THEN Grown ELSE buffer
    IN /\ ~panicked
       /\ IF ~Full /\ next < Len(buf)
            THEN /\ buffer' = [buf EXCEPT ![next + 1] = i]
                 /\ count' = count + 1
                 /\ UNCHANGED <<start, panicked>>
            ELSE /\ panicked' = TRUE
                 /\ UNCHANGED <<start, count, buffer>>

\* The loop of FreeLE stops after k rounds: the k oldest are at or below `to`
\* and the next one, if there is one, is above it.
FreesExactly(k, to) ==
    /\ \A n \in 0..(k - 1) : Inflight(n) <= to
    /\ k < count => to < Inflight(k)

\* FreeLE(to): drop the freed prefix; an empty ring restarts at slot 0.
FreeLE(to) ==
    /\ ~panicked
    /\ \E k \in 0..count :
        /\ FreesExactly(k, to)
        /\ count' = count - k
        /\ start' = IF count = 0 THEN start
                    ELSE IF k = count THEN 0 ELSE Slot(k)
        /\ UNCHANGED <<buffer, panicked>>

\* FreeFirstOne(): reads the slot at `start` before FreeLE looks at `count`.
FreeFirstOne ==
    IF start < Len(buffer)
      THEN FreeLE(buffer[start + 1])
      ELSE /\ ~panicked
           /\ panicked' = TRUE
           /\ UNCHANGED <<start, count, buffer>>

\* reset(): the buffer keeps its memory.
Reset ==
    /\ ~panicked
    /\ count' = 0
    /\ start' = 0
    /\ UNCHANGED <<buffer, panicked>>

\* What Add asks of its caller: there is room, and indexes increase. The leader
\* has checked IsPaused() and sends the entries of a follower in order.
MayAdd(i) == ~Full /\ \A n \in 0..(count - 1) : Inflight(n) < i

\* The calls raft.go makes. The case of an empty window in FreeFirstOne is not among them:
\* a heartbeat's answer frees a message only where the window is full (raft.go:1285).
InflightsNext ==
    \/ \E i \in Index : MayAdd(i) /\ Add(i)
    \/ \E to \in 0..LastIndex : FreeLE(to)
    \/ Full /\ FreeFirstOne
    \/ Reset

InflightsSpec == NewInflights /\ [][InflightsNext]_inflights

-----------------------------------------------------------------------------

\* The start stays within the ring, the count within the capacity, and the buffer
\* never grows beyond it (inflights.go:74-84).
InflightsTypeOK ==
    /\ start \in 0..(Size - 1)
    /\ count \in 0..Size
    /\ buffer \in Seq(0..LastIndex)
    /\ Len(buffer) <= Size
    /\ panicked \in BOOLEAN

\* Every slot of the window lies in memory: a window that wraps does so only
\* once the buffer has reached its full size (inflights.go:59-66, 93-105).
WindowInBuffer == /\ count > 0 => start + count <= Len(buffer) \/ Len(buffer) = Size
                  /\ count = 0 => start = 0

\* The window is strictly increasing, which is what lets FreeLE stop at the
\* first index above the acknowledged one (inflights.go:95-98).
WindowSorted == \A m, n \in 0..(count - 1) : m < n => Inflight(m) < Inflight(n)

\* No call that raft.go makes reads or writes outside of the slice, although the slots wrap
\* at a capacity that the slice may not have grown to (inflights.go:53-66, 93-105).
\* FreeFirstOne on a window that was never added to would (inflights.go:116-118).
NoPanic == ~panicked

Queue == INSTANCE InflightsQueue WITH window <- Window, MaxIndex <- LastIndex

\* The ring implements the bounded FIFO its callers rely on: an ack frees exactly
\* the messages it covers, wherever the ring has wrapped (inflights.go:87-114).
ImplementsQueue == Queue!Spec

=============================================================================

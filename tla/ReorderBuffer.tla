---------------------------- MODULE ReorderBuffer ----------------------------
(***************************************************************************)
(* The circular array inside the reorder buffer: entries are pushed at     *)
(* head and popped at tail.  An action is one call by which the decoders,  *)
(* the units and the commit loop change it; they call it as Tomasulo does. *)
(***************************************************************************)
EXTENDS Integers, Sequences

CONSTANTS
    RobSize,      \* the size asked for, -r
    TagName,      \* the tags of the stations
    Result        \* what a unit stores: a value, or an address and a datum

VARIABLES buffer, head, tail, count

vars == <<buffer, head, tail, count>>

ASSUME SizeAssumption == RobSize \in Nat \ {0}

Max == RobSize - 1
Position == 0 .. (Max - 1)
ReorderBufferEntry == [tag : TagName, result : Result, valid : BOOLEAN]

\* The array is not initialised.
Init ==
    /\ buffer \in [Position -> ReorderBufferEntry]
    /\ head = 0 /\ tail = 0 /\ count = 0

(***************************************************************************)
(* Which positions updateField takes to be in use.                         *)
(***************************************************************************)
\* A slip: a full buffer is taken for an empty one.
OccupiedUnlessFull(i) ==
    \/ tail < head /\ i >= tail /\ i < head
    \/ head < tail /\ (i >= tail \/ i < head)

Occupied(i) ==
    \/ tail < head /\ i >= tail /\ i < head
    \/ head < tail /\ (i >= tail \/ i < head)
    \/ head = tail /\ count > 0

(***************************************************************************)
(* Operations.                                                             *)
(***************************************************************************)
\* A slip: nothing looks whether there is room.
PushUnchecked(e) ==
    /\ buffer' = [buffer EXCEPT ![head] = e]
    /\ head' = (head + 1) % Max
    /\ count' = count + 1
    /\ UNCHANGED tail

Push(e) ==
    /\ count # Max
    /\ buffer' = [buffer EXCEPT ![head] = e]
    /\ head' = (head + 1) % Max
    /\ count' = count + 1
    /\ UNCHANGED tail

\* A unit answers for an entry in flight: the k-th after the oldest.
UpdateField(k, v) ==
    /\ buffer' = [i \in Position |->
           IF Occupied(i) /\ buffer[i].tag = buffer[(tail + k) % Max].tag
             THEN [buffer[i] EXCEPT !.result = v, !.valid = TRUE]
             ELSE buffer[i]]
    /\ UNCHANGED <<head, tail, count>>

OldestIsDone == count > 0 /\ buffer[tail].valid

Pop ==
    /\ OldestIsDone
    /\ tail' = (tail + 1) % Max
    /\ count' = count - 1
    /\ UNCHANGED <<buffer, head>>

\* A slip: a flush resets the count only.
TailKept == tail

\* A flush pops until nothing is left; the pop that follows every commit
\* then finds the buffer empty and changes nothing.
FlushedTail == (tail + count) % Max

TriggerFlush ==
    /\ OldestIsDone
    /\ tail' = FlushedTail
    /\ count' = 0
    /\ UNCHANGED <<buffer, head>>

Next ==
    \/ \E t \in TagName, v \in Result : Push([tag |-> t, result |-> v, valid |-> FALSE])
    \/ \E k \in 0 .. (count - 1), v \in Result : UpdateField(k, v)
    \/ Pop
    \/ TriggerFlush

Spec == Init /\ [][Next]_vars

(***************************************************************************)
(* Properties.                                                             *)
(***************************************************************************)
\* head, tail and count stay in range and agree, also when the array is full
\* and head meets tail from behind.
Bookkeeping ==
    /\ buffer \in [Position -> ReorderBufferEntry]
    /\ head \in {0} \cup Position
    /\ tail \in {0} \cup Position
    /\ count \in 0 .. Max
    /\ Max > 0 => head = (tail + count) % Max

\* updateField's test finds exactly the positions in use, in all three
\* arrangements of head and tail: a stale or uninitialised entry is never
\* read, and no entry in flight is missed (its assertion holds).
OccupiedExactly ==
    \A i \in Position : Occupied(i) <=> \E k \in 0 .. (count - 1) : i = (tail + k) % Max

\* The array read from tail on.
Entries == [i \in 1 .. count |-> buffer[(tail + (i - 1)) % Max]]

Queue == INSTANCE EntryQueue WITH Capacity <- Max, queue <- Entries

\* The circular array implements a bounded queue: wrapping around, filling up
\* and flushing neither lose, repeat nor reorder an entry.
QueueSpec == Queue!Spec
==============================================================================

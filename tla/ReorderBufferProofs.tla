-------------------------- MODULE ReorderBufferProofs --------------------------
(***************************************************************************)
(* The circular array implements a bounded queue, for every size and       *)
(* whatever the entries are.                                               *)
(***************************************************************************)
EXTENDS ReorderBuffer, SequenceTheorems, TLAPS

(***************************************************************************)
(* Arithmetic of positions.                                                *)
(***************************************************************************)
LEMMA Wrapped ==
  ASSUME NEW n \in Nat, NEW a \in Nat, a < 2 * n
  PROVE  a % n = (IF a < n THEN a ELSE a - n)
<1>1. CASE a < n
  BY <1>1, SMT
<1>2. CASE a >= n
  BY <1>2, SMT
<1> QED
  BY <1>1, <1>2

\* All sums of positions and counts stay below twice the length, where the
\* remainder is at most one subtraction.
LEMMA SumWrapped ==
  ASSUME NEW n \in Nat, NEW a \in Nat, NEW b \in Nat, a + b < 2 * n
  PROVE  (a + b) % n = (IF a + b < n THEN a + b ELSE a + b - n)
<1> DEFINE sum == a + b
<1>1. sum \in Nat /\ sum < 2 * n
  OBVIOUS
<1> HIDE DEF sum
<1>2. sum % n = (IF sum < n THEN sum ELSE sum - n)
  BY <1>1, Wrapped
<1> QED
  BY <1>2 DEF sum

LEMMA MaxIsNat == Max \in Nat
BY SizeAssumption DEF Max

\* The position k steps after another.
LEMMA After ==
  ASSUME NEW p \in Position, NEW k \in 0 .. Max
  PROVE  /\ Max > 0
         /\ (p + k) % Max = (IF p + k < Max THEN p + k ELSE p + k - Max)
         /\ (p + k) % Max \in Position
<1>1. p \in Nat /\ k \in Nat /\ p + k < 2 * Max /\ Max > 0
  BY MaxIsNat DEF Position
<1>2. (p + k) % Max = (IF p + k < Max THEN p + k ELSE p + k - Max)
  BY <1>1, MaxIsNat, SumWrapped
<1> QED
  BY <1>1, <1>2, MaxIsNat DEF Position

\* The arrangement of head, tail and count without remainders.
LEMMA Arrangement ==
  ASSUME Bookkeeping, Max > 0
  PROVE  /\ head \in Position /\ tail \in Position /\ count \in 0 .. Max
         /\ head = (tail + count) % Max
         /\ head = (IF tail + count < Max THEN tail + count ELSE tail + count - Max)
<1>1. head \in Position /\ tail \in Position /\ count \in 0 .. Max
  BY MaxIsNat DEF Bookkeeping, Position
<1>2. head = (tail + count) % Max
  BY DEF Bookkeeping
<1> QED
  BY <1>1, <1>2, After

(***************************************************************************)
(* The positions updateField visits.                                       *)
(***************************************************************************)
LEMMA OccupiedPositions ==
  ASSUME Bookkeeping, NEW i \in Position
  PROVE  Occupied(i) <=> \E k \in 0 .. (count - 1) : i = (tail + k) % Max
<1>1. Max > 0
  BY MaxIsNat DEF Position
<1>2. /\ head \in Position /\ tail \in Position /\ count \in 0 .. Max
      /\ head = (IF tail + count < Max THEN tail + count ELSE tail + count - Max)
  BY <1>1, Arrangement
<1>3. \A k \in 0 .. Max :
         (tail + k) % Max = (IF tail + k < Max THEN tail + k ELSE tail + k - Max)
  BY <1>2, After
<1>4. ASSUME Occupied(i)
      PROVE  \E k \in 0 .. (count - 1) : i = (tail + k) % Max
  <2> DEFINE k == IF i >= tail THEN i - tail ELSE i - tail + Max
  <2>1. k \in 0 .. (count - 1)
    BY <1>2, <1>4, MaxIsNat DEF Occupied, Position
  <2>2. k \in 0 .. Max
    BY <1>2, MaxIsNat DEF Position
  <2>3. i = (IF tail + k < Max THEN tail + k ELSE tail + k - Max)
    BY <1>2, MaxIsNat DEF Position
  <2> HIDE DEF k
  <2> QED
    BY <1>3, <2>1, <2>2, <2>3
<1>5. ASSUME NEW k \in 0 .. (count - 1), i = (tail + k) % Max
      PROVE  Occupied(i)
  <2>1. k \in 0 .. Max
    BY <1>2, MaxIsNat
  <2>2. i = (IF tail + k < Max THEN tail + k ELSE tail + k - Max)
    BY <1>3, <1>5, <2>1
  <2> QED
    BY <1>2, <2>2, MaxIsNat DEF Occupied, Position
<1> QED
  BY <1>4, <1>5

(***************************************************************************)
(* Bookkeeping is inductive.                                               *)
(***************************************************************************)
LEMMA InitBookkeeping == Init => Bookkeeping
<1> SUFFICES ASSUME Init PROVE Bookkeeping
  OBVIOUS
<1>1. Max > 0 => (0 + 0) % Max = 0
  BY MaxIsNat, SumWrapped
<1> QED
  BY <1>1, MaxIsNat DEF Init, Bookkeeping

LEMMA PushBookkeeping ==
  ASSUME Bookkeeping, NEW e \in ReorderBufferEntry, Push(e)
  PROVE  Bookkeeping'
<1>1. Max > 0 /\ count \in 0 .. (Max - 1)
  BY MaxIsNat DEF Bookkeeping, Push
<1>2. /\ head \in Position /\ tail \in Position
      /\ head = (IF tail + count < Max THEN tail + count ELSE tail + count - Max)
  BY <1>1, Arrangement
<1>3. (head + 1) % Max = (IF head + 1 < Max THEN head + 1 ELSE head + 1 - Max)
  <2>1. 1 \in 0 .. Max
    BY <1>1, MaxIsNat
  <2> QED
    BY <1>2, <2>1, After
<1>4. (tail + (count + 1)) % Max
         = (IF tail + (count + 1) < Max THEN tail + (count + 1)
                                        ELSE tail + (count + 1) - Max)
  <2>1. count + 1 \in 0 .. Max
    BY <1>1, MaxIsNat
  <2> QED
    BY <1>2, <2>1, After
<1>5. head' \in Position /\ head' = (tail' + count') % Max
  BY <1>1, <1>2, <1>3, <1>4, MaxIsNat DEF Push, Position
<1>6. buffer' \in [Position -> ReorderBufferEntry]
  BY <1>2 DEF Push, Bookkeeping
<1> QED
  BY <1>1, <1>2, <1>5, <1>6, MaxIsNat DEF Push, Bookkeeping

LEMMA UpdateBookkeeping ==
  ASSUME Bookkeeping, NEW k \in 0 .. (count - 1), NEW v \in Result, UpdateField(k, v)
  PROVE  Bookkeeping'
<1>1. ASSUME NEW i \in Position
      PROVE  [buffer[i] EXCEPT !.result = v, !.valid = TRUE] \in ReorderBufferEntry
  BY <1>1 DEF Bookkeeping, ReorderBufferEntry
<1>2. buffer' \in [Position -> ReorderBufferEntry]
  BY <1>1 DEF UpdateField, Bookkeeping
<1> QED
  BY <1>2 DEF UpdateField, Bookkeeping

LEMMA PopBookkeeping ==
  ASSUME Bookkeeping, Pop
  PROVE  /\ Bookkeeping'
         /\ \A k \in 0 .. (count - 1) : (tail' + k) % Max = (tail + (k + 1)) % Max
<1>1. Max > 0 /\ count \in 1 .. Max
  BY MaxIsNat DEF Bookkeeping, Pop, OldestIsDone
<1>2. /\ head \in Position /\ tail \in Position
      /\ head = (tail + count) % Max
  BY <1>1, Arrangement
<1>3. /\ tail' = (IF tail + 1 < Max THEN tail + 1 ELSE tail + 1 - Max)
      /\ tail' \in Position
  <2>1. 1 \in 0 .. Max
    BY <1>1, MaxIsNat
  <2>2. /\ (tail + 1) % Max = (IF tail + 1 < Max THEN tail + 1 ELSE tail + 1 - Max)
        /\ (tail + 1) % Max \in Position
    BY <1>2, <2>1, After
  <2> QED
    BY <2>2 DEF Pop
<1>5. ASSUME NEW k \in 0 .. (count - 1)
      PROVE  (tail' + k) % Max = (tail + (k + 1)) % Max
  <2>1. (tail + (k + 1)) % Max
           = (IF tail + (k + 1) < Max THEN tail + (k + 1) ELSE tail + (k + 1) - Max)
    <3>1. k + 1 \in 0 .. Max
      BY <1>1, MaxIsNat
    <3> QED
      BY <1>2, <3>1, After
  <2>2. (tail' + k) % Max = (IF tail' + k < Max THEN tail' + k ELSE tail' + k - Max)
    <3>1. k \in 0 .. Max
      BY <1>1, MaxIsNat
    <3> QED
      BY <1>3, <3>1, After
  <2>3. tail \in Nat /\ tail < Max /\ k \in Nat /\ k < Max
    BY <1>1, <1>2, MaxIsNat DEF Position
  <2> QED
    BY <1>3, <2>1, <2>2, <2>3, MaxIsNat
<1>6. head' = (tail' + count') % Max
  <2>1. count - 1 \in 0 .. (count - 1) /\ (count - 1) + 1 = count
    BY <1>1
  <2>2. (tail' + (count - 1)) % Max = (tail + count) % Max
    BY <1>5, <2>1
  <2> QED
    BY <1>2, <2>2 DEF Pop
<1>7. Bookkeeping'
  BY <1>1, <1>2, <1>3, <1>6, MaxIsNat DEF Bookkeeping, Pop
<1> QED
  BY <1>5, <1>7

LEMMA FlushBookkeeping ==
  ASSUME Bookkeeping, TriggerFlush
  PROVE  Bookkeeping'
<1>1. Max > 0
  BY MaxIsNat DEF Bookkeeping, TriggerFlush, OldestIsDone
<1>2. head \in Position /\ tail' = head
  BY <1>1, Arrangement DEF TriggerFlush, FlushedTail, Bookkeeping
<1>3. (head + 0) % Max = head
  <2>1. 0 \in 0 .. Max
    BY MaxIsNat
  <2>2. (head + 0) % Max = (IF head + 0 < Max THEN head + 0 ELSE head + 0 - Max)
    BY <1>2, <2>1, After
  <2> QED
    BY <1>2, <2>2, MaxIsNat DEF Position
<1> QED
  BY <1>2, <1>3, MaxIsNat DEF TriggerFlush, Bookkeeping

LEMMA StepBookkeeping == Bookkeeping /\ [Next]_vars => Bookkeeping'
<1> SUFFICES ASSUME Bookkeeping, [Next]_vars PROVE Bookkeeping'
  OBVIOUS
<1>1. ASSUME NEW t \in TagName, NEW v \in Result,
             Push([tag |-> t, result |-> v, valid |-> FALSE])
      PROVE  Bookkeeping'
  BY <1>1, PushBookkeeping DEF ReorderBufferEntry
<1>2. ASSUME NEW k \in 0 .. (count - 1), NEW v \in Result, UpdateField(k, v)
      PROVE  Bookkeeping'
  BY <1>2, UpdateBookkeeping
<1>3. CASE Pop
  BY <1>3, PopBookkeeping
<1>4. CASE TriggerFlush
  BY <1>4, FlushBookkeeping
<1>5. CASE UNCHANGED vars
  BY <1>5 DEF Bookkeeping, vars
<1> QED
  BY <1>1, <1>2, <1>3, <1>4, <1>5 DEF Next

\* head, tail and count always agree: pushing, popping and flushing keep the
\* remainder arithmetic of reorderBuffer.cpp:39-83 consistent, a full buffer
\* included, for every size.
THEOREM PositionsAgree == Spec => []Bookkeeping
<1> QED
  BY InitBookkeeping, StepBookkeeping, PTL DEF Spec

\* updateField (reorderBuffer.cpp:272-312) visits exactly the entries in
\* flight: it never reads a stale or uninitialised pointer and misses none.
THEOREM UpdateVisitsEntriesInFlight == Spec => []OccupiedExactly
<1>1. Bookkeeping => OccupiedExactly
  BY OccupiedPositions DEF OccupiedExactly
<1> QED
  BY <1>1, PositionsAgree, PTL

(***************************************************************************)
(* Refinement.                                                             *)
(***************************************************************************)
LEMMA FunctionIsSequence ==
  ASSUME NEW S, NEW n \in Nat, NEW q \in [1 .. n -> S]
  PROVE  q \in Seq(S) /\ Len(q) = n /\ DOMAIN q = 1 .. n
OBVIOUS

LEMMA EntriesNow ==
  ASSUME Bookkeeping, Max > 0
  PROVE  /\ Entries \in Seq(ReorderBufferEntry)
         /\ Len(Entries) = count /\ DOMAIN Entries = 1 .. count
         /\ \A i \in 1 .. count : Entries[i] = buffer[(tail + (i - 1)) % Max]
<1>1. tail \in Position /\ count \in 0 .. Max
  BY MaxIsNat DEF Bookkeeping, Position
<1>2. buffer \in [Position -> ReorderBufferEntry]
  BY DEF Bookkeeping
<1>3. \A i \in 1 .. count : (tail + (i - 1)) % Max \in Position
  <2> TAKE i \in 1 .. count
  <2>1. i - 1 \in 0 .. Max
    BY <1>1, MaxIsNat
  <2> QED
    BY <1>1, <2>1, After
<1>4. \A i \in 1 .. count : Entries[i] = buffer[(tail + (i - 1)) % Max]
  BY DEF Entries
<1>5. Entries \in [1 .. count -> ReorderBufferEntry]
  BY <1>2, <1>3 DEF Entries
<1>6. count \in Nat
  BY <1>1, MaxIsNat
<1> QED
  BY <1>4, <1>5, <1>6, FunctionIsSequence

LEMMA EntriesNext ==
  ASSUME Bookkeeping', Max > 0
  PROVE  /\ Entries' \in Seq(ReorderBufferEntry)
         /\ Len(Entries') = count' /\ DOMAIN Entries' = 1 .. count'
         /\ \A i \in 1 .. count' : Entries'[i] = buffer'[(tail' + (i - 1)) % Max]
<1>1. tail' \in Position /\ count' \in 0 .. Max
  BY MaxIsNat DEF Bookkeeping, Position
<1>2. buffer' \in [Position -> ReorderBufferEntry]
  BY DEF Bookkeeping
<1>3. \A i \in 1 .. count' : (tail' + (i - 1)) % Max \in Position
  <2> TAKE i \in 1 .. count'
  <2>1. i - 1 \in 0 .. Max
    BY <1>1, MaxIsNat
  <2> QED
    BY <1>1, <2>1, After
<1>4. \A i \in 1 .. count' : Entries'[i] = buffer'[(tail' + (i - 1)) % Max]
  BY DEF Entries
<1>5. Entries' \in [1 .. count' -> ReorderBufferEntry]
  BY <1>2, <1>3 DEF Entries
<1>6. count' \in Nat
  BY <1>1, MaxIsNat
<1> QED
  BY <1>4, <1>5, <1>6, FunctionIsSequence

LEMMA PushRefines ==
  ASSUME Bookkeeping, NEW e \in ReorderBufferEntry, ~e.valid, Push(e)
  PROVE  Queue!Push
<1>1. Bookkeeping'
  BY PushBookkeeping
<1>2. Max > 0 /\ count \in 0 .. (Max - 1) /\ count' = count + 1 /\ tail' = tail
  BY MaxIsNat DEF Bookkeeping, Push
<1>3. /\ head \in Position /\ tail \in Position
      /\ head = (tail + count) % Max
      /\ head = (IF tail + count < Max THEN tail + count ELSE tail + count - Max)
  BY <1>2, Arrangement
<1>4. Len(Entries) = count /\ DOMAIN Entries = 1 .. count
  BY <1>2, EntriesNow
<1>5. \A i \in 1 .. count : Entries[i] = buffer[(tail + (i - 1)) % Max]
  BY <1>2, EntriesNow
<1>6. /\ Len(Entries') = count + 1
      /\ \A i \in 1 .. (count + 1) : Entries'[i] = buffer'[(tail + (i - 1)) % Max]
  <2>1. /\ Len(Entries') = count'
        /\ \A i \in 1 .. count' : Entries'[i] = buffer'[(tail' + (i - 1)) % Max]
    BY <1>1, <1>2, EntriesNext
  <2> QED
    BY <1>2, <2>1
<1>8. ASSUME NEW i \in 1 .. count
      PROVE  Entries'[i] = Entries[i]
  <2> DEFINE k == i - 1
  <2>0. k \in 0 .. Max /\ k < count
    BY <1>2, MaxIsNat
  <2>1. /\ (tail + k) % Max \in Position
        /\ (tail + k) % Max = (IF tail + k < Max THEN tail + k ELSE tail + k - Max)
    BY <1>3, <2>0, After
  <2>2. (tail + k) % Max # head
    <3>1. tail \in Nat /\ tail < Max /\ count < Max /\ count \in Nat /\ k \in Nat
      BY <1>2, <1>3, <2>0, MaxIsNat DEF Position
    <3> HIDE DEF k
    <3> QED
      BY <1>3, <2>0, <2>1, <3>1, MaxIsNat
  <2>3. buffer'[(tail + (i - 1)) % Max] = buffer[(tail + (i - 1)) % Max]
    BY <2>1, <2>2 DEF Push, Bookkeeping
  <2>4. i \in 1 .. (count + 1)
    BY <1>2
  <2> QED
    BY <1>5, <1>6, <2>3, <2>4
<1>9. Entries'[count + 1] = e
  <2>1. count + 1 \in 1 .. (count + 1) /\ (count + 1) - 1 = count
    BY <1>2
  <2>2. buffer'[head] = e
    BY <1>3 DEF Push, Bookkeeping
  <2> QED
    BY <1>3, <1>6, <2>1, <2>2
<1>10. count < Max
  BY <1>2, MaxIsNat
<1> QED
  BY <1>4, <1>6, <1>8, <1>9, <1>10 DEF Queue!Push

LEMMA UpdateRefines ==
  ASSUME Bookkeeping, NEW k \in 0 .. (count - 1), NEW v \in Result, UpdateField(k, v)
  PROVE  Queue!Complete
<1>1. Bookkeeping' /\ tail' = tail /\ count' = count
  BY UpdateBookkeeping DEF UpdateField
<1>2. Max > 0 /\ count \in 0 .. Max
  BY MaxIsNat DEF Bookkeeping
<1>3. Len(Entries) = count /\ DOMAIN Entries = 1 .. count
  BY <1>2, EntriesNow
<1>4. \A i \in 1 .. count : Entries[i] = buffer[(tail + (i - 1)) % Max]
  BY <1>2, EntriesNow
<1>5. /\ Len(Entries') = count
      /\ \A i \in 1 .. count : Entries'[i] = buffer'[(tail + (i - 1)) % Max]
  <2>1. /\ Len(Entries') = count'
        /\ \A i \in 1 .. count' : Entries'[i] = buffer'[(tail' + (i - 1)) % Max]
    BY <1>1, <1>2, EntriesNext
  <2> QED
    BY <1>1, <2>1
<1>6. tail \in Position
  BY <1>2, Arrangement
<1>7. k + 1 \in 1 .. count /\ Entries[k + 1] = buffer[(tail + k) % Max]
  <2>1. k + 1 \in 1 .. count /\ (k + 1) - 1 = k
    BY <1>2
  <2> QED
    BY <1>4, <2>1
<1>8. ASSUME NEW i \in 1 .. count
      PROVE  IF Entries[i].tag = Entries[k + 1].tag
               THEN Entries'[i].tag = Entries[i].tag /\ Entries'[i].valid
               ELSE Entries'[i] = Entries[i]
  <2> DEFINE p == (tail + (i - 1)) % Max
  <2>1. p \in Position
    <3>1. i - 1 \in 0 .. Max
      BY <1>2, MaxIsNat
    <3> QED
      BY <1>6, <3>1, After
  <2>2. Occupied(p)
    <3>1. i - 1 \in 0 .. (count - 1)
      BY <1>2
    <3> QED
      BY <2>1, <3>1, OccupiedPositions
  <2>3. Entries[i] = buffer[p] /\ Entries'[i] = buffer'[p]
    BY <1>4, <1>5
  <2>4. buffer[p] \in ReorderBufferEntry
    BY <2>1 DEF Bookkeeping
  <2> HIDE DEF p
  <2>5. buffer'[p] = (IF buffer[p].tag = buffer[(tail + k) % Max].tag
                        THEN [buffer[p] EXCEPT !.result = v, !.valid = TRUE]
                        ELSE buffer[p])
    BY <2>1, <2>2 DEF UpdateField
  <2> QED
    BY <1>7, <2>3, <2>4, <2>5 DEF ReorderBufferEntry
<1> QED
  BY <1>3, <1>5, <1>7, <1>8 DEF Queue!Complete

\* Both ways of leaving need the oldest entry finished.
LEMMA OldestRefines ==
  ASSUME Bookkeeping, OldestIsDone
  PROVE  /\ Queue!OldestIsValid
         /\ Max > 0 /\ count \in 1 .. Max
<1>1. Max > 0 /\ count \in 1 .. Max
  BY MaxIsNat DEF Bookkeeping, OldestIsDone
<1>2. Len(Entries) = count /\ 1 \in 1 .. count /\ 1 - 1 = 0
  BY <1>1, EntriesNow
<1>3. Entries[1] = buffer[(tail + 0) % Max]
  <2>1. \A i \in 1 .. count : Entries[i] = buffer[(tail + (i - 1)) % Max]
    BY <1>1, EntriesNow
  <2> QED
    BY <1>2, <2>1
<1>4. tail \in Position /\ 0 \in 0 .. Max
  BY <1>1, Arrangement, MaxIsNat
<1>5. (tail + 0) % Max = tail
  <2>1. (tail + 0) % Max = (IF tail + 0 < Max THEN tail + 0 ELSE tail + 0 - Max)
    BY <1>4, After
  <2> QED
    BY <1>4, <2>1, MaxIsNat DEF Position
<1>6. Entries # << >>
  BY <1>1, <1>2
<1> QED
  BY <1>1, <1>3, <1>5, <1>6 DEF Queue!OldestIsValid, OldestIsDone

LEMMA PopRefines ==
  ASSUME Bookkeeping, Pop
  PROVE  Queue!Commit
<1>1. Queue!OldestIsValid /\ Max > 0 /\ count \in 1 .. Max
  BY OldestRefines DEF Pop
<1>2. Bookkeeping' /\ count' = count - 1 /\ buffer' = buffer
  BY PopBookkeeping DEF Pop
<1>3. /\ Entries \in Seq(ReorderBufferEntry) /\ Len(Entries) = count
      /\ \A i \in 1 .. count : Entries[i] = buffer[(tail + (i - 1)) % Max]
  BY <1>1, EntriesNow
<1>4. /\ Entries' \in Seq(ReorderBufferEntry) /\ Len(Entries') = count - 1
      /\ \A i \in 1 .. (count - 1) : Entries'[i] = buffer[(tail' + (i - 1)) % Max]
  <2>1. /\ Entries' \in Seq(ReorderBufferEntry) /\ Len(Entries') = count'
        /\ \A i \in 1 .. count' : Entries'[i] = buffer'[(tail' + (i - 1)) % Max]
    BY <1>1, <1>2, EntriesNext
  <2> QED
    BY <1>2, <2>1
<1>5. ASSUME NEW i \in 1 .. (count - 1)
      PROVE  Entries'[i] = Entries[i + 1]
  <2>1. i - 1 \in 0 .. (count - 1) /\ (i - 1) + 1 = i
    BY <1>1
  <2>2. (tail' + (i - 1)) % Max = (tail + i) % Max
    BY <2>1, PopBookkeeping
  <2>3. i + 1 \in 1 .. count /\ (i + 1) - 1 = i
    BY <1>1
  <2> QED
    BY <1>3, <1>4, <2>2, <2>3
<1>6. /\ Tail(Entries) \in Seq(ReorderBufferEntry)
      /\ Len(Tail(Entries)) = count - 1
      /\ \A i \in 1 .. (count - 1) : Tail(Entries)[i] = Entries[i + 1]
  <2>1. Entries # << >>
    BY <1>1, <1>3
  <2>2. Len(Tail(Entries)) = Len(Entries) - 1
    BY <1>3, <2>1, HeadTailProperties
  <2> QED
    BY <1>3, <2>1, <2>2, HeadTailProperties
<1>7. Entries' = Tail(Entries)
  BY <1>4, <1>5, <1>6, SeqEqual
<1> QED
  BY <1>1, <1>7 DEF Queue!Commit

LEMMA FlushRefines ==
  ASSUME Bookkeeping, TriggerFlush
  PROVE  Queue!Flush
<1>1. Queue!OldestIsValid
  BY OldestRefines DEF TriggerFlush
<1>2. Entries' = << >>
  BY DEF TriggerFlush, Entries
<1> QED
  BY <1>1, <1>2 DEF Queue!Flush

LEMMA StepRefines == Bookkeeping /\ [Next]_vars => [Queue!Next]_Entries
<1> SUFFICES ASSUME Bookkeeping, [Next]_vars PROVE [Queue!Next]_Entries
  OBVIOUS
<1>1. ASSUME NEW t \in TagName, NEW v \in Result,
             Push([tag |-> t, result |-> v, valid |-> FALSE])
      PROVE  Queue!Push
  <2> DEFINE e == [tag |-> t, result |-> v, valid |-> FALSE]
  <2>1. e \in ReorderBufferEntry /\ ~e.valid
    BY DEF ReorderBufferEntry
  <2> QED
    BY <1>1, <2>1, PushRefines
<1>2. ASSUME NEW k \in 0 .. (count - 1), NEW v \in Result, UpdateField(k, v)
      PROVE  Queue!Complete
  BY <1>2, UpdateRefines
<1>3. CASE Pop
  BY <1>3, PopRefines DEF Queue!Next
<1>4. CASE TriggerFlush
  BY <1>4, FlushRefines DEF Queue!Next
<1>5. CASE UNCHANGED vars
  BY <1>5 DEF vars, Entries
<1> QED
  BY <1>1, <1>2, <1>3, <1>4, <1>5 DEF Next, Queue!Next

\* The circular array of reorderBuffer.cpp is a bounded queue, oldest entry
\* first: the sequence that Tomasulo takes for it.
THEOREM ImplementsQueue == Spec => QueueSpec
<1>1. Init => Queue!Init
  BY DEF Init, Queue!Init, Entries
<1> QED
  BY <1>1, StepRefines, PositionsAgree, PTL DEF Spec, QueueSpec, Queue!Spec
================================================================================

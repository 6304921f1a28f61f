------------------------------ MODULE EntryQueue ------------------------------
(***************************************************************************)
(* What a reorder buffer promises: a bounded queue of entries, oldest      *)
(* first.  An entry joins unfinished, is finished in any order by its tag, *)
(* and leaves, alone or with all the entries behind it, only when it is    *)
(* the oldest and finished.                                                *)
(***************************************************************************)
EXTENDS Integers, Sequences

CONSTANT Capacity

VARIABLE queue        \* of records with at least a tag and a valid bit

Init == queue = << >>

Push ==
    /\ Len(queue) < Capacity
    /\ Len(queue') = Len(queue) + 1
    /\ \A i \in DOMAIN queue : queue'[i] = queue[i]
    /\ ~queue'[Len(queue')].valid

\* The entries of one tag are finished and keep it; no other changes.
Complete ==
    /\ Len(queue') = Len(queue)
    /\ \E k \in DOMAIN queue : \A i \in DOMAIN queue :
         IF queue[i].tag = queue[k].tag
           THEN queue'[i].tag = queue[i].tag /\ queue'[i].valid
           ELSE queue'[i] = queue[i]

OldestIsValid == queue # << >> /\ Head(queue).valid

Commit == OldestIsValid /\ queue' = Tail(queue)

Flush == OldestIsValid /\ queue' = << >>

Next == Push \/ Complete \/ Commit \/ Flush

Spec == Init /\ [][Next]_queue
==============================================================================

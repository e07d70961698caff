-------------------------- MODULE StoreAndForward --------------------------
(***************************************************************************)
(* What the device's buffer promises (edge-agent store.py, the head        *)
(* comment): a first-in first-out queue on disk.  Records leave it at the  *)
(* old end only, and only because the server has decided about every one   *)
(* of them or because the disk is full.  Nothing is said about what the    *)
(* server decides, nor about how often it sees a record.                   *)
(***************************************************************************)
EXTENDS Integers, Sequences

CONSTANTS
  BatchSize,   \* records in one batch
  Capacity     \* records the disk may hold

VARIABLES
  made,      \* how many records have been kept so far; record n is the n-th
  queue,     \* the records on disk, oldest first
  decided    \* the records the server has stored or refused

Init == made = 0 /\ queue = <<>> /\ decided = {}

(* A record is kept; a disk over its limit loses the older half.           *)
Keep ==
  /\ made' = made + 1
  /\ LET grown == Append(queue, made + 1)
     IN  queue' = IF Len(grown) <= Capacity THEN grown
                  ELSE SubSeq(grown, Len(grown) \div 2 + 1, Len(grown))
  /\ UNCHANGED decided

(* The server decides about records it was shown, perhaps again.           *)
Decide ==
  /\ \E some \in SUBSET (1 .. made) : decided' = decided \cup some
  /\ UNCHANGED <<made, queue>>

(* The device lets go of records the server has decided about.             *)
Forward ==
  /\ \E n \in 1 .. BatchSize :
       /\ n <= Len(queue)
       /\ \A i \in 1 .. n : queue[i] \in decided
       /\ queue' = SubSeq(queue, n + 1, Len(queue))
  /\ UNCHANGED <<made, decided>>

Next == Keep \/ Decide \/ Forward

vars == <<made, queue, decided>>

Spec == Init /\ [][Next]_vars
=============================================================================

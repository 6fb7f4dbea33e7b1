----------------------------- MODULE EventFifo -----------------------------
(***************************************************************************)
(* What one thread's event queue promises to the observability worker: the *)
(* recorded events come out once each, whole and in the order recorded;    *)
(* the only events missing are those recorded while the queue was full.    *)
(***************************************************************************)
EXTENDS Naturals, Sequences

CONSTANTS
  Capacity,   \* EventQueue::CAPACITY: one slot always stays empty
  MaxEvents   \* bound: how many events the thread records

VARIABLES
  recorded,   \* events recorded so far; the events are numbered from 1
  queue,      \* events waiting
  delivered   \* events handed to the observability worker

vars == <<recorded, queue, delivered>>

Init == recorded = 0 /\ queue = <<>> /\ delivered = <<>>

\* record_event: kept if there is room, lost otherwise.
Record ==
  /\ recorded < MaxEvents
  /\ recorded' = recorded + 1
  /\ queue' = IF Len(queue) < Capacity - 1 THEN Append(queue, recorded + 1) ELSE queue
  /\ UNCHANGED delivered

Deliver ==
  /\ queue # <<>>
  /\ delivered' = Append(delivered, Head(queue))
  /\ queue' = Tail(queue)
  /\ UNCHANGED recorded

Next == Record \/ Deliver

Spec == Init /\ [][Next]_vars

=============================================================================

---------------------------- MODULE EventQueue ----------------------------
(***************************************************************************)
(* EventQueue (observer.h): the ring each thread of the gateway records    *)
(* its events in and the observability worker drains, without a lock.      *)
(*                                                                         *)
(* The producer owns tail_, the consumer owns head_; each reads the        *)
(* other's index.  Copying an EventRecord, which holds a string, into or   *)
(* out of a slot is not atomic: it has a beginning and an end, and a slot  *)
(* holds no whole record in between.  Loads and stores of the indices are  *)
(* in program order (acquire/release pairs publish the slot).              *)
(***************************************************************************)
EXTENDS Naturals, Sequences

CONSTANTS
  Capacity,   \* EventQueue::CAPACITY
  MaxEvents   \* bound: how many events the thread records

ASSUME CapacityAssumption == Capacity \in Nat /\ Capacity >= 2
ASSUME MaxEventsAssumption == MaxEvents \in Nat

VARIABLES
  buffer_, head_, tail_,
  producer,   \* "idle", or where it stands in push: "write", "writing", "publish"
  consumer,   \* "idle", or where it stands in pop: "copying", "advance"
  event,      \* the record pop has copied out
  recorded,   \* push calls that have returned; event n is the n-th pushed
  delivered   \* the records pop has returned

vars == <<buffer_, head_, tail_, producer, consumer, event, recorded, delivered>>

Slots == 0..(Capacity - 1)
Torn  == 0        \* no event, or one that is not whole

TypeOK ==
  /\ buffer_ \in [Slots -> 0..MaxEvents]
  /\ head_ \in Slots /\ tail_ \in Slots
  /\ producer \in {"idle", "write", "writing", "publish"}
  /\ consumer \in {"idle", "copying", "advance"}
  /\ event \in 0..MaxEvents
  /\ recorded \in 0..MaxEvents
  /\ delivered \in Seq(0..MaxEvents)

Init ==
  /\ buffer_ = [i \in Slots |-> Torn] /\ head_ = 0 /\ tail_ = 0
  /\ producer = "idle" /\ consumer = "idle" /\ event = Torn
  /\ recorded = 0 /\ delivered = <<>>

\* Deviation: the ring wraps one slot early.
NextWrapsEarly(i) == (i + 1) % (Capacity - 1)

\* Deviation: the index never wraps.
NextForgetsWrap(i) == i + 1

NextIndex(i) == (i + 1) % Capacity

-----------------------------------------------------------------------------
(* push *)

\* Deviation: the check that keeps one slot free is left out.
PushCheckForgetsHead ==
  /\ producer = "idle" /\ recorded < MaxEvents
  /\ producer' = "write"
  /\ UNCHANGED <<buffer_, head_, tail_, consumer, event, recorded, delivered>>

\* next_tail is compared with head_: there is room.
PushCheck ==
  /\ producer = "idle" /\ recorded < MaxEvents
  /\ NextIndex(tail_) # head_
  /\ producer' = "write"
  /\ UNCHANGED <<buffer_, head_, tail_, consumer, event, recorded, delivered>>

\* The queue is full: push returns false and the event is lost.
PushFull ==
  /\ producer = "idle" /\ recorded < MaxEvents
  /\ NextIndex(tail_) = head_
  /\ recorded' = recorded + 1
  /\ UNCHANGED <<buffer_, head_, tail_, producer, consumer, event, delivered>>

WriteBegin ==
  /\ producer = "write"
  /\ buffer_' = [buffer_ EXCEPT ![tail_] = Torn]
  /\ producer' = "writing"
  /\ UNCHANGED <<head_, tail_, consumer, event, recorded, delivered>>

WriteEnd ==
  /\ producer = "writing"
  /\ buffer_' = [buffer_ EXCEPT ![tail_] = recorded + 1]
  /\ producer' = "publish"
  /\ UNCHANGED <<head_, tail_, consumer, event, recorded, delivered>>

\* tail_.store
Publish ==
  /\ producer = "publish"
  /\ tail_' = NextIndex(tail_)
  /\ recorded' = recorded + 1
  /\ producer' = "idle"
  /\ UNCHANGED <<buffer_, head_, consumer, event, delivered>>

-----------------------------------------------------------------------------
(* pop *)

\* head_ is compared with tail_; an empty queue is polled again later.
PopCheck ==
  /\ consumer = "idle" /\ head_ # tail_
  /\ consumer' = "copying"
  /\ UNCHANGED <<buffer_, head_, tail_, producer, event, recorded, delivered>>

Copy ==
  /\ consumer = "copying"
  /\ event' = buffer_[head_]
  /\ consumer' = "advance"
  /\ UNCHANGED <<buffer_, head_, tail_, producer, recorded, delivered>>

\* head_.store, and pop returns the record.
Advance ==
  /\ consumer = "advance"
  /\ head_' = NextIndex(head_)
  /\ delivered' = Append(delivered, event)
  /\ event' = Torn
  /\ consumer' = "idle"
  /\ UNCHANGED <<buffer_, tail_, producer, recorded>>

-----------------------------------------------------------------------------

Push == PushCheck \/ PushFull \/ WriteBegin \/ WriteEnd \/ Publish
Pop  == PopCheck \/ Copy \/ Advance

Next == Push \/ Pop

Spec == Init /\ [][Next]_vars

\* A begun push goes on, and consume_events keeps popping while the worker runs.
FairSpec == Spec /\ WF_vars(WriteBegin \/ WriteEnd \/ Publish) /\ WF_vars(Pop)

-----------------------------------------------------------------------------
(* Properties.                                                             *)

(***************************************************************************)
(* The two threads are never inside the same slot: no record is copied out *)
(* while it is being written, which would be a data race on its string.    *)
(***************************************************************************)
SlotsDisjoint ==
  producer \in {"write", "writing", "publish"} /\ consumer \in {"copying", "advance"} => head_ # tail_

\* Slots in use, and the i-th of them counted from head_.
Used    == IF tail_ >= head_ THEN tail_ - head_ ELSE tail_ + Capacity - head_
Slot(i) == IF head_ + i < Capacity THEN head_ + i ELSE head_ + i - Capacity

\* The ring's contents, oldest first: what is waiting in the abstract queue.
Waiting == [i \in 1..Used |-> buffer_[Slot(i - 1)]]

(***************************************************************************)
(* The ring implements EventFifo: a push takes effect when it stores tail_ *)
(* (or finds the ring full), a pop when it stores head_.                   *)
(***************************************************************************)
Fifo == INSTANCE EventFifo WITH queue <- Waiting
RefinesFifo == Fifo!Spec

(***************************************************************************)
(* Every record that gets a slot is handed over: nothing accepted by push  *)
(* is overwritten before the consumer has it.                              *)
(***************************************************************************)
AcceptedIsDelivered ==
  \A n \in 1..MaxEvents :
    (producer = "publish" /\ recorded = n - 1) ~> (\E i \in DOMAIN delivered : delivered[i] = n)

=============================================================================

------------------------- MODULE EventQueue_proofs -------------------------
(***************************************************************************)
(* The ring of observer.h, of any capacity and for any number of events,   *)
(* is free of races on its slots and implements EventFifo.                 *)
(***************************************************************************)
EXTENDS EventQueue, SequenceTheorems, TLAPS

USE CapacityAssumption, MaxEventsAssumption DEF Slots, Torn

LEMMA NextIndexWraps ==
  ASSUME NEW i \in Slots
  PROVE  NextIndex(i) = IF i = Capacity - 1 THEN 0 ELSE i + 1
BY DEF NextIndex

\* What each thread knows while it is between two accesses to the indices.
ProducerInv ==
  /\ producer # "idle" => recorded < MaxEvents /\ NextIndex(tail_) # head_
  /\ producer = "publish" => buffer_[tail_] = recorded + 1

ConsumerInv ==
  /\ consumer # "idle" => head_ # tail_
  /\ consumer = "advance" => event = buffer_[head_]

Inv == TypeOK /\ ProducerInv /\ ConsumerInv

LEMMA InitInv == Init => Inv
BY DEF Init, Inv, TypeOK, ProducerInv, ConsumerInv

LEMMA StepInv == Inv /\ [Next]_vars => Inv'
<1> SUFFICES ASSUME Inv, [Next]_vars PROVE Inv' OBVIOUS
<1> USE DEF Inv, TypeOK, ProducerInv, ConsumerInv
<1>1. CASE PushCheck BY <1>1 DEF PushCheck
<1>2. CASE PushFull BY <1>2 DEF PushFull
<1>3. CASE WriteBegin BY <1>3 DEF WriteBegin
<1>4. CASE WriteEnd BY <1>4 DEF WriteEnd
<1>5. CASE Publish
  <2>1. NextIndex(tail_) \in Slots /\ NextIndex(tail_) # head_
    <3>1. tail_ \in Slots /\ NextIndex(tail_) # head_ BY <1>5 DEF Publish
    <3>2. NextIndex(tail_) = IF tail_ = Capacity - 1 THEN 0 ELSE tail_ + 1 BY <3>1, NextIndexWraps
    <3>3. QED BY <3>1, <3>2
  <2>2. TypeOK' BY <1>5, <2>1 DEF Publish
  <2>3. ProducerInv' BY <1>5 DEF Publish
  <2>4. ConsumerInv' BY <1>5, <2>1 DEF Publish
  <2>5. QED BY <2>2, <2>3, <2>4
<1>6. CASE PopCheck BY <1>6 DEF PopCheck
<1>7. CASE Copy BY <1>7 DEF Copy
<1>8. CASE Advance
  <2>1. NextIndex(head_) \in Slots /\ NextIndex(tail_) # NextIndex(head_)
    <3>1. head_ # tail_ /\ head_ \in Slots /\ tail_ \in Slots BY <1>8 DEF Advance
    <3>2. NextIndex(head_) = IF head_ = Capacity - 1 THEN 0 ELSE head_ + 1 BY NextIndexWraps
    <3>3. NextIndex(tail_) = IF tail_ = Capacity - 1 THEN 0 ELSE tail_ + 1 BY NextIndexWraps
    <3>4. QED BY <3>1, <3>2, <3>3
  <2>2. delivered' \in Seq(0..MaxEvents) BY <1>8 DEF Advance
  <2>3. TypeOK' BY <1>8, <2>1, <2>2 DEF Advance
  <2>4. ProducerInv' /\ ConsumerInv' BY <1>8, <2>1 DEF Advance
  <2>5. QED BY <2>3, <2>4
<1>9. CASE UNCHANGED vars BY <1>9 DEF vars
<1>10. QED BY <1>1, <1>2, <1>3, <1>4, <1>5, <1>6, <1>7, <1>8, <1>9 DEF Next, Push, Pop

(***************************************************************************)
(* Types: both indices stay inside the buffer.                             *)
(***************************************************************************)
THEOREM TypeCorrect == Spec => []TypeOK
<1>1. Inv => TypeOK BY DEF Inv
<1>2. QED BY InitInv, StepInv, <1>1, PTL DEF Spec

(***************************************************************************)
(* The producer never writes the slot the consumer is copying.             *)
(***************************************************************************)
THEOREM SlotsStayDisjoint == Spec => []SlotsDisjoint
<1>1. Inv => SlotsDisjoint BY DEF Inv, ConsumerInv, SlotsDisjoint
<1>2. QED BY InitInv, StepInv, <1>1, PTL DEF Spec

-----------------------------------------------------------------------------
(* Refinement.                                                             *)

LEMMA UsedType ==
  ASSUME Inv
  PROVE  /\ Used \in 0..(Capacity - 1)
         /\ Used = 0 <=> head_ = tail_
BY DEF Inv, TypeOK, Used

LEMMA UsedFull ==
  ASSUME Inv
  PROVE  Used = Capacity - 1 <=> NextIndex(tail_) = head_
BY NextIndexWraps DEF Inv, TypeOK, Used

\* The used slots are not the one the producer would write, which comes next.
LEMMA UsedSlots ==
  ASSUME Inv
  PROVE  /\ \A i \in 0..(Used - 1) : Slot(i) \in Slots /\ Slot(i) # tail_
         /\ Slot(Used) = tail_
BY DEF Inv, TypeOK, Used, Slot

LEMMA WaitingType ==
  ASSUME Inv
  PROVE  Waiting \in Seq(0..MaxEvents) /\ Len(Waiting) = Used
<1>1. ASSUME NEW i \in 1..Used PROVE buffer_[Slot(i - 1)] \in 0..MaxEvents
  <2>1. i - 1 \in 0..(Used - 1) BY UsedType
  <2>2. Slot(i - 1) \in Slots BY <2>1, UsedSlots
  <2>3. QED BY <2>2 DEF Inv, TypeOK
<1>2. Waiting \in [1..Used -> 0..MaxEvents] BY <1>1 DEF Waiting
<1>3. Used \in Nat BY UsedType
<1>4. QED BY <1>2, <1>3

LEMMA WaitingElements ==
  ASSUME Inv, NEW i \in 1..Used
  PROVE  Waiting[i] = buffer_[Slot(i - 1)]
BY DEF Waiting

\* A step that leaves the used slots and both indices alone.
LEMMA WaitingStays ==
  ASSUME Inv, Inv', UNCHANGED <<head_, tail_>>,
         \A i \in Slots \ {tail_} : buffer_'[i] = buffer_[i]
  PROVE  Waiting' = Waiting
<1>1. Used' = Used /\ \A i : Slot(i)' = Slot(i) BY DEF Used, Slot
<1>2. \A i \in 1..Used : buffer_'[Slot(i - 1)] = buffer_[Slot(i - 1)] BY UsedType, UsedSlots
<1>3. QED BY <1>1, <1>2 DEF Waiting

\* Storing tail_ puts the written record behind the others.
LEMMA PublishAppends ==
  ASSUME Inv, Inv', Publish
  PROVE  Waiting' = Append(Waiting, recorded + 1) /\ Len(Waiting) < Capacity - 1
<1>1. /\ buffer_' = buffer_ /\ head_' = head_ /\ recorded + 1 \in 0..MaxEvents
      /\ tail_' = NextIndex(tail_) /\ buffer_[tail_] = recorded + 1 /\ NextIndex(tail_) # head_
      /\ head_ \in Slots /\ tail_ \in Slots
  BY DEF Publish, Inv, TypeOK, ProducerInv
<1>2. NextIndex(tail_) = IF tail_ = Capacity - 1 THEN 0 ELSE tail_ + 1 BY <1>1, NextIndexWraps
<1>3. Used < Capacity - 1 BY <1>1, UsedType, UsedFull
<1>4. Used' = Used + 1 BY <1>1, <1>2 DEF Used
<1>5. \A i : Slot(i)' = Slot(i) BY <1>1 DEF Slot
<1>6. \A i \in 1..(Used + 1) : Waiting'[i] = IF i = Used + 1 THEN recorded + 1 ELSE Waiting[i]
  <2> SUFFICES ASSUME NEW i \in 1..(Used + 1)
               PROVE  Waiting'[i] = IF i = Used + 1 THEN recorded + 1 ELSE Waiting[i]
    OBVIOUS
  <2>1. Waiting'[i] = buffer_[Slot(i - 1)] BY <1>1, <1>4, <1>5 DEF Waiting
  <2>2. CASE i = Used + 1
    <3>1. i - 1 = Used BY <2>2, UsedType
    <3>2. QED BY <2>1, <2>2, <3>1, <1>1, UsedSlots
  <2>3. CASE i # Used + 1
    <3>1. i \in 1..Used BY <2>3, UsedType
    <3>2. QED BY <2>1, <2>3, <3>1 DEF Waiting
  <2>4. QED BY <2>2, <2>3
<1>7. Waiting \in Seq(0..MaxEvents) /\ Len(Waiting) = Used BY WaitingType
<1>8. Waiting' \in Seq(0..MaxEvents) /\ Len(Waiting') = Used + 1
  <2>1. (Waiting \in Seq(0..MaxEvents) /\ Len(Waiting) = Used)' BY WaitingType, PTL
  <2>2. QED BY <2>1, <1>4
<1>9. /\ Append(Waiting, recorded + 1) \in Seq(0..MaxEvents)
      /\ Len(Append(Waiting, recorded + 1)) = Used + 1
      /\ \A i \in 1..(Used + 1) :
           Append(Waiting, recorded + 1)[i] = IF i = Used + 1 THEN recorded + 1 ELSE Waiting[i]
  BY <1>1, <1>7
<1>10. Waiting' = Append(Waiting, recorded + 1) BY <1>6, <1>8, <1>9, SeqEqual
<1>11. QED BY <1>3, <1>7, <1>10

\* Storing head_ takes the oldest record away.
LEMMA AdvanceTakesHead ==
  ASSUME Inv, Inv', Advance
  PROVE  Waiting # <<>> /\ Head(Waiting) = event /\ Waiting' = Tail(Waiting)
<1>1. /\ buffer_' = buffer_ /\ tail_' = tail_ /\ head_' = NextIndex(head_)
      /\ head_ # tail_ /\ event = buffer_[head_] /\ head_ \in Slots /\ tail_ \in Slots
  BY DEF Advance, Inv, TypeOK, ConsumerInv
<1>2. NextIndex(head_) = IF head_ = Capacity - 1 THEN 0 ELSE head_ + 1 BY <1>1, NextIndexWraps
<1>3. Used \in 1..(Capacity - 1) BY <1>1, UsedType
<1>4. Used' = Used - 1 BY <1>1, <1>2 DEF Used
<1>5. \A i \in 0..(Used - 2) : Slot(i)' = Slot(i + 1) BY <1>1, <1>2, <1>3 DEF Slot
<1>6. Waiting \in Seq(0..MaxEvents) /\ Len(Waiting) = Used BY WaitingType
<1>7. Waiting # <<>> BY <1>3, <1>6
<1>8. Head(Waiting) = event
  <2>1. Head(Waiting) = Waiting[1] BY <1>6, <1>7
  <2>2. Slot(0) = head_ BY <1>1 DEF Slot
  <2>3. Waiting[1] = buffer_[Slot(0)] BY <1>3, WaitingElements
  <2>4. QED BY <1>1, <2>1, <2>2, <2>3
<1>9. /\ Tail(Waiting) \in Seq(0..MaxEvents) /\ Len(Tail(Waiting)) = Used - 1
      /\ \A i \in 1..(Used - 1) : Tail(Waiting)[i] = Waiting[i + 1]
  BY <1>3, <1>6, <1>7
<1>10. Waiting' \in Seq(0..MaxEvents) /\ Len(Waiting') = Used - 1
  <2>1. (Waiting \in Seq(0..MaxEvents) /\ Len(Waiting) = Used)' BY WaitingType, PTL
  <2>2. QED BY <2>1, <1>4
<1>11. \A i \in 1..(Used - 1) : Waiting'[i] = Tail(Waiting)[i]
  <2> SUFFICES ASSUME NEW i \in 1..(Used - 1) PROVE Waiting'[i] = Tail(Waiting)[i] OBVIOUS
  <2>1. Waiting'[i] = buffer_[Slot(i - 1)'] BY <1>1, <1>4 DEF Waiting
  <2>2. Slot(i - 1)' = Slot(i) BY <1>3, <1>5
  <2>3. Waiting[i + 1] = buffer_[Slot(i)] BY <1>3 DEF Waiting
  <2>4. QED BY <1>9, <2>1, <2>2, <2>3
<1>12. Waiting' = Tail(Waiting) BY <1>9, <1>10, <1>11, SeqEqual
<1>13. QED BY <1>7, <1>8, <1>12

LEMMA InitIsFifoInit == Init => Fifo!Init
<1> SUFFICES ASSUME Init PROVE Fifo!Init OBVIOUS
<1>1. Used = 0 BY DEF Init, Used
<1>2. Inv BY InitInv
<1>3. Waiting \in Seq(0..MaxEvents) /\ Len(Waiting) = 0 BY <1>1, <1>2, WaitingType
<1>4. Waiting = <<>> BY <1>3, EmptySeq
<1>5. QED BY <1>4 DEF Init, Fifo!Init

\* Every step of either thread is a step of the abstract queue, or none.
LEMMA StepIsFifoStep == Inv /\ Inv' /\ [Next]_vars => [Fifo!Next]_(Fifo!vars)
<1> SUFFICES ASSUME Inv, Inv', [Next]_vars
             PROVE  Fifo!Record \/ Fifo!Deliver \/ UNCHANGED Fifo!vars
  BY DEF Fifo!Next
<1>1. CASE PushCheck \/ PopCheck \/ Copy \/ UNCHANGED vars
  <2>1. UNCHANGED <<buffer_, head_, tail_, recorded, delivered>>
    BY <1>1 DEF PushCheck, PopCheck, Copy, vars
  <2>2. QED BY <2>1, WaitingStays DEF Fifo!vars
<1>2. CASE WriteBegin \/ WriteEnd
  <2>1. /\ UNCHANGED <<head_, tail_, recorded, delivered>>
        /\ \A i \in Slots \ {tail_} : buffer_'[i] = buffer_[i]
    BY <1>2 DEF WriteBegin, WriteEnd, Inv, TypeOK
  <2>2. QED BY <2>1, WaitingStays DEF Fifo!vars
<1>3. CASE PushFull
  <2>1. Waiting' = Waiting BY <1>3, WaitingStays DEF PushFull
  <2>2. Len(Waiting) = Capacity - 1 BY <1>3, UsedFull, WaitingType DEF PushFull
  <2>3. QED BY <1>3, <2>1, <2>2 DEF PushFull, Fifo!Record
<1>4. CASE Publish
  <2>1. recorded < MaxEvents BY <1>4 DEF Publish, Inv, ProducerInv
  <2>2. QED BY <1>4, <2>1, PublishAppends DEF Publish, Fifo!Record
<1>5. CASE Advance
  BY <1>5, AdvanceTakesHead DEF Advance, Fifo!Deliver
<1>6. QED BY <1>1, <1>2, <1>3, <1>4, <1>5 DEF Next, Push, Pop

(***************************************************************************)
(* The lock-free ring is a FIFO that loses events only when it is full:    *)
(* every step of either thread is a Record, a Deliver or no step of        *)
(* EventFifo.                                                              *)
(***************************************************************************)
THEOREM RingImplementsFifo == Spec => RefinesFifo
BY InitIsFifoInit, StepIsFifoStep, InitInv, StepInv, PTL DEF Spec, RefinesFifo, Fifo!Spec

-----------------------------------------------------------------------------
(* What the FIFO promises about the events themselves.                     *)

\* Events are numbered as they are recorded; those waiting come after those delivered.
OrderInv ==
  /\ \A i \in 1..Len(delivered) :
       /\ delivered[i] \in 1..recorded
       /\ \A j \in 1..Len(delivered) : i < j => delivered[i] < delivered[j]
       /\ \A j \in 1..Len(Waiting) : delivered[i] < Waiting[j]
  /\ \A i \in 1..Len(Waiting) :
       /\ Waiting[i] \in 1..recorded
       /\ \A j \in 1..Len(Waiting) : i < j => Waiting[i] < Waiting[j]

LEMMA RecordKeepsOrder ==
  ASSUME Inv, Inv', OrderInv, Fifo!Record
  PROVE  OrderInv'
<1>1. Waiting \in Seq(Nat) /\ recorded \in Nat /\ recorded' = recorded + 1 /\ delivered' = delivered
  <2>1. Waiting \in Seq(0..MaxEvents) BY WaitingType
  <2>2. Waiting \in Seq(Nat) BY <2>1, WaitingType
  <2>3. QED BY <2>2 DEF Fifo!Record, Inv, TypeOK
<1>2. \A i \in 1..recorded : i \in 1..recorded' /\ i < recorded + 1 BY <1>1
<1>3. CASE Waiting' = Waiting BY <1>1, <1>2, <1>3 DEF OrderInv
<1>4. CASE Waiting' = Append(Waiting, recorded + 1)
  <2>1. Len(Waiting') = Len(Waiting) + 1 /\ Len(Waiting) \in Nat BY <1>1, <1>4
  <2>2. \A i \in 1..Len(Waiting') :
          Waiting'[i] = IF i = Len(Waiting) + 1 THEN recorded + 1 ELSE Waiting[i]
    BY <1>1, <1>4
  <2>3. \A i \in 1..Len(Waiting') : i = Len(Waiting) + 1 \/ i \in 1..Len(Waiting) BY <2>1
  <2>4. \A i \in 1..Len(Waiting') : Waiting'[i] \in 1..recorded'
    BY <1>1, <1>2, <2>1, <2>2, <2>3 DEF OrderInv
  <2>5. ASSUME NEW i \in 1..Len(Waiting'), NEW j \in 1..Len(Waiting'), i < j PROVE Waiting'[i] < Waiting'[j]
    <3>1. i \in 1..Len(Waiting) /\ Waiting'[i] = Waiting[i] BY <2>1, <2>2, <2>3, <2>5
    <3>2. CASE j \in 1..Len(Waiting) BY <2>1, <2>2, <2>5, <3>1, <3>2 DEF OrderInv
    <3>3. CASE j = Len(Waiting) + 1
      <4>1. Waiting'[j] = recorded + 1 /\ Waiting[i] \in 1..recorded BY <2>2, <3>1, <3>3 DEF OrderInv
      <4>2. QED BY <1>2, <3>1, <4>1
    <3>4. QED BY <2>3, <3>2, <3>3
  <2>6. ASSUME NEW i \in 1..Len(delivered), NEW j \in 1..Len(Waiting') PROVE delivered[i] < Waiting'[j]
    <3>1. delivered[i] \in 1..recorded BY DEF OrderInv
    <3>2. CASE j \in 1..Len(Waiting)
      <4>1. j # Len(Waiting) + 1 BY <2>1, <3>2
      <4>2. Waiting'[j] = Waiting[j] BY <2>2, <4>1
      <4>3. delivered[i] < Waiting[j] BY <3>2 DEF OrderInv
      <4>4. QED BY <4>2, <4>3
    <3>3. CASE j = Len(Waiting) + 1
      <4>1. Waiting'[j] = recorded + 1 BY <2>2, <3>3
      <4>2. QED BY <1>2, <3>1, <4>1
    <3>4. QED BY <2>3, <3>2, <3>3
  <2>7. QED BY <1>1, <1>2, <2>4, <2>5, <2>6 DEF OrderInv
<1>5. QED BY <1>3, <1>4 DEF Fifo!Record

LEMMA DeliverKeepsOrder ==
  ASSUME Inv, Inv', OrderInv, Fifo!Deliver
  PROVE  OrderInv'
<1>1. /\ Waiting \in Seq(0..MaxEvents) /\ delivered \in Seq(0..MaxEvents) /\ recorded' = recorded
      /\ Waiting # <<>> /\ Waiting' = Tail(Waiting) /\ delivered' = Append(delivered, Head(Waiting))
  BY WaitingType DEF Fifo!Deliver, Inv, TypeOK
<1> DEFINE n == Len(delivered)  m == Len(Waiting)
<1>2. n \in Nat /\ m \in Nat \ {0} BY <1>1
<1>3. Head(Waiting) = Waiting[1] /\ 1 \in 1..m BY <1>1, <1>2
<1>4. Len(delivered') = n + 1 /\ \A i \in 1..(n + 1) :
        delivered'[i] = IF i = n + 1 THEN Waiting[1] ELSE delivered[i]
  BY <1>1, <1>3
<1>5. Len(Waiting') = m - 1 /\ \A i \in 1..(m - 1) : Waiting'[i] = Waiting[i + 1] BY <1>1, <1>2
<1> HIDE DEF n, m
<1>6. \A i \in 1..(n + 1) : i = n + 1 \/ i \in 1..n BY <1>2
<1>7. \A i \in 1..(m - 1) : i + 1 \in 1..m /\ 1 < i + 1 BY <1>2
<1>8. \A i \in 1..m : Waiting[i] \in 1..recorded /\ \A j \in 1..m : i < j => Waiting[i] < Waiting[j]
  BY DEF OrderInv, m
<1>9. \A i \in 1..n : /\ delivered[i] \in 1..recorded /\ \A j \in 1..n : i < j => delivered[i] < delivered[j]
                      /\ \A j \in 1..m : delivered[i] < Waiting[j]
  BY DEF OrderInv, m, n
<1>10. ASSUME NEW i \in 1..(m - 1)
       PROVE  Waiting'[i] \in 1..recorded /\ \A j \in 1..(m - 1) : i < j => Waiting'[i] < Waiting'[j]
  <2>1. \A j \in 1..(m - 1) : i < j => i + 1 < j + 1 BY <1>2
  <2>2. QED BY <1>5, <1>7, <1>8, <2>1
<1>11. ASSUME NEW i \in 1..(n + 1)
       PROVE  delivered'[i] \in 1..recorded /\ \A j \in 1..(m - 1) : delivered'[i] < Waiting'[j]
  <2>1. CASE i = n + 1 BY <1>3, <1>4, <1>5, <1>7, <1>8, <2>1 DEF m
  <2>2. CASE i \in 1..n
    <3>1. i # n + 1 BY <1>2, <2>2
    <3>2. delivered'[i] = delivered[i] BY <1>4, <3>1
    <3>3. QED BY <1>5, <1>7, <1>9, <2>2, <3>2
  <2>3. QED BY <1>6, <2>1, <2>2
<1>12. ASSUME NEW i \in 1..(n + 1), NEW j \in 1..(n + 1), i < j PROVE delivered'[i] < delivered'[j]
  <2>1. i \in 1..n /\ i # n + 1 BY <1>2, <1>12
  <2>2. delivered'[i] = delivered[i] BY <1>4, <2>1
  <2>3. CASE j = n + 1 BY <1>3, <1>4, <1>9, <2>1, <2>2, <2>3 DEF m
  <2>4. CASE j # n + 1
    <3>1. j \in 1..n BY <1>6, <2>4
    <3>2. QED BY <1>4, <1>9, <1>12, <2>1, <2>2, <2>4, <3>1
  <2>5. QED BY <2>3, <2>4
<1>13. QED BY <1>1, <1>4, <1>5, <1>10, <1>11, <1>12 DEF OrderInv

(***************************************************************************)
(* What the consumer has been handed are events that were recorded, none   *)
(* twice and none out of order; in particular each is whole, for a record  *)
(* in the making counts as none (observer.h:36-59).                        *)
(***************************************************************************)
DeliveredInOrder ==
  \A i \in 1..Len(delivered) :
    /\ delivered[i] \in 1..recorded
    /\ \A j \in 1..Len(delivered) : i < j => delivered[i] < delivered[j]

\* Proved of the abstract queue's steps, which are all the ring makes.
THEOREM EventsComeOutInOrder == Spec => []DeliveredInOrder
<1>1. Init => OrderInv
  <2> SUFFICES ASSUME Init PROVE OrderInv OBVIOUS
  <2>1. Waiting = <<>> /\ delivered = <<>> BY InitIsFifoInit DEF Fifo!Init
  <2>2. QED BY <2>1 DEF OrderInv
<1>2. Inv /\ Inv' /\ OrderInv /\ [Next]_vars => OrderInv'
  <2> SUFFICES ASSUME Inv, Inv', OrderInv, [Next]_vars PROVE OrderInv' OBVIOUS
  <2>1. CASE UNCHANGED Fifo!vars BY <2>1 DEF OrderInv, Fifo!vars
  <2>2. QED BY <2>1, StepIsFifoStep, RecordKeepsOrder, DeliverKeepsOrder DEF Fifo!Next
<1>3. OrderInv => DeliveredInOrder BY DEF OrderInv, DeliveredInOrder
<1>4. QED BY <1>1, <1>2, <1>3, InitInv, StepInv, PTL DEF Spec

(***************************************************************************)
(* The safety half of AcceptedIsDelivered: a push that got a slot puts its *)
(* event behind those that wait, and an event that waits goes on waiting   *)
(* until the very step that hands it over; no lapping producer overwrites  *)
(* it (observer.h:43-46).                                                  *)
(***************************************************************************)
KeptUntilTaken ==
  [][/\ producer = "publish" /\ producer' # "publish" => Waiting' = Append(Waiting, recorded + 1)
     /\ \A i \in 1..Len(Waiting) :
          \/ \E j \in 1..Len(Waiting') : Waiting'[j] = Waiting[i]
          \/ delivered' = Append(delivered, Waiting[i])]_vars

\* Nothing accepted is lost, however often the indices go round.
THEOREM AcceptedIsKept == Spec => KeptUntilTaken
<1> DEFINE Kept == \A i \in 1..Len(Waiting) :
                     \/ \E j \in 1..Len(Waiting') : Waiting'[j] = Waiting[i]
                     \/ delivered' = Append(delivered, Waiting[i])
<1>1. ASSUME Inv, Inv', [Next]_vars PROVE Kept
  <2>1. Waiting \in Seq(0..MaxEvents) BY <1>1, WaitingType
  <2>2. CASE Waiting' = Waiting BY <2>2
  <2>3. CASE Waiting' = Append(Waiting, recorded + 1)
    <3>1. \A i \in 1..Len(Waiting) : i \in 1..Len(Waiting') /\ Waiting'[i] = Waiting[i] BY <2>1, <2>3
    <3>2. QED BY <3>1
  <2>4. CASE Fifo!Deliver
    <3> SUFFICES ASSUME NEW i \in 1..Len(Waiting)
                 PROVE  \/ \E j \in 1..Len(Waiting') : Waiting'[j] = Waiting[i]
                        \/ delivered' = Append(delivered, Waiting[i])
      OBVIOUS
    <3>1. Waiting # <<>> /\ Waiting' = Tail(Waiting) /\ delivered' = Append(delivered, Head(Waiting))
      BY <2>4 DEF Fifo!Deliver
    <3>2. CASE i = 1 BY <2>1, <3>1, <3>2
    <3>3. CASE i # 1
      <4>1. Len(Waiting) \in Nat BY <2>1
      <4>2. i - 1 \in 1..(Len(Waiting) - 1) BY <3>3, <4>1
      <4>3. Len(Tail(Waiting)) = Len(Waiting) - 1 /\ \A k \in 1..(Len(Waiting) - 1) : Tail(Waiting)[k] = Waiting[k + 1]
        BY <2>1, <3>1
      <4>4. Tail(Waiting)[i - 1] = Waiting[i] BY <4>1, <4>2, <4>3
      <4>5. QED BY <3>1, <4>2, <4>3, <4>4
    <3>4. QED BY <3>2, <3>3
  <2>5. QED BY <1>1, <2>2, <2>3, <2>4, StepIsFifoStep DEF Fifo!Next, Fifo!Record, Fifo!vars
<1>2. ASSUME Inv, Inv', [Next]_vars, producer = "publish", producer' # "publish"
      PROVE  Waiting' = Append(Waiting, recorded + 1)
  <2>1. Publish
    BY <1>2 DEF Next, Push, Pop, PushCheck, PushFull, WriteBegin, WriteEnd, PopCheck, Copy, Advance, vars
  <2>2. QED BY <1>2, <2>1, PublishAppends
<1> HIDE DEF Kept
<1>3. Inv /\ Inv' /\ [Next]_vars =>
        Kept /\ (producer = "publish" /\ producer' # "publish" => Waiting' = Append(Waiting, recorded + 1))
  BY <1>1, <1>2
<1>4. Inv /\ Inv' /\ [Next]_vars =>
        [Kept /\ (producer = "publish" /\ producer' # "publish" => Waiting' = Append(Waiting, recorded + 1))]_vars
  BY <1>3
<1>5. QED BY <1>4, InitInv, StepInv, PTL DEF Spec, KeptUntilTaken, Kept

=============================================================================

---------------------------- MODULE Observer_proofs ----------------------------
(***************************************************************************)
(* Invariance proofs for Observer, for any recorders, clients and sizes of *)
(* queues, rounds and history.                                             *)
(***************************************************************************)
EXTENDS Observer, TLAPS

\* What a queue has given out is in the log.
LogInv == \A p \in Recorders : \A k \in 1..popped[p] : \E i \in 1..Len(log) : log[i] = <<p, k>>

\* The ring begins at slot 0 until it is full.
RingInv == ListingIsRecent /\ (history_count_ < MaxEvents => history_head_ = history_count_)

RoundInv ==
  /\ pc # "consume" => todo = {} /\ queue = None
  /\ \A p \in Recorders : p \notin registered => pushed[p] = 0

\* A connection epoll_wait has reported stays as it was until it is served.
ReadyInv ==
  /\ pc = "poll" => ready = {}
  /\ \A c \in Clients : c \in ready => client[c] = "accepted" /\ (asked[c] \/ gone[c])

\* Of the queues the round has left, it has taken what is due to the reported connections.
DueInv ==
  \A c \in Clients, p \in Recorders :
    /\ due[c][p] <= pushed[p] /\ due[c][p] <= popped[p] + Round
    /\ c \in ready /\ asked[c] => \/ p \in todo
                                  \/ p = queue /\ due[c][p] + count <= popped[p] + Round
                                  \/ due[c][p] <= popped[p]

Inv == TypeOK /\ LogInv /\ RingInv /\ RoundInv /\ ReadyInv /\ DueInv /\ AnswersAreFresh

USE SizesAssumption, NamesAssumption, NoneAssumption

-----------------------------------------------------------------------------
(* The ring.                                                               *)

\* Indices are never more than one turn ahead.
LEMMA Modulo ==
  ASSUME NEW m \in Nat \ {0}, NEW x \in Nat, x < 2 * m
  PROVE  x % m = IF x < m THEN x ELSE x - m
OBVIOUS

LEMMA Turns ==
  ASSUME NEW m \in Nat \ {0}, NEW h \in Nat, NEW i \in Nat, i >= 1, h + i - 1 < 2 * m
  PROVE  (h + i - 1) % m = IF h + i - 1 < m THEN h + i - 1 ELSE h + i - 1 - m
OBVIOUS

LEMMA LeastIs == ASSUME NEW a \in Nat, NEW b \in Nat
  PROVE Least(a, b) \in Nat /\ Least(a, b) <= a /\ Least(a, b) <= b /\ Least(a, b) \in {a, b}
BY DEF Least

\* Take moves the listing on by one event.
LEMMA TakeKeepsRing == Inv /\ Take => RingInv'
<1> SUFFICES ASSUME Inv, Take PROVE RingInv' OBVIOUS
<1> DEFINE n == Len(log)
           M == MaxEvents
           h == history_head_
           k == history_count_
           event == <<queue, popped[queue] + 1>>
<1>1. /\ n \in Nat /\ M \in Nat \ {0} /\ h \in 0..(M - 1) /\ k \in 0..M
      /\ log \in Seq(Events) /\ event_history_ \in [0..(M - 1) -> Events \cup {None}]
  BY DEF Inv, TypeOK
<1>2. event \in Events BY DEF Inv, TypeOK, Take, Events
<1>3. /\ Len(log') = n + 1 /\ log'[n + 1] = event
      /\ \A i \in 1..n : log'[i] = log[i]
  BY <1>1, <1>2 DEF Take
<1>4. /\ event_history_'[h] = event
      /\ \A i \in 0..(M - 1) : i # h => event_history_'[i] = event_history_[i]
  BY <1>1 DEF Take
<1>5. /\ history_head_' = (h + 1) % M
      /\ history_count_' = IF k < M THEN k + 1 ELSE k
  BY DEF Take
<1>6. history_head_' = IF h + 1 < M THEN h + 1 ELSE 0
  <2> DEFINE x == h + 1
  <2>1. x \in Nat /\ x < 2 * M /\ (x < M \/ x = M) BY <1>1
  <2> HIDE DEF x
  <2>2. x % M = IF x < M THEN x ELSE x - M BY <2>1, <1>1, Modulo
  <2>3. QED BY <2>1, <2>2, <1>1, <1>5 DEF x
<1>7. k = Least(n, M) /\ (k < M => h = k /\ k = n) /\ (k = M => n >= M)
  BY <1>1 DEF Inv, RingInv, ListingIsRecent, Least
<1>8. \A i \in 1..k : Listing[i] = log[n - k + i]
  BY DEF Inv, RingInv, ListingIsRecent
<1> HIDE DEF n, M, h, k, event
<1>9. history_count_' = Least(n + 1, M) BY <1>1, <1>5, <1>7 DEF Least
<1>10. CASE k < M
  <2>1. history_head_' = IF k + 1 < M THEN k + 1 ELSE 0 BY <1>6, <1>7, <1>10
  <2>2. history_count_' = k + 1 /\ k = n /\ h = k BY <1>5, <1>7, <1>10
  <2>3. ASSUME NEW i \in 1..(k + 1) PROVE Listing'[i] = log'[i]
    <3>1. i - 1 \in 0..(M - 1) /\ i - 1 < M BY <1>1, <1>10
    <3>2. (0 + i - 1) % M = i - 1
      <4> DEFINE x == i - 1
      <4>1. x \in Nat /\ x < M BY <3>1, <1>1
      <4>2. 0 + i - 1 = x OBVIOUS
      <4> HIDE DEF x
      <4>3. x % M = x BY <4>1, <1>1
      <4>4. QED BY <4>2, <4>3 DEF x
    <3>3. Listing'[i] = event_history_'[i - 1]
      BY <2>1, <2>2, <3>1, <3>2, <1>1, <1>10 DEF Listing, M
    <3>4. CASE i = k + 1 BY <3>3, <3>4, <2>2, <1>3, <1>4, <1>1
    <3>5. CASE i # k + 1
      <4>1. i \in 1..k /\ i - 1 # h BY <3>5, <2>2, <1>1
      <4>2. Listing[i] = event_history_[i - 1]
        BY <4>1, <3>2, <1>1, <1>10 DEF Listing, M, k
      <4>3. Listing[i] = log[i] BY <4>1, <1>8, <2>2, <1>1
      <4>4. QED BY <4>1, <4>2, <4>3, <3>1, <3>3, <1>3, <1>4, <2>2, <1>1
    <3>6. QED BY <3>4, <3>5
  <2>4. \A i \in 1..history_count_' : Listing'[i] = log'[Len(log') - history_count_' + i]
    BY <2>2, <2>3, <1>3, <1>1
  <2>5. history_count_' < MaxEvents => history_head_' = history_count_'
    BY <2>1, <2>2, <1>1 DEF M
  <2>6. QED BY <2>4, <2>5, <1>9, <1>3 DEF RingInv, ListingIsRecent, M
<1>11. CASE k = M
  <2>1. history_count_' = M /\ n >= M BY <1>5, <1>7, <1>11, <1>1
  <2>2. ASSUME NEW i \in 1..M PROVE Listing'[i] = log'[n + 1 - M + i]
    <3> DEFINE g == history_head_'
    <3>1. g \in 0..(M - 1) /\ g = IF h + 1 < M THEN h + 1 ELSE 0 BY <1>6, <1>1
    <3> HIDE DEF g
    <3>2. Listing'[i] = event_history_'[(g + i - 1) % M]
      BY <2>1, <1>1 DEF Listing, M, g
    <3>3. (g + i - 1) % M = IF g + i - 1 < M THEN g + i - 1 ELSE g + i - 1 - M
      <4>1. g + i - 1 \in Nat /\ g + i - 1 < 2 * M BY <3>1, <1>1
      <4>2. QED BY <3>1, <4>1, <1>1, Turns
    <3>4. CASE i = M
      <4>1. (g + i - 1) % M = h BY <3>1, <3>3, <3>4, <1>1
      <4>2. QED BY <4>1, <3>2, <3>4, <1>3, <1>4, <1>1
    <3>5. CASE i # M
      <4>1. i + 1 \in 1..M /\ h + (i + 1) - 1 \in Nat /\ h + (i + 1) - 1 < 2 * M BY <3>5, <1>1
      <4>2. (h + (i + 1) - 1) % M =
              IF h + (i + 1) - 1 < M THEN h + (i + 1) - 1 ELSE h + (i + 1) - 1 - M
        <5>1. i + 1 \in Nat /\ i + 1 >= 1 BY <4>1
        <5>2. QED BY <5>1, <4>1, <1>1, Turns
      <4>3. /\ (h + (i + 1) - 1) % M = (g + i - 1) % M
            /\ (g + i - 1) % M \in 0..(M - 1) /\ (g + i - 1) % M # h
        BY <4>1, <4>2, <3>1, <3>3, <3>5, <1>1
      <4>4. Listing[i + 1] = event_history_[(h + (i + 1) - 1) % M]
        BY <4>1, <1>11, <1>1 DEF Listing, M, k, h
      <4>5. Listing[i + 1] = log[n - M + (i + 1)] BY <4>1, <1>8, <1>11, <1>1
      <4>6. n - M + (i + 1) \in 1..n /\ n - M + (i + 1) = n + 1 - M + i BY <4>1, <2>1, <1>1
      <4>7. event_history_'[(g + i - 1) % M] = event_history_[(g + i - 1) % M] BY <4>3, <1>4
      <4>8. QED BY <4>3, <4>4, <4>5, <4>6, <4>7, <3>2, <1>3
    <3>6. QED BY <3>4, <3>5
  <2>3. \A i \in 1..history_count_' : Listing'[i] = log'[Len(log') - history_count_' + i]
    BY <2>1, <2>2, <1>3, <1>1
  <2>4. QED BY <2>1, <2>3, <1>9, <1>3, <1>1 DEF RingInv, ListingIsRecent, M
<1>12. QED BY <1>10, <1>11, <1>1

\* No other step touches it.
LEMMA HistoryFrame ==
  ASSUME LogInv, RingInv, UNCHANGED <<popped, history>>
  PROVE  LogInv' /\ RingInv'
<1> USE DEF history
<1>1. LogInv' BY DEF LogInv
<1>2. Listing' = Listing BY DEF Listing
<1>3. RingInv' BY <1>2 DEF RingInv, ListingIsRecent
<1>4. QED BY <1>1, <1>3

LEMMA LogGrows == Inv /\ Take =>
  /\ Len(log') = Len(log) + 1 /\ log'[Len(log) + 1] = <<queue, popped[queue] + 1>>
  /\ \A i \in 1..Len(log) : log'[i] = log[i]
<1> SUFFICES ASSUME Inv, Take
             PROVE  /\ Len(log') = Len(log) + 1 /\ log'[Len(log) + 1] = <<queue, popped[queue] + 1>>
                    /\ \A i \in 1..Len(log) : log'[i] = log[i]
  OBVIOUS
<1>1. log \in Seq(Events) /\ queue \in Recorders /\ popped[queue] + 1 \in Nat \ {0}
  BY DEF Inv, TypeOK, Take
<1>2. <<queue, popped[queue] + 1>> \in Events BY <1>1 DEF Events
<1>3. QED BY <1>1, <1>2 DEF Take

-----------------------------------------------------------------------------
(* Answers.                                                                *)

\* An answer stays what it was while the log grows.
LEMMA AnswersFrame ==
  ASSUME Inv,
         \A c \in Clients : client'[c] = "answered" =>
           client[c] = "answered" /\ answer'[c] = answer[c] /\ due'[c] = due[c],
         Len(log') \in Nat, Len(log') >= Len(log), \A i \in 1..Len(log) : log'[i] = log[i]
  PROVE  AnswersAreFresh'
<1> SUFFICES ASSUME NEW c \in Clients, client'[c] = "answered", answer'[c] # None,
                    NEW p \in Recorders, NEW k \in 1..due'[c][p]
             PROVE  \/ \E i \in 1..Len(answer'[c]) : answer'[c][i] = <<p, k>>
                    \/ /\ Len(answer'[c]) = MaxEvents
                       /\ \E i, j \in 1..Len(log') :
                            i < j /\ log'[i] = <<p, k>> /\ log'[j] = answer'[c][1]
  BY DEF AnswersAreFresh
<1>1. client[c] = "answered" /\ answer'[c] = answer[c] /\ due'[c][p] = due[c][p] OBVIOUS
<1>2. CASE \E i \in 1..Len(answer[c]) : answer[c][i] = <<p, k>>
  <2>1. \E i \in 1..Len(answer'[c]) : answer'[c][i] = <<p, k>> BY <1>1, <1>2, Zenon
  <2>2. QED BY <2>1
<1>3. CASE /\ Len(answer[c]) = MaxEvents
           /\ \E i, j \in 1..Len(log) : i < j /\ log[i] = <<p, k>> /\ log[j] = answer[c][1]
  <2>1. PICK i, j \in 1..Len(log) : i < j /\ log[i] = <<p, k>> /\ log[j] = answer[c][1] BY <1>3
  <2>2. Len(log) \in Nat BY DEF Inv, TypeOK
  <2>3. i \in 1..Len(log') /\ j \in 1..Len(log') /\ log'[i] = log[i] /\ log'[j] = log[j] BY <2>2
  <2>4. QED BY <1>1, <1>3, <2>1, <2>3
<1>4. k \in 1..due[c][p] /\ answer[c] # None BY <1>1
<1>5. QED BY <1>1, <1>2, <1>3, <1>4, Zenon DEF Inv, AnswersAreFresh

LEMMA AnswersStay == ASSUME Inv, UNCHANGED <<log, client, due, answer>> PROVE AnswersAreFresh'
<1>1. Len(log) \in Nat BY DEF Inv, TypeOK
<1>2. Len(log') \in Nat /\ Len(log') >= Len(log) BY <1>1
<1>3. QED BY <1>2, AnswersFrame

\* The listing shows the end of the log.
LEMMA ListingShows == Inv =>
  /\ Listing \in Seq(Events) /\ Len(Listing) = history_count_
  /\ \A i \in 1..history_count_ : Listing[i] = log[Len(log) - history_count_ + i]
  /\ history_count_ = Least(Len(log), MaxEvents)
<1> SUFFICES ASSUME Inv
             PROVE  /\ Listing \in Seq(Events) /\ Len(Listing) = history_count_
                    /\ \A i \in 1..history_count_ : Listing[i] = log[Len(log) - history_count_ + i]
                    /\ history_count_ = Least(Len(log), MaxEvents)
  OBVIOUS
<1> DEFINE n == Len(log)
           k == history_count_
           slot(i) == event_history_[((IF k < MaxEvents THEN 0 ELSE history_head_) + i - 1) % MaxEvents]
<1>1. n \in Nat /\ k \in Nat /\ log \in Seq(Events) BY DEF Inv, TypeOK
<1>2. k = Least(n, MaxEvents) /\ \A i \in 1..k : Listing[i] = log[n - k + i]
  BY DEF Inv, RingInv, ListingIsRecent
<1>3. k <= n BY <1>1, <1>2, LeastIs
<1>4. \A i \in 1..k : Listing[i] \in Events
  <2>1. \A i \in 1..k : n - k + i \in 1..n BY <1>1, <1>3
  <2>2. QED BY <1>1, <1>2, <2>1
<1>5. Listing = [i \in 1..k |-> slot(i)] BY DEF Listing
<1> HIDE DEF slot
<1>6. \A i \in 1..k : slot(i) \in Events BY <1>4, <1>5
<1>7. [i \in 1..k |-> slot(i)] \in Seq(Events) /\ Len([i \in 1..k |-> slot(i)]) = k BY <1>1, <1>6
<1>8. QED BY <1>2, <1>5, <1>7

\* Of a connection that is served the round has taken everything that is due.
LEMMA ServedSawAll ==
  ASSUME Inv, pc = "serve", NEW c \in Clients, NEW p \in Recorders, c \in ready, asked[c]
  PROVE  due[c][p] <= popped[p]
BY DEF Inv, RoundInv, DueInv

-----------------------------------------------------------------------------
(* Every step preserves the invariant.                                     *)

LEMMA InitInv == Init => Inv
<1> SUFFICES ASSUME Init PROVE Inv OBVIOUS
<1> USE DEF Init
<1>1. TypeOK
  <2>1. 0 \in 0..(MaxEvents - 1) /\ 0 \in 0..MaxEvents /\ 0 \in 0..Round OBVIOUS
  <2>2. \A p \in Recorders : popped[p] <= pushed[p] /\ pushed[p] <= popped[p] + Capacity
    <3>1. \A p \in Recorders : popped[p] = 0 /\ pushed[p] = 0 OBVIOUS
    <3>2. 0 <= 0 /\ 0 <= 0 + Capacity OBVIOUS
    <3>3. QED BY <3>1, <3>2
  <2>3. log \in Seq(Events) OBVIOUS
  <2>4. event_history_ \in [0..(MaxEvents - 1) -> Events \cup {None}] OBVIOUS
  <2>5. due \in [Clients -> [Recorders -> Nat]] OBVIOUS
  <2>6. pushed \in [Recorders -> Nat] /\ popped \in [Recorders -> Nat] OBVIOUS
  <2>7. QED BY <2>1, <2>2, <2>3, <2>4, <2>5, <2>6, Zenon DEF TypeOK
<1>2. LogInv BY DEF LogInv
<1>3. RingInv BY DEF RingInv, ListingIsRecent, Least
<1>4. RoundInv BY DEF RoundInv
<1>5. ReadyInv BY DEF ReadyInv
<1>6. DueInv
  <2>1. \A c \in Clients, p \in Recorders : due[c][p] = 0 /\ popped[p] = 0 /\ pushed[p] = 0 OBVIOUS
  <2>2. 0 <= 0 /\ 0 <= 0 + Round OBVIOUS
  <2>3. QED BY <2>1, <2>2 DEF DueInv
<1>7. AnswersAreFresh BY DEF AnswersAreFresh
<1>8. QED BY <1>1, <1>2, <1>3, <1>4, <1>5, <1>6, <1>7 DEF Inv

LEMMA RecordersInv == ASSUME NEW p \in Recorders PROVE Inv /\ (Register(p) \/ Record(p)) => Inv'
<1> USE DEF Inv, history, round, admin
<1>1. ASSUME Inv, Register(p) PROVE Inv'
  <2> USE <1>1 DEF Register
  <2>1. TypeOK' BY Zenon DEF TypeOK
  <2>2. LogInv' /\ RingInv' BY HistoryFrame
  <2>3. RoundInv' BY DEF RoundInv
  <2>4. ReadyInv' BY DEF ReadyInv
  <2>5. DueInv' BY DEF DueInv
  <2>6. AnswersAreFresh' BY AnswersStay
  <2>7. QED BY <2>1, <2>2, <2>3, <2>4, <2>5, <2>6
<1>2. ASSUME Inv, Record(p) PROVE Inv'
  <2> USE <1>2 DEF Record
  <2>1. TypeOK'
    <3>1. /\ pushed' \in [Recorders -> Nat]
          /\ \A q \in Recorders : popped'[q] <= pushed'[q] /\ pushed'[q] <= popped'[q] + Capacity
      BY DEF TypeOK
    <3>2. QED BY <3>1, Zenon DEF TypeOK
  <2>2. LogInv' /\ RingInv' BY HistoryFrame
  <2>3. RoundInv' BY DEF RoundInv, TypeOK
  <2>4. ReadyInv' BY DEF ReadyInv
  <2>5. DueInv'
    <3>1. ASSUME NEW c \in Clients, NEW q \in Recorders PROVE due[c][q] <= pushed'[q]
      <4>1. due[c][q] \in Nat /\ pushed[q] \in Nat /\ pushed' = [pushed EXCEPT ![p] = @ + 1]
            /\ pushed \in [Recorders -> Nat]
        BY DEF TypeOK
      <4>2. due[c][q] <= pushed[q] BY DEF DueInv
      <4>3. pushed'[q] >= pushed[q] BY <4>1
      <4>4. QED BY <4>1, <4>2, <4>3
    <3>2. QED BY <3>1 DEF DueInv
  <2>6. AnswersAreFresh' BY AnswersStay
  <2>7. QED BY <2>1, <2>2, <2>3, <2>4, <2>5, <2>6
<1>3. QED BY <1>1, <1>2

\* run and consume_events, but for the copy into the ring.
LEMMA RoundStepsInv ==
  Inv /\ (Poll \/ (\E p \in Recorders : Turn(p)) \/ LeaveQueue \/ RoundEnds \/ BatchEnds) => Inv'
<1> USE DEF Inv, queues, history, round, admin
<1>1. ASSUME Inv, Poll PROVE Inv'
  <2> USE <1>1 DEF Poll
  <2>1. TypeOK'
    <3>1. Reportable \subseteq Clients \cup {Admin} BY DEF Reportable
    <3>2. ready' \subseteq Clients \cup {Admin} BY <3>1
    <3>3. QED BY <3>2, Zenon DEF TypeOK
  <2>2. LogInv' /\ RingInv' BY HistoryFrame
  <2>3. RoundInv' BY DEF RoundInv
  <2>4. ReadyInv' BY DEF ReadyInv, Reportable
  <2>5. DueInv'
    <3>1. ASSUME NEW c \in Clients, NEW p \in Recorders
          PROVE  /\ due[c][p] <= pushed[p] /\ due[c][p] <= popped[p] + Round
                 /\ p \in registered \/ due[c][p] <= popped[p]
      <4>1. due[c][p] <= pushed[p] /\ due[c][p] <= popped[p] + Round BY DEF DueInv
      <4>2. p \notin registered => pushed[p] = 0 BY DEF RoundInv
      <4>3. due[c][p] \in Nat /\ popped[p] \in Nat BY DEF TypeOK
      <4>4. QED BY <4>1, <4>2, <4>3
    <3>2. QED BY <3>1 DEF DueInv
  <2>6. AnswersAreFresh' BY AnswersStay
  <2>7. QED BY <2>1, <2>2, <2>3, <2>4, <2>5, <2>6
<1>2. ASSUME NEW q \in Recorders, Inv, Turn(q) PROVE Inv'
  <2> USE <1>2 DEF Turn
  <2>1. TypeOK'
    <3>1. todo' \subseteq Recorders /\ queue' \in Recorders \cup {None} /\ count' \in 0..Round BY DEF TypeOK
    <3>2. QED BY <3>1, Zenon DEF TypeOK
  <2>2. LogInv' /\ RingInv' BY HistoryFrame
  <2>3. RoundInv' BY DEF RoundInv
  <2>4. ReadyInv' BY DEF ReadyInv
  <2>5. DueInv'
    <3>1. ASSUME NEW c \in Clients, NEW p \in Recorders
          PROVE  /\ due[c][p] <= pushed[p] /\ due[c][p] <= popped[p] + Round
                 /\ c \in ready /\ asked[c] => \/ p \in todo'
                                               \/ p = queue' /\ due[c][p] + count' <= popped[p] + Round
                                               \/ due[c][p] <= popped[p]
      <4>1. due[c][p] <= pushed[p] /\ due[c][p] <= popped[p] + Round BY DEF DueInv
      <4>2. due[c][p] \in Nat /\ popped[p] \in Nat BY DEF TypeOK
      <4>3. p # queue BY DEF RoundInv
      <4>4. CASE p = q BY <4>1, <4>2, <4>4
      <4>5. CASE p # q BY <4>1, <4>3, <4>5 DEF DueInv
      <4>6. QED BY <4>4, <4>5
    <3>2. QED BY <3>1 DEF DueInv
  <2>6. AnswersAreFresh' BY AnswersStay
  <2>7. QED BY <2>1, <2>2, <2>3, <2>4, <2>5, <2>6
<1>3. ASSUME Inv, LeaveQueue PROVE Inv'
  <2> USE <1>3 DEF LeaveQueue
  <2>1. TypeOK'
    <3>1. count' \in 0..Round OBVIOUS
    <3>2. QED BY <3>1, Zenon DEF TypeOK
  <2>2. LogInv' /\ RingInv' BY HistoryFrame
  <2>3. RoundInv' BY DEF RoundInv
  <2>4. ReadyInv' BY DEF ReadyInv
  <2>5. DueInv'
    <3>1. ASSUME NEW c \in Clients, NEW p \in Recorders, c \in ready, asked[c]
          PROVE  p \in todo \/ due[c][p] <= popped[p]
      <4>1. CASE p = queue /\ due[c][p] + count <= popped[p] + Round
        <5>1. due[c][p] <= pushed[p] BY DEF DueInv
        <5>2. due[c][p] \in Nat /\ popped[p] \in Nat /\ pushed[p] \in Nat BY DEF TypeOK
        <5>3. QED BY <4>1, <5>1, <5>2
      <4>2. \/ p \in todo
            \/ p = queue /\ due[c][p] + count <= popped[p] + Round
            \/ due[c][p] <= popped[p]
        BY <3>1 DEF DueInv
      <4>3. QED BY <4>1, <4>2
    <3>2. QED BY <3>1 DEF DueInv
  <2>6. AnswersAreFresh' BY AnswersStay
  <2>7. QED BY <2>1, <2>2, <2>3, <2>4, <2>5, <2>6
<1>4. ASSUME Inv, RoundEnds PROVE Inv'
  <2> USE <1>4 DEF RoundEnds
  <2>1. TypeOK' BY Zenon DEF TypeOK
  <2>2. LogInv' /\ RingInv' BY HistoryFrame
  <2>3. RoundInv' BY DEF RoundInv
  <2>4. ReadyInv' BY DEF ReadyInv
  <2>5. DueInv' BY DEF DueInv
  <2>6. AnswersAreFresh' BY AnswersStay
  <2>7. QED BY <2>1, <2>2, <2>3, <2>4, <2>5, <2>6
<1>5. ASSUME Inv, BatchEnds PROVE Inv'
  <2> USE <1>5 DEF BatchEnds
  <2>1. TypeOK' BY Zenon DEF TypeOK
  <2>2. LogInv' /\ RingInv' BY HistoryFrame
  <2>3. RoundInv' BY DEF RoundInv
  <2>4. ReadyInv' BY DEF ReadyInv
  <2>5. DueInv' BY DEF DueInv
  <2>6. AnswersAreFresh' BY AnswersStay
  <2>7. QED BY <2>1, <2>2, <2>3, <2>4, <2>5, <2>6
<1>6. QED BY <1>1, <1>2, <1>3, <1>4, <1>5

LEMMA TakeInv == Inv /\ Take => Inv'
<1> SUFFICES ASSUME Inv, Take PROVE Inv' OBVIOUS
<1> USE DEF admin
<1>1. /\ queue \in Recorders /\ popped[queue] \in Nat /\ Len(log) \in Nat
      /\ popped' = [popped EXCEPT ![queue] = @ + 1] /\ count' = count + 1
  BY DEF Inv, TypeOK, Take
<1>2. TypeOK'
  <2>1. <<queue, popped[queue] + 1>> \in Events BY <1>1 DEF Events
  <2>2. /\ event_history_' \in [0..(MaxEvents - 1) -> Events \cup {None}]
        /\ log' \in Seq(Events)
    BY <2>1 DEF Inv, TypeOK, Take
  <2>3. /\ popped' \in [Recorders -> Nat]
        /\ \A p \in Recorders : popped'[p] <= pushed'[p] /\ pushed'[p] <= popped'[p] + Capacity
    BY <1>1 DEF Inv, TypeOK, Take
  <2>4. count' \in 0..Round BY DEF Inv, TypeOK, Take
  <2>5. history_count_' \in 0..MaxEvents BY DEF Inv, TypeOK, Take
  <2>6. history_head_' \in 0..(MaxEvents - 1) BY DEF Inv, TypeOK, Take
  <2> USE DEF Take
  <2>7. QED BY <2>2, <2>3, <2>4, <2>5, <2>6, Zenon DEF Inv, TypeOK
<1>3. LogInv'
  <2>1. ASSUME NEW p \in Recorders, NEW k \in 1..popped'[p]
        PROVE  \E i \in 1..Len(log') : log'[i] = <<p, k>>
    <3>1. CASE k \in 1..popped[p]
      <4>1. PICK i \in 1..Len(log) : log[i] = <<p, k>> BY <3>1 DEF Inv, LogInv
      <4>2. i \in 1..Len(log') /\ log'[i] = log[i] BY <1>1, LogGrows
      <4>3. QED BY <4>1, <4>2
    <3>2. CASE k \notin 1..popped[p]
      <4>1. p = queue /\ k = popped[queue] + 1 BY <1>1, <3>2 DEF Inv, TypeOK
      <4>2. Len(log) + 1 \in 1..Len(log') BY <1>1, LogGrows
      <4>3. QED BY <4>1, <4>2, LogGrows
    <3>3. QED BY <3>1, <3>2
  <2>2. QED BY <2>1 DEF LogInv
<1>4. RingInv' BY TakeKeepsRing
<1>5. RoundInv' BY DEF Inv, RoundInv, Take
<1>6. ReadyInv' BY DEF Inv, ReadyInv, Take
<1>7. DueInv'
  <2>1. ASSUME NEW c \in Clients, NEW p \in Recorders
        PROVE  /\ due[c][p] <= pushed[p] /\ due[c][p] <= popped'[p] + Round
               /\ c \in ready /\ asked[c] => \/ p \in todo
                                             \/ p = queue /\ due[c][p] + count' <= popped'[p] + Round
                                             \/ due[c][p] <= popped'[p]
    <3>1. /\ due[c][p] \in Nat /\ popped[p] \in Nat /\ count \in Nat
          /\ popped'[p] = IF p = queue THEN popped[p] + 1 ELSE popped[p]
      BY <1>1 DEF Inv, TypeOK
    <3>2. /\ due[c][p] <= pushed[p] /\ due[c][p] <= popped[p] + Round
          /\ c \in ready /\ asked[c] => \/ p \in todo
                                        \/ p = queue /\ due[c][p] + count <= popped[p] + Round
                                        \/ due[c][p] <= popped[p]
      BY DEF Inv, DueInv
    <3>3. count' = count + 1 BY DEF Take
    <3>4. popped[p] <= popped'[p] /\ (p = queue => popped'[p] = popped[p] + 1) BY <3>1
    <3>5. due[c][p] <= popped'[p] + Round BY <3>1, <3>2, <3>4
    <3>6. due[c][p] <= popped[p] => due[c][p] <= popped'[p] BY <3>1, <3>4
    <3>7. p = queue /\ due[c][p] + count <= popped[p] + Round => due[c][p] + count' <= popped'[p] + Round
      BY <3>1, <3>3, <3>4
    <3>8. QED BY <3>2, <3>5, <3>6, <3>7, Zenon
  <2>2. QED BY <2>1 DEF DueInv, Take
<1>8. AnswersAreFresh'
  <2>1. /\ Len(log') \in Nat /\ Len(log') >= Len(log)
        /\ \A i \in 1..Len(log) : log'[i] = log[i]
    BY <1>1, LogGrows
  <2>2. \A c \in Clients : client'[c] = "answered" =>
          client[c] = "answered" /\ answer'[c] = answer[c] /\ due'[c] = due[c]
    BY DEF Take
  <2>3. QED BY <2>1, <2>2, AnswersFrame
<1>9. QED BY <1>2, <1>3, <1>4, <1>5, <1>6, <1>7, <1>8 DEF Inv

\* handle_admin_accept and handle_admin_request.
LEMMA AdminInv ==
  Inv /\ (Accept \/ (\E c \in Clients : Answer(c) \/ AnswerNobody(c) \/ CloseSilent(c))) => Inv'
<1> USE DEF Inv, queues, history, round, admin, Serving
<1>1. ASSUME Inv, Accept PROVE Inv'
  <2> USE <1>1 DEF Accept
  <2>1. TypeOK'
    <3>1. client' \in [Clients -> {"away", "backlog", "accepted", "answered"}] BY DEF TypeOK
    <3>2. QED BY <3>1, Zenon DEF TypeOK
  <2>2. LogInv' /\ RingInv' BY HistoryFrame
  <2>3. RoundInv' BY DEF RoundInv
  <2>4. ReadyInv' BY DEF ReadyInv
  <2>5. DueInv' BY DEF DueInv
  <2>6. AnswersAreFresh'
    <3>1. \A c \in Clients : client'[c] = "answered" => client[c] = "answered" OBVIOUS
    <3>2. Len(log') \in Nat /\ Len(log') >= Len(log) BY DEF TypeOK
    <3>3. QED BY <3>1, <3>2, AnswersFrame
  <2>7. QED BY <2>1, <2>2, <2>3, <2>4, <2>5, <2>6
<1>2. ASSUME NEW c \in Clients, Inv, Answer(c) PROVE Inv'
  <2> USE <1>2 DEF Answer
  <2>1. PICK sent \in {Listing, None} : answer' = [answer EXCEPT ![c] = sent] OBVIOUS
  <2>2. Listing \in Seq(Events) BY ListingShows
  <2>3. TypeOK'
    <3>1. client' \in [Clients -> {"away", "backlog", "accepted", "answered"}] BY DEF TypeOK
    <3>2. answer' \in [Clients -> Seq(Events) \cup {None}] BY <2>1, <2>2 DEF TypeOK
    <3>3. QED BY <3>1, <3>2, Zenon DEF TypeOK
  <2>4. LogInv' /\ RingInv' BY HistoryFrame
  <2>5. RoundInv' BY DEF RoundInv
  <2>6. ReadyInv' BY DEF ReadyInv, TypeOK
  <2>7. DueInv' BY DEF DueInv
  <2>8. AnswersAreFresh'
    <3> DEFINE n == Len(log)
               h == history_count_
    <3>1. SUFFICES ASSUME NEW d \in Clients, client'[d] = "answered", answer'[d] # None,
                          NEW p \in Recorders, NEW k \in 1..due'[d][p]
                   PROVE  \/ \E i \in 1..Len(answer'[d]) : answer'[d][i] = <<p, k>>
                          \/ /\ Len(answer'[d]) = MaxEvents
                             /\ \E i, j \in 1..Len(log') :
                                  i < j /\ log'[i] = <<p, k>> /\ log'[j] = answer'[d][1]
      BY DEF AnswersAreFresh
    <3> k \in 1..due[d][p] /\ log' = log OBVIOUS
    <3>2. CASE d # c
      <4>1. client[d] = "answered" /\ answer'[d] = answer[d] BY <2>1, <3>1, <3>2 DEF TypeOK
      <4>2. answer[d] # None BY <3>1, <4>1
      <4>3. \/ \E i \in 1..Len(answer[d]) : answer[d][i] = <<p, k>>
            \/ /\ Len(answer[d]) = MaxEvents
               /\ \E i, j \in 1..Len(log) : i < j /\ log[i] = <<p, k>> /\ log[j] = answer[d][1]
        BY <4>1, <4>2, Zenon DEF AnswersAreFresh
      <4>4. QED BY <4>1, <4>3
    <3>3. CASE d = c
      <4>1. answer'[d] = Listing BY <2>1, <3>1, <3>3 DEF TypeOK
      <4>2. due[c][p] <= popped[p] BY ServedSawAll
      <4>3. k \in 1..popped[p] BY <3>3, <4>2 DEF TypeOK
      <4>4. PICK i \in 1..n : log[i] = <<p, k>> BY <4>3 DEF LogInv
      <4>5. /\ Len(Listing) = h /\ h = Least(n, MaxEvents)
            /\ \A x \in 1..h : Listing[x] = log[n - h + x]
        BY ListingShows
      <4>6. n \in Nat /\ h \in Nat /\ MaxEvents \in Nat \ {0} BY DEF TypeOK
      <4> HIDE DEF n, h
      <4>7. CASE i > n - h
        <5> DEFINE x == i - (n - h)
        <5>1. x \in 1..h /\ n - h + x = i
          <6>1. h <= n BY <4>5, <4>6, LeastIs
          <6>2. QED BY <6>1, <4>4, <4>6, <4>7
        <5> HIDE DEF x
        <5>2. Listing[x] = <<p, k>> BY <4>4, <4>5, <5>1
        <5>3. QED BY <4>1, <4>5, <5>1, <5>2
      <4>8. CASE i <= n - h
        <5>1. h = MaxEvents /\ h < n BY <4>4, <4>5, <4>6, <4>8 DEF Least
        <5>2. n - h + 1 \in 1..n /\ i < n - h + 1 /\ 1 \in 1..h BY <4>4, <4>6, <4>8, <5>1
        <5>3. log[n - h + 1] = Listing[1] BY <4>5, <5>2
        <5>4. \E x, y \in 1..Len(log) : x < y /\ log[x] = <<p, k>> /\ log[y] = Listing[1]
          BY <4>4, <5>2, <5>3 DEF n
        <5>5. QED BY <4>1, <4>5, <5>1, <5>4
      <4>9. QED BY <4>4, <4>6, <4>7, <4>8
    <3>4. QED BY <3>2, <3>3
  <2>9. QED BY <2>3, <2>4, <2>5, <2>6, <2>7, <2>8
<1>3. ASSUME NEW c \in Clients, Inv, AnswerNobody(c) PROVE Inv'
  <2> USE <1>3 DEF AnswerNobody
  <2>1. TypeOK'
    <3>1. ready' \subseteq Clients \cup {Admin} BY DEF TypeOK
    <3>2. QED BY <3>1, Zenon DEF TypeOK
  <2>2. LogInv' /\ RingInv' BY HistoryFrame
  <2>3. RoundInv' BY DEF RoundInv
  <2>4. ReadyInv' BY DEF ReadyInv
  <2>5. DueInv' BY DEF DueInv
  <2>6. AnswersAreFresh' BY AnswersStay
  <2>7. QED BY <2>1, <2>2, <2>3, <2>4, <2>5, <2>6
<1>4. ASSUME NEW c \in Clients, Inv, CloseSilent(c) PROVE Inv'
  <2> USE <1>4 DEF CloseSilent
  <2>1. TypeOK'
    <3>1. client' \in [Clients -> {"away", "backlog", "accepted", "answered"}] BY DEF TypeOK
    <3>2. QED BY <3>1, Zenon DEF TypeOK
  <2>2. LogInv' /\ RingInv' BY HistoryFrame
  <2>3. RoundInv' BY DEF RoundInv
  <2>4. ReadyInv' BY DEF ReadyInv, TypeOK
  <2>5. DueInv' BY DEF DueInv
  <2>6. AnswersAreFresh'
    <3>1. \A d \in Clients : client'[d] = "answered" => client[d] = "answered" BY DEF TypeOK
    <3>2. Len(log') \in Nat /\ Len(log') >= Len(log) BY DEF TypeOK
    <3>3. QED BY <3>1, <3>2, AnswersFrame
  <2>7. QED BY <2>1, <2>2, <2>3, <2>4, <2>5, <2>6
<1>5. QED BY <1>1, <1>2, <1>3, <1>4

\* A connection that epoll_wait has reported can neither ask nor connect again before it is served.
LEMMA ClientInv == ASSUME NEW c \in Clients PROVE Inv /\ (Connect(c) \/ Ask(c) \/ HangUp(c)) => Inv'
<1> USE DEF Inv, queues, history, round
<1>1. ASSUME Inv, Connect(c) PROVE Inv'
  <2> USE <1>1 DEF Connect
  <2>1. c \notin ready BY DEF ReadyInv
  <2>2. TypeOK'
    <3>1. client' \in [Clients -> {"away", "backlog", "accepted", "answered"}] BY DEF TypeOK
    <3>2. answer' \in [Clients -> Seq(Events) \cup {None}] BY DEF TypeOK
    <3>3. due' \in [Clients -> [Recorders -> Nat]] BY DEF TypeOK
    <3>4. asked' \in [Clients -> BOOLEAN] /\ gone' \in [Clients -> BOOLEAN] BY Zenon DEF TypeOK
    <3>5. QED BY <3>1, <3>2, <3>3, <3>4, Zenon DEF TypeOK
  <2>3. LogInv' /\ RingInv' BY HistoryFrame
  <2>4. RoundInv' BY DEF RoundInv
  <2>5. ReadyInv' BY <2>1 DEF ReadyInv, TypeOK
  <2>6. DueInv'
    <3>1. ASSUME NEW d \in Clients, NEW p \in Recorders
          PROVE  /\ due'[d][p] <= pushed[p] /\ due'[d][p] <= popped[p] + Round
                 /\ d \in ready /\ asked'[d] => \/ p \in todo
                                                \/ p = queue /\ due'[d][p] + count <= popped[p] + Round
                                                \/ due'[d][p] <= popped[p]
      <4>1. CASE d = c
        <5>1. due'[d][p] = 0 BY <4>1 DEF TypeOK
        <5>2. pushed[p] \in Nat /\ popped[p] \in Nat BY DEF TypeOK
        <5>3. QED BY <5>1, <5>2
      <4>2. CASE d # c
        <5>1. due'[d] = due[d] /\ asked'[d] = asked[d] BY <4>2 DEF TypeOK
        <5>2. QED BY <5>1 DEF DueInv
      <4>3. QED BY <4>1, <4>2
    <3>2. QED BY <3>1 DEF DueInv
  <2>7. AnswersAreFresh'
    <3>1. \A d \in Clients : client'[d] = "answered" =>
            client[d] = "answered" /\ answer'[d] = answer[d] /\ due'[d] = due[d]
      BY DEF TypeOK
    <3>2. Len(log') \in Nat /\ Len(log') >= Len(log) BY DEF TypeOK
    <3>3. QED BY <3>1, <3>2, AnswersFrame
  <2>8. QED BY <2>2, <2>3, <2>4, <2>5, <2>6, <2>7
<1>2. ASSUME Inv, Ask(c) PROVE Inv'
  <2> USE <1>2 DEF Ask
  <2>1. c \notin ready BY DEF ReadyInv
  <2>2. \A p \in Recorders : /\ pushed[p] \in Nat /\ popped[p] \in Nat
                             /\ Least(pushed[p], popped[p] + Round) \in Nat
                             /\ Least(pushed[p], popped[p] + Round) <= pushed[p]
                             /\ Least(pushed[p], popped[p] + Round) <= popped[p] + Round
    <3>1. \A p \in Recorders : pushed[p] \in Nat /\ popped[p] + Round \in Nat /\ popped[p] \in Nat
      BY DEF TypeOK
    <3>2. QED BY <3>1, LeastIs
  <2>3. TypeOK'
    <3>1. due' \in [Clients -> [Recorders -> Nat]] BY <2>2 DEF TypeOK
    <3>2. asked' \in [Clients -> BOOLEAN] BY Zenon DEF TypeOK
    <3>3. QED BY <3>1, <3>2, Zenon DEF TypeOK
  <2>4. LogInv' /\ RingInv' BY HistoryFrame
  <2>5. RoundInv' BY DEF RoundInv
  <2>6. ReadyInv' BY <2>1 DEF ReadyInv, TypeOK
  <2>7. DueInv'
    <3>1. ASSUME NEW d \in Clients, NEW p \in Recorders
          PROVE  /\ due'[d][p] <= pushed[p] /\ due'[d][p] <= popped[p] + Round
                 /\ d \in ready /\ asked'[d] => \/ p \in todo
                                                \/ p = queue /\ due'[d][p] + count <= popped[p] + Round
                                                \/ due'[d][p] <= popped[p]
      <4>1. CASE d = c
        <5>1. due'[d][p] = Least(pushed[p], popped[p] + Round) BY <4>1 DEF TypeOK
        <5>2. QED BY <4>1, <5>1, <2>1, <2>2
      <4>2. CASE d # c
        <5>1. due'[d] = due[d] /\ asked'[d] = asked[d] BY <4>2 DEF TypeOK
        <5>2. QED BY <5>1 DEF DueInv
      <4>3. QED BY <4>1, <4>2
    <3>2. QED BY <3>1 DEF DueInv
  <2>8. AnswersAreFresh'
    <3>1. \A d \in Clients : client'[d] = "answered" =>
            client[d] = "answered" /\ answer'[d] = answer[d] /\ due'[d] = due[d]
      BY DEF TypeOK
    <3>2. Len(log') \in Nat /\ Len(log') >= Len(log) BY DEF TypeOK
    <3>3. QED BY <3>1, <3>2, AnswersFrame
  <2>9. QED BY <2>3, <2>4, <2>5, <2>6, <2>7, <2>8
<1>3. ASSUME Inv, HangUp(c) PROVE Inv'
  <2> USE <1>3 DEF HangUp
  <2>1. TypeOK'
    <3>1. gone' \in [Clients -> BOOLEAN] BY Zenon DEF TypeOK
    <3>2. QED BY <3>1, Zenon DEF TypeOK
  <2>2. LogInv' /\ RingInv' BY HistoryFrame
  <2>3. RoundInv' BY DEF RoundInv
  <2>4. ReadyInv' BY DEF ReadyInv, TypeOK
  <2>5. DueInv' BY DEF DueInv
  <2>6. AnswersAreFresh' BY AnswersStay
  <2>7. QED BY <2>1, <2>2, <2>3, <2>4, <2>5, <2>6
<1>4. QED BY <1>1, <1>2, <1>3

LEMMA InvHolds == Spec => []Inv
<1>1. Inv /\ UNCHANGED vars => Inv'
  <2> SUFFICES ASSUME Inv, UNCHANGED vars PROVE Inv' OBVIOUS
  <2> USE DEF Inv, vars, queues, history, round, admin
  <2>1. TypeOK' BY Zenon DEF TypeOK
  <2>2. LogInv' /\ RingInv' BY HistoryFrame
  <2>3. RoundInv' BY DEF RoundInv
  <2>4. ReadyInv' BY DEF ReadyInv
  <2>5. DueInv' BY DEF DueInv
  <2>6. AnswersAreFresh' BY AnswersStay
  <2>7. QED BY <2>1, <2>2, <2>3, <2>4, <2>5, <2>6
<1>2. Inv /\ Next => Inv'
  BY RecordersInv, RoundStepsInv, TakeInv, AdminInv, ClientInv DEF Next, ObserverStep, Environment
<1>3. QED BY InitInv, <1>1, <1>2, PTL DEF Spec

\* The type invariant: the ring's indices stay within MAX_EVENTS and no queue overruns its capacity.
THEOREM TypeCorrect == Spec => []TypeOK
<1>1. Inv => TypeOK BY DEF Inv
<1>2. QED BY <1>1, InvHolds, PTL

\* The listing is the end of the log on both sides of the ring's wrap (observer.cpp:142-146, 237-257).
THEOREM ListingIsTheEndOfTheLog == Spec => []ListingIsRecent
<1>1. Inv => ListingIsRecent BY DEF Inv, RingInv
<1>2. QED BY <1>1, InvHolds, PTL

\* No answer is older than its request, since the queues are emptied between epoll_wait and the
\* answers (observer.cpp:89-106).
THEOREM AnswersAreNeverStale == Spec => []AnswersAreFresh
<1>1. Inv => AnswersAreFresh BY DEF Inv
<1>2. QED BY <1>1, InvHolds, PTL

-----------------------------------------------------------------------------
(* The order of the events listed.                                         *)

\* The log has each thread's events in the order recorded, and none that was not taken.
LogOrderInv ==
  \A i \in 1..Len(log) :
    /\ log[i][2] <= popped[log[i][1]]
    /\ \A j \in 1..Len(log) : i < j /\ log[j][1] = log[i][1] => log[i][2] < log[j][2]

\* Only a pop takes events.
LEMMA OnlyTakeLogs == [Next]_vars => Take \/ UNCHANGED <<popped, log>>
<1> SUFFICES ASSUME [Next]_vars PROVE Take \/ UNCHANGED <<popped, log>> OBVIOUS
<1> USE DEF queues, history, round, admin
<1>1. CASE Poll \/ (\E p \in Recorders : Turn(p)) \/ LeaveQueue \/ RoundEnds
  BY <1>1 DEF Poll, Turn, LeaveQueue, RoundEnds
<1>2. CASE Accept \/ (\E c \in Clients : Answer(c) \/ AnswerNobody(c) \/ CloseSilent(c)) \/ BatchEnds
  BY <1>2 DEF Accept, Answer, AnswerNobody, CloseSilent, BatchEnds
<1>3. CASE Environment BY <1>3 DEF Environment, Register, Record, Connect, Ask, HangUp
<1>4. CASE UNCHANGED vars BY <1>4 DEF vars
<1>5. QED BY <1>1, <1>2, <1>3, <1>4 DEF Next, ObserverStep

LEMMA LogEntries ==
  ASSUME Inv, NEW i \in 1..Len(log)
  PROVE  log[i] = <<log[i][1], log[i][2]>> /\ log[i][1] \in Recorders /\ log[i][2] \in Nat \ {0}
<1>1. log[i] \in Events BY DEF Inv, TypeOK
<1>2. QED BY <1>1 DEF Events

LEMMA StepLogOrder == Inv /\ Inv' /\ LogOrderInv /\ [Next]_vars => LogOrderInv'
<1> SUFFICES ASSUME Inv, Inv', LogOrderInv, [Next]_vars PROVE LogOrderInv' OBVIOUS
<1>1. CASE UNCHANGED <<popped, log>> BY <1>1 DEF LogOrderInv
<1>2. CASE Take
  <2> DEFINE n == Len(log)
  <2>1. /\ n \in Nat /\ Len(log') = n + 1 /\ log'[n + 1] = <<queue, popped[queue] + 1>>
        /\ \A i \in 1..n : log'[i] = log[i]
    <3>1. n \in Nat BY DEF Inv, TypeOK
    <3>2. QED BY <1>2, <3>1, LogGrows
  <2>2. \A p \in Recorders : popped[p] \in Nat /\ popped'[p] = IF p = queue THEN popped[p] + 1 ELSE popped[p]
    BY <1>2 DEF Take, Inv, TypeOK
  <2>3. queue \in Recorders BY <1>2 DEF Take, Inv, TypeOK
  <2>4. \A i \in 1..n : /\ log[i][1] \in Recorders /\ log[i][2] \in Nat /\ log[i][2] <= popped[log[i][1]]
                        /\ \A j \in 1..n : i < j /\ log[j][1] = log[i][1] => log[i][2] < log[j][2]
    BY LogEntries DEF LogOrderInv
  <2>5. \A i \in 1..(n + 1) : i \in 1..n \/ i = n + 1 BY <2>1
  <2> HIDE DEF n
  <2>6. ASSUME NEW i \in 1..(n + 1) PROVE log'[i][2] <= popped'[log'[i][1]]
    <3>1. CASE i = n + 1 BY <2>1, <2>2, <2>3, <3>1
    <3>2. CASE i \in 1..n
      <4>1. log[i][2] <= popped[log[i][1]] /\ log[i][2] \in Nat /\ popped[log[i][1]] \in Nat BY <2>2, <2>4, <3>2
      <4>2. popped[log[i][1]] <= popped'[log[i][1]] BY <2>2, <2>4, <3>2
      <4>3. popped'[log[i][1]] \in Nat BY <2>2, <2>4, <3>2
      <4>4. QED BY <2>1, <3>2, <4>1, <4>2, <4>3
    <3>3. QED BY <2>5, <3>1, <3>2
  <2>7. ASSUME NEW i \in 1..(n + 1), NEW j \in 1..(n + 1), i < j, log'[j][1] = log'[i][1]
        PROVE  log'[i][2] < log'[j][2]
    <3>1. i \in 1..n /\ log'[i] = log[i] BY <2>1, <2>5, <2>7
    <3>2. CASE j \in 1..n BY <2>1, <2>4, <2>7, <3>1, <3>2
    <3>3. CASE j = n + 1
      <4>1. log[i][1] = queue /\ log'[j][2] = popped[queue] + 1 BY <2>1, <2>7, <3>1, <3>3
      <4>2. log[i][2] <= popped[queue] /\ log[i][2] \in Nat /\ popped[queue] \in Nat
        BY <2>2, <2>3, <2>4, <3>1, <4>1
      <4>3. QED BY <3>1, <4>1, <4>2
    <3>4. QED BY <2>5, <3>2, <3>3
  <2>8. QED BY <2>1, <2>6, <2>7 DEF LogOrderInv
<1>3. QED BY <1>1, <1>2, OnlyTakeLogs

(***************************************************************************)
(* The listing shows a thread's events in the order that thread recorded   *)
(* them and without a gap: from the first one shown to the last one taken, *)
(* each is there, although a long queue is taken in several rounds with    *)
(* other threads' events in between (observer.cpp:135-150, 237-257).       *)
(***************************************************************************)
ListedInOrder ==
  \A i \in 1..history_count_ :
    LET p == Listing[i][1]
        k == Listing[i][2]
    IN  /\ \A j \in 1..history_count_ : i < j /\ Listing[j][1] = p => k < Listing[j][2]
        /\ \A l \in k..popped[p] : \E j \in i..history_count_ : Listing[j] = <<p, l>>

\* From the order of the log, of which the listing is the end.
THEOREM ThreadsAreListedInOrder == Spec => []ListedInOrder
<1>1. Init => LogOrderInv BY DEF Init, LogOrderInv
<1>2. ASSUME Inv, LogOrderInv, NEW i \in 1..history_count_
      PROVE  LET p == Listing[i][1]
                 k == Listing[i][2]
             IN  /\ \A j \in 1..history_count_ : i < j /\ Listing[j][1] = p => k < Listing[j][2]
                 /\ \A l \in k..popped[p] : \E j \in i..history_count_ : Listing[j] = <<p, l>>
  <2> DEFINE n == Len(log)
             c == history_count_
             at(j) == n - c + j
             p == Listing[i][1]
             k == Listing[i][2]
  <2>1. /\ n \in Nat /\ c \in Nat /\ c <= n
        /\ \A j \in 1..c : Listing[j] = log[at(j)]
    <3>1. n \in Nat /\ c \in Nat /\ MaxEvents \in Nat BY <1>2 DEF Inv, TypeOK
    <3>2. c = Least(n, MaxEvents) /\ \A j \in 1..c : Listing[j] = log[at(j)] BY <1>2, ListingShows
    <3>3. QED BY <3>1, <3>2, LeastIs
  <2> HIDE DEF n, c
  <2>2. i \in 1..c BY DEF c
  <2>3. \A j \in 1..c : at(j) \in 1..n /\ at(j) \in Nat BY <2>1
  <2>4. /\ log[at(i)] = <<p, k>> /\ p \in Recorders /\ k \in Nat \ {0} /\ popped[p] \in Nat
        /\ at(i) \in 1..n
    <3>1. at(i) \in 1..n /\ Listing[i] = log[at(i)] BY <2>1, <2>2, <2>3
    <3>2. QED BY <1>2, <3>1, LogEntries DEF n, Inv, TypeOK
  <2>5. ASSUME NEW j \in 1..c, i < j, Listing[j][1] = p PROVE k < Listing[j][2]
    <3>1. at(i) < at(j) /\ at(j) \in 1..n BY <2>1, <2>2, <2>3, <2>5
    <3>2. log[at(j)][1] = p /\ log[at(i)][1] = p BY <2>1, <2>4, <2>5
    <3> HIDE DEF at, p, k
    <3>3. log[at(i)][2] < log[at(j)][2] BY <1>2, <2>4, <3>1, <3>2 DEF LogOrderInv, n
    <3>4. QED BY <2>1, <2>4, <3>3
  <2>6. ASSUME NEW l \in k..popped[p] PROVE \E j \in i..c : Listing[j] = <<p, l>>
    <3>1. l \in 1..popped[p] BY <2>4
    <3>2. PICK m \in 1..n : log[m] = <<p, l>> BY <1>2, <2>4, <3>1 DEF Inv, LogInv, n
    <3>3. at(i) <= m
      <4>1. SUFFICES ASSUME m < at(i) PROVE FALSE BY <2>1, <2>2
      <4> HIDE DEF at, p, k
      <4>2. log[m][1] = log[at(i)][1] BY <2>4, <3>2
      <4>3. log[m][2] < log[at(i)][2] BY <1>2, <2>4, <3>2, <4>1, <4>2 DEF LogOrderInv, n
      <4>4. l < k BY <2>4, <3>2, <4>3
      <4>5. QED BY <2>4, <4>4
    <3>4. m - (n - c) \in i..c /\ at(m - (n - c)) = m BY <2>1, <2>2, <3>3
    <3>5. m - (n - c) \in 1..c BY <2>1, <2>2, <3>4
    <3>6. Listing[m - (n - c)] = <<p, l>> BY <2>1, <3>2, <3>4, <3>5
    <3>7. QED BY <3>4, <3>6
  <2>7. QED BY <2>5, <2>6 DEF c
<1>3. Inv /\ LogOrderInv => ListedInOrder BY <1>2, Zenon DEF ListedInOrder
<1>4. QED BY <1>1, <1>3, StepLogOrder, InvHolds, PTL DEF Spec

=============================================================================

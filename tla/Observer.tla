------------------------------- MODULE Observer -------------------------------
(***************************************************************************)
(* The observability thread: it empties the recording threads' queues a    *)
(* round at a time into a ring of the last MaxEvents events, and answers   *)
(* GET_EVENTS on the admin socket with what the ring holds.                *)
(*                                                                         *)
(* The k-th event that recorder p's queue accepts is <<p, k>>; the queues  *)
(* are FIFOs (EventQueue shows that), so two counters describe one.  The   *)
(* other commands are answered in the same way from other data.            *)
(***************************************************************************)
EXTENDS Naturals, Sequences

CONSTANTS
  Recorders,   \* threads that record events
  Capacity,    \* EventQueue::CAPACITY - 1: how many events a queue holds
  Round,       \* at most so many are taken from a queue at a time (100)
  MaxEvents,   \* MAX_EVENTS: the size of the history
  Fits,        \* so many events are always listed within a socket's buffer
  Clients,     \* connections to the admin socket
  Admin,       \* admin_fd_
  MaxRecords,  \* bound: events recorded by a thread
  None

ASSUME SizesAssumption ==
  /\ Capacity \in Nat \ {0} /\ Round \in Nat \ {0} /\ MaxEvents \in Nat \ {0}
  /\ Fits \in Nat /\ MaxRecords \in Nat
ASSUME NamesAssumption == None \notin Recorders /\ Admin \notin Clients

Events == Recorders \X (Nat \ {0})

ASSUME NoneAssumption == None \notin Events /\ None \notin Seq(Events)

VARIABLES
  registered,      \* recorders whose queue is in thread_queues_
  pushed, popped,  \* events a queue has accepted, and given out
  event_history_, history_head_, history_count_,
  log,             \* history: every event taken, in the order taken
  pc,              \* "poll", "consume", "serve", "killed"
  todo, queue, count,  \* consume_events: queues to come, the present one, its count
  ready,           \* descriptors epoll_wait has reported
  client,          \* "away", "backlog", "accepted", "answered"
  asked, gone,     \* has it written GET_EVENTS? has it closed its side?
  due,             \* history: how much of each queue it may expect to see
  answer           \* the listing it was sent; None if that was cut off

queues  == <<registered, pushed, popped>>
history == <<event_history_, history_head_, history_count_, log>>
round   == <<todo, queue, count>>
admin   == <<client, asked, gone, due, answer>>
vars    == <<queues, history, pc, round, ready, admin>>

TypeOK ==
  /\ registered \subseteq Recorders
  /\ pushed \in [Recorders -> Nat] /\ popped \in [Recorders -> Nat]
  /\ \A p \in Recorders : popped[p] <= pushed[p] /\ pushed[p] <= popped[p] + Capacity
  /\ event_history_ \in [0..(MaxEvents - 1) -> Events \cup {None}]
  /\ history_head_ \in 0..(MaxEvents - 1) /\ history_count_ \in 0..MaxEvents
  /\ log \in Seq(Events)
  /\ pc \in {"poll", "consume", "serve", "killed"}
  /\ todo \subseteq Recorders /\ queue \in Recorders \cup {None} /\ count \in 0..Round
  /\ ready \subseteq Clients \cup {Admin}
  /\ client \in [Clients -> {"away", "backlog", "accepted", "answered"}]
  /\ asked \in [Clients -> BOOLEAN] /\ gone \in [Clients -> BOOLEAN]
  /\ due \in [Clients -> [Recorders -> Nat]]
  /\ answer \in [Clients -> Seq(Events) \cup {None}]

Init ==
  /\ registered = {}
  /\ pushed = [p \in Recorders |-> 0] /\ popped = [p \in Recorders |-> 0]
  /\ event_history_ = [i \in 0..(MaxEvents - 1) |-> None]
  /\ history_head_ = 0 /\ history_count_ = 0 /\ log = <<>>
  /\ pc = "poll" /\ todo = {} /\ queue = None /\ count = 0 /\ ready = {}
  /\ client = [c \in Clients |-> "away"]
  /\ asked = [c \in Clients |-> FALSE] /\ gone = [c \in Clients |-> FALSE]
  /\ due = [c \in Clients |-> [p \in Recorders |-> 0]]
  /\ answer = [c \in Clients |-> None]

-----------------------------------------------------------------------------
(* The recording threads.                                                  *)

\* register_thread needs the mutex that consume_events holds.
Register(p) ==
  /\ pc \in {"poll", "serve"} /\ p \notin registered
  /\ registered' = registered \cup {p}
  /\ UNCHANGED <<pushed, popped, history, pc, round, ready, admin>>

\* record_event; a full queue drops the event.
Record(p) ==
  /\ pc # "killed" /\ p \in registered /\ pushed[p] < MaxRecords
  /\ pushed[p] - popped[p] < Capacity
  /\ pushed' = [pushed EXCEPT ![p] = @ + 1]
  /\ UNCHANGED <<registered, popped, history, pc, round, ready, admin>>

-----------------------------------------------------------------------------
(* ObservabilityWorker::run and consume_events.                            *)

Reportable == {c \in Clients : client[c] = "accepted" /\ (asked[c] \/ gone[c])}
         \cup (IF \E c \in Clients : client[c] = "backlog" THEN {Admin} ELSE {})

\* Deviation: the queues are emptied only when nobody asks for anything.
PollSkips ==
  /\ pc = "poll" /\ ready' \in SUBSET Reportable
  /\ pc' = IF ready' = {} THEN "consume" ELSE "serve"
  /\ todo' = IF ready' = {} THEN registered ELSE {}
  /\ UNCHANGED <<queues, history, queue, count, admin>>

\* epoll_wait reports some of what is ready, or nothing within 100 ms.
Poll ==
  /\ pc = "poll" /\ pc' = "consume"
  /\ ready' \in SUBSET Reportable /\ todo' = registered
  /\ UNCHANGED <<queues, history, queue, count, admin>>

Turn(p) ==
  /\ pc = "consume" /\ queue = None /\ p \in todo
  /\ todo' = todo \ {p} /\ queue' = p /\ count' = 0
  /\ UNCHANGED <<queues, history, pc, ready, admin>>

\* Deviation: the head runs off the end of the ring.
TakeWithoutWrap ==
  /\ pc = "consume" /\ queue # None /\ count < Round /\ popped[queue] < pushed[queue]
  /\ LET event == <<queue, popped[queue] + 1>> IN
       /\ event_history_' = [event_history_ EXCEPT ![history_head_] = event]
       /\ log' = Append(log, event)
  /\ popped' = [popped EXCEPT ![queue] = @ + 1] /\ count' = count + 1
  /\ history_head_' = history_head_ + 1
  /\ history_count_' = IF history_count_ < MaxEvents THEN history_count_ + 1 ELSE history_count_
  /\ UNCHANGED <<registered, pushed, pc, todo, queue, ready, admin>>

\* One pop, and the copy into the ring.
Take ==
  /\ pc = "consume" /\ queue # None /\ count < Round /\ popped[queue] < pushed[queue]
  /\ LET event == <<queue, popped[queue] + 1>> IN
       /\ event_history_' = [event_history_ EXCEPT ![history_head_] = event]
       /\ log' = Append(log, event)
  /\ popped' = [popped EXCEPT ![queue] = @ + 1] /\ count' = count + 1
  /\ history_head_' = (history_head_ + 1) % MaxEvents
  /\ history_count_' = IF history_count_ < MaxEvents THEN history_count_ + 1 ELSE history_count_
  /\ UNCHANGED <<registered, pushed, pc, todo, queue, ready, admin>>

\* Deviation: an empty queue ends the round.
LeaveRound ==
  /\ pc = "consume" /\ queue # None
  /\ count = Round \/ popped[queue] = pushed[queue]
  /\ queue' = None /\ count' = 0 /\ todo' = IF count = Round THEN todo ELSE {}
  /\ UNCHANGED <<queues, history, pc, ready, admin>>

LeaveQueue ==
  /\ pc = "consume" /\ queue # None
  /\ count = Round \/ popped[queue] = pushed[queue]
  /\ queue' = None /\ count' = 0
  /\ UNCHANGED <<queues, history, pc, todo, ready, admin>>

RoundEnds ==
  /\ pc = "consume" /\ queue = None /\ todo = {} /\ pc' = "serve"
  /\ UNCHANGED <<queues, history, round, ready, admin>>

-----------------------------------------------------------------------------
(* handle_admin_accept and handle_admin_request.                           *)

Serving(fd) == pc = "serve" /\ fd \in ready /\ ready' = ready \ {fd}

Accept ==
  /\ Serving(Admin)
  /\ client' = [c \in Clients |-> IF client[c] = "backlog" THEN "accepted" ELSE client[c]]
  /\ UNCHANGED <<queues, history, pc, round, asked, gone, due, answer>>

\* Deviation: the ring is listed from its first slot.
ListingFromZero == [i \in 1..history_count_ |-> event_history_[i - 1]]

\* generate_events_json
Listing ==
  LET start == IF history_count_ < MaxEvents THEN 0 ELSE history_head_
  IN [i \in 1..history_count_ |-> event_history_[(start + i - 1) % MaxEvents]]

\* One write to a non-blocking socket: of a long listing the end may be lost, and the rest is
\* no JSON.
Answer(c) ==
  /\ Serving(c) /\ asked[c] /\ ~gone[c]
  /\ client' = [client EXCEPT ![c] = "answered"]
  /\ \E sent \in {Listing} \cup (IF history_count_ <= Fits THEN {} ELSE {None}) :
       answer' = [answer EXCEPT ![c] = sent]
  /\ UNCHANGED <<queues, history, pc, round, asked, gone, due>>

\* The command is still read; writing the answer raises SIGPIPE.
AnswerNobody(c) ==
  /\ Serving(c) /\ asked[c] /\ gone[c] /\ pc' = "killed"
  /\ UNCHANGED <<queues, history, round, admin>>

\* read returns 0.
CloseSilent(c) ==
  /\ Serving(c) /\ ~asked[c] /\ client' = [client EXCEPT ![c] = "away"]
  /\ UNCHANGED <<queues, history, pc, round, asked, gone, due, answer>>

BatchEnds ==
  /\ pc = "serve" /\ ready = {} /\ pc' = "poll"
  /\ UNCHANGED <<queues, history, round, ready, admin>>

ObserverStep ==
  \/ Poll \/ (\E p \in Recorders : Turn(p)) \/ Take \/ LeaveQueue \/ RoundEnds
  \/ Accept \/ (\E c \in Clients : Answer(c) \/ AnswerNobody(c) \/ CloseSilent(c)) \/ BatchEnds

-----------------------------------------------------------------------------
(* The dashboard's server, or anybody else: connect, write a command, read *)
(* the answer; or close before it has come.                                *)

Connect(c) ==
  /\ pc # "killed" /\ client[c] \in {"away", "answered"}
  /\ client' = [client EXCEPT ![c] = "backlog"]
  /\ asked' = [asked EXCEPT ![c] = FALSE] /\ gone' = [gone EXCEPT ![c] = FALSE]
  /\ answer' = [answer EXCEPT ![c] = None] /\ due' = [due EXCEPT ![c] = [p \in Recorders |-> 0]]
  /\ UNCHANGED <<queues, history, pc, round, ready>>

Least(a, b) == IF a <= b THEN a ELSE b

\* GET_EVENTS; of each queue, what one round will take is due.
Ask(c) ==
  /\ pc # "killed" /\ client[c] \in {"backlog", "accepted"} /\ ~asked[c] /\ ~gone[c]
  /\ asked' = [asked EXCEPT ![c] = TRUE]
  /\ due' = [due EXCEPT ![c] = [p \in Recorders |-> Least(pushed[p], popped[p] + Round)]]
  /\ UNCHANGED <<queues, history, pc, round, ready, client, gone, answer>>

HangUp(c) ==
  /\ pc # "killed" /\ client[c] \in {"backlog", "accepted"} /\ ~gone[c]
  /\ gone' = [gone EXCEPT ![c] = TRUE]
  /\ UNCHANGED <<queues, history, pc, round, ready, client, asked, due, answer>>

Environment ==
  \/ \E p \in Recorders : Register(p) \/ Record(p)
  \/ \E c \in Clients : Connect(c) \/ Ask(c) \/ HangUp(c)

Next == ObserverStep \/ Environment

Spec == Init /\ [][Next]_vars

FairSpec == Spec /\ WF_vars(ObserverStep)

-----------------------------------------------------------------------------
(* Properties.                                                             *)

(***************************************************************************)
(* The listing is the end of the log: the last MaxEvents events taken, or  *)
(* all of them, oldest first, wherever the ring's head stands (237-257).   *)
(***************************************************************************)
ListingIsRecent ==
  LET n == Len(log) IN
  /\ history_count_ = Least(n, MaxEvents)
  /\ \A i \in 1..history_count_ : Listing[i] = log[n - history_count_ + i]

(***************************************************************************)
(* An answer is never older than its request: of every queue it shows all  *)
(* that one round could take when the request was written, unless it is    *)
(* full of later events or was cut off (97-106: the queues are emptied     *)
(* between epoll_wait and the answer).                                     *)
(***************************************************************************)
AnswersAreFresh ==
  \A c \in Clients : client[c] = "answered" /\ answer[c] # None =>
    \A p \in Recorders : \A k \in 1..due[c][p] :
      \/ \E i \in 1..Len(answer[c]) : answer[c][i] = <<p, k>>
      \/ /\ Len(answer[c]) = MaxEvents
         /\ \E i, j \in 1..Len(log) : i < j /\ log[i] = <<p, k>> /\ log[j] = answer[c][1]

(***************************************************************************)
(* Every event a queue has accepted is taken in the end, however much the  *)
(* other queues and the admin socket have to offer.                        *)
(***************************************************************************)
RecordsAreTaken ==
  \A p \in Recorders : \A k \in 1..MaxRecords :
    pushed[p] >= k ~> popped[p] >= k \/ pc = "killed"

=============================================================================

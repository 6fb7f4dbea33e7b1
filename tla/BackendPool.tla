---------------------------- MODULE BackendPool ----------------------------
(***************************************************************************)
(* One service's pool of BackendInstances, shared by every thread of the   *)
(* gateway: the event-loop threads (Workers) that accept clients, choose a *)
(* backend, connect to it with failover and later remove the connection,   *)
(* and the health-checker thread that watches and probes the backends.     *)
(*                                                                         *)
(* The threads meet only in the two atomics of a BackendInstance,          *)
(* is_healthy and active_connections, and in g_metrics.active_connections; *)
(* no lock is held anywhere on these paths.  An action is therefore one    *)
(* access to a shared atomic together with the thread-local code around    *)
(* it, and a handler is the chain of actions its program counter walks.    *)
(***************************************************************************)
EXTENDS Integers, FiniteSets

CONSTANTS
  Workers,      \* event-loop threads
  Clients,      \* client sockets (identities are reused once closed)
  Socks,        \* descriptors the health checker can have open at a time
  NumBackends,  \* pool.size(); backend b is pool[b - 1]
  None          \* nullptr / INVALID_FD

Backends == 1..NumBackends

ASSUME NumBackendsAssumption == NumBackends \in Nat
ASSUME FiniteAssumption == IsFiniteSet(Workers) /\ IsFiniteSet(Clients) /\ IsFiniteSet(Socks)
ASSUME NoneAssumption == None \notin Workers \cup Clients \cup Socks \cup Nat

VARIABLES
  \* shared between threads
  is_healthy,          \* BackendInstance::is_healthy
  active_connections,  \* BackendInstance::active_connections
  gauge,               \* g_metrics.active_connections
  \* each worker's own state
  pc,                  \* where in its handlers the worker stands
  cli,                 \* the client it is working on
  at,                  \* next pool index choose_server reads
  healthy_indices,     \* what choose_server has found healthy so far
  chosen, other, load, \* the picked candidate(s) and the first one's load
  attempt,             \* failed attempts for this client
  owner, conn,         \* connections_: which worker holds a client, and its backend
  \* the health checker's own state
  watch_sockets,       \* watch_sockets_: the backend a watch socket belongs to
  watched,             \* the watch sockets that are in the checker's epoll set
  hcAt, hcSock,        \* backend being checked (0: in epoll_wait), socket just connected
  \* the world
  up,                  \* does the backend accept connections?
  ready                \* watch sockets epoll would report (hang-up, or bytes to read)

shared == <<is_healthy, active_connections, gauge>>
picks  == <<at, healthy_indices, chosen, other, load>>
table  == <<owner, conn>>
worker == <<pc, cli, picks, attempt, table>>
hc     == <<watch_sockets, watched, hcAt, hcSock>>
env    == <<up, ready>>
vars   == <<shared, worker, hc, env>>

\* Between two clients: in epoll_wait, or about to call accept_client again.
IdlePcs    == {"poll", "accept"}
AcceptPcs  == {"scan", "compare", "charge", "connect", "mark", "release", "setup", "drop"}
RemovePcs  == {"condemn", "uncharge", "erase"}
\* where a worker's current client is counted in active_connections[chosen]
ChargedPcs == {"connect", "mark", "release", "setup", "condemn", "uncharge"}

TypeOK ==
  /\ is_healthy \in [Backends -> BOOLEAN]
  /\ active_connections \in [Backends -> Int]
  /\ gauge \in Int
  /\ pc \in [Workers -> IdlePcs \cup AcceptPcs \cup RemovePcs]
  /\ cli \in [Workers -> Clients \cup {None}]
  /\ at \in [Workers -> 1..(NumBackends + 1)]
  /\ healthy_indices \in [Workers -> SUBSET Backends]
  /\ chosen \in [Workers -> Backends \cup {None}]
  /\ other \in [Workers -> Backends \cup {None}]
  /\ load \in [Workers -> Int]
  /\ attempt \in [Workers -> 0..NumBackends]
  /\ owner \in [Clients -> Workers \cup {None}]
  /\ conn \in [Clients -> Backends \cup {None}]
  /\ watch_sockets \in [Socks -> Backends \cup {None}]
  /\ watched \in SUBSET Socks
  /\ hcAt \in 0..NumBackends
  /\ hcSock \in Socks \cup {None}
  /\ up \in [Backends -> BOOLEAN]
  /\ ready \in SUBSET Socks

(***************************************************************************)
(* HealthChecker::init has run before the first worker starts: every       *)
(* backend that accepted its connection is healthy and has one watch       *)
(* socket, every other one is unhealthy.  Whether epoll took the socket is *)
(* not looked at.                                                          *)
(***************************************************************************)
Init ==
  /\ up \in [Backends -> BOOLEAN]
  /\ is_healthy = up
  /\ watch_sockets \in [Socks -> Backends \cup {None}]
  /\ \A b \in Backends : Cardinality({s \in Socks : watch_sockets[s] = b}) = (IF up[b] THEN 1 ELSE 0)
  /\ watched \in SUBSET {s \in Socks : watch_sockets[s] # None}
  /\ ready = {} /\ hcAt = 0 /\ hcSock = None
  /\ active_connections = [b \in Backends |-> 0] /\ gauge = 0
  /\ pc = [w \in Workers |-> "poll"] /\ cli = [w \in Workers |-> None]
  /\ at = [w \in Workers |-> 1] /\ healthy_indices = [w \in Workers |-> {}]
  /\ chosen = [w \in Workers |-> None] /\ other = [w \in Workers |-> None]
  /\ load = [w \in Workers |-> 0] /\ attempt = [w \in Workers |-> 0]
  /\ owner = [c \in Clients |-> None] /\ conn = [c \in Clients |-> None]

-----------------------------------------------------------------------------
(* Accepting a client: EventLoop::handle_accept and                        *)
(* LoadBalancer::choose_server.                                            *)

Goto(w, label) == pc' = [pc EXCEPT ![w] = label]

\* The worker is done with its client and goes on at label: locals go out of scope.
Done(w, label) ==
  /\ Goto(w, label)
  /\ cli' = [cli EXCEPT ![w] = None]
  /\ at' = [at EXCEPT ![w] = 1]
  /\ healthy_indices' = [healthy_indices EXCEPT ![w] = {}]
  /\ chosen' = [chosen EXCEPT ![w] = None]
  /\ attempt' = [attempt EXCEPT ![w] = 0]
  /\ UNCHANGED <<other, load>>

\* accept_client succeeds, called for an event on the listener or by the next
\* turn of the loop.  max_retries is pool.size(): an empty pool tries nothing.
AcceptClient(w, c) ==
  /\ pc[w] \in IdlePcs /\ owner[c] = None
  /\ owner' = [owner EXCEPT ![c] = w]
  /\ cli' = [cli EXCEPT ![w] = c]
  /\ Goto(w, IF NumBackends = 0 THEN "drop" ELSE "scan")
  /\ UNCHANGED <<shared, picks, attempt, conn, hc, env>>

\* No client is waiting, or accept_client fails: only this leaves the accept loop.
AcceptEnds(w) ==
  /\ pc[w] = "accept"
  /\ Goto(w, "poll")
  /\ UNCHANGED <<shared, cli, picks, attempt, table, hc, env>>

\* choose_server reads the is_healthy flags one after the other.
ReadHealth(w) ==
  /\ pc[w] = "scan" /\ at[w] \in Backends
  /\ healthy_indices' = [healthy_indices EXCEPT ![w] = IF is_healthy[at[w]] THEN @ \cup {at[w]} ELSE @]
  /\ at' = [at EXCEPT ![w] = @ + 1]
  /\ UNCHANGED <<shared, pc, cli, chosen, other, load, attempt, table, hc, env>>

\* Deviation: idx2 drawn without the shift past idx1.
CandidatesWithReplacement(S) == S \X S

\* Two distinct members, drawn as idx1 and the shifted idx2.
Candidates(S) == {p \in S \X S : p[1] # p[2]}

NoneHealthy(w) ==
  /\ pc[w] = "scan" /\ at[w] \notin Backends /\ healthy_indices[w] = {}
  /\ Goto(w, "drop")
  /\ UNCHANGED <<shared, cli, picks, attempt, table, hc, env>>

TakeOnly(w) ==
  /\ pc[w] = "scan" /\ at[w] \notin Backends
  /\ \E b \in Backends : healthy_indices[w] = {b} /\ chosen' = [chosen EXCEPT ![w] = b]
  /\ Goto(w, "charge")
  /\ UNCHANGED <<shared, cli, at, healthy_indices, other, load, attempt, table, hc, env>>

\* Power of two choices: draw a and b, load a's counter ...
DrawTwo(w) ==
  /\ pc[w] = "scan" /\ at[w] \notin Backends
  /\ \E p \in Candidates(healthy_indices[w]) :
       /\ chosen' = [chosen EXCEPT ![w] = p[1]]
       /\ other' = [other EXCEPT ![w] = p[2]]
       /\ load' = [load EXCEPT ![w] = active_connections[p[1]]]
  /\ Goto(w, "compare")
  /\ UNCHANGED <<shared, cli, at, healthy_indices, attempt, table, hc, env>>

\* ... then b's, and keep a when it is not the busier one.
Compare(w) ==
  /\ pc[w] = "compare"
  /\ chosen' = [chosen EXCEPT ![w] = IF load[w] <= active_connections[other[w]] THEN @ ELSE other[w]]
  /\ other' = [other EXCEPT ![w] = None]
  /\ load' = [load EXCEPT ![w] = 0]
  /\ Goto(w, "charge")
  /\ UNCHANGED <<shared, cli, at, healthy_indices, attempt, table, hc, env>>

Charge(w) ==
  /\ pc[w] = "charge"
  /\ active_connections' = [active_connections EXCEPT ![chosen[w]] = @ + 1]
  /\ Goto(w, "connect")
  /\ UNCHANGED <<is_healthy, gauge, cli, picks, attempt, table, hc, env>>

\* connect_to_backend blocks until the backend answers, refuses or times out.
Connect(w) ==
  /\ pc[w] = "connect" /\ up[chosen[w]]
  /\ Goto(w, "setup")
  /\ UNCHANGED <<shared, cli, picks, attempt, table, hc, env>>

ConnectFails(w) ==
  /\ pc[w] = "connect"
  /\ Goto(w, "mark")
  /\ UNCHANGED <<shared, cli, picks, attempt, table, hc, env>>

MarkUnhealthy(w) ==
  /\ pc[w] = "mark"
  /\ is_healthy' = [is_healthy EXCEPT ![chosen[w]] = FALSE]
  /\ Goto(w, "release")
  /\ UNCHANGED <<active_connections, gauge, cli, picks, attempt, table, hc, env>>

\* Deviation: the attempt is not counted, a failover never gives up.
ReleaseForgetsAttempt(w) ==
  /\ pc[w] = "release"
  /\ active_connections' = [active_connections EXCEPT ![chosen[w]] = @ - 1]
  /\ Goto(w, IF attempt[w] + 1 < NumBackends THEN "scan" ELSE "drop")
  /\ at' = [at EXCEPT ![w] = 1]
  /\ healthy_indices' = [healthy_indices EXCEPT ![w] = {}]
  /\ chosen' = [chosen EXCEPT ![w] = None]
  /\ UNCHANGED <<is_healthy, gauge, cli, attempt, other, load, table, hc, env>>

\* The failed attempt gives its charge back; the loop goes on while
\* attempt < max_retries.
Release(w) ==
  /\ pc[w] = "release"
  /\ active_connections' = [active_connections EXCEPT ![chosen[w]] = @ - 1]
  /\ attempt' = [attempt EXCEPT ![w] = @ + 1]
  /\ Goto(w, IF attempt[w] + 1 < NumBackends THEN "scan" ELSE "drop")
  /\ at' = [at EXCEPT ![w] = 1]
  /\ healthy_indices' = [healthy_indices EXCEPT ![w] = {}]
  /\ chosen' = [chosen EXCEPT ![w] = None]
  /\ UNCHANGED <<is_healthy, gauge, cli, other, load, table, hc, env>>

\* "no healthy backend available": the client is closed.
DropClient(w) ==
  /\ pc[w] = "drop"
  /\ owner' = [owner EXCEPT ![cli[w]] = None]
  /\ Done(w, "accept")
  /\ UNCHANGED <<shared, conn, hc, env>>

\* set_nonblocking, init_pipes and both epoll_ctl ADDs succeed.
Establish(w) ==
  /\ pc[w] = "setup"
  /\ conn' = [conn EXCEPT ![cli[w]] = chosen[w]]
  /\ gauge' = gauge + 1
  /\ Done(w, "accept")
  /\ UNCHANGED <<is_healthy, active_connections, owner, hc, env>>

\* Deviation: an error path that closes the sockets and forgets the charge.
SetupFailsKeepsCharge(w) ==
  /\ pc[w] = "setup"
  /\ owner' = [owner EXCEPT ![cli[w]] = None]
  /\ Done(w, "accept")
  /\ UNCHANGED <<shared, conn, hc, env>>

\* One of them fails: give the charge back, close both sockets.
SetupFails(w) ==
  /\ pc[w] = "setup"
  /\ active_connections' = [active_connections EXCEPT ![chosen[w]] = @ - 1]
  /\ owner' = [owner EXCEPT ![cli[w]] = None]
  /\ Done(w, "accept")
  /\ UNCHANGED <<is_healthy, gauge, conn, hc, env>>

-----------------------------------------------------------------------------
(* Ending a connection: handle_disconnect and remove_connection.           *)

\* An event on one of c's two sockets takes the worker into a removal at label.
BeginRemoval(w, c, label) ==
  /\ pc[w] = "poll" /\ owner[c] = w /\ conn[c] # None
  /\ cli' = [cli EXCEPT ![w] = c]
  /\ chosen' = [chosen EXCEPT ![w] = conn[c]]
  /\ Goto(w, label)
  /\ UNCHANGED <<shared, at, healthy_indices, other, load, attempt, table, hc, env>>

\* EPOLLERR or EPOLLHUP on the backend socket.
BackendError(w, c) == BeginRemoval(w, c, "condemn")

\* End of stream or an error on either side, or EPOLLERR/EPOLLHUP on the client's.
CloseConnection(w, c) == BeginRemoval(w, c, "uncharge")

Condemn(w) ==
  /\ pc[w] = "condemn"
  /\ is_healthy' = [is_healthy EXCEPT ![chosen[w]] = FALSE]
  /\ Goto(w, "uncharge")
  /\ UNCHANGED <<active_connections, gauge, cli, picks, attempt, table, hc, env>>

Uncharge(w) ==
  /\ pc[w] = "uncharge"
  /\ active_connections' = [active_connections EXCEPT ![chosen[w]] = @ - 1]
  /\ Goto(w, "erase")
  /\ UNCHANGED <<is_healthy, gauge, cli, picks, attempt, table, hc, env>>

\* Deviation: the gauge is kept when the backend has been condemned.
EraseSparesGauge(w) ==
  /\ pc[w] = "erase"
  /\ conn' = [conn EXCEPT ![cli[w]] = None]
  /\ owner' = [owner EXCEPT ![cli[w]] = None]
  /\ gauge' = IF is_healthy[chosen[w]] THEN gauge - 1 ELSE gauge
  /\ Done(w, "poll")
  /\ UNCHANGED <<is_healthy, active_connections, hc, env>>

\* Both sockets are closed, both connections_ entries erased, the gauge lowered.
Erase(w) ==
  /\ pc[w] = "erase"
  /\ conn' = [conn EXCEPT ![cli[w]] = None]
  /\ owner' = [owner EXCEPT ![cli[w]] = None]
  /\ gauge' = gauge - 1
  /\ Done(w, "poll")
  /\ UNCHANGED <<is_healthy, active_connections, hc, env>>

-----------------------------------------------------------------------------
(* HealthChecker::run and check_unhealthy_backends.                        *)

\* Deviation: the loop's bound is off by one.
AdvanceTooFar == hcAt' = IF hcAt > NumBackends THEN 0 ELSE hcAt + 1

Advance == hcAt' = IF hcAt = NumBackends THEN 0 ELSE hcAt + 1

\* Deviation: the round starts behind the first backend.
HcTickSkipsFirst ==
  /\ hcAt = 0 /\ NumBackends > 0
  /\ hcAt' = IF NumBackends = 1 THEN 0 ELSE 2
  /\ UNCHANGED <<shared, worker, watch_sockets, watched, hcSock, env>>

\* The timer fires: check_unhealthy_backends starts at the first backend.
HcTick ==
  /\ hcAt = 0 /\ NumBackends > 0
  /\ hcAt' = 1
  /\ UNCHANGED <<shared, worker, watch_sockets, watched, hcSock, env>>

HcSkip ==
  /\ hcAt # 0 /\ hcSock = None /\ is_healthy[hcAt]
  /\ Advance
  /\ UNCHANGED <<shared, worker, watch_sockets, watched, hcSock, env>>

\* Only this thread ever sets a flag, so reading FALSE and connecting are one step.
HcProbe(s) ==
  /\ hcAt # 0 /\ hcSock = None /\ ~is_healthy[hcAt]
  /\ up[hcAt] /\ watch_sockets[s] = None
  /\ hcSock' = s
  /\ UNCHANGED <<shared, worker, watch_sockets, watched, hcAt, env>>

\* Refused, timed out after SO_SNDTIMEO, or no descriptor left.
HcProbeFails ==
  /\ hcAt # 0 /\ hcSock = None /\ ~is_healthy[hcAt]
  /\ Advance
  /\ UNCHANGED <<shared, worker, watch_sockets, watched, hcSock, env>>

\* Deviation: the revived backend is not watched again.
HcPublishUnwatched ==
  /\ hcSock # None
  /\ is_healthy' = [is_healthy EXCEPT ![hcAt] = TRUE]
  /\ hcSock' = None
  /\ ready' = ready \ {hcSock}
  /\ Advance
  /\ UNCHANGED <<active_connections, gauge, worker, watch_sockets, watched, up>>

\* is_healthy.store(true), EPOLL_CTL_ADD, whose failure nobody looks at, and
\* the watch_sockets_ entry.
HcPublish ==
  /\ hcSock # None
  /\ is_healthy' = [is_healthy EXCEPT ![hcAt] = TRUE]
  /\ watch_sockets' = [watch_sockets EXCEPT ![hcSock] = hcAt]
  /\ \/ watched' = watched \cup {hcSock} /\ ready' = ready
     \/ watched' = watched /\ ready' = ready \ {hcSock}
  /\ hcSock' = None
  /\ Advance
  /\ UNCHANGED <<active_connections, gauge, worker, up>>

\* Deviation: the watch socket is closed and the flag kept.
HcEventKeepsFlag(s) ==
  /\ hcAt = 0 /\ s \in ready /\ watch_sockets[s] # None
  /\ watch_sockets' = [watch_sockets EXCEPT ![s] = None]
  /\ watched' = watched \ {s} /\ ready' = ready \ {s}
  /\ UNCHANGED <<shared, worker, hcAt, hcSock, up>>

\* Any event on a watch socket means the backend is down.
HcEvent(s) ==
  /\ hcAt = 0 /\ s \in ready /\ watch_sockets[s] # None
  /\ is_healthy' = [is_healthy EXCEPT ![watch_sockets[s]] = FALSE]
  /\ watch_sockets' = [watch_sockets EXCEPT ![s] = None]
  /\ watched' = watched \ {s} /\ ready' = ready \ {s}
  /\ UNCHANGED <<active_connections, gauge, worker, hcAt, hcSock, up>>

-----------------------------------------------------------------------------
(* The backends: processes that stop, start and may write to a watch socket. *)

\* The checker's sockets connected to backend b whose events it will see: those
\* epoll has taken, and the one that is about to be added.
SocksOf(b) == {s \in Socks : (s \in watched /\ watch_sockets[s] = b) \/ (s = hcSock /\ hcAt = b)}

BackendDown(b) ==
  /\ up[b]
  /\ up' = [up EXCEPT ![b] = FALSE]
  /\ ready' = ready \cup SocksOf(b)
  /\ UNCHANGED <<shared, worker, hc>>

BackendUp(b) ==
  /\ ~up[b]
  /\ up' = [up EXCEPT ![b] = TRUE]
  /\ UNCHANGED <<shared, worker, hc, ready>>

\* A backend that greets its clients, or drops the one idle connection.
WatchReadable(b) ==
  /\ up[b]
  /\ \E s \in SocksOf(b) \ ready : ready' = ready \cup {s}
  /\ UNCHANGED <<shared, worker, hc, up>>

-----------------------------------------------------------------------------

\* What a worker does on its own once it has begun a handler.
WorkerStep(w) ==
  \/ ReadHealth(w) \/ NoneHealthy(w) \/ TakeOnly(w) \/ DrawTwo(w) \/ Compare(w)
  \/ Charge(w) \/ Connect(w) \/ ConnectFails(w) \/ MarkUnhealthy(w) \/ Release(w)
  \/ DropClient(w) \/ Establish(w) \/ SetupFails(w)
  \/ Condemn(w) \/ Uncharge(w) \/ Erase(w)

\* What accept_client and epoll_wait return to it.
WorkerEvent(w) ==
  \/ AcceptEnds(w)
  \/ \E c \in Clients : AcceptClient(w, c) \/ BackendError(w, c) \/ CloseConnection(w, c)

HcRound == HcTick \/ HcSkip \/ (\E s \in Socks : HcProbe(s)) \/ HcProbeFails \/ HcPublish

Environment == \E b \in Backends : BackendDown(b) \/ BackendUp(b) \/ WatchReadable(b)

Next ==
  \/ \E w \in Workers : WorkerStep(w) \/ WorkerEvent(w)
  \/ HcRound
  \/ \E s \in Socks : HcEvent(s)
  \/ Environment

Spec == Init /\ [][Next]_vars

(***************************************************************************)
(* Threads are scheduled, blocking calls return, the timer keeps firing,   *)
(* and epoll_wait, which reports up to 16 ready descriptors per call in    *)
(* turn, cannot pass over a ready watch socket for ever (strong fairness:  *)
(* a round of checks repeatedly takes the thread away from epoll_wait).    *)
(* accept_client does not block: it answers, with or without a client.     *)
(* Nothing is assumed of clients or backends, nor that epoll takes a watch *)
(* socket.                                                                 *)
(***************************************************************************)
Fairness ==
  /\ \A w \in Workers : WF_vars(WorkerStep(w)) /\ WF_vars(AcceptEnds(w))
  /\ WF_vars(HcRound)
  /\ \A s \in Socks : SF_vars(HcEvent(s))

FairSpec == Spec /\ Fairness

-----------------------------------------------------------------------------
(* Properties.                                                             *)

\* Client c is counted in b's active_connections: by the worker busy with it,
\* or because its connection is established and nobody is removing it.
ChargedTo(c, b) ==
  \/ \E w \in Workers : cli[w] = c /\ pc[w] \in ChargedPcs /\ chosen[w] = b
  \/ conn[c] = b /\ \A w \in Workers : cli[w] # c

(***************************************************************************)
(* active_connections, which the balancer compares and the dashboard       *)
(* shows, is at every moment exactly the number of clients charged to the  *)
(* backend: every path of handle_accept, including each failover attempt   *)
(* and each setup error, and every path into remove_connection gives back  *)
(* what it took, once, under any interleaving of the workers.              *)
(***************************************************************************)
ChargeExact ==
  \A b \in Backends : active_connections[b] = Cardinality({c \in Clients : ChargedTo(c, b)})

\* The checker holds connections to b and epoll has refused every one of them:
\* health_checker.cpp:70 and 192 do not look at what the add returned.
Deaf(b) ==
  /\ \E s \in Socks : watch_sockets[s] = b
  /\ \A s \in watched : watch_sockets[s] # b

(***************************************************************************)
(* A backend the balancer may still pick although it is down has a hang-up *)
(* waiting in the health checker's epoll set: whatever the order of probe, *)
(* publication, failover marks and backend restarts, a stale "healthy"     *)
(* that no pending event will correct is left only when every add of the   *)
(* backend's watch sockets has been refused, which the code passes over.   *)
(***************************************************************************)
DownIsNoticed ==
  \A b \in Backends :
    is_healthy[b] /\ ~up[b] /\ ~Deaf(b) => \E s \in ready : watch_sockets[s] = b

(***************************************************************************)
(* Power of two choices reads the two loads one after the other.  A pick   *)
(* that is strictly busier than all the other healthy backends is made     *)
(* only when the first load has moved before the second one is read: with  *)
(* a load that still holds, whichever two are drawn, the choice is at most *)
(* as busy as another healthy backend.                                     *)
(***************************************************************************)
NeverTheBusiest ==
  [][\A w \in Workers :
       pc[w] = "compare" /\ pc'[w] = "charge" /\ load[w] = active_connections[chosen[w]] =>
         \E b \in healthy_indices[w] \ {chosen'[w]} : active_connections[chosen'[w]] <= active_connections[b]]_vars

(***************************************************************************)
(* What handle_accept logs when it gives up: "all <n> backends exhausted", *)
(* "no healthy backend available".  When the last attempt is over, its     *)
(* scan had found no healthy backend besides the one that just failed.     *)
(***************************************************************************)
NoHealthyMissed ==
  [][\A w \in Workers : pc[w] = "release" /\ pc'[w] = "drop" => healthy_indices[w] = {chosen[w]}]_vars

(***************************************************************************)
(* A worker gets back to epoll_wait, and with it to the connections it has *)
(* established, unless clients keep arriving: the failover loop ends even  *)
(* when the health checker keeps reviving the backends it has just marked. *)
(* With clients arriving during its blocking connects handle_accept's      *)
(* while (true) need never end, so no more than this holds of the code.    *)
(***************************************************************************)
WorkerReturns ==
  \A w \in Workers : []<>(pc[w] = "poll") \/ []<><<\E c \in Clients : AcceptClient(w, c)>>_vars

Tried(b) == \E w \in Workers : pc[w] = "connect" /\ chosen[w] = b

(***************************************************************************)
(* A backend that stays down ends up unhealthy for good, wherever the      *)
(* probes, the publication and the restarts before that left its flag.     *)
(* What epoll refused to watch is put right by the first client balanced   *)
(* to it: such a flag stays only as long as no connect is attempted.       *)
(***************************************************************************)
DownIsSettled ==
  \A b \in Backends : <>[](~up[b]) => <>[](is_healthy[b] => Deaf(b) /\ ~Tried(b))

\* Something that makes a thread distrust a backend that is up: a refused or
\* timed-out connect, an error on one connection, bytes on an idle watch socket.
Mistrust(b) ==
  \/ \E w \in Workers : ConnectFails(w) /\ chosen[w] = b
  \/ \E w \in Workers, c \in Clients : BackendError(w, c) /\ conn[c] = b
  \/ HcProbeFails /\ hcAt = b
  \/ WatchReadable(b)

(***************************************************************************)
(* A backend that stays up and gives no further cause for mistrust ends up *)
(* healthy for good: the late stores of failing workers, old watch sockets *)
(* and in-flight probes cannot leave it out of the rotation.               *)
(***************************************************************************)
UpIsNoticed ==
  \A b \in Backends : (<>[]up[b] /\ <>[][~Mistrust(b)]_vars) => <>[]is_healthy[b]

=============================================================================

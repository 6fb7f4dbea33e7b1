------------------------------- MODULE Reload -------------------------------
(***************************************************************************)
(* Hot reload.  SIGHUP makes main parse the configuration into a new       *)
(* Router, with new BackendInstances, and leave a copy in a mailbox of     *)
(* every event loop and of the health checker; each thread takes and       *)
(* applies it at the top of its own loop, while connections made with      *)
(* earlier routers live on.                                                *)
(*                                                                         *)
(* A router is known by its generation: 0 is the one built at startup.     *)
(* The configuration is abstracted to the set of ports it routes.          *)
(***************************************************************************)
EXTENDS Naturals, FiniteSets

CONSTANTS
  Workers,     \* event-loop threads
  Checker,     \* the health-checker thread
  Ports,       \* listen ports a configuration may name
  MaxWrites,   \* bound: how often the configuration file is rewritten
  Malformed,   \* a file that does not parse
  None         \* nullptr; no file being written

Receivers   == Workers \cup {Checker}
Generations == 0..MaxWrites
Contents    == {Malformed} \cup SUBSET Ports

ASSUME CheckerAssumption == Checker \notin Workers
ASSUME MaxWritesAssumption == MaxWrites \in Nat
ASSUME NoneAssumption == None \notin Receivers \cup Generations
ASSUME FileAssumption == None # Malformed /\ \A c \in SUBSET Ports : c # Malformed /\ c # None

VARIABLES
  \* outside: the file, and who writes it and signals
  file, writing,    \* complete content; content being written, or None
  writes, unsignalled, \* rewrites begun; SIGHUPs still to be sent
  \* main
  hup,              \* g_reload_pending
  mainPc,           \* "wait", "parse", "push"
  latest, routes,   \* last generation built; the ports each generation routes
  todo, to,         \* receivers still to be served; the one whose mutex main holds
  observer,         \* the observability worker's router_
  \* the receivers' mailboxes and loops
  reload_pending, pending_router,
  pc, new_router,   \* where a receiver stands in taking a router; the one it has taken
  router,           \* router_
  \* the event loops
  listeners,        \* ports of listeners_
  conns             \* generations of the routers its connections were made with

outside == <<file, writing, writes, unsignalled>>
mainv   == <<mainPc, latest, routes, todo, to, observer>>
mailbox == <<reload_pending, pending_router>>
recv    == <<pc, new_router, router>>
serving == <<listeners, conns>>
vars    == <<outside, hup, mainv, mailbox, recv, serving>>

TypeOK ==
  /\ file \in Contents /\ writing \in {None} \cup Contents
  /\ writes \in 0..MaxWrites /\ unsignalled \in Nat
  /\ hup \in BOOLEAN /\ mainPc \in {"wait", "parse", "push"}
  /\ latest \in Generations /\ routes \in [Generations -> SUBSET Ports]
  /\ todo \in SUBSET Receivers /\ to \in Receivers \cup {None}
  /\ observer \in Generations
  /\ reload_pending \in [Receivers -> BOOLEAN]
  /\ pending_router \in [Receivers -> Generations \cup {None}]
  /\ pc \in [Receivers -> {"loop", "clear", "take", "apply"}]
  /\ new_router \in [Receivers -> Generations \cup {None}]
  /\ \A r \in Receivers : pc[r] = "apply" <=> new_router[r] # None
  /\ router \in [Receivers -> Generations]
  /\ listeners \in [Workers -> SUBSET Ports]
  /\ conns \in [Workers -> SUBSET Generations]

\* Startup is over: every worker has created a listener for every route.
Init ==
  /\ file \in SUBSET Ports /\ writing = None
  /\ writes = 0 /\ unsignalled = 0
  /\ hup = FALSE /\ mainPc = "wait"
  /\ latest = 0 /\ routes = [g \in Generations |-> IF g = 0 THEN file ELSE {}]
  /\ todo = {} /\ to = None /\ observer = 0
  /\ reload_pending = [r \in Receivers |-> FALSE]
  /\ pending_router = [r \in Receivers |-> None]
  /\ pc = [r \in Receivers |-> "loop"]
  /\ new_router = [r \in Receivers |-> None]
  /\ router = [r \in Receivers |-> 0]
  /\ listeners = [w \in Workers |-> file]
  /\ conns = [w \in Workers |-> {}]

-----------------------------------------------------------------------------
(* The configuration file: rewritten in place, then SIGHUP is sent, for    *)
(* which the dashboard does not wait before the next rewriting.            *)

WriteBegin ==
  /\ writing = None /\ writes < MaxWrites
  /\ writing' \in Contents
  /\ writes' = writes + 1
  /\ UNCHANGED <<file, unsignalled, hup, mainv, mailbox, recv, serving>>

WriteEnd ==
  /\ writing # None
  /\ file' = writing /\ writing' = None
  /\ unsignalled' = unsignalled + 1
  /\ UNCHANGED <<writes, hup, mainv, mailbox, recv, serving>>

Signal ==
  /\ unsignalled > 0
  /\ hup' = TRUE /\ unsignalled' = unsignalled - 1
  /\ UNCHANGED <<file, writing, writes, mainv, mailbox, recv, serving>>

\* What a reader may find: while the file is being written, a beginning of it,
\* which parses to fewer services (none, if it is empty) or not at all.
Readable ==
  IF writing = None THEN {file}
  ELSE {Malformed} \cup SUBSET (IF writing = Malformed THEN Ports ELSE writing)

-----------------------------------------------------------------------------
(* main's loop *)

\* g_reload_pending.exchange(false)
TakeSignal ==
  /\ mainPc = "wait" /\ hup
  /\ hup' = FALSE
  /\ mainPc' = "parse"
  /\ UNCHANGED <<outside, latest, routes, todo, to, observer, mailbox, recv, serving>>

Parse(c) ==
  /\ mainPc = "parse" /\ c \in Readable \ {Malformed}
  /\ latest < MaxWrites
  /\ latest' = latest + 1
  /\ routes' = [routes EXCEPT ![latest + 1] = c]
  /\ todo' = Receivers
  /\ mainPc' = "push"
  /\ UNCHANGED <<outside, hup, to, observer, mailbox, recv, serving>>

\* ConfigParser::parse throws: the routers in use stay.
ParseFails ==
  /\ mainPc = "parse" /\ Malformed \in Readable
  /\ mainPc' = "wait"
  /\ UNCHANGED <<outside, hup, latest, routes, todo, to, observer, mailbox, recv, serving>>

\* Deviation: the health checker may be served before the event loops.
PushAnyOrder(r) ==
  /\ mainPc = "push" /\ to = None /\ r \in todo
  /\ to' = r /\ todo' = todo \ {r}
  /\ pending_router' = [pending_router EXCEPT ![r] = latest]
  /\ UNCHANGED <<outside, hup, mainPc, latest, routes, observer, reload_pending, recv, serving>>

\* push_new_router and update_router: with the mutex, the router and then the
\* flag; first every event loop, then the health checker.
Push(r) ==
  /\ mainPc = "push" /\ to = None /\ r \in todo
  /\ r = Checker => todo = {Checker}
  /\ to' = r /\ todo' = todo \ {r}
  /\ pending_router' = [pending_router EXCEPT ![r] = latest]
  /\ UNCHANGED <<outside, hup, mainPc, latest, routes, observer, reload_pending, recv, serving>>

\* Deviation: the flag is not raised while the receiver is taking a router.
PushFlagIfLooping ==
  /\ to # None
  /\ reload_pending' = [reload_pending EXCEPT ![to] = @ \/ pc[to] = "loop"]
  /\ to' = None
  /\ UNCHANGED <<outside, hup, mainPc, latest, routes, todo, observer, pending_router, recv, serving>>

PushFlag ==
  /\ to # None
  /\ reload_pending' = [reload_pending EXCEPT ![to] = TRUE]
  /\ to' = None
  /\ UNCHANGED <<outside, hup, mainPc, latest, routes, todo, observer, pending_router, recv, serving>>

\* Deviation: SIGHUP's flag is cleared when the reload is complete.
UpdateObserverClearsSignal ==
  /\ mainPc = "push" /\ to = None /\ todo = {}
  /\ observer' = latest
  /\ mainPc' = "wait" /\ hup' = FALSE
  /\ UNCHANGED <<outside, latest, routes, todo, to, mailbox, recv, serving>>

\* The observability worker's copy; main's own new_router goes out of scope.
UpdateObserver ==
  /\ mainPc = "push" /\ to = None /\ todo = {}
  /\ observer' = latest
  /\ mainPc' = "wait"
  /\ UNCHANGED <<outside, hup, latest, routes, todo, to, mailbox, recv, serving>>

-----------------------------------------------------------------------------
(* The top of EventLoop::run and HealthChecker::run                        *)

SeeReload(r) ==
  /\ pc[r] = "loop" /\ reload_pending[r]
  /\ pc' = [pc EXCEPT ![r] = "clear"]
  /\ UNCHANGED <<outside, hup, mainv, mailbox, new_router, router, serving>>

ClearFlag(r) ==
  /\ pc[r] = "clear"
  /\ reload_pending' = [reload_pending EXCEPT ![r] = FALSE]
  /\ pc' = [pc EXCEPT ![r] = "take"]
  /\ UNCHANGED <<outside, hup, mainv, pending_router, new_router, router, serving>>

\* Deviation: without the test of new_router.
TakeRouterUnchecked(r) ==
  /\ pc[r] = "take" /\ to # r
  /\ new_router' = [new_router EXCEPT ![r] = pending_router[r]]
  /\ pending_router' = [pending_router EXCEPT ![r] = None]
  /\ pc' = [pc EXCEPT ![r] = "apply"]
  /\ UNCHANGED <<outside, hup, mainv, reload_pending, router, serving>>

\* std::move out of the mailbox, with the mutex.
TakeRouter(r) ==
  /\ pc[r] = "take" /\ to # r
  /\ new_router' = [new_router EXCEPT ![r] = pending_router[r]]
  /\ pending_router' = [pending_router EXCEPT ![r] = None]
  /\ pc' = [pc EXCEPT ![r] = IF pending_router[r] = None THEN "loop" ELSE "apply"]
  /\ UNCHANGED <<outside, hup, mainv, reload_pending, router, serving>>

\* Deviation: the router taken is dropped.
InstallNothing(r) ==
  /\ new_router' = [new_router EXCEPT ![r] = None]
  /\ pc' = [pc EXCEPT ![r] = "loop"]
  /\ UNCHANGED router

\* router_ = new_router, and the end of the local new_router.
Install(r) ==
  /\ router' = [router EXCEPT ![r] = new_router[r]]
  /\ new_router' = [new_router EXCEPT ![r] = None]
  /\ pc' = [pc EXCEPT ![r] = "loop"]

\* The loop that adds: a listener for each route without one, if it can be created.
AddedPorts(current_ports, g, failed) == {p \in routes[g] : p \notin current_ports} \ failed

\* The loop that removes: the listeners that were open and have no route any more.
RemovedPorts(current_ports, g) == {p \in current_ports : p \notin routes[g]}

\* Deviation: the listeners of ports that are gone stay.
ApplyRouterKeepsOld(w) ==
  /\ pc[w] = "apply"
  /\ \E failed \in SUBSET routes[new_router[w]] :
       listeners' = [listeners EXCEPT ![w] = @ \cup AddedPorts(@, new_router[w], failed)]
  /\ Install(w)
  /\ UNCHANGED <<outside, hup, mainv, mailbox, conns>>

\* EventLoop::apply_new_router: both loops go by the ports open at its start. Only
\* this thread reads listeners_, which makes the call one step. A listener epoll
\* refuses stays in the table and hears nothing: Accept never has to be taken.
ApplyRouter(w) ==
  /\ pc[w] = "apply"
  /\ \E failed \in SUBSET routes[new_router[w]] :
       listeners' = [listeners EXCEPT ![w] =
         (@ \cup AddedPorts(@, new_router[w], failed)) \ RemovedPorts(@, new_router[w])]
  /\ Install(w)
  /\ UNCHANGED <<outside, hup, mainv, mailbox, conns>>

\* HealthChecker::apply_new_router: the watch sockets now hold the new backends.
ApplyChecker ==
  /\ pc[Checker] = "apply"
  /\ Install(Checker)
  /\ UNCHANGED <<outside, hup, mainv, mailbox, serving>>

-----------------------------------------------------------------------------
(* Connections: handle_accept and remove_connection                        *)

Accept(w) ==
  /\ pc[w] = "loop" /\ listeners[w] \cap routes[router[w]] # {}
  /\ conns' = [conns EXCEPT ![w] = @ \cup {router[w]}]
  /\ UNCHANGED <<outside, hup, mainv, mailbox, recv, listeners>>

\* The last connection of a generation ends.
Disconnect(w, g) ==
  /\ pc[w] = "loop" /\ g \in conns[w]
  /\ conns' = [conns EXCEPT ![w] = @ \ {g}]
  /\ UNCHANGED <<outside, hup, mainv, mailbox, recv, listeners>>

-----------------------------------------------------------------------------

MainStep ==
  \/ TakeSignal \/ (\E c \in SUBSET Ports : Parse(c)) \/ ParseFails
  \/ (\E r \in Receivers : Push(r)) \/ PushFlag \/ UpdateObserver

Apply(r) == (r \in Workers /\ ApplyRouter(r)) \/ (r = Checker /\ ApplyChecker)

ReceiverStep(r) == SeeReload(r) \/ ClearFlag(r) \/ TakeRouter(r) \/ Apply(r)

Traffic == \E w \in Workers : Accept(w) \/ \E g \in Generations : Disconnect(w, g)

Next ==
  \/ WriteBegin \/ WriteEnd \/ Signal
  \/ MainStep
  \/ \E r \in Receivers : ReceiverStep(r)
  \/ Traffic

Spec == Init /\ [][Next]_vars

\* Threads run; who has begun to write the file ends and sends the signal.
FairSpec ==
  Spec /\ WF_vars(MainStep) /\ (\A r \in Receivers : WF_vars(ReceiverStep(r)))
       /\ WF_vars(WriteEnd) /\ WF_vars(Signal)

-----------------------------------------------------------------------------
(* Properties.                                                             *)

(***************************************************************************)
(* Between reloads every listener of an event loop has a route: "no route  *)
(* for port" in handle_accept, which would leave a ready listener spinning *)
(* in level-triggered epoll, is never reached.                             *)
(***************************************************************************)
ListenersAreRouted == \A w \in Workers : listeners[w] \subseteq routes[router[w]]

(***************************************************************************)
(* The flag is cleared before the router is taken, and raised after the    *)
(* router has been left, so that a router in the mailbox is never          *)
(* forgotten: the flag is up, or about to be, or its reader on the way.    *)
(***************************************************************************)
NoReloadLost ==
  \A r \in Receivers :
    pending_router[r] # None => reload_pending[r] \/ to = r \/ pc[r] \in {"clear", "take"}

\* The newest router a receiver has been given, and the newest it has taken.
Adopted(r) == IF new_router[r] # None THEN new_router[r] ELSE router[r]
Offered(r) == IF pending_router[r] # None THEN pending_router[r] ELSE Adopted(r)

(***************************************************************************)
(* The health checker never takes up a router before every event loop has  *)
(* been given it: it abandons a pool only when all loops are to abandon it *)
(* as well, even if it has passed over the routers in between.             *)
(***************************************************************************)
WorkersToldFirst == \A w \in Workers : Offered(w) >= Adopted(Checker)

(***************************************************************************)
(* Each mailbox implements LatestRouter: what a thread adopts is always    *)
(* the last router pushed to it, never an older one.                       *)
(***************************************************************************)
Mailbox(r) == INSTANCE LatestRouter WITH offered <- Offered(r), adopted <- Adopted(r)
RefinesLatest ==
  /\ \A r \in Receivers : Mailbox(r)!Init
  /\ [][\A r \in Receivers : [Mailbox(r)!Next]_(Mailbox(r)!vars)]_vars

\* The routers a receiver's mailbox and loop hold.
Held(r) == {router[r], new_router[r], pending_router[r]} \ {None}

\* Deviation: main does not keep the router it was started with.
OwnersWithoutMain ==
  (IF mainPc = "push" THEN {latest} ELSE {}) \cup {observer}
    \cup UNION {Held(r) : r \in Receivers}

\* Generations whose BackendInstances some shared_ptr still owns: main's router
\* and, during a reload, its new_router, and the copies of all other threads.
Owners ==
  {0} \cup (IF mainPc = "push" THEN {latest} ELSE {}) \cup {observer}
    \cup UNION {Held(r) : r \in Receivers}

(***************************************************************************)
(* Connection::backend_instance "tracks which backend this connection      *)
(* uses": the raw pointer refers to a BackendInstance that still exists.   *)
(***************************************************************************)
BackendTracked == \A w \in Workers : conns[w] \subseteq Owners

(***************************************************************************)
(* The first reload of a gateway's life leaves every connection's pointer  *)
(* valid, however the threads apply it.                                    *)
(***************************************************************************)
OneReloadIsSafe == latest <= 1 => BackendTracked

(***************************************************************************)
(* When the configuration stops changing, every thread ends up using it,   *)
(* whatever main read while it was being written and however SIGHUPs were  *)
(* merged.                                                                 *)
(***************************************************************************)
Current(g) == file = Malformed \/ routes[g] = file
Converges == <>[](Current(observer) /\ \A r \in Receivers : Current(router[r]))

=============================================================================

------------------------------ MODULE EventLoop ------------------------------
(***************************************************************************)
(* The descriptors of one event loop: accepting clients, setting up their  *)
(* connections, the table connections_ that finds a connection by either   *)
(* of its sockets, and removal.  Descriptor numbers are the process's: the *)
(* kernel hands out the lowest one that is free, other threads open and    *)
(* close theirs at any time, and a number closed while a batch of epoll    *)
(* events is served may be somebody else's before the batch ends.          *)
(*                                                                         *)
(* What flows through a connection is the subject of Relay, the counters   *)
(* and the choice of a backend that of BackendPool.                        *)
(***************************************************************************)
EXTENDS Naturals, FiniteSets

CONSTANTS
  Fds,        \* descriptor numbers the process may use (RLIMIT_NOFILE)
  Listeners,  \* keys of listeners_
  MaxEvents,  \* MAX_EVENTS: what epoll_wait reports at most
  MaxOthers,  \* bound: descriptors other threads have open at a time
  None        \* INVALID_FD; no connection

ASSUME FdsAssumption == Fds \subseteq Nat /\ Listeners \subseteq Fds /\ None \notin Nat

\* The descriptors of a Connection; the two ends of a pipe count as one.
Connection == [client : Fds, backend : Fds, c2b : Fds, b2c : Fds]
Unset      == [client |-> None, backend |-> None, c2b |-> None, b2c |-> None]
Of(r)      == {r.client, r.backend, r.c2b, r.b2c} \ {None}

Kinds      == {"listener", "client", "backend", "pipe", "other"}

ASSUME NoneAssumption == None \notin Connection \cup Kinds

VARIABLES
  file,         \* what each descriptor is open for; "other": another thread's
  watched,      \* the epoll set
  connections,  \* connections_
  batch,        \* events of the last epoll_wait still to be served
  pc,           \* "loop", "batch", or where handle_accept stands
  conn,         \* handle_accept's client_fd, backend_fd and pipes
  leaked        \* history: pipes nobody will close

vars == <<file, watched, connections, batch, pc, conn, leaked>>

AcceptPcs == {"accept", "connect", "pipe1", "pipe2", "watch1", "watch2"}
Events    == Fds \X {"io", "hup"}

TypeOK ==
  /\ file \in [Fds -> Kinds \cup {None}]
  /\ watched \subseteq Fds /\ leaked \subseteq Fds
  /\ connections \in [Fds -> Connection \cup {None}]
  /\ batch \subseteq Events
  /\ pc \in {"loop", "batch"} \cup AcceptPcs
  /\ conn \in [client : Fds \cup {None}, backend : Fds \cup {None}, c2b : Fds \cup {None}, b2c : Fds \cup {None}]
  /\ conn.client = None <=> pc \in {"loop", "batch", "accept"}
  /\ conn.backend # None <=> pc \in {"pipe1", "pipe2", "watch1", "watch2"}
  /\ conn.c2b # None <=> pc \in {"pipe2", "watch1", "watch2"}
  /\ conn.b2c # None <=> pc \in {"watch1", "watch2"}

\* EventLoop::init has succeeded: the listeners are open and watched.
Init ==
  /\ file = [f \in Fds |-> IF f \in Listeners THEN "listener" ELSE None]
  /\ watched = Listeners
  /\ connections = [f \in Fds |-> None]
  /\ batch = {} /\ pc = "loop" /\ conn = Unset /\ leaked = {}

-----------------------------------------------------------------------------
(* The kernel.                                                             *)

\* The lowest descriptor that is not in use becomes f; there may be none (EMFILE).
Lowest(f) ==
  /\ f \in Fds /\ file[f] = None
  /\ \A g \in Fds : g < f => file[g] # None

\* A closed socket leaves the epoll set.
\* close on a socket or a pipe never reports EINTR on Linux: close_fd's retry is not taken.
Close(fds) ==
  /\ file' = [f \in Fds |-> IF f \in fds THEN None ELSE file[f]]
  /\ watched' = watched \ fds

-----------------------------------------------------------------------------
(* EventLoop::handle_accept: one action per call that opens, closes or     *)
(* registers descriptors.  Each may fail, for lack of descriptors or of    *)
(* memory; then the burst goes on with the next client.                    *)

\* Give up this client: what of it is closed.
NextClient(closed) ==
  /\ Close(closed) /\ conn' = Unset /\ pc' = "accept"
  /\ UNCHANGED <<connections, batch>>

Accept ==
  /\ pc = "accept"
  /\ \E f \in Fds : Lowest(f) /\ file' = [file EXCEPT ![f] = "client"]
                              /\ conn' = [conn EXCEPT !.client = f]
  /\ pc' = "connect" /\ UNCHANGED <<watched, connections, batch, leaked>>

\* Nobody waits (EAGAIN), or accept fails.
AcceptEnds ==
  /\ pc = "accept" /\ pc' = "batch"
  /\ UNCHANGED <<file, watched, connections, batch, conn, leaked>>

\* connect_to_backend; a failed attempt closes its own socket and is not seen here.
Connect ==
  /\ pc = "connect"
  /\ \E f \in Fds : Lowest(f) /\ file' = [file EXCEPT ![f] = "backend"]
                              /\ conn' = [conn EXCEPT !.backend = f]
  /\ pc' = "pipe1" /\ UNCHANGED <<watched, connections, batch, leaked>>

\* No backend could be reached.
DropClient == pc = "connect" /\ NextClient({conn.client}) /\ UNCHANGED leaked

\* set_nonblocking twice, and the first pipe2 of init_pipes.
OpenPipe1 ==
  /\ pc = "pipe1"
  /\ \E f \in Fds : Lowest(f) /\ file' = [file EXCEPT ![f] = "pipe"]
                              /\ conn' = [conn EXCEPT !.c2b = f]
  /\ pc' = "pipe2" /\ UNCHANGED <<watched, connections, batch, leaked>>

OpenPipe2 ==
  /\ pc = "pipe2"
  /\ \E f \in Fds : Lowest(f) /\ file' = [file EXCEPT ![f] = "pipe"]
                              /\ conn' = [conn EXCEPT !.b2c = f]
  /\ pc' = "watch1" /\ UNCHANGED <<watched, connections, batch, leaked>>

OpenPipe1Fails ==
  pc = "pipe1" /\ NextClient({conn.client, conn.backend}) /\ UNCHANGED leaked

\* Deviations: the failure is not looked at; the first pipe stays open.
OpenPipe2Ignored ==
  /\ pc = "pipe2" /\ pc' = "watch1"
  /\ UNCHANGED <<file, watched, connections, batch, conn, leaked>>
OpenPipe2FailsKeepsPipe ==
  pc = "pipe2" /\ NextClient({conn.client, conn.backend}) /\ UNCHANGED leaked

\* The second pipe2 fails: init_pipes closes the first pipe, handle_accept the sockets.
OpenPipe2Fails ==
  pc = "pipe2" /\ NextClient({conn.client, conn.backend, conn.c2b}) /\ UNCHANGED leaked

\* epoll_ctl adds the client ...
WatchClient ==
  /\ pc = "watch1" /\ watched' = watched \cup {conn.client} /\ pc' = "watch2"
  /\ UNCHANGED <<file, connections, batch, conn, leaked>>

\* ... and the backend; now the table knows the connection.
Register ==
  /\ pc = "watch2" /\ watched' = watched \cup {conn.backend}
  /\ connections' = [connections EXCEPT ![conn.client] = conn, ![conn.backend] = conn]
  /\ conn' = Unset /\ pc' = "accept"
  /\ UNCHANGED <<file, batch, leaked>>

\* epoll_ctl refuses one of the sockets: both are closed, the pipes are forgotten.
WatchFails ==
  /\ pc \in {"watch1", "watch2"}
  /\ NextClient({conn.client, conn.backend})
  /\ leaked' = leaked \cup {conn.c2b, conn.b2c}

HandleAccept ==
  \/ Accept \/ AcceptEnds \/ Connect \/ DropClient \/ OpenPipe1 \/ OpenPipe1Fails
  \/ OpenPipe2 \/ OpenPipe2Fails \/ WatchClient \/ Register \/ WatchFails

-----------------------------------------------------------------------------
(* EventLoop::run.                                                         *)

\* epoll_wait reports some of the watched descriptors, a hang-up or error on some.
Poll ==
  /\ pc = "loop" /\ pc' = "batch"
  /\ \E ready \in SUBSET watched : \E hup \in SUBSET (ready \ Listeners) :
       /\ ready # {} /\ Cardinality(ready) <= MaxEvents
       /\ batch' = {<<f, IF f \in hup THEN "hup" ELSE "io">> : f \in ready}
  /\ UNCHANGED <<file, watched, connections, conn, leaked>>

BatchEnds ==
  /\ pc = "batch" /\ batch = {} /\ pc' = "loop"
  /\ UNCHANGED <<file, watched, connections, batch, conn, leaked>>

Serving(e) == pc = "batch" /\ e \in batch /\ batch' = batch \ {e}

ServeListener(e) ==
  /\ Serving(e) /\ e[1] \in Listeners /\ pc' = "accept"
  /\ UNCHANGED <<file, watched, connections, conn, leaked>>

\* Closed since the batch was reported, and in no connection of this loop now.
ServeUnknown(e) ==
  /\ Serving(e) /\ e[1] \notin Listeners /\ connections[e[1]] = None
  /\ UNCHANGED <<file, watched, connections, pc, conn, leaked>>

\* The connection that e's descriptor belongs to now, whoever the event was for.
Served(e) == Serving(e) /\ e[1] \notin Listeners /\ connections[e[1]] # None

\* Deviation: only the key the event came with is erased.
RemoveOneKey(f) ==
  Close(Of(connections[f])) /\ connections' = [connections EXCEPT ![f] = None]

\* remove_connection(f): both sockets and both pipes are closed, both keys erased.
Remove(f) ==
  LET r == connections[f] IN
  /\ Close(Of(r))
  /\ connections' = [connections EXCEPT ![r.client] = None, ![r.backend] = None]

\* handle_read or handle_write fails or meets the backend's end; or handle_disconnect.
ServeRemoves(e) ==
  Served(e) /\ Remove(e[1]) /\ UNCHANGED <<pc, conn, leaked>>

\* Nothing to do, or everything moved on.
ServeMoves(e) ==
  /\ Served(e) /\ e[2] = "io"
  /\ UNCHANGED <<file, watched, connections, pc, conn, leaked>>

\* Bytes are left in a pipe: the peer is armed, and put back if it had been taken out.
ServeArmsPeer(e) ==
  /\ Served(e) /\ e[2] = "io"
  /\ LET r == connections[e[1]] IN
     watched' = watched \cup {IF e[1] = r.client THEN r.backend ELSE r.client}
  /\ UNCHANGED <<file, connections, pc, conn, leaked>>

\* Deviation: it is the peer that is taken out of epoll.
ServeHalfClosesPeer(e) ==
  /\ Served(e) /\ e[2] = "io" /\ e[1] = connections[e[1]].client
  /\ watched' = watched \ {connections[e[1]].backend}
  /\ UNCHANGED <<file, connections, pc, conn, leaked>>

\* The client's end of stream: its socket stays open and is no longer watched.
ServeHalfCloses(e) ==
  /\ Served(e) /\ e[2] = "io" /\ e[1] = connections[e[1]].client
  /\ watched' = watched \ {e[1]}
  /\ UNCHANGED <<file, connections, pc, conn, leaked>>

Serve(e) ==
  \/ ServeListener(e) \/ ServeUnknown(e) \/ ServeRemoves(e) \/ ServeMoves(e)
  \/ ServeArmsPeer(e) \/ ServeHalfCloses(e)

LoopStep == HandleAccept \/ Poll \/ BatchEnds \/ \E e \in Events : Serve(e)

\* Another thread opens a descriptor, or closes one of its own.
Elsewhere ==
  /\ \E f \in Fds : \/ /\ Lowest(f) /\ file' = [file EXCEPT ![f] = "other"]
                       /\ Cardinality({g \in Fds : file[g] = "other"}) < MaxOthers
                    \/ file[f] = "other" /\ file' = [file EXCEPT ![f] = None]
  /\ UNCHANGED <<watched, connections, batch, pc, conn, leaked>>

Next == LoopStep \/ Elsewhere

Spec == Init /\ [][Next]_vars

-----------------------------------------------------------------------------
(* Properties.                                                             *)

Established == {connections[f] : f \in {g \in Fds : connections[g] # None}}

(***************************************************************************)
(* Whatever numbers were reused, the table is right: an entry is found     *)
(* under both sockets of its connection and nowhere else, its four         *)
(* descriptors are open for what it believes, and no other connection has  *)
(* any of them (event_loop.cpp:314-315, 483-500).                          *)
(***************************************************************************)
TableExact ==
  /\ \A f \in Fds : LET r == connections[f] IN
       r # None =>
         /\ f \in {r.client, r.backend}
         /\ connections[r.client] = r /\ connections[r.backend] = r
         /\ file[r.client] = "client" /\ file[r.backend] = "backend"
         /\ file[r.c2b] = "pipe" /\ file[r.b2c] = "pipe" /\ r.c2b # r.b2c
  /\ \A r, s \in Established : r = s \/ Of(r) \cap Of(s) = {}

(***************************************************************************)
(* Every descriptor this thread has open belongs to a listener, to a       *)
(* connection of the table or to the accept in progress, and to one of     *)
(* them only; the pipes of a connection that epoll refuses (293-312) are   *)
(* the only ones that leak.                                                *)
(***************************************************************************)
DescriptorsAccounted ==
  LET tabled == UNION {Of(r) : r \in Established} IN
  /\ {f \in Fds : file[f] \notin {None, "other"}} = Listeners \cup tabled \cup Of(conn) \cup leaked
  /\ tabled \cap Of(conn) = {} /\ leaked \cap (tabled \cup Of(conn)) = {}

(***************************************************************************)
(* The loop watches what it can serve: a watched descriptor that is in     *)
(* neither table would be reported, level-triggered, for ever and skipped  *)
(* at 141; and every connection's backend is watched, or nobody would      *)
(* notice its end (a client is not, after its half-close at 371).          *)
(***************************************************************************)
WatchedAreServed ==
  /\ \A f \in watched : \/ f \in Listeners \/ connections[f] # None
                        \/ pc = "watch2" /\ f = conn.client
  /\ \A r \in Established : r.backend \in watched

(***************************************************************************)
(* The loop never closes or takes over a descriptor another thread has     *)
(* open, although events of its batch may name it: what is closed by       *)
(* number (494-500, 262-311) is still this thread's.                       *)
(***************************************************************************)
OthersUntouched ==
  [][LoopStep => \A f \in Fds : file[f] = "other" <=> file'[f] = "other"]_vars

=============================================================================

# Formal models of the gateway

TLA+ models of the TCP gateway in `src/` (a C++17 layer-4 proxy with one epoll
loop per hardware thread, power-of-two-choices balancing, active health checks,
hot reload and an observability socket), the TLC runs that check them, and
TLAPS proofs of their central invariants.

Paths below are relative to the repository; `event_loop.cpp:152` is
`src/src/core/event_loop.cpp`, line 152.

## 1. Inventory

| part | code | state it keeps | operations |
|---|---|---|---|
| Load balancer | `routing/load_balancer.cpp` | none (reads the pool) | `choose_server` |
| Acceptance and failover | `event_loop.cpp` `handle_accept`, `socket_utils.cpp` | the pool's `active_connections`, `is_healthy`; `connections_` | accept a client, choose, charge, connect, fail over, set up, insert |
| Connection table and removal | `event_loop.cpp` `handle_disconnect`, `remove_connection` | `connections_`, `g_metrics.active_connections` | condemn, uncharge, close, erase |
| Connection relay | `event_loop.cpp` `run`, `handle_read`, `handle_write`; `data_forwarder.cpp` | two sockets, two pipes, two byte counters, epoll interest | splice in, splice on, drain, half-close, arm and disarm EPOLLOUT |
| Health checker | `core/health_checker.cpp` | `watch_sockets_`, timer, `is_healthy` | initial connects, rounds of probes, watch events, reload |
| Event queue | `observability/observer.h` | ring, `head_`, `tail_` | `push`, `pop` |
| Observability worker | `observability/observer.cpp` | list of queues, history ring of 2000, a router | drain the queues, answer GET_METRICS, GET_EVENTS, GET_TOPOLOGY |
| Hot reload | `main.cpp:158-201`, `push_new_router`, `update_router`, `apply_new_router` | one mailbox (flag, mutex, router) per worker and for the checker | parse, push, take, apply |
| Router, configuration | `routing/router.*`, `config/` | port to service table, pools of `BackendInstance` | build, resolve |
| Life cycle | `main.cpp` | `g_running`, `g_loops`, pid file | start threads, install handlers, signal, join |
| Dashboard | `dashboard/` | `gateway.yaml` on disk | relay queries, rewrite the file, SIGHUP, start and stop backends |

How they interact. Workers, health checker, observability worker and `main` are
threads of one process. Workers and checker share nothing but the two atomics of
each `BackendInstance` and `g_metrics`; there is no lock on these paths. Every
thread records events in a ring of its own, which the observability worker
drains. `main` hands new routers over through mailboxes and ends everything
through the `running_` flags. Clients and backends are reached through TCP, the
dashboard through a Unix socket, a file and a signal.

What is hard, and what makes each part correct:

* **Pool** - decisions on atomics read one after the other; a checker and several
  workers that write the same flag; failover paths that must each undo what they
  did; an accept loop that blocks. Correct when the counters are exact, when a wrong
  flag is found out, and when the work for one client always ends.
* **Relay** - level-triggered events, partial splices, half-close and reset at any
  moment between two system calls. Correct when the byte counters are the pipes'
  contents, waiting bytes always have somebody to move them, an orderly close is
  not taken for a failure, and ends of stream are passed on.
* **Event queue** - two threads without a lock over slots whose copy is not atomic.
  Correct when it is a FIFO that loses only what does not fit.
* **Reload** - routers handed over while handlers run, with raw pointers into the
  old ones. Correct when no reload is lost, the last one wins and nobody uses a
  pool that is gone.
* **Life cycle** - signals at any moment of startup. Correct when every thread
  stops and what was recorded is printed.

`PROJECT.json` lists the hazards one by one at their lines, with the property that
covers it, or with the reason why none does.

Each of these is one module or two (section 3); what is left out is in section 6.

## 2. Modules, runs and order

| order | module | runs | proofs |
|---|---|---|---|
| 1 | `BackendPool`: balancer, failover, removal, health checker | `pool_safety`, `pool_liveness`, `pool_exhausted` | `BackendPool_proofs`, `MCBackendPool_proofs` |
| 2 | `EventQueue` refining `EventFifo` | `event_queue` | `EventQueue_proofs` |
| 3 | `Relay`: data plane of one connection | `relay`, `relay_eof` | `Relay_proofs` |
| 4 | `Reload`: mailboxes, listeners, routers by generation; refines `LatestRouter` | `reload`, `reload_tracked` | `Reload_proofs` |
| 5 | `EventLoop`: descriptors, `connections_`, epoll set, reuse of numbers within a batch | `event_loop` | `EventLoop_proofs` |
| 6 | `Observer`: queues, history ring, rounds, admin socket | `observer` | `Observer_proofs` |
| 7 | `Lifecycle`: startup, signals, joins, final flush | `lifecycle`, `lifecycle_flush` | `Lifecycle_proofs` |

The modules cut the system along its interfaces. `Relay` is one connection of the
many `EventLoop` keeps; `EventLoop` is one of the workers of `BackendPool` and
`Reload`, without the counters of the first and the routers of the second;
`Observer` takes its queues to be what `EventQueue` shows them to be; `Lifecycle`
keeps of every thread only that it runs and which flag ends it.

## 3. The modules

### BackendPool

One service's pool, seen by all threads. An action is one access to a shared
atomic with the thread-local code around it; `pc[w]` is where worker `w` stands:

```
poll | accept -AcceptClient-> scan          accept -AcceptEnds-> poll
scan -ReadHealth*-> NoneHealthy -> drop -DropClient-> accept
                    TakeOnly ----------------\
                    DrawTwo -> compare -----> charge -Charge-> connect
connect -Connect-> setup -Establish-> accept      setup -SetupFails-> accept
connect -ConnectFails-> mark -MarkUnhealthy-> release -Release-> scan | drop
poll -BackendError-> condemn -> uncharge -> erase -> poll
poll -CloseConnection--------> uncharge -> erase -> poll
```

| state | code |
|---|---|
| `is_healthy`, `active_connections` | the atomics of `BackendInstance` (`router.h:11-18`) |
| `gauge` | `g_metrics.active_connections` |
| `at`, `healthy_indices`, `chosen`, `other`, `load` | locals of `choose_server` and `handle_accept` |
| `attempt` | the failover loop's variable |
| `owner`, `conn` | whose descriptor a client is, and its `Connection::backend_instance` |
| `watch_sockets` | `HealthChecker::watch_sockets_`, by descriptor |
| `watched` | the watch sockets that epoll has taken |
| `hcAt`, `hcSock` | position in `check_unhealthy_backends` and the socket `try_connect` returned |
| `up`, `ready` | the backends' real state, and watch sockets with an event pending |

Modelling decisions:

* Atomics are sequentially consistent, as the code's default order makes most of
  them; the relaxed accesses to the gauge are single read-modify-writes.
* The order in which the two loads of `load_balancer.cpp:39` are made is not
  specified by C++; the model reads `a`'s first. The pair is drawn in either order,
  so both orders of the two backends occur.
* `HcProbe` joins the flag's read (185) and the connect (186): only this thread
  ever writes true, so a flag it read as false is still false.
* `HcProbeFails` stands for a refusal, the one-second time-out and a lack of
  descriptors; therefore it is also possible when the backend is up. Likewise
  `ConnectFails`.
* `DrawTwo` makes the random draw any pair of distinct healthy indices.
* The loop of `handle_accept` is kept: every way a client ends leads to `accept`, the
  next call of `accept_client`, and only `AcceptEnds` (EAGAIN or an error, 228-236) leads
  back to `poll`. Removals begin in `poll` only.
* Whether epoll takes a watch socket is not looked at (`health_checker.cpp:70`, 192), so
  `Init` and `HcPublish` leave it open: the flag is set and `watch_sockets_` has the entry
  either way, but only a socket in `watched`, or one still to be added, ever becomes
  ready. `Deaf(b)` names a backend all of whose adds were refused.
* The initial state is what `HealthChecker::init` leaves behind: it runs to its end
  before any worker is created (`main.cpp:98-133`). Between `init` and a worker's
  first step anything in the environment may happen.
* A backend that stops closes its sockets, so watch sockets see it. Hosts that
  vanish without a FIN or RST are outside the model: the checker has no keep-alive
  and nothing in the code would notice.

### EventQueue and EventFifo

`EventFifo` says what a thread's queue promises: events come out once each, whole and
in order, and only what is recorded while `Capacity - 1` events wait is lost.
`EventQueue` is the ring of `observer.h`. Copying an `EventRecord` is split into a
beginning, after which the slot holds no whole record (`Torn`), and an end. The
refinement maps the abstract queue to the slots from `head_` to `tail_`; a push
takes effect at the store of `tail_` (or at the full check), a pop at the store of
`head_`. The accesses are in program order, which the acquire and release pairs of
the source provide.

### Relay

One connection from its registration in epoll to its removal. An action of the loop
is one system call and the code up to the next; `todo` is the list of calls still to
be made for the socket being served, built by `Dispatch` from the events as `run`
does (138-156) and extended by the calls themselves (a read that moved bytes is
followed by `forward`, one that found the end by `drain` and `eof`). `Remove` is
`remove_connection`: later calls of the batch find no connection.

The kernel is given by three operators: `Ready` (level-triggered events, EPOLLHUP
when both directions are shut or after a reset), `ReadResult` and `WriteResult`
(the outcome of a splice). They state what Linux does: a full pipe answers EAGAIN
before the socket is looked at; data come before the end of the stream; a socket
error is reported once; a reset that reaches a socket in CLOSE_WAIT is reported as
EPIPE; a splice to a socket that can no longer send raises SIGPIPE, which `main`
neither ignores nor handles. Bytes are counted in units; a socket counts as
writable when it has room for one.

Left out: the notice `DISCONNECTED` that is sent right before a removal (it uses
MSG_NOSIGNAL and the connection is closed by the same handler), metrics and log
records, and the descriptors themselves. After `Remove` nothing more happens, so
the model may stop there (`CHECK_DEADLOCK FALSE`).

What the model shows besides its properties: a drain at the end of a stream stops
at the first EAGAIN. At the backend's end (375) the connection is then removed, which
discards what is left in both pipes and whatever the client has sent that the gateway
has not read; at the client's end (367) the bytes in the pipe are stranded, because the
sending direction is shut; in the second case the next EPOLLOUT of the backend
makes `handle_write` splice into a socket after `shutdown(SHUT_WR)`, and SIGPIPE
ends the process. `status = "killed"` is reachable only after a half-close
(`NoSigpipeBeforeFin`).

### Reload and LatestRouter

`LatestRouter` says what a hot reload promises to one thread: whenever it adopts a
router, it is the last one offered; it may skip some and never goes back.

`Reload` composes the threads that take part in one. A router is known by its
generation (0 is the one of startup) and by the ports it routes.

| state | code |
|---|---|
| `file`, `writing`, `writes`, `unsignalled` | `gateway.yaml`, its rewriting in place and the SIGHUP after it (`server.js:69-92`, or an administrator) |
| `hup` | `g_reload_pending` |
| `mainPc`, `latest`, `routes`, `todo`, `to` | `main` at 158-201: its `new_router`, whom it has still to serve, whose mutex it holds |
| `observer` | `ObservabilityWorker::router_` |
| `reload_pending[r]`, `pending_router[r]` | the mailbox of event loop or checker `r` |
| `pc[r]`, `new_router[r]`, `router[r]` | the top of `run`, its local `new_router`, `router_` |
| `listeners[w]` | the ports in `listeners_` |
| `conns[w]` | the generations of the routers `w`'s connections were accepted with |

```
main      wait -TakeSignal-> parse -Parse-> push -(Push(r) PushFlag)*-> UpdateObserver -> wait
                                   -ParseFails-> wait
receiver  loop -SeeReload-> clear -ClearFlag-> take -TakeRouter-> apply -> loop
                                                         (empty) -------> loop
```

* `Push` and `PushFlag` are the two stores made with the mutex (`event_loop.cpp:165-169`,
  `health_checker.cpp:147-151`); `TakeRouter` needs it. The flag is read and cleared
  without it, so `SeeReload` and `ClearFlag` may come between. The event loops are
  served in any order among themselves, the checker after all of them.
* While the file is being written, a reader finds a beginning of it: fewer services,
  none, or something that does not parse (`Readable`). `exec('pkill ...')` is not
  waited for, so a second rewriting can begin before the first signal is sent.
* `ApplyRouter` is `EventLoop::apply_new_router`: the loop that adds (`AddedPorts`, where
  the creation of any listener may fail) and the loop that removes (`RemovedPorts`), both
  by the table of ports as it was before. Only the worker itself reads `listeners_`, so
  the call is one step. `listeners[w]` is that table: a listener that epoll refuses
  (188, not looked at) stays in it and hears nothing, and `Accept` never has to happen.
  `set_nonblocking` (184) is taken to succeed, as `fcntl` does on an open descriptor, and
  no exception is modelled. `Install` ends with the local `new_router` going out of scope.
* `ApplyChecker` is the change-over of the health checker; its probes belong to
  `BackendPool`.
* `Owners` lists who holds a `shared_ptr` to the instances of a generation: `main`'s
  first router for ever, its `new_router` during a push, the observer, and each
  receiver's router, mailbox and local. The checker's watch sockets hold instances of
  the checker's router.
* Connections are kept per generation: `Disconnect` is the end of the last one. The
  observability worker is taken to be running (`g_observer` is set).

### EventLoop

The descriptors of one worker. The kernel hands out the lowest free number, so a
number closed while a batch is being served is the first to come back: to a client
accepted later in the same batch, to its backend socket or pipes, or to another
thread (`Elsewhere`). The two ends of a pipe count as one descriptor.

| state | code |
|---|---|
| `file` | the process's descriptor table; `"other"` is another thread's |
| `watched` | the epoll set of `epoll_fd_` |
| `connections` | `connections_`, by descriptor |
| `batch` | the rest of `events[0..n-1]` in `run` |
| `pc`, `conn` | where `handle_accept` stands, and its `client_fd`, `backend_fd` and `conn` |
| `leaked` | history: pipes whose `Connection` is gone without `close_pipes` |

```
loop -Poll-> batch -ServeListener-> accept -Accept-> connect -Connect-> pipe1 -OpenPipe1->
     pipe2 -OpenPipe2-> watch1 -WatchClient-> watch2 -Register-> accept
every stage -(DropClient, OpenPipe1Fails, OpenPipe2Fails, WatchFails)-> accept -AcceptEnds-> batch
batch -(ServeUnknown, ServeRemoves, ServeMoves, ServeArmsPeer, ServeHalfCloses)-> batch -BatchEnds-> loop
```

* What `handle_read`, `handle_write` and `handle_disconnect` do to descriptors is one of
  five things: nothing, arm the peer (which puts it back into epoll if it was taken
  out), take the client out, or remove the connection. Which of them follows from the
  bytes is the subject of `Relay`.
* `listeners_` is the same throughout (a reload changes it between batches, see `Reload`),
  and adding the peer to epoll (408-418) succeeds.
* A closed socket leaves the epoll set by itself, so the `EPOLL_CTL_DEL` before each
  `close` changes nothing.
* The failed attempts of the failover loop close their own socket before the next one
  and are not seen; `Connect` is the successful one.
* `Close` closes once. `close_fd` (`socket_utils.cpp:95-99`) would call `close` again after
  EINTR, on a number that may be another thread's by then; on Linux, which the code needs
  for epoll and splice, `close` reports EINTR only for files whose driver has something
  to flush, and sockets and pipes have not. `OthersUntouched` rests on this.

What the model shows besides its properties: an event of a batch whose number has been
closed and reused is served on the connection that has the number now (`Served`). A
stale hang-up then removes the new connection, and if the number has become its backend
socket, `handle_disconnect` (472-473) takes that backend out of rotation; the table
stays right (`TableExact`) and the next probe of the checker brings the backend back
(`UpIsNoticed`).

### Observer

The observability thread against the threads that record and the clients of the admin
socket.

| state | code |
|---|---|
| `registered` | `thread_queues_` |
| `pushed`, `popped` | a queue: what it has accepted and given out; `EventQueue` shows that two counters are enough |
| `event_history_`, `history_head_`, `history_count_` | the fields of the same names |
| `log` | history: all events in the order they were taken (what is printed on stdout) |
| `pc`, `todo`, `queue`, `count`, `ready` | where `run` and `consume_events` stand |
| `client`, `asked`, `gone`, `answer` | connections to the admin socket |
| `due` | history: how much of each queue one round could take when the command was written |

* `Turn` takes the queues of a round in any order, which includes that of registration.
* `Register` needs the mutex `consume_events` holds.
* An answer is one `write` to a non-blocking socket whose result is ignored (210). A
  listing of at most `Fits` events always fits the socket's buffer; of a longer one the
  end may be lost, `answer = None`: what arrived is no JSON, `server.js` answers
  `parse_error`, and the page's feed stops for as long as the history is that long.
* The same `write` raises SIGPIPE if the client has closed its socket after writing the
  command (`AnswerNobody`): `pc = "killed"` is the end of the whole gateway.
* `GET_METRICS` and `GET_TOPOLOGY` go the same way with other data; an event whose
  metadata do not fit the 256-byte buffer of line 245 is cut and breaks the listing's
  JSON. Neither is modelled.

### Lifecycle

`main`, the threads it starts and `signal_handler`, which may run between any two steps.

| state | code |
|---|---|
| `mainPc`, `next` | where `main` stands, the loop variable of 120; or how the process ended |
| `life[t]`, `running[t]` | the threads, and `running_` of the object each runs |
| `g_running`, `g_loops` | the globals |
| `installed`, `handler` | `sigaction` done; the handler's next statement |
| `raced` | `g_loops` changes while the handler iterates over it |
| `draining`, `unread` | the observability thread between its test and `consume_events`; `main`'s events in its queue |

* `run()` sets `running_` when its thread begins. A handler that ran before is
  forgotten: `main` leaves its loop and waits in `join` for a thread that goes on.
  `ShutsDown` is therefore about a gateway that is up, and `RepeatedSignalsEnd` about
  everything before.
* `push_back` (128) may move the vector the handler reads (34). That is a data race;
  the model lets the handler then miss loops, or the process crash.
* An error return of `main` while a thread is joinable ends in `std::terminate`
  (`"aborted"`). Since the observability thread is always one of them, the message
  recorded for the error need not be printed.
* Signals do not nest: one handler runs at a time. SIGHUP only sets the flag that is
  `hup` in `Reload`. A thread leaves its loop only because of its flag; `epoll_wait`
  failing with anything but EINTR is left out.

## 4. Runs

`MCBackendPool` extends `BackendPool` with the symmetry set and the property that
sums over backends; the other runs use their module directly.

| run | instance | properties | result |
|---|---|---|---|
| `pool_safety` | 2 workers, 2 clients, 2 watch descriptors, 2 backends, symmetry | `TypeOK`, `ChargeExact`, `DownIsNoticed`, `CountersAgree`, `NeverTheBusiest` | holds, 2,091,859 states |
| `pool_liveness` | 1 worker, 1 client, 2 descriptors, 2 backends, `FairSpec` | `WorkerReturns`, `DownIsSettled`, `UpIsNoticed` | holds, 83,920 states |
| `pool_exhausted` | 1 worker, 1 client, 3 descriptors, 2 backends | `NoHealthyMissed` | violated: finding 1 |
| `event_queue` | capacity 4, 12 events, `FairSpec` | `TypeOK`, `SlotsDisjoint`, `RefinesFifo`, `AcceptedIsDelivered` | holds, 21,009 states |
| `relay` | sockets of 1 unit, pipes of 2, `FairSpec` | `TypeOK`, `PipeBytesExact`, `PendingIsArmed`, `CondemnedForReset`, `NoSigpipeBeforeFin`, `EndsByBackend`, `BackendFinEnds`, `HalfCloseReaches` | holds, 69,285 states |
| `relay_eof` | the same | `EofIsHandled` | violated: finding 2 |
| `reload` | 1 worker and the checker, 2 ports, 2 rewrites, `FairSpec` | `TypeOK`, `ListenersAreRouted`, `NoReloadLost`, `WorkersToldFirst`, `OneReloadIsSafe`, `RefinesLatest`, `Converges` | holds, 207,746 states |
| `reload_tracked` | 1 worker, 1 port, 2 rewrites | `BackendTracked` | violated: finding 3 |
| `event_loop` | 9 descriptors, 1 listener, batches of 3, 1 descriptor elsewhere | `TypeOK`, `TableExact`, `DescriptorsAccounted`, `WatchedAreServed`, `OthersUntouched` | holds, 430,987 states |
| `lifecycle` | 3 workers, `FairSpec` | `TypeOK`, `NoThreadLeft`, `ShutsDown`, `RepeatedSignalsEnd` | holds, 71,003 states |
| `lifecycle_flush` | 2 workers | `FinalEventFlushed` | violated: finding 4 |
| `observer` | 2 recorders of 3 events, queues of 2, rounds of 1, history of 2, 1 client, `FairSpec` | `TypeOK`, `ListingIsRecent`, `AnswersAreFresh`, `RecordsAreTaken` | holds, 228,894 states |

Why the bounds are enough. Two backends make the balancer draw, fail over once and
run out; two workers and two clients let every pair of handlers meet on one
counter; two watch descriptors let a backend be watched twice, or two backends
once each while no descriptor is left (three in `pool_exhausted`, because the
repeated publication needs a second probe of a watched backend). In `pool_liveness`
one client suffices: it connects again as soon as it is closed, so that an accept loop
that never ends occurs, and flags are a matter between one worker and the checker.
Symmetry is used only in the safety run. A ring of capacity 4 has three usable slots, and twelve
events take its indices round three times, with the full and the empty ring at
every position. A pipe of two units between sockets of one gives partial splices
(a pipe emptied by half), full pipes, full sockets and empty ones in every
combination; `SockCap = 2` was checked as well, with the same result. Two
rewrites are what the order of reloads needs: one reload under way when the next
signal comes, or when the file is being written again; two ports let a port be kept
while another comes or goes. Two workers with one port were checked as well, with
the same result (488,680 states).
Nine descriptors are a listener and two complete connections, so that one can be
removed and another accepted on its numbers within a batch of three events, with
another thread competing for them and with none left (EMFILE). Three workers let the
handler find one loop running, one created and one not yet in `g_loops`. Two
recorders of three events each fill queues of two, need more than one round, and go
round a history of two three times, with listings above and below the size that always
fits.

Cutting behaviour: `MaxEvents` (of `EventQueue`), `SockCap`, `MaxWrites`, `MaxRecords` and
`MaxOthers`; all other constants are parameters of the code or of the kernel. The guard of
`Parse` that keeps generations below `MaxWrites` cuts nothing off: it follows from the bound on
rewritings (`ParseIsNeverCutOff`).

Each property has a mutant in `PROJECT.json`: a deviation of one mapped definition
(the definitions commented "Deviation", never used by `Next`) that makes the run fail.

Fairness, where a run needs it: threads are scheduled (`WF` of a worker's steps, of
the checker's round, of `LoopStep`, of a begun push and of the observer's pops);
blocking calls return, as the kernel's connect time-outs ensure; `accept_client`, which
does not block, answers (`WF` of `AcceptEnds`: with a client, which is another step, or
without); the timer fires; and `epoll_wait`, which reports ready descriptors in turn, does not pass over
a ready watch socket for ever (`SF` of `HcEvent`, since rounds of probes interrupt
the waiting). In `Relay` both sides keep reading what reaches them; without that a
client that never reads keeps its connection for ever, which is what TCP gives.
Nothing obliges clients and backends to connect, send, close, start or stop. In
`Reload` the threads run (`WF` of `main`'s step and of each receiver's), and who has
begun to rewrite the file completes it and sends the signal; without that the
gateway keeps what it read from the unfinished file. In `Lifecycle` every thread, `main`
and a handler that has begun are scheduled; nobody is obliged to send a signal. In
`Observer` the observability thread is scheduled and nothing else is.

### Findings

1. `pool_exhausted`. `event_loop.cpp:259-260` logs that all backends are exhausted
   and none is healthy. The loop counts attempts, not backends: if the checker
   republishes the backend just marked, the next attempt may be spent on it again,
   and a healthy backend seen by the last scan is never tried.
2. `relay_eof`. The comment at `event_loop.cpp:152` leaves a hang-up with pending
   data to a later iteration. With a full backend-to-client pipe and a half-closed
   client, the EPOLL_CTL_DEL at 371 has dropped the client's EPOLLOUT; `handle_read`
   then gets EAGAIN for ever, the loop spins and the connection stays.
3. `reload_tracked`. `Connection::backend_instance` (`event_loop.h:23`) is a raw
   pointer that nothing keeps alive. `main` never replaces its own first router, so
   connections from before the first reload stay safe (`OneReloadIsSafe`); a
   connection accepted with generation 1 that outlives the second reload has a
   pointer to an instance that is gone, and its removal uses it.
4. `lifecycle_flush`. The pause of `main.cpp:218-219` is to let the observability thread
   flush the last event, but the handler stops that thread before the event loops
   that `main` joins first; with the thread ended, "gateway shut down." stays in the
   queue.

A gap no run is spent on: `EventLoop` is described as "one listener per route"
(`event_loop.cpp:1`) and `init` enforces it; `apply_new_router` (183) passes over a failed
`create_listener` without a message, while `main` reports "Listening on ->" for the port.

## 5. Proofs

TLC checks the instances above; TLAPS proves the following for every value of the
constants that satisfies the modules' assumptions (`NumBackends` a natural number,
zero included; finitely many workers, clients and descriptors; `None` none of them; a
capacity of at least two; `Checker` no worker, `MaxWrites` a natural number, `Malformed`
no set of ports; at least one worker in `Lifecycle`, any positive sizes in `Observer`,
descriptors that are numbers in `EventLoop`; names that differ). Nothing else is assumed:
those parameters not said to be finite may be infinite.

Every safety invariant and action property of the passing runs is proved, and so is the
refinement of both abstract specifications. Beyond them some theorems state properties that no
run lists, because their proof says more than one more instance would; TLC checked them on
the runs' instances before they were proved. Those called the safety half of a liveness
property say all of it that needs no fairness: what is on its way stays on its way, and what
counts down is never wound up again.

`BackendPool_proofs`

* `TypeCorrect`: `Spec => []TypeOK`. `TypeOK` alone is not inductive: `Charge`
  indexes `active_connections` by `chosen[w]`, which may be `None`. `Inv` adds
  `LocalsInv` (what a thread's locals hold at each program counter: `chosen` is a
  backend from `charge` on, `attempt` is below `NumBackends` while attempts go on,
  a probe in flight belongs to a round) and `TableInv` (a worker's current client
  belongs to it; it has no connection yet in an accept, and the one to `chosen` in
  a removal).
* `ChargesAreExact`: `Spec => []ChargeExact`. By `Inv`, a client is charged to at
  most one backend and by at most one worker. Each action leaves the set of clients
  charged to a backend alone, or adds or removes exactly the current client,
  together with the counter; `FiniteSetTheorems` gives the cardinalities.
* `DeathsAreNoticed`: `Spec => []DownIsNoticed`. The strengthening `WatchInv` says that
  every healthy backend has a watch socket and that every watch socket epoll has taken
  is ready once its backend has stopped; it says the same of the socket of a probe in
  flight, whose backend may stop before the publication. What epoll has refused is
  left out by `Deaf`, since the code does not look.
* `TheBusiestIsSpared`: `Spec => NeverTheBusiest`, for any number of workers. `PickInv` says that the
  two candidates are different members of the scan's result when they are compared; all
  other threads leave these locals alone. The property asks only that the first load still
  holds: when another worker has moved it, the choice can be the busiest of all.
* `HandlersAreFinite`: `Spec => HandlersWearOut`, the safety half of `WorkerReturns`, for one client or one
  removal; how many clients `handle_accept` goes on to is not bounded. `Budget(w)`
  counts the steps worker `w` may still take for its client: those of the attempt under
  way (`StepsLeft`) and `NumBackends + 8` for each that may follow. Each step of its own lowers
  it, no step of any other thread changes it. A checker that republishes the backend that
  just failed can make an attempt useless (finding 1), not the loop longer.

`MCBackendPool_proofs`

* `CountersNeverDrift`: `Spec => []CountersAgree`. The stronger `GaugeIsExact` says what the gauge is
  at every moment: the number of established connections. The backends' counters differ from it
  by the charges of handlers under way; with all workers in `epoll_wait` there are none, and the
  sum of what `ChargeExact` counts for each backend is that number (`TotalIsCharged`). The sum is a
  fold of the community modules; what it computes on every finite set (`SumsUnique`, `SumIs`) is an
  induction over sets, done by a minimal counterexample with
  `FS_StrictSubsetOrderingWellFounded`.

`EventQueue_proofs`

* `TypeCorrect`, `SlotsStayDisjoint`: the inductive invariant says what each thread
  knows between its accesses: past its check the producer still has
  `NextIndex(tail_) # head_`, since only the consumer moves `head_`, and away from
  `tail_`; past its check the consumer still has `head_ # tail_`, and its copy is
  the slot's content.
* `RingImplementsFifo`: `Spec => RefinesFifo`. A publication appends to `Waiting`, an
  advance takes its head, a full check corresponds to a record that is lost, and
  every other step leaves `Waiting` alone, because the slot being written is outside
  the used range. `InitIsFifoInit` and `StepIsFifoStep` are the two halves.
* `EventsComeOutInOrder`: `Spec => []DeliveredInOrder`. `OrderInv` (delivered and waiting together are
  increasing, and recorded) is shown of the steps of `EventFifo` and holds of the ring because
  each of its steps is one of those.
* `AcceptedIsKept`: `Spec => KeptUntilTaken`, the safety half of `AcceptedIsDelivered`: a producer that laps
  the consumer overwrites nothing that waits.

`Reload_proofs` (any number of workers, ports and rewrites)

* `TypeCorrect`, `ReloadsAreKept`: inductive as they stand, the second with the types.
* `MailboxIsLatestRouter`: `Spec => RefinesLatest`. `Offered(r)` and `Adopted(r)` read
  a receiver's state as one pair of generations. `PushInv` says that during a push
  the receivers not yet served lag behind `latest` by exactly one, so that a push
  offers the next generation; `MailboxSteps` shows that every step of the system is,
  for each receiver, an offer, an adoption or a stutter.
* `ListenersHaveRoutes`: a router never changes after it is built. That needs
  `router[w] <= latest`, hence `OrderInv` (`router <= Adopted <= Offered`).
* `CheckerIsLast`: `PushInv` again: while any loop lags, the checker does.
* `FirstReloadIsSafe`: connections are no newer than their worker's router
  (`OrderInv`), so with at most one reload they belong to generation 0, which `main`
  owns, or to the worker's own router.
* `NothingStaleIsLeft`: `Spec => []QuietIsCurrent`, the safety half of `Converges`: when nobody has
  anything left to do, every thread uses the file's configuration, whatever `main` read
  of it half written. `FileInv` says that a file `main` has not read, or read too early, has its
  signal still to come; `ObserverInv` that the observer lags only during a push; `PushInv`
  and `NoReloadLost` give the same for the receivers. `CountInv` bounds the generations by the
  rewritings, without which `Parse`'s bound could have swallowed the last reload.

`Relay_proofs` (all sizes of pipes and sockets)

* `CountersAreExact` is inductive with the types.
* `WaitingBytesAreArmed`: `ArmedInv` says the same between any two system calls, and exempts
  only the pipe `handle_read` is about to empty (`First("forward")`). It leans on `TodoInv`:
  `forward`, `drain` and `eof` are never behind another call in the list.
* `OnlyResetsCondemn`: `ResetInv`. The backend's EPOLLIN stays armed, so its orderly end is
  always reported with it and passed over (151-153); what reaches `handle_disconnect` is
  a reset.
* `SigpipeNeedsFin`: `EndInv` and `NoFinInv`. Before any FIN a reset socket still has its error
  to report, nothing has been shut, and no end of stream is being handled, so the first
  call to meet the reset ends the connection.
* `OnlyTheBackendEnds`: `Spec => []EndsByBackend`. `ReadOutInv` holds from the splice that returned 0
  through the drain to what is done about the end: nothing more can arrive then.
  `ClientHangInv` says that a client's socket hangs up only after a reset, since the
  gateway never shuts that direction itself. `RemovalCause` goes through every call of
  `remove_connection`: behind each is a reset or the backend's stream, read out.

`EventLoop_proofs` (any descriptors, listeners and batches)

* `TableIsExact`, `NothingElseLeaks`, `WatchedIsServed` need each other (`EntryInv`, `DisjointInv`,
  `OpenInv`, `WatchInv`, and `RolesInv` for what the accept in progress holds): that a new connection
  shares no descriptor with an old one follows from `Lowest` and from all descriptors
  in use being open. What a stale event names plays no part, because removal goes through
  the table.
* `OthersAreLeftAlone` from the same invariant: whatever the loop closes is its own.
* `TableChangesByConnections`: `Spec => WholeConnections`. That `Register` overwrites no entry
  (`RegisterAdds`) and a removal takes both of one connection and of no other
  (`RemoveTakesOne`) is what `TableInv` and `DisjointInv` say before the step.

`Lifecycle_proofs` (any number of workers)

* `ThreadsAreJoined`, with `StartInv`: while loops are being started the next one is a
  worker, and its thread is created only once the loop is in `g_loops`. A thread that has
  ended never comes back to life.
* `OneSignalStopsAll`: `Spec => SignalSuffices`, the safety half of `ShutsDown`. A signal that meets a
  gateway with all threads running enters the region `Stopping` (`SignalMeetsAll`), which no step
  leaves (`StoppingStays`): all flags are down, or a handler is under way that has seen to the flags
  before its next statement (`Told`) and reaches the rest. `OrderInv` shows that startup is over by
  then, so that no thread begins and raises its flag again (`FlagsOnlyFall`), and that `g_loops`
  is no longer changed under the handler's eyes. What fairness adds is that the handler
  goes on and each thread looks at its flag.

`Observer_proofs` (all sizes)

* `ListingIsTheEndOfTheLog`: until the ring is full its head is its count (`RingInv`); then the
  listing starts at the head, which is the slot overwritten next. `Modulo` does the
  arithmetic of the wrap.
* `AnswersAreNeverStale`: `DueInv` follows a request through a round: of each queue, what is
  due has been taken, or the queue's turn is still to come, or it is its turn and the
  rest of the round is long enough. `LogInv` finds what was taken in the log, and
  `ListingIsRecent` what of the log is shown.
* `ThreadsAreListedInOrder`: `Spec => []ListedInOrder`. `LogOrderInv` keeps each thread's events in the
  log increasing; with `LogInv` (all that was taken is there) the end of the log that is
  listed has no gap in any thread's events.

Only model-checked: liveness, since fairness is stated with ENABLED, which is outside what the
installed provers do: `WorkerReturns`, `DownIsSettled`, `UpIsNoticed`, `AcceptedIsDelivered`,
`BackendFinEnds`, `HalfCloseReaches`, `Converges`, `ShutsDown`, `RepeatedSignalsEnd` and `RecordsAreTaken`. The
four properties the findings refute are not theorems; what holds in their place is
`OneReloadIsSafe` for finding 3 and, for finding 1, that the failover of each client ends all
the same (`HandlersWearOut`).

## 6. Not modelled

* What `HealthChecker::apply_new_router` does to the flags of the new pool while workers
  already use it. It needs a pool of two generations, which is beyond a model TLC can
  finish together with `BackendPool`'s interleavings. The counters of `CountersAgree` are
  therefore those of one router's pool.
* The pid file (`main.cpp:41-63`, 226). It is sequential code on a file that any process may
  write: a number left by a crash may belong to another process by now, which is then
  sent SIGTERM and SIGKILL, and two gateways started together do not see each other.
* The routing of two services to one port (`router.cpp:24`): the later entry wins.
* The page's feed (`app.js:98-102`), which shows an event only if it is newer than the last
  one shown, although the listing is ordered by queues and rounds.
* YAML parsing (yaml-cpp), JSON formatting, terminal colours, the dashboard's page.
* `dashboard/server.js`, except for its rewriting of the configuration, the environment
  of `Reload`.
* The kernel, beyond what the operators of `Relay` and the environment actions of
  `BackendPool` say.

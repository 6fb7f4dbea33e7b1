------------------------------ MODULE Lifecycle ------------------------------
(***************************************************************************)
(* The life of the gateway process: main starts the observability thread,  *)
(* the health checker and one event loop per processor, waits, and joins   *)
(* them in the opposite order of their use; SIGINT or SIGTERM, at any      *)
(* moment and again, runs signal_handler, which clears the flags the       *)
(* threads' loops test.  Each run() sets its own flag when its thread      *)
(* begins, also if the flag had been cleared before.                       *)
(***************************************************************************)
EXTENDS Naturals

CONSTANTS
  NumWorkers,         \* hardware_concurrency(), at least 1
  Observer, Checker   \* obs_thread, health_thread

ASSUME NumWorkersAssumption == NumWorkers \in Nat \ {0}

Workers == 1..NumWorkers
Threads == {Observer, Checker} \cup Workers

ASSUME ThreadsAssumption == Observer # Checker /\ Observer \notin Workers /\ Checker \notin Workers

VARIABLES
  mainPc,     \* where main stands, or how the process ended
  next,       \* the event loop main is starting
  life,       \* of each thread: "none", "created", "running", "ended"
  running,    \* running_ of the object each thread runs
  g_running,
  g_loops,    \* the event loops the handler knows
  installed,  \* sigaction has been called
  handler,    \* "idle", or the next statement of signal_handler
  raced,      \* g_loops was changed while the handler went through it
  draining,   \* the observability thread is past its test of running_
  unread      \* events of main that wait in its queue

flags    == <<running, g_running>>
sig    == <<handler, raced>>
vars   == <<mainPc, next, life, flags, g_loops, installed, sig, draining, unread>>

Ended   == {"done", "failed", "aborted", "killed", "crashed"}
Lives   == {"none", "created", "running", "ended"}
Alive   == mainPc \notin Ended

TypeOK ==
  /\ mainPc \in Ended \cup {"observer", "parse", "checker", "handlers", "init", "pushing", "thread", "report",
                            "loop", "join", "stop", "joinChecker", "final", "joinObserver"}
  /\ next \in 1..(NumWorkers + 1)
  /\ life \in [Threads -> Lives]
  /\ running \in [Threads -> BOOLEAN] /\ g_running \in BOOLEAN
  /\ g_loops \subseteq Workers /\ installed \in BOOLEAN
  /\ handler \in {"idle", "g_running", "checker", "observer", "loops", "iterating"}
  /\ raced \in BOOLEAN /\ draining \in BOOLEAN
  /\ unread \subseteq {"started", "shut down"}
  /\ mainPc \in {"init", "pushing", "thread"} => next \in Workers

Init ==
  /\ mainPc = "observer" /\ next = 1
  /\ life = [t \in Threads |-> "none"]
  /\ running = [t \in Threads |-> FALSE] /\ g_running = TRUE
  /\ g_loops = {} /\ installed = FALSE /\ handler = "idle" /\ raced = FALSE
  /\ draining = FALSE /\ unread = {}

-----------------------------------------------------------------------------
(* main.                                                                   *)

Step(from, to) == mainPc = from /\ mainPc' = to
Create(t)      == life' = [life EXCEPT ![t] = "created"]
Observed       == life[Observer] # "none"  \* g_observer is set

\* observer->init(); without it the gateway runs unobserved.
StartObserver ==
  /\ Step("observer", "parse")
  /\ UNCHANGED life \/ Create(Observer)
  /\ UNCHANGED <<next, flags, g_loops, installed, sig, draining, unread>>

Parse ==
  /\ Step("parse", "checker")
  /\ UNCHANGED <<next, life, flags, g_loops, installed, sig, draining, unread>>

StartChecker ==
  /\ Step("checker", "handlers") /\ Create(Checker)
  /\ UNCHANGED <<next, flags, g_loops, installed, sig, draining, unread>>

InstallHandlers ==
  /\ Step("handlers", "init") /\ installed' = TRUE
  /\ UNCHANGED <<next, life, flags, g_loops, sig, draining, unread>>

\* return 1 with a joinable thread alive ends in std::terminate, the error unread.
StartFails ==
  /\ mainPc \in {"parse", "checker", "init"}
  /\ mainPc' = IF \A t \in Threads : life[t] = "none" THEN "failed" ELSE "aborted"
  /\ UNCHANGED <<next, life, flags, g_loops, installed, sig, draining, unread>>

\* g_loops.push_back, which may move the vector.
PushBegin ==
  /\ Step("init", "pushing") /\ raced' = (handler = "iterating")
  /\ UNCHANGED <<next, life, flags, g_loops, installed, handler, draining, unread>>

PushEnd ==
  /\ Step("pushing", "thread") /\ g_loops' = g_loops \cup {next}
  /\ UNCHANGED <<next, life, flags, installed, sig, draining, unread>>

\* Deviation: one event loop too many.
StartOneMore ==
  /\ mainPc = "thread" /\ Create(next)
  /\ next' = next + 1 /\ mainPc' = IF next > NumWorkers THEN "report" ELSE "init"
  /\ UNCHANGED <<flags, g_loops, installed, sig, draining, unread>>

StartWorker ==
  /\ mainPc = "thread" /\ Create(next)
  /\ next' = next + 1 /\ mainPc' = IF next = NumWorkers THEN "report" ELSE "init"
  /\ UNCHANGED <<flags, g_loops, installed, sig, draining, unread>>

Record(event) == unread' = IF Observed THEN unread \cup {event} ELSE unread

Report ==
  /\ Step("report", "loop") /\ Record("started")
  /\ UNCHANGED <<next, life, flags, g_loops, installed, sig, draining>>

LeaveLoop ==
  /\ Step("loop", "join") /\ ~g_running
  /\ UNCHANGED <<next, life, flags, g_loops, installed, sig, draining, unread>>

\* Deviation: the last event loop is not waited for.
JoinFirstWorkers ==
  /\ Step("join", "stop") /\ \A w \in Workers \ {NumWorkers} : life[w] = "ended"
  /\ UNCHANGED <<next, life, flags, g_loops, installed, sig, draining, unread>>

JoinWorkers ==
  /\ Step("join", "stop") /\ \A w \in Workers : life[w] = "ended"
  /\ UNCHANGED <<next, life, flags, g_loops, installed, sig, draining, unread>>

StopChecker ==
  /\ Step("stop", "joinChecker") /\ running' = [running EXCEPT ![Checker] = FALSE]
  /\ UNCHANGED <<next, life, g_running, g_loops, installed, sig, draining, unread>>

JoinChecker ==
  /\ Step("joinChecker", "final") /\ life[Checker] = "ended"
  /\ UNCHANGED <<next, life, flags, g_loops, installed, sig, draining, unread>>

\* "gateway shut down.", and 100 ms in which the observability thread may or may not run.
RecordFinal ==
  /\ Step("final", "joinObserver") /\ Record("shut down")
  /\ UNCHANGED <<next, life, flags, g_loops, installed, sig, draining>>

JoinObserver ==
  /\ Step("joinObserver", "done") /\ life[Observer] \in {"none", "ended"}
  /\ UNCHANGED <<next, life, flags, g_loops, installed, sig, draining, unread>>

MainStep ==
  \/ StartObserver \/ Parse \/ StartChecker \/ InstallHandlers \/ StartFails \/ PushBegin \/ PushEnd \/ StartWorker
  \/ Report \/ LeaveLoop \/ JoinWorkers \/ StopChecker \/ JoinChecker \/ RecordFinal \/ JoinObserver

-----------------------------------------------------------------------------
(* The threads: run() sets its flag and loops while it is set.             *)

Set(t, on) == running' = [running EXCEPT ![t] = on]

Begins(t) ==
  /\ Alive /\ life[t] = "created" /\ life' = [life EXCEPT ![t] = "running"] /\ Set(t, TRUE)
  /\ UNCHANGED <<mainPc, next, g_running, g_loops, installed, sig, draining, unread>>

Ends(t) ==
  /\ Alive /\ life[t] = "running" /\ ~running[t] /\ ~(t = Observer /\ draining)
  /\ life' = [life EXCEPT ![t] = "ended"]
  /\ UNCHANGED <<mainPc, next, flags, g_loops, installed, sig, draining, unread>>

\* A round: the flag is tested before epoll_wait, the queues are emptied after it.
ObserverTests ==
  /\ Alive /\ life[Observer] = "running" /\ ~draining /\ running[Observer] /\ draining' = TRUE
  /\ UNCHANGED <<mainPc, next, life, flags, g_loops, installed, sig, unread>>

ObserverDrains ==
  /\ Alive /\ life[Observer] = "running" /\ draining /\ draining' = FALSE /\ unread' = {}
  /\ UNCHANGED <<mainPc, next, life, flags, g_loops, installed, sig>>

ThreadStep(t) == Begins(t) \/ Ends(t) \/ (t = Observer /\ (ObserverTests \/ ObserverDrains))

-----------------------------------------------------------------------------
(* Signals.                                                                *)

\* Before sigaction the default action ends the process.
KilledEarly ==
  /\ Alive /\ ~installed /\ mainPc' = "killed"
  /\ UNCHANGED <<next, life, flags, g_loops, installed, sig, draining, unread>>

Signal ==
  /\ Alive /\ installed /\ handler = "idle" /\ handler' = "g_running"
  /\ UNCHANGED <<mainPc, next, life, flags, g_loops, installed, raced, draining, unread>>

HandlerAt(from, to) ==
  /\ Alive /\ handler = from /\ handler' = to
  /\ UNCHANGED <<mainPc, next, life, g_loops, installed, draining, unread>>

StopMain == HandlerAt("g_running", "checker") /\ g_running' = FALSE /\ UNCHANGED <<running, raced>>

HandlerStopsChecker == HandlerAt("checker", "observer") /\ Set(Checker, FALSE) /\ UNCHANGED <<g_running, raced>>

\* Deviation: the observability thread is left running.
HandlerSparesObserver == HandlerAt("observer", "loops") /\ UNCHANGED <<flags, raced>>

HandlerStopsObserver ==
  /\ HandlerAt("observer", "loops") /\ UNCHANGED <<g_running, raced>>
  /\ IF Observed THEN Set(Observer, FALSE) ELSE UNCHANGED running

HandlerIterates == HandlerAt("loops", "iterating") /\ raced' = (mainPc = "pushing") /\ UNCHANGED flags

\* Deviation: the last event loop is forgotten.
StopFirstLoops ==
  /\ HandlerAt("iterating", "idle") /\ raced' = FALSE /\ UNCHANGED g_running
  /\ running' = [t \in Threads |-> running[t] /\ t \notin g_loops \ {NumWorkers}]

\* Without a race every loop in g_loops is told; with one, any of them.
StopLoops ==
  /\ HandlerAt("iterating", "idle") /\ raced' = FALSE /\ UNCHANGED g_running
  /\ \E told \in SUBSET g_loops :
       /\ ~raced => told = g_loops
       /\ running' = [t \in Threads |-> running[t] /\ t \notin told]

\* Reading a vector that is being moved may also end the process.
Crash ==
  /\ Alive /\ handler = "iterating" /\ raced /\ mainPc' = "crashed"
  /\ UNCHANGED <<next, life, flags, g_loops, installed, sig, draining, unread>>

HandlerStep ==
  StopMain \/ HandlerStopsChecker \/ HandlerStopsObserver \/ HandlerIterates \/ StopLoops \/ Crash

Next == MainStep \/ (\E t \in Threads : ThreadStep(t)) \/ KilledEarly \/ Signal \/ HandlerStep

Spec == Init /\ [][Next]_vars

\* Every thread is scheduled, and so is the handler once it has begun.
Fairness ==
  /\ WF_vars(MainStep) /\ WF_vars(HandlerStep)
  /\ \A t \in Threads : WF_vars(ThreadStep(t))

FairSpec == Spec /\ Fairness

-----------------------------------------------------------------------------
(* Properties.                                                             *)

(***************************************************************************)
(* What main takes apart nobody uses any more: the event loops have ended  *)
(* before the health checker is waited for, the checker before the last    *)
(* event is recorded, and all of them when main returns 0 (203-227).  And  *)
(* every loop that runs is one the handler can reach (128-131).            *)
(***************************************************************************)
NoThreadLeft ==
  /\ mainPc \in {"stop", "joinChecker", "final", "joinObserver", "done"} => \A w \in Workers : life[w] = "ended"
  /\ mainPc \in {"final", "joinObserver", "done"} => life[Checker] = "ended"
  /\ mainPc = "done" => life[Observer] \in {"none", "ended"}
  /\ \A w \in Workers : life[w] # "none" => w \in g_loops

AllRunning ==
  /\ \A t \in Threads \ {Observer} : life[t] = "running"
  /\ life[Observer] \in {"none", "running"}

(***************************************************************************)
(* Once every thread runs, one signal is enough: main returns 0.           *)
(***************************************************************************)
ShutsDown == AllRunning /\ handler = "g_running" ~> mainPc = "done"

(***************************************************************************)
(* During startup one signal may be lost on a thread that has not begun    *)
(* (event_loop.cpp:106) or on a loop not yet in g_loops, and main then     *)
(* waits in join; but whoever keeps signalling ends the process.           *)
(***************************************************************************)
RepeatedSignalsEnd == []<><<Signal>>_vars => <>(mainPc \in Ended)

(***************************************************************************)
(* "Give observer thread a tiny moment to flush events" (main.cpp:218):    *)
(* when main returns 0 with an observability thread, its events have been  *)
(* taken from its queue.                                                   *)
(***************************************************************************)
FinalEventFlushed == mainPc = "done" => unread = {}

=============================================================================

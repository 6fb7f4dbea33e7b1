--------------------------- MODULE Lifecycle_proofs ---------------------------
(***************************************************************************)
(* Invariance proofs for Lifecycle, for any number of event loops and any  *)
(* number of signals at any moment.                                        *)
(***************************************************************************)
EXTENDS Lifecycle, TLAPS

\* Until the last event loop has been started, next is one of them, and a loop is known to the
\* handler before it has a thread.
StartInv ==
  /\ mainPc \in {"observer", "parse", "checker", "handlers", "init", "pushing", "thread"} => next \in Workers
  /\ mainPc = "thread" => next \in g_loops

Inv == TypeOK /\ StartInv /\ NoThreadLeft

USE NumWorkersAssumption, ThreadsAssumption DEF Threads, Workers, Lives, Ended

LEMMA InitInv == Init => Inv
<1> SUFFICES ASSUME Init PROVE Inv OBVIOUS
<1> USE DEF Init
<1>1. next \in 1..(NumWorkers + 1) /\ next \in Workers OBVIOUS
<1>2. TypeOK BY <1>1, ZenonT(60) DEF TypeOK
<1>3. StartInv BY <1>1 DEF StartInv
<1>4. NoThreadLeft BY DEF NoThreadLeft
<1>5. QED BY <1>2, <1>3, <1>4 DEF Inv

\* A step of main.
LEMMA MainInv == Inv /\ MainStep => Inv'
<1> SUFFICES ASSUME Inv, MainStep PROVE Inv' OBVIOUS
<1> USE DEF Inv, Step, Create
<1>1. CASE StartObserver BY <1>1 DEF StartObserver, TypeOK, StartInv, NoThreadLeft, flags, sig
<1>2. CASE Parse BY <1>2 DEF Parse, TypeOK, StartInv, NoThreadLeft, flags, sig
<1>3. CASE StartChecker BY <1>3 DEF StartChecker, TypeOK, StartInv, NoThreadLeft, flags, sig
<1>4. CASE InstallHandlers BY <1>4 DEF InstallHandlers, TypeOK, StartInv, NoThreadLeft, flags, sig
<1>5. CASE StartFails BY <1>5 DEF StartFails, TypeOK, StartInv, NoThreadLeft, flags, sig
<1>6. CASE PushBegin BY <1>6 DEF PushBegin, TypeOK, StartInv, NoThreadLeft, flags, sig
<1>7. CASE PushEnd BY <1>7 DEF PushEnd, TypeOK, StartInv, NoThreadLeft, flags, sig
<1>8. CASE StartWorker
  <2> USE <1>8 DEF StartWorker, flags, sig
  <2>1. next \in Workers /\ next \in g_loops BY DEF TypeOK, StartInv
  <2>2. next' \in 1..(NumWorkers + 1) /\ (mainPc' \in {"init", "pushing", "thread"} => next' \in Workers)
    BY <2>1
  <2>3. mainPc' \in {"report", "init"} OBVIOUS
  <2>4. life' \in [Threads -> Lives] BY <2>1 DEF TypeOK
  <2>5. TypeOK' BY <2>2, <2>3, <2>4, ZenonT(60) DEF TypeOK
  <2>6. StartInv' BY <2>1 DEF StartInv
  <2>7. NoThreadLeft' BY <2>1 DEF TypeOK, NoThreadLeft
  <2>8. QED BY <2>5, <2>6, <2>7
<1>9. CASE Report BY <1>9 DEF Report, Record, TypeOK, StartInv, NoThreadLeft, flags, sig
<1>10. CASE LeaveLoop BY <1>10 DEF LeaveLoop, TypeOK, StartInv, NoThreadLeft, flags, sig
<1>11. CASE JoinWorkers BY <1>11 DEF JoinWorkers, TypeOK, StartInv, NoThreadLeft, flags, sig
<1>12. CASE StopChecker BY <1>12 DEF StopChecker, TypeOK, StartInv, NoThreadLeft, flags, sig
<1>13. CASE JoinChecker BY <1>13 DEF JoinChecker, TypeOK, StartInv, NoThreadLeft, flags, sig
<1>14. CASE RecordFinal BY <1>14 DEF RecordFinal, Record, TypeOK, StartInv, NoThreadLeft, flags, sig
<1>15. CASE JoinObserver BY <1>15 DEF JoinObserver, TypeOK, StartInv, NoThreadLeft, flags, sig
<1>16. QED
  BY <1>1, <1>2, <1>3, <1>4, <1>5, <1>6, <1>7, <1>8, <1>9, <1>10, <1>11, <1>12, <1>13, <1>14, <1>15
  DEF MainStep

\* A thread never leaves "ended", and begins only once created.
LEMMA ThreadInv == ASSUME NEW t \in Threads PROVE Inv /\ ThreadStep(t) => Inv'
<1> SUFFICES ASSUME Inv, ThreadStep(t) PROVE Inv' OBVIOUS
<1> USE DEF Inv, Set
<1>1. CASE Begins(t)
  <2> USE <1>1 DEF Begins, flags, sig
  <2>0. life' \in [Threads -> Lives] /\ running' \in [Threads -> BOOLEAN] BY DEF TypeOK
  <2>1. TypeOK' BY <2>0, ZenonT(60) DEF TypeOK
  <2>2. StartInv' BY DEF StartInv
  <2>3. NoThreadLeft' BY DEF TypeOK, NoThreadLeft
  <2>4. QED BY <2>1, <2>2, <2>3
<1>2. CASE Ends(t)
  <2> USE <1>2 DEF Ends, flags, sig
  <2>0. life' \in [Threads -> Lives] BY DEF TypeOK
  <2>1. TypeOK' BY <2>0, ZenonT(60) DEF TypeOK
  <2>2. StartInv' BY DEF StartInv
  <2>3. NoThreadLeft' BY DEF TypeOK, NoThreadLeft
  <2>4. QED BY <2>1, <2>2, <2>3
<1>3. CASE ObserverTests
  <2> USE <1>3 DEF ObserverTests, flags, sig
  <2>1. TypeOK' BY ZenonT(60) DEF TypeOK
  <2>2. StartInv' BY DEF StartInv
  <2>3. NoThreadLeft' BY DEF TypeOK, NoThreadLeft
  <2>4. QED BY <2>1, <2>2, <2>3
<1>4. CASE ObserverDrains
  <2> USE <1>4 DEF ObserverDrains, flags, sig
  <2>1. TypeOK' BY ZenonT(60) DEF TypeOK
  <2>2. StartInv' BY DEF StartInv
  <2>3. NoThreadLeft' BY DEF TypeOK, NoThreadLeft
  <2>4. QED BY <2>1, <2>2, <2>3
<1>5. QED BY <1>1, <1>2, <1>3, <1>4 DEF ThreadStep

\* The handler changes flags only, and a signal may end the process.
LEMMA SignalInv == Inv /\ (KilledEarly \/ Signal \/ HandlerStep) => Inv'
<1> SUFFICES ASSUME Inv, KilledEarly \/ Signal \/ HandlerStep PROVE Inv' OBVIOUS
<1> USE DEF Inv, HandlerAt, Set
<1>1. CASE KilledEarly BY <1>1 DEF KilledEarly, TypeOK, StartInv, NoThreadLeft, flags, sig
<1>2. CASE Signal BY <1>2 DEF Signal, TypeOK, StartInv, NoThreadLeft, flags
<1>3. CASE StopMain BY <1>3 DEF StopMain, TypeOK, StartInv, NoThreadLeft
<1>4. CASE HandlerStopsChecker
  <2> USE <1>4 DEF HandlerStopsChecker
  <2>1. TypeOK' BY ZenonT(60) DEF TypeOK
  <2>2. StartInv' BY DEF StartInv
  <2>3. NoThreadLeft' BY DEF TypeOK, NoThreadLeft
  <2>4. QED BY <2>1, <2>2, <2>3
<1>5. CASE HandlerStopsObserver
  <2> USE <1>5 DEF HandlerStopsObserver
  <2>1. TypeOK' BY ZenonT(60) DEF TypeOK
  <2>2. StartInv' BY DEF StartInv
  <2>3. NoThreadLeft' BY DEF TypeOK, NoThreadLeft
  <2>4. QED BY <2>1, <2>2, <2>3
<1>6. CASE HandlerIterates BY <1>6 DEF HandlerIterates, TypeOK, StartInv, NoThreadLeft, flags
<1>7. CASE StopLoops
  <2> USE <1>7 DEF StopLoops
  <2>1. TypeOK' BY ZenonT(60) DEF TypeOK
  <2>2. StartInv' BY DEF StartInv
  <2>3. NoThreadLeft' BY DEF TypeOK, NoThreadLeft
  <2>4. QED BY <2>1, <2>2, <2>3
<1>8. CASE Crash BY <1>8 DEF Crash, TypeOK, StartInv, NoThreadLeft, flags, sig
<1>9. QED BY <1>1, <1>2, <1>3, <1>4, <1>5, <1>6, <1>7, <1>8 DEF HandlerStep

LEMMA InvHolds == Spec => []Inv
<1>1. Inv /\ UNCHANGED vars => Inv'
  <2> SUFFICES ASSUME Inv, UNCHANGED vars PROVE Inv' OBVIOUS
  <2> USE DEF Inv, vars, flags, sig
  <2>1. TypeOK' BY ZenonT(60) DEF TypeOK
  <2>2. StartInv' BY DEF StartInv
  <2>3. NoThreadLeft' BY DEF NoThreadLeft
  <2>4. QED BY <2>1, <2>2, <2>3
<1>2. Inv /\ [Next]_vars => Inv' BY <1>1, MainInv, ThreadInv, SignalInv DEF Next
<1>3. QED BY InitInv, <1>2, PTL DEF Spec

\* The type invariant: in particular the event loops are numbered within their bound (main.cpp:118).
THEOREM TypeCorrect == Spec => []TypeOK
<1>1. Inv => TypeOK BY DEF Inv
<1>2. QED BY <1>1, InvHolds, PTL

\* Whatever main takes apart or returns past, no thread that uses it is left, and every event loop
\* with a thread is one the signal handler can stop (main.cpp:128-131, 203-227).
THEOREM ThreadsAreJoined == Spec => []NoThreadLeft
<1>1. Inv => NoThreadLeft BY DEF Inv
<1>2. QED BY <1>1, InvHolds, PTL

-----------------------------------------------------------------------------
(* What ShutsDown rests on: a signal that meets a complete gateway reaches *)
(* every thread, and nothing raises a flag again.                          *)

Starting == {"observer", "parse", "checker", "handlers", "init", "pushing", "thread"}
Failed   == {"failed", "aborted", "killed"}

\* How far startup has got is seen in the threads; it never fails once all loops have theirs, and
\* only a handler that walks g_loops can be raced or crash.
OrderInv ==
  /\ mainPc \in Starting => \A w \in Workers : w >= next => life[w] = "none"
  /\ ~installed => mainPc \in {"observer", "parse", "checker", "handlers"} \cup Failed /\ life[1] = "none"
  /\ mainPc \in Failed => \E w \in Workers : life[w] = "none"
  /\ handler # "idle" => installed
  /\ raced => handler = "iterating"
  /\ mainPc = "crashed" => handler = "iterating"

LEMMA InitOrder == Init => OrderInv
<1> SUFFICES ASSUME Init PROVE OrderInv OBVIOUS
<1>1. 1 \in Workers /\ \A t \in Threads : life[t] = "none" BY DEF Init
<1>2. QED BY <1>1 DEF Init, OrderInv, Starting, Failed

LEMMA MainOrder == Inv /\ OrderInv /\ MainStep => OrderInv'
<1> SUFFICES ASSUME Inv, OrderInv, MainStep PROVE OrderInv' OBVIOUS
<1> USE DEF OrderInv, Starting, Failed, Step, Create
<1>1. 1 \in Workers /\ next \in 1..(NumWorkers + 1) /\ life \in [Threads -> Lives]
  <2>1. 1 \in Workers OBVIOUS
  <2>2. next \in 1..(NumWorkers + 1) BY Zenon DEF Inv, TypeOK
  <2>3. life \in [Threads -> Lives] BY Zenon DEF Inv, TypeOK
  <2>4. QED BY <2>1, <2>2, <2>3
<1>2. mainPc \in Starting => next \in Workers BY DEF Inv, StartInv
<1>3. CASE StartObserver \/ StartChecker
  <2>1. mainPc \in Starting /\ mainPc' \in Starting /\ UNCHANGED <<next, installed, raced, handler>>
    BY <1>3 DEF StartObserver, StartChecker, sig
  <2>2. \A w \in Workers : life'[w] = life[w] BY <1>1, <1>3 DEF StartObserver, StartChecker
  <2>3. ~installed => mainPc' \in {"observer", "parse", "checker", "handlers"}
    BY <1>3 DEF StartObserver, StartChecker
  <2>4. QED BY <1>1, <2>1, <2>2, <2>3
<1>4. CASE Parse BY <1>4 DEF Parse, sig
<1>5. CASE InstallHandlers BY <1>5 DEF InstallHandlers, sig
<1>6. CASE StartFails
  <2>1. mainPc \in Starting /\ mainPc' \in {"failed", "aborted"} /\ UNCHANGED <<next, life, installed, raced, handler>>
    BY <1>6 DEF StartFails, sig
  <2>2. life[next] = "none" /\ next \in Workers BY <1>1, <1>2, <2>1
  <2>3. QED BY <2>1, <2>2
<1>7. CASE PushBegin \/ PushEnd
  <2>1. /\ mainPc \in Starting /\ mainPc' \in Starting /\ mainPc' # "crashed" /\ mainPc \in {"init", "pushing"}
        /\ UNCHANGED <<next, life, installed, handler>>
    BY <1>7 DEF PushBegin, PushEnd, sig
  <2>2. raced' => handler = "iterating"
    <3>1. CASE PushBegin BY Zenon, <3>1 DEF PushBegin
    <3>2. CASE PushEnd BY <3>2 DEF PushEnd, sig
    <3>3. QED BY <1>7, <3>1, <3>2
  <2>3. QED BY <2>1, <2>2
<1>8. CASE StartWorker
  <2>1. /\ mainPc = "thread" /\ next' = next + 1 /\ mainPc' \in {"report", "init"} /\ installed
        /\ UNCHANGED <<installed, raced, handler>> /\ next \in Workers
    BY <1>2, <1>8 DEF StartWorker, sig
  <2>2. \A w \in Workers : w # next => life'[w] = life[w] BY <1>1, <1>8 DEF StartWorker
  <2>3. ASSUME NEW w \in Workers, w >= next' PROVE life'[w] = "none"
    <3>1. w >= next /\ w # next BY <1>1, <2>1, <2>3
    <3>2. QED BY <2>1, <2>2, <3>1
  <2>4. QED BY <2>1, <2>3
<1>9. CASE Report \/ LeaveLoop \/ JoinWorkers \/ StopChecker \/ JoinChecker \/ RecordFinal \/ JoinObserver
  <2>1. mainPc \notin Starting \cup Failed /\ mainPc' \notin Starting \cup Failed \cup {"crashed"}
        /\ UNCHANGED <<next, life, installed, raced, handler>>
    BY <1>9 DEF Report, LeaveLoop, JoinWorkers, StopChecker, JoinChecker, RecordFinal, JoinObserver, sig
  <2>2. QED BY <2>1
<1>10. QED BY <1>3, <1>4, <1>5, <1>6, <1>7, <1>8, <1>9 DEF MainStep

LEMMA OtherOrder ==
  ASSUME Inv, OrderInv,
         (\E t \in Threads : ThreadStep(t)) \/ KilledEarly \/ Signal \/ HandlerStep \/ UNCHANGED vars
  PROVE  OrderInv'
<1> USE DEF OrderInv, Starting, Failed, HandlerAt, Set
<1>0. 1 \in Workers OBVIOUS
<1>1. ASSUME NEW t \in Threads, ThreadStep(t) PROVE OrderInv'
  <2>1. /\ UNCHANGED <<mainPc, next, installed, handler, raced>>
        /\ \A w \in Workers : life[w] = "none" => life'[w] = "none"
        /\ mainPc \notin Failed
    BY <1>1 DEF ThreadStep, Begins, Ends, ObserverTests, ObserverDrains, sig, Alive, Inv, TypeOK
  <2>2. QED BY <1>0, <2>1
<1>2. CASE KilledEarly BY <1>0, <1>2 DEF KilledEarly, sig
<1>3. CASE Signal BY <1>3 DEF Signal
<1>4. CASE HandlerStep
  <2>1. CASE Crash
    <3>1. mainPc' = "crashed" /\ handler = "iterating" /\ UNCHANGED <<next, life, installed, raced, handler>>
      BY <2>1 DEF Crash, sig
    <3>2. QED BY <3>1
  <2>2. CASE ~Crash
    <3>1. UNCHANGED <<mainPc, next, life, installed>> /\ (raced' => handler' = "iterating") /\ handler # "idle"
        /\ mainPc # "crashed"
      BY <1>4, <2>2
      DEF HandlerStep, StopMain, HandlerStopsChecker, HandlerStopsObserver, HandlerIterates, StopLoops, Alive
    <3>2. QED BY <3>1
  <2>3. QED BY <2>1, <2>2
<1>5. CASE UNCHANGED vars BY <1>5 DEF vars, sig
<1>6. QED BY <1>1, <1>2, <1>3, <1>4, <1>5

\* Startup is over: every thread there is has begun.
Begun ==
  /\ \A t \in Threads : life[t] \in {"running", "ended"} \/ (t = Observer /\ life[t] = "none")
  /\ mainPc \notin Starting \cup Failed \cup {"crashed"} /\ ~raced

Down(t) == life[t] # "none" => ~running[t]

\* What a handler that is under way has done already.
Told ==
  /\ handler \in {"checker", "observer", "loops", "iterating"} => ~g_running
  /\ handler \in {"observer", "loops", "iterating"} => Down(Checker)
  /\ handler \in {"loops", "iterating"} => Down(Observer)

AllDown == ~g_running /\ \A t \in Threads : Down(t)

Stopping == Begun /\ (AllDown \/ (handler # "idle" /\ Told))

LEMMA SignalMeetsAll == Inv /\ OrderInv /\ AllRunning /\ handler = "g_running" => Stopping
<1> SUFFICES ASSUME Inv, OrderInv, AllRunning, handler = "g_running" PROVE Stopping OBVIOUS
<1>1. \A w \in Workers : life[w] = "running" BY DEF AllRunning
<1>2. mainPc \notin Failed BY <1>1 DEF OrderInv
<1>3. mainPc \notin Starting
  <2>1. SUFFICES ASSUME mainPc \in Starting PROVE FALSE OBVIOUS
  <2>2. next \in Workers BY <2>1 DEF Inv, StartInv, Starting
  <2>3. life[next] = "none" BY <2>1, <2>2 DEF OrderInv
  <2>4. QED BY <1>1, <2>2, <2>3
<1>4. mainPc # "crashed" /\ ~raced BY DEF OrderInv
<1>5. \A t \in Threads : life[t] = "running" \/ (t = Observer /\ life[t] = "none") BY Zenon DEF AllRunning
<1>6. Begun BY <1>2, <1>3, <1>4, <1>5 DEF Begun
<1>7. QED BY <1>6 DEF Stopping, Told

\* After startup no thread begins, so no flag is raised again, and nothing ends the process but main.
LEMMA FlagsOnlyFall ==
  ASSUME Inv, OrderInv, Begun, [Next]_vars
  PROVE  /\ Begun'
         /\ g_running' => g_running
         /\ \A t \in Threads : (running'[t] => running[t]) /\ (life'[t] = "none" <=> life[t] = "none")
<1> USE DEF Begun, Starting, Failed
<1>0. life \in [Threads -> Lives] /\ running \in [Threads -> BOOLEAN]
  <2>1. life \in [Threads -> Lives] BY Zenon DEF Inv, TypeOK
  <2>2. running \in [Threads -> BOOLEAN] BY Zenon DEF Inv, TypeOK
  <2>3. QED BY <2>1, <2>2
<1>1. CASE MainStep
  <2>1. Report \/ LeaveLoop \/ JoinWorkers \/ StopChecker \/ JoinChecker \/ RecordFinal \/ JoinObserver
    BY <1>1 DEF MainStep, Step, StartObserver, Parse, StartChecker, InstallHandlers, StartFails, PushBegin, PushEnd,
                StartWorker
  <2>2. mainPc' \notin Starting \cup Failed \cup {"crashed"} /\ UNCHANGED <<life, g_running, raced>>
    BY <2>1 DEF Step, Report, LeaveLoop, JoinWorkers, StopChecker, JoinChecker, RecordFinal, JoinObserver, flags, sig
  <2>3. running' = running \/ running' = [running EXCEPT ![Checker] = FALSE]
    BY <2>1 DEF Step, Report, LeaveLoop, JoinWorkers, StopChecker, JoinChecker, RecordFinal, JoinObserver, flags
  <2>4. \A t \in Threads : running'[t] => running[t] BY <1>0, <2>3
  <2>5. QED BY <2>2, <2>4
<1>2. CASE \E t \in Threads : ThreadStep(t)
  <2>1. PICK t \in Threads : ThreadStep(t) BY <1>2
  <2>2. ~Begins(t) BY DEF Begins
  <2>3. UNCHANGED <<mainPc, running, g_running, raced>>
    BY <2>1, <2>2 DEF ThreadStep, Ends, ObserverTests, ObserverDrains, flags, sig
  <2>4. life' = life \/ (life[t] = "running" /\ life' = [life EXCEPT ![t] = "ended"])
    BY <2>1, <2>2 DEF ThreadStep, Ends, ObserverTests, ObserverDrains
  <2>5. \A u \in Threads : life'[u] = life[u] \/ (u = t /\ life[u] = "running" /\ life'[u] = "ended") BY <1>0, <2>4
  <2>6. QED BY <2>3, <2>5
<1>3. CASE KilledEarly BY <1>3 DEF KilledEarly, OrderInv
<1>4. CASE Signal BY <1>4 DEF Signal, flags
<1>5. CASE HandlerStep
  <2>1. ~Crash BY DEF Crash
  <2>2. UNCHANGED <<mainPc, life>> /\ ~raced' /\ (g_running' => g_running)
    <3>1. CASE HandlerIterates
      <4>1. raced' = (mainPc = "pushing") /\ mainPc # "pushing" BY Zenon, <3>1 DEF HandlerIterates
      <4>2. QED BY <3>1, <4>1 DEF HandlerIterates, HandlerAt, flags
    <3>2. CASE ~HandlerIterates
      <4>1. CASE StopMain BY <4>1 DEF StopMain, HandlerAt
      <4>2. CASE HandlerStopsChecker BY <4>2 DEF HandlerStopsChecker, HandlerAt
      <4>3. CASE HandlerStopsObserver BY <4>3 DEF HandlerStopsObserver, HandlerAt
      <4>4. CASE StopLoops BY <4>4 DEF StopLoops, HandlerAt
      <4>5. QED BY <1>5, <2>1, <3>2, <4>1, <4>2, <4>3, <4>4 DEF HandlerStep
    <3>3. QED BY <3>1, <3>2
  <2>3. ASSUME NEW t \in Threads, running'[t] PROVE running[t]
    <3>1. CASE StopMain \/ HandlerIterates BY <2>3, <3>1 DEF StopMain, HandlerIterates, flags
    <3>2. CASE HandlerStopsChecker BY <1>0, <2>3, <3>2 DEF HandlerStopsChecker, Set
    <3>3. CASE HandlerStopsObserver BY <1>0, <2>3, <3>3 DEF HandlerStopsObserver, Set
    <3>4. CASE StopLoops BY <2>3, <3>4 DEF StopLoops
    <3>5. QED BY <1>5, <2>1, <3>1, <3>2, <3>3, <3>4 DEF HandlerStep
  <2>4. QED BY <2>2, <2>3
<1>6. CASE UNCHANGED vars BY <1>6 DEF vars, flags, sig
<1>7. QED BY <1>1, <1>2, <1>3, <1>4, <1>5, <1>6 DEF Next

LEMMA StoppingStays == Inv /\ OrderInv /\ Stopping /\ [Next]_vars => Stopping'
<1> SUFFICES ASSUME Inv, OrderInv, Stopping, [Next]_vars PROVE Stopping' OBVIOUS
<1> USE DEF Stopping
<1>1. /\ Begun'
      /\ g_running' => g_running
      /\ \A t \in Threads : (running'[t] => running[t]) /\ (life'[t] = "none" <=> life[t] = "none")
  BY FlagsOnlyFall
<1>2. \A t \in Threads : Down(t) => Down(t)' BY <1>1 DEF Down
<1>3. CASE AllDown BY <1>1, <1>2, <1>3 DEF AllDown
<1>4. CASE handler # "idle" /\ Told /\ handler' = handler
  <2>1. Checker \in Threads /\ Observer \in Threads OBVIOUS
  <2>2. Told' BY <1>1, <1>2, <1>4, <2>1 DEF Told
  <2>3. QED BY <1>1, <1>4, <2>2
<1>5. CASE handler # "idle" /\ Told /\ handler' # handler
  <2>1. StopMain \/ HandlerStopsChecker \/ HandlerStopsObserver \/ HandlerIterates \/ StopLoops
    BY <1>5 DEF Next, MainStep, StartObserver, Parse, StartChecker, InstallHandlers, StartFails, PushBegin, PushEnd,
                StartWorker, Report, LeaveLoop, JoinWorkers, StopChecker, JoinChecker, RecordFinal, JoinObserver,
                ThreadStep, Begins, Ends, ObserverTests, ObserverDrains, KilledEarly, Signal, HandlerStep, Crash,
                vars, sig
  <2>2. Checker \in Threads /\ Observer \in Threads OBVIOUS
  <2>3. running \in [Threads -> BOOLEAN] BY Zenon DEF Inv, TypeOK
  <2>4. CASE StopMain BY <1>1, <2>4 DEF StopMain, HandlerAt, Told
  <2>5. CASE HandlerStopsChecker
    <3>1. Down(Checker)' /\ ~g_running BY <1>5, <2>2, <2>3, <2>5 DEF HandlerStopsChecker, HandlerAt, Set, Down, Told
    <3>2. QED BY <1>1, <2>5, <3>1 DEF HandlerStopsChecker, HandlerAt, Told
  <2>6. CASE HandlerStopsObserver
    <3>1. Down(Observer)' BY <2>2, <2>3, <2>6 DEF HandlerStopsObserver, HandlerAt, Set, Down, Observed
    <3>2. Down(Checker)' /\ ~g_running' BY <1>1, <1>2, <1>5, <2>2, <2>6 DEF HandlerStopsObserver, HandlerAt, Told
    <3>3. handler' = "loops" BY <2>6 DEF HandlerStopsObserver, HandlerAt
    <3>4. QED BY <1>1, <3>1, <3>2, <3>3 DEF Told
  <2>7. CASE HandlerIterates
    <3>1. handler = "loops" /\ handler' = "iterating" BY <2>7 DEF HandlerIterates, HandlerAt
    <3>2. QED BY <1>1, <1>2, <1>5, <2>2, <3>1 DEF Told
  <2>8. CASE StopLoops
    <3>1. handler = "iterating" BY <2>8 DEF StopLoops, HandlerAt
    <3>2. ~g_running' /\ Down(Checker)' /\ Down(Observer)' BY <1>1, <1>2, <1>5, <2>2, <3>1 DEF Told
    <3>3. ~raced BY DEF Begun
    <3>4. running' = [t \in Threads |-> running[t] /\ t \notin g_loops] BY <2>8, <3>3 DEF StopLoops
    <3>5. ASSUME NEW w \in Workers, life'[w] # "none" PROVE ~running'[w]
      <4>1. life[w] # "none" BY <1>1, <3>5
      <4>2. w \in g_loops BY <4>1 DEF Inv, NoThreadLeft
      <4>3. QED BY <3>4, <4>2
    <3>6. \A t \in Threads : Down(t)' BY <3>2, <3>5 DEF Down
    <3>7. QED BY <1>1, <3>2, <3>6 DEF AllDown
  <2>9. QED BY <2>1, <2>4, <2>5, <2>6, <2>7, <2>8
<1>6. QED BY <1>3, <1>4, <1>5

LEMMA OrderHolds == Spec => []OrderInv
<1>1. Inv /\ OrderInv /\ [Next]_vars => OrderInv' BY MainOrder, OtherOrder DEF Next
<1>2. QED BY InitOrder, InvHolds, <1>1, PTL DEF Spec

\* No thread runs on: main stands past startup and was not ended by the signal, and once the handler is
\* through, g_running and the flag of every thread are down.
SignalTakesEffect ==
  /\ mainPc \notin {"failed", "aborted", "killed", "crashed"}
  /\ handler = "idle" => ~g_running /\ \A t \in Threads : life[t] # "none" => ~running[t]

(***************************************************************************)
(* The safety half of ShutsDown: a signal that meets the gateway with all  *)
(* threads running stops them all (signal_handler, main.cpp:23-38), from   *)
(* then on whenever the handler is not under way, whatever further signals *)
(* do, and the process does not end but by main.                           *)
(***************************************************************************)
SignalSuffices == [](AllRunning /\ handler = "g_running" => []SignalTakesEffect)

\* One signal after startup stops every thread and none of them is ever started again, for any number of
\* event loops (main.cpp:23-38).
THEOREM OneSignalStopsAll == Spec => SignalSuffices
<1>1. Stopping => SignalTakesEffect
  BY DEF Stopping, Begun, AllDown, Down, SignalTakesEffect, Failed
<1>2. QED BY InvHolds, OrderHolds, SignalMeetsAll, StoppingStays, <1>1, PTL DEF Spec, SignalSuffices
=============================================================================

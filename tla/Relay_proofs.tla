----------------------------- MODULE Relay_proofs -----------------------------
(***************************************************************************)
(* Invariance proofs for Relay, for any size of the sockets' buffers and   *)
(* of the pipes.                                                           *)
(***************************************************************************)
EXTENDS Relay, SequenceTheorems, TLAPS

First(call)   == todo # <<>> /\ Head(todo) = call
Pending(call) == \E i \in 1..Len(todo) : todo[i] = call

\* Only the call at hand can be one of handle_read's.
TodoInv ==
  /\ todo # <<>> => cur \in Sides
  /\ \A i \in 2..Len(todo) : todo[i] \in {"write", "hangup"}

ExactInv == pipe_bytes = pipe

\* A hang-up of the backend's socket is about a reset: its orderly end comes with EPOLLIN.
ResetInv ==
  /\ \A x \in Sides : sk_err[x] # "none" => reset[x]
  /\ "IN" \in interest["backend"]
  /\ "ERR" \in batch["backend"] \/ ("HUP" \in batch["backend"] /\ "IN" \notin batch["backend"]) =>
       reset["backend"]
  /\ cur = "backend" /\ Pending("hangup") => reset["backend"]
  /\ condemned => reset["backend"]

\* The client's stream ends with its FIN; the error of its reset is only used up by a drain that
\* ends the connection.
EndInv ==
  /\ cur = "client" /\ (First("drain") \/ First("eof")) => fin["client"]
  /\ status = "open" /\ reset["client"] /\ ~fin["client"] =>
       sk_err["client"] # "none" \/ (cur = "backend" /\ First("eof"))

\* Before any FIN the error of a reset is still there to be reported.
NoFinInv ==
  ~fin["client"] /\ ~fin["backend"] =>
    /\ \A x \in Sides : reset[x] => sk_err[x] = "reset"
    /\ ~shut /\ ~First("drain") /\ ~First("eof") /\ status # "killed"

Armed(x) == "OUT" \in interest[Peer(x)] \/ (x = "backend" /\ fin["client"] /\ interest["client"] = {})

\* Only between the two splices of handle_read do bytes wait without EPOLLOUT.
ArmedInv ==
  status = "open" =>
    \A x \in Sides : pipe[x] > 0 /\ ~(cur = x /\ First("forward")) => Armed(x)

Inv == TypeOK /\ TodoInv /\ ExactInv /\ ResetInv /\ EndInv /\ NoFinInv /\ ArmedInv

USE SockCapAssumption, PipeCapAssumption DEF Sides, Calls, Events

-----------------------------------------------------------------------------
(* Helpers.                                                                *)

LEMMA PeerIs == /\ Peer("client") = "backend" /\ Peer("backend") = "client"
                /\ \A x \in Sides : Peer(x) \in Sides /\ Peer(x) # x /\ Peer(Peer(x)) = x
BY DEF Peer

LEMMA LeastIs == ASSUME NEW a \in Nat, NEW b \in Nat
  PROVE Least(a, b) \in Nat /\ Least(a, b) <= a /\ Least(a, b) <= b
BY DEF Least

\* What epoll_wait can report.
LEMMA ReadyIs ==
  ASSUME TypeOK
  PROVE  /\ \A x \in Sides : Ready(x) \subseteq Events
         /\ "ERR" \in Ready("backend") => sk_err["backend"] # "none"
         /\ /\ "HUP" \in Ready("backend") /\ "IN" \notin Ready("backend") /\ "IN" \in interest["backend"]
            => reset["backend"]
<1>1. \A x \in Sides : Ready(x) \subseteq Events BY DEF TypeOK, Ready
<1>2. "ERR" \in Ready("backend") => sk_err["backend"] # "none" BY DEF Ready
<1>3. ASSUME "HUP" \in Ready("backend"), "IN" \notin Ready("backend"), "IN" \in interest["backend"]
      PROVE  reset["backend"]
  <2>1. reset["backend"] \/ fin["backend"] BY <1>3 DEF Ready
  <2>2. ~fin["backend"] BY <1>3 DEF Ready
  <2>3. QED BY <2>1, <2>2
<1>4. QED BY <1>1, <1>2, <1>3

LEMMA WhenIs ==
  ASSUME NEW cond \in BOOLEAN, NEW call \in Calls
  PROVE  /\ When(cond, call) \in Seq(Calls) /\ Len(When(cond, call)) \in {0, 1}
         /\ \A i \in 1..Len(When(cond, call)) : When(cond, call)[i] = call
         /\ Len(When(cond, call)) # 0 => cond
<1> DEFINE w == When(cond, call)
<1>1. CASE cond = TRUE
  <2>1. w = <<call>> BY <1>1 DEF When
  <2> HIDE DEF w
  <2>2. w \in Seq(Calls) /\ Len(w) = 1 /\ \A i \in 1..Len(w) : w[i] = call BY <2>1
  <2>3. QED BY <2>2, <1>1 DEF w
<1>2. CASE cond = FALSE
  <2>1. w = <<>> BY <1>2, Zenon DEF When
  <2> HIDE DEF w
  <2>2. w \in Seq(Calls) /\ Len(w) = 0 BY <2>1
  <2>3. QED BY <2>2 DEF w
<1>3. QED BY <1>1, <1>2

\* What Dispatch can return.
LEMMA DispatchIs ==
  ASSUME NEW ev \in SUBSET Events
  PROVE  /\ Dispatch(ev) \in Seq(Calls)
         /\ \A i \in 2..Len(Dispatch(ev)) : Dispatch(ev)[i] \in {"write", "hangup"}
         /\ Dispatch(ev) # <<>> => Head(Dispatch(ev)) \in {"read", "write", "hangup"}
         /\ (\E i \in 1..Len(Dispatch(ev)) : Dispatch(ev)[i] = "hangup")
              => "ERR" \in ev \/ ("HUP" \in ev /\ "IN" \notin ev)
<1> DEFINE inn == "IN" \in ev
           out == "OUT" \in ev
           a == When(inn, "read")
           b == When(out, "write")
           hang == ev \cap {"ERR", "HUP"} # {} /\ ~("HUP" \in ev /\ "IN" \in ev /\ "ERR" \notin ev)
           c == When(hang, "hangup")
           ab == a \o b
           d == Dispatch(ev)
<1>1. d = ab \o c BY DEF Dispatch
<1>2. a \in Seq(Calls) /\ Len(a) \in {0, 1} /\ \A i \in 1..Len(a) : a[i] = "read"
  <2>1. inn \in BOOLEAN OBVIOUS
  <2> HIDE DEF inn
  <2>2. QED BY <2>1, WhenIs
<1>3. b \in Seq(Calls) /\ Len(b) \in {0, 1} /\ \A i \in 1..Len(b) : b[i] = "write"
  <2>1. out \in BOOLEAN OBVIOUS
  <2> HIDE DEF out
  <2>2. QED BY <2>1, WhenIs
<1>4. /\ c \in Seq(Calls) /\ \A i \in 1..Len(c) : c[i] = "hangup"
      /\ Len(c) # 0 => "ERR" \in ev \/ ("HUP" \in ev /\ "IN" \notin ev)
  <2>1. hang \in BOOLEAN /\ (hang => "ERR" \in ev \/ ("HUP" \in ev /\ "IN" \notin ev)) OBVIOUS
  <2> HIDE DEF hang
  <2>2. QED BY <2>1, WhenIs
<1> HIDE DEF a, b, c
<1>5. /\ ab \in Seq(Calls) /\ Len(ab) = Len(a) + Len(b)
      /\ \A i \in 1..Len(ab) : ab[i] = IF i <= Len(a) THEN "read" ELSE "write"
  BY <1>2, <1>3, ConcatProperties
<1> HIDE DEF ab, d
<1>6. /\ d \in Seq(Calls) /\ Len(d) = Len(ab) + Len(c)
      /\ \A i \in 1..Len(d) : d[i] = IF i <= Len(ab) THEN ab[i] ELSE "hangup"
  <2>1. /\ ab \o c \in Seq(Calls) /\ Len(ab \o c) = Len(ab) + Len(c)
        /\ \A i \in 1..(Len(ab) + Len(c)) : (ab \o c)[i] = IF i <= Len(ab) THEN ab[i] ELSE c[i - Len(ab)]
    <3>1. ab \in Seq(Calls) /\ c \in Seq(Calls) BY <1>4, <1>5
    <3>2. QED BY <3>1, ConcatProperties, Zenon
  <2>2. \A i \in 1..(Len(ab) + Len(c)) : i <= Len(ab) \/ i - Len(ab) \in 1..Len(c) BY <1>4, <1>5
  <2>3. QED BY <1>1, <1>4, <2>1, <2>2
<1>7. \A i \in 2..Len(d) : d[i] \in {"write", "hangup"} BY <1>2, <1>3, <1>4, <1>5, <1>6
<1>8. d # <<>> => Head(d) \in {"read", "write", "hangup"}
  <2>1. \A i \in 1..Len(d) : d[i] \in {"read", "write", "hangup"} BY <1>2, <1>3, <1>4, <1>5, <1>6
  <2>2. d # <<>> => 1 \in 1..Len(d) /\ Head(d) = d[1] BY <1>6
  <2>3. QED BY <2>1, <2>2
<1>9. (\E i \in 1..Len(d) : d[i] = "hangup") => Len(c) # 0
  <2>1. ASSUME NEW i \in 1..Len(d), d[i] = "hangup", Len(c) = 0 PROVE FALSE
    <3>1. i \in 1..Len(ab) /\ ab[i] = "hangup" BY <2>1, <1>5, <1>6
    <3>2. QED BY <3>1, <1>5
  <2>2. QED BY <2>1
<1>10. QED BY <1>4, <1>6, <1>7, <1>8, <1>9 DEF d

\* A call that is replaced by nothing.
LEMMA ThenNothing ==
  ASSUME TypeOK, TodoInv, todo # <<>>, Then(<<>>)
  PROVE  /\ todo' \in Seq(Calls)
         /\ \A i \in 1..Len(todo') : todo'[i] \in {"write", "hangup"}
         /\ Pending("hangup")' => Pending("hangup")
         /\ \A c \in {"read", "forward", "drain", "eof"} : ~First(c)'
<1>1. todo \in Seq(Calls) /\ todo' = Tail(todo) BY DEF TypeOK, Then
<1>2. Len(todo') = Len(todo) - 1 /\ Len(todo) \in Nat BY <1>1
<1>3. \A i \in 1..Len(todo') : todo'[i] = todo[i + 1] /\ i + 1 \in 2..Len(todo) BY <1>1, <1>2
<1>4. todo' \in Seq(Calls) BY <1>1
<1>5. \A i \in 1..Len(todo') : todo'[i] \in {"write", "hangup"} BY <1>3 DEF TodoInv
<1>6. Pending("hangup")' => Pending("hangup") BY <1>2, <1>3 DEF Pending
<1>7. \A c \in {"read", "forward", "drain", "eof"} : ~First(c)'
  <2>1. ASSUME todo' # <<>> PROVE Head(todo') \in {"write", "hangup"} BY <1>4, <1>5, <2>1
  <2>2. QED BY <2>1 DEF First
<1>8. QED BY <1>4, <1>5, <1>6, <1>7

\* A call that is replaced by another one.
LEMMA ThenOne ==
  ASSUME TypeOK, TodoInv, todo # <<>>, NEW call \in Calls \ {"hangup"}, Then(<<call>>)
  PROVE  /\ todo' \in Seq(Calls) /\ todo' # <<>> /\ Head(todo') = call
         /\ \A i \in 2..Len(todo') : todo'[i] \in {"write", "hangup"}
         /\ Pending("hangup")' => Pending("hangup")
         /\ \A c \in Calls : First(c)' <=> c = call
<1>1. todo \in Seq(Calls) /\ todo' = <<call>> \o Tail(todo) BY DEF TypeOK, Then
<1>2. Len(todo') = Len(todo) /\ Len(todo) \in Nat /\ Len(todo) >= 1 BY <1>1
<1>3. todo'[1] = call /\ \A i \in 2..Len(todo') : todo'[i] = todo[i] /\ i \in 1..Len(todo) BY <1>1, <1>2
<1>4. todo' \in Seq(Calls) /\ todo' # <<>> /\ Head(todo') = call BY <1>1, <1>2, <1>3
<1>5. \A i \in 2..Len(todo') : todo'[i] \in {"write", "hangup"} BY <1>2, <1>3 DEF TodoInv
<1>6. Pending("hangup")' => Pending("hangup")
  <2>1. ASSUME NEW i \in 1..Len(todo'), todo'[i] = "hangup" PROVE Pending("hangup")
    <3>1. i # 1 BY <2>1, <1>3
    <3>2. i \in 2..Len(todo') BY <3>1, <1>2
    <3>3. QED BY <3>2, <2>1, <1>3 DEF Pending
  <2>2. QED BY <2>1 DEF Pending
<1>7. \A c \in Calls : First(c)' <=> c = call BY <1>4 DEF First
<1>8. QED BY <1>4, <1>5, <1>6, <1>7

LEMMA ForwardedIs ==
  ASSUME Inv, NEW src \in Sides, NEW n \in Nat, n <= pipe[src], n <= Room(Peer(src)), Forwarded(src, n)
  PROVE  /\ pipe' \in [Sides -> 0..PipeCap] /\ pipe_bytes' \in [Sides -> 0..PipeCap]
         /\ outbox' \in [Sides -> 0..SockCap]
         /\ pipe_bytes' = pipe'
         /\ pipe'[src] = pipe_bytes[src] - n /\ \A x \in Sides : x # src => pipe'[x] = pipe[x]
<1>1. /\ pipe \in [Sides -> 0..PipeCap] /\ pipe_bytes = pipe /\ outbox \in [Sides -> 0..SockCap]
      /\ Peer(src) \in Sides
  BY PeerIs DEF Inv, TypeOK, ExactInv
<1>2. pipe' = [pipe EXCEPT ![src] = @ - n] /\ pipe_bytes' = pipe' BY <1>1 DEF Forwarded
<1>3. pipe' \in [Sides -> 0..PipeCap] BY <1>1, <1>2
<1>4. outbox' \in [Sides -> 0..SockCap] BY <1>1 DEF Forwarded, Room
<1>5. QED BY <1>1, <1>2, <1>3, <1>4

LEMMA LeastMoves ==
  ASSUME Inv, NEW x \in Sides
  PROVE  /\ Least(pipe[x], Room(Peer(x))) \in Nat /\ Least(pipe[x], Room(Peer(x))) <= pipe[x]
         /\ Least(pipe[x], Room(Peer(x))) <= Room(Peer(x))
<1>1. pipe[x] \in Nat /\ Room(Peer(x)) \in Nat BY PeerIs DEF Inv, TypeOK, Room
<1>2. QED BY <1>1, LeastIs

\* A splice that raises SIGPIPE follows a FIN of one of the sides.
LEMMA SigpipeAfterFin ==
  ASSUME Inv, NEW x \in Sides, WriteResult(x) = "sigpipe"
  PROVE  fin["client"] \/ fin["backend"]
<1>1. SUFFICES ASSUME ~fin["client"], ~fin["backend"] PROVE FALSE OBVIOUS
<1>2. ~shut /\ (reset[x] => sk_err[x] = "reset") /\ (sk_err[x] # "none" => reset[x])
  BY <1>1 DEF Inv, NoFinInv, ResetInv
<1>3. sk_err[x] \in {"none", "reset", "pipe"} BY DEF Inv, TypeOK
<1>4. QED BY <1>2, <1>3 DEF WriteResult, SendShut

-----------------------------------------------------------------------------
(* The two ends of a connection.                                           *)

\* remove_connection.
LEMMA RemovedInv ==
  ASSUME Inv, Remove, UNCHANGED <<sockets, pipes>>, condemned' \in BOOLEAN, condemned' => reset["backend"]
  PROVE  Inv'
<1> USE DEF Inv, Remove, sockets, pipes
<1>1. TypeOK'
  <2>1. todo' \in Seq(Calls) /\ batch' \in [Sides -> SUBSET Events] OBVIOUS
  <2>2. QED BY <2>1, Zenon DEF TypeOK
<1>2. TodoInv' /\ ExactInv' BY DEF TodoInv, ExactInv
<1>3. ResetInv' BY DEF ResetInv, Pending
<1>4. EndInv' BY DEF EndInv
<1>5. NoFinInv' BY DEF NoFinInv, First
<1>6. ArmedInv' BY DEF ArmedInv
<1>7. QED BY <1>1, <1>2, <1>3, <1>4, <1>5, <1>6

LEMMA KilledInv ==
  ASSUME Inv, Killed, UNCHANGED <<inbox, fin, reset, shut, condemned>>, fin["client"] \/ fin["backend"]
  PROVE  Inv'
<1> USE DEF Inv, Killed, pipes
<1>1. TypeOK' BY Zenon DEF TypeOK
<1>2. TodoInv' /\ ExactInv' BY DEF TodoInv, ExactInv
<1>3. ResetInv' BY DEF ResetInv, Pending
<1>4. EndInv' BY DEF EndInv, First
<1>5. NoFinInv' BY DEF NoFinInv
<1>6. ArmedInv' BY DEF ArmedInv
<1>7. QED BY <1>1, <1>2, <1>3, <1>4, <1>5, <1>6

-----------------------------------------------------------------------------
(* Clients, backends and the kernel.                                       *)

LEMMA OutsideInv == Inv /\ Outside => Inv'
<1> USE DEF Inv, pipes, loop
<1>1. ASSUME NEW x \in Sides, Inv, Send(x) PROVE Inv'
  <2> USE <1>1 DEF Send
  <2>1. inbox' \in [Sides -> 0..SockCap] BY DEF TypeOK
  <2>2. TypeOK' BY <2>1, Zenon DEF TypeOK
  <2>3. TodoInv' /\ ExactInv' BY DEF TodoInv, ExactInv
  <2>4. ResetInv' BY DEF ResetInv, Pending
  <2>5. EndInv' BY DEF EndInv, First
  <2>6. NoFinInv' BY DEF NoFinInv, First
  <2>7. ArmedInv' BY DEF ArmedInv, First, Armed
  <2>8. QED BY <2>2, <2>3, <2>4, <2>5, <2>6, <2>7
<1>2. ASSUME NEW x \in Sides, Inv, Receive(x) PROVE Inv'
  <2> USE <1>2 DEF Receive
  <2>1. outbox' \in [Sides -> 0..SockCap] BY DEF TypeOK
  <2>2. TypeOK' BY <2>1, Zenon DEF TypeOK
  <2>3. TodoInv' /\ ExactInv' BY DEF TodoInv, ExactInv
  <2>4. ResetInv' BY DEF ResetInv, Pending
  <2>5. EndInv' BY DEF EndInv, First
  <2>6. NoFinInv' BY DEF NoFinInv, First
  <2>7. ArmedInv' BY DEF ArmedInv, First, Armed
  <2>8. QED BY <2>2, <2>3, <2>4, <2>5, <2>6, <2>7
<1>3. ASSUME NEW x \in Sides, Inv, Finish(x) PROVE Inv'
  <2> USE <1>3 DEF Finish
  <2>1. /\ fin' \in [Sides -> BOOLEAN] /\ fin'[x] = TRUE
        /\ \A y \in Sides : fin[y] => fin'[y]
    BY Zenon DEF TypeOK
  <2>2. TypeOK' BY <2>1, Zenon DEF TypeOK
  <2>3. TodoInv' /\ ExactInv' BY DEF TodoInv, ExactInv
  <2>4. ResetInv' BY DEF ResetInv, Pending
  <2>5. EndInv' BY <2>1 DEF EndInv, First
  <2>6. NoFinInv' BY <2>1 DEF NoFinInv
  <2>7. ArmedInv' BY <2>1 DEF ArmedInv, First, Armed
  <2>8. QED BY <2>2, <2>3, <2>4, <2>5, <2>6, <2>7
<1>4. ASSUME NEW x \in Sides, Inv, Reset(x) PROVE Inv'
  <2> USE <1>4 DEF Reset
  <2>1. reset' \in [Sides -> BOOLEAN] /\ reset'[x] = TRUE /\ \A y \in Sides : y # x => reset'[y] = reset[y]
    BY Zenon DEF TypeOK
  <2>2. /\ sk_err' \in [Sides -> {"none", "reset", "pipe"}]
        /\ sk_err'[x] # "none" /\ (~fin[x] => sk_err'[x] = "reset")
        /\ \A y \in Sides : y # x => sk_err'[y] = sk_err[y]
    BY DEF TypeOK
  <2>3. outbox' \in [Sides -> 0..SockCap] BY DEF TypeOK
  <2>4. TypeOK' BY <2>1, <2>2, <2>3, Zenon DEF TypeOK
  <2>5. TodoInv' /\ ExactInv' BY DEF TodoInv, ExactInv
  <2>6. ResetInv'
    <3>1. \A y \in Sides : sk_err'[y] # "none" => reset'[y] BY <2>1, <2>2 DEF ResetInv
    <3>2. reset["backend"] => reset'["backend"] BY <2>1
    <3>3. QED BY <3>1, <3>2 DEF ResetInv, Pending
  <2>7. EndInv' BY <2>1, <2>2 DEF EndInv, First
  <2>8. NoFinInv' BY <2>1, <2>2 DEF NoFinInv, First
  <2>9. ArmedInv' BY DEF ArmedInv, First, Armed
  <2>10. QED BY <2>4, <2>5, <2>6, <2>7, <2>8, <2>9
<1>5. QED BY <1>1, <1>2, <1>3, <1>4 DEF Outside

-----------------------------------------------------------------------------
(* The event loop.                                                         *)

\* epoll_wait and the dispatch of what it returned.
LEMMA DispatchInv == Inv /\ (Poll \/ (\E x \in Sides : Serve(x)) \/ NextSocket) => Inv'
<1> USE DEF Inv, sockets, pipes
<1>1. ASSUME Inv, Poll PROVE Inv'
  <2> USE <1>1 DEF Poll
  <2>1. batch' \in [Sides -> SUBSET Events] /\ batch'["backend"] = Ready("backend") BY ReadyIs
  <2>2. TypeOK' BY <2>1, Zenon DEF TypeOK
  <2>3. TodoInv' /\ ExactInv' BY DEF TodoInv, ExactInv
  <2>4. ResetInv' BY <2>1, ReadyIs DEF ResetInv, Pending
  <2>5. EndInv' BY DEF EndInv, First
  <2>6. NoFinInv' BY DEF NoFinInv, First
  <2>7. ArmedInv' BY DEF ArmedInv, First, Armed
  <2>8. QED BY <2>2, <2>3, <2>4, <2>5, <2>6, <2>7
<1>2. ASSUME NEW x \in Sides, Inv, Serve(x) PROVE Inv'
  <2> USE <1>2 DEF Serve
  <2>1. batch[x] \in SUBSET Events BY DEF TypeOK
  <2>2. /\ todo' \in Seq(Calls)
        /\ \A i \in 2..Len(todo') : todo'[i] \in {"write", "hangup"}
        /\ todo' # <<>> => Head(todo') \in {"read", "write", "hangup"}
        /\ Pending("hangup")' => "ERR" \in batch[x] \/ ("HUP" \in batch[x] /\ "IN" \notin batch[x])
    BY <2>1, DispatchIs DEF Pending
  <2>3. batch' \in [Sides -> SUBSET Events] BY DEF TypeOK
  <2>4. batch'["backend"] = {} \/ batch'["backend"] = batch["backend"] BY DEF TypeOK
  <2>5. TypeOK' BY <2>2, <2>3, Zenon DEF TypeOK
  <2>6. TodoInv' /\ ExactInv' BY <2>2 DEF TodoInv, ExactInv
  <2>7. ResetInv' BY <2>2, <2>4 DEF ResetInv
  <2>8. EndInv' BY <2>2 DEF EndInv, First
  <2>9. NoFinInv' BY <2>2 DEF NoFinInv, First
  <2>10. ArmedInv' BY <2>2 DEF ArmedInv, First, Armed
  <2>11. QED BY <2>5, <2>6, <2>7, <2>8, <2>9, <2>10
<1>3. ASSUME Inv, NextSocket PROVE Inv'
  <2> USE <1>3 DEF NextSocket
  <2>1. TypeOK' BY Zenon DEF TypeOK
  <2>2. TodoInv' /\ ExactInv' BY DEF TodoInv, ExactInv
  <2>3. ResetInv' BY DEF ResetInv, Pending
  <2>4. EndInv' BY DEF EndInv, First
  <2>5. NoFinInv' BY DEF NoFinInv, First
  <2>6. ArmedInv' BY DEF ArmedInv, First, Armed
  <2>7. QED BY <2>1, <2>2, <2>3, <2>4, <2>5, <2>6
<1>4. QED BY <1>1, <1>2, <1>3

\* A client's stream can only end with its FIN, and an end is only read after some FIN.
LEMMA EofAfterFin ==
  ASSUME Inv, Calling("read"), ReadResult(cur) = "eof"
  PROVE  /\ cur \in Sides
         /\ cur = "client" => fin["client"]
         /\ fin["client"] \/ fin["backend"]
<1>1. cur \in Sides /\ First("read") /\ ~First("eof") BY DEF Inv, TodoInv, Calling, First
<1>2. /\ pipe[cur] \in 0..PipeCap /\ inbox[cur] \in 0..SockCap
      /\ sk_err[cur] \in {"none", "reset", "pipe"}
  BY <1>1 DEF Inv, TypeOK
<1>3. fin[cur] \/ (reset[cur] /\ sk_err[cur] = "none") BY <1>2 DEF ReadResult
<1>4. cur = "client" => fin["client"] BY <1>1, <1>3 DEF Inv, EndInv, Calling
<1>5. fin["client"] \/ fin["backend"] BY <1>1, <1>3 DEF Inv, NoFinInv
<1>6. QED BY <1>1, <1>4, <1>5

LEMMA ReadInv == Inv /\ Read => Inv'
<1> SUFFICES ASSUME Inv, Read PROVE Inv' OBVIOUS
<1> USE DEF Inv, pipes
<1>1. /\ status = "open" /\ todo # <<>> /\ First("read") /\ cur \in Sides /\ Calling("read")
      /\ ~First("eof") /\ ~First("drain") /\ ~First("forward")
  BY DEF Read, Calling, First, TodoInv
<1> DEFINE n == Least(inbox[cur], PipeCap - pipe[cur])
<1>2. CASE /\ ReadResult(cur) = "bytes"
           /\ inbox' = [inbox EXCEPT ![cur] = @ - n]
           /\ pipe' = [pipe EXCEPT ![cur] = @ + n]
           /\ pipe_bytes' = [pipe_bytes EXCEPT ![cur] = @ + n]
           /\ Then(<<"forward">>)
           /\ UNCHANGED <<interest, batch, cur, status>>
  <2> USE <1>2
  <2>1. n \in Nat /\ n <= inbox[cur] /\ n <= PipeCap - pipe[cur]
    <3>1. inbox[cur] \in Nat /\ PipeCap - pipe[cur] \in Nat BY <1>1 DEF TypeOK
    <3>2. QED BY <3>1, LeastIs
  <2> HIDE DEF n
  <2>2. /\ inbox' \in [Sides -> 0..SockCap] /\ pipe' \in [Sides -> 0..PipeCap]
        /\ pipe_bytes' = pipe' /\ \A x \in Sides : x # cur => pipe'[x] = pipe[x]
    BY <1>1, <2>1 DEF TypeOK, ExactInv
  <2>3. /\ todo' \in Seq(Calls) /\ \A i \in 2..Len(todo') : todo'[i] \in {"write", "hangup"}
        /\ Pending("hangup")' => Pending("hangup")
        /\ First("forward")' /\ ~First("eof")' /\ ~First("drain")'
    BY <1>1, ThenOne
  <2> USE DEF Read
  <2>4. TypeOK' BY <2>2, <2>3, Zenon DEF TypeOK
  <2>5. TodoInv' /\ ExactInv' BY <1>1, <2>2, <2>3 DEF TodoInv, ExactInv
  <2>6. ResetInv' BY <2>3 DEF ResetInv
  <2>7. EndInv' BY <1>1, <2>3 DEF EndInv
  <2>8. NoFinInv' BY <2>3 DEF NoFinInv
  <2>9. ArmedInv' BY <1>1, <2>2, <2>3 DEF ArmedInv, Armed
  <2>10. QED BY <2>4, <2>5, <2>6, <2>7, <2>8, <2>9
<1>3. CASE /\ ReadResult(cur) \in {"eof", "again"}
           /\ Then(When(ReadResult(cur) = "eof", "drain"))
           /\ UNCHANGED <<inbox, pipes, interest, batch, cur, status>>
  <2> USE <1>3
  <2>1. /\ todo' \in Seq(Calls) /\ \A i \in 2..Len(todo') : todo'[i] \in {"write", "hangup"}
        /\ Pending("hangup")' => Pending("hangup")
        /\ ~First("forward")' /\ ~First("eof")'
        /\ First("drain")' => ReadResult(cur) = "eof"
    <3>1. CASE ReadResult(cur) = "eof"
      <4>1. Then(<<"drain">>) BY <3>1 DEF When
      <4>2. QED BY <1>1, <3>1, <4>1, ThenOne
    <3>2. CASE ReadResult(cur) # "eof"
      <4>1. Then(<<>>) BY <3>2 DEF When
      <4>2. QED BY <1>1, <4>1, ThenNothing
    <3>3. QED BY <3>1, <3>2
  <2> USE DEF Read
  <2>2. TypeOK' BY <2>1, Zenon DEF TypeOK
  <2>3. TodoInv' /\ ExactInv' BY <1>1, <2>1 DEF TodoInv, ExactInv
  <2>4. ResetInv' BY <2>1 DEF ResetInv
  <2>5. EndInv' BY <1>1, <2>1, EofAfterFin DEF EndInv
  <2>6. NoFinInv' BY <1>1, <2>1, EofAfterFin DEF NoFinInv
  <2>7. ArmedInv' BY <1>1, <2>1 DEF ArmedInv, Armed
  <2>8. QED BY <2>2, <2>3, <2>4, <2>5, <2>6, <2>7
<1>4. CASE ReadResult(cur) = "error" /\ Remove /\ UNCHANGED <<inbox, pipes>>
  <2>1. UNCHANGED <<sockets, pipes>> /\ condemned' = condemned BY <1>4 DEF Read, sockets
  <2>2. QED BY <1>4, <2>1, RemovedInv DEF ResetInv, TypeOK
<1>5. QED BY <1>2, <1>3, <1>4 DEF Read

\* Arming and disarming a socket.
LEMMA ArmIs ==
  ASSUME TypeOK, NEW y \in Sides, Arm(y)
  PROVE  /\ interest' \in [Sides -> SUBSET {"IN", "OUT"}]
         /\ "OUT" \in interest'[y] /\ \A x \in Sides : x # y => interest'[x] = interest[x]
         /\ interest[y] # {} => "IN" \in interest'[y]
BY DEF Arm, TypeOK

LEMMA DisarmIs ==
  ASSUME TypeOK, NEW y \in Sides, Disarm(y)
  PROVE  /\ interest' \in [Sides -> SUBSET {"IN", "OUT"}]
         /\ \A x \in Sides : x # y => interest'[x] = interest[x]
         /\ interest[y] = {} => interest'[y] = {}
         /\ interest[y] # {} => "IN" \in interest'[y]
BY DEF Disarm, TypeOK

LEMMA ForwardInv == Inv /\ Forward => Inv'
<1> SUFFICES ASSUME Inv, Forward PROVE Inv' OBVIOUS
<1> USE DEF Inv, pipes
<1> DEFINE y == Peer(cur)
           n == Least(pipe[cur], Room(y))
<1>1. /\ status = "open" /\ todo # <<>> /\ First("forward") /\ ~First("eof") /\ cur \in Sides
      /\ y \in Sides /\ y # cur /\ Peer(y) = cur
  BY PeerIs DEF Forward, Calling, First, TodoInv
<1>2. n \in Nat /\ n <= pipe[cur] /\ n <= Room(y) BY <1>1, LeastMoves
<1>3. CASE /\ WriteResult(y) = "bytes"
           /\ Forwarded(cur, n) /\ Then(<<>>)
           /\ IF pipe_bytes[cur] - n > 0 THEN Arm(y) ELSE UNCHANGED interest
           /\ UNCHANGED <<batch, cur, status>>
  <2> USE <1>3
  <2>1. /\ pipe' \in [Sides -> 0..PipeCap] /\ pipe_bytes' \in [Sides -> 0..PipeCap]
        /\ outbox' \in [Sides -> 0..SockCap] /\ pipe_bytes' = pipe'
        /\ pipe'[cur] = pipe_bytes[cur] - n /\ \A x \in Sides : x # cur => pipe'[x] = pipe[x]
    BY <1>1, <1>2, ForwardedIs
  <2>2. /\ todo' \in Seq(Calls) /\ \A i \in 1..Len(todo') : todo'[i] \in {"write", "hangup"}
        /\ Pending("hangup")' => Pending("hangup")
        /\ ~First("forward")' /\ ~First("eof")' /\ ~First("drain")'
    BY <1>1, ThenNothing
  <2> HIDE DEF n
  <2>3. CASE pipe_bytes[cur] - n > 0
    <3>1. /\ interest' \in [Sides -> SUBSET {"IN", "OUT"}]
          /\ "OUT" \in interest'[y] /\ \A x \in Sides : x # y => interest'[x] = interest[x]
          /\ interest[y] # {} => "IN" \in interest'[y]
      BY <1>1, <2>3, ArmIs
    <3> HIDE DEF y
    <3> USE DEF Forward
    <3>2. TypeOK' BY <2>1, <2>2, <3>1, Zenon DEF TypeOK
    <3>3. TodoInv' /\ ExactInv' BY <1>1, <2>1, <2>2 DEF TodoInv, ExactInv
    <3>4. ResetInv' BY <1>1, <2>2, <3>1 DEF ResetInv
    <3>5. EndInv' BY <1>1, <2>2 DEF EndInv
    <3>6. NoFinInv' BY <2>2 DEF NoFinInv
    <3>7. ArmedInv'
      <4>1. ASSUME NEW x \in Sides, pipe'[x] > 0 PROVE Armed(x)'
        <5>1. CASE x = cur BY <5>1, <1>1, <3>1 DEF Armed, y
        <5>2. CASE x # cur
          <6>1. x = y /\ pipe[x] > 0 BY <5>2, <4>1, <1>1, <2>1
          <6>2. Armed(x) BY <6>1, <5>2, <1>1 DEF ArmedInv
          <6>3. interest'[cur] = interest[cur] /\ (x = "backend" => cur = "client") BY <6>1, <1>1, <3>1
          <6>4. QED BY <6>1, <6>2, <6>3, <1>1 DEF Armed
        <5>3. QED BY <5>1, <5>2
      <4>2. QED BY <4>1 DEF ArmedInv
    <3>8. QED BY <3>2, <3>3, <3>4, <3>5, <3>6, <3>7
  <2>4. CASE ~(pipe_bytes[cur] - n > 0)
    <3> USE DEF Forward
    <3>1. interest' = interest /\ ~(pipe'[cur] > 0) BY <2>1, <2>4
    <3> HIDE DEF y
    <3>2. TypeOK' BY <2>1, <2>2, <3>1, Zenon DEF TypeOK
    <3>3. TodoInv' /\ ExactInv' BY <1>1, <2>1, <2>2 DEF TodoInv, ExactInv
    <3>4. ResetInv' BY <2>2, <3>1 DEF ResetInv
    <3>5. EndInv' BY <1>1, <2>2 DEF EndInv
    <3>6. NoFinInv' BY <2>2 DEF NoFinInv
    <3>7. ArmedInv' BY <1>1, <2>1, <3>1 DEF ArmedInv, Armed
    <3>8. QED BY <3>2, <3>3, <3>4, <3>5, <3>6, <3>7
  <2>5. QED BY <2>3, <2>4
<1>4. CASE /\ WriteResult(y) = "again"
           /\ Then(<<>>) /\ Arm(y)
           /\ UNCHANGED <<outbox, pipes, batch, cur, status>>
  <2> USE <1>4
  <2>1. /\ todo' \in Seq(Calls) /\ \A i \in 1..Len(todo') : todo'[i] \in {"write", "hangup"}
        /\ Pending("hangup")' => Pending("hangup")
        /\ ~First("forward")' /\ ~First("eof")' /\ ~First("drain")'
    BY <1>1, ThenNothing
  <2>2. /\ interest' \in [Sides -> SUBSET {"IN", "OUT"}]
        /\ "OUT" \in interest'[y] /\ \A x \in Sides : x # y => interest'[x] = interest[x]
        /\ interest[y] # {} => "IN" \in interest'[y]
    BY <1>1, ArmIs
  <2> HIDE DEF y
  <2> USE DEF Forward
  <2>3. TypeOK' BY <2>1, <2>2, Zenon DEF TypeOK
  <2>4. TodoInv' /\ ExactInv' BY <1>1, <2>1 DEF TodoInv, ExactInv
  <2>5. ResetInv' BY <1>1, <2>1, <2>2 DEF ResetInv
  <2>6. EndInv' BY <1>1, <2>1 DEF EndInv
  <2>7. NoFinInv' BY <2>1 DEF NoFinInv
  <2>8. ArmedInv'
    <3>1. ASSUME NEW x \in Sides, pipe[x] > 0 PROVE Armed(x)'
      <4>1. CASE x = cur BY <4>1, <1>1, <2>2 DEF Armed, y
      <4>2. CASE x # cur
        <5>1. x = y /\ Armed(x) BY <4>2, <3>1, <1>1 DEF ArmedInv
        <5>2. interest'[cur] = interest[cur] /\ (x = "backend" => cur = "client") BY <5>1, <1>1, <2>2
        <5>3. QED BY <5>1, <5>2, <1>1 DEF Armed
      <4>3. QED BY <4>1, <4>2
    <3>2. QED BY <3>1 DEF ArmedInv
  <2>9. QED BY <2>3, <2>4, <2>5, <2>6, <2>7, <2>8
<1>5. CASE WriteResult(y) = "error" /\ Remove /\ UNCHANGED <<outbox, pipes>>
  <2>1. UNCHANGED <<sockets, pipes>> /\ condemned' = condemned BY <1>5 DEF Forward, sockets
  <2>2. QED BY <1>5, <2>1, RemovedInv DEF ResetInv, TypeOK
<1>6. CASE WriteResult(y) = "sigpipe" /\ Killed
  BY <1>1, <1>6, SigpipeAfterFin, KilledInv DEF Forward
<1>7. QED BY <1>3, <1>4, <1>5, <1>6 DEF Forward

LEMMA DrainInv == Inv /\ Drain => Inv'
<1> SUFFICES ASSUME Inv, Drain PROVE Inv' OBVIOUS
<1> USE DEF Inv, pipes
<1> DEFINE y == Peer(cur)
           n == Least(pipe[cur], Room(y))
<1>1. /\ status = "open" /\ todo # <<>> /\ First("drain") /\ cur \in Sides
      /\ ~First("eof") /\ ~First("forward")
      /\ y \in Sides /\ y # cur /\ Peer(y) = cur
  BY PeerIs DEF Drain, Calling, First, TodoInv
<1>2. n \in Nat /\ n <= pipe[cur] /\ n <= Room(y) BY <1>1, LeastMoves
<1>3. CASE pipe_bytes[cur] > 0 /\ WriteResult(y) = "bytes" /\ Forwarded(cur, n) /\ UNCHANGED <<sk_err, todo, status>>
  <2> USE <1>3
  <2>1. /\ pipe' \in [Sides -> 0..PipeCap] /\ pipe_bytes' \in [Sides -> 0..PipeCap]
        /\ outbox' \in [Sides -> 0..SockCap] /\ pipe_bytes' = pipe'
        /\ pipe'[cur] = pipe_bytes[cur] - n /\ \A x \in Sides : x # cur => pipe'[x] = pipe[x]
    BY <1>1, <1>2, ForwardedIs
  <2>2. pipe[cur] > 0 BY DEF ExactInv
  <2> HIDE DEF n, y
  <2> USE DEF Drain
  <2>3. TypeOK' BY <2>1, Zenon DEF TypeOK
  <2>4. TodoInv' /\ ExactInv' BY <2>1 DEF TodoInv, ExactInv
  <2>5. ResetInv' BY DEF ResetInv, Pending
  <2>6. EndInv' BY DEF EndInv, First
  <2>7. NoFinInv' BY DEF NoFinInv, First
  <2>8. ArmedInv' BY <1>1, <2>1, <2>2 DEF ArmedInv, Armed, First
  <2>9. QED BY <2>3, <2>4, <2>5, <2>6, <2>7, <2>8
<1>4. CASE /\ pipe_bytes[cur] = 0 \/ WriteResult(y) \in {"again", "error"}
           /\ sk_err' = IF pipe_bytes[cur] > 0 /\ WriteResult(y) = "error"
                        THEN [sk_err EXCEPT ![y] = "none"] ELSE sk_err
           /\ Then(<<"eof">>)
           /\ UNCHANGED <<outbox, pipes, status>>
  <2> USE <1>4
  <2>1. /\ todo' \in Seq(Calls) /\ \A i \in 2..Len(todo') : todo'[i] \in {"write", "hangup"}
        /\ Pending("hangup")' => Pending("hangup")
        /\ First("eof")' /\ ~First("forward")' /\ ~First("drain")'
    BY <1>1, ThenOne
  <2>2. /\ sk_err' \in [Sides -> {"none", "reset", "pipe"}]
        /\ \A x \in Sides : sk_err'[x] # "none" => sk_err[x] # "none"
        /\ \A x \in Sides : x # y => sk_err'[x] = sk_err[x]
    BY <1>1 DEF TypeOK
  <2>3. cur = "client" => fin["client"] BY <1>1 DEF EndInv
  <2>4. fin["client"] \/ fin["backend"] BY <1>1 DEF NoFinInv
  <2> HIDE DEF n, y
  <2> USE DEF Drain
  <2>5. TypeOK' BY <2>1, <2>2, Zenon DEF TypeOK
  <2>6. TodoInv' /\ ExactInv' BY <1>1, <2>1 DEF TodoInv, ExactInv
  <2>7. ResetInv' BY <2>1, <2>2 DEF ResetInv
  <2>8. EndInv' BY <1>1, <2>1, <2>3 DEF EndInv
  <2>9. NoFinInv' BY <2>4 DEF NoFinInv
  <2>10. ArmedInv' BY <1>1, <2>1 DEF ArmedInv, Armed
  <2>11. QED BY <2>5, <2>6, <2>7, <2>8, <2>9, <2>10
<1>5. CASE WriteResult(y) = "sigpipe" /\ Killed
  BY <1>1, <1>5, SigpipeAfterFin, KilledInv DEF Drain
<1>6. QED BY <1>3, <1>4, <1>5 DEF Drain

\* The end of a stream: the client's is passed on, the backend's ends the connection.
LEMMA EofInv == Inv /\ (PassOnEof \/ BackendEof) => Inv'
<1> USE DEF Inv, pipes
<1>1. ASSUME Inv, PassOnEof PROVE Inv'
  <2> USE <1>1
  <2>1. /\ status = "open" /\ todo # <<>> /\ First("eof") /\ ~First("forward") /\ cur = "client"
        /\ fin["client"]
    BY DEF PassOnEof, Calling, First, EndInv
  <2>2. /\ todo' \in Seq(Calls) /\ \A i \in 1..Len(todo') : todo'[i] \in {"write", "hangup"}
        /\ Pending("hangup")' => Pending("hangup")
        /\ ~First("forward")' /\ ~First("eof")' /\ ~First("drain")'
    BY <2>1, ThenNothing DEF PassOnEof
  <2> USE DEF PassOnEof
  <2>3. /\ interest' \in [Sides -> SUBSET {"IN", "OUT"}]
        /\ interest'["backend"] = interest["backend"] /\ interest'["client"] = {}
    BY DEF TypeOK
  <2>4. TypeOK' BY <2>2, <2>3, Zenon DEF TypeOK
  <2>5. TodoInv' /\ ExactInv' BY <2>1, <2>2 DEF TodoInv, ExactInv
  <2>6. ResetInv' BY <2>2, <2>3 DEF ResetInv
  <2>7. EndInv' BY <2>1, <2>2 DEF EndInv
  <2>8. NoFinInv' BY <2>1 DEF NoFinInv
  <2>9. ArmedInv' BY <2>1, <2>2, <2>3, PeerIs DEF ArmedInv, Armed
  <2>10. QED BY <2>4, <2>5, <2>6, <2>7, <2>8, <2>9
<1>2. ASSUME Inv, BackendEof PROVE Inv'
  BY <1>2, RemovedInv DEF BackendEof, ResetInv, TypeOK
<1>3. QED BY <1>1, <1>2

LEMMA WriteInv == Inv /\ Write => Inv'
<1> SUFFICES ASSUME Inv, Write PROVE Inv' OBVIOUS
<1> USE DEF Inv, pipes
<1> DEFINE src == Peer(cur)
           n == Least(pipe[src], Room(cur))
<1>1. /\ status = "open" /\ todo # <<>> /\ First("write") /\ cur \in Sides
      /\ ~First("eof") /\ ~First("forward")
      /\ src \in Sides /\ src # cur /\ Peer(src) = cur
  BY PeerIs DEF Write, Calling, First, TodoInv
<1>2. n \in Nat /\ n <= pipe[src] /\ n <= Room(Peer(src)) BY <1>1, LeastMoves
<1>3. Then(<<>>) =>
        /\ todo' \in Seq(Calls) /\ \A i \in 1..Len(todo') : todo'[i] \in {"write", "hangup"}
        /\ Pending("hangup")' => Pending("hangup")
        /\ ~First("forward")' /\ ~First("eof")' /\ ~First("drain")'
  BY <1>1, ThenNothing
<1>4. CASE /\ pipe_bytes[src] = 0
           /\ Disarm(cur) /\ Then(<<>>)
           /\ UNCHANGED <<outbox, pipes, batch, cur, status>>
  <2> USE <1>4
  <2>1. /\ interest' \in [Sides -> SUBSET {"IN", "OUT"}]
        /\ \A x \in Sides : x # cur => interest'[x] = interest[x]
        /\ interest[cur] # {} => "IN" \in interest'[cur]
    BY <1>1, DisarmIs
  <2>2. ~(pipe[src] > 0) BY DEF ExactInv
  <2> HIDE DEF src, n
  <2> USE DEF Write
  <2>3. TypeOK' BY <1>3, <2>1, Zenon DEF TypeOK
  <2>4. TodoInv' /\ ExactInv' BY <1>1, <1>3 DEF TodoInv, ExactInv
  <2>5. ResetInv' BY <1>1, <1>3, <2>1 DEF ResetInv
  <2>6. EndInv' BY <1>1, <1>3 DEF EndInv
  <2>7. NoFinInv' BY <1>3 DEF NoFinInv
  <2>8. ArmedInv'
    <3>1. ASSUME NEW x \in Sides, pipe[x] > 0 PROVE Armed(x)'
      <4>1. x = cur /\ Armed(x) BY <3>1, <1>1, <2>2 DEF ArmedInv
      <4>2. interest'[src] = interest[src] /\ (x = "backend" => src = "client") BY <4>1, <1>1, <2>1
      <4>3. QED BY <4>1, <4>2 DEF Armed, src
    <3>2. QED BY <3>1 DEF ArmedInv
  <2>9. QED BY <2>3, <2>4, <2>5, <2>6, <2>7, <2>8
<1>5. CASE /\ pipe_bytes[src] > 0 /\ WriteResult(cur) = "bytes"
           /\ Forwarded(src, n) /\ Then(<<>>)
           /\ IF pipe_bytes[src] - n = 0 THEN Disarm(cur) ELSE UNCHANGED interest
           /\ UNCHANGED <<batch, cur, status>>
  <2> USE <1>5
  <2>1. /\ pipe' \in [Sides -> 0..PipeCap] /\ pipe_bytes' \in [Sides -> 0..PipeCap]
        /\ outbox' \in [Sides -> 0..SockCap] /\ pipe_bytes' = pipe'
        /\ pipe'[src] = pipe_bytes[src] - n /\ \A x \in Sides : x # src => pipe'[x] = pipe[x]
    BY <1>1, <1>2, ForwardedIs
  <2>2. pipe[src] > 0 BY DEF ExactInv
  <2>3. /\ interest' \in [Sides -> SUBSET {"IN", "OUT"}]
        /\ \A x \in Sides : x # cur => interest'[x] = interest[x]
        /\ "IN" \in interest'["backend"]
        /\ pipe'[src] > 0 => interest' = interest
    <3>1. CASE pipe_bytes[src] - n = 0
      <4>1. Disarm(cur) BY <3>1
      <4>2. ~(pipe'[src] > 0) BY <3>1, <2>1
      <4> HIDE DEF src, n
      <4>3. /\ interest' \in [Sides -> SUBSET {"IN", "OUT"}]
            /\ \A x \in Sides : x # cur => interest'[x] = interest[x]
            /\ interest[cur] # {} => "IN" \in interest'[cur]
        BY <4>1, <1>1, DisarmIs
      <4>4. "IN" \in interest'["backend"] BY <4>3, <1>1 DEF ResetInv
      <4>5. QED BY <4>2, <4>3, <4>4
    <3>2. CASE pipe_bytes[src] - n # 0
      <4>1. interest' = interest BY <3>2
      <4> HIDE DEF src, n
      <4>2. QED BY <4>1, <1>1 DEF TypeOK, ResetInv
    <3>3. QED BY <3>1, <3>2
  <2> HIDE DEF src, n
  <2> USE DEF Write
  <2>4. TypeOK' BY <1>3, <2>1, <2>3, Zenon DEF TypeOK
  <2>5. TodoInv' /\ ExactInv' BY <1>1, <1>3, <2>1 DEF TodoInv, ExactInv
  <2>6. ResetInv' BY <1>1, <1>3, <2>3 DEF ResetInv
  <2>7. EndInv' BY <1>1, <1>3 DEF EndInv
  <2>8. NoFinInv' BY <1>3 DEF NoFinInv
  <2>9. ArmedInv'
    <3>1. ASSUME NEW x \in Sides, pipe'[x] > 0 PROVE Armed(x)'
      <4>1. Armed(x) BY <3>1, <1>1, <2>1, <2>2 DEF ArmedInv
      <4>2. CASE x = src BY <3>1, <4>1, <4>2, <2>3 DEF Armed
      <4>3. CASE x # src
        <5>1. x = cur BY <4>3, <1>1
        <5>2. interest'[src] = interest[src] /\ (x = "backend" => src = "client") BY <5>1, <1>1, <2>3
        <5>3. QED BY <4>1, <5>1, <5>2 DEF Armed, src
      <4>4. QED BY <4>2, <4>3
    <3>2. QED BY <3>1 DEF ArmedInv
  <2>10. QED BY <2>4, <2>5, <2>6, <2>7, <2>8, <2>9
<1>6. CASE /\ pipe_bytes[src] > 0 /\ WriteResult(cur) = "again" /\ Then(<<>>)
           /\ UNCHANGED <<outbox, pipes, interest, batch, cur, status>>
  <2> USE <1>6
  <2> HIDE DEF src, n
  <2> USE DEF Write
  <2>1. TypeOK' BY <1>3, Zenon DEF TypeOK
  <2>2. TodoInv' /\ ExactInv' BY <1>1, <1>3 DEF TodoInv, ExactInv
  <2>3. ResetInv' BY <1>3 DEF ResetInv
  <2>4. EndInv' BY <1>1, <1>3 DEF EndInv
  <2>5. NoFinInv' BY <1>3 DEF NoFinInv
  <2>6. ArmedInv' BY <1>1 DEF ArmedInv, Armed
  <2>7. QED BY <2>1, <2>2, <2>3, <2>4, <2>5, <2>6
<1>7. CASE pipe_bytes[src] > 0 /\ WriteResult(cur) = "error" /\ Remove /\ UNCHANGED <<outbox, pipes>>
  <2>1. UNCHANGED <<sockets, pipes>> /\ condemned' = condemned BY <1>7 DEF Write, sockets
  <2>2. QED BY <1>7, <2>1, RemovedInv DEF ResetInv, TypeOK
<1>8. CASE WriteResult(cur) = "sigpipe" /\ Killed
  BY <1>1, <1>8, SigpipeAfterFin, KilledInv DEF Write
<1>9. QED BY <1>4, <1>5, <1>6, <1>7, <1>8 DEF Write

LEMMA HangupInv == Inv /\ Hangup => Inv'
<1> SUFFICES ASSUME Inv, Hangup PROVE Inv' OBVIOUS
<1>1. Pending("hangup")
  <2>1. todo \in Seq(Calls) /\ todo # <<>> /\ Head(todo) = "hangup" BY DEF Inv, TypeOK, Hangup, Calling
  <2>2. 1 \in 1..Len(todo) /\ todo[1] = "hangup" BY <2>1
  <2>3. QED BY <2>2 DEF Pending
<1>2. condemned' \in BOOLEAN /\ (condemned' => reset["backend"]) BY <1>1 DEF Hangup, Inv, ResetInv
<1>3. QED BY <1>2, RemovedInv DEF Hangup

-----------------------------------------------------------------------------
(* Theorems.                                                               *)

LEMMA InitInv == Init => Inv
<1> SUFFICES ASSUME Init PROVE Inv OBVIOUS
<1> USE DEF Init
<1>1. TypeOK
  <2>1. 0 \in 0..SockCap /\ 0 \in 0..PipeCap /\ <<>> \in Seq(Calls) OBVIOUS
  <2>2. QED BY <2>1, Zenon DEF TypeOK
<1>2. TodoInv /\ ExactInv BY DEF TodoInv, ExactInv
<1>3. ResetInv BY DEF ResetInv
<1>4. EndInv BY DEF EndInv
<1>5. NoFinInv BY DEF NoFinInv, First
<1>6. ArmedInv BY DEF ArmedInv
<1>7. QED BY <1>1, <1>2, <1>3, <1>4, <1>5, <1>6 DEF Inv

LEMMA InvHolds == Spec => []Inv
<1>1. Inv /\ UNCHANGED vars => Inv'
  <2> SUFFICES ASSUME Inv, UNCHANGED vars PROVE Inv' OBVIOUS
  <2> USE DEF Inv, vars, sockets, pipes, loop
  <2>1. TypeOK' BY Zenon DEF TypeOK
  <2>2. TodoInv' /\ ExactInv' BY DEF TodoInv, ExactInv
  <2>3. ResetInv' BY DEF ResetInv, Pending
  <2>4. EndInv' BY DEF EndInv, First
  <2>5. NoFinInv' BY DEF NoFinInv, First
  <2>6. ArmedInv' BY DEF ArmedInv, Armed, First
  <2>7. QED BY <2>1, <2>2, <2>3, <2>4, <2>5, <2>6
<1>2. Inv /\ Next => Inv'
  BY OutsideInv, DispatchInv, ReadInv, ForwardInv, DrainInv, EofInv, WriteInv, HangupInv DEF Next, LoopStep
<1>3. QED BY InitInv, <1>1, <1>2, PTL DEF Spec

\* The type invariant: no buffer and no pipe is ever written past its capacity or below zero.
THEOREM TypeCorrect == Spec => []TypeOK
<1>1. Inv => TypeOK BY DEF Inv
<1>2. QED BY <1>1, InvHolds, PTL

\* c2b_pipe_bytes and b2c_pipe_bytes are what the pipes hold, on every path (event_loop.cpp:326-455).
THEOREM CountersAreExact == Spec => []PipeBytesExact
<1>1. Inv => PipeBytesExact BY DEF Inv, ExactInv, PipeBytesExact
<1>2. QED BY <1>1, InvHolds, PTL

\* Back in epoll_wait, whatever waits in a pipe has EPOLLOUT armed (event_loop.cpp:408-455).
THEOREM WaitingBytesAreArmed == Spec => []PendingIsArmed
<1>1. Inv => PendingIsArmed
  <2> SUFFICES ASSUME Inv, status = "open", cur = "none", NEW x \in Sides, pipe[x] > 0
               PROVE  "OUT" \in interest[Peer(x)] \/ (x = "backend" /\ fin["client"] /\ interest["client"] = {})
    BY DEF PendingIsArmed
  <2>1. QED BY DEF Inv, ArmedInv, Armed
<1>2. QED BY <1>1, InvHolds, PTL

\* handle_disconnect condemns a backend for a reset only (event_loop.cpp:150-156, 457-469).
THEOREM OnlyResetsCondemn == Spec => []CondemnedForReset
<1>1. Inv => CondemnedForReset BY DEF Inv, ResetInv, CondemnedForReset
<1>2. QED BY <1>1, InvHolds, PTL

\* As long as neither side has sent a FIN, no splice raises SIGPIPE (event_loop.cpp:351-455).
THEOREM SigpipeNeedsFin == Spec => []NoSigpipeBeforeFin
<1>1. Inv => NoSigpipeBeforeFin BY DEF Inv, NoFinInv, NoSigpipeBeforeFin
<1>2. QED BY <1>1, InvHolds, PTL

-----------------------------------------------------------------------------
(* The end of a stream is acted on after its last byte.                    *)

\* From the splice that found the end to what is done about it nothing more arrives.
ReadOutInv == First("drain") \/ First("eof") => inbox[cur] = 0 /\ (fin[cur] \/ reset[cur])

LEMMA OutsideEof == ASSUME Inv, ReadOutInv, Outside PROVE ReadOutInv'
<1> USE DEF Inv, TypeOK, TodoInv, ReadOutInv, First, loop
<1>1. UNCHANGED <<cur, todo>> BY DEF Outside, Send, Receive, Finish, Reset
<1>2. SUFFICES ASSUME First("drain") \/ First("eof")
               PROVE  inbox'[cur] = 0 /\ (fin'[cur] \/ reset'[cur])
  BY <1>1
<1>3. cur \in Sides /\ inbox[cur] = 0 /\ (fin[cur] \/ reset[cur]) BY <1>2
<1>4. ASSUME NEW x \in Sides, Send(x) PROVE inbox'[cur] = 0 /\ (fin'[cur] \/ reset'[cur])
  BY <1>3, <1>4 DEF Send
<1>5. ASSUME NEW x \in Sides, Receive(x) \/ Finish(x) \/ Reset(x)
      PROVE  inbox'[cur] = 0 /\ (fin'[cur] \/ reset'[cur])
  BY <1>3, <1>5 DEF Receive, Finish, Reset
<1>6. QED BY <1>4, <1>5 DEF Outside

LEMMA ReadEof == ASSUME Inv, ReadOutInv, Read PROVE ReadOutInv'
<1>1. /\ status = "open" /\ todo # <<>> /\ cur \in Sides /\ Calling("read") /\ TypeOK /\ TodoInv
  BY DEF Read, Calling, Inv, TodoInv
<1>2. CASE ReadResult(cur) = "bytes"
  <2>1. Then(<<"forward">>) BY <1>2 DEF Read
  <2>2. ~First("eof")' /\ ~First("drain")' BY <1>1, <2>1, ThenOne
  <2>3. QED BY <2>2 DEF ReadOutInv
<1>3. CASE ReadResult(cur) = "eof"
  <2>1. pipe[cur] \in 0..PipeCap /\ inbox[cur] \in 0..SockCap /\ sk_err[cur] \in {"none", "reset", "pipe"}
    BY <1>1 DEF TypeOK
  <2>2. inbox[cur] = 0 /\ (fin[cur] \/ reset[cur]) BY <1>3, <2>1 DEF ReadResult
  <2>3. UNCHANGED <<cur, inbox, fin, reset>> BY <1>3 DEF Read
  <2>4. QED BY <2>2, <2>3 DEF ReadOutInv
<1>4. CASE ReadResult(cur) = "again"
  <2>1. Then(<<>>) BY <1>4 DEF Read, When
  <2>2. ~First("eof")' /\ ~First("drain")' BY <1>1, <2>1, ThenNothing
  <2>3. QED BY <2>2 DEF ReadOutInv
<1>5. CASE ReadResult(cur) = "error"
  BY <1>5 DEF Read, Remove, ReadOutInv, First
<1>6. QED BY <1>2, <1>3, <1>4, <1>5 DEF Read

LEMMA DrainEof == ASSUME Inv, ReadOutInv, Drain PROVE ReadOutInv'
<1>1. First("drain") /\ UNCHANGED <<inbox, cur, fin, reset>> BY DEF Drain, Calling, First, Killed
<1>2. QED BY <1>1 DEF ReadOutInv

LEMMA OtherCallsEof == ASSUME Inv, ReadOutInv, LoopStep, ~Read, ~Drain PROVE ReadOutInv'
<1> USE DEF Inv
<1>1. CASE Poll \/ NextSocket
  <2>1. UNCHANGED todo /\ UNCHANGED <<inbox, fin, reset>> BY <1>1 DEF Poll, NextSocket, sockets
  <2>2. cur' = cur \/ todo = <<>> BY <1>1 DEF Poll, NextSocket
  <2>3. QED BY <2>1, <2>2 DEF ReadOutInv, First
<1>2. ASSUME NEW x \in Sides, Serve(x) PROVE ReadOutInv'
  <2>1. batch[x] \in SUBSET Events /\ todo' = Dispatch(batch[x]) BY <1>2 DEF Serve, TypeOK
  <2>2. todo' # <<>> => Head(todo') \in {"read", "write", "hangup"} BY <2>1, DispatchIs
  <2>3. QED BY <2>2 DEF ReadOutInv, First
<1>3. CASE (Forward \/ Write \/ PassOnEof) /\ Then(<<>>)
  <2>1. todo # <<>> BY <1>3 DEF Forward, Write, PassOnEof, Calling
  <2>2. ~First("eof")' /\ ~First("drain")' BY <1>3, <2>1, ThenNothing
  <2>3. QED BY <2>2 DEF ReadOutInv
<1>4. CASE Remove BY <1>4 DEF Remove, ReadOutInv, First
<1>5. CASE (Forward \/ Write) /\ Killed
  <2>1. ~First("eof") /\ ~First("drain") BY <1>5 DEF Forward, Write, Calling, First
  <2>2. UNCHANGED todo BY <1>5 DEF Killed
  <2>3. QED BY <2>1, <2>2 DEF ReadOutInv, First
<1>6. QED BY <1>1, <1>2, <1>3, <1>4, <1>5 DEF LoopStep, Forward, Write, PassOnEof, BackendEof, Hangup

LEMMA StepEof == Inv /\ ReadOutInv /\ [Next]_vars => ReadOutInv'
<1>1. Inv /\ ReadOutInv /\ UNCHANGED vars => ReadOutInv' BY DEF ReadOutInv, First, vars, sockets, loop
<1>2. QED BY <1>1, OutsideEof, ReadEof, DrainEof, OtherCallsEof DEF Next

-----------------------------------------------------------------------------
(* What can remove a connection.                                           *)

\* A client's socket hangs up only when it has been reset, also after its FIN.
ClientHangInv ==
  /\ batch["client"] \cap {"ERR", "HUP"} # {} => reset["client"]
  /\ cur = "client" /\ Pending("hangup") => reset["client"]

LEMMA ClientReady ==
  ASSUME Inv
  PROVE  Ready("client") \cap {"ERR", "HUP"} # {} => reset["client"]
<1>1. "ERR" \in Ready("client") => reset["client"] BY DEF Ready, Inv, ResetInv
<1>2. "HUP" \in Ready("client") => reset["client"] BY DEF Ready, SendShut
<1>3. QED BY <1>1, <1>2

LEMMA StepHang == Inv /\ ClientHangInv /\ [Next]_vars => ClientHangInv'
<1> SUFFICES ASSUME Inv, ClientHangInv, [Next]_vars PROVE ClientHangInv' OBVIOUS
<1>1. reset["client"] => reset'["client"]
  BY DEF Inv, TypeOK, Next, LoopStep, Outside, Poll, Serve, NextSocket, Read, Forward, Drain, PassOnEof, BackendEof,
     Write, Hangup, Send, Receive, Finish, Reset, vars, sockets
<1>2. CASE Outside \/ UNCHANGED vars
  <2>1. UNCHANGED <<batch, cur, todo>> BY <1>2 DEF Outside, Send, Receive, Finish, Reset, loop, vars
  <2>2. QED BY <1>1, <2>1 DEF ClientHangInv, Pending
<1>3. CASE Poll
  <2>1. batch'["client"] = Ready("client") /\ cur' = "none" /\ reset' = reset BY <1>3 DEF Poll, sockets
  <2>2. QED BY <2>1, ClientReady DEF ClientHangInv
<1>4. ASSUME NEW x \in Sides, Serve(x) PROVE ClientHangInv'
  <2>1. batch[x] \in SUBSET Events /\ todo' = Dispatch(batch[x]) /\ cur' = x /\ reset' = reset
    BY <1>4 DEF Serve, Inv, TypeOK, sockets
  <2>2. Pending("hangup")' => batch[x] \cap {"ERR", "HUP"} # {} BY <2>1, DispatchIs DEF Pending
  <2>3. batch'["client"] = {} \/ batch'["client"] = batch["client"] BY <1>4 DEF Serve, Inv, TypeOK
  <2>4. QED BY <2>1, <2>2, <2>3 DEF ClientHangInv
<1>5. CASE NextSocket BY <1>5 DEF NextSocket, ClientHangInv, sockets
<1>6. CASE Remove BY <1>6 DEF Remove, ClientHangInv
<1>7. CASE (Read \/ Forward \/ Drain \/ PassOnEof \/ Write) /\ ~Remove
  <2>1. UNCHANGED <<batch, cur>>
    BY <1>7 DEF Read, Forward, Drain, PassOnEof, Write, Killed
  <2>2. \/ UNCHANGED todo
        \/ Then(<<>>) \/ Then(<<"forward">>) \/ Then(<<"drain">>) \/ Then(<<"eof">>)
    BY <1>7 DEF Read, Forward, Drain, PassOnEof, Write, Killed, When
  <2>3. todo # <<>> BY <1>7 DEF Read, Forward, Drain, PassOnEof, Write, Calling
  <2>4. Pending("hangup")' => Pending("hangup")
    <3>1. TypeOK /\ TodoInv BY DEF Inv
    <3>2. CASE UNCHANGED todo BY <3>2 DEF Pending
    <3>3. CASE Then(<<>>) BY <2>3, <3>1, <3>3, ThenNothing
    <3>4. ASSUME NEW call \in {"forward", "drain", "eof"}, Then(<<call>>)
          PROVE  Pending("hangup")' => Pending("hangup")
      BY <2>3, <3>1, <3>4, ThenOne
    <3>5. QED BY <2>2, <3>2, <3>3, <3>4
  <2>5. QED BY <1>1, <2>1, <2>4 DEF ClientHangInv
<1>8. QED
  BY <1>2, <1>3, <1>4, <1>5, <1>6, <1>7 DEF Next, LoopStep, BackendEof, Hangup

\* Every call of remove_connection has a reset, or the backend's read-out stream, behind it.
LEMMA RemovalCause ==
  ASSUME Inv, ReadOutInv, ClientHangInv, LoopStep, status' = "closed"
  PROVE  reset["client"] \/ reset["backend"] \/ (fin["backend"] /\ inbox["backend"] = 0)
<1>1. status = "open"
  BY DEF LoopStep, Poll, Serve, NextSocket, Read, Forward, Drain, PassOnEof, BackendEof, Write, Hangup, Calling
<1>2. CASE Read
  <2>1. cur \in Sides /\ ReadResult(cur) = "error" BY <1>1, <1>2 DEF Read, Calling, Inv, TodoInv, Remove
  <2>2. /\ pipe[cur] \in 0..PipeCap /\ inbox[cur] \in 0..SockCap
        /\ sk_err[cur] \in {"none", "reset", "pipe"}
    BY <2>1 DEF Inv, TypeOK
  <2>3. sk_err[cur] # "none" BY <2>1, <2>2 DEF ReadResult
  <2>4. QED BY <2>1, <2>3 DEF Inv, ResetInv
<1>3. CASE Forward \/ Write
  <2>1. cur \in Sides /\ Peer(cur) \in Sides
    BY <1>3, PeerIs DEF Forward, Write, Calling, Inv, TodoInv
  <2>2. PICK x \in Sides : WriteResult(x) = "error"
    BY <1>1, <1>3, <2>1 DEF Forward, Write, Killed
  <2>3. sk_err[x] \in {"none", "reset", "pipe"} BY DEF Inv, TypeOK
  <2>4. sk_err[x] = "reset" BY <2>2, <2>3 DEF WriteResult
  <2>5. QED BY <2>4 DEF Inv, ResetInv
<1>4. CASE BackendEof BY <1>4 DEF BackendEof, Calling, ReadOutInv, First
<1>5. CASE Hangup
  <2>1. cur \in Sides /\ todo \in Seq(Calls) /\ todo # <<>> /\ Head(todo) = "hangup"
    BY <1>5 DEF Hangup, Calling, Inv, TypeOK, TodoInv
  <2>2. 1 \in 1..Len(todo) /\ todo[1] = "hangup" BY <2>1
  <2>3. Pending("hangup") BY <2>2 DEF Pending
  <2>4. QED BY <2>1, <2>3 DEF ClientHangInv, Inv, ResetInv
<1>6. CASE Poll \/ (\E x \in Sides : Serve(x)) \/ NextSocket \/ Drain \/ PassOnEof
  BY <1>1, <1>6 DEF Poll, Serve, NextSocket, Drain, PassOnEof, Killed
<1>7. QED BY <1>2, <1>3, <1>4, <1>5, <1>6 DEF LoopStep

(***************************************************************************)
(* Without a reset a connection is removed only by the backend's end of    *)
(* stream, with everything the backend has sent taken off its socket,      *)
(* whatever the client closes and in whatever order the events are served  *)
(* (event_loop.cpp:138-156, 346-392, 408-424, 436-447).                    *)
(***************************************************************************)
THEOREM OnlyTheBackendEnds == Spec => []EndsByBackend
<1>1. Init => ReadOutInv /\ ClientHangInv /\ EndsByBackend
  BY DEF Init, ReadOutInv, First, ClientHangInv, EndsByBackend
<1>2. ASSUME Inv, ReadOutInv, ClientHangInv, EndsByBackend, [Next]_vars PROVE EndsByBackend'
  <2>1. CASE UNCHANGED vars BY <1>2, <2>1 DEF EndsByBackend, vars, sockets, loop
  <2>2. CASE Outside
    <3>1. status' = "open" BY <2>2 DEF Outside, Send, Receive, Finish, Reset, loop
    <3>2. QED BY <3>1 DEF EndsByBackend
  <2>3. CASE LoopStep
    <3>1. SUFFICES ASSUME status' = "closed"
                   PROVE  reset'["client"] \/ reset'["backend"] \/ (fin'["backend"] /\ inbox'["backend"] = 0)
      BY DEF EndsByBackend
    <3>2. reset["client"] \/ reset["backend"] \/ (fin["backend"] /\ inbox["backend"] = 0)
      BY <1>2, <2>3, <3>1, RemovalCause
    <3>3. UNCHANGED <<reset, fin>> /\ (UNCHANGED inbox \/ Read)
      BY <2>3 DEF LoopStep, Poll, Serve, NextSocket, Read, Forward, Drain, PassOnEof, BackendEof, Write, Hangup, sockets
    <3>4. Read => UNCHANGED inbox
      <4>1. Read => status = "open" BY DEF Read, Calling
      <4>2. QED BY <3>1, <4>1 DEF Read
    <3>5. QED BY <3>2, <3>3, <3>4
  <2>4. QED BY <1>2, <2>1, <2>2, <2>3 DEF Next
<1>3. QED BY <1>1, <1>2, InitInv, InvHolds, StepEof, StepHang, PTL DEF Spec

=============================================================================

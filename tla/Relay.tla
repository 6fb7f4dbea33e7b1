------------------------------- MODULE Relay -------------------------------
(***************************************************************************)
(* One established connection of an EventLoop: bytes move from each of its *)
(* two sockets through a pipe to the other one, driven by level-triggered  *)
(* epoll events.  One action of the loop is one system call of             *)
(* EventLoop::run, handle_read, handle_write, handle_disconnect or         *)
(* remove_connection, with the code up to the next one; clients, backends  *)
(* and the kernel act between any two of them.                             *)
(*                                                                         *)
(* Bytes are counted, not told apart: splice keeps their order.            *)
(***************************************************************************)
EXTENDS Integers, Sequences

CONSTANTS
  SockCap,   \* bound: what a socket's buffer holds, in units
  PipeCap    \* what a pipe holds (BUFFER_SIZE is the size of a whole pipe)

ASSUME SockCapAssumption == SockCap \in Nat \ {0}
ASSUME PipeCapAssumption == PipeCap \in Nat \ {0}

Sides   == {"client", "backend"}
Peer(x) == IF x = "client" THEN "backend" ELSE "client"

VARIABLES
  \* the sockets, by the side they are connected to
  inbox,       \* bytes received and not yet read by the gateway
  outbox,      \* bytes the gateway has sent and the other side has not read
  fin,         \* the other side has closed its sending direction
  reset,       \* the other side has reset the connection
  sk_err,      \* the error the socket will report next ("none", "reset", "pipe")
  shut,        \* shutdown(backend_fd, SHUT_WR) has been called
  \* the pipes, by the side the bytes come from
  pipe,        \* bytes in the pipe
  pipe_bytes,  \* c2b_pipe_bytes, b2c_pipe_bytes
  \* the event loop
  interest,    \* epoll interest in the side's socket; {} when it is not registered
  batch,       \* events returned by epoll_wait and not yet dispatched
  cur, todo,   \* the socket being served, and the calls left to make for it
  status,      \* "open", "closed" (removed) or "killed" (by SIGPIPE)
  condemned    \* handle_disconnect has set is_healthy to false

sockets == <<inbox, outbox, fin, reset, sk_err, shut>>
pipes   == <<pipe, pipe_bytes>>
loop    == <<interest, batch, cur, todo, status, condemned>>
vars    == <<sockets, pipes, loop>>

Calls  == {"read", "forward", "drain", "eof", "write", "hangup"}
Events == {"IN", "OUT", "HUP", "ERR"}

TypeOK ==
  /\ inbox \in [Sides -> 0..SockCap] /\ outbox \in [Sides -> 0..SockCap]
  /\ fin \in [Sides -> BOOLEAN] /\ reset \in [Sides -> BOOLEAN]
  /\ sk_err \in [Sides -> {"none", "reset", "pipe"}] /\ shut \in BOOLEAN
  /\ pipe \in [Sides -> 0..PipeCap] /\ pipe_bytes \in [Sides -> 0..PipeCap]
  /\ interest \in [Sides -> SUBSET {"IN", "OUT"}]
  /\ batch \in [Sides -> SUBSET Events]
  /\ cur \in Sides \cup {"none"} /\ todo \in Seq(Calls)
  /\ status \in {"open", "closed", "killed"} /\ condemned \in BOOLEAN

\* handle_accept has just registered both sockets.
Init ==
  /\ inbox = [x \in Sides |-> 0] /\ outbox = [x \in Sides |-> 0]
  /\ fin = [x \in Sides |-> FALSE] /\ reset = [x \in Sides |-> FALSE]
  /\ sk_err = [x \in Sides |-> "none"] /\ shut = FALSE
  /\ pipe = [x \in Sides |-> 0] /\ pipe_bytes = [x \in Sides |-> 0]
  /\ interest = [x \in Sides |-> {"IN"}] /\ batch = [x \in Sides |-> {}]
  /\ cur = "none" /\ todo = <<>> /\ status = "open" /\ condemned = FALSE

Least(a, b) == IF a <= b THEN a ELSE b

-----------------------------------------------------------------------------
(* What the kernel answers. *)

SendShut(x) == reset[x] \/ (x = "backend" /\ shut)
Room(x)     == SockCap - outbox[x]

Ready(x) == LET Holds(e) == CASE e = "IN"  -> inbox[x] > 0 \/ fin[x] \/ reset[x]
                              [] e = "OUT" -> Room(x) > 0 \/ SendShut(x)
                              [] e = "HUP" -> reset[x] \/ (fin[x] /\ SendShut(x))
                              [] e = "ERR" -> sk_err[x] # "none"
            IN  {e \in interest[x] \cup {"HUP", "ERR"} : interest[x] # {} /\ Holds(e)}

\* splice from x's socket into its pipe: a full pipe answers EAGAIN, whatever
\* the socket has to report; bytes come before the end of the stream.
ReadResult(x) ==
  CASE pipe[x] = PipeCap     -> "again"
    [] pipe[x] < PipeCap /\ inbox[x] > 0 -> "bytes"
    [] pipe[x] < PipeCap /\ inbox[x] = 0 /\ fin[x] -> "eof"
    [] pipe[x] < PipeCap /\ inbox[x] = 0 /\ ~fin[x] /\ sk_err[x] # "none" -> "error"
    [] pipe[x] < PipeCap /\ inbox[x] = 0 /\ ~fin[x] /\ sk_err[x] = "none" ->
         IF reset[x] THEN "eof" ELSE "again"

\* splice to x's socket.  Without an error to report, a socket that can no longer
\* send raises SIGPIPE, as does one whose error is EPIPE; splice has no MSG_NOSIGNAL.
WriteResult(x) ==
  CASE sk_err[x] = "reset" -> "error"
    [] sk_err[x] = "pipe" -> "sigpipe"
    [] sk_err[x] = "none" /\ SendShut(x) -> "sigpipe"
    [] sk_err[x] = "none" /\ ~SendShut(x) -> IF Room(x) > 0 THEN "bytes" ELSE "again"

-----------------------------------------------------------------------------
(* The two sides. *)

Send(x) ==
  /\ status = "open" /\ ~fin[x] /\ ~reset[x] /\ inbox[x] < SockCap
  /\ inbox' = [inbox EXCEPT ![x] = @ + 1]
  /\ UNCHANGED <<outbox, fin, reset, sk_err, shut, pipes, loop>>

Receive(x) ==
  /\ status = "open" /\ outbox[x] > 0
  /\ outbox' = [outbox EXCEPT ![x] = 0]
  /\ UNCHANGED <<inbox, fin, reset, sk_err, shut, pipes, loop>>

Finish(x) ==
  /\ status = "open" /\ ~fin[x] /\ ~reset[x]
  /\ fin' = [fin EXCEPT ![x] = TRUE]
  /\ UNCHANGED <<inbox, outbox, reset, sk_err, shut, pipes, loop>>

\* A reset that finds the socket in CLOSE_WAIT is reported as EPIPE.
Reset(x) ==
  /\ status = "open" /\ ~reset[x]
  /\ reset' = [reset EXCEPT ![x] = TRUE]
  /\ sk_err' = [sk_err EXCEPT ![x] = IF fin[x] /\ ~SendShut(x) THEN "pipe" ELSE "reset"]
  /\ outbox' = [outbox EXCEPT ![x] = 0]
  /\ UNCHANGED <<inbox, fin, shut, pipes, loop>>

-----------------------------------------------------------------------------
(* The event loop. *)

\* epoll_wait.
Poll ==
  /\ status = "open" /\ cur = "none" /\ \A x \in Sides : batch[x] = {}
  /\ \E x \in Sides : Ready(x) # {}
  /\ batch' = [x \in Sides |-> Ready(x)]
  /\ UNCHANGED <<sockets, pipes, interest, cur, todo, status, condemned>>

When(cond, call) == IF cond THEN <<call>> ELSE <<>>

\* Deviation: every hang-up is a disconnect.
DispatchHangsUp(ev) ==
  When("IN" \in ev, "read") \o When("OUT" \in ev, "write") \o When(ev \cap {"ERR", "HUP"} # {}, "hangup")

\* The calls run makes for a socket with events ev, as long as it stays connected.
Dispatch(ev) ==
  LET graceful == "HUP" \in ev /\ "IN" \in ev /\ "ERR" \notin ev
  IN  When("IN" \in ev, "read") \o When("OUT" \in ev, "write")
        \o When(ev \cap {"ERR", "HUP"} # {} /\ ~graceful, "hangup")

Serve(x) ==
  /\ status = "open" /\ cur = "none" /\ batch[x] # {}
  /\ cur' = x
  /\ todo' = Dispatch(batch[x])
  /\ batch' = [batch EXCEPT ![x] = {}]
  /\ UNCHANGED <<sockets, pipes, interest, status, condemned>>

NextSocket ==
  /\ status = "open" /\ cur # "none" /\ todo = <<>>
  /\ cur' = "none"
  /\ UNCHANGED <<sockets, pipes, interest, batch, todo, status, condemned>>

Calling(call) == status = "open" /\ todo # <<>> /\ Head(todo) = call

Then(calls) == todo' = calls \o Tail(todo)

\* remove_connection: nothing is left to do for either socket.
Remove ==
  /\ status' = "closed"
  /\ todo' = <<>> /\ batch' = [x \in Sides |-> {}] /\ cur' = "none"
  /\ UNCHANGED interest

Killed == status' = "killed" /\ UNCHANGED <<pipes, interest, batch, cur, todo, outbox, sk_err>>

\* Deviation: the counter is not lowered.
ForwardedUncounted(src, n) ==
  /\ pipe' = [pipe EXCEPT ![src] = @ - n]
  /\ outbox' = [outbox EXCEPT ![Peer(src)] = @ + n]
  /\ UNCHANGED pipe_bytes

\* Moving n bytes of src's pipe to its peer, and the counter with them.
Forwarded(src, n) ==
  /\ pipe' = [pipe EXCEPT ![src] = @ - n]
  /\ pipe_bytes' = [pipe_bytes EXCEPT ![src] = @ - n]
  /\ outbox' = [outbox EXCEPT ![Peer(src)] = @ + n]

\* Deviation: bytes <= 0 is taken for the end of the stream, EAGAIN included.
ReadEndsOnEagain ==
  /\ Calling("read")
  /\ LET n == Least(inbox[cur], PipeCap - pipe[cur])
         result == ReadResult(cur)
     IN  \/ /\ result = "bytes"
            /\ inbox' = [inbox EXCEPT ![cur] = @ - n]
            /\ pipe' = [pipe EXCEPT ![cur] = @ + n]
            /\ pipe_bytes' = [pipe_bytes EXCEPT ![cur] = @ + n]
            /\ Then(<<"forward">>)
         \/ /\ result # "bytes"
            /\ Then(<<"drain">>)
            /\ UNCHANGED <<inbox, pipes>>
  /\ UNCHANGED <<outbox, fin, reset, sk_err, shut, interest, batch, cur, status, condemned>>

\* handle_read: splice from the socket.
Read ==
  /\ Calling("read")
  /\ LET n == Least(inbox[cur], PipeCap - pipe[cur])
         result == ReadResult(cur)
     IN  \/ /\ result = "bytes"
            /\ inbox' = [inbox EXCEPT ![cur] = @ - n]
            /\ pipe' = [pipe EXCEPT ![cur] = @ + n]
            /\ pipe_bytes' = [pipe_bytes EXCEPT ![cur] = @ + n]
            /\ Then(<<"forward">>)
            /\ UNCHANGED <<interest, batch, cur, status>>
         \/ /\ result \in {"eof", "again"}
            /\ Then(When(result = "eof", "drain"))
            /\ UNCHANGED <<inbox, pipes, interest, batch, cur, status>>
         \/ /\ result = "error"
            /\ Remove
            /\ UNCHANGED <<inbox, pipes>>
  /\ UNCHANGED <<outbox, fin, reset, sk_err, shut, condemned>>

\* Deviation: an already registered socket is modified to EPOLLIN only.
ArmForgetsOut(x) == interest' = [interest EXCEPT ![x] = IF @ = {} THEN {"OUT"} ELSE {"IN"}]

\* Bytes remain in the pipe: ask for EPOLLOUT, registering the socket again if it
\* had been taken out.
Arm(x) == interest' = [interest EXCEPT ![x] = IF @ = {} THEN {"OUT"} ELSE {"IN", "OUT"}]

\* Deviation: an error of the second splice is taken for EAGAIN.
ForwardIgnoresError ==
  /\ Calling("forward")
  /\ LET y == Peer(cur)
         n == Least(pipe[cur], Room(y))
         result == WriteResult(y)
     IN  \/ /\ result = "bytes"
            /\ Forwarded(cur, n) /\ Then(<<>>)
            /\ IF pipe_bytes[cur] - n > 0 THEN Arm(y) ELSE UNCHANGED interest
            /\ UNCHANGED <<batch, cur, sk_err, status>>
         \/ /\ result \in {"again", "error"}
            /\ sk_err' = [sk_err EXCEPT ![y] = "none"]
            /\ Then(<<>>) /\ Arm(y)
            /\ UNCHANGED <<outbox, pipes, batch, cur, status>>
         \/ /\ result = "sigpipe"
            /\ Killed
  /\ UNCHANGED <<inbox, fin, reset, shut, condemned>>

\* handle_read: splice on to the peer at once.
Forward ==
  /\ Calling("forward")
  /\ LET y == Peer(cur)
         n == Least(pipe[cur], Room(y))
         result == WriteResult(y)
     IN  \/ /\ result = "bytes"
            /\ Forwarded(cur, n) /\ Then(<<>>)
            /\ IF pipe_bytes[cur] - n > 0 THEN Arm(y) ELSE UNCHANGED interest
            /\ UNCHANGED <<batch, cur, status>>
         \/ /\ result = "again"
            /\ Then(<<>>) /\ Arm(y)
            /\ UNCHANGED <<outbox, pipes, batch, cur, status>>
         \/ /\ result = "error"
            /\ Remove
            /\ UNCHANGED <<outbox, pipes>>
         \/ /\ result = "sigpipe"
            /\ Killed
  /\ UNCHANGED <<inbox, fin, reset, sk_err, shut, condemned>>

\* handle_read at the end of the stream: while (*pipe_bytes > 0), stopping at the
\* first splice that moves nothing.
Drain ==
  /\ Calling("drain")
  /\ LET y == Peer(cur)
         n == Least(pipe[cur], Room(y))
         result == WriteResult(y)
     IN  \/ /\ pipe_bytes[cur] > 0 /\ result = "bytes"
            /\ Forwarded(cur, n)
            /\ UNCHANGED <<sk_err, todo, status>>
         \/ /\ pipe_bytes[cur] = 0 \/ result \in {"again", "error"}
            /\ sk_err' = IF pipe_bytes[cur] > 0 /\ result = "error" THEN [sk_err EXCEPT ![y] = "none"] ELSE sk_err
            /\ Then(<<"eof">>)
            /\ UNCHANGED <<outbox, pipes, status>>
         \/ /\ pipe_bytes[cur] > 0 /\ result = "sigpipe"
            /\ Killed
  /\ UNCHANGED <<inbox, fin, reset, shut, interest, batch, cur, condemned>>

\* Deviation: the client's socket is taken out, its end not passed on.
PassOnEofSilently ==
  /\ Calling("eof") /\ cur = "client"
  /\ interest' = [interest EXCEPT !["client"] = {}]
  /\ Then(<<>>)
  /\ UNCHANGED <<sockets, pipes, batch, cur, status, condemned>>

\* The client's end is passed on and its socket taken out of epoll; the backend's
\* ends the connection.
PassOnEof ==
  /\ Calling("eof") /\ cur = "client"
  /\ shut' = TRUE
  /\ interest' = [interest EXCEPT !["client"] = {}]
  /\ Then(<<>>)
  /\ UNCHANGED <<inbox, outbox, fin, reset, sk_err, pipes, batch, cur, status, condemned>>

BackendEof ==
  /\ Calling("eof") /\ cur = "backend"
  /\ Remove
  /\ UNCHANGED <<sockets, pipes, condemned>>

\* EPOLL_CTL_MOD to EPOLLIN, which fails for a socket that is not registered.
Disarm(x) == interest' = [interest EXCEPT ![x] = IF @ = {} THEN {} ELSE {"IN"}]

\* handle_write.
Write ==
  /\ Calling("write")
  /\ LET src == Peer(cur)
         n == Least(pipe[src], Room(cur))
         result == WriteResult(cur)
     IN  \/ /\ pipe_bytes[src] = 0
            /\ Disarm(cur) /\ Then(<<>>)
            /\ UNCHANGED <<outbox, pipes, batch, cur, status>>
         \/ /\ pipe_bytes[src] > 0 /\ result = "bytes"
            /\ Forwarded(src, n) /\ Then(<<>>)
            /\ IF pipe_bytes[src] - n = 0 THEN Disarm(cur) ELSE UNCHANGED interest
            /\ UNCHANGED <<batch, cur, status>>
         \/ /\ pipe_bytes[src] > 0 /\ result = "again"
            /\ Then(<<>>)
            /\ UNCHANGED <<outbox, pipes, interest, batch, cur, status>>
         \/ /\ pipe_bytes[src] > 0 /\ result = "error"
            /\ Remove
            /\ UNCHANGED <<outbox, pipes>>
         \/ /\ pipe_bytes[src] > 0 /\ result = "sigpipe"
            /\ Killed
  /\ UNCHANGED <<inbox, fin, reset, sk_err, shut, condemned>>

\* handle_disconnect.
Hangup ==
  /\ Calling("hangup")
  /\ condemned' = (cur = "backend")
  /\ Remove
  /\ UNCHANGED <<sockets, pipes>>

-----------------------------------------------------------------------------

LoopStep ==
  \/ Poll \/ (\E x \in Sides : Serve(x)) \/ NextSocket
  \/ Read \/ Forward \/ Drain \/ PassOnEof \/ BackendEof \/ Write \/ Hangup

Outside == \E x \in Sides : Send(x) \/ Receive(x) \/ Finish(x) \/ Reset(x)

Next == LoopStep \/ Outside

Spec == Init /\ [][Next]_vars

\* The loop's thread runs, and both sides keep reading what reaches them; they
\* need not send, close or reset anything.
FairSpec == Spec /\ WF_vars(LoopStep) /\ \A x \in Sides : WF_vars(Receive(x))

-----------------------------------------------------------------------------
(* Properties. *)

(***************************************************************************)
(* The counters that end the drain loop and decide about EPOLLOUT are the  *)
(* pipes' real contents, on every path that moves bytes.                   *)
(***************************************************************************)
PipeBytesExact == status = "open" => pipe_bytes = pipe

(***************************************************************************)
(* Whenever the loop is back in epoll_wait, bytes waiting in a pipe have   *)
(* EPOLLOUT armed on the socket they are for: the transfer resumes without *)
(* new input.  Only a client that has half-closed is left out: its socket  *)
(* may have been taken out of epoll with bytes still waiting for it.       *)
(***************************************************************************)
PendingIsArmed ==
  status = "open" /\ cur = "none" =>
    \A x \in Sides : pipe[x] > 0 =>
      "OUT" \in interest[Peer(x)] \/ (x = "backend" /\ fin["client"] /\ interest["client"] = {})

(***************************************************************************)
(* handle_disconnect takes a backend out of rotation only after it has     *)
(* reset a connection; one that closes in an orderly way, even while       *)
(* bytes are pending in both directions, stays healthy.                    *)
(***************************************************************************)
CondemnedForReset == condemned => reset["backend"]

(***************************************************************************)
(* As long as neither side has closed its sending direction, no sequence   *)
(* of resets lets a splice raise SIGPIPE: the first write to a reset       *)
(* socket reports the error and the connection is removed before another.  *)
(***************************************************************************)
NoSigpipeBeforeFin == status = "killed" => fin["client"] \/ fin["backend"]

(***************************************************************************)
(* The response is read to its end: a connection that neither side has     *)
(* reset is removed only when the backend has ended its stream and the     *)
(* gateway has taken all of it off the socket.  A client that half-closes, *)
(* a splice that moves nothing and a hang-up that run passes over never    *)
(* end it.  What has been read need not have been delivered: the removal   *)
(* throws away whatever is left in the two pipes, and with the client's    *)
(* socket the input the gateway had not read from it.                      *)
(***************************************************************************)
EndsByBackend ==
  status = "closed" => reset["client"] \/ reset["backend"] \/ (fin["backend"] /\ inbox["backend"] = 0)

(***************************************************************************)
(* If the client does not half-close, a backend that has finished sending  *)
(* sees its connection end, however full pipe and sockets are meanwhile.   *)
(* A process killed by SIGPIPE ends its connections too.                   *)
(***************************************************************************)
BackendFinEnds == (<>fin["client"]) \/ (fin["backend"] ~> status # "open")

(***************************************************************************)
(* A client's half-close reaches the backend, or the connection ends: by   *)
(* its removal, or with the process that SIGPIPE kills.                    *)
(***************************************************************************)
HalfCloseReaches == fin["client"] ~> (shut \/ status # "open")

(***************************************************************************)
(* What run says where it passes over a hang-up: "Graceful EOF with        *)
(* pending data. Let handle_read handle it in a future iteration."         *)
(***************************************************************************)
GracefulEof == {"HUP", "IN"} \subseteq Ready("backend") /\ "ERR" \notin Ready("backend")
EofIsHandled == (status = "open" /\ GracefulEof) ~> (status # "open" \/ ~GracefulEof)

=============================================================================

------------------------ MODULE BackendPool_proofs ------------------------
(***************************************************************************)
(* Invariance proofs for BackendPool, for any number of workers, clients,  *)
(* descriptors and backends.                                               *)
(***************************************************************************)
EXTENDS BackendPool, FiniteSetTheorems, TLAPS

\* What a thread's locals hold at each point of its handlers.
LocalsInv ==
  /\ \A w \in Workers :
       /\ pc[w] \in IdlePcs <=> cli[w] = None
       /\ pc[w] \in IdlePcs => attempt[w] = 0
       /\ pc[w] \in AcceptPcs \ {"drop"} => attempt[w] < NumBackends
       /\ pc[w] = "compare" => other[w] \in Backends
       /\ pc[w] \in {"compare", "charge", "erase"} \cup ChargedPcs => chosen[w] \in Backends
  /\ hcSock # None => hcAt # 0

\* How a worker's locals agree with the connection table.
TableInv ==
  /\ \A w \in Workers :
       /\ cli[w] # None => owner[cli[w]] = w
       /\ pc[w] \in AcceptPcs => conn[cli[w]] = None
       /\ pc[w] \in RemovePcs => conn[cli[w]] = chosen[w]
  /\ \A c \in Clients : conn[c] # None => owner[c] # None

Inv == TypeOK /\ LocalsInv /\ TableInv

USE NumBackendsAssumption, NoneAssumption DEF Backends

-----------------------------------------------------------------------------
(* Types, locals and the connection table.                                 *)

LEMMA InitInv == Init => Inv
BY DEF Init, Inv, TypeOK, LocalsInv, TableInv, IdlePcs, AcceptPcs, RemovePcs, ChargedPcs

LEMMA DoneTypes ==
  ASSUME TypeOK, NEW w \in Workers, NEW label \in IdlePcs, Done(w, label)
  PROVE  /\ pc' \in [Workers -> IdlePcs \cup AcceptPcs \cup RemovePcs]
         /\ cli' \in [Workers -> Clients \cup {None}]
         /\ at' \in [Workers -> 1..(NumBackends + 1)]
         /\ healthy_indices' \in [Workers -> SUBSET Backends]
         /\ chosen' \in [Workers -> Backends \cup {None}]
         /\ other' \in [Workers -> Backends \cup {None}]
         /\ load' \in [Workers -> Int]
         /\ attempt' \in [Workers -> 0..NumBackends]
BY DEF TypeOK, Goto, Done

\* A changed entry of a well-typed table.
LEMMA Updated ==
  ASSUME NEW S, NEW T, NEW f \in [S -> T], NEW x, NEW v \in T
  PROVE  [f EXCEPT ![x] = v] \in [S -> T]
OBVIOUS

\* choose_server.
LEMMA ChooseServerInv ==
  ASSUME Inv, NEW w \in Workers,
         ReadHealth(w) \/ NoneHealthy(w) \/ TakeOnly(w) \/ DrawTwo(w) \/ Compare(w)
  PROVE  Inv'
<1> USE DEF Inv, TypeOK, LocalsInv, TableInv, IdlePcs, AcceptPcs, RemovePcs, ChargedPcs,
            shared, picks, table, worker, hc, env, Goto
<1>1. CASE ReadHealth(w)
  <2>1. at' \in [Workers -> 1..(NumBackends + 1)] BY <1>1 DEF ReadHealth
  <2>2. healthy_indices' \in [Workers -> SUBSET Backends] BY <1>1 DEF ReadHealth
  <2>3. TypeOK'
    <3>1. UNCHANGED <<is_healthy, active_connections, gauge, pc, cli, chosen, other, load, attempt,
                      owner, conn, watch_sockets, watched, hcAt, hcSock, up, ready>>
      BY <1>1 DEF ReadHealth
    <3>2. QED BY <2>1, <2>2, <3>1, Zenon
  <2>4. LocalsInv' /\ TableInv' BY <1>1, SMTT(30) DEF ReadHealth
  <2>5. QED BY <2>3, <2>4
<1>2. CASE NoneHealthy(w) BY <1>2, SMTT(60) DEF NoneHealthy
<1>3. CASE TakeOnly(w)
  <2>1. PICK b \in Backends : chosen' = [chosen EXCEPT ![w] = b] BY <1>3 DEF TakeOnly
  <2>2. chosen' \in [Workers -> Backends \cup {None}] /\ chosen'[w] \in Backends BY <2>1
  <2>3. TypeOK' BY <1>3, <2>2, SMTT(30) DEF TakeOnly
  <2>4. LocalsInv' BY <1>3, <2>1, <2>2, SMTT(30) DEF TakeOnly
  <2>5. TableInv' BY <1>3, SMTT(30) DEF TakeOnly
  <2>6. QED BY <2>3, <2>4, <2>5
<1>4. CASE DrawTwo(w)
  <2>1. PICK p \in Candidates(healthy_indices[w]) :
          /\ chosen' = [chosen EXCEPT ![w] = p[1]]
          /\ other' = [other EXCEPT ![w] = p[2]]
          /\ load' = [load EXCEPT ![w] = active_connections[p[1]]]
    BY <1>4 DEF DrawTwo
  <2>2. p[1] \in Backends /\ p[2] \in Backends BY DEF Candidates
  <2>3. TypeOK' BY <1>4, <2>1, <2>2, SMTT(30) DEF DrawTwo
  <2>4. LocalsInv'
    <3>1. /\ pc[w] = "scan" /\ pc' = [pc EXCEPT ![w] = "compare"]
          /\ UNCHANGED <<cli, attempt, hcSock, hcAt>>
      BY <1>4 DEF DrawTwo
    <3>2. chosen'[w] \in Backends /\ other'[w] \in Backends BY <2>1, <2>2
    <3>3. \A u \in Workers \ {w} : chosen'[u] = chosen[u] /\ other'[u] = other[u] /\ pc'[u] = pc[u]
      BY <2>1, <3>1
    <3>4. QED BY <3>1, <3>2, <3>3
  <2>5. TableInv' BY <1>4, SMTT(30) DEF DrawTwo
  <2>6. QED BY <2>3, <2>4, <2>5
<1>5. CASE Compare(w)
  <2>1. chosen' \in [Workers -> Backends \cup {None}] BY <1>5 DEF Compare
  <2>2. TypeOK' BY <1>5, <2>1, SMTT(30) DEF Compare
  <2>3. LocalsInv' BY <1>5, SMTT(30) DEF Compare
  <2>4. TableInv' BY <1>5, SMTT(30) DEF Compare
  <2>5. QED BY <2>2, <2>3, <2>4
<1>6. QED BY <1>1, <1>2, <1>3, <1>4, <1>5

\* Getting a client and a backend: the attempt loop of handle_accept.
LEMMA AttemptInv ==
  ASSUME Inv, NEW w \in Workers,
         \/ (\E c \in Clients : AcceptClient(w, c)) \/ AcceptEnds(w)
         \/ Charge(w) \/ Connect(w) \/ ConnectFails(w) \/ MarkUnhealthy(w) \/ Release(w)
  PROVE  Inv'
<1> USE DEF Inv, LocalsInv, TableInv, ChargedPcs, shared, picks, table, worker, hc, env, Goto
<1>1. CASE \E c \in Clients : AcceptClient(w, c)
  <2>1. PICK c \in Clients : AcceptClient(w, c) BY <1>1
  <2>2. pc' \in [Workers -> IdlePcs \cup AcceptPcs \cup RemovePcs]
    BY <2>1 DEF AcceptClient, TypeOK, AcceptPcs
  <2>3. owner' \in [Clients -> Workers \cup {None}] /\ cli' \in [Workers -> Clients \cup {None}]
    BY <2>1 DEF AcceptClient, TypeOK
  <2>7. TypeOK' BY <2>1, <2>2, <2>3, SMTT(30) DEF AcceptClient, TypeOK
  <2>4. LocalsInv' BY <2>1, SMTT(30) DEF AcceptClient, TypeOK, AcceptPcs, IdlePcs
  <2>5. TableInv' BY <2>1, SMTT(30) DEF AcceptClient, TypeOK, AcceptPcs, RemovePcs, IdlePcs
  <2>6. QED BY <2>4, <2>5, <2>7
<1>2. CASE Charge(w)
  <2>1. chosen[w] \in Backends BY <1>2 DEF Charge
  <2>2. active_connections' \in [Backends -> Int] BY <1>2, <2>1 DEF Charge, TypeOK
  <2>3. pc' \in [Workers -> IdlePcs \cup AcceptPcs \cup RemovePcs] BY <1>2 DEF Charge, TypeOK, AcceptPcs
  <2>4. TypeOK' BY <1>2, <2>2, <2>3, SMTT(30) DEF Charge, TypeOK
  <2>5. LocalsInv' /\ TableInv' BY <1>2, <2>1, SMTT(30) DEF Charge, TypeOK, AcceptPcs, RemovePcs, IdlePcs
  <2>6. QED BY <2>4, <2>5
<1>3. CASE Connect(w)
  <2>1. chosen[w] \in Backends BY <1>3 DEF Connect
  <2>2. TypeOK' BY <1>3, SMTT(30) DEF Connect, TypeOK, AcceptPcs, RemovePcs
  <2>3. LocalsInv' /\ TableInv' BY <1>3, <2>1, SMTT(30) DEF Connect, TypeOK, AcceptPcs, RemovePcs, IdlePcs
  <2>4. QED BY <2>2, <2>3
<1>4. CASE ConnectFails(w)
  <2>1. TypeOK' BY <1>4, SMTT(30) DEF ConnectFails, TypeOK, AcceptPcs, RemovePcs
  <2>2. LocalsInv' BY <1>4, SMTT(30) DEF ConnectFails, TypeOK, AcceptPcs, RemovePcs, IdlePcs
  <2>3. TableInv' BY <1>4, SMTT(30) DEF ConnectFails, TypeOK, AcceptPcs, RemovePcs, IdlePcs
  <2>4. QED BY <2>1, <2>2, <2>3
<1>5. CASE MarkUnhealthy(w)
  <2>1. TypeOK' BY <1>5, SMTT(30) DEF MarkUnhealthy, TypeOK, AcceptPcs, RemovePcs
  <2>2. LocalsInv' BY <1>5, SMTT(30) DEF MarkUnhealthy, TypeOK, AcceptPcs, RemovePcs, IdlePcs
  <2>3. TableInv' BY <1>5, SMTT(30) DEF MarkUnhealthy, TypeOK, AcceptPcs, RemovePcs, IdlePcs
  <2>4. QED BY <2>1, <2>2, <2>3
<1>6. CASE Release(w)
  <2>1. chosen[w] \in Backends /\ attempt[w] < NumBackends BY <1>6 DEF Release, AcceptPcs
  <2>2. active_connections' \in [Backends -> Int] BY <1>6, <2>1 DEF Release, TypeOK
  <2>3. pc' \in [Workers -> IdlePcs \cup AcceptPcs \cup RemovePcs] BY <1>6 DEF Release, TypeOK, AcceptPcs
  <2>4. attempt' \in [Workers -> 0..NumBackends] BY <1>6, <2>1 DEF Release, TypeOK
  <2>5. /\ at' \in [Workers -> 1..(NumBackends + 1)]
        /\ healthy_indices' \in [Workers -> SUBSET Backends]
        /\ chosen' \in [Workers -> Backends \cup {None}]
    BY <1>6 DEF Release, TypeOK
  <2>6. TypeOK' BY <1>6, <2>2, <2>3, <2>4, <2>5, SMTT(30) DEF Release, TypeOK
  <2>7. LocalsInv' /\ TableInv' BY <1>6, <2>1, SMTT(30) DEF Release, TypeOK, AcceptPcs, RemovePcs, IdlePcs
  <2>8. QED BY <2>6, <2>7
<1>7. CASE AcceptEnds(w)
  <2>1. TypeOK' BY <1>7 DEF AcceptEnds, TypeOK, IdlePcs
  <2>2. LocalsInv' /\ TableInv' BY <1>7 DEF AcceptEnds, TypeOK, AcceptPcs, RemovePcs, IdlePcs
  <2>3. QED BY <2>1, <2>2
<1>8. QED BY <1>1, <1>2, <1>3, <1>4, <1>5, <1>6, <1>7

\* The three ways handle_accept finishes with a client.
LEMMA FinishInv ==
  ASSUME Inv, NEW w \in Workers, DropClient(w) \/ Establish(w) \/ SetupFails(w)
  PROVE  Inv'
<1> USE DEF Inv, LocalsInv, TableInv, ChargedPcs, shared, picks, table, worker, hc, env
<1>1. CASE DropClient(w)
  <2>1. Done(w, "accept") /\ "accept" \in IdlePcs BY <1>1 DEF DropClient, IdlePcs
  <2>2. owner' \in [Clients -> Workers \cup {None}] BY <1>1 DEF DropClient, TypeOK
  <2>3. TypeOK' BY <1>1, <2>1, <2>2, DoneTypes DEF DropClient, TypeOK
  <2>4. LocalsInv' BY <1>1 DEF DropClient, Done, Goto, TypeOK, AcceptPcs, IdlePcs
  <2>5. TableInv' BY <1>1 DEF DropClient, Done, Goto, TypeOK, AcceptPcs, RemovePcs, IdlePcs
  <2>6. QED BY <2>3, <2>4, <2>5
<1>2. CASE Establish(w)
  <2>1. chosen[w] \in Backends /\ Done(w, "accept") /\ "accept" \in IdlePcs BY <1>2 DEF Establish, IdlePcs
  <2>2. conn' \in [Clients -> Backends \cup {None}] /\ gauge' \in Int
    <3>1. conn' = [conn EXCEPT ![cli[w]] = chosen[w]] /\ gauge' = gauge + 1 BY <1>2 DEF Establish
    <3>2. conn \in [Clients -> Backends \cup {None}] /\ gauge \in Int BY DEF TypeOK
    <3>3. conn' \in [Clients -> Backends \cup {None}] BY <2>1, <3>1, <3>2, Updated
    <3>4. gauge' \in Int BY <3>1, <3>2
    <3>5. QED BY <3>3, <3>4
  <2>3. TypeOK' BY <1>2, <2>1, <2>2, DoneTypes DEF Establish, TypeOK
  <2>4. LocalsInv' BY <1>2 DEF Establish, Done, Goto, TypeOK, AcceptPcs, IdlePcs
  <2>5. TableInv' BY <1>2, <2>1 DEF Establish, Done, Goto, TypeOK, AcceptPcs, RemovePcs, IdlePcs
  <2>6. QED BY <2>3, <2>4, <2>5
<1>3. CASE SetupFails(w)
  <2>1. chosen[w] \in Backends /\ Done(w, "accept") /\ "accept" \in IdlePcs BY <1>3 DEF SetupFails, IdlePcs
  <2>2. /\ active_connections' \in [Backends -> Int]
        /\ owner' \in [Clients -> Workers \cup {None}]
    <3>1. /\ active_connections' = [active_connections EXCEPT ![chosen[w]] = @ - 1]
          /\ owner' = [owner EXCEPT ![cli[w]] = None]
      BY <1>3 DEF SetupFails
    <3>2. active_connections \in [Backends -> Int] /\ owner \in [Clients -> Workers \cup {None}] BY DEF TypeOK
    <3>3. owner' \in [Clients -> Workers \cup {None}] BY <3>1, <3>2, Updated
    <3>4. active_connections[chosen[w]] - 1 \in Int BY <2>1, <3>2
    <3>5. active_connections' \in [Backends -> Int] BY <3>1, <3>2, <3>4, Updated
    <3>6. QED BY <3>3, <3>5
  <2>3. TypeOK' BY <1>3, <2>1, <2>2, DoneTypes DEF SetupFails, TypeOK
  <2>4. LocalsInv' BY <1>3 DEF SetupFails, Done, Goto, TypeOK, AcceptPcs, IdlePcs
  <2>5. TableInv' BY <1>3, <2>1 DEF SetupFails, Done, Goto, TypeOK, AcceptPcs, RemovePcs, IdlePcs
  <2>6. QED BY <2>3, <2>4, <2>5
<1>4. QED BY <1>1, <1>2, <1>3

\* handle_disconnect and remove_connection.
LEMMA RemoveInv ==
  ASSUME Inv, NEW w \in Workers,
         \/ \E c \in Clients : BackendError(w, c) \/ CloseConnection(w, c)
         \/ Condemn(w) \/ Uncharge(w) \/ Erase(w)
  PROVE  Inv'
<1> USE DEF Inv, LocalsInv, TableInv, ChargedPcs, shared, picks, table, worker, hc, env, Goto
<1>1. CASE \E c \in Clients : BackendError(w, c) \/ CloseConnection(w, c)
  <2>1. PICK c \in Clients : BackendError(w, c) \/ CloseConnection(w, c) BY <1>1
  <2>2. PICK label \in {"condemn", "uncharge"} : BeginRemoval(w, c, label)
    BY <2>1 DEF BackendError, CloseConnection
  <2>3. TypeOK' BY <2>2 DEF BeginRemoval, TypeOK, RemovePcs
  <2>4. LocalsInv' /\ TableInv' BY <2>2 DEF BeginRemoval, TypeOK, AcceptPcs, RemovePcs, IdlePcs
  <2>5. QED BY <2>3, <2>4
<1>2. CASE Condemn(w)
  <2>1. chosen[w] \in Backends BY <1>2 DEF Condemn
  <2>2. is_healthy' \in [Backends -> BOOLEAN] BY <1>2, <2>1 DEF Condemn, TypeOK
  <2>3. pc' \in [Workers -> IdlePcs \cup AcceptPcs \cup RemovePcs] BY <1>2 DEF Condemn, TypeOK, RemovePcs
  <2>4. TypeOK' BY <1>2, <2>2, <2>3 DEF Condemn, TypeOK
  <2>5. LocalsInv' /\ TableInv' BY <1>2, <2>1 DEF Condemn, TypeOK, AcceptPcs, RemovePcs, IdlePcs
  <2>6. QED BY <2>4, <2>5
<1>3. CASE Uncharge(w)
  <2>1. chosen[w] \in Backends BY <1>3 DEF Uncharge
  <2>2. active_connections' \in [Backends -> Int] BY <1>3, <2>1 DEF Uncharge, TypeOK
  <2>3. pc' \in [Workers -> IdlePcs \cup AcceptPcs \cup RemovePcs] BY <1>3 DEF Uncharge, TypeOK, RemovePcs
  <2>4. TypeOK' BY <1>3, <2>2, <2>3 DEF Uncharge, TypeOK
  <2>5. LocalsInv' /\ TableInv' BY <1>3, <2>1 DEF Uncharge, TypeOK, AcceptPcs, RemovePcs, IdlePcs
  <2>6. QED BY <2>4, <2>5
<1>4. CASE Erase(w)
  <2>1. chosen[w] \in Backends /\ Done(w, "poll") /\ "poll" \in IdlePcs BY <1>4 DEF Erase, IdlePcs
  <2>2. /\ conn' \in [Clients -> Backends \cup {None}]
        /\ owner' \in [Clients -> Workers \cup {None}]
        /\ gauge' \in Int
    <3>1. /\ conn' = [conn EXCEPT ![cli[w]] = None] /\ owner' = [owner EXCEPT ![cli[w]] = None]
          /\ gauge' = gauge - 1
      BY <1>4 DEF Erase
    <3>2. /\ conn \in [Clients -> Backends \cup {None}] /\ owner \in [Clients -> Workers \cup {None}]
          /\ gauge \in Int
      BY DEF TypeOK
    <3>3. conn' \in [Clients -> Backends \cup {None}] BY <3>1, <3>2, Updated
    <3>4. owner' \in [Clients -> Workers \cup {None}] BY <3>1, <3>2, Updated
    <3>5. gauge' \in Int BY <3>1, <3>2
    <3>6. QED BY <3>3, <3>4, <3>5
  <2>3. TypeOK' BY <1>4, <2>1, <2>2, DoneTypes DEF Erase, TypeOK
  <2>4. LocalsInv' BY <1>4 DEF Erase, Done, TypeOK, AcceptPcs, IdlePcs
  <2>5. TableInv' BY <1>4, <2>1 DEF Erase, Done, TypeOK, AcceptPcs, RemovePcs, IdlePcs
  <2>6. QED BY <2>3, <2>4, <2>5
<1>5. QED BY <1>1, <1>2, <1>3, <1>4

\* The health checker and the backends.
LEMMA OthersInv ==
  ASSUME Inv, HcRound \/ (\E s \in Socks : HcEvent(s)) \/ Environment
  PROVE  Inv'
<1> USE DEF Inv, TypeOK, LocalsInv, TableInv, AcceptPcs, RemovePcs, ChargedPcs,
            shared, picks, table, worker, hc, env
<1>1. CASE HcTick BY <1>1 DEF HcTick
<1>2. CASE HcSkip BY <1>2 DEF HcSkip, Advance
<1>3. ASSUME NEW s \in Socks, HcProbe(s) PROVE Inv' BY <1>3 DEF HcProbe
<1>4. CASE HcProbeFails BY <1>4 DEF HcProbeFails, Advance
<1>5. CASE HcPublish
  <2>1. hcAt \in Backends BY <1>5 DEF HcPublish
  <2>2. TypeOK' BY <1>5, <2>1 DEF HcPublish, Advance
  <2>3. LocalsInv' /\ TableInv' BY <1>5 DEF HcPublish
  <2>4. QED BY <2>2, <2>3
<1>6. ASSUME NEW s \in Socks, HcEvent(s) PROVE Inv' BY <1>6 DEF HcEvent
<1>7. ASSUME NEW b \in Backends, BackendDown(b) PROVE Inv' BY <1>7 DEF BackendDown, SocksOf
<1>8. ASSUME NEW b \in Backends, BackendUp(b) PROVE Inv' BY <1>8 DEF BackendUp
<1>9. ASSUME NEW b \in Backends, WatchReadable(b) PROVE Inv' BY <1>9 DEF WatchReadable, SocksOf
<1>10. QED
  BY <1>1, <1>2, <1>3, <1>4, <1>5, <1>6, <1>7, <1>8, <1>9 DEF HcRound, Environment

LEMMA StutterInv == Inv /\ UNCHANGED vars => Inv'
BY DEF Inv, TypeOK, LocalsInv, TableInv, AcceptPcs, RemovePcs, ChargedPcs,
       shared, picks, table, worker, hc, env, vars

LEMMA StepInv == Inv /\ [Next]_vars => Inv'
<1> SUFFICES ASSUME Inv, Next PROVE Inv'
  BY StutterInv
<1>1. ASSUME NEW w \in Workers, WorkerStep(w) PROVE Inv'
  BY <1>1, ChooseServerInv, AttemptInv, FinishInv, RemoveInv DEF WorkerStep
<1>2. ASSUME NEW w \in Workers, WorkerEvent(w) PROVE Inv'
  BY <1>2, AttemptInv, RemoveInv DEF WorkerEvent
<1>3. QED BY <1>1, <1>2, OthersInv DEF Next

(***************************************************************************)
(* Every variable keeps its type: in particular the failover loop never    *)
(* counts more attempts than there are backends, and neither choose_server *)
(* nor the health checker's round leaves the pool.                         *)
(***************************************************************************)
THEOREM TypeCorrect == Spec => []TypeOK
<1>1. Inv => TypeOK BY DEF Inv
<1>2. QED BY InitInv, StepInv, <1>1, PTL DEF Spec

-----------------------------------------------------------------------------
(* active_connections counts exactly the clients charged to a backend.     *)

\* A client is in the hands of one worker at a time.
LEMMA OneWorker ==
  ASSUME Inv, NEW v \in Workers, NEW w \in Workers, cli[v] = cli[w], cli[w] # None
  PROVE  v = w
BY DEF Inv, TableInv

\* A worker's client is charged by that worker or not at all.
LEMMA BusyCharge ==
  ASSUME Inv, NEW w \in Workers, cli[w] # None, NEW b \in Backends
  PROVE  ChargedTo(cli[w], b) <=> pc[w] \in ChargedPcs /\ chosen[w] = b
BY OneWorker DEF ChargedTo

\* A step of worker w concerns no client but its own.
LEMMA OthersKeepCharge ==
  ASSUME Inv, NEW w \in Workers, NEW c \in Clients, NEW b \in Backends,
         c # cli[w], c # cli'[w], conn'[c] = conn[c],
         \A v \in Workers \ {w} : pc'[v] = pc[v] /\ cli'[v] = cli[v] /\ chosen'[v] = chosen[v]
  PROVE  ChargedTo(c, b)' <=> ChargedTo(c, b)
BY DEF ChargedTo

\* No client gains or loses its charge and the counters stay.
LEMMA CountStays ==
  ASSUME ChargeExact, UNCHANGED active_connections,
         \A c \in Clients, b \in Backends : ChargedTo(c, b)' <=> ChargedTo(c, b)
  PROVE  ChargeExact'
<1> SUFFICES ASSUME NEW b \in Backends
             PROVE  active_connections'[b] = Cardinality({c \in Clients : ChargedTo(c, b)'})
  BY DEF ChargeExact
<1>1. {c \in Clients : ChargedTo(c, b)'} = {c \in Clients : ChargedTo(c, b)} OBVIOUS
<1>2. QED BY <1>1 DEF ChargeExact

\* One client becomes charged and its counter goes up.
LEMMA CountUp ==
  ASSUME Inv, ChargeExact, NEW x \in Clients, NEW a \in Backends, ~ChargedTo(x, a),
         active_connections' = [active_connections EXCEPT ![a] = @ + 1],
         \A c \in Clients, b \in Backends :
           ChargedTo(c, b)' <=> ChargedTo(c, b) \/ (c = x /\ b = a)
  PROVE  ChargeExact'
<1> SUFFICES ASSUME NEW b \in Backends
             PROVE  active_connections'[b] = Cardinality({c \in Clients : ChargedTo(c, b)'})
  BY DEF ChargeExact
<1> DEFINE S == {c \in Clients : ChargedTo(c, b)}
<1>1. IsFiniteSet(S) BY FiniteAssumption, FS_Subset
<1>2. CASE b = a
  <2>1. {c \in Clients : ChargedTo(c, b)'} = S \cup {x} BY <1>2
  <2>2. Cardinality(S \cup {x}) = Cardinality(S) + 1 BY <1>1, <1>2, FS_AddElement
  <2>3. active_connections'[b] = active_connections[b] + 1 BY <1>2 DEF Inv, TypeOK
  <2>4. QED BY <2>1, <2>2, <2>3 DEF ChargeExact
<1>3. CASE b # a
  <2>1. {c \in Clients : ChargedTo(c, b)'} = S BY <1>3
  <2>2. active_connections'[b] = active_connections[b] BY <1>3 DEF Inv, TypeOK
  <2>3. QED BY <2>1, <2>2 DEF ChargeExact
<1>4. QED BY <1>2, <1>3

\* One charged client gives its charge back and its counter goes down.
LEMMA CountDown ==
  ASSUME Inv, ChargeExact, NEW x \in Clients, NEW a \in Backends, ChargedTo(x, a),
         active_connections' = [active_connections EXCEPT ![a] = @ - 1],
         \A c \in Clients, b \in Backends :
           ChargedTo(c, b)' <=> ChargedTo(c, b) /\ ~(c = x /\ b = a)
  PROVE  ChargeExact'
<1> SUFFICES ASSUME NEW b \in Backends
             PROVE  active_connections'[b] = Cardinality({c \in Clients : ChargedTo(c, b)'})
  BY DEF ChargeExact
<1> DEFINE S == {c \in Clients : ChargedTo(c, b)}
<1>1. IsFiniteSet(S) BY FiniteAssumption, FS_Subset
<1>2. CASE b = a
  <2>1. {c \in Clients : ChargedTo(c, b)'} = S \ {x} BY <1>2
  <2>2. Cardinality(S \ {x}) = Cardinality(S) - 1 BY <1>1, <1>2, FS_RemoveElement
  <2>3. active_connections'[b] = active_connections[b] - 1 BY <1>2 DEF Inv, TypeOK
  <2>4. QED BY <2>1, <2>2, <2>3 DEF ChargeExact
<1>3. CASE b # a
  <2>1. {c \in Clients : ChargedTo(c, b)'} = S BY <1>3
  <2>2. active_connections'[b] = active_connections[b] BY <1>3 DEF Inv, TypeOK
  <2>3. QED BY <2>1, <2>2 DEF ChargeExact
<1>4. QED BY <1>2, <1>3

\* Steps of a worker that keep its client and whether that client is charged.
LEMMA SameClientCharge ==
  ASSUME Inv, Inv', ChargeExact, NEW w \in Workers, cli[w] # None, UNCHANGED active_connections,
         cli' = cli, conn' = conn,
         \A v \in Workers \ {w} : pc'[v] = pc[v] /\ chosen'[v] = chosen[v],
         pc'[w] \in ChargedPcs <=> pc[w] \in ChargedPcs,
         pc[w] \in ChargedPcs => chosen'[w] = chosen[w]
  PROVE  ChargeExact'
<1> SUFFICES ASSUME NEW c \in Clients, NEW b \in Backends
             PROVE  ChargedTo(c, b)' <=> ChargedTo(c, b)
  BY CountStays
<1>1. CASE c = cli[w]
  <2>1. ChargedTo(cli[w], b) <=> pc[w] \in ChargedPcs /\ chosen[w] = b BY BusyCharge
  <2>2. ChargedTo(cli[w], b)' <=> pc'[w] \in ChargedPcs /\ chosen'[w] = b
    BY OneWorker DEF ChargedTo
  <2>3. QED BY <1>1, <2>1, <2>2
<1>2. CASE c # cli[w] BY <1>2, OthersKeepCharge
<1>3. QED BY <1>1, <1>2

LEMMA ScanCharge ==
  ASSUME Inv, Inv', ChargeExact, NEW w \in Workers,
         \/ ReadHealth(w) \/ NoneHealthy(w) \/ TakeOnly(w) \/ DrawTwo(w) \/ Compare(w)
         \/ Connect(w) \/ ConnectFails(w) \/ MarkUnhealthy(w) \/ Condemn(w)
  PROVE  ChargeExact'
<1> USE DEF Inv, TypeOK, Goto, ChargedPcs, shared, picks, table
<1>1. cli[w] # None
  BY DEF LocalsInv, IdlePcs, ReadHealth, NoneHealthy, TakeOnly, DrawTwo, Compare, Connect,
         ConnectFails, MarkUnhealthy, Condemn
<1>2. /\ UNCHANGED active_connections /\ cli' = cli /\ conn' = conn
      /\ \A v \in Workers \ {w} : pc'[v] = pc[v] /\ chosen'[v] = chosen[v]
  <2>1. CASE ReadHealth(w) \/ NoneHealthy(w) \/ Connect(w) \/ ConnectFails(w)
    BY <2>1 DEF ReadHealth, NoneHealthy, Connect, ConnectFails
  <2>2. CASE TakeOnly(w) \/ DrawTwo(w) \/ Compare(w) BY <2>2 DEF TakeOnly, DrawTwo, Compare
  <2>3. CASE MarkUnhealthy(w) \/ Condemn(w) BY <2>3 DEF MarkUnhealthy, Condemn
  <2>4. QED BY <2>1, <2>2, <2>3
<1>3. /\ pc'[w] \in ChargedPcs <=> pc[w] \in ChargedPcs
      /\ pc[w] \in ChargedPcs => chosen'[w] = chosen[w]
  BY DEF ReadHealth, NoneHealthy, TakeOnly, DrawTwo, Compare, Connect,
         ConnectFails, MarkUnhealthy, Condemn
<1>4. QED BY <1>1, <1>2, <1>3, SameClientCharge

\* Beginning a handler: the client's charge does not change hands.
LEMMA BeginCharge ==
  ASSUME Inv, Inv', ChargeExact, NEW w \in Workers, NEW c \in Clients,
         AcceptClient(w, c) \/ BackendError(w, c) \/ CloseConnection(w, c)
  PROVE  ChargeExact'
<1>1. /\ UNCHANGED active_connections /\ conn' = conn /\ cli'[w] = c /\ cli[w] = None
      /\ \A v \in Workers \ {w} : pc'[v] = pc[v] /\ cli'[v] = cli[v] /\ chosen'[v] = chosen[v]
  BY DEF Inv, TypeOK, LocalsInv, IdlePcs, AcceptClient, BackendError, CloseConnection, BeginRemoval, Goto,
         shared, picks, table
<1>2. \A v \in Workers : cli[v] # c
  <2>1. owner[c] \in {w, None}
    BY DEF AcceptClient, BackendError, CloseConnection, BeginRemoval
  <2>2. QED BY <1>1, <2>1 DEF Inv, TableInv
<1>3. ASSUME NEW d \in Clients, NEW b \in Backends PROVE ChargedTo(d, b)' <=> ChargedTo(d, b)
  <2>1. CASE d # c BY <1>1, <2>1, OthersKeepCharge
  <2>2. CASE d = c
    <3>1. ChargedTo(c, b) <=> conn[c] = b BY <1>2 DEF ChargedTo
    <3>2. ChargedTo(c, b)' <=> pc'[w] \in ChargedPcs /\ chosen'[w] = b
      BY <1>1, <1>2 DEF ChargedTo
    <3>3. CASE AcceptClient(w, c)
      BY <2>2, <3>1, <3>2, <3>3 DEF AcceptClient, Goto, ChargedPcs, Inv, TypeOK, TableInv
    <3>4. CASE BackendError(w, c) \/ CloseConnection(w, c)
      BY <2>2, <3>1, <3>2, <3>4
         DEF BackendError, CloseConnection, BeginRemoval, Goto, ChargedPcs, Inv, TypeOK
    <3>5. QED BY <3>3, <3>4
  <2>3. QED BY <2>1, <2>2
<1>4. QED BY <1>1, <1>3, CountStays

\* accept_client has no more clients to give.
LEMMA AcceptEndsCharge ==
  ASSUME Inv, ChargeExact, NEW w \in Workers, AcceptEnds(w)
  PROVE  ChargeExact'
<1>1. /\ UNCHANGED <<active_connections, cli, chosen, conn>>
      /\ pc[w] \notin ChargedPcs /\ pc'[w] \notin ChargedPcs
      /\ \A v \in Workers \ {w} : pc'[v] = pc[v]
  BY DEF AcceptEnds, Goto, ChargedPcs, Inv, TypeOK, shared, picks, table
<1>2. QED BY <1>1, CountStays DEF ChargedTo

\* Ending one: an established client stays charged, a dropped or erased one was not.
LEMMA EndCharge ==
  ASSUME Inv, Inv', ChargeExact, NEW w \in Workers, DropClient(w) \/ Establish(w) \/ Erase(w)
  PROVE  ChargeExact'
<1>0. PICK c \in Clients : c = cli[w] BY DEF Inv, TypeOK, LocalsInv, IdlePcs, DropClient, Establish, Erase
<1>1. /\ UNCHANGED active_connections /\ cli'[w] = None
      /\ \A v \in Workers \ {w} : pc'[v] = pc[v] /\ cli'[v] = cli[v] /\ chosen'[v] = chosen[v]
      /\ \A d \in Clients \ {c} : conn'[d] = conn[d]
  <2> USE <1>0 DEF Inv, TypeOK, Done, Goto, shared
  <2>1. CASE DropClient(w) BY <2>1 DEF DropClient
  <2>2. CASE Establish(w) BY <2>2 DEF Establish
  <2>3. CASE Erase(w) BY <2>3 DEF Erase
  <2>4. QED BY <2>1, <2>2, <2>3
<1>2. \A v \in Workers : cli'[v] # c BY <1>0, <1>1, OneWorker
<1>3. ASSUME NEW d \in Clients, NEW b \in Backends PROVE ChargedTo(d, b)' <=> ChargedTo(d, b)
  <2>1. CASE d # c BY <1>0, <1>1, <2>1, OthersKeepCharge
  <2>2. CASE d = c
    <3>1. ChargedTo(c, b) <=> pc[w] \in ChargedPcs /\ chosen[w] = b BY <1>0, BusyCharge
    <3>2. ChargedTo(c, b)' <=> conn'[c] = b BY <1>2 DEF ChargedTo
    <3>3. CASE Establish(w)
      BY <1>0, <2>2, <3>1, <3>2, <3>3 DEF Establish, ChargedPcs, Inv, TypeOK
    <3>4. CASE DropClient(w)
      BY <1>0, <2>2, <3>1, <3>2, <3>4 DEF DropClient, AcceptPcs, ChargedPcs, Inv, TypeOK, TableInv
    <3>5. CASE Erase(w)
      BY <1>0, <2>2, <3>1, <3>2, <3>5 DEF Erase, ChargedPcs, Inv, TypeOK
    <3>6. QED BY <3>3, <3>4, <3>5
  <2>3. QED BY <2>1, <2>2
<1>4. QED BY <1>1, <1>3, CountStays

\* fetch_add.
LEMMA ChargeCharge ==
  ASSUME Inv, Inv', ChargeExact, NEW w \in Workers, Charge(w)
  PROVE  ChargeExact'
<1>1. /\ cli[w] \in Clients /\ chosen[w] \in Backends /\ pc[w] \notin ChargedPcs
      /\ cli' = cli /\ conn' = conn /\ chosen' = chosen /\ pc'[w] \in ChargedPcs
      /\ \A v \in Workers \ {w} : pc'[v] = pc[v]
  BY DEF Inv, TypeOK, LocalsInv, IdlePcs, Charge, Goto, ChargedPcs, picks, table
<1>2. ~ChargedTo(cli[w], chosen[w]) BY <1>1, BusyCharge
<1>3. ASSUME NEW c \in Clients, NEW b \in Backends
      PROVE  ChargedTo(c, b)' <=> ChargedTo(c, b) \/ (c = cli[w] /\ b = chosen[w])
  <2>1. CASE c # cli[w] BY <1>1, <2>1, OthersKeepCharge
  <2>2. CASE c = cli[w]
    <3>1. ~ChargedTo(c, b) BY <1>1, <2>2, BusyCharge
    <3>2. ChargedTo(c, b)' <=> chosen[w] = b BY <1>1, <2>2, OneWorker DEF ChargedTo
    <3>3. QED BY <2>2, <3>1, <3>2
  <2>3. QED BY <2>1, <2>2
<1>4. QED BY <1>1, <1>2, <1>3, CountUp DEF Charge

\* fetch_sub, wherever it is called.
LEMMA UnchargeCharge ==
  ASSUME Inv, Inv', ChargeExact, NEW w \in Workers, Release(w) \/ SetupFails(w) \/ Uncharge(w)
  PROVE  ChargeExact'
<1>1. PICK x \in Clients, a \in Backends : x = cli[w] /\ a = chosen[w] /\ pc[w] \in ChargedPcs
  <2>1. pc[w] \in {"release", "setup", "uncharge"} BY DEF Release, SetupFails, Uncharge
  <2>2. cli[w] \in Clients BY <2>1 DEF Inv, TypeOK, LocalsInv, IdlePcs
  <2>3. chosen[w] \in Backends BY <2>1 DEF Inv, LocalsInv, ChargedPcs
  <2>4. QED BY <2>1, <2>2, <2>3 DEF ChargedPcs
<1>2. /\ active_connections' = [active_connections EXCEPT ![a] = @ - 1]
      /\ cli'[w] \in {x, None} /\ conn' = conn /\ pc'[w] \notin ChargedPcs
      /\ \A v \in Workers \ {w} : pc'[v] = pc[v] /\ cli'[v] = cli[v] /\ chosen'[v] = chosen[v]
  <2> USE <1>1 DEF Inv, TypeOK, Goto, ChargedPcs, picks, table
  <2>1. CASE Release(w) BY <2>1 DEF Release
  <2>2. CASE SetupFails(w) BY <2>2 DEF SetupFails, Done
  <2>3. CASE Uncharge(w) BY <2>3 DEF Uncharge
  <2>4. QED BY <2>1, <2>2, <2>3
<1>3. cli'[w] = None => conn[x] = None
  BY <1>1 DEF Inv, TypeOK, TableInv, Release, SetupFails, Uncharge, AcceptPcs
<1>4. ChargedTo(x, a) BY <1>1, BusyCharge
<1>5. ASSUME NEW c \in Clients, NEW b \in Backends
      PROVE  ChargedTo(c, b)' <=> ChargedTo(c, b) /\ ~(c = x /\ b = a)
  <2>1. CASE c # x BY <1>1, <1>2, <2>1, OthersKeepCharge
  <2>2. CASE c = x
    <3>1. ChargedTo(x, b) <=> b = a BY <1>1, BusyCharge
    <3>2. \A v \in Workers \ {w} : cli'[v] # x BY <1>1, <1>2, OneWorker
    <3>3. ~ChargedTo(x, b)' BY <1>2, <1>3, <3>2 DEF ChargedTo
    <3>4. QED BY <2>2, <3>1, <3>3
  <2>3. QED BY <2>1, <2>2
<1>6. QED BY <1>2, <1>4, <1>5, CountDown

\* The other threads hold no client.
LEMMA OthersCharge ==
  ASSUME ChargeExact, HcRound \/ (\E s \in Socks : HcEvent(s)) \/ Environment \/ UNCHANGED vars
  PROVE  ChargeExact'
<1>1. UNCHANGED <<active_connections, pc, cli, chosen, conn>>
  BY DEF HcRound, HcTick, HcSkip, HcProbe, HcProbeFails, HcPublish, HcEvent, Environment,
         BackendDown, BackendUp, WatchReadable, vars, shared, worker, picks, table
<1>2. QED BY <1>1, CountStays DEF ChargedTo

LEMMA StepCharge == Inv /\ Inv' /\ ChargeExact /\ [Next]_vars => ChargeExact'
<1> SUFFICES ASSUME Inv, Inv', ChargeExact, Next PROVE ChargeExact'
  BY OthersCharge
<1>1. ASSUME NEW w \in Workers, WorkerStep(w) PROVE ChargeExact'
  BY <1>1, ScanCharge, EndCharge, ChargeCharge, UnchargeCharge DEF WorkerStep
<1>2. ASSUME NEW w \in Workers, WorkerEvent(w) PROVE ChargeExact'
  BY <1>2, BeginCharge, AcceptEndsCharge DEF WorkerEvent
<1>3. QED BY <1>1, <1>2, OthersCharge DEF Next

LEMMA InitCharge == Init => ChargeExact
<1> SUFFICES ASSUME Init, NEW b \in Backends
             PROVE  active_connections[b] = Cardinality({c \in Clients : ChargedTo(c, b)})
  BY DEF ChargeExact
<1>1. {c \in Clients : ChargedTo(c, b)} = {} BY DEF Init, ChargedTo, ChargedPcs
<1>2. QED BY <1>1, FS_EmptySet DEF Init

(***************************************************************************)
(* Whatever the number of workers and clients and however they interleave, *)
(* a backend's active_connections equals the number of clients charged to  *)
(* it: no path through handle_accept or remove_connection leaks a charge   *)
(* or gives one back twice.                                                *)
(***************************************************************************)
THEOREM ChargesAreExact == Spec => []ChargeExact
<1>1. Inv /\ ChargeExact /\ [Next]_vars => (Inv /\ ChargeExact)' BY StepInv, StepCharge
<1>2. QED BY InitInv, InitCharge, <1>1, PTL DEF Spec

-----------------------------------------------------------------------------
(* A healthy flag never outlives the hang-up that should clear it.         *)

(***************************************************************************)
(* DownIsNoticed is not inductive: it needs that every healthy backend has *)
(* a watch socket at all, that every one epoll has taken is ready when its *)
(* backend is down, and the same of the socket between connect and         *)
(* publication.                                                            *)
(***************************************************************************)
WatchInv ==
  /\ \A b \in Backends : is_healthy[b] => \E s \in Socks : watch_sockets[s] = b
  /\ \A s \in watched : watch_sockets[s] # None /\ (~up[watch_sockets[s]] => s \in ready)
  /\ hcSock # None => watch_sockets[hcSock] = None /\ (~up[hcAt] => hcSock \in ready)

LEMMA WatchInvImplies == Inv /\ WatchInv => DownIsNoticed
<1> SUFFICES ASSUME Inv, WatchInv, NEW b \in Backends, is_healthy[b], ~up[b], ~Deaf(b)
             PROVE  \E s \in ready : watch_sockets[s] = b
  BY DEF DownIsNoticed
<1>1. PICK s \in watched : watch_sockets[s] = b BY DEF WatchInv, Deaf
<1>2. QED BY <1>1 DEF WatchInv

LEMMA InitWatch == Init => WatchInv
<1> SUFFICES ASSUME Init PROVE WatchInv OBVIOUS
<1>1. ASSUME NEW b \in Backends
      PROVE  up[b] <=> \E s \in Socks : watch_sockets[s] = b
  <2> DEFINE S == {s \in Socks : watch_sockets[s] = b}
  <2>1. IsFiniteSet(S) BY FiniteAssumption, FS_Subset
  <2>2. Cardinality(S) = 0 <=> S = {} BY <2>1, FS_EmptySet
  <2>3. Cardinality(S) = (IF up[b] THEN 1 ELSE 0) BY DEF Init
  <2>4. QED BY <2>2, <2>3
<1>2. QED BY <1>1 DEF Init, WatchInv

\* Workers only ever clear flags.
LEMMA WorkerWatch ==
  ASSUME Inv, WatchInv, NEW w \in Workers, WorkerStep(w) \/ WorkerEvent(w)
  PROVE  WatchInv'
<1>1. \A b \in Backends : is_healthy'[b] => is_healthy[b]
  BY DEF Inv, TypeOK, WorkerStep, WorkerEvent, ReadHealth, NoneHealthy, TakeOnly, DrawTwo, Compare,
         Charge, Connect, ConnectFails, MarkUnhealthy, Release, DropClient, Establish, SetupFails,
         Condemn, Uncharge, Erase, AcceptClient, AcceptEnds, BackendError, CloseConnection, BeginRemoval, shared
<1>2. UNCHANGED <<watch_sockets, watched, hcAt, hcSock, up, ready>>
  BY DEF WorkerStep, WorkerEvent, ReadHealth, NoneHealthy, TakeOnly, DrawTwo, Compare,
         Charge, Connect, ConnectFails, MarkUnhealthy, Release, DropClient, Establish, SetupFails,
         Condemn, Uncharge, Erase, AcceptClient, AcceptEnds, BackendError, CloseConnection, BeginRemoval, hc, env
<1>3. QED BY <1>1, <1>2 DEF WatchInv

LEMMA CheckerWatch ==
  ASSUME Inv, WatchInv, HcRound \/ (\E s \in Socks : HcEvent(s))
  PROVE  WatchInv'
<1> USE DEF Inv, TypeOK, WatchInv, shared, env
<1>1. CASE HcTick \/ HcSkip \/ HcProbeFails
  <2>1. hcSock = None BY <1>1 DEF HcTick, HcSkip, HcProbeFails, LocalsInv
  <2>2. UNCHANGED <<is_healthy, watch_sockets, watched, hcSock, up, ready>>
    BY <1>1 DEF HcTick, HcSkip, HcProbeFails
  <2>3. QED BY <2>1, <2>2
<1>2. ASSUME NEW s \in Socks, HcProbe(s) PROVE WatchInv' BY <1>2 DEF HcProbe
<1>3. CASE HcPublish
  <2>1. hcAt \in Backends BY <1>3 DEF HcPublish, LocalsInv
  <2>2. ASSUME NEW b \in Backends, is_healthy'[b] PROVE \E s \in Socks : watch_sockets'[s] = b
    BY <1>3, <2>1, <2>2 DEF HcPublish
  <2>3. ASSUME NEW s \in watched'
        PROVE  watch_sockets'[s] # None /\ (~up'[watch_sockets'[s]] => s \in ready')
    <3>1. CASE s = hcSock BY <1>3, <2>1, <3>1 DEF HcPublish
    <3>2. CASE s # hcSock BY <1>3, <3>2 DEF HcPublish
    <3>3. QED BY <3>1, <3>2
  <2>4. hcSock' = None BY <1>3 DEF HcPublish
  <2>5. QED BY <2>2, <2>3, <2>4
<1>4. ASSUME NEW s \in Socks, HcEvent(s) PROVE WatchInv'
  <2>1. hcSock = None BY <1>4 DEF HcEvent, LocalsInv
  <2>2. ASSUME NEW b \in Backends, is_healthy'[b] PROVE \E t \in Socks : watch_sockets'[t] = b
    <3>1. is_healthy[b] /\ b # watch_sockets[s] BY <1>4, <2>2 DEF HcEvent
    <3>2. QED BY <1>4, <3>1 DEF HcEvent
  <2>3. QED BY <1>4, <2>1, <2>2 DEF HcEvent
<1>5. QED BY <1>1, <1>2, <1>3, <1>4 DEF HcRound

LEMMA BackendWatch ==
  ASSUME Inv, WatchInv, Environment
  PROVE  WatchInv'
<1> USE DEF Inv, TypeOK, WatchInv, shared, hc
<1>1. ASSUME NEW b \in Backends, BackendDown(b) PROVE WatchInv'
  <2>1. /\ UNCHANGED <<is_healthy, watch_sockets, watched, hcAt, hcSock>>
        /\ up' = [up EXCEPT ![b] = FALSE] /\ ready' = ready \cup SocksOf(b)
    BY <1>1 DEF BackendDown
  <2>2. ASSUME NEW s \in watched, ~up'[watch_sockets[s]] PROVE s \in ready'
    <3>1. CASE watch_sockets[s] = b BY <2>1, <3>1 DEF SocksOf
    <3>2. CASE watch_sockets[s] # b BY <2>1, <2>2, <3>2
    <3>3. QED BY <3>1, <3>2
  <2>3. ASSUME hcSock # None, ~up'[hcAt] PROVE hcSock \in ready'
    <3>1. CASE hcAt = b BY <2>1, <2>3, <3>1 DEF SocksOf
    <3>2. CASE hcAt # b BY <2>1, <2>3, <3>2
    <3>3. QED BY <3>1, <3>2
  <2>4. QED BY <2>1, <2>2, <2>3
<1>2. ASSUME NEW b \in Backends, BackendUp(b) PROVE WatchInv' BY <1>2 DEF BackendUp
<1>3. ASSUME NEW b \in Backends, WatchReadable(b) PROVE WatchInv' BY <1>3 DEF WatchReadable
<1>4. QED BY <1>1, <1>2, <1>3 DEF Environment

LEMMA StepWatch == Inv /\ WatchInv /\ [Next]_vars => WatchInv'
<1>1. Inv /\ WatchInv /\ UNCHANGED vars => WatchInv' BY DEF WatchInv, vars, shared, hc, env
<1>2. QED BY <1>1, WorkerWatch, CheckerWatch, BackendWatch DEF Next

(***************************************************************************)
(* No interleaving of probes, publications, failover marks, closed watch   *)
(* sockets and backend restarts leaves a dead backend healthy with nothing *)
(* pending that would tell the health checker, except the refusal of every *)
(* add of its watch sockets, which the checker does not look at            *)
(* (health_checker.cpp:66-71, 109-117, 186-193).                           *)
(***************************************************************************)
THEOREM DeathsAreNoticed == Spec => []DownIsNoticed
<1>1. Inv /\ WatchInv /\ [Next]_vars => (Inv /\ WatchInv)' BY StepInv, StepWatch
<1>2. QED BY InitInv, InitWatch, <1>1, WatchInvImplies, PTL DEF Spec

-----------------------------------------------------------------------------
(* Power of two choices.                                                   *)

\* The two candidates are different backends that the scan has found healthy.
PickInv ==
  \A w \in Workers : pc[w] = "compare" =>
    {chosen[w], other[w]} \subseteq healthy_indices[w] /\ other[w] # chosen[w]

LEMMA WorkerPick ==
  ASSUME Inv, PickInv, NEW w \in Workers, WorkerStep(w) \/ WorkerEvent(w)
  PROVE  PickInv'
<1> USE DEF Inv, TypeOK, Goto
<1>1. CASE DrawTwo(w)
  <2>1. PICK p \in Candidates(healthy_indices[w]) :
          /\ chosen' = [chosen EXCEPT ![w] = p[1]]
          /\ other' = [other EXCEPT ![w] = p[2]]
    BY <1>1 DEF DrawTwo
  <2>2. p[1] \in healthy_indices[w] /\ p[2] \in healthy_indices[w] /\ p[1] # p[2] BY <2>1 DEF Candidates
  <2>3. pc' = [pc EXCEPT ![w] = "compare"] /\ healthy_indices' = healthy_indices BY <1>1 DEF DrawTwo
  <2>4. chosen'[w] = p[1] /\ other'[w] = p[2] BY <2>1
  <2>5. ASSUME NEW v \in Workers \ {w} PROVE chosen'[v] = chosen[v] /\ other'[v] = other[v] /\ pc'[v] = pc[v]
    BY <2>1, <2>3
  <2>6. QED BY <2>2, <2>3, <2>4, <2>5 DEF PickInv
<1>2. CASE ~DrawTwo(w)
  <2>1. pc'[w] # "compare"
    BY <1>2 DEF WorkerStep, WorkerEvent, ReadHealth, NoneHealthy, TakeOnly, Compare, Charge, Connect, ConnectFails,
       MarkUnhealthy, Release, DropClient, Establish, SetupFails, Condemn, Uncharge, Erase, AcceptClient, AcceptEnds,
       BackendError, CloseConnection, BeginRemoval, Done
  <2>2. ASSUME NEW v \in Workers \ {w}
        PROVE  /\ chosen'[v] = chosen[v] /\ other'[v] = other[v] /\ pc'[v] = pc[v]
               /\ healthy_indices'[v] = healthy_indices[v]
    BY <1>2 DEF WorkerStep, WorkerEvent, ReadHealth, NoneHealthy, TakeOnly, Compare, Charge, Connect, ConnectFails,
       MarkUnhealthy, Release, DropClient, Establish, SetupFails, Condemn, Uncharge, Erase, AcceptClient, AcceptEnds,
       BackendError, CloseConnection, BeginRemoval, Done, picks
  <2>3. SUFFICES ASSUME NEW v \in Workers, pc'[v] = "compare"
                 PROVE  {chosen'[v], other'[v]} \subseteq healthy_indices'[v] /\ other'[v] # chosen'[v]
    BY DEF PickInv
  <2>4. v # w BY <2>1, <2>3
  <2>5. pc[v] = "compare" /\ chosen'[v] = chosen[v] /\ other'[v] = other[v]
        /\ healthy_indices'[v] = healthy_indices[v]
    BY <2>2, <2>3, <2>4
  <2>6. QED BY <2>5 DEF PickInv
<1>3. QED BY <1>1, <1>2

LEMMA OthersPick ==
  ASSUME PickInv, HcRound \/ (\E s \in Socks : HcEvent(s)) \/ Environment \/ UNCHANGED vars
  PROVE  PickInv'
<1>1. UNCHANGED <<pc, chosen, other, healthy_indices>>
  BY DEF HcRound, HcEvent, HcTick, HcSkip, HcProbe, HcProbeFails, HcPublish, Environment, BackendDown, BackendUp,
         WatchReadable, vars, worker, picks
<1>2. QED BY <1>1 DEF PickInv

\* Only the worker itself compares, and the counters stand still meanwhile.
LEMMA PickCompares ==
  ASSUME Inv, [Next]_vars, NEW w \in Workers, pc[w] = "compare", pc'[w] = "charge"
  PROVE  Compare(w)
<1> USE DEF Inv, TypeOK, Goto, worker
<1>1. ASSUME NEW v \in Workers, WorkerStep(v) PROVE v = w
  BY <1>1 DEF WorkerStep, ReadHealth, NoneHealthy, TakeOnly, DrawTwo, Compare, Charge, Connect, ConnectFails,
     MarkUnhealthy, Release, DropClient, Establish, SetupFails, Condemn, Uncharge, Erase, Done
<1>2. ASSUME NEW v \in Workers, WorkerEvent(v) PROVE FALSE
  BY <1>2 DEF WorkerEvent, AcceptClient, AcceptEnds, BackendError, CloseConnection, BeginRemoval
<1>3. HcRound \/ (\E s \in Socks : HcEvent(s)) \/ Environment \/ UNCHANGED vars => FALSE
  BY DEF HcRound, HcEvent, HcTick, HcSkip, HcProbe, HcProbeFails, HcPublish, Environment, BackendDown, BackendUp,
         WatchReadable, vars
<1>4. WorkerStep(w) BY <1>1, <1>2, <1>3 DEF Next
<1>5. QED
  BY <1>4 DEF WorkerStep, ReadHealth, NoneHealthy, TakeOnly, DrawTwo, Charge, Connect, ConnectFails,
     MarkUnhealthy, Release, DropClient, Establish, SetupFails, Condemn, Uncharge, Erase, Done

(***************************************************************************)
(* Whichever two it draws, and whatever the other threads do to the loads, *)
(* a worker picks a backend strictly busier than all the other healthy     *)
(* ones only by a load that has moved since it was read                    *)
(* (load_balancer.cpp:24-41).                                              *)
(***************************************************************************)
THEOREM TheBusiestIsSpared == Spec => NeverTheBusiest
<1>1. Init => PickInv BY DEF Init, PickInv
<1>2. Inv /\ PickInv /\ [Next]_vars => (Inv /\ PickInv)' BY StepInv, WorkerPick, OthersPick DEF Next
<1>3. ASSUME Inv, PickInv, [Next]_vars, NEW w \in Workers,
             pc[w] = "compare", pc'[w] = "charge", load[w] = active_connections[chosen[w]]
      PROVE  \E b \in healthy_indices[w] \ {chosen'[w]} : active_connections[chosen'[w]] <= active_connections[b]
  <2>1. Compare(w) BY <1>3, PickCompares
  <2>2. chosen[w] \in healthy_indices[w] /\ other[w] \in healthy_indices[w] /\ other[w] # chosen[w]
    BY <1>3 DEF PickInv
  <2>3. chosen'[w] = IF load[w] <= active_connections[other[w]] THEN chosen[w] ELSE other[w]
    BY <1>3, <2>1 DEF Compare, Inv, TypeOK
  <2>4. active_connections[chosen[w]] \in Int /\ active_connections[other[w]] \in Int
    BY <1>3, <2>2 DEF Inv, TypeOK
  <2>5. QED BY <1>3, <2>2, <2>3, <2>4
<1>4. Inv /\ PickInv /\ [Next]_vars =>
        [\A w \in Workers :
           pc[w] = "compare" /\ pc'[w] = "charge" /\ load[w] = active_connections[chosen[w]] =>
             \E b \in healthy_indices[w] \ {chosen'[w]} :
               active_connections[chosen'[w]] <= active_connections[b]]_vars
  BY <1>3
<1>5. QED BY InitInv, <1>1, <1>2, <1>4, PTL DEF Spec, NeverTheBusiest

-----------------------------------------------------------------------------
(* A handler that has begun ends: the variant behind WorkerReturns.        *)

USE DEF IdlePcs

\* The most steps worker w can still take in the attempt (or the removal) it is in.
StepsLeft(w) ==
  CASE pc[w] = "scan"    -> (NumBackends + 1 - at[w]) + 7
    [] pc[w] = "compare" -> 6
    [] pc[w] = "charge"  -> 5
    [] pc[w] = "connect" -> 4
    [] pc[w] \in {"mark", "condemn"} -> 3
    [] pc[w] \in {"release", "uncharge"} -> 2
    [] pc[w] \in {"setup", "drop", "erase"} -> 1

\* ... and in the whole handler, with all the attempts that may follow.
Budget(w) ==
  IF pc[w] \in IdlePcs THEN 0 ELSE (NumBackends - attempt[w]) * (NumBackends + 8) + StepsLeft(w)

LEMMA StepsLeftRange ==
  ASSUME Inv, NEW w \in Workers, pc[w] \notin IdlePcs
  PROVE  StepsLeft(w) \in 1..(NumBackends + 8)
<1>1. at[w] \in 1..(NumBackends + 1) /\ pc[w] \in AcceptPcs \cup RemovePcs BY DEF Inv, TypeOK
<1>2. QED BY <1>1 DEF StepsLeft, AcceptPcs, RemovePcs

LEMMA Product ==
  ASSUME NEW m \in Nat, NEW n \in Nat, NEW k \in Nat, m <= n
  PROVE  m * k \in Nat /\ m * k <= n * k
OBVIOUS

LEMMA BudgetRange ==
  ASSUME Inv, NEW w \in Workers
  PROVE  Budget(w) \in 0..((NumBackends + 1) * (NumBackends + 8))
<1> DEFINE m == NumBackends - attempt[w]
           k == NumBackends + 8
<1>1. m \in Nat /\ m <= NumBackends /\ k \in Nat BY DEF Inv, TypeOK
<1>2. (NumBackends + 1) * k = NumBackends * k + k /\ NumBackends * k \in Nat BY <1>1
<1>3. CASE pc[w] \in IdlePcs BY <1>1, <1>2, <1>3 DEF Budget
<1>4. CASE pc[w] \notin IdlePcs
  <2>1. StepsLeft(w) \in 1..k BY <1>4, StepsLeftRange
  <2>2. Budget(w) = m * k + StepsLeft(w) BY <1>4 DEF Budget
  <2> HIDE DEF m, k
  <2>3. m * k \in Nat /\ m * k <= NumBackends * k BY <1>1, Product
  <2>4. QED BY <1>1, <1>2, <2>1, <2>2, <2>3 DEF k
<1>5. QED BY <1>3, <1>4

\* A step within the attempt.
LEMMA StepOn ==
  ASSUME Inv, Inv', NEW w \in Workers, pc[w] \notin IdlePcs, pc'[w] \notin IdlePcs,
         attempt'[w] = attempt[w], StepsLeft(w)' < StepsLeft(w)
  PROVE  Budget(w)' < Budget(w)
<1> DEFINE r == (NumBackends - attempt[w]) * (NumBackends + 8)
<1>1. r \in Nat
  <2>1. NumBackends - attempt[w] \in Nat BY DEF Inv, TypeOK
  <2>2. QED BY <2>1, Product
<1>2. Budget(w) = r + StepsLeft(w) /\ Budget(w)' = r + StepsLeft(w)' BY DEF Budget
<1>3. StepsLeft(w) \in Nat BY StepsLeftRange
<1>4. StepsLeft(w)' \in Nat
  <2>1. at'[w] \in 1..(NumBackends + 1) /\ pc'[w] \in AcceptPcs \cup RemovePcs BY DEF Inv, TypeOK
  <2>2. QED BY <2>1 DEF StepsLeft, AcceptPcs, RemovePcs
<1> HIDE DEF r
<1>5. QED BY <1>1, <1>2, <1>3, <1>4

\* The client or the removal is done with.
LEMMA StepHome ==
  ASSUME Inv, NEW w \in Workers, pc[w] \notin IdlePcs, pc'[w] \in IdlePcs
  PROVE  Budget(w)' < Budget(w)
<1>1. StepsLeft(w) >= 1 /\ StepsLeft(w) \in Nat BY StepsLeftRange
<1>2. (NumBackends - attempt[w]) * (NumBackends + 8) \in Nat
  <2>1. NumBackends - attempt[w] \in Nat BY DEF Inv, TypeOK
  <2>2. QED BY <2>1, Product
<1>3. QED BY <1>1, <1>2 DEF Budget

\* The next attempt: one less is left, however long its scan.
LEMMA StepRelease ==
  ASSUME Inv, Inv', NEW w \in Workers, Release(w)
  PROVE  Budget(w)' < Budget(w)
<1> DEFINE m == NumBackends - attempt[w]
           k == NumBackends + 8
<1>1. /\ pc[w] = "release" /\ pc'[w] \in {"scan", "drop"} /\ at'[w] = 1
      /\ attempt'[w] = attempt[w] + 1 /\ attempt[w] \in Nat /\ m \in Nat /\ m >= 1 /\ k \in Nat
  <2>1. pc[w] = "release" /\ pc'[w] \in {"scan", "drop"} /\ at'[w] = 1 /\ attempt'[w] = attempt[w] + 1
    BY DEF Inv, TypeOK, Release, Goto
  <2>2. attempt[w] \in 0..NumBackends /\ attempt[w] < NumBackends
    BY <2>1 DEF Inv, TypeOK, LocalsInv, AcceptPcs
  <2>3. QED BY <2>1, <2>2
<1>2. StepsLeft(w) = 2 BY <1>1 DEF StepsLeft
<1>3. StepsLeft(w)' \in 1..k BY <1>1 DEF StepsLeft
<1>4. Budget(w) = m * k + 2 BY <1>1, <1>2 DEF Budget
<1>5. Budget(w)' = (m - 1) * k + StepsLeft(w)'
  <2>1. NumBackends - attempt'[w] = m - 1 BY <1>1
  <2>2. QED BY <1>1, <2>1 DEF Budget
<1>6. (m - 1) * k = m * k - k /\ m * k \in Nat
  <2> HIDE DEF m, k
  <2>1. QED BY <1>1
<1> HIDE DEF m, k
<1>7. QED BY <1>1, <1>3, <1>4, <1>5, <1>6

LEMMA StepCosts ==
  ASSUME Inv, Inv', NEW w \in Workers, WorkerStep(w)
  PROVE  Budget(w)' < Budget(w)
<1> USE DEF Inv, TypeOK, Goto, picks
<1>1. CASE ReadHealth(w)
  <2>1. /\ pc[w] = "scan" /\ pc'[w] = "scan" /\ attempt' = attempt
        /\ at[w] \in 1..NumBackends /\ at'[w] = at[w] + 1
    BY <1>1 DEF ReadHealth
  <2>2. /\ StepsLeft(w) = (NumBackends + 1 - at[w]) + 7
        /\ StepsLeft(w)' = (NumBackends + 1 - at'[w]) + 7
    BY <2>1 DEF StepsLeft
  <2>3. StepsLeft(w)' < StepsLeft(w) BY <2>1, <2>2, NumBackendsAssumption, SMTT(40)
  <2>4. QED BY <2>1, <2>3, StepOn
<1>2. CASE NoneHealthy(w) \/ TakeOnly(w) \/ DrawTwo(w)
  <2>1. /\ pc[w] = "scan" /\ pc'[w] \in {"drop", "charge", "compare"} /\ attempt' = attempt
        /\ at[w] \in 1..(NumBackends + 1)
    BY <1>2 DEF NoneHealthy, TakeOnly, DrawTwo
  <2>2. StepsLeft(w)' < StepsLeft(w) BY <2>1, SMTT(40) DEF StepsLeft
  <2>3. QED BY <2>1, <2>2, StepOn
<1>3. CASE Compare(w) \/ Charge(w) \/ Connect(w) \/ ConnectFails(w) \/ MarkUnhealthy(w)
  <2>1. attempt' = attempt BY <1>3 DEF Compare, Charge, Connect, ConnectFails, MarkUnhealthy
  <2>2. \/ pc[w] = "compare" /\ pc'[w] = "charge"
        \/ pc[w] = "charge" /\ pc'[w] = "connect"
        \/ pc[w] = "connect" /\ pc'[w] \in {"setup", "mark"}
        \/ pc[w] = "mark" /\ pc'[w] = "release"
    BY <1>3 DEF Compare, Charge, Connect, ConnectFails, MarkUnhealthy
  <2>3. pc[w] \notin IdlePcs /\ pc'[w] \notin IdlePcs BY <2>2
  <2>4. StepsLeft(w)' < StepsLeft(w)
    <3>1. StepsLeft(w) = IF pc[w] = "compare" THEN 6 ELSE IF pc[w] = "charge" THEN 5 ELSE
                         IF pc[w] = "connect" THEN 4 ELSE 3
      BY <2>2 DEF StepsLeft
    <3>2. StepsLeft(w)' = IF pc'[w] = "charge" THEN 5 ELSE IF pc'[w] = "connect" THEN 4 ELSE
                          IF pc'[w] = "mark" THEN 3 ELSE IF pc'[w] = "release" THEN 2 ELSE 1
      BY <2>2 DEF StepsLeft
    <3>3. QED BY <2>2, <3>1, <3>2
  <2>5. QED BY <2>1, <2>3, <2>4, StepOn
<1>4. CASE Release(w) BY <1>4, StepRelease
<1>5. CASE Condemn(w) \/ Uncharge(w)
  <2>1. /\ <<pc[w], pc'[w]>> \in {<<"condemn", "uncharge">>, <<"uncharge", "erase">>}
        /\ attempt' = attempt
    BY <1>5 DEF Condemn, Uncharge
  <2>2. StepsLeft(w)' < StepsLeft(w) BY <2>1 DEF StepsLeft
  <2>3. QED BY <2>1, <2>2, StepOn
<1>6. CASE DropClient(w) \/ Establish(w) \/ SetupFails(w) \/ Erase(w)
  <2>1. pc[w] \notin IdlePcs /\ pc'[w] \in IdlePcs BY <1>6 DEF DropClient, Establish, SetupFails, Erase, Done
  <2>2. QED BY <2>1, StepHome
<1>7. QED BY <1>1, <1>2, <1>3, <1>4, <1>5, <1>6 DEF WorkerStep

\* A worker's place in its handler is its own.
LEMMA OthersLeaveBudget ==
  ASSUME Inv, [Next]_vars, NEW w \in Workers, pc[w] \notin IdlePcs, ~WorkerStep(w)
  PROVE  Budget(w)' = Budget(w)
<1>1. pc'[w] = pc[w] /\ at'[w] = at[w] /\ attempt'[w] = attempt[w]
  <2> USE DEF Inv, TypeOK, Goto, picks, worker
  <2>1. ASSUME NEW v \in Workers, v # w, WorkerStep(v)
        PROVE  pc'[w] = pc[w] /\ at'[w] = at[w] /\ attempt'[w] = attempt[w]
    <3>1. CASE ReadHealth(v) \/ NoneHealthy(v) \/ TakeOnly(v) \/ DrawTwo(v) \/ Compare(v)
      BY <2>1, <3>1 DEF ReadHealth, NoneHealthy, TakeOnly, DrawTwo, Compare
    <3>2. CASE Charge(v) \/ Connect(v) \/ ConnectFails(v) \/ MarkUnhealthy(v) \/ Condemn(v) \/ Uncharge(v)
      BY <2>1, <3>2 DEF Charge, Connect, ConnectFails, MarkUnhealthy, Condemn, Uncharge
    <3>3. CASE Release(v) BY <2>1, <3>3 DEF Release
    <3>4. CASE DropClient(v) \/ Establish(v) \/ SetupFails(v) \/ Erase(v)
      BY <2>1, <3>4 DEF DropClient, Establish, SetupFails, Erase, Done
    <3>5. QED BY <2>1, <3>1, <3>2, <3>3, <3>4 DEF WorkerStep
  <2>2. ASSUME NEW v \in Workers, WorkerEvent(v)
        PROVE  pc'[w] = pc[w] /\ at'[w] = at[w] /\ attempt'[w] = attempt[w]
    <3>1. v # w BY <2>2 DEF WorkerEvent, AcceptClient, AcceptEnds, BackendError, CloseConnection, BeginRemoval
    <3>2. QED BY <2>2, <3>1 DEF WorkerEvent, AcceptClient, AcceptEnds, BackendError, CloseConnection, BeginRemoval
  <2>3. CASE HcRound \/ (\E s \in Socks : HcEvent(s)) \/ Environment \/ UNCHANGED vars
    BY <2>3 DEF HcRound, HcTick, HcSkip, HcProbe, HcProbeFails, HcPublish, HcEvent, Environment,
       BackendDown, BackendUp, WatchReadable, vars
  <2>4. QED BY <2>1, <2>2, <2>3 DEF Next
<1>2. QED BY <1>1 DEF Budget, StepsLeft

(***************************************************************************)
(* The safety half of WorkerReturns: one client, or one removal, takes at  *)
(* most (NumBackends + 1) * (NumBackends + 8) steps of its thread, and     *)
(* nothing any other thread does, the health checker that revives backends *)
(* included, gives it one more (event_loop.cpp:226-322, 490-499,           *)
(* load_balancer.cpp:6-45).  It bounds the work per client and not the     *)
(* number of clients that handle_accept goes on to.                        *)
(***************************************************************************)
HandlersWearOut ==
  [][\A w \in Workers :
       /\ Budget(w) \in 0..((NumBackends + 1) * (NumBackends + 8))
       /\ WorkerStep(w) => Budget(w)' < Budget(w)
       /\ pc[w] \notin IdlePcs /\ ~WorkerStep(w) => Budget(w)' = Budget(w)]_vars

\* Each client's failover loop and each removal end, whatever the other threads do meanwhile.
THEOREM HandlersAreFinite == Spec => HandlersWearOut
<1>1. Inv /\ Inv' /\ [Next]_vars =>
        [\A w \in Workers :
           /\ Budget(w) \in 0..((NumBackends + 1) * (NumBackends + 8))
           /\ WorkerStep(w) => Budget(w)' < Budget(w)
           /\ pc[w] \notin IdlePcs /\ ~WorkerStep(w) => Budget(w)' = Budget(w)]_vars
  BY BudgetRange, StepCosts, OthersLeaveBudget
<1>2. QED BY InitInv, StepInv, <1>1, PTL DEF Spec, HandlersWearOut

=============================================================================

------------------------ MODULE MCBackendPool_proofs ------------------------
(***************************************************************************)
(* The two counters of the dashboard agree, for any number of workers,     *)
(* clients and backends: the sum of active_connections over the pool is    *)
(* evaluated with MapThenSumSet, so the proof needs what that fold         *)
(* computes on every finite set.                                           *)
(***************************************************************************)
EXTENDS MCBackendPool, BackendPool_proofs

USE NoneAssumption

-----------------------------------------------------------------------------
(* The sum over a finite set.                                              *)

\* What MapThenSumSet adds up first, and one unfolding of its recursion.
First(s) == CHOOSE x \in s : TRUE

Sums(f, S, g) == g = [s \in SUBSET S |-> IF s = {} THEN 0 ELSE f[First(s)] + g[s \ {First(s)}]]

\* Disjoint sets add up.
LEMMA DisjointUnion ==
  ASSUME NEW S, NEW T, IsFiniteSet(S), IsFiniteSet(T), S \cap T = {}
  PROVE  Cardinality(S \cup T) = Cardinality(S) + Cardinality(T)
<1>1. Cardinality(S \cup T) = Cardinality(S) + Cardinality(T) - Cardinality(S \cap T) BY FS_Union
<1>2. Cardinality(S \cap T) = 0 BY FS_EmptySet
<1>3. Cardinality(S) \in Nat /\ Cardinality(T) \in Nat BY FS_CardinalityType
<1>4. QED BY <1>1, <1>2, <1>3

\* Every family of subsets of a finite set has a minimal member.
LEMMA MinimalSubset ==
  ASSUME NEW S, IsFiniteSet(S), NEW T, T \subseteq SUBSET S, T # {}
  PROVE  \E x \in T : \A y \in T : y \subseteq x => y = x
<1>1. IsWellFoundedOn(StrictSubsetOrdering(S), FiniteSubsetsOf(S)) BY FS_StrictSubsetOrderingWellFounded
<1>2. T \subseteq FiniteSubsetsOf(S) BY FS_FiniteSubsetsOfFinite
<1>3. PICK x \in T : \A y \in T : ~(<<y, x>> \in StrictSubsetOrdering(S)) BY <1>1, <1>2, WFMin, Zenon
<1>4. ASSUME NEW y \in T, y \subseteq x PROVE y = x BY <1>3, <1>4 DEF StrictSubsetOrdering
<1>5. QED BY <1>3, <1>4

\* Two solutions of the recursion are the same function: a minimal set on
\* which they differ would be empty or have a smaller one.
LEMMA SumsUnique ==
  ASSUME NEW f, NEW S, IsFiniteSet(S), NEW g, NEW h, Sums(f, S, g), Sums(f, S, h)
  PROVE  g[S] = h[S]
<1> DEFINE T == {s \in SUBSET S : g[s] # h[s]}
<1>1. SUFFICES ASSUME T # {} PROVE FALSE OBVIOUS
<1>2. PICK s \in T : \A y \in T : y \subseteq s => y = s
  <2>1. T \subseteq SUBSET S OBVIOUS
  <2> HIDE DEF T
  <2>2. QED BY <1>1, <2>1, MinimalSubset
<1>3. s # {} BY DEF Sums
<1>4. First(s) \in s BY <1>3 DEF First
<1>5. s \ {First(s)} \notin T BY <1>2, <1>4
<1>6. g[s \ {First(s)}] = h[s \ {First(s)}] BY <1>5
<1>7. /\ g[s] = f[First(s)] + g[s \ {First(s)}]
      /\ h[s] = f[First(s)] + h[s \ {First(s)}]
  BY <1>3 DEF Sums
<1>8. QED BY <1>6, <1>7

\* MapThenSumSet is that solution, once there is one.
LEMMA SumIs ==
  ASSUME NEW f, NEW S, IsFiniteSet(S), NEW h, Sums(f, S, h)
  PROVE  MapThenSumSet(LAMBDA x : f[x], S) = h[S]
<1> DEFINE g == CHOOSE k : Sums(f, S, k)
<1>1. MapThenSumSet(LAMBDA x : f[x], S) = g[S]
  BY DEF MapThenSumSet, MapThenFoldSet, Sums, First
<1>2. Sums(f, S, g) OBVIOUS
<1>3. QED BY <1>1, <1>2, SumsUnique

-----------------------------------------------------------------------------
(* The sum of active_connections is the number of charged clients.         *)

ChargedWithin(s) == {c \in Clients : \E b \in s : ChargedTo(c, b)}

LEMMA ChargedOnce ==
  ASSUME Inv, NEW c \in Clients, NEW a \in Backends, NEW b \in Backends, ChargedTo(c, a), ChargedTo(c, b)
  PROVE  a = b
<1>1. c # None /\ a # None /\ b # None BY NumBackendsAssumption DEF Backends
<1>2. CASE \E w \in Workers : cli[w] = c
  <2>1. PICK w \in Workers : cli[w] = c BY <1>2
  <2>2. QED BY <1>1, <2>1, BusyCharge
<1>3. CASE \A w \in Workers : cli[w] # c BY <1>3 DEF ChargedTo
<1>4. QED BY <1>2, <1>3

LEMMA TotalIsCharged ==
  ASSUME Inv, ChargeExact
  PROVE  TotalActive = Cardinality(ChargedWithin(Backends))
<1> DEFINE h == [s \in SUBSET Backends |-> Cardinality(ChargedWithin(s))]
<1>1. IsFiniteSet(Backends) BY NumBackendsAssumption, FS_Interval DEF Backends
<1>2. ASSUME NEW s \in SUBSET Backends
      PROVE  h[s] = IF s = {} THEN 0 ELSE active_connections[First(s)] + h[s \ {First(s)}]
  <2>1. CASE s = {} BY <2>1, FS_EmptySet DEF ChargedWithin
  <2>2. CASE s # {}
    <3> DEFINE b == First(s)
               A == {c \in Clients : ChargedTo(c, b)}
               R == ChargedWithin(s \ {b})
    <3>1. b \in s /\ b \in Backends BY <2>2 DEF First
    <3>2. ChargedWithin(s) = A \cup R BY <3>1 DEF ChargedWithin
    <3>3. A \cap R = {} BY <3>1, ChargedOnce DEF ChargedWithin
    <3>4. IsFiniteSet(A) /\ IsFiniteSet(R) BY FiniteAssumption, FS_Subset DEF ChargedWithin
    <3>6. Cardinality(A \cup R) = Cardinality(A) + Cardinality(R) BY <3>3, <3>4, DisjointUnion
    <3>7. active_connections[b] = Cardinality(A) BY <3>1 DEF ChargeExact
    <3>8. h[s] = Cardinality(A \cup R) /\ h[s \ {b}] = Cardinality(R) BY <3>2
    <3>9. QED BY <2>2, <3>6, <3>7, <3>8
  <2>3. QED BY <2>1, <2>2
<1>3. Sums(active_connections, Backends, h) BY <1>2 DEF Sums
<1>4. TotalActive = h[Backends] BY <1>1, <1>3, SumIs DEF TotalActive
<1>5. QED BY <1>4

-----------------------------------------------------------------------------
(* The gauge is the number of established connections.                     *)

\* A removal works on an established connection.
LEMMA RemovedIsEstablished ==
  ASSUME Inv, NEW w \in Workers, pc[w] \in RemovePcs
  PROVE  cli[w] \in Clients /\ conn[cli[w]] # None
<1>1. cli[w] \in Clients BY DEF Inv, TypeOK, LocalsInv, IdlePcs, RemovePcs
<1>2. chosen[w] \in Backends BY DEF Inv, LocalsInv, RemovePcs, ChargedPcs
<1>3. chosen[w] # None BY <1>2, NumBackendsAssumption DEF Backends
<1>4. QED BY <1>1, <1>3 DEF Inv, TableInv

Established == {c \in Clients : conn[c] # None}

GaugeExact == gauge = Cardinality(Established)

LEMMA InitGauge == Init => GaugeExact
<1> SUFFICES ASSUME Init PROVE GaugeExact OBVIOUS
<1>1. Established = {} BY DEF Init, Established
<1>2. QED BY <1>1, FS_EmptySet DEF Init, GaugeExact

\* init_pipes and the epoll_ctl calls have succeeded: the table and the gauge grow together.
LEMMA EstablishGauge ==
  ASSUME Inv, GaugeExact, NEW w \in Workers, Establish(w)
  PROVE  GaugeExact'
<1>1. PICK c \in Clients : c = cli[w] BY DEF Inv, TypeOK, LocalsInv, IdlePcs, Establish
<1>2. conn[c] = None /\ chosen[w] # None
  <2>1. conn[c] = None BY <1>1 DEF Inv, TableInv, Establish, AcceptPcs
  <2>2. chosen[w] \in Backends BY DEF Inv, LocalsInv, Establish, ChargedPcs
  <2>3. QED BY <2>1, <2>2, NumBackendsAssumption DEF Backends
<1>3. Established' = Established \cup {c} BY <1>1, <1>2 DEF Establish, Established, Inv, TypeOK
<1>4. IsFiniteSet(Established) BY FiniteAssumption, FS_Subset DEF Established
<1>5. Cardinality(Established') = Cardinality(Established) + 1
  BY <1>2, <1>3, <1>4, FS_AddElement DEF Established
<1>6. QED BY <1>5 DEF GaugeExact, Establish

\* remove_connection: the entry goes and the gauge goes down.
LEMMA EraseGauge ==
  ASSUME Inv, GaugeExact, NEW w \in Workers, Erase(w)
  PROVE  GaugeExact'
<1>1. PICK c \in Clients : c = cli[w] BY DEF Inv, TypeOK, LocalsInv, IdlePcs, Erase
<1>2. conn[c] # None BY <1>1, RemovedIsEstablished DEF Erase, RemovePcs
<1>3. Established' = Established \ {c} BY <1>1 DEF Erase, Established, Inv, TypeOK
<1>4. IsFiniteSet(Established) BY FiniteAssumption, FS_Subset DEF Established
<1>5. c \in Established BY <1>2 DEF Established
<1>6. Cardinality(Established') = Cardinality(Established) - 1 BY <1>3, <1>4, <1>5, FS_RemoveElement
<1>7. QED BY <1>6 DEF GaugeExact, Erase

\* Everything else leaves both alone.
LEMMA OthersGauge ==
  ASSUME GaugeExact, [Next]_vars, \A w \in Workers : ~Establish(w) /\ ~Erase(w)
  PROVE  GaugeExact'
<1>1. UNCHANGED <<conn, gauge>>
  BY DEF Next, vars, WorkerStep, WorkerEvent, HcRound, Environment, ReadHealth, NoneHealthy, TakeOnly, DrawTwo,
         Compare, Charge, Connect, ConnectFails, MarkUnhealthy, Release, DropClient, SetupFails, Condemn, Uncharge,
         AcceptClient, AcceptEnds, BackendError, CloseConnection, BeginRemoval, HcTick, HcSkip, HcProbe, HcProbeFails,
         HcPublish, HcEvent, BackendDown, BackendUp, WatchReadable, shared, worker, table
<1>2. QED BY <1>1 DEF GaugeExact, Established

(***************************************************************************)
(* g_metrics.active_connections, which threads raise and lower without a   *)
(* lock, is exactly the number of entries of the connection tables.        *)
(***************************************************************************)
THEOREM GaugeIsExact == Spec => []GaugeExact
<1>1. Inv /\ GaugeExact /\ [Next]_vars => (Inv /\ GaugeExact)'
  BY StepInv, EstablishGauge, EraseGauge, OthersGauge
<1>2. QED BY InitInv, InitGauge, <1>1, PTL DEF Spec

-----------------------------------------------------------------------------
(* Established and charged clients differ by those of a worker in between.  *)

ClientsOf(W) == {cli[w] : w \in W}

LEMMA OneClientEach ==
  ASSUME Inv, NEW W \in SUBSET Workers, \A w \in W : cli[w] # None
  PROVE  /\ ClientsOf(W) \subseteq Clients /\ IsFiniteSet(ClientsOf(W))
         /\ Cardinality(ClientsOf(W)) = Cardinality(W)
<1> DEFINE f == [w \in W |-> cli[w]]
<1>1. ClientsOf(W) \subseteq Clients BY DEF ClientsOf, Inv, TypeOK
<1>2. f \in Bijection(W, ClientsOf(W))
  <2>1. f \in [W -> ClientsOf(W)] BY DEF ClientsOf
  <2>2. \A v, w \in W : f[v] = f[w] => v = w BY OneWorker
  <2>3. \A c \in ClientsOf(W) : \E w \in W : f[w] = c BY DEF ClientsOf
  <2>4. QED BY <2>1, <2>2, <2>3 DEF Bijection, Injection, Surjection, IsInjective
<1>3. IsFiniteSet(W) BY FiniteAssumption, FS_Subset
<1>4. QED BY <1>1, <1>2, <1>3, FS_Bijection DEF ExistsBijection

LEMMA AgreeFromExact ==
  ASSUME Inv, ChargeExact, GaugeExact
  PROVE  CountersAgree
<1> DEFINE A == ClientsOf(Attempting)
           E == ClientsOf(Erasing)
<1>1. \A w \in Attempting \cup Erasing : cli[w] # None
  BY DEF Attempting, Erasing, Inv, LocalsInv, IdlePcs
<1>2. /\ Cardinality(A) = Cardinality(Attempting) /\ IsFiniteSet(A) /\ A \subseteq Clients
      /\ Cardinality(E) = Cardinality(Erasing) /\ IsFiniteSet(E) /\ E \subseteq Clients
  <2>1. Attempting \in SUBSET Workers /\ Erasing \in SUBSET Workers BY DEF Attempting, Erasing
  <2>2. QED BY <1>1, <2>1, OneClientEach
<1>3. E \subseteq Established
  BY RemovedIsEstablished DEF ClientsOf, Erasing, Established, RemovePcs
<1>4. A \cap Established = {}
  BY DEF ClientsOf, Attempting, Established, Inv, TableInv, AcceptPcs
<1>5. ChargedWithin(Backends) = (Established \ E) \cup A
  <2>1. ASSUME NEW c \in Clients
        PROVE  (\E b \in Backends : ChargedTo(c, b)) <=> c \in (Established \ E) \cup A
    <3>1. CASE \A w \in Workers : cli[w] # c
      <4>1. c \notin A /\ c \notin E BY <3>1 DEF ClientsOf, Attempting, Erasing
      <4>2. (\E b \in Backends : ChargedTo(c, b)) <=> conn[c] \in Backends BY <3>1 DEF ChargedTo
      <4>3. conn[c] \in Backends <=> conn[c] # None
        <5>1. conn[c] \in Backends \cup {None} BY DEF Inv, TypeOK
        <5>2. None \notin Backends BY NumBackendsAssumption DEF Backends
        <5>3. QED BY <5>1, <5>2
      <4>4. QED BY <4>1, <4>2, <4>3 DEF Established
    <3>2. CASE \E w \in Workers : cli[w] = c
      <4>1. PICK w \in Workers : cli[w] = c BY <3>2
      <4>2. cli[w] # None BY <4>1
      <4>3. (\E b \in Backends : ChargedTo(c, b)) <=> pc[w] \in ChargedPcs
        BY <4>1, <4>2, BusyCharge DEF Inv, LocalsInv
      <4>4. c \in A <=> pc[w] \in {"connect", "mark", "release", "setup"}
        BY <4>1, <4>2, OneWorker DEF ClientsOf, Attempting
      <4>5. c \in E <=> pc[w] = "erase" BY <4>1, <4>2, OneWorker DEF ClientsOf, Erasing
      <4>6. c \in Established <=> pc[w] \in RemovePcs
        <5>1. pc[w] \in AcceptPcs => conn[c] = None BY <4>1 DEF Inv, TableInv
        <5>2. pc[w] \in RemovePcs => conn[c] # None BY <4>1, RemovedIsEstablished
        <5>3. pc[w] \in AcceptPcs \cup RemovePcs BY <4>2 DEF Inv, TypeOK, LocalsInv
        <5>4. QED BY <5>1, <5>2, <5>3 DEF Established, AcceptPcs, RemovePcs
      <4>7. QED BY <4>3, <4>4, <4>5, <4>6 DEF ChargedPcs, RemovePcs
    <3>3. QED BY <3>1, <3>2
  <2>2. QED BY <1>2, <2>1 DEF ChargedWithin, Established
<1>6. IsFiniteSet(Established) BY FiniteAssumption, FS_Subset DEF Established
<1>7. /\ IsFiniteSet(Established \ E)
      /\ Cardinality(Established \ E) = Cardinality(Established) - Cardinality(E)
  <2>1. Established \cap E = E BY <1>3
  <2>2. QED BY <1>6, <2>1, FS_Difference
<1>8. Cardinality((Established \ E) \cup A) = Cardinality(Established \ E) + Cardinality(A)
  <2>1. (Established \ E) \cap A = {} BY <1>4
  <2>2. QED BY <1>2, <1>7, <2>1, DisjointUnion
<1>9. /\ Cardinality(Established) \in Nat /\ Cardinality(Attempting) \in Nat /\ Cardinality(Erasing) \in Nat
  BY <1>2, <1>6, FS_CardinalityType
<1>10. TotalActive = Cardinality(Established) - Cardinality(Erasing) + Cardinality(Attempting)
  BY <1>2, <1>5, <1>7, <1>8, TotalIsCharged
<1>11. QED BY <1>9, <1>10 DEF CountersAgree, GaugeExact

(***************************************************************************)
(* The sum of active_connections that GET_TOPOLOGY shows and the gauge     *)
(* that GET_METRICS shows never drift apart: at every moment they differ   *)
(* by the attempts and removals in progress, under any interleaving.       *)
(***************************************************************************)
THEOREM CountersNeverDrift == Spec => []CountersAgree
<1>1. Inv /\ ChargeExact /\ GaugeExact /\ [Next]_vars => (Inv /\ ChargeExact /\ GaugeExact)'
  BY StepInv, StepCharge, EstablishGauge, EraseGauge, OthersGauge
<1>2. QED BY InitInv, InitCharge, InitGauge, <1>1, AgreeFromExact, PTL DEF Spec

=============================================================================

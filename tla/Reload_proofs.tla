---------------------------- MODULE Reload_proofs ----------------------------
(***************************************************************************)
(* Invariance and refinement proofs for Reload, for any number of event    *)
(* loops, any set of ports and any number of rewrites of the file.         *)
(***************************************************************************)
EXTENDS Reload, TLAPS

\* While main serves the receivers, those still to be served lag by one router,
\* the health checker among them to the end.
PushInv ==
  /\ mainPc # "push" => todo = {} /\ to = None
  /\ Checker \notin todo => todo = {}
  /\ todo # {} => latest > 0
  /\ \A r \in Receivers : Offered(r) = IF r \in todo THEN latest - 1 ELSE latest

\* A receiver moves forward only, and its connections are no newer than its router.
OrderInv ==
  /\ \A r \in Receivers : router[r] <= Adopted(r) /\ Adopted(r) <= Offered(r)
  /\ \A w \in Workers : \A g \in conns[w] : g <= router[w]

Inv == TypeOK /\ PushInv /\ OrderInv /\ ListenersAreRouted

USE CheckerAssumption, MaxWritesAssumption, NoneAssumption, FileAssumption
    DEF Receivers, Generations

-----------------------------------------------------------------------------
(* Types.                                                                  *)

LEMMA InitInv == Init => Inv /\ NoReloadLost
<1> SUFFICES ASSUME Init PROVE Inv /\ NoReloadLost OBVIOUS
<1> USE DEF Init
<1>1. TypeOK
  <2>1. file \in Contents /\ writing \in {None} \cup Contents /\ conns \in [Workers -> SUBSET Generations]
    BY DEF Contents
  <2>2. routes \in [Generations -> SUBSET Ports] /\ listeners \in [Workers -> SUBSET Ports]
    OBVIOUS
  <2>3. /\ pending_router \in [Receivers -> Generations \cup {None}]
        /\ new_router \in [Receivers -> Generations \cup {None}]
        /\ \A r \in Receivers : pc[r] = "apply" <=> new_router[r] # None
    OBVIOUS
  <2>4. writes \in 0..MaxWrites /\ unsignalled \in Nat /\ latest \in Generations /\ observer \in Generations
    BY MaxWritesAssumption
  <2>5. /\ reload_pending \in [Receivers -> BOOLEAN]
        /\ pc \in [Receivers -> {"loop", "clear", "take", "apply"}]
        /\ router \in [Receivers -> Generations]
    OBVIOUS
  <2>6. /\ hup \in BOOLEAN /\ mainPc \in {"wait", "parse", "push"}
        /\ todo \in SUBSET Receivers /\ to \in Receivers \cup {None}
    BY Zenon
  <2>7. QED BY <2>1, <2>2, <2>3, <2>4, <2>5, <2>6 DEF TypeOK
<1>2. \A r \in Receivers : Offered(r) = 0 /\ Adopted(r) = 0 BY DEF Offered, Adopted
<1>3. PushInv /\ OrderInv BY <1>2 DEF PushInv, OrderInv
<1>4. ListenersAreRouted /\ NoReloadLost BY DEF ListenersAreRouted, NoReloadLost
<1>5. QED BY <1>1, <1>3, <1>4 DEF Inv

LEMMA StepTypes == TypeOK /\ [Next]_vars => TypeOK'
<1> SUFFICES ASSUME TypeOK, [Next]_vars PROVE TypeOK' OBVIOUS
<1> USE DEF TypeOK, outside, mainv, mailbox, recv, serving
<1>1. CASE WriteBegin BY <1>1 DEF WriteBegin
<1>2. CASE WriteEnd BY <1>2 DEF WriteEnd
<1>3. CASE Signal BY <1>3 DEF Signal
<1>4. CASE TakeSignal BY <1>4 DEF TakeSignal
<1>5. ASSUME NEW c \in SUBSET Ports, Parse(c) PROVE TypeOK' BY <1>5 DEF Parse
<1>6. CASE ParseFails BY <1>6 DEF ParseFails
<1>7. ASSUME NEW r \in Receivers, Push(r) PROVE TypeOK' BY <1>7 DEF Push
<1>8. CASE PushFlag BY <1>8 DEF PushFlag
<1>9. CASE UpdateObserver BY <1>9 DEF UpdateObserver
<1>10. ASSUME NEW r \in Receivers, SeeReload(r) PROVE TypeOK' BY <1>10 DEF SeeReload
<1>11. ASSUME NEW r \in Receivers, ClearFlag(r) PROVE TypeOK' BY <1>11 DEF ClearFlag
<1>12. ASSUME NEW r \in Receivers, TakeRouter(r) PROVE TypeOK' BY <1>12 DEF TakeRouter
<1>13. ASSUME NEW w \in Workers, ApplyRouter(w) PROVE TypeOK'
  BY <1>13 DEF ApplyRouter, Install, AddedPorts, RemovedPorts
<1>14. CASE ApplyChecker BY <1>14 DEF ApplyChecker, Install
<1>15. ASSUME NEW w \in Workers, Accept(w) PROVE TypeOK' BY <1>15 DEF Accept
<1>16. ASSUME NEW w \in Workers, NEW g \in Generations, Disconnect(w, g) PROVE TypeOK' BY <1>16 DEF Disconnect
<1>17. CASE UNCHANGED vars BY <1>17 DEF vars
<1>18. QED
  BY <1>1, <1>2, <1>3, <1>4, <1>5, <1>6, <1>7, <1>8, <1>9, <1>10, <1>11, <1>12, <1>13, <1>14, <1>15, <1>16, <1>17
     DEF Next, MainStep, ReceiverStep, Apply, Traffic

\* Every router of the configuration, its type invariant.
THEOREM TypeCorrect == Spec => []TypeOK
<1>1. Init => TypeOK BY InitInv DEF Inv
<1>2. QED BY <1>1, StepTypes, PTL DEF Spec

-----------------------------------------------------------------------------
(* No reload is lost.                                                      *)

LEMMA StepNoReloadLost == TypeOK /\ NoReloadLost /\ [Next]_vars => NoReloadLost'
<1> SUFFICES ASSUME TypeOK, NoReloadLost, [Next]_vars PROVE NoReloadLost' OBVIOUS
<1> USE DEF TypeOK, NoReloadLost, outside, mainv, mailbox, recv, serving
<1>1. CASE WriteBegin \/ WriteEnd \/ Signal BY <1>1 DEF WriteBegin, WriteEnd, Signal
<1>2. CASE TakeSignal \/ ParseFails \/ UpdateObserver BY <1>2 DEF TakeSignal, ParseFails, UpdateObserver
<1>3. ASSUME NEW c \in SUBSET Ports, Parse(c) PROVE NoReloadLost' BY <1>3 DEF Parse
<1>4. ASSUME NEW r \in Receivers, Push(r) PROVE NoReloadLost' BY <1>4 DEF Push
<1>5. CASE PushFlag BY <1>5 DEF PushFlag
<1>6. ASSUME NEW r \in Receivers, SeeReload(r) PROVE NoReloadLost' BY <1>6 DEF SeeReload
<1>7. ASSUME NEW r \in Receivers, ClearFlag(r) PROVE NoReloadLost' BY <1>7 DEF ClearFlag
<1>8. ASSUME NEW r \in Receivers, TakeRouter(r) PROVE NoReloadLost' BY <1>8 DEF TakeRouter
<1>9. ASSUME NEW w \in Workers, ApplyRouter(w) PROVE NoReloadLost' BY <1>9 DEF ApplyRouter, Install
<1>10. CASE ApplyChecker BY <1>10 DEF ApplyChecker, Install
<1>11. CASE Traffic BY <1>11 DEF Traffic, Accept, Disconnect
<1>12. CASE UNCHANGED vars BY <1>12 DEF vars
<1>13. QED
  BY <1>1, <1>2, <1>3, <1>4, <1>5, <1>6, <1>7, <1>8, <1>9, <1>10, <1>11, <1>12
     DEF Next, MainStep, ReceiverStep, Apply

\* A router left in a mailbox is never forgotten, whatever the interleaving of the
\* two accesses on either side of the mutex.
THEOREM ReloadsAreKept == Spec => []NoReloadLost
<1>1. Init => TypeOK /\ NoReloadLost BY InitInv DEF Inv
<1>2. QED BY <1>1, StepTypes, StepNoReloadLost, PTL DEF Spec

-----------------------------------------------------------------------------
(* The order of routers.                                                   *)

\* What a step does to the newest router a receiver has been given and has taken:
\* nothing, unless it is a push to it or it takes what it has been given.
OfferStep(r) == Offered(r)' = latest' /\ Adopted(r)' = Adopted(r) /\ r \in todo /\ todo' = todo \ {r}
AdoptStep(r) == Offered(r)' = Offered(r) /\ Adopted(r)' = Offered(r)
StayStep(r)  == Offered(r)' = Offered(r) /\ Adopted(r)' = Adopted(r)

LEMMA MailboxSteps ==
  ASSUME TypeOK, [Next]_vars, NEW r \in Receivers
  PROVE  \/ StayStep(r)
         \/ AdoptStep(r)
         \/ (OfferStep(r) /\ Push(r))
<1> USE DEF TypeOK, outside, mainv, mailbox, recv, serving
<1> DEFINE Stays == pending_router'[r] = pending_router[r] /\ new_router'[r] = new_router[r] /\ router'[r] = router[r]
<1>1. Stays => StayStep(r) BY DEF StayStep, Offered, Adopted
<1>2. CASE WriteBegin \/ WriteEnd \/ Signal BY <1>1, <1>2 DEF WriteBegin, WriteEnd, Signal
<1>3. CASE TakeSignal \/ ParseFails \/ UpdateObserver
  BY <1>1, <1>3 DEF TakeSignal, ParseFails, UpdateObserver
<1>4. ASSUME NEW c \in SUBSET Ports, Parse(c) PROVE StayStep(r) BY <1>1, <1>4 DEF Parse
<1>5. ASSUME NEW q \in Receivers, Push(q) PROVE StayStep(r) \/ (OfferStep(r) /\ Push(r))
  <2>1. CASE q = r
    <3>1. pending_router'[r] = latest /\ latest # None /\ UNCHANGED <<latest, new_router, router>>
      BY <1>5, <2>1 DEF Push
    <3>2. Offered(r)' = latest' /\ Adopted(r)' = Adopted(r) BY <3>1 DEF Offered, Adopted
    <3>3. r \in todo /\ todo' = todo \ {r} BY <1>5, <2>1 DEF Push
    <3>4. QED BY <1>5, <2>1, <3>2, <3>3 DEF OfferStep
  <2>2. CASE q # r
    <3>1. Stays BY <1>5, <2>2 DEF Push
    <3>2. QED BY <1>1, <3>1
  <2>3. QED BY <2>1, <2>2
<1>6. CASE PushFlag BY <1>1, <1>6 DEF PushFlag
<1>7. ASSUME NEW q \in Receivers, SeeReload(q) \/ ClearFlag(q) PROVE StayStep(r)
  BY <1>1, <1>7 DEF SeeReload, ClearFlag
<1>8. ASSUME NEW q \in Receivers, TakeRouter(q) PROVE StayStep(r) \/ AdoptStep(r)
  <2>1. CASE q = r
    <3>1. /\ pending_router'[r] = None /\ new_router'[r] = pending_router[r] /\ router'[r] = router[r]
          /\ new_router[r] = None
      BY <1>8, <2>1 DEF TakeRouter
    <3>2. AdoptStep(r) BY <3>1 DEF AdoptStep, Offered, Adopted
    <3>3. QED BY <3>2
  <2>2. CASE q # r
    <3>1. Stays BY <1>8, <2>2 DEF TakeRouter
    <3>2. QED BY <1>1, <3>1
  <2>3. QED BY <2>1, <2>2
<1>9. ASSUME NEW q \in Receivers, Apply(q) PROVE StayStep(r)
  <2>1. pc[q] = "apply" /\ Install(q) /\ UNCHANGED pending_router
    BY <1>9 DEF Apply, ApplyRouter, ApplyChecker
  <2>2. CASE q = r
    <3>1. /\ router'[r] = new_router[r] /\ new_router'[r] = None /\ new_router[r] # None
          /\ pending_router'[r] = pending_router[r]
      BY <2>1, <2>2 DEF Install
    <3>2. QED BY <3>1 DEF StayStep, Offered, Adopted
  <2>3. CASE q # r
    <3>1. Stays BY <2>1, <2>3 DEF Install
    <3>2. QED BY <1>1, <3>1
  <2>4. QED BY <2>2, <2>3
<1>10. CASE Traffic BY <1>1, <1>10 DEF Traffic, Accept, Disconnect
<1>11. CASE UNCHANGED vars BY <1>1, <1>11 DEF vars
<1>12. QED
  BY <1>2, <1>3, <1>4, <1>5, <1>6, <1>7, <1>8, <1>9, <1>10, <1>11 DEF Next, MainStep, ReceiverStep

\* Only main's steps move the generations and the set of receivers still to be served.
LEMMA MainSteps ==
  ASSUME TypeOK, [Next]_vars
  PROVE  \/ \E c \in SUBSET Ports : Parse(c)
         \/ \E q \in Receivers : Push(q)
         \/ /\ UNCHANGED <<latest, routes, todo>>
            /\ mainPc' # "push" => mainPc # "push" \/ (to = None /\ todo = {})
            /\ to' = to \/ to' = None
<1> USE DEF outside, mainv, mailbox, recv, serving
<1>1. CASE WriteBegin \/ WriteEnd \/ Signal BY <1>1 DEF WriteBegin, WriteEnd, Signal
<1>2. CASE TakeSignal \/ ParseFails \/ UpdateObserver BY <1>2 DEF TakeSignal, ParseFails, UpdateObserver
<1>3. CASE PushFlag BY <1>3 DEF PushFlag
<1>4. ASSUME NEW r \in Receivers, ReceiverStep(r) PROVE UNCHANGED mainv
  BY <1>4 DEF ReceiverStep, SeeReload, ClearFlag, TakeRouter, Apply, ApplyRouter, ApplyChecker
<1>5. CASE Traffic BY <1>5 DEF Traffic, Accept, Disconnect
<1>6. CASE UNCHANGED vars BY <1>6 DEF vars
<1>7. QED BY <1>1, <1>2, <1>3, <1>4, <1>5, <1>6 DEF Next, MainStep

LEMMA OfferedTypes ==
  ASSUME TypeOK, NEW r \in Receivers
  PROVE  Offered(r) \in Nat /\ Adopted(r) \in Nat /\ router[r] \in Nat
BY DEF TypeOK, Offered, Adopted

LEMMA StepPushInv == TypeOK /\ PushInv /\ [Next]_vars => PushInv'
<1> SUFFICES ASSUME TypeOK, PushInv, [Next]_vars PROVE PushInv' OBVIOUS
<1> USE DEF PushInv
<1>1. latest \in Nat /\ todo \subseteq Receivers BY DEF TypeOK
<1>2. ASSUME NEW c \in SUBSET Ports, Parse(c) PROVE PushInv'
  <2>1. /\ mainPc = "parse" /\ mainPc' = "push" /\ latest' = latest + 1 /\ todo' = Receivers
        /\ \A r \in Receivers : Offered(r)' = Offered(r)
    BY <1>2 DEF Parse, Offered, Adopted, mailbox, recv
  <2>2. QED BY <1>1, <2>1
<1>3. ASSUME NEW q \in Receivers, Push(q) PROVE PushInv'
  <2>1. /\ mainPc' = "push" /\ latest' = latest /\ todo' = todo \ {q} /\ q \in todo
        /\ q = Checker => todo = {Checker}
    BY <1>3 DEF Push
  <2>2. Offered(q)' = latest BY <1>1, <1>3 DEF Push, Offered, TypeOK
  <2>3. ASSUME NEW r \in Receivers, r # q PROVE Offered(r)' = Offered(r)
    BY <1>3, <2>3 DEF Push, Offered, Adopted, recv, TypeOK
  <2>4. \A r \in Receivers : Offered(r)' = IF r \in todo' THEN latest' - 1 ELSE latest'
    BY <2>1, <2>2, <2>3
  <2>5. QED BY <1>1, <2>1, <2>4
<1>4. CASE /\ UNCHANGED <<latest, routes, todo>> /\ ~ \E q \in Receivers : Push(q)
           /\ mainPc' # "push" => mainPc # "push" \/ (to = None /\ todo = {})
           /\ to' = to \/ to' = None
  <2>1. ASSUME NEW r \in Receivers PROVE Offered(r)' = Offered(r)
    BY <1>4, MailboxSteps DEF StayStep, AdoptStep
  <2>2. QED BY <1>4, <2>1
<1>5. QED BY <1>2, <1>3, <1>4, MainSteps

\* A thread's own router changes only when it installs the one it has adopted; its
\* connections are made with its own router.
LEMMA RouterSteps ==
  ASSUME TypeOK, [Next]_vars, NEW r \in Receivers
  PROVE  /\ router'[r] = router[r] \/ (router'[r] = Adopted(r) /\ Adopted(r)' = Adopted(r))
         /\ r \in Workers => conns'[r] \subseteq conns[r] \cup {router[r]}
<1> USE DEF TypeOK, outside, mainv, mailbox, recv, serving
<1>1. CASE WriteBegin \/ WriteEnd \/ Signal BY <1>1 DEF WriteBegin, WriteEnd, Signal
<1>2. CASE MainStep
  <2>1. UNCHANGED <<router, conns>>
    BY <1>2 DEF MainStep, TakeSignal, Parse, ParseFails, Push, PushFlag, UpdateObserver
  <2>2. QED BY <2>1
<1>3. ASSUME NEW q \in Receivers, SeeReload(q) \/ ClearFlag(q) \/ TakeRouter(q)
      PROVE  UNCHANGED <<router, conns>>
  BY <1>3 DEF SeeReload, ClearFlag, TakeRouter
<1>4. ASSUME NEW q \in Receivers, Apply(q)
      PROVE  /\ router'[r] = router[r] \/ (router'[r] = Adopted(r) /\ Adopted(r)' = Adopted(r))
             /\ UNCHANGED conns
  <2>1. pc[q] = "apply" /\ Install(q) /\ UNCHANGED <<pending_router, conns>>
    BY <1>4 DEF Apply, ApplyRouter, ApplyChecker
  <2>2. CASE q = r
    <3>1. router'[r] = new_router[r] /\ new_router'[r] = None /\ new_router[r] # None
      BY <2>1, <2>2 DEF Install
    <3>2. QED BY <2>1, <3>1 DEF Adopted
  <2>3. CASE q # r BY <2>1, <2>3 DEF Install
  <2>4. QED BY <2>1, <2>2, <2>3
<1>5. ASSUME NEW w \in Workers, Accept(w) \/ \E g \in Generations : Disconnect(w, g)
      PROVE  UNCHANGED router /\ (r \in Workers => conns'[r] \subseteq conns[r] \cup {router[r]})
  <2>1. UNCHANGED router BY <1>5 DEF Accept, Disconnect
  <2>2. \E C \in SUBSET (conns[w] \cup {router[w]}) : conns' = [conns EXCEPT ![w] = C]
    <3>1. CASE Accept(w) BY <3>1 DEF Accept
    <3>2. ASSUME NEW g \in Generations, Disconnect(w, g)
          PROVE  conns' = [conns EXCEPT ![w] = @ \ {g}]
      BY <3>2 DEF Disconnect
    <3>3. QED BY <1>5, <3>1, <3>2
  <2>3. QED BY <2>1, <2>2
<1>6. CASE UNCHANGED vars BY <1>6 DEF vars
<1>7. QED BY <1>1, <1>2, <1>3, <1>4, <1>5, <1>6 DEF Next, ReceiverStep, Traffic

LEMMA StepOrderInv == TypeOK /\ TypeOK' /\ PushInv /\ OrderInv /\ [Next]_vars => OrderInv'
<1> SUFFICES ASSUME TypeOK, TypeOK', PushInv, OrderInv, [Next]_vars PROVE OrderInv' OBVIOUS
<1> USE DEF OrderInv
<1>1. latest \in Nat /\ \A r \in Receivers : Offered(r) \in Nat /\ Adopted(r) \in Nat /\ router[r] \in Nat
  BY OfferedTypes DEF TypeOK
<1>2. ASSUME NEW r \in Receivers PROVE Adopted(r)' \in Nat /\ Offered(r)' \in Nat /\ router'[r] \in Nat
  BY DEF TypeOK, Offered, Adopted
<1>3. ASSUME NEW r \in Receivers
      PROVE  Adopted(r) <= Adopted(r)' /\ Adopted(r)' <= Offered(r)'
  <2>1. CASE StayStep(r) BY <1>1, <2>1 DEF StayStep
  <2>2. CASE AdoptStep(r) BY <1>1, <2>2 DEF AdoptStep
  <2>3. CASE OfferStep(r) /\ Push(r)
    <3>1. Offered(r) = latest - 1 /\ Offered(r)' = latest /\ Adopted(r)' = Adopted(r)
      BY <2>3 DEF OfferStep, Push, PushInv
    <3>2. QED BY <1>1, <3>1
  <2>4. QED BY <2>1, <2>2, <2>3, MailboxSteps
<1>4. ASSUME NEW r \in Receivers PROVE router[r] <= router'[r] /\ router'[r] <= Adopted(r)'
  BY <1>1, <1>2, <1>3, RouterSteps
<1>5. ASSUME NEW w \in Workers, NEW g \in conns'[w] PROVE g <= router'[w]
  <2>1. g \in Generations BY <1>5 DEF TypeOK
  <2>2. g \in conns[w] \/ g = router[w] BY RouterSteps
  <2>3. QED BY <1>1, <1>2, <1>4, <2>1, <2>2
<1>6. QED BY <1>3, <1>4, <1>5

-----------------------------------------------------------------------------
(* Listeners.                                                              *)

\* The port of a listener is routed: a router is not changed once it is built.
LEMMA StepListeners ==
  TypeOK /\ TypeOK' /\ PushInv /\ OrderInv /\ ListenersAreRouted /\ [Next]_vars => ListenersAreRouted'
<1> SUFFICES ASSUME TypeOK, TypeOK', PushInv, OrderInv, ListenersAreRouted, [Next]_vars,
                    NEW w \in Workers
             PROVE  listeners'[w] \subseteq routes'[router'[w]]
  BY DEF ListenersAreRouted
<1> USE DEF TypeOK, outside, mainv, mailbox, recv, serving
<1>1. listeners[w] \subseteq routes[router[w]] BY DEF ListenersAreRouted
<1>2. ASSUME NEW c \in SUBSET Ports, Parse(c) PROVE listeners'[w] \subseteq routes'[router'[w]]
  <2>1. router[w] \in Nat /\ latest \in Nat /\ router[w] <= latest
    <3>1. Offered(w) <= latest
      <4>1. Offered(w) = IF w \in todo THEN latest - 1 ELSE latest BY Zenon DEF PushInv
      <4>2. latest \in Nat OBVIOUS
      <4>3. QED BY <4>1, <4>2
    <3>2. router[w] <= Adopted(w) /\ Adopted(w) <= Offered(w) BY DEF OrderInv
    <3>3. QED BY <3>1, <3>2, OfferedTypes
  <2>2. router[w] # latest + 1 BY <2>1
  <2>3. UNCHANGED <<listeners, router>> /\ routes' = [routes EXCEPT ![latest + 1] = c]
    BY <1>2 DEF Parse
  <2>4. routes'[router[w]] = routes[router[w]] BY <2>2, <2>3
  <2>5. QED BY <1>1, <2>3, <2>4
<1>3. ASSUME NEW q \in Workers, ApplyRouter(q) PROVE listeners'[w] \subseteq routes'[router'[w]]
  BY <1>1, <1>3 DEF ApplyRouter, Install, AddedPorts, RemovedPorts
<1>4. CASE ApplyChecker BY <1>1, <1>4 DEF ApplyChecker, Install
<1>5. CASE UNCHANGED <<routes, router, listeners>> BY <1>1, <1>5
<1>6. CASE WriteBegin \/ WriteEnd \/ Signal BY <1>5, <1>6 DEF WriteBegin, WriteEnd, Signal
<1>7. ASSUME MainStep, ~ \E c \in SUBSET Ports : Parse(c) PROVE UNCHANGED <<routes, router, listeners>>
  BY <1>7 DEF MainStep, TakeSignal, ParseFails, Push, PushFlag, UpdateObserver
<1>8. ASSUME NEW q \in Receivers, SeeReload(q) \/ ClearFlag(q) \/ TakeRouter(q)
      PROVE  UNCHANGED <<routes, router, listeners>>
  BY <1>8 DEF SeeReload, ClearFlag, TakeRouter
<1>9. CASE Traffic BY <1>5, <1>9 DEF Traffic, Accept, Disconnect
<1>10. CASE UNCHANGED vars BY <1>5, <1>10 DEF vars
<1>11. QED
  BY <1>2, <1>3, <1>4, <1>5, <1>6, <1>7, <1>8, <1>9, <1>10 DEF Next, ReceiverStep, Apply

\* The invariant all the following theorems rest on.
THEOREM InvHolds == Spec => []Inv
<1>1. Init => Inv BY InitInv
<1>2. Inv /\ [Next]_vars => Inv'
  BY StepTypes, StepPushInv, StepOrderInv, StepListeners DEF Inv
<1>3. QED BY <1>1, <1>2, PTL DEF Spec

\* Between reloads no listener of an event loop is without a route.
THEOREM ListenersHaveRoutes == Spec => []ListenersAreRouted
<1>1. Inv => ListenersAreRouted BY DEF Inv
<1>2. QED BY <1>1, InvHolds, PTL

-----------------------------------------------------------------------------
(* What the order of routers is good for.                                  *)

\* No router reaches the health checker before every event loop has been given it.
THEOREM CheckerIsLast == Spec => []WorkersToldFirst
<1>1. ASSUME Inv, NEW w \in Workers PROVE Offered(w) >= Adopted(Checker)
  <2>1. Adopted(Checker) <= Offered(Checker) BY <1>1 DEF Inv, OrderInv
  <2>2. Offered(Checker) <= Offered(w)
    <3>1. latest \in Nat BY <1>1 DEF Inv, TypeOK
    <3>2. QED BY <1>1, <3>1 DEF Inv, PushInv
  <2>3. TypeOK BY <1>1 DEF Inv
  <2>4. QED BY <2>1, <2>2, <2>3, OfferedTypes
<1>2. Inv => WorkersToldFirst BY <1>1 DEF WorkersToldFirst
<1>3. QED BY <1>2, InvHolds, PTL

\* After at most one reload every connection's backend still has an owner.
THEOREM FirstReloadIsSafe == Spec => []OneReloadIsSafe
<1>1. ASSUME Inv, latest <= 1, NEW w \in Workers, NEW g \in conns[w] PROVE g \in Owners
  <2>1. g \in Nat /\ latest \in Nat /\ TypeOK BY <1>1 DEF Inv, TypeOK
  <2>2. g <= router[w] BY <1>1 DEF Inv, OrderInv
  <2>3. router[w] <= Adopted(w) /\ Adopted(w) <= Offered(w) BY <1>1 DEF Inv, OrderInv
  <2>4. Offered(w) <= latest BY <1>1, <2>1 DEF Inv, PushInv
  <2>5. router[w] <= 1 BY <1>1, <2>1, <2>3, <2>4, OfferedTypes
  <2>6. g = 0 \/ g = router[w] BY <2>1, <2>2, <2>5, OfferedTypes
  <2>7. router[w] \in Held(w) BY <1>1 DEF Inv, TypeOK, Held
  <2>8. QED BY <2>6, <2>7 DEF Owners
<1>2. Inv => OneReloadIsSafe BY <1>1 DEF OneReloadIsSafe, BackendTracked
<1>3. QED BY <1>2, InvHolds, PTL

\* Every mailbox implements LatestRouter.
THEOREM MailboxIsLatestRouter == Spec => RefinesLatest
<1> USE DEF Mailbox!Init, Mailbox!Next, Mailbox!Offer, Mailbox!Adopt, Mailbox!vars
<1>1. Init => \A r \in Receivers : Mailbox(r)!Init BY DEF Init, Offered, Adopted
<1>2. ASSUME Inv, [Next]_vars, NEW r \in Receivers PROVE [Mailbox(r)!Next]_(Mailbox(r)!vars)
  <2>1. CASE StayStep(r) BY <2>1 DEF StayStep
  <2>2. CASE AdoptStep(r) BY <2>2 DEF AdoptStep
  <2>3. CASE OfferStep(r) /\ Push(r)
    <3>1. Offered(r) = latest - 1 /\ Offered(r)' = latest /\ Adopted(r)' = Adopted(r) /\ latest \in Nat
      BY <1>2, <2>3 DEF OfferStep, Push, Inv, PushInv, TypeOK
    <3>2. QED BY <3>1
  <2>4. QED BY <1>2, <2>1, <2>2, <2>3, MailboxSteps DEF Inv
<1>3. Inv /\ [Next]_vars => \A r \in Receivers : [Mailbox(r)!Next]_(Mailbox(r)!vars)
  BY <1>2
<1>4. QED BY <1>1, <1>3, InvHolds, PTL DEF Spec, RefinesLatest

-----------------------------------------------------------------------------
(* What Converges rests on: a gateway that has nothing left to do is up to *)
(* date.                                                                   *)

\* A complete file is what the newest router routes, or main has still to be told, or to parse.
FileInv == writing = None => Current(latest) \/ unsignalled > 0 \/ hup \/ mainPc = "parse"

ObserverInv == mainPc # "push" => observer = latest

\* Each router costs a signal, each signal a rewriting: where a rewriting has got to, as a number.
OneIf(holds) == IF holds THEN 1 ELSE 0
CountInv ==
  latest + OneIf(mainPc = "parse") + OneIf(hup) + unsignalled + OneIf(writing # None) <= writes

LEMMA InitFile == Init => FileInv /\ ObserverInv /\ CountInv
<1> SUFFICES ASSUME Init PROVE FileInv /\ ObserverInv /\ CountInv OBVIOUS
<1>1. FileInv /\ ObserverInv BY DEF Init, FileInv, ObserverInv, Current
<1>2. CountInv BY DEF Init, CountInv, OneIf
<1>3. QED BY <1>1, <1>2

\* A step of any other thread, or one of main that serves a receiver.
LEMMA FileStays ==
  ASSUME FileInv, ObserverInv, CountInv,
         UNCHANGED <<file, writing, writes, unsignalled, hup, mainPc, latest, routes, observer>>
  PROVE  FileInv' /\ ObserverInv' /\ CountInv'
BY DEF FileInv, ObserverInv, CountInv, Current, OneIf

LEMMA StepFile ==
  TypeOK /\ PushInv /\ FileInv /\ ObserverInv /\ CountInv /\ [Next]_vars => FileInv' /\ ObserverInv' /\ CountInv'
<1> SUFFICES ASSUME TypeOK, PushInv, FileInv, ObserverInv, CountInv, [Next]_vars
             PROVE  FileInv' /\ ObserverInv' /\ CountInv'
  OBVIOUS
<1> USE DEF outside, mainv, mailbox, recv, serving
<1>0. latest \in Nat /\ unsignalled \in Nat /\ writes \in Nat /\ hup \in BOOLEAN BY DEF TypeOK
<1>1. CASE WriteBegin
  <2>1. writing' # None /\ writing = None BY <1>1 DEF WriteBegin, Contents
  <2>2. QED BY <1>0, <1>1, <2>1 DEF WriteBegin, FileInv, ObserverInv, CountInv, OneIf
<1>2. CASE WriteEnd BY <1>0, <1>2 DEF WriteEnd, FileInv, ObserverInv, CountInv, OneIf
<1>3. CASE Signal BY <1>0, <1>3 DEF Signal, FileInv, ObserverInv, CountInv, OneIf
<1>4. CASE TakeSignal BY <1>0, <1>4 DEF TakeSignal, FileInv, ObserverInv, CountInv, OneIf
<1>5. ASSUME NEW c \in SUBSET Ports, Parse(c) PROVE FileInv' /\ ObserverInv' /\ CountInv'
  <2>1. /\ mainPc = "parse" /\ mainPc' = "push" /\ latest' = latest + 1 /\ latest < MaxWrites
        /\ routes' = [routes EXCEPT ![latest + 1] = c] /\ c \in Readable
        /\ UNCHANGED <<file, writing, writes, unsignalled, hup>>
    BY <1>5 DEF Parse
  <2>2. routes'[latest + 1] = c BY <1>0, <2>1 DEF TypeOK
  <2>3. writing = None => c = file BY <2>1 DEF Readable
  <2>4. FileInv' BY <2>1, <2>2, <2>3 DEF FileInv, Current
  <2>5. CountInv' BY <1>0, <2>1 DEF CountInv, OneIf
  <2>6. QED BY <2>1, <2>4, <2>5 DEF ObserverInv
<1>6. CASE ParseFails
  <2>1. writing = None => file = Malformed BY <1>6 DEF ParseFails, Readable
  <2>2. FileInv' BY <1>6, <2>1 DEF ParseFails, FileInv, Current
  <2>3. QED BY <1>0, <1>6, <2>2 DEF ParseFails, ObserverInv, CountInv, OneIf
<1>7. CASE (\E r \in Receivers : Push(r)) \/ PushFlag BY <1>7, FileStays DEF Push, PushFlag
<1>8. CASE UpdateObserver
  BY <1>0, <1>8 DEF UpdateObserver, FileInv, ObserverInv, CountInv, OneIf, Current
<1>9. ASSUME NEW r \in Receivers, ReceiverStep(r) PROVE UNCHANGED <<outside, hup, mainv>>
  BY <1>9 DEF ReceiverStep, SeeReload, ClearFlag, TakeRouter, Apply, ApplyRouter, ApplyChecker
<1>10. CASE Traffic BY <1>10, FileStays DEF Traffic, Accept, Disconnect
<1>11. CASE UNCHANGED vars BY <1>11, FileStays DEF vars
<1>12. QED
  BY <1>1, <1>2, <1>3, <1>4, <1>5, <1>6, <1>7, <1>8, <1>9, <1>10, <1>11, FileStays DEF Next, MainStep

LEMMA FileInvHolds == Spec => [](Inv /\ NoReloadLost /\ FileInv /\ ObserverInv /\ CountInv)
<1> DEFINE Fresh == FileInv /\ ObserverInv /\ CountInv
<1>1. Init => Fresh BY InitFile
<1>2. Inv /\ Fresh /\ [Next]_vars => Fresh' BY StepFile DEF Inv
<1> HIDE DEF Fresh
<1>3. Spec => []Fresh BY <1>1, <1>2, InvHolds, PTL DEF Spec
<1>4. QED BY <1>3, InvHolds, ReloadsAreKept, PTL DEF Fresh

\* Nobody is writing the file, no signal is under way, main waits, and no thread would find a
\* router at the top of its loop.
Quiet ==
  /\ writing = None /\ unsignalled = 0 /\ ~hup /\ mainPc = "wait"
  /\ \A r \in Receivers : ~reload_pending[r] /\ pc[r] = "loop"

(***************************************************************************)
(* The safety half of Converges: whenever nothing of a reload is left to   *)
(* do, every thread works with the file's configuration (or the file does  *)
(* not parse), whatever main read of it while it was being rewritten and   *)
(* however many signals became one (main.cpp:159-201).                     *)
(***************************************************************************)
QuietIsCurrent == Quiet => Current(observer) /\ \A r \in Receivers : Current(router[r])

\* A stale router is in use only while something that will replace it is still to happen.
THEOREM NothingStaleIsLeft == Spec => []QuietIsCurrent
<1>1. ASSUME Inv, NoReloadLost, FileInv, ObserverInv, Quiet
      PROVE  Current(observer) /\ \A r \in Receivers : Current(router[r])
  <2>1. Current(latest) /\ observer = latest BY <1>1 DEF Quiet, FileInv, ObserverInv, Inv, TypeOK
  <2>2. todo = {} /\ to = None BY <1>1 DEF Quiet, Inv, PushInv
  <2>3. ASSUME NEW r \in Receivers PROVE router[r] = latest
    <3>1. pending_router[r] = None BY <1>1, <2>2, <2>3 DEF Quiet, NoReloadLost
    <3>2. new_router[r] = None BY <1>1, <2>3 DEF Quiet, Inv, TypeOK
    <3>3. Offered(r) = latest BY <1>1, <2>2, <2>3 DEF Inv, PushInv
    <3>4. QED BY <3>1, <3>2, <3>3 DEF Offered, Adopted
  <2>4. QED BY <2>1, <2>3
<1>2. Inv /\ NoReloadLost /\ FileInv /\ ObserverInv => QuietIsCurrent BY <1>1 DEF QuietIsCurrent
<1>3. QED BY <1>2, FileInvHolds, PTL

(***************************************************************************)
(* The bound of the model on generations cuts off no reload: whenever main *)
(* parses, there is a generation left for what it will build.              *)
(***************************************************************************)
BoundNeverBites == mainPc = "parse" => latest < MaxWrites

\* Parse's guard on latest is implied by the bound on rewrites alone.
THEOREM ParseIsNeverCutOff == Spec => []BoundNeverBites
<1>1. ASSUME Inv, CountInv, mainPc = "parse" PROVE latest < MaxWrites
  <2>1. latest \in Nat /\ unsignalled \in Nat /\ writes \in Nat /\ writes <= MaxWrites
    BY <1>1 DEF Inv, TypeOK
  <2>2. latest + 1 <= writes BY <1>1, <2>1 DEF CountInv, OneIf
  <2>3. QED BY <2>1, <2>2
<1>2. Inv /\ CountInv => BoundNeverBites BY <1>1 DEF BoundNeverBites
<1>3. QED BY <1>2, FileInvHolds, PTL

=============================================================================

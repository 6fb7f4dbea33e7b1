--------------------------- MODULE EventLoop_proofs ---------------------------
(***************************************************************************)
(* Invariance proofs for EventLoop, for any set of descriptors, any number *)
(* of listeners and of descriptors in other threads' hands.                *)
(***************************************************************************)
EXTENDS EventLoop, TLAPS

\* What the accept in progress, the listeners and the leaked pipes are open for.
RolesInv ==
  /\ \A l \in Listeners : file[l] = "listener"
  /\ \A f \in leaked : file[f] = "pipe"
  /\ conn.client # None => file[conn.client] = "client"
  /\ conn.backend # None => file[conn.backend] = "backend"
  /\ conn.c2b # None => file[conn.c2b] = "pipe"
  /\ conn.b2c # None => file[conn.b2c] = "pipe" /\ conn.b2c # conn.c2b

\* TableExact and DescriptorsAccounted, descriptor by descriptor.
Tabled(f) == \E g \in Fds : connections[g] # None /\ f \in Of(connections[g])

EntryInv ==
  \A f \in Fds : connections[f] # None =>
    LET r == connections[f] IN
      /\ f \in {r.client, r.backend}
      /\ connections[r.client] = r /\ connections[r.backend] = r
      /\ file[r.client] = "client" /\ file[r.backend] = "backend"
      /\ file[r.c2b] = "pipe" /\ file[r.b2c] = "pipe" /\ r.c2b # r.b2c

DisjointInv ==
  /\ \A f, g \in Fds : connections[f] # None /\ connections[g] # None =>
       connections[f] = connections[g] \/ Of(connections[f]) \cap Of(connections[g]) = {}
  /\ \A f \in Fds : Tabled(f) => f \notin Of(conn) /\ f \notin leaked
  /\ leaked \cap Of(conn) = {}

OpenInv ==
  \A f \in Fds : file[f] \notin {None, "other"} <=>
                   f \in Listeners \/ Tabled(f) \/ f \in Of(conn) \/ f \in leaked

WatchInv ==
  /\ \A f \in watched : \/ f \in Listeners \/ connections[f] # None
                        \/ pc = "watch2" /\ f = conn.client
  /\ \A f \in Fds : connections[f] # None => connections[f].backend \in watched

Inv == TypeOK /\ RolesInv /\ EntryInv /\ DisjointInv /\ OpenInv /\ WatchInv

USE FdsAssumption, NoneAssumption DEF Connection, Kinds

-----------------------------------------------------------------------------
(* The stated properties follow.                                           *)

LEMMA InvImplies == Inv => TableExact /\ DescriptorsAccounted /\ WatchedAreServed
<1> SUFFICES ASSUME Inv PROVE TableExact /\ DescriptorsAccounted /\ WatchedAreServed OBVIOUS
<1> USE DEF Inv
<1>1. TableExact
  <2>1. ASSUME NEW r \in Established, NEW s \in Established PROVE r = s \/ Of(r) \cap Of(s) = {}
    <3>1. PICK f \in Fds : connections[f] # None /\ r = connections[f] BY DEF Established
    <3>2. PICK g \in Fds : connections[g] # None /\ s = connections[g] BY DEF Established
    <3>3. QED BY <3>1, <3>2 DEF DisjointInv
  <2>2. QED BY <2>1 DEF TableExact, EntryInv
<1>2. \A f : f \in UNION {Of(r) : r \in Established} <=> Tabled(f)
  BY DEF Established, Tabled
<1>3. \A f : f \in Of(conn) => f \in Fds BY DEF TypeOK, Of
<1>4. \A f : Tabled(f) => f \in Fds BY DEF TypeOK, Of, Tabled
<1>5. DescriptorsAccounted
  <2> DEFINE tabled == UNION {Of(r) : r \in Established}
  <2> HIDE DEF tabled
  <2>1. \A f : f \in tabled <=> Tabled(f) BY <1>2 DEF tabled
  <2>2. {f \in Fds : file[f] \notin {None, "other"}} = Listeners \cup tabled \cup Of(conn) \cup leaked
    <3>1. Listeners \subseteq Fds /\ leaked \subseteq Fds BY DEF TypeOK
    <3>2. ASSUME NEW f PROVE f \in Fds /\ file[f] \notin {None, "other"} <=>
                   f \in Listeners \/ f \in tabled \/ f \in Of(conn) \/ f \in leaked
      BY <2>1, <1>3, <1>4, <3>1 DEF OpenInv
    <3>3. QED BY <3>2
  <2>3. tabled \cap Of(conn) = {} /\ leaked \cap (tabled \cup Of(conn)) = {}
    BY <2>1, <1>4 DEF DisjointInv
  <2>4. QED BY <2>2, <2>3 DEF DescriptorsAccounted, tabled
<1>6. WatchedAreServed BY DEF WatchedAreServed, WatchInv, Established
<1>7. QED BY <1>1, <1>5, <1>6

LEMMA InitInv == Init => Inv
<1> SUFFICES ASSUME Init PROVE Inv OBVIOUS
<1> USE DEF Init, Unset
<1>1. TypeOK BY DEF TypeOK, AcceptPcs, Events
<1>2. Of(conn) = {} BY DEF Of
<1>3. \A f : ~Tabled(f) BY DEF Tabled
<1>4. RolesInv /\ EntryInv /\ WatchInv BY DEF RolesInv, EntryInv, WatchInv
<1>5. DisjointInv BY <1>2, <1>3 DEF DisjointInv
<1>6. OpenInv BY <1>2, <1>3 DEF OpenInv
<1>7. QED BY <1>1, <1>4, <1>5, <1>6 DEF Inv
-----------------------------------------------------------------------------
(* The four ways the descriptors change.                                   *)

\* handle_accept takes a free descriptor f for the field k of conn.
LEMMA OpenStep ==
  ASSUME Inv, NEW f \in Fds, file[f] = None, NEW role \in {"client", "backend", "pipe"},
         file' = [file EXCEPT ![f] = role],
         UNCHANGED <<watched, connections, batch, leaked>>,
         conn' \in [client : Fds \cup {None}, backend : Fds \cup {None}, c2b : Fds \cup {None}, b2c : Fds \cup {None}],
         Of(conn') = Of(conn) \cup {f},
         pc # "watch2"
  PROVE  EntryInv' /\ DisjointInv' /\ OpenInv' /\ WatchInv'
<1> USE DEF Inv
<1>1. \A g : Tabled(g)' <=> Tabled(g) BY DEF Tabled
<1>2. ~Tabled(f) /\ f \notin Of(conn) /\ f \notin leaked /\ f \notin Listeners BY DEF OpenInv
<1>3. EntryInv' BY DEF EntryInv, TypeOK
<1>4. DisjointInv'
  <2>1. \A g, h \in Fds : connections'[g] # None /\ connections'[h] # None =>
          connections'[g] = connections'[h] \/ Of(connections'[g]) \cap Of(connections'[h]) = {}
    BY DEF DisjointInv
  <2>2. \A g \in Fds : Tabled(g)' => g \notin Of(conn') /\ g \notin leaked'
    BY <1>1, <1>2 DEF DisjointInv
  <2>3. leaked' \cap Of(conn') = {} BY <1>2 DEF DisjointInv
  <2>4. Of(conn)' = Of(conn') BY DEF Of
  <2>5. QED BY <2>1, <2>2, <2>3, <2>4 DEF DisjointInv, Of
<1>5. OpenInv' BY <1>1, <1>2 DEF OpenInv, TypeOK, Of
<1>6. WatchInv' BY DEF WatchInv
<1>7. QED BY <1>3, <1>4, <1>5, <1>6
\* handle_accept gives its client up and closes some of what conn holds.
LEMMA GiveUpStep ==
  ASSUME Inv, NEW fds \in SUBSET Of(conn), NextClient(fds), conn.client \in fds,
         leaked' = leaked \cup (Of(conn) \ fds),
         \A f \in Of(conn) \ fds : file[f] = "pipe"
  PROVE  RolesInv' /\ EntryInv' /\ DisjointInv' /\ OpenInv' /\ WatchInv'
<1> USE DEF Inv, NextClient, Close, Unset
<1>1. \A g : Tabled(g)' <=> Tabled(g) BY DEF Tabled
<1>2. Of(conn)' = {} BY DEF Of
<1>3. \A f \in Fds : f \in fds => f \in Of(conn) /\ ~Tabled(f) /\ f \notin leaked BY DEF DisjointInv
<1>4. \A f \in fds : file[f] # "listener" BY DEF RolesInv, Of
<1>5. \A f \in Fds : file'[f] = IF f \in fds THEN None ELSE file[f] OBVIOUS
<1>6. Of(conn) \subseteq Fds BY DEF TypeOK, Of
<1>7. leaked \subseteq Fds BY DEF TypeOK
<1>8. \A f \in Listeners : file'[f] = "listener" BY <1>4, <1>5 DEF RolesInv
<1>9. \A f \in leaked' : file'[f] = "pipe" BY <1>3, <1>5, <1>6, <1>7 DEF RolesInv
<1>10. RolesInv' BY <1>8, <1>9 DEF RolesInv
<1>11. ASSUME NEW f \in Fds, connections[f] # None
       PROVE  /\ connections[f].client \notin fds /\ connections[f].backend \notin fds
              /\ connections[f].c2b \notin fds /\ connections[f].b2c \notin fds
              /\ connections[f] \in Connection
  <2>1. connections[f] \in Connection BY <1>11 DEF TypeOK
  <2>2. \A g \in Of(connections[f]) : Tabled(g) /\ g \in Fds BY <1>11, <2>1 DEF Tabled, Of
  <2>3. Of(connections[f]) = {connections[f].client, connections[f].backend, connections[f].c2b, connections[f].b2c}
    BY <2>1 DEF Of
  <2>4. QED BY <2>1, <2>2, <2>3, <1>3
<1>12. EntryInv'
  <2>1. connections' = connections OBVIOUS
  <2>2. ASSUME NEW f \in Fds, connections[f] # None
        PROVE  LET r == connections[f] IN
               /\ f \in {r.client, r.backend}
               /\ connections[r.client] = r /\ connections[r.backend] = r
               /\ file'[r.client] = "client" /\ file'[r.backend] = "backend"
               /\ file'[r.c2b] = "pipe" /\ file'[r.b2c] = "pipe" /\ r.c2b # r.b2c
    BY <2>2, <1>11, <1>5 DEF EntryInv
  <2>3. QED BY ONLY <2>1, <2>2, Zenon DEF EntryInv
<1>13. DisjointInv'
  <2>1. \A g, h \in Fds : connections'[g] # None /\ connections'[h] # None =>
          connections'[g] = connections'[h] \/ Of(connections'[g]) \cap Of(connections'[h]) = {}
    BY DEF DisjointInv
  <2>2. \A g \in Fds : Tabled(g)' => g \notin Of(conn)' /\ g \notin leaked'
    BY <1>1, <1>2 DEF DisjointInv
  <2>3. leaked' \cap Of(conn)' = {} BY <1>2
  <2>4. QED BY <2>1, <2>2, <2>3 DEF DisjointInv, Of
<1>14. OpenInv'
  <2>1. SUFFICES ASSUME NEW f \in Fds
                 PROVE  file'[f] \notin {None, "other"} <=>
                          f \in Listeners \/ Tabled(f) \/ f \in leaked'
    BY <1>1, <1>2 DEF OpenInv
  <2>2. CASE f \in fds BY <2>2, <1>3, <1>4, <1>5 DEF RolesInv
  <2>3. CASE f \notin fds BY <2>3, <1>5 DEF OpenInv
  <2>4. QED BY <2>2, <2>3
<1>15. WatchInv'
  <2>1. \A f \in watched' : f \in Listeners \/ connections'[f] # None BY DEF WatchInv
  <2>2. \A f \in Fds : connections'[f] # None => connections'[f].backend \in watched'
    BY <1>11 DEF WatchInv
  <2>3. QED BY <2>1, <2>2 DEF WatchInv
<1>16. QED BY <1>10, <1>12, <1>13, <1>14, <1>15
\* The new connection enters the table.
LEMMA RegisterStep == Inv /\ Register => RolesInv' /\ EntryInv' /\ DisjointInv' /\ OpenInv' /\ WatchInv'
<1> SUFFICES ASSUME Inv, Register PROVE RolesInv' /\ EntryInv' /\ DisjointInv' /\ OpenInv' /\ WatchInv'
  OBVIOUS
<1> USE DEF Inv, Register, Unset
<1>1. /\ conn \in Connection /\ conn # None /\ Of(conn)' = {}
      /\ Of(conn) = {conn.client, conn.backend, conn.c2b, conn.b2c}
  <2>1. conn.client \in Fds /\ conn.backend \in Fds /\ conn.c2b \in Fds /\ conn.b2c \in Fds
    BY DEF TypeOK
  <2>2. conn \in Connection BY <2>1 DEF TypeOK
  <2>3. QED BY <2>1, <2>2 DEF Of
<1>2. /\ file[conn.client] = "client" /\ file[conn.backend] = "backend"
      /\ file[conn.c2b] = "pipe" /\ file[conn.b2c] = "pipe" /\ conn.c2b # conn.b2c
  BY DEF RolesInv, TypeOK
<1>3. connections[conn.client] = None /\ connections[conn.backend] = None
  <2>1. ASSUME NEW f \in Fds, connections[f] # None PROVE f \in Of(connections[f])
    BY <2>1 DEF EntryInv, TypeOK, Of
  <2>2. ASSUME NEW f \in Of(conn) PROVE f \in Fds /\ ~Tabled(f) BY <1>1 DEF DisjointInv
  <2>3. QED BY <1>1, <2>1, <2>2 DEF Tabled
<1>4. \A f \in Fds : connections'[f] = IF f \in {conn.client, conn.backend} THEN conn ELSE connections[f]
  BY <1>1 DEF TypeOK
<1>5. ASSUME NEW f \in Fds, connections[f] # None
      PROVE  connections'[f] = connections[f] /\ Of(connections[f]) \cap Of(conn) = {}
  <2>1. connections'[f] = connections[f] BY <1>3, <1>4, <1>5
  <2>2. \A g \in Of(connections[f]) : Tabled(g) BY <1>5 DEF Tabled
  <2>3. \A g \in Of(connections[f]) : g \in Fds BY <1>5 DEF TypeOK, Of
  <2>4. QED BY <2>1, <2>2, <2>3 DEF DisjointInv
<1>6. RolesInv' BY DEF RolesInv
<1>7. EntryInv'
  <2>1. SUFFICES ASSUME NEW f \in Fds, connections'[f] # None
                 PROVE  LET r == connections'[f] IN
                        /\ f \in {r.client, r.backend}
                        /\ connections'[r.client] = r /\ connections'[r.backend] = r
                        /\ file[r.client] = "client" /\ file[r.backend] = "backend"
                        /\ file[r.c2b] = "pipe" /\ file[r.b2c] = "pipe" /\ r.c2b # r.b2c
    BY DEF EntryInv
  <2>2. CASE f \in {conn.client, conn.backend} BY <2>2, <1>1, <1>2, <1>4
  <2>3. CASE f \notin {conn.client, conn.backend}
    <3>1. connections'[f] = connections[f] /\ connections[f] # None BY <2>1, <2>3, <1>4
    <3>2. connections[f].client \in Fds /\ connections[f].backend \in Fds BY <3>1 DEF TypeOK
    <3>3. connections[connections[f].client] = connections[f] /\ connections[connections[f].backend] = connections[f]
      BY <3>1 DEF EntryInv
    <3>4. /\ connections'[connections[f].client] = connections[f]
          /\ connections'[connections[f].backend] = connections[f]
      BY <3>1, <3>2, <3>3, <1>5
    <3>5. QED BY <3>1, <3>4 DEF EntryInv
  <2>4. QED BY <2>2, <2>3
<1>8. \A g : Tabled(g)' <=> Tabled(g) \/ g \in Of(conn)
  <2>1. ASSUME NEW g, Tabled(g) PROVE Tabled(g)' BY <2>1, <1>5 DEF Tabled
  <2>2. ASSUME NEW g \in Of(conn) PROVE Tabled(g)' BY <2>2, <1>1, <1>4 DEF Tabled
  <2>3. ASSUME NEW g, Tabled(g)' PROVE Tabled(g) \/ g \in Of(conn) BY <2>3, <1>4 DEF Tabled
  <2>4. QED BY <2>1, <2>2, <2>3
<1>9. DisjointInv'
  <2>1. ASSUME NEW g \in Fds, NEW h \in Fds, connections'[g] # None, connections'[h] # None
        PROVE  connections'[g] = connections'[h] \/ Of(connections'[g]) \cap Of(connections'[h]) = {}
    <3>1. connections'[g] = conn \/ connections'[g] = connections[g] BY <1>4
    <3>2. connections'[h] = conn \/ connections'[h] = connections[h] BY <1>4
    <3>3. connections'[g] = conn \/ connections'[h] = conn \/
          connections'[g] = connections'[h] \/ Of(connections'[g]) \cap Of(connections'[h]) = {}
      BY <2>1, <3>1, <3>2 DEF DisjointInv
    <3>4. connections'[g] # conn => Of(connections'[g]) \cap Of(conn) = {} BY <2>1, <3>1, <1>5
    <3>5. connections'[h] # conn => Of(connections'[h]) \cap Of(conn) = {} BY <2>1, <3>2, <1>5
    <3>6. QED BY <3>3, <3>4, <3>5
  <2>2. \A g \in Fds : Tabled(g)' => g \notin Of(conn)' /\ g \notin leaked'
    BY <1>1, <1>8 DEF DisjointInv
  <2>3. leaked' \cap Of(conn)' = {} BY <1>1
  <2>4. QED BY <2>1, <2>2, <2>3 DEF DisjointInv, Of
<1>10. OpenInv' BY <1>1, <1>8 DEF OpenInv
<1>11. WatchInv'
  <2>1. \A f \in watched' : f \in Listeners \/ connections'[f] # None
    BY <1>1, <1>4, <1>5 DEF WatchInv, TypeOK
  <2>2. ASSUME NEW f \in Fds, connections'[f] # None PROVE connections'[f].backend \in watched'
    <3>1. CASE connections'[f] = conn BY <3>1
    <3>2. CASE connections'[f] # conn
      <4>1. connections'[f] = connections[f] BY <3>2, <1>4
      <4>2. QED BY <4>1, <2>2 DEF WatchInv
    <3>3. QED BY <3>1, <3>2
  <2>3. QED BY <2>1, <2>2 DEF WatchInv
<1>12. QED BY <1>6, <1>7, <1>9, <1>10, <1>11

\* remove_connection: everything of one connection goes, nothing of another.
LEMMA RemoveStep ==
  ASSUME Inv, NEW f \in Fds, connections[f] # None, Remove(f), pc = "batch",
         UNCHANGED <<pc, conn, leaked>>
  PROVE  RolesInv' /\ EntryInv' /\ DisjointInv' /\ OpenInv' /\ WatchInv'
<1> DEFINE r == connections[f]
<1> USE DEF Inv, Remove, Close
<1>1. /\ r \in Connection /\ Of(r) = {r.client, r.backend, r.c2b, r.b2c} /\ Of(r) \subseteq Fds
      /\ connections[r.client] = r /\ connections[r.backend] = r
  <2>1. r \in Connection BY DEF TypeOK
  <2>2. connections[r.client] = r /\ connections[r.backend] = r BY DEF EntryInv
  <2>3. QED BY <2>1, <2>2 DEF Of
<1>2. \A g \in Of(r) : Tabled(g) /\ g \notin Of(conn) /\ g \notin leaked /\ file[g] # "listener"
  <2>1. \A g \in Of(r) : Tabled(g) BY DEF Tabled
  <2>2. \A g \in Of(r) : file[g] # "listener" BY <1>1 DEF EntryInv
  <2>3. QED BY <2>1, <2>2, <1>1 DEF DisjointInv
<1>3. \A g \in Fds : file'[g] = IF g \in Of(r) THEN None ELSE file[g] OBVIOUS
<1>4. \A g \in Fds : connections'[g] = IF g \in {r.client, r.backend} THEN None ELSE connections[g]
  BY DEF TypeOK
<1>5. ASSUME NEW g \in Fds, connections'[g] # None
      PROVE  /\ connections'[g] = connections[g] /\ connections[g] # None /\ connections[g] \in Connection
             /\ Of(connections[g]) = {connections[g].client, connections[g].backend, connections[g].c2b, connections[g].b2c}
             /\ Of(connections[g]) \cap Of(r) = {}
  <2>1. connections'[g] = connections[g] /\ connections[g] # None BY <1>4, <1>5
  <2>2. connections[g] \in Connection BY <2>1 DEF TypeOK
  <2>3. g \in {connections[g].client, connections[g].backend} BY <2>1 DEF EntryInv
  <2>4. connections[g] # r BY <2>1, <2>3, <1>4, <1>5
  <2>5. QED BY <2>1, <2>2, <2>4 DEF DisjointInv, Of
<1>6. \A g \in Fds : Tabled(g)' <=> Tabled(g) /\ g \notin Of(r)
  <2>1. ASSUME NEW g \in Fds, Tabled(g)' PROVE Tabled(g) /\ g \notin Of(r) BY <2>1, <1>5 DEF Tabled
  <2>2. ASSUME NEW g \in Fds, Tabled(g), g \notin Of(r) PROVE Tabled(g)'
    <3>1. PICK h \in Fds : connections[h] # None /\ g \in Of(connections[h]) BY <2>2 DEF Tabled
    <3>2. h \notin {r.client, r.backend} BY <3>1, <2>2, <1>1
    <3>3. QED BY <3>1, <3>2, <1>4 DEF Tabled
  <2>3. QED BY <2>1, <2>2
<1>7. RolesInv'
  <2>1. \A l \in Listeners : file'[l] = "listener" BY <1>2, <1>3 DEF RolesInv
  <2>2. \A g \in leaked' : file'[g] = "pipe" BY <1>2, <1>3 DEF RolesInv, TypeOK
  <2>3. /\ conn.client = None /\ conn.backend = None /\ conn.c2b = None /\ conn.b2c = None
    BY DEF TypeOK
  <2>4. QED BY <2>1, <2>2, <2>3 DEF RolesInv
<1>8. EntryInv'
  <2>1. SUFFICES ASSUME NEW g \in Fds, connections'[g] # None
                 PROVE  LET s == connections'[g] IN
                        /\ g \in {s.client, s.backend}
                        /\ connections'[s.client] = s /\ connections'[s.backend] = s
                        /\ file'[s.client] = "client" /\ file'[s.backend] = "backend"
                        /\ file'[s.c2b] = "pipe" /\ file'[s.b2c] = "pipe" /\ s.c2b # s.b2c
    BY DEF EntryInv
  <2> DEFINE s == connections[g]
  <2>2. connections'[g] = s /\ s # None /\ s \in Connection /\ Of(s) = {s.client, s.backend, s.c2b, s.b2c}
        /\ Of(s) \cap Of(r) = {}
    BY <2>1, <1>5
  <2>3. /\ g \in {s.client, s.backend} /\ connections[s.client] = s /\ connections[s.backend] = s
        /\ file[s.client] = "client" /\ file[s.backend] = "backend"
        /\ file[s.c2b] = "pipe" /\ file[s.b2c] = "pipe" /\ s.c2b # s.b2c
    BY <2>2 DEF EntryInv
  <2>4. /\ s.client \in Fds /\ s.backend \in Fds /\ s.c2b \in Fds /\ s.b2c \in Fds
        /\ s.client \notin Of(r) /\ s.backend \notin Of(r) /\ s.c2b \notin Of(r) /\ s.b2c \notin Of(r)
    BY <2>2
  <2> HIDE DEF s, r
  <2>5. connections'[s.client] = s /\ connections'[s.backend] = s
    BY <2>3, <2>4, <1>1, <1>4
  <2>6. /\ file'[s.client] = "client" /\ file'[s.backend] = "backend"
        /\ file'[s.c2b] = "pipe" /\ file'[s.b2c] = "pipe"
    BY <2>3, <2>4, <1>3
  <2>7. QED BY <2>2, <2>3, <2>5, <2>6
<1>9. DisjointInv'
  <2>1. ASSUME NEW g \in Fds, NEW h \in Fds, connections'[g] # None, connections'[h] # None
        PROVE  connections'[g] = connections'[h] \/ Of(connections'[g]) \cap Of(connections'[h]) = {}
    BY <2>1, <1>5 DEF DisjointInv
  <2>2. \A g \in Fds : Tabled(g)' => g \notin Of(conn)' /\ g \notin leaked' BY <1>6 DEF DisjointInv, Of
  <2>3. leaked' \cap Of(conn)' = {} BY DEF DisjointInv, Of
  <2>4. QED BY <2>1, <2>2, <2>3 DEF DisjointInv, Of
<1>10. OpenInv'
  <2>1. SUFFICES ASSUME NEW g \in Fds
                 PROVE  file'[g] \notin {None, "other"} <=>
                          g \in Listeners \/ Tabled(g)' \/ g \in Of(conn) \/ g \in leaked
    BY DEF OpenInv, Of
  <2>2. CASE g \in Of(r) BY <2>2, <1>2, <1>3, <1>6 DEF RolesInv
  <2>3. CASE g \notin Of(r) BY <2>3, <1>3, <1>6 DEF OpenInv
  <2>4. QED BY <2>2, <2>3
<1>11. WatchInv'
  <2>1. \A g \in watched' : g \in Listeners \/ connections'[g] # None
    <3>1. SUFFICES ASSUME NEW g \in watched' PROVE g \in Listeners \/ connections'[g] # None OBVIOUS
    <3>2. g \in watched /\ g \notin Of(r) /\ g \in Fds BY DEF TypeOK
    <3>3. g \in Listeners \/ connections[g] # None BY <3>2 DEF WatchInv
    <3>4. QED BY <3>2, <3>3, <1>1, <1>4
  <2>2. ASSUME NEW g \in Fds, connections'[g] # None PROVE connections'[g].backend \in watched'
    <3>1. connections[g].backend \in watched BY <2>2, <1>5 DEF WatchInv
    <3>2. connections[g].backend \notin Of(r) BY <2>2, <1>5
    <3>3. watched' = watched \ Of(r) OBVIOUS
    <3>4. connections'[g].backend = connections[g].backend BY <2>2, <1>5
    <3> HIDE DEF r
    <3>5. QED BY <3>1, <3>2, <3>3, <3>4
  <2>3. QED BY <2>1, <2>2 DEF WatchInv
<1>12. QED BY <1>7, <1>8, <1>9, <1>10, <1>11
\* What is watched changes, and nothing else that the invariant speaks of.
LEMMA WatchStep ==
  ASSUME Inv, UNCHANGED <<file, connections, conn, leaked>>
  PROVE  RolesInv' /\ EntryInv' /\ DisjointInv' /\ OpenInv'
<1> USE DEF Inv
<1>1. \A g : Tabled(g)' <=> Tabled(g) BY DEF Tabled
<1>2. Of(conn)' = Of(conn) BY DEF Of
<1>3. RolesInv' BY DEF RolesInv
<1>4. EntryInv' BY DEF EntryInv
<1>5. DisjointInv'
  <2>1. \A g, h \in Fds : connections'[g] # None /\ connections'[h] # None =>
          connections'[g] = connections'[h] \/ Of(connections'[g]) \cap Of(connections'[h]) = {}
    BY DEF DisjointInv
  <2>2. QED BY <1>1, <1>2, <2>1 DEF DisjointInv, Of
<1>6. OpenInv' BY <1>1, <1>2 DEF OpenInv
<1>7. QED BY <1>3, <1>4, <1>5, <1>6

\* Another thread opens or closes a descriptor that is none of this loop's.
LEMMA ElsewhereStep == Inv /\ Elsewhere => RolesInv' /\ EntryInv' /\ DisjointInv' /\ OpenInv' /\ WatchInv'
<1> SUFFICES ASSUME Inv, Elsewhere PROVE RolesInv' /\ EntryInv' /\ DisjointInv' /\ OpenInv' /\ WatchInv'
  OBVIOUS
<1> USE DEF Inv
<1>0. UNCHANGED <<watched, connections, batch, pc, conn, leaked>> BY DEF Elsewhere
<1>1. PICK f \in Fds : /\ file[f] \in {None, "other"} /\ file'[f] \in {None, "other"}
                       /\ \A g \in Fds : g # f => file'[g] = file[g]
  <2>1. PICK f \in Fds : \/ file[f] = None /\ file' = [file EXCEPT ![f] = "other"]
                         \/ file[f] = "other" /\ file' = [file EXCEPT ![f] = None]
    BY DEF Elsewhere, Lowest
  <2>2. QED BY <2>1 DEF TypeOK
<1>2. \A g : Tabled(g)' <=> Tabled(g) BY <1>0 DEF Tabled
<1>3. f \notin Listeners /\ ~Tabled(f) /\ f \notin Of(conn) /\ f \notin leaked BY <1>1 DEF OpenInv
<1>4. RolesInv'
  <2>1. /\ conn.client # f \/ conn.client = None
        /\ conn.backend # f \/ conn.backend = None
        /\ conn.c2b # f \/ conn.c2b = None
        /\ conn.b2c # f \/ conn.b2c = None
    BY <1>3 DEF Of
  <2>2. /\ conn.client \in Fds \cup {None} /\ conn.backend \in Fds \cup {None}
        /\ conn.c2b \in Fds \cup {None} /\ conn.b2c \in Fds \cup {None} /\ leaked \subseteq Fds
    BY DEF TypeOK
  <2>3. \A g \in Listeners : file'[g] = "listener" BY <1>1, <1>3 DEF RolesInv
  <2>4. \A g \in leaked : file'[g] = "pipe" BY <1>1, <1>3, <2>2 DEF RolesInv
  <2>5. /\ conn.client # None => file'[conn.client] = "client"
        /\ conn.backend # None => file'[conn.backend] = "backend"
        /\ conn.c2b # None => file'[conn.c2b] = "pipe"
        /\ conn.b2c # None => file'[conn.b2c] = "pipe" /\ conn.b2c # conn.c2b
    BY <1>1, <2>1, <2>2 DEF RolesInv
  <2>6. QED BY <1>0, <2>3, <2>4, <2>5 DEF RolesInv
<1>5. EntryInv'
  <2>1. SUFFICES ASSUME NEW g \in Fds, connections[g] # None
                 PROVE  LET s == connections[g] IN
                        /\ file'[s.client] = "client" /\ file'[s.backend] = "backend"
                        /\ file'[s.c2b] = "pipe" /\ file'[s.b2c] = "pipe"
    BY <1>0 DEF EntryInv
  <2>2. connections[g] \in Connection BY <2>1 DEF TypeOK
  <2>3. f \notin Of(connections[g]) BY <2>1, <1>3 DEF Tabled
  <2>4. Of(connections[g]) = {connections[g].client, connections[g].backend, connections[g].c2b, connections[g].b2c}
    BY <2>2 DEF Of
  <2> DEFINE s == connections[g]
  <2>5. /\ file[s.client] = "client" /\ file[s.backend] = "backend"
        /\ file[s.c2b] = "pipe" /\ file[s.b2c] = "pipe"
    BY <2>1 DEF EntryInv
  <2>6. /\ s.client \in Fds /\ s.backend \in Fds /\ s.c2b \in Fds /\ s.b2c \in Fds
        /\ s.client # f /\ s.backend # f /\ s.c2b # f /\ s.b2c # f
    BY <2>2, <2>3, <2>4
  <2> HIDE DEF s
  <2>7. /\ file'[s.client] = "client" /\ file'[s.backend] = "backend"
        /\ file'[s.c2b] = "pipe" /\ file'[s.b2c] = "pipe"
    BY <2>5, <2>6, <1>1
  <2>8. QED BY <2>7 DEF s
<1>6. DisjointInv'
  <2>1. \A g, h \in Fds : connections'[g] # None /\ connections'[h] # None =>
          connections'[g] = connections'[h] \/ Of(connections'[g]) \cap Of(connections'[h]) = {}
    BY <1>0 DEF DisjointInv
  <2>2. Of(conn)' = Of(conn) BY <1>0 DEF Of
  <2>3. QED BY <1>0, <1>2, <2>1, <2>2 DEF DisjointInv, Of
<1>7. OpenInv'
  <2>1. Of(conn)' = Of(conn) BY <1>0 DEF Of
  <2>2. QED BY <1>0, <1>1, <1>2, <1>3, <2>1 DEF OpenInv
<1>8. WatchInv' BY <1>0 DEF WatchInv
<1>9. QED BY <1>4, <1>5, <1>6, <1>7, <1>8
-----------------------------------------------------------------------------
(* Every action.                                                           *)

\* What Served says of an event's descriptor.
LEMMA ServedFact == ASSUME TypeOK, NEW e \in Events, Served(e)
                    PROVE  e[1] \in Fds /\ connections[e[1]] # None /\ connections[e[1]] \in Connection /\ pc = "batch"
BY DEF Served, Serving, Events, TypeOK

LEMMA StepTypes == TypeOK /\ [Next]_vars => TypeOK'
<1> SUFFICES ASSUME TypeOK, [Next]_vars PROVE TypeOK' OBVIOUS
<1> USE DEF TypeOK, AcceptPcs
<1>1. CASE Accept BY <1>1 DEF Accept, Lowest
<1>2. CASE AcceptEnds BY <1>2 DEF AcceptEnds
<1>3. CASE Connect BY <1>3 DEF Connect, Lowest
<1>4. CASE DropClient BY <1>4 DEF DropClient, NextClient, Close, Unset
<1>5. CASE OpenPipe1 BY <1>5 DEF OpenPipe1, Lowest
<1>6. CASE OpenPipe1Fails BY <1>6 DEF OpenPipe1Fails, NextClient, Close, Unset
<1>7. CASE OpenPipe2 BY <1>7 DEF OpenPipe2, Lowest
<1>8. CASE OpenPipe2Fails BY <1>8 DEF OpenPipe2Fails, NextClient, Close, Unset
<1>9. CASE WatchClient BY <1>9 DEF WatchClient
<1>10. CASE Register
  <2>1. conn \in Connection BY <1>10 DEF Register
  <2>2. QED BY <1>10, <2>1 DEF Register, Unset
<1>11. CASE WatchFails BY <1>11 DEF WatchFails, NextClient, Close, Unset
<1>12. CASE Poll
  <2>1. batch' \subseteq Events BY <1>12 DEF Poll, Events
  <2>2. QED BY <1>12, <2>1 DEF Poll
<1>13. CASE BatchEnds BY <1>13 DEF BatchEnds
<1>14. ASSUME NEW e \in Events, Serve(e) PROVE TypeOK'
  <2>1. CASE ServeListener(e) BY <2>1 DEF ServeListener, Serving
  <2>2. CASE ServeUnknown(e) BY <2>2 DEF ServeUnknown, Serving
  <2>3. CASE ServeRemoves(e)
    <3>1. connections[e[1]] \in Connection BY <2>3, ServedFact DEF ServeRemoves
    <3>2. QED BY <2>3, <3>1 DEF ServeRemoves, Served, Serving, Remove, Close
  <2>4. CASE ServeMoves(e) BY <2>4 DEF ServeMoves, Served, Serving
  <2>5. CASE ServeArmsPeer(e)
    <3>1. connections[e[1]] \in Connection BY <2>5, ServedFact DEF ServeArmsPeer
    <3>2. QED BY <2>5, <3>1 DEF ServeArmsPeer, Served, Serving
  <2>6. CASE ServeHalfCloses(e) BY <2>6 DEF ServeHalfCloses, Served, Serving
  <2>7. QED BY <1>14, <2>1, <2>2, <2>3, <2>4, <2>5, <2>6 DEF Serve
<1>15. CASE Elsewhere BY <1>15 DEF Elsewhere, Lowest
<1>16. CASE UNCHANGED vars BY <1>16 DEF vars
<1>17. QED
  BY <1>1, <1>2, <1>3, <1>4, <1>5, <1>6, <1>7, <1>8, <1>9, <1>10, <1>11, <1>12, <1>13, <1>14, <1>15, <1>16
  DEF Next, LoopStep, HandleAccept

\* The rest of the invariant.
Rest == RolesInv /\ EntryInv /\ DisjointInv /\ OpenInv /\ WatchInv

\* A step of handle_accept that only opens: the four roles of what conn holds.
LEMMA OpeningSteps == Inv /\ (Accept \/ Connect \/ OpenPipe1 \/ OpenPipe2) => Rest'
<1> SUFFICES ASSUME Inv, Accept \/ Connect \/ OpenPipe1 \/ OpenPipe2 PROVE Rest' OBVIOUS
<1> USE DEF Inv, Lowest
<1>1. CASE Accept
  <2>1. PICK f \in Fds : file[f] = None /\ file' = [file EXCEPT ![f] = "client"] /\ conn' = [conn EXCEPT !.client = f]
    BY <1>1 DEF Accept
  <2>2. UNCHANGED <<watched, connections, batch, leaked>> /\ pc # "watch2" BY <1>1 DEF Accept
  <2>3. Of(conn') = Of(conn) \cup {f} BY <1>1, <2>1 DEF Accept, TypeOK, Of
  <2>4. /\ conn' \in [client : Fds \cup {None}, backend : Fds \cup {None}, c2b : Fds \cup {None}, b2c : Fds \cup {None}]
    BY <2>1 DEF TypeOK
  <2>5. RolesInv' BY <1>1, <2>1, <2>2 DEF Accept, RolesInv, TypeOK, AcceptPcs
  <2>6. QED BY <2>1, <2>2, <2>3, <2>4, <2>5, OpenStep DEF Rest
<1>2. CASE Connect
  <2>1. PICK f \in Fds : file[f] = None /\ file' = [file EXCEPT ![f] = "backend"] /\ conn' = [conn EXCEPT !.backend = f]
    BY <1>2 DEF Connect
  <2>2. UNCHANGED <<watched, connections, batch, leaked>> /\ pc # "watch2" BY <1>2 DEF Connect
  <2>3. Of(conn') = Of(conn) \cup {f} BY <1>2, <2>1 DEF Connect, TypeOK, Of
  <2>4. /\ conn' \in [client : Fds \cup {None}, backend : Fds \cup {None}, c2b : Fds \cup {None}, b2c : Fds \cup {None}]
    BY <2>1 DEF TypeOK
  <2>5. RolesInv' BY <1>2, <2>1, <2>2 DEF Connect, RolesInv, TypeOK, AcceptPcs
  <2>6. QED BY <2>1, <2>2, <2>3, <2>4, <2>5, OpenStep DEF Rest
<1>3. CASE OpenPipe1
  <2>1. PICK f \in Fds : file[f] = None /\ file' = [file EXCEPT ![f] = "pipe"] /\ conn' = [conn EXCEPT !.c2b = f]
    BY <1>3 DEF OpenPipe1
  <2>2. UNCHANGED <<watched, connections, batch, leaked>> /\ pc # "watch2" BY <1>3 DEF OpenPipe1
  <2>3. Of(conn') = Of(conn) \cup {f} BY <1>3, <2>1 DEF OpenPipe1, TypeOK, Of
  <2>4. /\ conn' \in [client : Fds \cup {None}, backend : Fds \cup {None}, c2b : Fds \cup {None}, b2c : Fds \cup {None}]
    BY <2>1 DEF TypeOK
  <2>5. RolesInv' BY <1>3, <2>1, <2>2 DEF OpenPipe1, RolesInv, TypeOK, AcceptPcs
  <2>6. QED BY <2>1, <2>2, <2>3, <2>4, <2>5, OpenStep DEF Rest
<1>4. CASE OpenPipe2
  <2>1. PICK f \in Fds : file[f] = None /\ file' = [file EXCEPT ![f] = "pipe"] /\ conn' = [conn EXCEPT !.b2c = f]
    BY <1>4 DEF OpenPipe2
  <2>2. UNCHANGED <<watched, connections, batch, leaked>> /\ pc # "watch2" BY <1>4 DEF OpenPipe2
  <2>3. Of(conn') = Of(conn) \cup {f} BY <1>4, <2>1 DEF OpenPipe2, TypeOK, Of
  <2>4. /\ conn' \in [client : Fds \cup {None}, backend : Fds \cup {None}, c2b : Fds \cup {None}, b2c : Fds \cup {None}]
    BY <2>1 DEF TypeOK
  <2>5. RolesInv' BY <1>4, <2>1, <2>2 DEF OpenPipe2, RolesInv, TypeOK, AcceptPcs
  <2>6. QED BY <2>1, <2>2, <2>3, <2>4, <2>5, OpenStep DEF Rest
<1>5. QED BY <1>1, <1>2, <1>3, <1>4

\* A step of handle_accept that gives up: what it closes is all of conn, but for the pipes of WatchFails.
LEMMA ClosingSteps == Inv /\ (DropClient \/ OpenPipe1Fails \/ OpenPipe2Fails \/ WatchFails) => Rest'
<1> SUFFICES ASSUME Inv, DropClient \/ OpenPipe1Fails \/ OpenPipe2Fails \/ WatchFails PROVE Rest' OBVIOUS
<1> USE DEF Inv
<1>1. CASE DropClient
  <2>1. Of(conn) = {conn.client} BY <1>1 DEF DropClient, TypeOK, Of
  <2>2. NextClient({conn.client}) /\ leaked' = leaked \cup (Of(conn) \ {conn.client})
    BY <1>1, <2>1 DEF DropClient
  <2>3. QED BY <2>1, <2>2, GiveUpStep DEF Rest
<1>2. CASE OpenPipe1Fails
  <2>1. Of(conn) = {conn.client, conn.backend} BY <1>2 DEF OpenPipe1Fails, TypeOK, Of
  <2>2. NextClient({conn.client, conn.backend}) /\ leaked' = leaked \cup (Of(conn) \ {conn.client, conn.backend})
    BY <1>2, <2>1 DEF OpenPipe1Fails
  <2>3. QED BY <2>1, <2>2, GiveUpStep DEF Rest
<1>3. CASE OpenPipe2Fails
  <2>1. Of(conn) = {conn.client, conn.backend, conn.c2b} BY <1>3 DEF OpenPipe2Fails, TypeOK, Of
  <2>2. /\ NextClient({conn.client, conn.backend, conn.c2b})
        /\ leaked' = leaked \cup (Of(conn) \ {conn.client, conn.backend, conn.c2b})
    BY <1>3, <2>1 DEF OpenPipe2Fails
  <2>3. QED BY <2>1, <2>2, GiveUpStep DEF Rest
<1>4. CASE WatchFails
  <2>1. Of(conn) = {conn.client, conn.backend, conn.c2b, conn.b2c} BY <1>4 DEF WatchFails, TypeOK, Of
  <2>2. /\ file[conn.client] = "client" /\ file[conn.backend] = "backend"
        /\ file[conn.c2b] = "pipe" /\ file[conn.b2c] = "pipe"
    BY <1>4 DEF WatchFails, TypeOK, RolesInv
  <2>3. Of(conn) \ {conn.client, conn.backend} = {conn.c2b, conn.b2c} BY <2>1, <2>2
  <2>4. /\ NextClient({conn.client, conn.backend})
        /\ leaked' = leaked \cup (Of(conn) \ {conn.client, conn.backend})
    BY <1>4, <2>3 DEF WatchFails
  <2>5. QED BY <2>1, <2>2, <2>3, <2>4, GiveUpStep DEF Rest
<1>5. QED BY <1>1, <1>2, <1>3, <1>4

LEMMA ServeSteps == ASSUME Inv, NEW e \in Events, Serve(e) PROVE Rest'
<1> USE DEF Inv
<1>1. CASE ServeListener(e)
  <2>1. WatchInv' BY <1>1 DEF ServeListener, Serving, WatchInv
  <2>2. QED BY <1>1, <2>1, WatchStep DEF Rest, ServeListener
<1>2. CASE ServeUnknown(e)
  <2>1. WatchInv' BY <1>2 DEF ServeUnknown, Serving, WatchInv
  <2>2. QED BY <1>2, <2>1, WatchStep DEF Rest, ServeUnknown
<1>3. CASE ServeRemoves(e) BY <1>3, ServedFact, RemoveStep DEF ServeRemoves, Rest
<1>4. CASE ServeMoves(e)
  <2>1. WatchInv' BY <1>4 DEF ServeMoves, WatchInv
  <2>2. QED BY <1>4, <2>1, WatchStep DEF Rest, ServeMoves
<1>5. CASE ServeArmsPeer(e)
  <2> DEFINE r == connections[e[1]]
  <2>1. e[1] \in Fds /\ r # None BY <1>5, ServedFact DEF ServeArmsPeer
  <2>2. connections[r.client] = r /\ connections[r.backend] = r BY <2>1 DEF EntryInv
  <2>3. PICK f \in {r.client, r.backend} : watched' = watched \cup {f} BY <1>5 DEF ServeArmsPeer
  <2>4. UNCHANGED <<connections, pc, conn>> BY <1>5 DEF ServeArmsPeer
  <2>5. connections[f] # None BY <2>1, <2>2, <2>3
  <2>6. WatchInv' BY <2>3, <2>4, <2>5 DEF WatchInv
  <2>7. QED BY <1>5, <2>6, WatchStep DEF Rest, ServeArmsPeer
<1>6. CASE ServeHalfCloses(e)
  <2>1. e[1] \in Fds /\ connections[e[1]] # None /\ e[1] = connections[e[1]].client
    BY <1>6, ServedFact DEF ServeHalfCloses
  <2>2. file[connections[e[1]].client] = "client" BY <2>1 DEF EntryInv
  <2>3. \A f \in Fds : connections[f] # None => connections[f].backend # e[1]
    BY <2>1, <2>2 DEF EntryInv
  <2>4. watched' = watched \ {e[1]} /\ UNCHANGED <<connections, pc, conn>> BY <1>6 DEF ServeHalfCloses
  <2>5. WatchInv' BY <2>3, <2>4 DEF WatchInv
  <2>6. QED BY <1>6, <2>5, WatchStep DEF Rest, ServeHalfCloses
<1>7. QED BY <1>1, <1>2, <1>3, <1>4, <1>5, <1>6 DEF Serve

LEMMA StepInv == Inv /\ [Next]_vars => Inv'
<1> SUFFICES ASSUME Inv, [Next]_vars PROVE Rest' BY StepTypes DEF Inv, Rest
<1> USE DEF Inv
<1>1. CASE Accept \/ Connect \/ OpenPipe1 \/ OpenPipe2 BY <1>1, OpeningSteps
<1>2. CASE DropClient \/ OpenPipe1Fails \/ OpenPipe2Fails \/ WatchFails BY <1>2, ClosingSteps
<1>3. CASE AcceptEnds
  <2>1. WatchInv' BY <1>3 DEF AcceptEnds, WatchInv
  <2>2. QED BY <1>3, <2>1, WatchStep DEF Rest, AcceptEnds
<1>4. CASE WatchClient
  <2>1. WatchInv' BY <1>4 DEF WatchClient, WatchInv
  <2>2. QED BY <1>4, <2>1, WatchStep DEF Rest, WatchClient
<1>5. CASE Register BY <1>5, RegisterStep DEF Rest
<1>6. CASE Poll
  <2>1. WatchInv' BY <1>6 DEF Poll, WatchInv
  <2>2. QED BY <1>6, <2>1, WatchStep DEF Rest, Poll
<1>7. CASE BatchEnds
  <2>1. WatchInv' BY <1>7 DEF BatchEnds, WatchInv
  <2>2. QED BY <1>7, <2>1, WatchStep DEF Rest, BatchEnds
<1>8. ASSUME NEW e \in Events, Serve(e) PROVE Rest' BY <1>8, ServeSteps
<1>9. CASE Elsewhere BY <1>9, ElsewhereStep DEF Rest
<1>10. CASE UNCHANGED vars
  <2>1. WatchInv' BY <1>10 DEF vars, WatchInv
  <2>2. QED BY <1>10, <2>1, WatchStep DEF Rest, vars
<1>11. QED
  BY <1>1, <1>2, <1>3, <1>4, <1>5, <1>6, <1>7, <1>8, <1>9, <1>10 DEF Next, LoopStep, HandleAccept

-----------------------------------------------------------------------------
(* The theorems.                                                           *)

LEMMA AlwaysInv == Spec => []Inv
BY InitInv, StepInv, PTL DEF Spec

\* TypeOK holds in every reachable state: the program counter of handle_accept
\* tells which descriptors its client has been given so far.
THEOREM TypeCorrect == Spec => []TypeOK
BY AlwaysInv, PTL DEF Inv

\* connections_ is right at every moment, whatever numbers are reused, by this
\* thread or others, while events of earlier descriptors are still to be served.
THEOREM TableIsExact == Spec => []TableExact
BY AlwaysInv, InvImplies, PTL

\* No path of handle_accept or remove_connection leaves a descriptor open that
\* nobody owns, but for the pipes of a connection epoll refuses.
THEOREM NothingElseLeaks == Spec => []DescriptorsAccounted
BY AlwaysInv, InvImplies, PTL

\* The epoll set names only what the loop can serve, and every backend.
THEOREM WatchedIsServed == Spec => []WatchedAreServed
BY AlwaysInv, InvImplies, PTL

\* No close by number hits a descriptor of another thread.
THEOREM OthersAreLeftAlone == Spec => OthersUntouched
<1>1. Inv /\ [Next]_vars => [LoopStep => \A f \in Fds : file[f] = "other" <=> file'[f] = "other"]_vars
  <2> SUFFICES ASSUME Inv, LoopStep, NEW f \in Fds
               PROVE  file[f] = "other" <=> file'[f] = "other"
    OBVIOUS
  <2> USE DEF Inv
  <2>1. \A g \in Of(conn) : g \in Fds /\ file[g] # "other" BY DEF OpenInv, TypeOK, Of
  <2>2. \A g \in Fds : connections[g] # None => \A h \in Of(connections[g]) : h \in Fds => file[h] # "other"
    BY DEF OpenInv, Tabled
  <2>3. CASE Accept \/ Connect \/ OpenPipe1 \/ OpenPipe2
    BY <2>3 DEF Accept, Connect, OpenPipe1, OpenPipe2, Lowest, TypeOK
  <2>4. CASE DropClient \/ OpenPipe1Fails \/ OpenPipe2Fails \/ WatchFails
    <3>1. /\ conn.client \in Of(conn)
          /\ DropClient \/ conn.backend \in Of(conn)
          /\ OpenPipe2Fails => conn.c2b \in Of(conn)
      BY <2>4 DEF DropClient, OpenPipe1Fails, OpenPipe2Fails, WatchFails, TypeOK, Of
    <3>2. PICK fds \in SUBSET Of(conn) : Close(fds)
      BY <2>4, <3>1 DEF DropClient, OpenPipe1Fails, OpenPipe2Fails, WatchFails, NextClient
    <3>3. QED BY <2>1, <3>2 DEF Close
  <2>5. CASE UNCHANGED file BY <2>5
  <2>6. ASSUME NEW e \in Events, ServeRemoves(e) PROVE file[f] = "other" <=> file'[f] = "other"
    <3>1. e[1] \in Fds /\ connections[e[1]] # None BY <2>6, ServedFact DEF ServeRemoves
    <3>2. Close(Of(connections[e[1]])) BY <2>6 DEF ServeRemoves, Remove
    <3>3. QED BY <2>2, <3>1, <3>2 DEF Close
  <2>7. ASSUME NEW e \in Events, Serve(e), ~ServeRemoves(e) PROVE UNCHANGED file
    BY <2>7 DEF Serve, ServeListener, ServeUnknown, ServeMoves, ServeArmsPeer, ServeHalfCloses
  <2>8. CASE AcceptEnds \/ WatchClient \/ Register \/ Poll \/ BatchEnds
    BY <2>8 DEF AcceptEnds, WatchClient, Register, Poll, BatchEnds
  <2>9. QED BY <2>3, <2>4, <2>5, <2>6, <2>7, <2>8 DEF LoopStep, HandleAccept
<1>2. QED BY <1>1, AlwaysInv, PTL DEF Spec, OthersUntouched

(***************************************************************************)
(* The table changes by whole connections: a step adds what handle_accept  *)
(* has set up, closing nothing, or removes one under both its keys and     *)
(* closes exactly its four descriptors; no entry is ever overwritten, and  *)
(* a stale event takes nothing from any other connection (event_loop.cpp:  *)
(* 314-315, 483-500).                                                      *)
(***************************************************************************)
WholeConnections ==
  [][\/ UNCHANGED connections
     \/ \E r \in {conn} \ Established : Established' = Established \cup {r} /\ UNCHANGED file
     \/ \E r \in Established :
          /\ Established' = Established \ {r}
          /\ \A f \in Fds : file'[f] = IF f \in Of(r) THEN None ELSE file[f]
          /\ watched' = watched \ Of(r)]_vars

\* Registering overwrites nothing: neither of the keys is in use.
LEMMA RegisterAdds == Inv /\ Register =>
  conn \notin Established /\ Established' = Established \cup {conn} /\ UNCHANGED file
<1> SUFFICES ASSUME Inv, Register
             PROVE  conn \notin Established /\ Established' = Established \cup {conn} /\ UNCHANGED file
  OBVIOUS
<1> USE DEF Inv
<1>1. /\ conn.client \in Fds /\ conn.backend \in Fds /\ conn # None
      /\ conn.client \in Of(conn) /\ conn.backend \in Of(conn)
      /\ connections' = [connections EXCEPT ![conn.client] = conn, ![conn.backend] = conn]
      /\ UNCHANGED file
  BY DEF Register, TypeOK, Of
<1>2. ASSUME NEW f \in Fds, connections[f] # None PROVE f \notin Of(conn) /\ connections[f] # conn
  <2>1. f \in {connections[f].client, connections[f].backend} BY <1>2 DEF EntryInv
  <2>2. f \in Of(connections[f]) BY <2>1 DEF Of
  <2>3. Tabled(f) BY <1>2, <2>2 DEF Tabled
  <2>4. f \notin Of(conn) BY <2>3 DEF DisjointInv
  <2>5. QED BY <2>2, <2>4
<1>3. connections[conn.client] = None /\ connections[conn.backend] = None BY <1>1, <1>2
<1>4. conn \notin Established BY <1>2 DEF Established
<1>5. \A f \in Fds : connections'[f] = IF f \in {conn.client, conn.backend} THEN conn ELSE connections[f]
  BY <1>1 DEF TypeOK
<1>6. Established' = Established \cup {conn}
  <2>1. Established' = {connections'[f] : f \in {g \in Fds : connections'[g] # None}} BY DEF Established
  <2>2. ASSUME NEW r \in Established' PROVE r \in Established \cup {conn}
    <3>1. PICK f \in Fds : connections'[f] # None /\ r = connections'[f] BY <2>1
    <3>2. QED BY <1>5, <3>1 DEF Established
  <2>3. conn \in Established'
    <3>1. connections'[conn.client] = conn BY <1>1, <1>5
    <3>2. QED BY <1>1, <2>1, <3>1
  <2>4. ASSUME NEW r \in Established PROVE r \in Established'
    <3>1. PICK f \in Fds : connections[f] # None /\ r = connections[f] BY DEF Established
    <3>2. connections'[f] = connections[f] BY <1>3, <1>5, <3>1
    <3>3. QED BY <2>1, <3>1, <3>2
  <2>5. QED BY <2>2, <2>3, <2>4
<1>7. QED BY <1>1, <1>4, <1>6

\* Removing by either socket takes the connection out under both.
LEMMA RemoveTakesOne ==
  ASSUME Inv, NEW k \in Fds, connections[k] # None, Remove(k)
  PROVE  /\ connections[k] \in Established /\ Established' = Established \ {connections[k]}
         /\ \A f \in Fds : file'[f] = IF f \in Of(connections[k]) THEN None ELSE file[f]
         /\ watched' = watched \ Of(connections[k])
<1> DEFINE r == connections[k]
<1> USE DEF Inv
<1>1. r.client \in Fds /\ r.backend \in Fds /\ r \in Established /\ r # None BY DEF TypeOK, Established
<1>2. connections' = [connections EXCEPT ![r.client] = None, ![r.backend] = None] BY DEF Remove
<1>3. \A f \in Fds : connections'[f] = IF f \in {r.client, r.backend} THEN None ELSE connections[f]
  BY <1>1, <1>2 DEF TypeOK
<1>4. \A f \in Fds : connections[f] = r => f \in {r.client, r.backend} BY <1>1 DEF EntryInv
<1>5. connections[r.client] = r /\ connections[r.backend] = r BY DEF EntryInv
<1> HIDE DEF r
<1>6. Established' = {connections'[f] : f \in {g \in Fds : connections'[g] # None}} BY DEF Established
<1>7. Established' = Established \ {r}
  <2>1. \A f \in Fds : connections'[f] # None <=> connections[f] # None /\ connections[f] # r
    BY <1>3, <1>4, <1>5
  <2>2. \A f \in Fds : connections'[f] # None => connections'[f] = connections[f] BY <1>3
  <2>3. QED BY <1>6, <2>1, <2>2 DEF Established
<1>8. QED BY <1>1, <1>7 DEF Remove, Close, r

\* Connections come and go whole, whatever events are stale.
THEOREM TableChangesByConnections == Spec => WholeConnections
<1> DEFINE Whole ==
      \/ UNCHANGED connections
      \/ \E r \in {conn} \ Established : Established' = Established \cup {r} /\ UNCHANGED file
      \/ \E r \in Established :
           /\ Established' = Established \ {r}
           /\ \A f \in Fds : file'[f] = IF f \in Of(r) THEN None ELSE file[f]
           /\ watched' = watched \ Of(r)
<1>1. ASSUME Inv, [Next]_vars PROVE Whole
  <2>1. CASE Register BY <1>1, <2>1, RegisterAdds
  <2>2. ASSUME NEW e \in Events, ServeRemoves(e) PROVE Whole
    <3>1. e[1] \in Fds /\ connections[e[1]] # None /\ Remove(e[1])
      BY <1>1, <2>2, ServedFact DEF ServeRemoves, Inv
    <3>2. QED BY <1>1, <3>1, RemoveTakesOne
  <2>3. ASSUME NEW e \in Events, Serve(e), ~ServeRemoves(e) PROVE UNCHANGED connections
    BY <2>3 DEF Serve, ServeListener, ServeUnknown, ServeMoves, ServeArmsPeer, ServeHalfCloses
  <2>4. CASE Accept \/ AcceptEnds \/ Connect \/ OpenPipe1 \/ OpenPipe2 \/ WatchClient \/ Poll \/ BatchEnds \/ Elsewhere
    BY <2>4 DEF Accept, AcceptEnds, Connect, OpenPipe1, OpenPipe2, WatchClient, Poll, BatchEnds, Elsewhere
  <2>5. CASE DropClient \/ OpenPipe1Fails \/ OpenPipe2Fails \/ WatchFails
    BY <2>5 DEF DropClient, OpenPipe1Fails, OpenPipe2Fails, WatchFails, NextClient
  <2>6. CASE UNCHANGED vars BY <2>6 DEF vars
  <2> HIDE DEF Whole
  <2>7. UNCHANGED connections => Whole BY DEF Whole
  <2>8. QED BY <1>1, <2>1, <2>2, <2>3, <2>4, <2>5, <2>6, <2>7 DEF Next, LoopStep, HandleAccept
<1> HIDE DEF Whole
<1>2. Inv /\ [Next]_vars => [Whole]_vars BY <1>1
<1>3. QED BY <1>2, AlwaysInv, PTL DEF Spec, WholeConnections, Whole

=============================================================================

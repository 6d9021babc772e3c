---------------------------- MODULE GatewayProofs ---------------------------
(***************************************************************************)
(* Gateway mode for every set of targets, every timeout and any number of  *)
(* scrapes.                                                                *)
(*                                                                         *)
(* The lock is the client's and the promises are about targets, so the     *)
(* invariant ties the two together (ClientsOK: the requests of a target,   *)
(* and only they, use its client) and the lock to the one request that     *)
(* collects (LockOK).  Waiting times are bounded because time passes only  *)
(* while the holder of the lock has not expired (Covered); that moment is  *)
(* kept for the answered requests (AnswersOK).                             *)
(***************************************************************************)
EXTENDS Gateway, TLAPS

Stages == {"waiting", "collecting", "served", "rejected"}

Request ==
  [target: Targets, header: Nat, arrived: Nat, expires: Nat, client: Nat,
   stage: Stages, finished: Nat, up: {0, 1}]

GatewayTypeOK ==
  /\ now \in Nat
  /\ requests \in Seq(Request)
  /\ Len(requests) <= MaxRequests
  /\ mu \in [Ids -> Nat]
  /\ server \in {"running", "draining", "closed"}
  /\ stopAt \in Nat

Admitted(i) == i \in DOMAIN requests /\ requests[i].stage # "rejected"

\* The requests of a target share the client that the first of them made; while the
\* gateway is open it is the one that is cached.
ClientsOK ==
  /\ \A i \in DOMAIN requests : Admitted(i) =>
       /\ requests[i].client \in DOMAIN requests
       /\ requests[requests[i].client].target = requests[i].target
       /\ server # "closed" => /\ requests[i].target \in DOMAIN clients
                               /\ clients[requests[i].target] = requests[i].client
  /\ \A i, j \in DOMAIN requests :
       Admitted(i) /\ Admitted(j) /\ requests[i].target = requests[j].target
       => requests[i].client = requests[j].client
  /\ \A t \in DOMAIN clients :
       clients[t] \in DOMAIN requests /\ requests[clients[t]].target = t

\* A mutex is held by the request that collects with its client, and by no other.
LockOK ==
  /\ \A i \in DOMAIN requests :
       requests[i].stage = "collecting" => mu[requests[i].client] = i
  /\ \A c \in Ids : mu[c] # 0 =>
       /\ mu[c] \in DOMAIN requests
       /\ requests[mu[c]].stage = "collecting"
       /\ requests[mu[c]].client = c

\* Every context ends when the code says it does.
ContextsOK ==
  \A i \in DOMAIN requests : Admitted(i) =>
    requests[i].expires = requests[i].arrived + scrapeTimeout(requests[i].header)

\* At moment t, some request of i's target has a context that has not been exceeded.
Covered(i, t) ==
  \E j \in DOMAIN requests :
    Admitted(j) /\ requests[j].target = requests[i].target /\ t <= requests[j].expires

AnswersOK ==
  \A i \in DOMAIN requests :
    /\ InFlight(i) => Covered(i, now)
    /\ requests[i].stage = "served" => Covered(i, requests[i].finished)

GatewayInv ==
  GatewayTypeOK /\ ClientsOK /\ LockOK /\ ContextsOK /\ AnswersOK /\ ShutdownSpares

-----------------------------------------------------------------------------
LEMMA TimeoutType ==
  ASSUME NEW h \in Nat
  PROVE  scrapeTimeout(h) \in Nat
BY GatewayAssumption DEF scrapeTimeout

\* The code's timeout undercuts Prometheus's, unless that is as short as the minimum.
LEMMA TimeoutUndercuts ==
  ASSUME NEW h \in Nat, h > minScrapeTimeout
  PROVE  scrapeTimeout(h) < h
BY GatewayAssumption DEF scrapeTimeout

LEMMA Domains ==
  ASSUME GatewayTypeOK
  PROVE  /\ Len(requests) \in Nat /\ MaxRequests \in Nat
         /\ DOMAIN requests = 1..Len(requests)
         /\ DOMAIN requests \subseteq Ids
         /\ \A i \in DOMAIN requests : requests[i] \in Request
BY GatewayAssumption DEF GatewayTypeOK, Ids

LEMMA GatewayInitially == GatewayInit => GatewayInv
<1> SUFFICES ASSUME GatewayInit PROVE GatewayInv
  OBVIOUS
<1>1. GatewayTypeOK
  BY GatewayAssumption DEF GatewayInit, GatewayTypeOK
<1>2. DOMAIN requests = {} /\ DOMAIN clients = {}
  BY DEF GatewayInit
<1>3. \A c \in Ids : mu[c] = 0
  BY DEF GatewayInit
<1>4. server = "running"
  BY DEF GatewayInit
<1> QED
  BY <1>1, <1>2, <1>3, <1>4
     DEF GatewayInv, ClientsOK, LockOK, ContextsOK, AnswersOK, ShutdownSpares

\* A request is added behind the others.
LEMMA Appended ==
  ASSUME GatewayTypeOK, Accepting, NEW r \in Request, requests' = Append(requests, r)
  PROVE  /\ requests' \in Seq(Request)
         /\ Len(requests') = Len(requests) + 1 /\ Len(requests') <= MaxRequests
         /\ DOMAIN requests' = DOMAIN requests \cup {Len(requests) + 1}
         /\ Len(requests) + 1 \notin DOMAIN requests
         /\ \A i \in DOMAIN requests : requests'[i] = requests[i]
         /\ requests'[Len(requests) + 1] = r
BY Domains DEF GatewayTypeOK, Accepting

LEMMA ArriveInv ==
  ASSUME GatewayInv, NEW t \in Targets, NEW h \in Headers, Arrive(t, h)
  PROVE  GatewayInv'
<1> DEFINE n == Len(requests) + 1
           c == clientFor(t, n)
           r == [target |-> t, header |-> h, arrived |-> now,
                 expires |-> now + scrapeTimeout(h), client |-> c,
                 stage |-> "waiting", finished |-> 0, up |-> 1]
<1> USE DEF GatewayInv
<1>1. h \in Nat /\ scrapeTimeout(h) \in Nat /\ now \in Nat
  BY GatewayAssumption, TimeoutType DEF GatewayTypeOK
<1>2. /\ t \in DOMAIN clients => c = clients[t] /\ c \in DOMAIN requests
                                 /\ requests[c].target = t
      /\ t \notin DOMAIN clients => c = n
  BY DEF clientFor, ClientsOK
<1>3. c \in Nat
  BY <1>2, Domains
<1>4. r \in Request
  BY <1>1, <1>3 DEF Request, Stages
<1>5. Accepting /\ requests' = Append(requests, r)
  BY DEF Arrive
<1>6. /\ requests' \in Seq(Request)
      /\ Len(requests') <= MaxRequests
      /\ DOMAIN requests' = DOMAIN requests \cup {n}
      /\ n \notin DOMAIN requests
      /\ \A i \in DOMAIN requests : requests'[i] = requests[i]
      /\ requests'[n] = r
  BY <1>4, <1>5, Appended
<1>7. /\ clients' = [u \in DOMAIN clients \cup {t} |-> IF u = t THEN c ELSE clients[u]]
      /\ UNCHANGED <<now, mu, server, stopAt>>
      /\ server = "running"
  BY DEF Arrive, Accepting
<1> HIDE DEF n, c
<1>8. /\ r.target = t /\ r.client = c /\ r.stage = "waiting"
      /\ r.expires = now + scrapeTimeout(h) /\ r.arrived = now /\ r.header = h
  OBVIOUS
<1> HIDE DEF r
<1>9. GatewayTypeOK'
  BY <1>6, <1>7 DEF GatewayTypeOK
<1>10. ClientsOK'
  <2>1. \A u \in DOMAIN clients' :
          clients'[u] \in DOMAIN requests' /\ requests'[clients'[u]].target = u
    BY <1>2, <1>6, <1>7, <1>8 DEF ClientsOK
  <2>2. \A i \in DOMAIN requests' : Admitted(i)' =>
          /\ requests'[i].client \in DOMAIN requests'
          /\ requests'[requests'[i].client].target = requests'[i].target
          /\ requests'[i].target \in DOMAIN clients'
          /\ clients'[requests'[i].target] = requests'[i].client
    <3> SUFFICES ASSUME NEW i \in DOMAIN requests', Admitted(i)'
                 PROVE  /\ requests'[i].client \in DOMAIN requests'
                        /\ requests'[requests'[i].client].target = requests'[i].target
                        /\ requests'[i].target \in DOMAIN clients'
                        /\ clients'[requests'[i].target] = requests'[i].client
      OBVIOUS
    <3>1. CASE i = n
      BY <1>2, <1>6, <1>7, <1>8, <3>1
    <3>2. CASE i \in DOMAIN requests
      <4>1. Admitted(i) /\ server # "closed"
        BY <1>6, <1>7, <3>2 DEF Admitted
      <4> QED
        BY <1>2, <1>6, <1>7, <3>2, <4>1 DEF ClientsOK
    <3> QED
      BY <1>6, <3>1, <3>2
  <2> QED
    BY <2>1, <2>2 DEF ClientsOK
<1>11. LockOK'
  BY <1>6, <1>7, <1>8 DEF LockOK
<1>12. ContextsOK'
  BY <1>6, <1>7, <1>8 DEF ContextsOK, Admitted
<1>13. AnswersOK'
  <2> SUFFICES ASSUME NEW i \in DOMAIN requests'
               PROVE  /\ InFlight(i)' => Covered(i, now)'
                      /\ requests'[i].stage = "served" => Covered(i, requests[i].finished)'
    BY DEF AnswersOK
  <2>1. CASE i = n
    <3>1. Admitted(i)' /\ now' <= requests'[i].expires
      BY <1>1, <1>6, <1>7, <1>8, <2>1 DEF Admitted
    <3>2. Covered(i, now)'
      BY <3>1 DEF Covered
    <3> QED
      BY <1>6, <1>8, <2>1, <3>2
  <2>2. CASE i \in DOMAIN requests
    <3>1. \A s : Covered(i, s) => \E j \in DOMAIN requests' :
             /\ Admitted(j)' /\ requests'[j].target = requests'[i].target
             /\ s <= requests'[j].expires
      BY <1>6, <2>2 DEF Covered, Admitted
    <3> QED
      BY <1>6, <1>7, <2>2, <3>1 DEF AnswersOK, InFlight, Covered
  <2> QED
    BY <1>6, <2>1, <2>2
<1>14. ShutdownSpares'
  BY <1>7 DEF ShutdownSpares
<1> QED
  BY <1>9, <1>10, <1>11, <1>12, <1>13, <1>14

LEMMA RejectInv ==
  ASSUME GatewayInv, NEW t \in Targets, Reject(t)
  PROVE  GatewayInv'
<1> DEFINE n == Len(requests) + 1
           r == [target |-> t, header |-> 0, arrived |-> 0, expires |-> 0,
                 client |-> 0, stage |-> "rejected", finished |-> 0, up |-> 0]
<1> USE DEF GatewayInv
<1>1. r \in Request
  BY DEF Request, Stages
<1>2. Accepting /\ requests' = Append(requests, r)
  BY DEF Reject
<1>3. /\ requests' \in Seq(Request)
      /\ Len(requests') <= MaxRequests
      /\ DOMAIN requests' = DOMAIN requests \cup {n}
      /\ n \notin DOMAIN requests
      /\ \A i \in DOMAIN requests : requests'[i] = requests[i]
      /\ requests'[n] = r
  BY <1>1, <1>2, Appended
<1>4. UNCHANGED <<now, clients, mu, server, stopAt>> /\ server = "running"
  BY DEF Reject, Accepting
<1> HIDE DEF n
<1>5. r.stage = "rejected"
  OBVIOUS
<1> HIDE DEF r
<1>6. GatewayTypeOK'
  BY <1>3, <1>4 DEF GatewayTypeOK
<1>7. \A i \in DOMAIN requests' : Admitted(i)' => i \in DOMAIN requests /\ Admitted(i)
  BY <1>3, <1>5 DEF Admitted
<1>8. ClientsOK'
  BY <1>3, <1>4, <1>7 DEF ClientsOK
<1>9. LockOK' /\ ContextsOK' /\ ShutdownSpares'
  BY <1>3, <1>4, <1>5, <1>7 DEF LockOK, ContextsOK, ShutdownSpares
<1>10. AnswersOK'
  <2> SUFFICES ASSUME NEW i \in DOMAIN requests'
               PROVE  /\ InFlight(i)' => Covered(i, now)'
                      /\ requests'[i].stage = "served" => Covered(i, requests[i].finished)'
    BY DEF AnswersOK
  <2>1. CASE i = n
    BY <1>3, <1>5, <2>1 DEF InFlight
  <2>2. CASE i \in DOMAIN requests
    <3>1. \A s : Covered(i, s) => \E j \in DOMAIN requests' :
             /\ Admitted(j)' /\ requests'[j].target = requests'[i].target
             /\ s <= requests'[j].expires
      BY <1>3, <2>2 DEF Covered, Admitted
    <3> QED
      BY <1>3, <1>4, <2>2, <3>1 DEF AnswersOK, InFlight, Covered
  <2> QED
    BY <1>3, <2>1, <2>2
<1> QED
  BY <1>6, <1>8, <1>9, <1>10

\* A step of request i changes where it is, not who it is.
Advances(i) ==
  /\ Admitted(i) /\ Admitted(i)'
  /\ requests' \in Seq(Request)
  /\ Len(requests') = Len(requests) /\ DOMAIN requests' = DOMAIN requests
  /\ \A k \in DOMAIN requests \ {i} : requests'[k] = requests[k]
  /\ \A f \in {"target", "client", "header", "arrived", "expires"} :
       requests'[i][f] = requests[i][f]
  /\ UNCHANGED <<now, clients, server, stopAt>>

LEMMA AdvanceKeeps ==
  ASSUME GatewayInv, NEW i \in Ids, Advances(i)
  PROVE  /\ ClientsOK' /\ ContextsOK'
         /\ \A k \in DOMAIN requests, s \in Nat : Covered(k, s) => Covered(k, s)'
<1>1. \A k \in DOMAIN requests :
        /\ Admitted(k)' = Admitted(k)
        /\ requests'[k].target = requests[k].target
        /\ requests'[k].client = requests[k].client
        /\ requests'[k].header = requests[k].header
        /\ requests'[k].arrived = requests[k].arrived
        /\ requests'[k].expires = requests[k].expires
  BY DEF Advances, Admitted
<1>2. DOMAIN requests' = DOMAIN requests /\ UNCHANGED <<now, clients, server, stopAt>>
  BY DEF Advances
<1>3. ClientsOK'
  BY <1>1, <1>2 DEF GatewayInv, ClientsOK
<1>4. ContextsOK'
  BY <1>1, <1>2 DEF GatewayInv, ContextsOK
<1>5. ASSUME NEW k \in DOMAIN requests, NEW s \in Nat, Covered(k, s)
      PROVE  Covered(k, s)'
  BY <1>1, <1>2, <1>5 DEF Covered
<1> QED
  BY <1>3, <1>4, <1>5

LEMMA AcquireInv ==
  ASSUME GatewayInv, NEW i \in Ids, server # "closed", i \in DOMAIN requests, Acquire(i)
  PROVE  GatewayInv'
<1> DEFINE c == requests[i].client
<1> USE DEF GatewayInv
<1>1. Admitted(i) /\ c \in DOMAIN requests /\ c \in Ids /\ i \in Nat \ {0}
  BY Domains DEF Acquire, Admitted, ClientsOK, Ids
<1>2. requests[i] \in Request /\ requests \in Seq(Request)
  BY Domains DEF GatewayTypeOK
<1>3. [requests[i] EXCEPT !.stage = "collecting"] \in Request
  BY <1>2 DEF Request, Stages
<1>4. requests' = [requests EXCEPT ![i] = [requests[i] EXCEPT !.stage = "collecting"]]
  BY DEF Acquire
<1>5. /\ requests' \in Seq(Request)
      /\ Len(requests') = Len(requests) /\ DOMAIN requests' = DOMAIN requests
  BY <1>2, <1>3, <1>4, Domains
<1>6. /\ requests'[i] = [requests[i] EXCEPT !.stage = "collecting"]
      /\ \A k \in DOMAIN requests \ {i} : requests'[k] = requests[k]
  BY <1>2, <1>4
<1>7. /\ requests'[i].stage = "collecting"
      /\ \A f \in {"target", "client", "header", "arrived", "expires"} :
           requests'[i][f] = requests[i][f]
  BY <1>2, <1>6 DEF Request
<1>8. Advances(i)
  BY <1>1, <1>5, <1>6, <1>7 DEF Advances, Acquire, Admitted
<1>9. mu' = [mu EXCEPT ![c] = i] /\ mu[c] = 0
  BY DEF Acquire
<1>10. GatewayTypeOK'
  BY <1>1, <1>5, <1>8, <1>9 DEF GatewayTypeOK, Advances
<1>11. LockOK'
  <2>1. ASSUME NEW k \in DOMAIN requests', requests'[k].stage = "collecting"
        PROVE  mu'[requests'[k].client] = k
    <3>1. CASE k = i
      BY <1>1, <1>7, <1>9, <3>1 DEF GatewayTypeOK
    <3>2. CASE k # i
      <4>1. requests[k].stage = "collecting" /\ k \in DOMAIN requests /\ k \in Nat \ {0}
        BY <1>5, <1>6, <2>1, <3>2, Domains
      <4>2. mu[requests[k].client] = k
        BY <4>1 DEF LockOK
      <4>3. requests[k].client # c
        BY <1>9, <4>1, <4>2
      <4>4. requests[k].client \in Ids
        BY <4>1, Domains DEF ClientsOK, Admitted
      <4> QED
        BY <1>5, <1>6, <1>9, <3>2, <4>2, <4>3, <4>4 DEF GatewayTypeOK
    <3> QED
      BY <3>1, <3>2
  <2>2. ASSUME NEW d \in Ids, mu'[d] # 0
        PROVE  /\ mu'[d] \in DOMAIN requests'
               /\ requests'[mu'[d]].stage = "collecting"
               /\ requests'[mu'[d]].client = d
    <3>1. CASE d = c
      BY <1>1, <1>5, <1>7, <1>9, <3>1 DEF GatewayTypeOK
    <3>2. CASE d # c
      <4>1. mu'[d] = mu[d] /\ mu[d] # 0
        BY <1>9, <2>2, <3>2 DEF GatewayTypeOK
      <4>2. /\ mu[d] \in DOMAIN requests /\ requests[mu[d]].stage = "collecting"
            /\ requests[mu[d]].client = d
        BY <4>1 DEF LockOK
      <4>3. mu[d] # i
        BY <4>2, <3>2
      <4> QED
        BY <1>5, <1>6, <4>1, <4>2, <4>3
    <3> QED
      BY <3>1, <3>2
  <2> QED
    BY <2>1, <2>2 DEF LockOK
<1>12. AnswersOK'
  <2> SUFFICES ASSUME NEW k \in DOMAIN requests
               PROVE  /\ InFlight(k)' => Covered(k, now)'
                      /\ requests'[k].stage = "served" => Covered(k, requests[k].finished)'
    BY <1>5 DEF AnswersOK
  <2>1. /\ InFlight(k)' => InFlight(k)
        /\ requests'[k].stage = "served" =>
             requests[k].stage = "served" /\ requests'[k] = requests[k]
    BY <1>5, <1>6, <1>7 DEF InFlight, Acquire
  <2>2. /\ InFlight(k) => Covered(k, now)
        /\ requests[k].stage = "served" => Covered(k, requests[k].finished)
    BY DEF AnswersOK
  <2>3. now \in Nat /\ now' = now /\ requests[k].finished \in Nat
    BY Domains DEF GatewayTypeOK, Request, Acquire
  <2>4. \A s \in Nat : Covered(k, s) => Covered(k, s)'
    BY <1>8, AdvanceKeeps
  <2> QED
    BY <2>1, <2>2, <2>3, <2>4 DEF Covered
<1>13. ShutdownSpares'
  BY DEF Acquire, ShutdownSpares
<1> QED
  BY <1>8, <1>10, <1>11, <1>12, <1>13, AdvanceKeeps

LEMMA ServeInv ==
  ASSUME GatewayInv, NEW i \in Ids, server # "closed", i \in DOMAIN requests,
         requests[i].stage = "collecting", NEW value \in {0, 1}, Serve(i, value)
  PROVE  GatewayInv'
<1> DEFINE c == requests[i].client
           r == [requests[i] EXCEPT !.stage = "served", !.finished = now, !.up = value]
<1> USE DEF GatewayInv
<1>1. Admitted(i) /\ c \in DOMAIN requests /\ c \in Ids /\ i \in Nat \ {0}
  BY Domains DEF Admitted, ClientsOK, Ids
<1>2. requests[i] \in Request /\ requests \in Seq(Request) /\ now \in Nat
  BY Domains DEF GatewayTypeOK
<1>3. r \in Request
  BY <1>2 DEF Request, Stages
<1>4. requests' = [requests EXCEPT ![i] = r]
  BY DEF Serve
<1>5. /\ requests' \in Seq(Request)
      /\ Len(requests') = Len(requests) /\ DOMAIN requests' = DOMAIN requests
  BY <1>2, <1>3, <1>4, Domains
<1>6. /\ requests'[i] = r
      /\ \A k \in DOMAIN requests \ {i} : requests'[k] = requests[k]
  BY <1>2, <1>4
<1>7. /\ requests'[i].stage = "served" /\ requests'[i].finished = now
      /\ \A f \in {"target", "client", "header", "arrived", "expires"} :
           requests'[i][f] = requests[i][f]
  BY <1>2, <1>6 DEF Request
<1>8. Advances(i)
  BY <1>1, <1>5, <1>6, <1>7 DEF Advances, Serve, Admitted
<1>9. mu' = [mu EXCEPT ![c] = 0] /\ mu[c] = i
  BY DEF Serve, LockOK
<1>10. GatewayTypeOK'
  BY <1>1, <1>5, <1>8, <1>9 DEF GatewayTypeOK, Advances
<1>11. LockOK'
  <2>1. ASSUME NEW k \in DOMAIN requests', requests'[k].stage = "collecting"
        PROVE  mu'[requests'[k].client] = k
    <3>1. k # i /\ k \in DOMAIN requests /\ requests'[k] = requests[k]
      BY <1>5, <1>6, <1>7, <2>1
    <3>2. mu[requests[k].client] = k
      BY <2>1, <3>1 DEF LockOK
    <3>3. requests[k].client \in Ids /\ requests[k].client # c
      BY <1>9, <2>1, <3>1, <3>2, Domains DEF ClientsOK, Admitted
    <3> QED
      BY <1>9, <3>1, <3>2, <3>3 DEF GatewayTypeOK
  <2>2. ASSUME NEW d \in Ids, mu'[d] # 0
        PROVE  /\ mu'[d] \in DOMAIN requests'
               /\ requests'[mu'[d]].stage = "collecting"
               /\ requests'[mu'[d]].client = d
    <3>1. d # c /\ mu'[d] = mu[d]
      BY <1>1, <1>9, <2>2 DEF GatewayTypeOK
    <3>2. /\ mu[d] \in DOMAIN requests /\ requests[mu[d]].stage = "collecting"
          /\ requests[mu[d]].client = d
      BY <2>2, <3>1 DEF LockOK
    <3>3. mu[d] # i
      BY <3>1, <3>2
    <3> QED
      BY <1>5, <1>6, <3>1, <3>2, <3>3
  <2> QED
    BY <2>1, <2>2 DEF LockOK
<1>12. AnswersOK'
  <2> SUFFICES ASSUME NEW k \in DOMAIN requests
               PROVE  /\ InFlight(k)' => Covered(k, now)'
                      /\ requests'[k].stage = "served" => Covered(k, requests[k].finished)'
    BY <1>5 DEF AnswersOK
  <2>1. /\ InFlight(k) => Covered(k, now)
        /\ requests[k].stage = "served" => Covered(k, requests[k].finished)
    BY DEF AnswersOK
  <2>2. now \in Nat /\ now' = now /\ requests[k].finished \in Nat
    BY Domains DEF GatewayTypeOK, Request, Serve
  <2>3. \A s \in Nat : Covered(k, s) => Covered(k, s)'
    BY <1>8, AdvanceKeeps
  <2>4. CASE k = i
    <3>1. InFlight(k)
      BY <2>4 DEF InFlight
    <3> QED
      BY <1>7, <2>1, <2>2, <2>3, <2>4, <3>1 DEF InFlight, Covered
  <2>5. CASE k # i
    <3>1. InFlight(k)' = InFlight(k) /\ requests'[k] = requests[k]
      BY <1>5, <1>6, <2>5 DEF InFlight
    <3> QED
      BY <2>1, <2>2, <2>3, <3>1 DEF Covered
  <2> QED
    BY <2>4, <2>5
<1>13. ShutdownSpares'
  BY DEF Serve, ShutdownSpares
<1> QED
  BY <1>8, <1>10, <1>11, <1>12, <1>13, AdvanceKeeps

LEMMA StopSignalInv == ASSUME GatewayInv, StopSignal PROVE GatewayInv'
<1> USE DEF GatewayInv, StopSignal
<1>1. GatewayTypeOK'
  BY DEF GatewayTypeOK
<1>2. ClientsOK' /\ LockOK' /\ ContextsOK'
  BY DEF ClientsOK, LockOK, ContextsOK, Admitted
<1>3. AnswersOK'
  BY DEF AnswersOK, InFlight, Covered, Admitted
<1>4. ShutdownSpares'
  BY DEF ShutdownSpares
<1> QED
  BY <1>1, <1>2, <1>3, <1>4

\* Whatever is cut off waits for a context that the grace period does not exceed.
LEMMA CloseInv == ASSUME GatewayInv, Close PROVE GatewayInv'
<1> USE DEF GatewayInv
<1>1. GatewayTypeOK'
  BY DEF GatewayTypeOK, Close
<1>2. ClientsOK'
  BY DEF ClientsOK, Admitted, Close
<1>3. LockOK' /\ ContextsOK' /\ AnswersOK'
  BY DEF LockOK, ContextsOK, AnswersOK, InFlight, Covered, Admitted, Close
<1>4. ShutdownSpares'
  <2> SUFFICES ASSUME NEW i \in DOMAIN requests, InFlight(i)
               PROVE  \E j \in DOMAIN requests :
                        /\ requests[j].target = requests[i].target
                        /\ requests[j].expires >= stopAt + ShutdownGrace
    BY DEF ShutdownSpares, InFlight, Close
  <2>1. now >= stopAt + ShutdownGrace
    BY Domains DEF Close, Drained, GraceOver
  <2>2. PICK j \in DOMAIN requests :
          requests[j].target = requests[i].target /\ now <= requests[j].expires
    BY DEF AnswersOK, Covered
  <2>3. requests[j].expires \in Nat /\ now \in Nat /\ stopAt \in Nat /\ ShutdownGrace \in Nat
    BY Domains, GatewayAssumption DEF Request, GatewayTypeOK
  <2>4. requests[j].expires >= stopAt + ShutdownGrace
    BY <2>1, <2>2, <2>3
  <2> QED
    BY <2>2, <2>4
<1> QED
  BY <1>1, <1>2, <1>3, <1>4

\* Time passes only while whoever holds a lock may still collect, so every request under
\* way is covered by the holder of its lock or by itself.
LEMMA TickInv == ASSUME GatewayInv, Tick PROVE GatewayInv'
<1> USE DEF GatewayInv
<1>1. GatewayTypeOK'
  BY DEF GatewayTypeOK, Tick
<1>2. ClientsOK' /\ LockOK' /\ ContextsOK' /\ ShutdownSpares'
  BY DEF ClientsOK, LockOK, ContextsOK, ShutdownSpares, Admitted, InFlight, Tick
<1>3. AnswersOK'
  <2> SUFFICES ASSUME NEW i \in DOMAIN requests
               PROVE  /\ InFlight(i) => Covered(i, now')
                      /\ requests[i].stage = "served" => Covered(i, requests[i].finished)
    BY DEF AnswersOK, InFlight, Covered, Admitted, Tick
  <2>1. now \in Nat /\ now' = now + 1 /\ \A j \in DOMAIN requests : requests[j].expires \in Nat
    BY Domains DEF GatewayTypeOK, Request, Tick
  <2>2. \A j \in DOMAIN requests :
          requests[j].stage = "collecting" => Admitted(j) /\ now' <= requests[j].expires
    BY <2>1 DEF Tick, Expired, Admitted
  <2>3. ASSUME requests[i].stage = "waiting"
        PROVE  Covered(i, now')
    <3>1. Admitted(i) /\ requests[i].client \in Ids /\ mu[requests[i].client] # 0
      BY <2>3, Domains DEF Admitted, ClientsOK, Tick
    <3> DEFINE j == mu[requests[i].client]
    <3>2. /\ j \in DOMAIN requests /\ requests[j].stage = "collecting"
          /\ requests[j].client = requests[i].client
      BY <3>1 DEF LockOK
    <3>3. requests[j].target = requests[i].target
      BY <2>2, <3>1, <3>2 DEF ClientsOK
    <3> QED
      BY <2>2, <3>2, <3>3 DEF Covered
  <2>4. ASSUME requests[i].stage = "collecting"
        PROVE  Covered(i, now')
    BY <2>2, <2>4 DEF Covered
  <2> QED
    BY <2>3, <2>4 DEF AnswersOK, InFlight
<1> QED
  BY <1>1, <1>2, <1>3

LEMMA GatewayStep == GatewayInv /\ [GatewayNext]_gatewayVars => GatewayInv'
<1> SUFFICES ASSUME GatewayInv, [GatewayNext]_gatewayVars PROVE GatewayInv'
  OBVIOUS
<1>1. ASSUME NEW t \in Targets, NEW h \in Headers, Arrive(t, h) PROVE GatewayInv'
  BY <1>1, ArriveInv
<1>2. ASSUME NEW t \in Targets, Reject(t) PROVE GatewayInv'
  BY <1>2, RejectInv
<1>3. ASSUME NEW i \in Ids, RequestStep(i) PROVE GatewayInv'
  <2>1. CASE Acquire(i)
    BY <1>3, <2>1, AcquireInv DEF RequestStep
  <2>2. CASE CollectSucceeds(i)
    BY <1>3, <2>2, ServeInv DEF RequestStep, CollectSucceeds
  <2>3. CASE CollectFails(i)
    BY <1>3, <2>3, ServeInv DEF RequestStep, CollectFails
  <2> QED
    BY <1>3, <2>1, <2>2, <2>3 DEF RequestStep
<1>4. CASE StopSignal
  BY <1>4, StopSignalInv
<1>5. CASE Close
  BY <1>5, CloseInv
<1>6. CASE Tick
  BY <1>6, TickInv
<1>7. CASE UNCHANGED gatewayVars
  BY <1>7 DEF gatewayVars, GatewayInv, GatewayTypeOK, ClientsOK, LockOK, ContextsOK,
     AnswersOK, ShutdownSpares, Covered, Admitted, InFlight
<1> QED
  BY <1>1, <1>2, <1>3, <1>4, <1>5, <1>6, <1>7 DEF GatewayNext

THEOREM GatewayInvariance == GatewaySpec => []GatewayInv
BY GatewayInitially, GatewayStep, PTL DEF GatewaySpec

-----------------------------------------------------------------------------
\* However many scrapes name a daemon, at most one collects from it (gateway.go 108-123).
THEOREM CollectionsDoNotOverlap == GatewaySpec => []OneCollectionPerTarget
<1>1. GatewayInv => OneCollectionPerTarget
  BY DEF GatewayInv, OneCollectionPerTarget, ClientsOK, LockOK, Admitted
<1> QED
  BY <1>1, GatewayInvariance, PTL

\* A scrape is answered by the latest end of context among the scrapes of its target,
\* whatever the length of the queue (gateway.go 77-85).
THEOREM WaitsAreBounded == GatewaySpec => []WaitsDoNotAdd
<1>1. GatewayInv => WaitsDoNotAdd
  <2> SUFFICES ASSUME GatewayInv, NEW i \in DOMAIN requests, requests[i].stage = "served"
               PROVE  \E j \in DOMAIN requests :
                        /\ requests[j].target = requests[i].target
                        /\ requests[i].finished <=
                             requests[j].arrived + scrapeTimeout(requests[j].header)
    BY DEF WaitsDoNotAdd
  <2> QED
    BY DEF GatewayInv, AnswersOK, Covered, ContextsOK
<1> QED
  BY <1>1, GatewayInvariance, PTL

\* Undercutting Prometheus's deadline fails only behind a scrape of the same target whose
\* context outlives that deadline (gateway.go 132-142).
THEOREM LateBehindLonger == GatewaySpec => []LateOnlyBehindLonger
<1>1. GatewayInv => LateOnlyBehindLonger
  <2> SUFFICES ASSUME GatewayInv, NEW i \in DOMAIN requests,
                      requests[i].stage = "served",
                      requests[i].header > minScrapeTimeout,
                      requests[i].finished >= requests[i].arrived + requests[i].header
               PROVE  \E j \in DOMAIN requests \ {i} :
                        /\ requests[j].target = requests[i].target
                        /\ requests[j].expires >= requests[i].arrived + requests[i].header
    BY DEF LateOnlyBehindLonger
  <2>1. PICK j \in DOMAIN requests :
          requests[j].target = requests[i].target /\ requests[i].finished <= requests[j].expires
    BY DEF GatewayInv, AnswersOK, Covered
  <2>2. requests[i] \in Request /\ requests[j] \in Request
    BY Domains DEF GatewayInv
  <2>3. /\ requests[i].arrived \in Nat /\ requests[i].header \in Nat
        /\ requests[i].finished \in Nat
        /\ requests[i].expires \in Nat /\ requests[j].expires \in Nat
    BY <2>2 DEF Request
  <2>4. requests[i].expires = requests[i].arrived + scrapeTimeout(requests[i].header)
    BY DEF GatewayInv, ContextsOK, Admitted
  <2>5. scrapeTimeout(requests[i].header) < requests[i].header
    BY <2>3, TimeoutUndercuts
  <2>6. scrapeTimeout(requests[i].header) \in Nat
    BY <2>3, TimeoutType
  <2>7. requests[j].expires >= requests[i].arrived + requests[i].header
    BY <2>1, <2>3
  <2>8. j # i
    BY <2>3, <2>4, <2>5, <2>6, <2>7
  <2> QED
    BY <2>1, <2>7, <2>8
<1> QED
  BY <1>1, GatewayInvariance, PTL

\* The shutdown cuts off only scrapes of a target with a context longer than the grace
\* period (server.go 53-57, app.go 118-131).
THEOREM ShutdownCutsOffLongOnly == GatewaySpec => []ShutdownSpares
<1>1. GatewayInv => ShutdownSpares
  BY DEF GatewayInv
<1> QED
  BY <1>1, GatewayInvariance, PTL
=============================================================================

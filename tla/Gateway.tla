------------------------------ MODULE Gateway ------------------------------
(***************************************************************************)
(* Gateway mode: every scrape of /metrics?target=... collects from the     *)
(* rbln-smd it names, over a client that the handler keeps per target.     *)
(* The client serialises collections with a mutex that takes no part in    *)
(* the scrape's context, so a scrape waits for the lock past its timeout.  *)
(*                                                                         *)
(* Time passes in ticks of half a second, timeoutOffset.  The processor is *)
(* fast against a tick: time waits for a step that can be taken at once    *)
(* (taking a free lock, noticing that the context has ended), never for    *)
(* the daemon.  A client is named by the request that created it.          *)
(***************************************************************************)
EXTENDS Naturals, Sequences

CONSTANTS
  Targets,               \* values of the target parameter
  ValidTargets,          \* those of the form host:port
  Headers,               \* X-Prometheus-Scrape-Timeout-Seconds, in ticks; 0 if absent or not positive
  defaultScrapeTimeout,  \* in ticks, as the next two
  timeoutOffset,
  minScrapeTimeout,
  ShutdownGrace,         \* how long the server waits for requests under way, in ticks
  MaxRequests,           \* bound: the requests of a behaviour
  LastArrival,           \* bound: the last moment a request may arrive
  MaxTime                \* bound: the clock's last value, beyond every context that may begin

ASSUME GatewayAssumption ==
  /\ ValidTargets \subseteq Targets
  /\ Headers \subseteq Nat
  /\ {defaultScrapeTimeout, timeoutOffset, minScrapeTimeout, ShutdownGrace} \subseteq Nat \ {0}
  /\ MaxRequests \in Nat /\ LastArrival \in Nat
  /\ MaxTime \in Nat /\ \A h \in Headers \cup {defaultScrapeTimeout} : LastArrival + h < MaxTime

VARIABLES
  now,       \* the clock
  requests,  \* the requests in their order of arrival, answered ones included
  clients,   \* Handler.clients: the cached client of each target
  mu,        \* the request that holds each client's mutex, or 0
  server,    \* "running", "draining" after the signal, "closed" after Handler.Close
  stopAt     \* when the signal came

gatewayVars == <<now, requests, clients, mu, server, stopAt>>

Ids == 1 .. MaxRequests
InFlight(i) == i \in DOMAIN requests /\ requests[i].stage \in {"waiting", "collecting"}
Expired(i) == now >= requests[i].expires

GatewayInit ==
  /\ now = 0
  /\ requests = <<>>
  /\ clients = [t \in {} |-> 0]
  /\ mu = [c \in Ids |-> 0]
  /\ server = "running"
  /\ stopAt = 0

-----------------------------------------------------------------------------
\* Mutation of scrapeTimeout: the whole of Prometheus's timeout is used.
scrapeTimeoutAsGiven(header) == IF header = 0 THEN defaultScrapeTimeout ELSE header

scrapeTimeout(header) ==
  IF header = 0 THEN defaultScrapeTimeout
  ELSE IF header > timeoutOffset + minScrapeTimeout THEN header - timeoutOffset
  ELSE minScrapeTimeout

\* Mutation of clientFor: every request makes a client of its own.
clientForUncached(t, i) == i

clientFor(t, i) == IF t \in DOMAIN clients THEN clients[t] ELSE i

Accepting == server = "running" /\ Len(requests) < MaxRequests /\ now <= LastArrival

\* A request up to the lock: the client is found or created and cached, the context's
\* timeout begins to run, GetDeviceInfo asks for the mutex.
Arrive(t, h) ==
  LET i == Len(requests) + 1
      c == clientFor(t, i)
  IN /\ Accepting
     /\ t \in ValidTargets
     /\ requests' = Append(requests, [target |-> t, header |-> h, arrived |-> now,
                                      expires |-> now + scrapeTimeout(h), client |-> c,
                                      stage |-> "waiting", finished |-> 0, up |-> 1])
     /\ clients' = [u \in DOMAIN clients \cup {t} |-> IF u = t THEN c ELSE clients[u]]
     /\ UNCHANGED <<now, mu, server, stopAt>>

\* Status 400: the target is missing or is not host:port, or no client could be made
\* for it (unusable TLS files), in which case none is cached.
Reject(t) ==
  /\ Accepting
  /\ t \notin ValidTargets \cap DOMAIN clients
  /\ requests' = Append(requests, [target |-> t, header |-> 0, arrived |-> 0, expires |-> 0,
                                   client |-> 0, stage |-> "rejected", finished |-> 0, up |-> 0])
  /\ UNCHANGED <<now, clients, mu, server, stopAt>>

\* Mutation of Acquire: the timeout begins to run with the lock.
AcquireRestartingTimeout(i) ==
  /\ requests[i].stage = "waiting"
  /\ mu[requests[i].client] = 0
  /\ mu' = [mu EXCEPT ![requests[i].client] = i]
  /\ requests' = [requests EXCEPT ![i].stage = "collecting",
                                  ![i].expires = now + scrapeTimeout(requests[i].header)]
  /\ UNCHANGED <<now, clients, server, stopAt>>

\* c.mu.Lock returns.  A goroutine that asks just as the lock is released may take it
\* before one that has waited, so any waiting request may be the next.
Acquire(i) ==
  /\ requests[i].stage = "waiting"
  /\ mu[requests[i].client] = 0
  /\ mu' = [mu EXCEPT ![requests[i].client] = i]
  /\ requests' = [requests EXCEPT ![i].stage = "collecting"]
  /\ UNCHANGED <<now, clients, server, stopAt>>

\* Mutation of Serve: the mutex is not released.
ServeKeepingLock(i, value) ==
  /\ requests' = [requests EXCEPT ![i].stage = "served", ![i].finished = now, ![i].up = value]
  /\ UNCHANGED <<now, clients, mu, server, stopAt>>

\* GetDeviceInfo returns and releases the mutex; rbln_up is set and the registry of the
\* request, which no other request shares, is served.
Serve(i, value) ==
  /\ requests' = [requests EXCEPT ![i].stage = "served", ![i].finished = now, ![i].up = value]
  /\ mu' = [mu EXCEPT ![requests[i].client] = 0]
  /\ UNCHANGED <<now, clients, server, stopAt>>

\* The daemon answers all calls before the context ends.
CollectSucceeds(i) ==
  /\ requests[i].stage = "collecting"
  /\ ~Expired(i)
  /\ Serve(i, 1)

\* The daemon refuses a call, Prometheus hangs up or the context has ended.
CollectFails(i) ==
  /\ requests[i].stage = "collecting"
  /\ Serve(i, 0)

-----------------------------------------------------------------------------
StopSignal ==
  /\ server = "running"
  /\ server' = "draining"
  /\ stopAt' = now
  /\ UNCHANGED <<now, requests, clients, mu>>

Drained == \A i \in Ids : ~InFlight(i)
GraceOver == now >= stopAt + ShutdownGrace

\* Mutation of Close: the server does not wait for requests under way.
CloseAtOnce ==
  /\ server = "draining"
  /\ server' = "closed"
  /\ clients' = [t \in {} |-> 0]
  /\ UNCHANGED <<now, requests, mu, stopAt>>

\* Shutdown returns once no request is under way or its own timeout is over; Handler.Close
\* closes and forgets the clients and the process ends, with any request still under way.
Close ==
  /\ server = "draining"
  /\ Drained \/ GraceOver
  /\ server' = "closed"
  /\ clients' = [t \in {} |-> 0]
  /\ UNCHANGED <<now, requests, mu, stopAt>>

\* Time passes unless something is due now.
Tick ==
  /\ server # "closed"
  /\ ~(server = "draining" /\ (Drained \/ GraceOver))
  /\ now < LastArrival \/ (~Drained /\ now < MaxTime)
  /\ \A i \in DOMAIN requests :
       /\ ~(requests[i].stage = "collecting" /\ Expired(i))
       /\ ~(requests[i].stage = "waiting" /\ mu[requests[i].client] = 0)
  /\ now' = now + 1
  /\ UNCHANGED <<requests, clients, mu, server, stopAt>>

RequestStep(i) ==
  /\ server # "closed"
  /\ i \in DOMAIN requests
  /\ Acquire(i) \/ CollectSucceeds(i) \/ CollectFails(i)

GatewayNext ==
  \/ \E t \in Targets, h \in Headers : Arrive(t, h)
  \/ \E t \in Targets : Reject(t)
  \/ \E i \in Ids : RequestStep(i)
  \/ StopSignal \/ Close \/ Tick

GatewaySpec == GatewayInit /\ [][GatewayNext]_gatewayVars

\* Handlers are goroutines of their own and every call ends with the context; a mutex is
\* handed to its waiters.  Nothing makes a daemon answer or the signal come.
FairGatewaySpec ==
  /\ GatewaySpec
  /\ WF_gatewayVars(Tick)
  /\ WF_gatewayVars(Close)
  /\ \A i \in Ids : WF_gatewayVars(RequestStep(i))

-----------------------------------------------------------------------------
\* The collections of one daemon never overlap, however many scrapes name it: they share
\* one cached client, whose mutex guards the transition state of the daemon's devices
\* (gateway.go 108-123, client.go 32-39 and 68).
OneCollectionPerTarget ==
  \A i, j \in DOMAIN requests :
    /\ requests[i].stage = "collecting" /\ requests[j].stage = "collecting"
    /\ requests[i].target = requests[j].target
    => i = j

\* Waiting times do not add up: however many scrapes queue for a hung target, each is
\* answered by the latest end of context among them, because the timeouts run while
\* they wait; and scrapes of other targets play no part (gateway.go 77-85).
WaitsDoNotAdd ==
  \A i \in DOMAIN requests : requests[i].stage = "served" =>
    \E j \in DOMAIN requests :
      /\ requests[j].target = requests[i].target
      /\ requests[i].finished <= requests[j].arrived + scrapeTimeout(requests[j].header)

\* Undercutting Prometheus's deadline works unless the scrape waited for another one of
\* its target whose timeout ends after this deadline (gateway.go 132-142).
LateOnlyBehindLonger ==
  \A i \in DOMAIN requests :
    LET deadline == requests[i].arrived + requests[i].header
    IN /\ requests[i].stage = "served"
       /\ requests[i].header > minScrapeTimeout
       /\ requests[i].finished >= deadline
       => \E j \in DOMAIN requests \ {i} :
            requests[j].target = requests[i].target /\ requests[j].expires >= deadline

\* gateway.go 135-136: a scrape is answered before Prometheus gives it up.
ServedInTime ==
  \A i \in DOMAIN requests :
    requests[i].stage = "served" /\ requests[i].header # 0
    => requests[i].finished < requests[i].arrived + requests[i].header

\* Shutting down cuts off only scrapes whose target holds a context that outlives the
\* server's grace period (server.go 53-57, app.go 118-131).
ShutdownSpares ==
  server = "closed" =>
    \A i \in DOMAIN requests : InFlight(i) =>
      \E j \in DOMAIN requests :
        /\ requests[j].target = requests[i].target
        /\ requests[j].expires >= stopAt + ShutdownGrace

\* Every accepted scrape is answered, also of a daemon that never replies, unless the
\* gateway is shut down meanwhile.
EveryScrapeAnswered ==
  \A i \in Ids :
    InFlight(i) ~> (server = "closed" \/ ~InFlight(i))
=============================================================================

------------------------------ MODULE Lifecycle -----------------------------
(***************************************************************************)
(* The process from main to its exit: configuration, the start of either   *)
(* mode (internal/cmd/app.go), the HTTP server with its goroutine, error   *)
(* channel and drain (internal/server/server.go), and signals at any time. *)
(* Collections and requests are only under way or not; LocalExporter and   *)
(* Gateway have their inside.                                              *)
(***************************************************************************)
EXTENDS Configuration

CONSTANTS
  Environments, CommandLines,  \* the inputs considered
  LogLevels, LogFormats        \* of the two logging variables

ASSUME InputsAssumption ==
  /\ Environments \subseteq Inputs /\ CommandLines \subseteq Inputs
  /\ LogLevels \subseteq Levels \cup {Nil, Typo}
  /\ LogFormats \subseteq Formats \cup {Nil, Typo}

VARIABLES
  env, flags, logEnv,  \* the inputs
  node,                \* what the process finds on its node (external)
  cfg,                 \* the configuration once resolved, or Nil
  logger,              \* what setupFromEnv installed, or Nil
  main,                \* where the main goroutine is
  signalled,           \* a signal has been delivered
  listener,            \* the goroutine of ListenAndServe
  serverErr,           \* the content of the channel: open, an error, or closed
  shuttingDown,        \* Shutdown has been called
  requests,            \* requests are being handled
  scheduler,           \* the scheduler's goroutine
  exitCode

inputs == <<env, flags, logEnv, node>>
server == <<listener, serverErr, shuttingDown, requests>>
vars == <<inputs, cfg, logger, main, signalled, server, scheduler, exitCode>>

Init ==
  /\ env \in Environments /\ flags \in CommandLines
  /\ logEnv \in [level: LogLevels, format: LogFormats]
  /\ node \in Nodes
  /\ cfg = Nil /\ logger = Nil
  /\ main = "logging"
  /\ signalled = FALSE
  /\ listener = "none" /\ serverErr = "open" /\ shuttingDown = FALSE /\ requests = FALSE
  /\ scheduler = "none"
  /\ exitCode = Nil

-----------------------------------------------------------------------------
\* main returns or calls os.Exit; the goroutines end with the process.
Exit(code) ==
  /\ main' = "exited" /\ exitCode' = code
  /\ scheduler' = IF scheduler = "running" THEN "killed" ELSE scheduler

SetupLogging ==
  /\ main = "logging"
  /\ logger' = setupFromEnv(logEnv.level, logEnv.format)
  /\ main' = "configure"
  /\ UNCHANGED <<inputs, cfg, signalled, server, scheduler, exitCode>>

\* NewApp, flag parsing, finalize: an unusable configuration ends the process.
Configure ==
  /\ main = "configure"
  /\ LET c == bindFlags(newConfigBuilder(env), flags)
     IN IF FlagsParse(flags) /\ finalize(c)
        THEN cfg' = c /\ main' = "start" /\ UNCHANGED <<scheduler, exitCode>>
        ELSE UNCHANGED cfg /\ Exit(1)
  /\ UNCHANGED <<inputs, logger, signalled, server>>

\* Start in gateway mode: clients are made by the requests.
StartGateway ==
  /\ main = "start" /\ cfg.mode = "gateway"
  /\ main' = "serve" /\ listener' = "starting"
  /\ UNCHANGED <<inputs, cfg, logger, signalled, serverErr, shuttingDown, requests,
                 scheduler, exitCode>>

\* The rest of Start in local mode: scheduler and server.
Launch ==
  /\ scheduler' = "running" /\ main' = "serve" /\ listener' = "starting"
  /\ UNCHANGED exitCode

\* Start in local mode, up to the Kubernetes mode, which is resolved once and for all.
StartLocal ==
  /\ main = "start" /\ cfg.mode = "local"
  /\ CASE NewLazyClient(cfg) \notin Usable -> Exit(1) /\ UNCHANGED listener
       [] resolveKubernetesMode(cfg, node) -> main' = "mapper" /\ UNCHANGED <<listener, scheduler, exitCode>>
       [] OTHER -> Launch
  /\ UNCHANGED <<inputs, cfg, logger, signalled, serverErr, shuttingDown, requests>>

\* NewPodResourceMapper: its first sync may fail, its connection may not.
StartMapper ==
  /\ main = "mapper"
  /\ IF newKubeletClient(node) THEN Launch ELSE Exit(1) /\ UNCHANGED listener
  /\ UNCHANGED <<inputs, cfg, logger, signalled, serverErr, shuttingDown, requests>>

\* The kubelet starts or stops; nothing looks at its socket any more once Start serves.
KubeletChanges ==
  /\ main \in {"start", "mapper"}
  /\ node' = [node EXCEPT !.socket = ~@]
  /\ UNCHANGED <<env, flags, logEnv, cfg, logger, main, signalled, server, scheduler,
                 exitCode>>

\* Run's goroutine sees the done context.  Its cycles, Oneshot or not, go on until then.
SchedulerStops ==
  /\ scheduler = "running" /\ main # "exited"
  /\ signalled /\ scheduler' = "stopped"
  /\ UNCHANGED <<inputs, cfg, logger, main, signalled, server, exitCode>>

-----------------------------------------------------------------------------
Sends(content, state) == serverErr' = content /\ listener' = state

\* ListenAndServe: it does not begin once Shutdown was called; listening succeeds, or
\* fails and the error goes to the channel before it is closed.
Listen ==
  /\ listener = "starting" /\ main # "exited"
  /\ \/ shuttingDown /\ Sends("closed", "closed")
     \/ ~shuttingDown /\ listener' = "serving" /\ UNCHANGED serverErr
     \/ ~shuttingDown /\ Sends("error", "failed")
  /\ UNCHANGED <<inputs, cfg, logger, main, signalled, shuttingDown, requests, scheduler,
                 exitCode>>

\* Serve returns: ErrServerClosed after Shutdown, otherwise an Accept error.
ServeReturns ==
  /\ listener = "serving" /\ main # "exited"
  /\ IF shuttingDown THEN Sends("closed", "closed") ELSE Sends("error", "failed")
  /\ UNCHANGED <<inputs, cfg, logger, main, signalled, shuttingDown, requests, scheduler,
                 exitCode>>

\* Scrapes come while the server listens, and end.
RequestsChange ==
  /\ requests' \in IF listener = "serving" /\ ~shuttingDown THEN BOOLEAN ELSE {FALSE}
  /\ main # "exited"
  /\ UNCHANGED <<inputs, cfg, logger, main, signalled, listener, serverErr, shuttingDown,
                 scheduler, exitCode>>

\* MetricServer.Start, case <-serverErr, and Start returning the error.
ServerFails ==
  /\ main = "serve" /\ serverErr # "open"
  /\ Exit(IF serverErr = "error" THEN 1 ELSE 0)
  /\ UNCHANGED <<inputs, cfg, logger, signalled, server>>

\* MetricServer.Start, case <-ctx.Done(): Shutdown begins.
ShutdownBegins ==
  /\ main = "serve" /\ signalled
  /\ main' = "drain" /\ shuttingDown' = TRUE
  /\ UNCHANGED <<inputs, cfg, logger, signalled, listener, serverErr, requests, scheduler,
                 exitCode>>

\* Mutation of ServerStops: Shutdown has no deadline.
ServerStopsWaiting ==
  /\ main = "drain" /\ ~requests
  /\ main' = "returned"
  /\ UNCHANGED <<inputs, cfg, logger, signalled, server, scheduler, exitCode>>

\* Shutdown returns when no request is left or after its 5 s.
ServerStops ==
  /\ main = "drain"
  /\ main' = "returned"
  /\ UNCHANGED <<inputs, cfg, logger, signalled, server, scheduler, exitCode>>

\* Mutation of StartReturns: the goroutine's error is not waited for.
StartReturnsSilent ==
  /\ main = "returned"
  /\ Exit(0)
  /\ UNCHANGED <<inputs, cfg, logger, signalled, server>>

\* return <-serverErr: the goroutine's error, or nil from the closed channel.
StartReturns ==
  /\ main = "returned" /\ serverErr # "open"
  /\ Exit(IF serverErr = "error" THEN 1 ELSE 0)
  /\ UNCHANGED <<inputs, cfg, logger, signalled, server>>

\* SIGINT, SIGTERM or SIGQUIT; before Start has installed its handler, and so with the
\* default action, it ends the process at once, which is not modelled.
Signal ==
  /\ main \in {"start", "mapper", "serve", "drain", "returned"} /\ ~signalled
  /\ signalled' = TRUE
  /\ UNCHANGED <<inputs, cfg, logger, main, server, scheduler, exitCode>>

MainStep == SetupLogging \/ Configure \/ StartGateway \/ StartLocal \/ StartMapper
            \/ ServerFails \/ ShutdownBegins \/ ServerStops \/ StartReturns
ListenerStep == Listen \/ (shuttingDown /\ ServeReturns)

Next == MainStep \/ SchedulerStops \/ Listen \/ ServeReturns \/ RequestsChange \/ Signal
        \/ KubeletChanges

Spec == Init /\ [][Next]_vars

\* Goroutines are scheduled; Shutdown and its effect on Serve do not wait for anything.
FairSpec == Spec /\ WF_vars(MainStep) /\ WF_vars(ListenerStep) /\ WF_vars(SchedulerStops)

-----------------------------------------------------------------------------
\* A process that serves can make its clients: what finalize accepts, NewLazyClient does
\* not refuse except for files it cannot load.  In gateway mode nothing else would show a
\* wrong configuration before every scrape fails (config.go 93-97, options.go 31).
ServingIsUsable ==
  main \in {"serve", "drain", "returned"} =>
    /\ NewLazyClient(cfg) \in Usable \cup {"unreadable"}
    /\ cfg.interval \in MinIntervalSeconds..MaxIntervalSeconds

\* server.go 41-58: the exit status is 0 only for a process that was signalled and whose
\* listener did not fail; in particular a listener that fails while a signal arrives is
\* still reported, whichever case the select takes.
ExitCodeTruthful ==
  main = "exited" =>
    /\ exitCode = 0 => signalled
    /\ listener = "failed" => exitCode = 1

\* A signal, or a listener that fails, ends the process.
EndsWhenTold == (signalled \/ listener = "failed") ~> main = "exited"
=============================================================================

---------------------------- MODULE Configuration ---------------------------
(***************************************************************************)
(* How the environment and the command line become the configuration       *)
(* (internal/cmd/config.go), the logger (internal/logging/logging.go) and  *)
(* the client's credentials (internal/daemon/options.go), as functions.    *)
(* A variable or flag that is not given is Nil.  Strings are the classes   *)
(* the code tells apart; for a file, whether it can be loaded.             *)
(***************************************************************************)
EXTENDS Integers

CONSTANTS
  Nil,       \* not given
  Typo,      \* a value that does not parse
  Second,    \* nanoseconds per second; 10^9 in the code
  Width      \* the number of values of an int64; 2^64 in the code

ASSUME WidthAssumption ==
  Second \in Nat \ {0} /\ Width \in Nat \ {0} /\ 120 * Second < Width

MinIntervalSeconds == 1
MaxIntervalSeconds == 60

Levels == {"error", "warning", "info", "debug", "trace"}
Formats == {"json", "text"}
Modes == {"local", "gateway"}
KubernetesModes == {"auto", "on", "off"}
Groups == {"default", "blank", "dedicated"}
Files == {"", "good", "bad"}

\* What a user may give, by environment or by flag.
Inputs ==
  [interval: Int \cup {Nil, Typo}, mode: Modes \cup {Nil, Typo},
   kubernetesMode: KubernetesModes \cup {Nil, Typo}, group: Groups \cup {Nil},
   oneshot: BOOLEAN \cup {Nil, Typo},
   ca: Files \cup {Nil}, cert: Files \cup {Nil}, key: Files \cup {Nil}]

-----------------------------------------------------------------------------
\* int64 arithmetic: the product of an int and time.Second, and back to seconds
\* rounded towards zero.
Wrap(n) == LET r == n % Width IN IF 2 * r >= Width THEN r - Width ELSE r
Nanoseconds(n) == Wrap(n * Second)
Seconds(d) == IF d >= 0 THEN d \div Second ELSE -((-d) \div Second)

\* getenvDefault, and getenvIntDefault and getenvBoolDefault, which also take the
\* default for what does not parse.
getenvDefault(v, def) == IF v = Nil THEN def ELSE v
getenvParsed(v, def) == IF v \in {Nil, Typo} THEN def ELSE v

\* newConfigBuilder: the interval goes through a Duration.
newConfigBuilder(env) ==
  [interval |-> Seconds(Nanoseconds(getenvParsed(env.interval, 5))),
   mode |-> getenvDefault(env.mode, "local"),
   kubernetesMode |-> getenvDefault(env.kubernetesMode, "auto"),
   group |-> getenvDefault(env.group, "dedicated"),
   oneshot |-> getenvParsed(env.oneshot, FALSE),
   ca |-> getenvDefault(env.ca, ""), cert |-> getenvDefault(env.cert, ""),
   key |-> getenvDefault(env.key, "")]

\* bindFlags: a flag that is given replaces the value of its variable.
bindFlags(builder, flags) ==
  [f \in DOMAIN builder |-> IF flags[f] = Nil THEN builder[f] ELSE flags[f]]

\* pflag refuses a number or a switch that does not parse.
FlagsParse(flags) == flags.interval # Typo /\ flags.oneshot # Typo

\* Mutation of finalize: certificate and key are left to the client.
finalizeUnpaired(cfg) ==
  /\ cfg.group = "dedicated"
  /\ cfg.interval >= MinIntervalSeconds /\ cfg.interval <= MaxIntervalSeconds
  /\ cfg.mode \in Modes
  /\ cfg.kubernetesMode \in KubernetesModes

finalize(cfg) ==
  /\ cfg.group = "dedicated"
  /\ (cfg.cert = "") = (cfg.key = "")
  /\ cfg.interval >= MinIntervalSeconds /\ cfg.interval <= MaxIntervalSeconds
  /\ cfg.mode \in Modes
  /\ cfg.kubernetesMode \in KubernetesModes

\* transportCredentials: what makes it fail.
transportCredentials(cfg) ==
  IF (cfg.cert = "") # (cfg.key = "") THEN "unpaired"
  ELSE IF "bad" \in {cfg.ca, cfg.cert, cfg.key} THEN "unreadable"
  ELSE IF cfg.ca = "" /\ cfg.cert = "" THEN "insecure" ELSE "tls"

\* NewLazyClient.
NewLazyClient(cfg) == IF cfg.group = "default" THEN "default group" ELSE transportCredentials(cfg)
Usable == {"insecure", "tls"}

\* What the node shows: KUBERNETES_SERVICE_HOST is set, as in every pod, and the socket
\* of the kubelet's pod-resources API exists.
Nodes == [serviceHost: BOOLEAN, socket: BOOLEAN]

IsKubernetes(node) == node.serviceHost \/ node.socket

\* newKubeletClient succeeds; it does not connect yet.
newKubeletClient(node) == node.socket

resolveKubernetesMode(cfg, node) ==
  cfg.kubernetesMode = "on" \/ (cfg.kubernetesMode = "auto" /\ IsKubernetes(node))

-----------------------------------------------------------------------------
\* setupFromEnv: the logger installed, and the variables a visible Warn was logged about.
setupFromEnv(level, format) ==
  LET bad == {v \in {"level", "format"} : (IF v = "level" THEN level ELSE format) = Typo}
      l == IF level \in {Nil, Typo} THEN "info" ELSE level
  IN [level |-> l, format |-> IF format \in {Nil, Typo} THEN "json" ELSE format,
      warned |-> IF l = "error" THEN {} ELSE bad]
=============================================================================

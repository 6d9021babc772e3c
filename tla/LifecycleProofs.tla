--------------------------- MODULE LifecycleProofs --------------------------
(***************************************************************************)
(* What a process promises from its start to its exit status, proved for   *)
(* every environment, command line and node and every width of integers.   *)
(*                                                                         *)
(* ExitCodeTruthful looks at a process that has ended.  Before that, the   *)
(* error channel has to tell what became of the listener (ChannelOK), a    *)
(* listener that was closed must have been told so by a signal             *)
(* (SignalOK), and nothing listens before the process serves (OrderOK).    *)
(***************************************************************************)
EXTENDS Lifecycle, TLAPS

Starting == {"logging", "configure", "start", "mapper"}
Ending == {"drain", "returned"}
Mains == Starting \cup Ending \cup {"serve", "exited"}

InputsOK == env \in Inputs /\ flags \in Inputs

TypeOK ==
  /\ main \in Mains
  /\ listener \in {"none", "starting", "serving", "failed", "closed"}
  /\ serverErr \in {"open", "error", "closed"}
  /\ signalled \in BOOLEAN /\ shuttingDown \in BOOLEAN

\* The channel holds an error exactly if the listener failed, and is closed without one
\* exactly if the listener was.
ChannelOK ==
  /\ serverErr = "error" <=> listener = "failed"
  /\ serverErr = "closed" <=> listener = "closed"

\* Only a signal begins a shutdown, and only a shutdown closes the listener.
SignalOK ==
  /\ shuttingDown => signalled
  /\ listener = "closed" => shuttingDown

OrderOK ==
  /\ main \in Starting => listener = "none"
  /\ main \in Ending => shuttingDown

\* Beyond Configure there is a configuration that finalize accepts.
ConfiguredOK ==
  main \in {"start", "mapper", "serve"} \cup Ending => cfg.interval \in Int /\ finalize(cfg)

Inv ==
  /\ InputsOK /\ TypeOK /\ ChannelOK /\ SignalOK /\ OrderOK /\ ConfiguredOK
  /\ ExitCodeTruthful

-----------------------------------------------------------------------------
\* The interval of the environment is an int again once it has been through int64
\* nanoseconds, whether it wraps around there or not.
LEMMA IntervalIsInt ==
  ASSUME NEW n \in Int
  PROVE  Seconds(Nanoseconds(n)) \in Int
<1> DEFINE product == n * Second
<1>1. product \in Int
  BY WidthAssumption
<1> HIDE DEF product
<1>2. product % Width \in Int
  BY <1>1, WidthAssumption
<1>3. Wrap(product) \in Int
  BY <1>2, WidthAssumption DEF Wrap
<1> DEFINE d == Wrap(product)
<1> HIDE DEF d
<1>4. ASSUME NEW m \in Nat PROVE m \div Second \in Int
  BY WidthAssumption
<1>5. d >= 0 => d \in Nat
  BY <1>3 DEF d
<1>6. ~(d >= 0) => -d \in Nat
  BY <1>3 DEF d
<1>7. Seconds(d) \in Int
  BY <1>4, <1>5, <1>6 DEF Seconds
<1> QED
  BY <1>7 DEF d, product, Nanoseconds

\* What the flags parse to replaces an int by an int.
LEMMA BoundIntervalIsInt ==
  ASSUME InputsOK, FlagsParse(flags)
  PROVE  bindFlags(newConfigBuilder(env), flags).interval \in Int
<1>1. getenvParsed(env.interval, 5) \in Int
  BY DEF InputsOK, Inputs, getenvParsed
<1>2. newConfigBuilder(env).interval \in Int
  BY <1>1, IntervalIsInt DEF newConfigBuilder
<1>3. flags.interval # Nil => flags.interval \in Int
  BY DEF InputsOK, Inputs, FlagsParse
<1>4. "interval" \in DOMAIN newConfigBuilder(env)
  BY DEF newConfigBuilder
<1> QED
  BY <1>2, <1>3, <1>4 DEF bindFlags

\* Pairing certificate and key and refusing the default group leaves unreadable files
\* as the only reason not to make a client.
LEMMA FinalizeMakesUsable ==
  ASSUME NEW c, finalize(c)
  PROVE  NewLazyClient(c) \in Usable \cup {"unreadable"}
BY DEF finalize, NewLazyClient, transportCredentials, Usable

-----------------------------------------------------------------------------
LEMMA Initially == Init => Inv
BY InputsAssumption
   DEF Init, Inv, InputsOK, TypeOK, ChannelOK, SignalOK, OrderOK, ConfiguredOK,
       ExitCodeTruthful, Starting, Ending, Mains

LEMMA StepKeepsInv == Inv /\ [Next]_vars => Inv'
<1> SUFFICES ASSUME Inv, [Next]_vars PROVE Inv'
  OBVIOUS
<1> USE DEF Inv, InputsOK, TypeOK, ChannelOK, SignalOK, OrderOK, ExitCodeTruthful,
            Starting, Ending, Mains, inputs, server, Exit
<1>1. CASE SetupLogging
  BY <1>1 DEF SetupLogging, ConfiguredOK
<1>2. CASE Configure
  <2> DEFINE c == bindFlags(newConfigBuilder(env), flags)
  <2>1. CASE FlagsParse(flags) /\ finalize(c)
    <3>1. cfg' = c /\ main' = "start"
      BY <1>2, <2>1 DEF Configure
    <3>2. cfg'.interval \in Int /\ finalize(cfg')
      BY <2>1, <3>1, BoundIntervalIsInt
    <3> QED
      BY <1>2, <2>1, <3>1, <3>2 DEF Configure, ConfiguredOK
  <2>2. CASE ~(FlagsParse(flags) /\ finalize(c))
    BY <1>2, <2>2 DEF Configure, ConfiguredOK
  <2> QED
    BY <2>1, <2>2
<1>3. CASE StartGateway
  BY <1>3 DEF StartGateway, ConfiguredOK
<1>4. CASE StartLocal
  BY <1>4 DEF StartLocal, Launch, ConfiguredOK
<1>5. CASE StartMapper
  BY <1>5 DEF StartMapper, Launch, ConfiguredOK
<1>6. CASE ServerFails
  BY <1>6 DEF ServerFails, ConfiguredOK
<1>7. CASE ShutdownBegins
  BY <1>7 DEF ShutdownBegins, ConfiguredOK
<1>8. CASE ServerStops
  BY <1>8 DEF ServerStops, ConfiguredOK
<1>9. CASE StartReturns
  BY <1>9 DEF StartReturns, ConfiguredOK
<1>10. CASE SchedulerStops
  BY <1>10 DEF SchedulerStops, ConfiguredOK
<1>11. CASE Listen
  BY <1>11 DEF Listen, Sends, ConfiguredOK
<1>12. CASE ServeReturns
  BY <1>12 DEF ServeReturns, Sends, ConfiguredOK
<1>13. CASE RequestsChange
  BY <1>13 DEF RequestsChange, ConfiguredOK
<1>14. CASE Signal
  BY <1>14 DEF Signal, ConfiguredOK
<1>15. CASE KubeletChanges
  BY <1>15 DEF KubeletChanges, ConfiguredOK
<1>16. CASE UNCHANGED vars
  BY <1>16 DEF vars, ConfiguredOK
<1> QED
  BY <1>1, <1>2, <1>3, <1>4, <1>5, <1>6, <1>7, <1>8, <1>9, <1>10, <1>11, <1>12, <1>13,
     <1>14, <1>15, <1>16 DEF Next, MainStep

THEOREM Invariance == Spec => []Inv
BY Initially, StepKeepsInv, PTL DEF Spec

\* Whatever environment and flags say, a process that serves has a configuration its
\* clients can be made from, with an interval in range (config.go 93-104, options.go 31).
THEOREM ServesUsably == Spec => []ServingIsUsable
<1>1. Inv => ServingIsUsable
  <2> SUFFICES ASSUME Inv, main \in {"serve", "drain", "returned"}
               PROVE  /\ NewLazyClient(cfg) \in Usable \cup {"unreadable"}
                      /\ cfg.interval \in MinIntervalSeconds..MaxIntervalSeconds
    BY DEF ServingIsUsable
  <2>1. cfg.interval \in Int /\ finalize(cfg)
    BY DEF Inv, ConfiguredOK, Ending
  <2>2. cfg.interval >= MinIntervalSeconds /\ cfg.interval <= MaxIntervalSeconds
    BY <2>1, Zenon DEF finalize
  <2>3. cfg.interval \in MinIntervalSeconds..MaxIntervalSeconds
    BY <2>1, <2>2 DEF MinIntervalSeconds, MaxIntervalSeconds
  <2> QED
    BY <2>1, <2>3, FinalizeMakesUsable
<1> QED
  BY <1>1, Invariance, PTL

\* The exit status reports a failed listener whatever else happens, and success only of
\* a process that was told to end (server.go 41-58).
THEOREM ExitsTruthfully == Spec => []ExitCodeTruthful
<1>1. Inv => ExitCodeTruthful
  BY DEF Inv
<1> QED
  BY <1>1, Invariance, PTL
=============================================================================

--------------------------- MODULE DeviceReadings ---------------------------
(***************************************************************************)
(* How the daemon's numbers become the readings of a device: applySample   *)
(* of internal/daemon/client.go for v1 samples, the v0 conversions and     *)
(* legacyState of internal/daemon/legacy.go.  The readings of a device are *)
(* a function from the names of those that are present (non-nil) to their  *)
(* values; a value in a scaled unit is the pair of the number and what it  *)
(* is divided by.                                                          *)
(***************************************************************************)
EXTENDS SmdApi

CONSTANTS
  Gib,      \* bytes per GiB; 2^30 in the code
  Modulus   \* one more than the largest uint64; 2^64 in the code

ASSUME GibAssumption == Gib \in Nat \ {0} /\ Modulus \in Nat \ {0}
ASSUME NumbersAssumption == NonNumbers \cap Int = {}
ASSUME NilIsNoReading == Nil \notin Int \X Nat

Milli == 1000
Micro == 1000000
FullLoad == 100000   \* 100 % in thousandths of a percent

NoReadings == [r \in {} |-> 0]

Put(readings, name, value) ==
  [r \in DOMAIN readings \cup {name} |-> IF r = name THEN value ELSE readings[r]]

Scaled(v, unit) == <<v, unit>>

-----------------------------------------------------------------------------
\* The unit a metric is reported in.
Unit(metric) ==
  CASE metric \in {"temperature", "utilization"} -> Milli
    [] metric = "power" -> Micro
    [] OTHER -> 1

\* The float and int samples applySample turns into a reading of this function.
UsableFloat(d, s) ==
  /\ s.value \notin NonNumbers
  /\ \/ s.metric = "temperature" /\ ~d.isVF
     \/ s.metric = "power" /\ ~d.isVF /\ s.value >= 0
     \/ s.metric = "utilization" /\ d.compute /\ s.value >= 0 /\ s.value <= FullLoad

UsableInt(d, s) ==
  /\ s.value >= 0
  /\ \/ s.metric = "memory_used" /\ d.compute
     \/ s.metric = "power_state"

\* Mutation of applySample: an unusable sample takes the reading away.
applySampleClearing(d, readings, s) ==
  IF (s.type = "float" /\ UsableFloat(d, s)) \/ (s.type = "int" /\ UsableInt(d, s))
  THEN Put(readings, s.metric, Scaled(s.value, Unit(s.metric)))
  ELSE [r \in DOMAIN readings \ {s.metric} |-> readings[r]]

\* applySample: a sample of the wrong type, out of range, or of a quantity this kind
\* of function does not have changes nothing.
applySample(d, readings, s) ==
  IF (s.type = "float" /\ UsableFloat(d, s)) \/ (s.type = "int" /\ UsableInt(d, s))
  THEN Put(readings, s.metric, Scaled(s.value, Unit(s.metric)))
  ELSE readings

\* The samples of device d among samples, applied in the order of the response.
ApplySamples(d, readings, samples) ==
  LET after[n \in 0..Len(samples)] ==
        IF n = 0 THEN readings
        ELSE IF samples[n].device = d.name THEN applySample(d, after[n - 1], samples[n])
        ELSE after[n - 1]
  IN after[Len(samples)]

-----------------------------------------------------------------------------
legacyState(s) ==
  CASE s = "READY" -> "ready" [] s = "BUSY" -> "busy" [] s = "INIT" -> "init"
    [] s = "FAULT" -> "fault" [] s = "FINISH" -> "finish" [] OTHER -> "unspecified"

\* legacyReading: Nil for what is not a number, and for a negative amount.
legacyReading(v, unit, nonnegative) ==
  IF v \in NonNumbers THEN Nil
  ELSE IF nonnegative /\ v < 0 THEN Nil ELSE Scaled(v, unit)

\* Mutation of legacyBytes: the amount is converted without the bound.
legacyBytesUnbounded(gib) ==
  IF gib \in NonNumbers THEN Nil
  ELSE IF gib < 0 THEN Nil ELSE Scaled((gib * Gib) % Modulus, 1)

\* legacyBytes: what does not fit a uint64 has no reading.
legacyBytes(gib) ==
  IF gib \in NonNumbers THEN Nil
  ELSE IF gib < 0 \/ gib * Gib >= Modulus THEN Nil ELSE Scaled(gib * Gib, 1)

\* The conversion of each v0 scalar; Nil for what this kind of function lacks.
legacyScalar(d, name, v) ==
  CASE name = "temperature" -> IF d.isVF THEN Nil ELSE legacyReading(v, Milli, FALSE)
    [] name = "power" -> IF d.isVF THEN Nil ELSE legacyReading(v, Micro, TRUE)
    [] name = "utilization" -> IF d.compute THEN legacyReading(v, 1, TRUE) ELSE Nil
    [] name \in {"memory_total", "memory_used"} -> IF d.compute THEN legacyBytes(v) ELSE Nil
    [] name = "power_state" -> legacyReading(v, 1, TRUE)

\* The readings of a v0 DeviceInfo whose err_status is SUCCEED.
legacyReadings(d, x) ==
  LET all == [r \in LegacyScalars |-> legacyScalar(d, r, x[r])]
  IN [r \in {n \in LegacyScalars : all[n] # Nil} |-> all[r]]

\* parseLinkSpeed, parseLinkWidth and partition role: a VF has no link of its own.
linkReadings(d, readings, entry) ==
  IF d.isVF \/ entry = Nil THEN readings
  ELSE LET speed == IF entry.speed = Nil THEN readings
                    ELSE Put(readings, "link_speed", Scaled(entry.speed, 1))
       IN IF entry.width = Nil THEN speed
          ELSE Put(speed, "link_width", Scaled(entry.width, 1))
=============================================================================

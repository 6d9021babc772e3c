------------------------------- MODULE Scrape -------------------------------
(***************************************************************************)
(* A scrape of /metrics against the running exporter.  promhttp gathers    *)
(* the registered collectors concurrently and without any lock common to   *)
(* them, so a scrape reads the vectors of each Metric, and rbln_up, at     *)
(* moments of their own.  Within one vector the series are listed under    *)
(* the vector's lock and their values read afterwards; a value written in  *)
(* between is the one the vector has a step later, so that reading a       *)
(* Metric in one step at any moment of the scrape gives every outcome.     *)
(* Scrapes do not write, so one scrape at a time stands for any number.    *)
(***************************************************************************)
EXTENDS LocalExporter

VARIABLES
  scraping,  \* a scrape is being gathered
  seen,      \* what it has read, by Metric
  seenUp,    \* the value of rbln_up it has read, or 2
  window     \* history: the inventories in force since it began

scrapeVars == <<scraping, seen, seenUp, window>>
allVars == <<vars, scrapeVars>>

NothingSeen == [i \in {} |-> NoSeries]

ScrapeInit == Init /\ scraping = FALSE /\ seen = NothingSeen /\ seenUp = 2 /\ window = {}

ScrapeBegins ==
  /\ ~scraping
  /\ scraping' = TRUE
  /\ seen' = NothingSeen
  /\ seenUp' = 2
  /\ window' = {published, devices}
  /\ UNCHANGED vars

\* Gather reads the vectors of one Metric.
ReadMetric(i) ==
  /\ scraping
  /\ i \notin DOMAIN seen
  /\ seen' = [j \in DOMAIN seen \cup {i} |-> IF j \in DOMAIN seen THEN seen[j] ELSE registry[j]]
  /\ UNCHANGED <<scraping, seenUp, window>>
  /\ UNCHANGED vars

ReadUp ==
  /\ scraping
  /\ seenUp = 2
  /\ seenUp' = up
  /\ UNCHANGED <<scraping, seen, window>>
  /\ UNCHANGED vars

\* The response is written once everything is gathered.
ScrapeEnds ==
  /\ scraping
  /\ DOMAIN seen = MetricIndex /\ seenUp # 2
  /\ scraping' = FALSE
  /\ seen' = NothingSeen /\ seenUp' = 2 /\ window' = {}
  /\ UNCHANGED vars

ScrapeStep == ScrapeBegins \/ (\E i \in MetricIndex : ReadMetric(i)) \/ ReadUp \/ ScrapeEnds

\* The exporter runs on while a scrape is gathered.
ExporterStep ==
  /\ Next
  /\ window' = IF scraping THEN window \cup {published', devices'} ELSE window
  /\ UNCHANGED <<scraping, seen, seenUp>>

ScrapeNext == ExporterStep \/ ScrapeStep

ScrapeSpec == ScrapeInit /\ [][ScrapeNext]_allVars

-----------------------------------------------------------------------------
\* A scrape never revives anything: each series it returns is one that a cycle not
\* older than the last one completed before the scrape began has collected, and its
\* value is the one collected there, or the 0 of a series being created; in particular
\* a series at 1 is never a false alarm (npu_collector.go 52-69).
ScrapeNotStale ==
  \A i \in DOMAIN seen : \A k \in DOMAIN seen[i] :
    \E v \in window, r \in Responses \cup {NoResponse} :
      LET e == Exposition(Metrics[i], v, SnapshotFor(r, v))
      IN k \in DOMAIN e /\ seen[i][k] \in {0, e[k]}

\* health_metrics.go 21 and README.md 282: rbln_npu_health is 0 when READY.  A device
\* that some response reports healthy was ready in an inventory in force during it.
HealthZeroMeansReady ==
  \A i \in DOMAIN seen : \A k \in DOMAIN seen[i] :
    k.slot = <<"health">> /\ seen[i][k] = 0
    => \E v \in window : k.device \in DOMAIN v /\ v[k.device].state = "ready"
=============================================================================

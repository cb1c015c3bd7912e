----------------------------- MODULE KeyFigures -----------------------------
(***************************************************************************)
(* From a confirmed alert to the figures of the screens: on_alert_confirmed*)
(* of app.py rates, stores and announces it, the queries of sqlite_db.py   *)
(* count the rows, and the performance screen (analytics_screen.py) shows  *)
(* them.  All this is the main thread; the REST interface acknowledges     *)
(* alerts and changes settings between any two of its transactions.        *)
(* Time is a number of units: HourLength of them an hour, DayLength a day. *)
(* Minutes, the groups of the query for mixed alerts, are one unit.        *)
(***************************************************************************)
EXTENDS Severity, FiniteSetsExt

CONSTANTS
  Cam,                    \* cameras (with their rows in table cameras)
  Packets,                \* the lists of detections an alert may come with
  SettingValues,          \* the values each threshold may be set to
  Times,                  \* bound: the times at which anything happens
  HourLength, DayLength,
  Periods,                \* the periods offered, in days
  RecentMax,              \* rows read for the panel (10)
  PanelMax,               \* rows shown in it (6)
  AlertMax                \* bound on alerts

ASSUME PacketsAssumption == Packets \subseteq Seq(Detection)

ASSUME SettingsAssumption == \A k \in DOMAIN Defaults :
  SettingValues[k] \subseteq Setting

ASSUME CamAssumption == IsFiniteSet(Cam)

ASSUME TimeAssumption ==
  /\ Times \subseteq Nat /\ Periods \subseteq Nat
  /\ {HourLength, DayLength} \subseteq Nat \ {0} /\ DayLength % HourLength = 0

VARIABLES
  now,
  config,   \* the thresholds in table system_config
  rows,     \* table alerts: a function on the ids present
  nextId,
  task,     \* what the main thread is in the middle of
  panel     \* the incident panel: its unacknowledged count and its rows

figVars == <<now, config, rows, nextId, task, panel>>

Idle == [op |-> "idle"]

Row == [cam : Cam, at : Times, seen : BOOLEAN, threat : Threat,
        label : Label \cup {"FIRE + SMOKE"}]

FigTypeOK ==
  /\ now \in Times /\ config \in Settings
  /\ rows \in [DOMAIN rows -> Row] /\ DOMAIN rows \subseteq 1 .. nextId - 1
  /\ nextId \in Nat \ {0}
  /\ task.op \in {"idle", "judged", "stored", "announced", "refresh"}
  /\ task.op \in {"judged", "stored", "announced"} => task.dets \in Packets
  /\ task.op \in {"judged", "stored"} => task.with \in Settings
  /\ task.op = "judged" =>
       /\ task.cam \in Cam
       /\ task.dets # <<>> => task.worst \in DOMAIN task.dets
  /\ task.op \in {"stored", "announced"} =>
       task.id \in DOMAIN rows /\ task.steady \in BOOLEAN
  /\ task.op = "announced" => task.threat \in Threat

FigInit ==
  /\ now \in Times
  /\ config = Defaults
  /\ rows = <<>> /\ nextId = 1
  /\ task = Idle
  /\ panel = [unacked |-> 0, list |-> <<>>]

-----------------------------------------------------------------------------
(* The queries.                                                            *)

Floor(t, unit) == t - (t % unit)
Since(start) == {a \in DOMAIN rows : rows[a].at >= start}
InPeriod(days) == Since(now - days * DayLength)

Chart(unit, days, buckets) ==
  LET since == Floor(now - days * DayLength, unit) IN
  [b \in {since + i * unit : i \in buckets} |->
     Cardinality({a \in Since(since) : Floor(rows[a].at, unit) = b})]

\* Bug: as many buckets as hours in the period, the current one left out.
HourlyChartClosed(days) ==
  Chart(HourLength, days, 0 .. days * (DayLength \div HourLength) - 1)

GetHourlyChart(days) ==
  Chart(HourLength, days, 0 .. days * (DayLength \div HourLength))
GetDailyChart(days) == Chart(DayLength, days, 0 .. days)

\* _draw_trend_chart
TrendChart(days) == IF days <= 1 THEN GetHourlyChart(days) ELSE GetDailyChart(days)

\* period_alerts of get_camera_alert_stats, which the rankings show.
PeriodAlerts(c, days) == Cardinality({a \in InPeriod(days) : rows[a].cam = c})

LabelCount(label, days) == Cardinality({a \in InPeriod(days) : rows[a].label = label})

\* The groups of alerts of one camera within one minute, and those of them
\* with several labels.
Minutes(days) == {{a \in InPeriod(days) : rows[a].cam = c /\ rows[a].at = t} :
                    c \in Cam, t \in Times}
MixedMinutes(days) ==
  {g \in Minutes(days) : Cardinality({rows[a].label : a \in g}) > 1}

\* Bug: only the mixed minutes are counted, as before there was the label.
MixedMinutesCounts(days) == {Cardinality(MixedMinutes(days))}

\* COMBINED of get_threat_distribution: the ids labelled so, and of each mixed
\* minute one id, which SQLite chooses.  Hence a set of possible counts.
CombinedCounts(days) ==
  LET labelled == {a \in InPeriod(days) : rows[a].label = "FIRE + SMOKE"}
      mixed    == MixedMinutes(days)
  IN {Cardinality(labelled \cup {one[g] : g \in mixed}) :
        one \in {f \in [mixed -> InPeriod(days)] : \A g \in mixed : f[g] \in g}}

Unacknowledged == {a \in DOMAIN rows : ~rows[a].seen}

\* get_alerts(limit = RecentMax, acknowledged = False), newest first; the
\* panel takes the first PanelMax.
Recent ==
  LET rank(a) == Cardinality({b \in Unacknowledged : b >= a})
      shown   == {a \in Unacknowledged : rank(a) <= RecentMax /\ rank(a) <= PanelMax}
  IN [i \in 1 .. Cardinality(shown) |-> CHOOSE a \in shown : rank(a) = i]

-----------------------------------------------------------------------------
(* on_alert_confirmed, in the main thread.                                 *)

\* The index of best_det in process_alert and in on_alert_confirmed; 0 for an
\* empty list.
Worst(dets) == IF dets = <<>> THEN {0} ELSE {i \in DOMAIN dets : IsWorst(config, dets, i)}
Surest(dets) == IF dets = <<>> THEN {0} ELSE {i \in DOMAIN dets : IsSurest(dets, i)}

\* process_alert looks for the worst detection.  "with" remembers the
\* settings it was found under.
JudgeAlert ==
  /\ task = Idle /\ nextId <= AlertMax
  /\ \E c \in Cam, dets \in Packets :
       \E i \in Worst(dets) :
         task' = [op |-> "judged", cam |-> c, dets |-> dets, worst |-> i,
                  with |-> config]
  /\ UNCHANGED <<now, config, rows, nextId, panel>>

\* Without detections the alert is fire, and critical.
NewRow(s) ==
  LET none == task.dets = <<>> IN
  [cam |-> task.cam, at |-> now, seen |-> FALSE,
   label  |-> IF none THEN "fire" ELSE StoredLabel(task.dets, task.worst),
   threat |-> IF none THEN "CRITICAL"
              ELSE StoredThreat(config, task.dets, task.worst, s)]

\* The settings are read again for the level that is stored ...
StoreAlert ==
  /\ task.op = "judged"
  /\ \E s \in Surest(task.dets) :
       rows' = [a \in DOMAIN rows \cup {nextId} |->
                  IF a = nextId THEN NewRow(s) ELSE rows[a]]
  /\ nextId' = nextId + 1
  /\ task' = [op |-> "stored", id |-> nextId, dets |-> task.dets,
              with |-> task.with, steady |-> config = task.with]
  /\ UNCHANGED <<now, config, panel>>

\* Bug: the level announced is the one of a fire.
AnnouncedAsFire(s) ==
  IF s = 0 THEN ConfidenceToThreat(config, "fire", 0)
  ELSE ConfidenceToThreat(config, "fire", task.dets[s].conf)

\* ... and for the level of the ticker, the status bar and the beep, which is
\* that of the most confident detection.  Without detections: fire, 0.
AnnouncedThreat(s) ==
  IF s = 0 THEN ConfidenceToThreat(config, "fire", 0)
  ELSE ThreatOf(config, task.dets[s])

AnnounceAlert ==
  /\ task.op = "stored"
  /\ \E s \in Surest(task.dets) :
       task' = [op |-> "announced", id |-> task.id, dets |-> task.dets,
                threat |-> AnnouncedThreat(s),
                steady |-> task.steady /\ config = task.with]
  /\ UNCHANGED <<now, config, rows, nextId, panel>>

\* Bug: the rows are read before the count.
RefreshRowsFirst ==
  /\ \/ /\ task.op \in {"idle", "announced"}
        /\ task' = [op |-> "refresh", list |-> Recent]
        /\ UNCHANGED panel
     \/ /\ task.op = "refresh"
        /\ panel' = [unacked |-> Cardinality(Unacknowledged), list |-> task.list]
        /\ task' = Idle
  /\ UNCHANGED <<now, config, rows, nextId>>

\* _refresh_all, for a new alert, by its timer or its button: get_stats, then
\* the rows of the panel.
RefreshAnalytics ==
  /\ \/ /\ task.op \in {"idle", "announced"}
        /\ task' = [op |-> "refresh", unacked |-> Cardinality(Unacknowledged)]
        /\ UNCHANGED panel
     \/ /\ task.op = "refresh"
        /\ panel' = [unacked |-> task.unacked, list |-> Recent]
        /\ task' = Idle
  /\ UNCHANGED <<now, config, rows, nextId>>

Keep(ids) == rows' = [a \in DOMAIN rows \cap ids |-> rows[a]]

\* The alert log's DEL, the hourly retention and the wipe remove rows.
DeleteAlert ==
  /\ task = Idle
  /\ \E a \in DOMAIN rows : Keep(DOMAIN rows \ {a})
  /\ UNCHANGED <<now, config, nextId, task, panel>>

\* An acknowledgement, from the alert log or over REST.
AcknowledgeAlert ==
  /\ \E a \in Unacknowledged : rows' = [rows EXCEPT ![a].seen = TRUE]
  /\ UNCHANGED <<now, config, nextId, task, panel>>

\* POST /api/settings; the settings screen saves all keys, one by one.
SetConfig ==
  /\ \E k \in DOMAIN config : \E v \in SettingValues[k] \ {config[k]} :
       config' = [config EXCEPT ![k] = v]
  /\ UNCHANGED <<now, rows, nextId, task, panel>>

TimePasses ==
  /\ \E t \in Times : t > now /\ now' = t
  /\ UNCHANGED <<config, rows, nextId, task, panel>>

FigNext ==
  \/ JudgeAlert \/ StoreAlert \/ AnnounceAlert \/ RefreshAnalytics
  \/ DeleteAlert \/ AcknowledgeAlert \/ SetConfig \/ TimePasses

FigSpec == FigInit /\ [][FigNext]_figVars

-----------------------------------------------------------------------------
(* Properties.                                                             *)

\* The level kept with an alert is at least that of each of its detections,
\* unless the settings changed meanwhile: no rule for combined alerts and no
\* order of the detections makes a critical alert a lesser one.
StoredIsWorst ==
  task.op = "stored" /\ task.steady =>
    \A i \in DOMAIN task.dets :
      Priority[rows[task.id].threat] <= PriorityOf(task.with, task.dets[i])

OneKind(dets) == Cardinality({dets[i].label : i \in DOMAIN dets}) = 1

\* The level announced is rated anew, from the surest detection, where the
\* row has the worst.  When all detections are of one kind the two agree:
\* what sounds, ticks and lights up is the level of the row.  Of fire with a
\* surer smoke, and without detections, a critical row is announced as less
\* (README.md).
AnnouncedAsStored ==
  task.op = "announced" /\ task.steady /\ OneKind(task.dets) =>
    task.threat = rows[task.id].threat

Total(counts) == MapThenSumSet(LAMBDA x : counts[x], DOMAIN counts)

\* Whatever the hour, the trend shows all the alerts the rankings of the same
\* period count; its first point may add older ones.
TrendCoversRankings ==
  \A days \in Periods :
    LET bars   == TrendChart(days)
        ranked == [c \in Cam |-> PeriodAlerts(c, days)]
    IN Total(bars) >= Total(ranked)

\* The three bars FIRE, SMOKE and FIRE + SMOKE leave no alert of the period
\* out, and count one twice at most once per mixed minute.
EveryAlertHasBar ==
  \A days \in Periods : \A n \in CombinedCounts(days) :
    LET sum == LabelCount("fire", days) + LabelCount("smoke", days) + n
        all == Cardinality(InPeriod(days))
    IN sum \in all .. all + Cardinality(MixedMinutes(days))

\* The panel does not list more incidents than its own chip counts, whatever
\* is acknowledged over REST between its queries.
PanelWithinCount == Len(panel.list) <= panel.unacked
=============================================================================

------------------------------ MODULE Severity ------------------------------
(***************************************************************************)
(* How serious an alert is: the threat level of a detection, the detection *)
(* that stands for the alert, and the level, label and confidence stored   *)
(* for it (server/services/alert_service.py) or announced (app.py).  A     *)
(* confidence is a percentage.                                             *)
(***************************************************************************)
EXTENDS Integers, Sequences

CONSTANT NotANumber  \* a setting float() rejects

ASSUME NotANumberAssumption == NotANumber \notin Int

Label == {"fire", "smoke"}  \* lower case, detector.py sends no other
Detection == [label : Label, conf : 0 .. 100]
Threat == {"CRITICAL", "HIGH", "MEDIUM", "LOW"}

\* threat_to_priority: the lower, the more severe.
Priority == [CRITICAL |-> 0, HIGH |-> 1, MEDIUM |-> 2, LOW |-> 4]

\* The three thresholds; those of fire are settings, as they stand in table
\* system_config.  If one of them is no number, none of them counts.
Thresholds == [critical : Int, high : Int, medium : Int]
Setting == Int \cup {NotANumber}
Settings == [critical : Setting, high : Setting, medium : Setting]

Smoke == [critical |-> 85, high |-> 70, medium |-> 60]
Defaults == [critical |-> 80, high |-> 60, medium |-> 40]

Fire(config) ==
  IF NotANumber \in {config.critical, config.high, config.medium}
  THEN Defaults ELSE config

LevelOf(levels, conf) ==
  IF conf >= levels.critical THEN "CRITICAL"
  ELSE IF conf >= levels.high THEN "HIGH"
  ELSE IF conf >= levels.medium THEN "MEDIUM" ELSE "LOW"

ConfidenceToThreat(config, label, conf) ==
  LevelOf(IF label = "smoke" THEN Smoke ELSE Fire(config), conf)

ThreatOf(config, d) == ConfidenceToThreat(config, d.label, d.conf)
PriorityOf(config, d) == Priority[ThreatOf(config, d)]

-----------------------------------------------------------------------------
(* The detection that stands for the alert: Python's min and max take the  *)
(* first of equals.                                                        *)

\* best_det of on_alert_confirmed.
IsSurest(dets, i) ==
  /\ \A j \in DOMAIN dets : dets[i].conf >= dets[j].conf
  /\ \A j \in 1 .. i - 1 : dets[i].conf > dets[j].conf

\* Bug: process_alert takes the most confident detection too.
IsSurestInstead(config, dets, i) == IsSurest(dets, i)

\* best_det of process_alert, for the index i of a non-empty list.
IsWorst(config, dets, i) ==
  /\ \A j \in DOMAIN dets : PriorityOf(config, dets[i]) <= PriorityOf(config, dets[j])
  /\ \A j \in 1 .. i - 1 : PriorityOf(config, dets[i]) < PriorityOf(config, dets[j])

IsCombined(dets) == \A label \in Label : \E i \in DOMAIN dets : dets[i].label = label

\* The level process_alert stores, for the worst detection i and the most
\* confident one s: a combined alert is rated by the label of i and the
\* confidence of s.
StoredThreat(config, dets, i, s) ==
  ConfidenceToThreat(config, dets[i].label,
                     IF IsCombined(dets) THEN dets[s].conf ELSE dets[i].conf)

StoredLabel(dets, i) == IF IsCombined(dets) THEN "FIRE + SMOKE" ELSE dets[i].label
=============================================================================

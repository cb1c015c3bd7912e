--------------------------- MODULE DesktopProofs ----------------------------
(* The main window.  First its navigation, for histories of every length:  *)
(* the history, the highlighted buttons, the Forward button that is never  *)
(* enabled.  Then the levels of alerts, for every list of detections and   *)
(* every setting of the thresholds, and the two together.  Last, what the  *)
(* performance screen counts and sums, for any alerts, cameras and times.  *)
EXTENDS Desktop, FiniteSetTheorems, WellFoundedInduction, TLAPS

HistoryInv == HistoryFollowsPage /\ NothingAhead

\* _push_history at an existing entry: whatever the case, the history ends
\* with the screen pushed, lists no screen twice in a row and has nothing
\* ahead.
LEMMA Push ==
  ASSUME TypeOK, HistoryFollowsPage,
         NEW p \in 0 .. pos, NEW i \in Screen, PushHistory(p, i)
  PROVE  /\ history' \in Seq(Screen) /\ Len(history') \in 1 .. HistoryMax
         /\ pos' = Len(history') - 1
         /\ history'[pos' + 1] = i
         /\ \A k \in 1 .. Len(history') - 1 : history'[k] # history'[k + 1]
<1> DEFINE kept == SubSeq(history, 1, p + 1)
<1>1. /\ history \in Seq(Screen) /\ Len(history) \in 1 .. HistoryMax
      /\ p \in Int /\ 0 <= p /\ p + 1 <= Len(history)
      /\ HistoryMax \in Nat
  BY HistoryMaxAssumption DEF TypeOK
<1>2. /\ kept \in Seq(Screen) /\ Len(kept) = p + 1
      /\ \A k \in 1 .. p + 1 : kept[k] = history[k]
  BY <1>1
<1>3. \A k \in 1 .. p : kept[k] # kept[k + 1]
  BY <1>1, <1>2 DEF HistoryFollowsPage
<1>4. CASE kept[p + 1] = i
  <2>1. history' = kept /\ pos' = p
    BY <1>4 DEF PushHistory
  <2> QED  BY <1>1, <1>2, <1>3, <1>4, <2>1
<1>5. CASE kept[p + 1] # i
  <2>1. history' = Append(kept, i) /\ pos' = Len(kept) /\ Len(kept) < HistoryMax
    BY <1>5 DEF PushHistory
  <2>2. /\ history' \in Seq(Screen) /\ Len(history') = p + 2
        /\ history'[p + 2] = i
        /\ \A k \in 1 .. p + 1 : history'[k] = kept[k]
    BY <1>1, <1>2, <2>1
  <2>3. pos' = p + 1 /\ p + 2 <= HistoryMax
    BY <1>1, <1>2, <2>1
  <2>4. \A k \in 1 .. p + 1 : history'[k] # history'[k + 1]
    <3>1. SUFFICES ASSUME NEW k \in 1 .. p + 1 PROVE history'[k] # history'[k + 1]
      OBVIOUS
    <3>2. CASE k = p + 1
      BY <1>1, <1>5, <2>2, <3>2
    <3>3. CASE k # p + 1
      BY <1>1, <1>3, <2>2, <3>3
    <3> QED  BY <3>2, <3>3
  <2> QED  BY <1>1, <2>2, <2>3, <2>4
<1> QED  BY <1>4, <1>5

\* Every action shows screen i and pushes it at p, an entry of the history.
LEMMA Visits ==
  ASSUME TypeOK, Next
  PROVE  \E p \in 0 .. pos, i \in Screen :
           /\ PushHistory(p, i) /\ page' = i
           /\ active' \in SUBSET (Screen \cup {Gear}) /\ subNav' \in BOOLEAN
<1> USE DEF Screen, Tabs, SubTabs
<1>1. pos \in 0 .. pos /\ pos \in Nat
  BY DEF TypeOK
<1>2. CASE NavMain
  BY <1>1, <1>2 DEF NavMain
<1>3. CASE NavSettings
  BY <1>1, <1>3 DEF NavSettings
<1>4. CASE NavSub
  BY <1>1, <1>4 DEF NavSub, TypeOK
<1>5. CASE Configure
  BY <1>1, <1>5 DEF Configure, JumpToIndex
<1>6. CASE ShowIncident
  BY <1>1, <1>6 DEF ShowIncident, JumpToIndex
<1>7. CASE NavBack
  <2>1. pos - 1 \in 0 .. pos /\ history[pos] \in Screen
    BY <1>1, <1>7 DEF NavBack, TypeOK
  <2> QED  BY <1>7, <2>1 DEF NavBack, JumpToIndex
<1> QED  BY <1>2, <1>3, <1>4, <1>5, <1>6, <1>7 DEF Next

\* The history stays well formed and at its end.
LEMMA HistoryStep ==
  TypeOK /\ HistoryInv /\ [Next]_vars => TypeOK' /\ HistoryInv'
<1> SUFFICES ASSUME TypeOK, HistoryInv, [Next]_vars PROVE TypeOK' /\ HistoryInv'
  OBVIOUS
<1>1. CASE Next
  <2>1. PICK p \in 0 .. pos, i \in Screen :
          /\ PushHistory(p, i) /\ page' = i
          /\ active' \in SUBSET (Screen \cup {Gear}) /\ subNav' \in BOOLEAN
    BY <1>1, Visits
  <2>2. /\ history' \in Seq(Screen) /\ Len(history') \in 1 .. HistoryMax
        /\ pos' = Len(history') - 1
        /\ history'[pos' + 1] = i
        /\ \A k \in 1 .. Len(history') - 1 : history'[k] # history'[k + 1]
    BY <2>1, Push DEF HistoryInv
  <2>3. TypeOK'
    BY <2>1, <2>2 DEF TypeOK
  <2>4. HistoryFollowsPage'
    BY <2>1, <2>2 DEF HistoryFollowsPage
  <2>5. NothingAhead'
    BY <2>2 DEF NothingAhead, ForwardEnabled
  <2> QED  BY <2>3, <2>4, <2>5 DEF HistoryInv
<1>2. CASE UNCHANGED vars
  BY <1>2 DEF vars, TypeOK, HistoryInv, HistoryFollowsPage, NothingAhead,
              ForwardEnabled
<1> QED  BY <1>1, <1>2

LEMMA HistoryInit == Init => TypeOK /\ HistoryInv
<1> SUFFICES ASSUME Init PROVE TypeOK /\ HistoryInv
  OBVIOUS
<1>1. history \in Seq(Screen) /\ Len(history) = 1 /\ history[1] = 0
  BY DEF Init, Screen, Tabs
<1>2. TypeOK
  <2>1. subNav \in BOOLEAN
    BY Zenon DEF Init
  <2>2. /\ page \in Screen /\ pos \in 0 .. Len(history) - 1
        /\ Len(history) \in 1 .. HistoryMax
        /\ active \subseteq Screen \cup {Gear}
    BY <1>1, HistoryMaxAssumption DEF Init, Screen, Tabs
  <2> QED  BY <1>1, <2>1, <2>2 DEF TypeOK
<1> QED
  BY <1>1, <1>2 DEF Init, HistoryInv, HistoryFollowsPage, NothingAhead,
                    ForwardEnabled

\* Navigation keeps its types, whatever the length of the history.
THEOREM NavigationTyped == Spec => []TypeOK
<1> QED  BY HistoryInit, HistoryStep, PTL DEF Spec

\* The history names the screen shown and lists none twice in a row.
THEOREM HistoryHolds == Spec => []HistoryFollowsPage
<1>1. HistoryInv => HistoryFollowsPage
  BY DEF HistoryInv
<1> QED  BY <1>1, HistoryInit, HistoryStep, PTL DEF Spec

\* Back leads to the screen the last visit left, in a history of any length.
THEOREM VisitsUndone == Spec => VisitCanBeUndone
<1>1. TypeOK /\ HistoryInv /\ [Next]_vars
        => [page' # page /\ ~NavBack => pos' > 0 /\ history'[pos'] = page]_vars
  <2> SUFFICES ASSUME TypeOK, HistoryInv, Next, ~NavBack, page' # page
               PROVE  pos' > 0 /\ history'[pos'] = page
    OBVIOUS
  <2>1. PICK i \in Screen : PushHistory(pos, i) /\ page' = i
    <3> USE DEF Screen, Tabs, SubTabs
    <3>1. CASE NavMain
      BY <3>1 DEF NavMain
    <3>2. CASE NavSettings
      BY <3>2 DEF NavSettings
    <3>3. CASE NavSub
      BY <3>3 DEF NavSub
    <3>4. CASE Configure
      BY <3>4 DEF Configure, JumpToIndex
    <3>5. CASE ShowIncident
      BY <3>5 DEF ShowIncident, JumpToIndex
    <3> QED  BY <3>1, <3>2, <3>3, <3>4, <3>5 DEF Next
  <2> DEFINE kept == SubSeq(history, 1, pos + 1)
  <2>2. /\ history \in Seq(Screen) /\ pos \in Nat /\ pos + 1 <= Len(history)
        /\ history[pos + 1] = page
    BY DEF TypeOK, HistoryInv, HistoryFollowsPage
  <2>3. kept \in Seq(Screen) /\ Len(kept) = pos + 1 /\ kept[pos + 1] = page
    BY <2>2
  <2>4. history' = Append(kept, page') /\ pos' = pos + 1
    BY <2>1, <2>3 DEF PushHistory
  <2> QED  BY <2>2, <2>3, <2>4
<1> QED  BY <1>1, HistoryInit, HistoryStep, PTL DEF Spec, VisitCanBeUndone

\* _nav_forward never has an entry to go to: the button stays disabled in
\* every behaviour, of any length.
THEOREM ForwardNeverEnabled == Spec => []NothingAhead
<1>1. HistoryInv => NothingAhead
  BY DEF HistoryInv
<1> QED  BY <1>1, HistoryInit, HistoryStep, PTL DEF Spec

\* _jump_to_index highlights what belongs to the screen it shows.
LEMMA JumpHighlights ==
  ASSUME NEW p, NEW i \in Screen, JumpToIndex(p, i)
  PROVE  HighlightFollowsPage'
<1>1. subNav' = (i \in SubTabs)
  BY Zenon DEF JumpToIndex
<1>2. subNav' <=> i \in SubTabs
  BY <1>1, Zenon
<1>3. /\ page' = i
      /\ active' = IF i \in SubTabs THEN {Gear} ELSE {i}
  BY Zenon DEF JumpToIndex
<1> QED
  BY <1>2, <1>3 DEF HighlightFollowsPage, Screen, Tabs, SubTabs, Gear

\* The highlighted buttons belong to the screen shown.
THEOREM HighlightHolds == Spec => []HighlightFollowsPage
<1> USE DEF HighlightFollowsPage, Tabs, SubTabs, Gear
<1>1. Init => HighlightFollowsPage
  BY DEF Init
<1>2. TypeOK /\ HighlightFollowsPage /\ [Next]_vars => HighlightFollowsPage'
  <2> SUFFICES ASSUME TypeOK, HighlightFollowsPage, [Next]_vars
               PROVE HighlightFollowsPage'
    OBVIOUS
  <2>1. CASE NavMain
    BY <2>1 DEF NavMain
  <2>2. CASE NavSettings
    BY <2>2 DEF NavSettings
  <2>3. CASE NavSub
    BY <2>3 DEF NavSub, TypeOK, Screen
  <2>4. CASE Configure
    BY <2>4, JumpHighlights DEF Configure, Screen
  <2>5. CASE ShowIncident
    BY <2>5, JumpHighlights DEF ShowIncident, Screen
  <2>6. CASE NavBack
    <3>1. history[pos] \in Screen
      BY <2>6 DEF NavBack, TypeOK
    <3> QED  BY <2>6, <3>1, JumpHighlights DEF NavBack
  <2>7. CASE UNCHANGED vars
    BY <2>7 DEF vars
  <2> QED  BY <2>1, <2>2, <2>3, <2>4, <2>5, <2>6, <2>7 DEF Next
<1> QED  BY <1>1, <1>2, NavigationTyped, PTL DEF Spec

-----------------------------------------------------------------------------
(* Levels.                                                                 *)

\* More confidence in a detection never makes it less severe, whatever the
\* thresholds are, even when they are not in descending order.
LEMMA LevelMonotone ==
  ASSUME NEW levels \in Thresholds, NEW c \in Int, NEW d \in Int, c <= d
  PROVE  Priority[LevelOf(levels, d)] <= Priority[LevelOf(levels, c)]
  BY DEF LevelOf, Thresholds, Priority

\* Whatever is in the settings, fire is rated by three numbers.
LEMMA FireIsThresholds ==
  ASSUME NEW cfg \in Settings PROVE Fire(cfg) \in Thresholds
  BY DEF Fire, Defaults, Thresholds, Settings, Setting

\* The same for a label and the settings.
LEMMA SurerIsWorse ==
  ASSUME NEW cfg \in Settings, NEW label, NEW c \in Int, NEW d \in Int, c <= d
  PROVE  Priority[ConfidenceToThreat(cfg, label, d)]
           <= Priority[ConfidenceToThreat(cfg, label, c)]
<1>1. Smoke \in Thresholds /\ Fire(cfg) \in Thresholds
  BY FireIsThresholds DEF Smoke, Thresholds
<1> QED  BY <1>1, LevelMonotone DEF ConfidenceToThreat

\* Two levels of the same severity are one level.
LEMMA LevelsApart ==
  ASSUME NEW x \in Threat, NEW y \in Threat,
         Priority[x] <= Priority[y], Priority[y] <= Priority[x]
  PROVE  x = y
  BY DEF Threat, Priority

\* Detections with one label are not both fire and smoke.
LEMMA OneKindAlike ==
  ASSUME NEW dets \in Seq(Detection), OneKind(dets),
         NEW i \in DOMAIN dets, NEW j \in DOMAIN dets
  PROVE  dets[i].label = dets[j].label /\ ~IsCombined(dets)
<1> DEFINE labels == {dets[k].label : k \in DOMAIN dets}
<1>1. Cardinality(labels) = 1
  BY DEF OneKind
<1>2. labels \subseteq Label
  <2>1. \A k \in DOMAIN dets : dets[k] \in Detection
    OBVIOUS
  <2> QED  BY <2>1 DEF Detection
<1>3. IsFiniteSet(labels)
  <2>1. IsFiniteSet(Label)
    <3>1. IsFiniteSet({"fire"})
      BY FS_Singleton
    <3>2. IsFiniteSet({"fire"} \cup {"smoke"})
      BY <3>1, FS_AddElement
    <3>3. Label = {"fire"} \cup {"smoke"}
      BY DEF Label
    <3> QED  BY <3>2, <3>3
  <2> QED  BY <1>2, <2>1, FS_Subset
<1> HIDE DEF labels
<1>4. \E x : labels = {x}
  BY <1>1, <1>3, FS_Singleton
<1>5. dets[i].label = dets[j].label
  <2>1. dets[i].label \in labels /\ dets[j].label \in labels
    BY DEF labels
  <2> QED  BY <1>4, <2>1
<1>6. ~IsCombined(dets)
  <2>1. SUFFICES ASSUME IsCombined(dets) PROVE FALSE
    OBVIOUS
  <2>2. "fire" \in labels /\ "smoke" \in labels
    BY <2>1 DEF labels, IsCombined, Label
  <2> QED  BY <1>4, <2>2
<1> QED  BY <1>5, <1>6

\* The detection that stands for the alert is rated at least as severe as any
\* other, and so is the level stored for it ...
LEMMA StoredCoversAll ==
  ASSUME NEW cfg \in Settings, NEW dets \in Seq(Detection),
         NEW i \in DOMAIN dets, IsWorst(cfg, dets, i),
         NEW s \in DOMAIN dets, IsSurest(dets, s),
         NEW j \in DOMAIN dets
  PROVE  Priority[StoredThreat(cfg, dets, i, s)] <= PriorityOf(cfg, dets[j])
<1>1. /\ dets[i].conf \in Int /\ dets[s].conf \in Int
      /\ dets[i].conf <= dets[s].conf
  <2>1. dets[i] \in Detection /\ dets[s] \in Detection
    OBVIOUS
  <2>2. dets[i].conf \in 0 .. 100 /\ dets[s].conf \in 0 .. 100
    BY <2>1 DEF Detection
  <2>3. dets[s].conf >= dets[i].conf
    BY DEF IsSurest
  <2>4. \A x, y \in 0 .. 100 : y >= x => x \in Int /\ y \in Int /\ x <= y
    OBVIOUS
  <2> QED  BY <2>2, <2>3, <2>4, Zenon
<1>2. Priority[StoredThreat(cfg, dets, i, s)] <= PriorityOf(cfg, dets[i])
  <2>1. CASE IsCombined(dets)
    BY <1>1, <2>1, SurerIsWorse DEF StoredThreat, PriorityOf, ThreatOf
  <2>2. CASE ~IsCombined(dets)
    <3>1. StoredThreat(cfg, dets, i, s) = ThreatOf(cfg, dets[i])
      BY <2>2 DEF StoredThreat, ThreatOf
    <3>2. PriorityOf(cfg, dets[i]) \in Int
      BY DEF PriorityOf, ThreatOf, ConfidenceToThreat, LevelOf, Priority
    <3> QED  BY <3>1, <3>2 DEF PriorityOf
  <2> QED  BY <2>1, <2>2
<1>3. PriorityOf(cfg, dets[i]) <= PriorityOf(cfg, dets[j])
  BY DEF IsWorst
<1>4. \A t \in Threat : Priority[t] \in Int
  BY DEF Threat, Priority
<1>5. /\ StoredThreat(cfg, dets, i, s) \in Threat
      /\ ThreatOf(cfg, dets[i]) \in Threat /\ ThreatOf(cfg, dets[j]) \in Threat
  BY DEF StoredThreat, ThreatOf, ConfidenceToThreat, LevelOf, Threat
<1> QED  BY <1>2, <1>3, <1>4, <1>5 DEF PriorityOf

-----------------------------------------------------------------------------
(* From the alert to its announcement.                                     *)

\* The level is one that process_alert gives these detections under cfg.
Rated(threat, cfg, dets) ==
  \/ dets = <<>> /\ threat = "CRITICAL"
  \/ \E i, s \in DOMAIN dets : /\ IsWorst(cfg, dets, i) /\ IsSurest(dets, s)
                              /\ threat = StoredThreat(cfg, dets, i, s)

LevelInv ==
  /\ task.op = "judged" =>
       \/ task.dets = <<>>
       \/ task.worst \in DOMAIN task.dets /\ IsWorst(task.with, task.dets, task.worst)
  /\ task.op = "stored" /\ task.steady =>
       Rated(rows[task.id].threat, task.with, task.dets)
  /\ AnnouncedAsStored

\* The figures keep their types.
LEMMA FigTyped == FigTypeOK /\ [FigNext]_figVars => FigTypeOK'
<1> SUFFICES ASSUME FigTypeOK, [FigNext]_figVars PROVE FigTypeOK'
  OBVIOUS
<1> USE DEF FigTypeOK
<1>0. \A cfg, label, c : ConfidenceToThreat(cfg, label, c) \in Threat
  BY DEF ConfidenceToThreat, LevelOf, Threat
<1>1. CASE JudgeAlert
  BY <1>1 DEF JudgeAlert, Worst, Idle
<1>2. CASE StoreAlert
  <2>1. PICK s : rows' = [a \in DOMAIN rows \cup {nextId} |->
                            IF a = nextId THEN NewRow(s) ELSE rows[a]]
    BY <1>2 DEF StoreAlert
  <2>2. NewRow(s) \in Row
    <3>1. task.dets # <<>> =>
            StoredLabel(task.dets, task.worst) \in Label \cup {"FIRE + SMOKE"}
      <4>1. task.dets \in Seq(Detection)
        BY <1>2, PacketsAssumption DEF StoreAlert
      <4>2. \A i \in DOMAIN task.dets : task.dets[i] \in Detection
        BY <4>1
      <4>3. \A i \in DOMAIN task.dets : task.dets[i].label \in Label
        BY <4>2 DEF Detection
      <4> QED  BY <1>2, <4>3 DEF StoreAlert, StoredLabel
    <3>2. StoredThreat(config, task.dets, task.worst, s) \in Threat
      BY <1>0 DEF StoredThreat
    <3> QED  BY <1>2, <3>1, <3>2 DEF StoreAlert, NewRow, Row, Threat, Label
  <2> QED  BY <1>2, <2>1, <2>2 DEF StoreAlert
<1>3. CASE AnnounceAlert
  BY <1>0, <1>3 DEF AnnounceAlert, AnnouncedThreat, ThreatOf
<1>4. CASE RefreshAnalytics
  BY <1>4 DEF RefreshAnalytics, Idle
<1>5. CASE DeleteAlert
  BY <1>5 DEF DeleteAlert, Keep, Idle
<1>6. CASE AcknowledgeAlert
  <2>1. PICK a \in DOMAIN rows : rows' = [rows EXCEPT ![a].seen = TRUE]
    BY <1>6 DEF AcknowledgeAlert, Unacknowledged
  <2>2. [rows[a] EXCEPT !.seen = TRUE] \in Row
    BY <2>1 DEF Row
  <2>3. rows' \in [DOMAIN rows -> Row] /\ DOMAIN rows' = DOMAIN rows
    BY <2>1, <2>2
  <2>4. UNCHANGED <<now, config, nextId, task>>
    BY <1>6 DEF AcknowledgeAlert
  <2> QED  BY <2>3, <2>4
<1>7. CASE SetConfig
  BY <1>7, SettingsAssumption DEF SetConfig, Settings, Setting, Defaults
<1>8. CASE TimePasses
  BY <1>8 DEF TimePasses
<1>9. CASE UNCHANGED figVars
  BY <1>9 DEF figVars
<1> QED  BY <1>1, <1>2, <1>3, <1>4, <1>5, <1>6, <1>7, <1>8, <1>9 DEF FigNext

\* A later step leaves the row that is being announced its level.
LEMMA LevelKept ==
  ASSUME FigTypeOK, NEW a \in DOMAIN rows,
         AcknowledgeAlert \/ UNCHANGED rows
  PROVE  a \in DOMAIN rows' /\ rows'[a].threat = rows[a].threat
<1>1. CASE AcknowledgeAlert
  <2>1. PICK b \in DOMAIN rows : rows' = [rows EXCEPT ![b].seen = TRUE]
    BY <1>1 DEF AcknowledgeAlert, Unacknowledged
  <2>2. rows[a] \in Row /\ rows[b] \in Row
    BY DEF FigTypeOK
  <2>3. [rows[b] EXCEPT !.seen = TRUE].threat = rows[b].threat
    BY <2>2 DEF Row
  <2> QED  BY <2>1, <2>3 DEF FigTypeOK
<1>2. CASE UNCHANGED rows
  BY <1>2
<1> QED  BY <1>1, <1>2

LEMMA LevelStep == FigTypeOK /\ LevelInv /\ [FigNext]_figVars => LevelInv'
<1> SUFFICES ASSUME FigTypeOK, LevelInv, [FigNext]_figVars PROVE LevelInv'
  OBVIOUS
<1>1. CASE JudgeAlert
  <2>1. /\ task'.op = "judged"
        /\ \/ task'.dets = <<>>
           \/ task'.worst \in DOMAIN task'.dets
              /\ IsWorst(task'.with, task'.dets, task'.worst)
    BY <1>1 DEF JudgeAlert, Worst
  <2> QED  BY <2>1 DEF LevelInv, AnnouncedAsStored
<1>2. CASE StoreAlert
  <2>1. PICK s \in Surest(task.dets) :
          rows' = [a \in DOMAIN rows \cup {nextId} |->
                     IF a = nextId THEN NewRow(s) ELSE rows[a]]
    BY <1>2 DEF StoreAlert
  <2>2. /\ task'.op = "stored" /\ task'.id = nextId /\ task'.dets = task.dets
        /\ task'.with = task.with /\ task'.steady = (config = task.with)
    BY <1>2 DEF StoreAlert
  <2>3. rows'[task'.id].threat = NewRow(s).threat
    BY <2>1, <2>2
  <2>4. SUFFICES ASSUME config = task.with
                 PROVE  Rated(NewRow(s).threat, task.with, task.dets)
    BY <2>2, <2>3 DEF LevelInv, AnnouncedAsStored
  <2>5. CASE task.dets = <<>>
    BY <2>5 DEF Rated, NewRow
  <2>6. CASE task.dets # <<>>
    <3>1. task.worst \in DOMAIN task.dets /\ IsWorst(task.with, task.dets, task.worst)
      BY <1>2, <2>6 DEF StoreAlert, LevelInv
    <3>2. s \in DOMAIN task.dets /\ IsSurest(task.dets, s)
      BY <2>6 DEF Surest
    <3>3. NewRow(s).threat = StoredThreat(task.with, task.dets, task.worst, s)
      BY <2>4, <2>6 DEF NewRow
    <3> QED  BY <3>1, <3>2, <3>3 DEF Rated
  <2> QED  BY <2>5, <2>6
<1>3. CASE AnnounceAlert
  <2>1. PICK t \in Surest(task.dets) :
          task' = [op |-> "announced", id |-> task.id, dets |-> task.dets,
                   threat |-> AnnouncedThreat(t),
                   steady |-> task.steady /\ config = task.with]
    BY <1>3 DEF AnnounceAlert
  <2>2. task.op = "stored" /\ UNCHANGED rows
    BY <1>3 DEF AnnounceAlert
  <2>3. SUFFICES ASSUME task.steady, config = task.with, OneKind(task.dets)
                 PROVE  AnnouncedThreat(t) = rows[task.id].threat
    BY <2>1, <2>2 DEF LevelInv, AnnouncedAsStored
  <2>4. Rated(rows[task.id].threat, task.with, task.dets)
    BY <2>2, <2>3 DEF LevelInv
  <2>5. task.dets \in Seq(Detection) /\ task.with \in Settings
    BY <2>2, PacketsAssumption DEF FigTypeOK
  <2>6. task.dets # <<>>
    <3>1. SUFFICES ASSUME task.dets = <<>> PROVE FALSE
      OBVIOUS
    <3>2. {task.dets[i].label : i \in DOMAIN task.dets} = {}
      BY <3>1
    <3> QED  BY <2>3, <3>2, FS_EmptySet DEF OneKind
  <2>7. PICK i, s \in DOMAIN task.dets :
          /\ IsWorst(task.with, task.dets, i) /\ IsSurest(task.dets, s)
          /\ rows[task.id].threat = StoredThreat(task.with, task.dets, i, s)
    BY <2>4, <2>6 DEF Rated
  <2>8. t \in DOMAIN task.dets /\ IsSurest(task.dets, t)
    BY <2>6 DEF Surest
  <2> DEFINE worst == task.dets[i]
             surest == task.dets[t]
  <2>9. /\ AnnouncedThreat(t) = ThreatOf(task.with, surest)
        /\ rows[task.id].threat = ThreatOf(task.with, worst)
    <3>1. t # 0
      BY <2>5, <2>8
    <3>2. ~IsCombined(task.dets)
      BY <2>3, <2>5, <2>8, OneKindAlike
    <3> QED  BY <2>3, <2>7, <3>1, <3>2 DEF AnnouncedThreat, StoredThreat, ThreatOf
  <2>10. PriorityOf(task.with, worst) <= PriorityOf(task.with, surest)
    BY <2>7, <2>8 DEF IsWorst
  <2>11. PriorityOf(task.with, surest) <= PriorityOf(task.with, worst)
    <3>1. surest.label = worst.label
      BY <2>3, <2>5, <2>7, <2>8, OneKindAlike
    <3>2. /\ worst.conf \in Int /\ surest.conf \in Int
          /\ worst.conf <= surest.conf
      <4>1. worst \in Detection /\ surest \in Detection
        BY <2>5, <2>7, <2>8
      <4>2. worst.conf \in 0 .. 100 /\ surest.conf \in 0 .. 100
        BY <4>1 DEF Detection
      <4>3. surest.conf >= worst.conf
        BY <2>7, <2>8 DEF IsSurest
      <4>4. \A x, y \in 0 .. 100 : y >= x => x \in Int /\ y \in Int /\ x <= y
        OBVIOUS
      <4> QED  BY <4>2, <4>3, <4>4, Zenon
    <3> HIDE DEF worst, surest
    <3> QED  BY <2>5, <3>1, <3>2, SurerIsWorse DEF PriorityOf, ThreatOf
  <2>12. /\ ThreatOf(task.with, surest) \in Threat
         /\ ThreatOf(task.with, worst) \in Threat
    BY DEF ThreatOf, ConfidenceToThreat, LevelOf, Threat
  <2> HIDE DEF worst, surest
  <2> QED  BY <2>9, <2>10, <2>11, <2>12, LevelsApart DEF PriorityOf
<1>4. CASE RefreshAnalytics
  <2>1. task'.op \in {"refresh", "idle"}
    BY <1>4 DEF RefreshAnalytics, Idle
  <2> QED  BY <2>1 DEF LevelInv, AnnouncedAsStored
<1>5. CASE DeleteAlert
  BY <1>5 DEF DeleteAlert, Idle, LevelInv, AnnouncedAsStored
<1>6. CASE task' = task /\ (AcknowledgeAlert \/ UNCHANGED rows)
  BY <1>6, LevelKept DEF LevelInv, AnnouncedAsStored, FigTypeOK
<1>7. CASE SetConfig \/ TimePasses \/ AcknowledgeAlert \/ UNCHANGED figVars
  BY <1>6, <1>7 DEF SetConfig, TimePasses, AcknowledgeAlert, figVars
<1> QED  BY <1>1, <1>2, <1>3, <1>4, <1>5, <1>7 DEF FigNext

LEMMA FigStarts == FigInit => FigTypeOK /\ LevelInv
<1> SUFFICES ASSUME FigInit PROVE FigTypeOK /\ LevelInv
  OBVIOUS
<1>1. Defaults \in Settings /\ task.op = "idle" /\ DOMAIN rows = {}
  BY DEF FigInit, Defaults, Settings, Setting, Idle
<1>2. rows \in [DOMAIN rows -> Row]
  BY <1>1 DEF FigInit
<1> QED  BY <1>1, <1>2 DEF FigInit, FigTypeOK, LevelInv, AnnouncedAsStored

-----------------------------------------------------------------------------
(* The window with its figures behind it.                                  *)

\* Whatever happens to the figures, the window's navigation is the one the
\* first part is about.
THEOREM NavigationOfDesktop == DeskSpec => Spec
<1>1. DeskInit => Init
  BY DEF DeskInit
<1>2. [DeskNext]_deskVars => [Next]_vars
  <2>1. DeskNext => Next \/ UNCHANGED vars
    BY DEF DeskNext, Click, Count
  <2> QED  BY <2>1 DEF deskVars, vars
<1> QED  BY <1>1, <1>2, PTL DEF DeskSpec, Spec

\* And the figures are not disturbed by where the operator is.
THEOREM FiguresOfDesktop == DeskSpec => FigSpec
<1>1. DeskInit => FigInit
  BY DEF DeskInit
<1>2. [DeskNext]_deskVars => [FigNext]_figVars
  BY DEF DeskNext, Click, Count, deskVars, figVars
<1> QED  BY <1>1, <1>2, PTL DEF DeskSpec, FigSpec

\* Figures, tasks of the main thread and settings keep their types, for any
\* cameras, packets and settings.
THEOREM FiguresTyped == FigSpec => []FigTypeOK
<1> QED  BY FigStarts, FigTyped, PTL DEF FigSpec

LEMMA LevelsHold == FigSpec => []LevelInv
<1> QED  BY FigStarts, LevelStep, FiguresTyped, PTL DEF FigSpec

\* In every window, for every list of detections of any length and every
\* setting of the thresholds: the level stored is at least that of each
\* detection, however fire and smoke are combined and ordered.
THEOREM StoredIsWorstHolds == DeskSpec => []StoredIsWorst
<1>1. FigTypeOK /\ LevelInv => StoredIsWorst
  <2> SUFFICES ASSUME FigTypeOK, LevelInv, task.op = "stored", task.steady,
                      NEW j \in DOMAIN task.dets
               PROVE  Priority[rows[task.id].threat] <= PriorityOf(task.with, task.dets[j])
    BY DEF StoredIsWorst
  <2>1. task.dets \in Seq(Detection) /\ task.with \in Settings
    BY PacketsAssumption DEF FigTypeOK
  <2>2. task.dets # <<>>
    OBVIOUS
  <2>3. PICK i, s \in DOMAIN task.dets :
          /\ IsWorst(task.with, task.dets, i) /\ IsSurest(task.dets, s)
          /\ rows[task.id].threat = StoredThreat(task.with, task.dets, i, s)
    BY <2>2 DEF LevelInv, Rated
  <2> QED  BY <2>1, <2>3, StoredCoversAll
<1> QED  BY <1>1, FiguresTyped, LevelsHold, FiguresOfDesktop, PTL

\* The level announced for detections of one kind is the one stored: of any
\* number of them, under any thresholds, the surest is the worst or as bad.
THEOREM AnnouncedHolds == DeskSpec => []AnnouncedAsStored
<1>1. LevelInv => AnnouncedAsStored
  BY DEF LevelInv
<1> QED  BY <1>1, LevelsHold, FiguresOfDesktop, PTL

-----------------------------------------------------------------------------
(* Counting rows.                                                          *)

\* The rows are finitely many, and so is every selection of them.
LEMMA RowsFinite ==
  ASSUME FigTypeOK, NEW A \in SUBSET DOMAIN rows
  PROVE  IsFiniteSet(A) /\ Cardinality(A) \in Nat
<1>1. nextId - 1 \in Int /\ DOMAIN rows \subseteq 1 .. nextId - 1
  BY DEF FigTypeOK
<1>2. IsFiniteSet(1 .. nextId - 1)
  BY <1>1, FS_Interval
<1>3. IsFiniteSet(A)
  BY <1>1, <1>2, FS_Subset
<1> QED  BY <1>3, FS_CardinalityType

\* Two selections with nothing in common count their union.
LEMMA CountApart ==
  ASSUME NEW A, NEW B, IsFiniteSet(A), IsFiniteSet(B), A \cap B = {}
  PROVE  /\ IsFiniteSet(A \cup B)
         /\ Cardinality(A \cup B) = Cardinality(A) + Cardinality(B)
<1>1. Cardinality(A) \in Nat /\ Cardinality(B) \in Nat /\ Cardinality(A \cap B) = 0
  BY FS_CardinalityType, FS_EmptySet
<1>2. /\ IsFiniteSet(A \cup B)
      /\ Cardinality(A \cup B) = Cardinality(A) + Cardinality(B) - Cardinality(A \cap B)
  BY FS_Union
<1> QED  BY <1>1, <1>2

\* The panel's list is no longer than the unacknowledged rows are many.
LEMMA RecentWithin ==
  ASSUME FigTypeOK
  PROVE  Len(Recent) \in Nat /\ Len(Recent) <= Cardinality(Unacknowledged)
<1> DEFINE rank(a) == Cardinality({b \in Unacknowledged : b >= a})
           shown == {a \in Unacknowledged : rank(a) <= RecentMax /\ rank(a) <= PanelMax}
           n == Cardinality(shown)
<1>1. Recent = [i \in 1 .. n |-> CHOOSE a \in shown : rank(a) = i]
  BY DEF Recent
<1>2. shown \subseteq Unacknowledged /\ Unacknowledged \subseteq DOMAIN rows
  BY DEF Unacknowledged
<1> HIDE DEF shown
<1>3. n \in Nat /\ n <= Cardinality(Unacknowledged)
  BY <1>2, RowsFinite, FS_Subset
<1> HIDE DEF n
<1>4. Len(Recent) = n
  <2> DEFINE elt(i) == CHOOSE a \in shown : rank(a) = i
  <2> HIDE DEF elt
  <2>1. Recent = [i \in 1 .. n |-> elt(i)]
    BY <1>1 DEF elt
  <2> QED  BY <1>3, <2>1
<1> QED  BY <1>3, <1>4

\* While the panel is refreshed no alert arrives and none is deleted, so the
\* rows read after the count are among those counted.
PanelInv ==
  /\ task.op = "refresh" =>
       task.unacked \in Nat /\ Cardinality(Unacknowledged) <= task.unacked
  /\ PanelWithinCount

LEMMA PanelStep == FigTypeOK /\ PanelInv /\ [FigNext]_figVars => PanelInv'
<1> SUFFICES ASSUME FigTypeOK, PanelInv, [FigNext]_figVars PROVE PanelInv'
  OBVIOUS
<1> USE DEF PanelInv, PanelWithinCount
<1>1. CASE JudgeAlert \/ StoreAlert \/ AnnounceAlert \/ DeleteAlert
  <2>1. task'.op # "refresh" /\ panel' = panel
    BY <1>1 DEF JudgeAlert, StoreAlert, AnnounceAlert, DeleteAlert, Idle
  <2> QED  BY <2>1
<1>2. CASE RefreshAnalytics
  <2>1. CASE task'.op = "refresh"
    <3>1. /\ task' = [op |-> "refresh", unacked |-> Cardinality(Unacknowledged)]
          /\ UNCHANGED <<panel, rows>>
      BY <1>2, <2>1 DEF RefreshAnalytics, Idle
    <3>2. Unacknowledged' = Unacknowledged /\ Cardinality(Unacknowledged) \in Nat
      BY <3>1, RowsFinite DEF Unacknowledged
    <3> QED  BY <3>1, <3>2
  <2>2. CASE task'.op # "refresh"
    <3>1. task.op = "refresh" /\ panel' = [unacked |-> task.unacked, list |-> Recent]
      BY <1>2, <2>2 DEF RefreshAnalytics
    <3>2. Len(Recent) <= task.unacked
      <4>1. Cardinality(Unacknowledged) \in Nat
        BY RowsFinite DEF Unacknowledged
      <4> QED  BY <3>1, <4>1, RecentWithin
    <3> QED  BY <2>2, <3>1, <3>2
  <2> QED  BY <2>1, <2>2
<1>3. CASE AcknowledgeAlert
  <2>1. PICK a \in DOMAIN rows : rows' = [rows EXCEPT ![a].seen = TRUE]
    BY <1>3 DEF AcknowledgeAlert, Unacknowledged
  <2>2. \A b \in DOMAIN rows : rows[b] \in Row
    BY DEF FigTypeOK
  <2>3. rows'[a].seen /\ \A b \in DOMAIN rows' \ {a} : rows'[b] = rows[b]
    BY <2>1, <2>2 DEF Row
  <2>4. Unacknowledged' \subseteq Unacknowledged /\ DOMAIN rows' = DOMAIN rows
    BY <2>1, <2>3 DEF Unacknowledged
  <2>5. Unacknowledged \subseteq DOMAIN rows
    BY DEF Unacknowledged
  <2>6. /\ Cardinality(Unacknowledged') <= Cardinality(Unacknowledged)
        /\ Cardinality(Unacknowledged) \in Nat /\ Cardinality(Unacknowledged') \in Nat
    BY <2>4, <2>5, RowsFinite, FS_Subset
  <2>7. UNCHANGED <<task, panel>>
    BY <1>3 DEF AcknowledgeAlert
  <2> QED  BY <2>6, <2>7
<1>4. CASE SetConfig \/ TimePasses \/ UNCHANGED figVars
  <2>1. UNCHANGED <<rows, task, panel>>
    BY <1>4 DEF SetConfig, TimePasses, figVars
  <2> QED  BY <2>1 DEF Unacknowledged
<1> QED  BY <1>1, <1>2, <1>3, <1>4 DEF FigNext

\* The panel never lists more incidents than its chip counts, for any number
\* of alerts and any limits, whatever is acknowledged between its queries.
THEOREM PanelWithinCountHolds == DeskSpec => []PanelWithinCount
<1>1. FigInit => PanelInv
  BY DEF FigInit, PanelInv, PanelWithinCount, Idle
<1>2. FigSpec => []PanelInv
  BY <1>1, PanelStep, FiguresTyped, PTL DEF FigSpec
<1>3. PanelInv => PanelWithinCount
  BY DEF PanelInv
<1> QED  BY <1>2, <1>3, FiguresOfDesktop, PTL

-----------------------------------------------------------------------------
(* The distribution of labels.                                             *)

\* The alerts of a period with one label.
Labelled(label, days) == {a \in InPeriod(days) : rows[a].label = label}

\* The three labels divide the alerts of a period.
LEMMA LabelsDivide ==
  ASSUME FigTypeOK, NEW days
  PROVE  Cardinality(InPeriod(days)) =
           Cardinality(Labelled("fire", days)) + Cardinality(Labelled("smoke", days))
             + Cardinality(Labelled("FIRE + SMOKE", days))
<1> DEFINE F == Labelled("fire", days)
           S == Labelled("smoke", days)
           C == Labelled("FIRE + SMOKE", days)
<1>1. InPeriod(days) \subseteq DOMAIN rows
  BY DEF InPeriod, Since
<1>2. \A a \in DOMAIN rows : rows[a].label \in {"fire", "smoke", "FIRE + SMOKE"}
  BY DEF FigTypeOK, Row, Label
<1>3. InPeriod(days) = (F \cup S) \cup C
  BY <1>1, <1>2 DEF Labelled
<1>4. F \cap S = {} /\ (F \cup S) \cap C = {}
  BY DEF Labelled
<1>5. F \in SUBSET DOMAIN rows /\ S \in SUBSET DOMAIN rows /\ C \in SUBSET DOMAIN rows
  BY <1>1 DEF Labelled
<1> HIDE DEF F, S, C
<1>6. IsFiniteSet(F) /\ IsFiniteSet(S) /\ IsFiniteSet(C)
  BY <1>5, RowsFinite
<1>7. IsFiniteSet(F \cup S) /\ Cardinality(F \cup S) = Cardinality(F) + Cardinality(S)
  BY <1>4, <1>6, CountApart
<1>8. Cardinality((F \cup S) \cup C) = Cardinality(F \cup S) + Cardinality(C)
  BY <1>4, <1>6, <1>7, CountApart
<1>9. Cardinality(InPeriod(days)) = Cardinality(F) + Cardinality(S) + Cardinality(C)
  BY <1>3, <1>7, <1>8
<1> QED  BY <1>9 DEF F, S, C

\* Whichever id is taken of each mixed minute, COMBINED counts the alerts
\* labelled so and at most one more per mixed minute.
LEMMA CombinedBounds ==
  ASSUME FigTypeOK, NEW days, NEW n \in CombinedCounts(days)
  PROVE  /\ n \in Nat /\ Cardinality(MixedMinutes(days)) \in Nat
         /\ Cardinality(Labelled("FIRE + SMOKE", days)) <= n
         /\ n <= Cardinality(Labelled("FIRE + SMOKE", days)) + Cardinality(MixedMinutes(days))
<1> DEFINE C == Labelled("FIRE + SMOKE", days)
           M == MixedMinutes(days)
           P == InPeriod(days)
<1>1. P \in SUBSET DOMAIN rows /\ C \in SUBSET DOMAIN rows /\ M \subseteq SUBSET P
  <2>1. P \in SUBSET DOMAIN rows /\ C \in SUBSET DOMAIN rows
    BY DEF InPeriod, Since, Labelled
  <2>2. ASSUME NEW g \in M
        PROVE  g \subseteq P
    <3>1. g \in Minutes(days)
      BY DEF MixedMinutes
    <3>2. \A h \in Minutes(days) : h \subseteq InPeriod(days)
      BY DEF Minutes
    <3> QED  BY <3>1, <3>2
  <2> QED  BY <2>1, <2>2
<1>2. PICK one \in [M -> P] : n = Cardinality(C \cup {one[g] : g \in M})
  BY DEF CombinedCounts, Labelled
<1> DEFINE R == {one[g] : g \in M}
<1>3. n = Cardinality(C \cup R)
  BY <1>2
<1>4. R \subseteq P
  BY <1>2
<1> HIDE DEF C, M, P
<1>5. IsFiniteSet(P) /\ IsFiniteSet(C) /\ Cardinality(C) \in Nat
  BY <1>1, RowsFinite
<1>6. IsFiniteSet(M) /\ Cardinality(M) \in Nat
  BY <1>1, <1>5, FS_SUBSET, FS_Subset, FS_CardinalityType
<1>7. one \in Surjection(M, R)
  <2>1. one \in [M -> R] /\ \A r \in R : \E g \in M : one[g] = r
    OBVIOUS
  <2> HIDE DEF R
  <2> QED  BY <2>1 DEF Surjection
<1> HIDE DEF R
<1>8. IsFiniteSet(R) /\ Cardinality(R) <= Cardinality(M) /\ Cardinality(R) \in Nat
  BY <1>6, <1>7, FS_Surjection, FS_CardinalityType
<1>9. /\ IsFiniteSet(C \cup R)
      /\ n = Cardinality(C) + Cardinality(R) - Cardinality(C \cap R)
  BY <1>3, <1>5, <1>8, FS_Union
<1>10. Cardinality(C \cap R) \in Nat /\ n \in Nat
  BY <1>3, <1>5, <1>9, FS_Subset, FS_CardinalityType
<1>11. Cardinality(C) <= n
  BY <1>3, <1>9, FS_Subset
<1>12. n <= Cardinality(C) + Cardinality(M)
  BY <1>5, <1>6, <1>8, <1>9, <1>10
<1> QED  BY <1>6, <1>10, <1>11, <1>12 DEF C, M

\* Together the three bars leave no alert of the period out, and count one
\* twice at most once per mixed minute, for any alerts, cameras and times.
THEOREM EveryAlertHasBarHolds == DeskSpec => []EveryAlertHasBar
<1>1. FigTypeOK => EveryAlertHasBar
  <2> SUFFICES ASSUME FigTypeOK, NEW days \in Periods, NEW n \in CombinedCounts(days)
               PROVE  LabelCount("fire", days) + LabelCount("smoke", days) + n
                        \in Cardinality(InPeriod(days)) ..
                            Cardinality(InPeriod(days)) + Cardinality(MixedMinutes(days))
    BY DEF EveryAlertHasBar
  <2>1. /\ LabelCount("fire", days) = Cardinality(Labelled("fire", days))
        /\ LabelCount("smoke", days) = Cardinality(Labelled("smoke", days))
    BY DEF LabelCount, Labelled
  <2>2. /\ Cardinality(Labelled("fire", days)) \in Nat
        /\ Cardinality(Labelled("smoke", days)) \in Nat
        /\ Cardinality(Labelled("FIRE + SMOKE", days)) \in Nat
    <3>1. \A label : Labelled(label, days) \in SUBSET DOMAIN rows
      BY DEF Labelled, InPeriod, Since
    <3> QED  BY <3>1, RowsFinite
  <2>3. /\ n \in Nat /\ Cardinality(MixedMinutes(days)) \in Nat
        /\ Cardinality(Labelled("FIRE + SMOKE", days)) <= n
        /\ n <= Cardinality(Labelled("FIRE + SMOKE", days)) + Cardinality(MixedMinutes(days))
    BY CombinedBounds
  <2>4. Cardinality(InPeriod(days)) =
          Cardinality(Labelled("fire", days)) + Cardinality(Labelled("smoke", days))
            + Cardinality(Labelled("FIRE + SMOKE", days))
    BY LabelsDivide
  <2>5. \A f, s, c, m, k \in Nat : c <= k /\ k <= c + m =>
          f + s + k \in f + s + c .. f + s + c + m
    OBVIOUS
  <2> QED  BY <2>1, <2>2, <2>3, <2>4, <2>5
<1> QED  BY <1>1, FiguresTyped, FiguresOfDesktop, PTL

-----------------------------------------------------------------------------
(* Sums over a chart.                                                      *)

\* Among sets of subsets of a finite set there are smallest ones.
LEMMA SmallestSubset ==
  ASSUME NEW S, IsFiniteSet(S), NEW B, B \subseteq SUBSET S, B # {}
  PROVE  \E s \in B : \A x \in s : s \ {x} \notin B
<1>1. IsWellFoundedOn(StrictSubsetOrdering(S), SUBSET S)
  BY FS_StrictSubsetOrderingWellFounded, FS_FiniteSubsetsOfFinite
<1>2. PICK s \in B : \A t \in B : <<t, s>> \notin StrictSubsetOrdering(S)
  BY <1>1, WFMin, Zenon
<1> QED  BY <1>2 DEF StrictSubsetOrdering

\* A sum over a finite set is what adds up one element at a time, in any
\* order: the recursion of MapThenSumSet has no other solution, as a smallest
\* set on which one differed would have a smaller one.
LEMMA SumByElements ==
  ASSUME NEW w, IsFiniteSet(DOMAIN w),
         NEW total \in [SUBSET DOMAIN w -> Nat], total[{}] = 0,
         \A s \in SUBSET DOMAIN w : \A x \in s : total[s] = w[x] + total[s \ {x}]
  PROVE  Total(w) = total[DOMAIN w]
<1> DEFINE S == DOMAIN w
           Sums(it) ==
             it = [s \in SUBSET S |->
                     IF s = {} THEN 0
                     ELSE w[CHOOSE x \in s : TRUE] + it[s \ {CHOOSE x \in s : TRUE}]]
           sum == CHOOSE it : Sums(it)
<1>1. Total(w) = sum[S]
  BY DEF Total, MapThenSumSet, MapThenFoldSet
<1>2. Sums(total)
  OBVIOUS
<1>3. Sums(sum)
  <2> HIDE DEF Sums
  <2> QED  BY <1>2, Zenon
<1> HIDE DEF sum
<1>4. \A s \in SUBSET S : sum[s] = total[s]
  <2> DEFINE Bad == {s \in SUBSET S : sum[s] # total[s]}
  <2>1. SUFFICES ASSUME Bad # {} PROVE FALSE
    OBVIOUS
  <2>2. Bad \subseteq SUBSET S
    OBVIOUS
  <2>3. PICK s \in Bad : \A x \in s : s \ {x} \notin Bad
    <3> HIDE DEF Bad, S
    <3> QED  BY <2>1, <2>2, SmallestSubset DEF S
  <2>4. s # {}
    BY <1>3
  <2> DEFINE x == CHOOSE y \in s : TRUE
  <2>5. x \in s
    BY <2>4
  <2>6. sum[s] = w[x] + sum[s \ {x}] /\ total[s] = w[x] + total[s \ {x}]
    BY <1>3, <2>4, <2>5
  <2>7. sum[s \ {x}] = total[s \ {x}]
    BY <2>3, <2>5
  <2> QED  BY <2>6, <2>7
<1> QED  BY <1>1, <1>4

\* Elements counted by a key sum up to those whose key is one of those
\* counted.
LEMMA SumByKey ==
  ASSUME NEW A, IsFiniteSet(A), NEW key, NEW w, IsFiniteSet(DOMAIN w),
         \A x \in DOMAIN w : w[x] = Cardinality({a \in A : key[a] = x})
  PROVE  Total(w) = Cardinality({a \in A : key[a] \in DOMAIN w})
<1> DEFINE with(s) == {a \in A : key[a] \in s}
           total == [s \in SUBSET DOMAIN w |-> Cardinality(with(s))]
<1>1. \A s : IsFiniteSet(with(s)) /\ Cardinality(with(s)) \in Nat
  <2>1. \A s : with(s) \in SUBSET A
    OBVIOUS
  <2> HIDE DEF with
  <2> QED  BY <2>1, FS_Subset, FS_CardinalityType
<1>2. total \in [SUBSET DOMAIN w -> Nat]
  BY <1>1
<1>3. total[{}] = 0
  <2>1. with({}) = {}
    OBVIOUS
  <2> HIDE DEF with
  <2> QED  BY <2>1, FS_EmptySet
<1>4. \A s \in SUBSET DOMAIN w : \A x \in s : total[s] = w[x] + total[s \ {x}]
  <2> SUFFICES ASSUME NEW s \in SUBSET DOMAIN w, NEW x \in s
               PROVE  total[s] = w[x] + total[s \ {x}]
    OBVIOUS
  <2>1. /\ with(s) = with({x}) \cup with(s \ {x})
        /\ with({x}) \cap with(s \ {x}) = {}
        /\ with({x}) = {a \in A : key[a] = x}
    OBVIOUS
  <2>2. w[x] = Cardinality(with({x}))
    BY <2>1
  <2> HIDE DEF with
  <2>3. Cardinality(with(s)) = Cardinality(with({x})) + Cardinality(with(s \ {x}))
    BY <1>1, <2>1, CountApart
  <2> QED  BY <2>2, <2>3
<1>5. total[DOMAIN w] = Cardinality(with(DOMAIN w))
  OBVIOUS
<1> HIDE DEF total
<1>6. Total(w) = total[DOMAIN w]
  BY <1>2, <1>3, <1>4, SumByElements
<1> QED  BY <1>5, <1>6

-----------------------------------------------------------------------------
(* Time.                                                                   *)

\* What Floor cuts off is less than a unit, and what it leaves is a number of
\* units.
LEMMA FloorUnits ==
  ASSUME NEW u \in Nat \ {0}, NEW t \in Int
  PROVE  /\ t \div u \in Int /\ Floor(t, u) = (t \div u) * u
         /\ Floor(t, u) <= t /\ t < Floor(t, u) + u
BY SMT DEF Floor

\* Floor does not turn earlier into later.
LEMMA FloorMonotone ==
  ASSUME NEW u \in Nat \ {0}, NEW s \in Int, NEW t \in Int, s <= t
  PROVE  s \div u <= t \div u
BY SMT

\* A whole number of units later, the count of units is that much larger.
LEMMA FloorShift ==
  ASSUME NEW u \in Nat \ {0}, NEW t \in Int, NEW m \in Nat
  PROVE  (t + m * u) \div u = (t \div u) + m
BY SMT

\* Alerts are stored with the time of day, which only advances.
Timely == \A a \in DOMAIN rows : rows[a].at <= now

LEMMA WholeTimes ==
  ASSUME FigTypeOK
  PROVE  now \in Int /\ \A a \in DOMAIN rows : rows[a] \in Row /\ rows[a].at \in Int
<1>1. now \in Times /\ \A a \in DOMAIN rows : rows[a] \in Row
  BY DEF FigTypeOK
<1>2. \A r \in Row : r.at \in Times
  BY DEF Row
<1>3. Times \subseteq Int
  BY TimeAssumption
<1>4. \A a \in DOMAIN rows : rows[a].at \in Times
  BY <1>1, <1>2
<1> QED  BY <1>1, <1>3, <1>4

LEMMA TimelyStep == FigTypeOK /\ Timely /\ [FigNext]_figVars => Timely'
<1> SUFFICES ASSUME FigTypeOK, Timely, [FigNext]_figVars PROVE Timely'
  OBVIOUS
<1>1. now \in Int /\ \A a \in DOMAIN rows : rows[a] \in Row /\ rows[a].at \in Int
  BY WholeTimes
<1>2. CASE StoreAlert
  <2>1. PICK s \in Surest(task.dets) :
          rows' = [a \in DOMAIN rows \cup {nextId} |->
                     IF a = nextId THEN NewRow(s) ELSE rows[a]]
    BY <1>2 DEF StoreAlert
  <2>2. NewRow(s).at = now /\ now' = now
    BY <1>2 DEF NewRow, StoreAlert
  <2> QED  BY <1>1, <2>1, <2>2 DEF Timely
<1>3. CASE DeleteAlert
  BY <1>3 DEF DeleteAlert, Keep, Timely
<1>4. CASE AcknowledgeAlert
  <2>1. PICK a \in DOMAIN rows : rows' = [rows EXCEPT ![a].seen = TRUE]
    BY <1>4 DEF AcknowledgeAlert, Unacknowledged
  <2>2. DOMAIN rows' = DOMAIN rows /\ \A b \in DOMAIN rows : rows'[b].at = rows[b].at
    BY <1>1, <2>1 DEF Row
  <2> QED  BY <1>4, <2>2 DEF AcknowledgeAlert, Timely
<1>5. CASE TimePasses
  <2>1. rows' = rows /\ now' \in Int /\ now' > now
    BY <1>5, TimeAssumption DEF TimePasses
  <2> QED  BY <1>1, <2>1 DEF Timely
<1>6. CASE JudgeAlert \/ AnnounceAlert \/ RefreshAnalytics \/ SetConfig \/ UNCHANGED figVars
  <2>1. UNCHANGED <<rows, now>>
    BY <1>6 DEF JudgeAlert, AnnounceAlert, RefreshAnalytics, SetConfig, figVars
  <2> QED  BY <2>1 DEF Timely
<1> QED  BY <1>2, <1>3, <1>4, <1>5, <1>6 DEF FigNext

\* A chart of whole units that covers the period in their number and one
\* bucket more counts every alert of the period, whatever fraction of a unit
\* has passed.
LEMMA ChartCovers ==
  ASSUME FigTypeOK, Timely, NEW days \in Nat,
         NEW u \in Nat \ {0}, NEW m \in Nat, m * u = days * DayLength
  PROVE  /\ Total(Chart(u, days, 0 .. m)) \in Nat
         /\ Total(Chart(u, days, 0 .. m)) >= Cardinality(InPeriod(days))
<1> DEFINE start == now - days * DayLength
           since == Floor(start, u)
           bucket == [i \in 0 .. m |-> since + i * u]
           B == {since + i * u : i \in 0 .. m}
           key == [a \in DOMAIN rows |-> Floor(rows[a].at, u)]
           bars == Chart(u, days, 0 .. m)
           shown == {a \in Since(since) : key[a] \in B}
<1>1. now \in Int /\ start \in Int /\ now = start + m * u
  BY WholeTimes, TimeAssumption
<1>2. \A a \in DOMAIN rows : rows[a].at \in Int /\ rows[a].at <= now
  BY WholeTimes DEF Timely
<1>3. IsFiniteSet(B)
  <2>1. bucket \in Surjection(0 .. m, B)
    BY DEF Surjection
  <2>2. IsFiniteSet(0 .. m)
    BY FS_Interval
  <2> HIDE DEF B, bucket
  <2> QED  BY <2>1, <2>2, FS_Surjection
<1>4. /\ bars = [b \in B |-> Cardinality({a \in Since(since) : key[a] = b})]
      /\ DOMAIN bars = B
  <2>1. \A b : {a \in Since(since) : Floor(rows[a].at, u) = b}
                 = {a \in Since(since) : key[a] = b}
    BY DEF Since
  <2> HIDE DEF key
  <2> QED  BY <2>1 DEF Chart
<1>5. Since(since) \in SUBSET DOMAIN rows /\ shown \in SUBSET DOMAIN rows
  BY DEF Since
<1>6. InPeriod(days) \subseteq shown
  <2> SUFFICES ASSUME NEW a \in DOMAIN rows, rows[a].at >= start
               PROVE  a \in Since(since) /\ key[a] \in B
    BY DEF InPeriod, Since
  <2> DEFINE t == rows[a].at
             i == t \div u - start \div u
  <2>1. t \in Int /\ start <= t /\ t <= start + m * u /\ m * u \in Int
    BY <1>1, <1>2
  <2> HIDE DEF start, t
  <2>2. since \in Int /\ start \div u \in Int /\ since = (start \div u) * u /\ since <= start
    <3>1. \A s \in Int : /\ s \div u \in Int /\ Floor(s, u) = (s \div u) * u
                         /\ Floor(s, u) <= s
      BY FloorUnits
    <3>2. u \in Int
      OBVIOUS
    <3> HIDE DEF since
    <3> QED  BY <1>1, <3>1, <3>2 DEF since
  <2>3. t \div u \in Int /\ key[a] = (t \div u) * u
    BY <2>1, FloorUnits DEF t
  <2>4. start \div u <= t \div u /\ t \div u <= start \div u + m
    <3>1. start \div u <= t \div u /\ t \div u <= (start + m * u) \div u
      BY <1>1, <2>1, FloorMonotone
    <3> QED  BY <1>1, <3>1, FloorShift
  <2>5. i \in 0 .. m
    BY <2>2, <2>3, <2>4
  <2>6. \A q, r \in Int : r * u = q * u + (r - q) * u
    OBVIOUS
  <2>7. key[a] = since + i * u
    BY <2>2, <2>3, <2>6
  <2>8. key[a] \in B
    BY <2>5, <2>7
  <2>9. a \in Since(since)
    <3>1. since <= t
      BY <1>1, <2>1, <2>2
    <3> QED  BY <2>1, <2>2, <3>1 DEF Since, t
  <2> QED  BY <2>8, <2>9
<1> HIDE DEF start, since, B, key, bars
<1>7. Total(bars) = Cardinality(shown)
  <2>1. IsFiniteSet(Since(since)) /\ IsFiniteSet(DOMAIN bars)
    BY <1>3, <1>4, <1>5, RowsFinite
  <2>2. \A x \in DOMAIN bars : bars[x] = Cardinality({a \in Since(since) : key[a] = x})
    BY <1>4
  <2> QED  BY <1>4, <2>1, <2>2, SumByKey
<1> HIDE DEF shown
<1>8. Cardinality(shown) \in Nat /\ Cardinality(InPeriod(days)) <= Cardinality(shown)
  BY <1>5, <1>6, RowsFinite, FS_Subset
<1>9. Total(bars) \in Nat /\ Total(bars) >= Cardinality(InPeriod(days))
  <2>1. Cardinality(InPeriod(days)) \in Nat
    BY RowsFinite DEF InPeriod, Since
  <2> QED  BY <1>7, <1>8, <2>1
<1> QED  BY <1>9 DEF bars

\* The rankings of the cameras together count each alert of the period once.
LEMMA RankedWithin ==
  ASSUME FigTypeOK, NEW days
  PROVE  LET ranked == Total([c \in Cam |-> PeriodAlerts(c, days)])
         IN ranked \in Nat /\ ranked <= Cardinality(InPeriod(days))
<1> DEFINE cam == [a \in DOMAIN rows |-> rows[a].cam]
           counts == [c \in Cam |-> PeriodAlerts(c, days)]
           counted == {a \in InPeriod(days) : cam[a] \in Cam}
<1>1. InPeriod(days) \in SUBSET DOMAIN rows
  BY DEF InPeriod, Since
<1>2. \A c \in Cam : counts[c] = Cardinality({a \in InPeriod(days) : cam[a] = c})
  <2>1. \A c : {a \in InPeriod(days) : rows[a].cam = c} = {a \in InPeriod(days) : cam[a] = c}
    BY <1>1
  <2> HIDE DEF cam
  <2> QED  BY <2>1 DEF PeriodAlerts
<1>3. DOMAIN counts = Cam
  OBVIOUS
<1> HIDE DEF cam, counts
<1>4. Total(counts) = Cardinality(counted)
  BY <1>1, <1>2, <1>3, RowsFinite, CamAssumption, SumByKey
<1>5. /\ Cardinality(counted) \in Nat
      /\ Cardinality(counted) <= Cardinality(InPeriod(days))
  BY <1>1, RowsFinite, FS_Subset, FS_CardinalityType
<1> QED  BY <1>4, <1>5 DEF counts

\* At every hour and for every history of alerts, the trend shows all the
\* alerts the rankings of the same period count.
THEOREM TrendCoversRankingsHolds == DeskSpec => []TrendCoversRankings
<1>1. FigInit => Timely
  BY DEF FigInit, Timely
<1>2. FigSpec => []Timely
  BY <1>1, TimelyStep, FiguresTyped, PTL DEF FigSpec
<1>3. FigTypeOK /\ Timely => TrendCoversRankings
  <2> SUFFICES ASSUME FigTypeOK, Timely, NEW days \in Periods
               PROVE  Total(TrendChart(days)) >= Total([c \in Cam |-> PeriodAlerts(c, days)])
    BY DEF TrendCoversRankings
  <2> DEFINE bars == Total(TrendChart(days))
             ranked == Total([c \in Cam |-> PeriodAlerts(c, days)])
             all == Cardinality(InPeriod(days))
  <2>1. days \in Nat /\ HourLength \in Nat \ {0} /\ DayLength \in Nat \ {0}
    BY TimeAssumption
  <2>2. bars \in Nat /\ bars >= all
    <3>1. CASE days <= 1
      <4> DEFINE hours == days * (DayLength \div HourLength)
      <4>1. hours \in Nat /\ hours * HourLength = days * DayLength
        <5>1. DayLength \div HourLength \in Nat
          BY <2>1
        <5>2. DayLength = (DayLength \div HourLength) * HourLength
          BY <2>1, TimeAssumption
        <5>3. \A k \in Nat : (days * k) * HourLength = days * (k * HourLength)
          BY <2>1
        <5> QED  BY <2>1, <5>1, <5>2, <5>3
      <4>2. TrendChart(days) = Chart(HourLength, days, 0 .. hours)
        BY <3>1 DEF TrendChart, GetHourlyChart
      <4> HIDE DEF hours
      <4> QED  BY <2>1, <4>1, <4>2, ChartCovers
    <3>2. CASE ~ (days <= 1)
      BY <2>1, <3>2, ChartCovers DEF TrendChart, GetDailyChart
    <3> QED  BY <3>1, <3>2
  <2>3. ranked \in Nat /\ ranked <= all
    BY RankedWithin
  <2>4. all \in Nat
    BY RowsFinite DEF InPeriod, Since
  <2> HIDE DEF bars, ranked, all
  <2>5. bars >= ranked
    BY <2>2, <2>3, <2>4
  <2> QED  BY <2>5 DEF bars, ranked
<1> QED  BY <1>2, <1>3, FiguresTyped, FiguresOfDesktop, PTL
=============================================================================

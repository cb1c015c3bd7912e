CONSTANTS
  HistoryMax = 3
  NotANumber = NotANumber
  Cam = {c1, c2}
  Packets <- MCPackets
  SettingValues <- MCSettingValues
  Times = {10, 15}
  HourLength = 2
  DayLength = 4
  Periods = {1, 2}
  RecentMax = 2
  PanelMax = 1
  AlertMax = 2
SYMMETRY Symmetry
SPECIFICATION DeskSpec
INVARIANTS StoredIsWorst AnnouncedAsStored TrendCoversRankings EveryAlertHasBar PanelWithinCount
PROPERTY VisitCanBeUndone

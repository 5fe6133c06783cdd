CONSTANTS
  None = None
  Start = Start
  Alerts <- MCAlerts
  BatchSize = 3
  PageSize = 1
  Sorts = {"last_seen", "first_seen", "number", "alert_count"}
  MaxPerType = 2
  MaxEntities = 2
  FewEntities = 1
  MaxBytes = 5
SPECIFICATION FileSpec
INVARIANTS
  RowsAddUp
  SnapshotKeepsFaith
  CaseListIsWhole

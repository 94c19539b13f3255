CONSTANTS
  Records = {"midnight", "next"}
  At <- MCAt
  Item <- MCItem
  Slots = 3
  Settings <- MCSettings
  Retentions = {2}
  DefaultRetention = 2
  Queries <- MCQueries
  BatchLines = 1
  ExportLimit = 1
  HistoryDays = 2
  MaxDay = 2
  MaxFaults = 1
  MaxChanges = 1
  None = None
SPECIFICATION Spec
INVARIANT LocalDayRead
PROPERTY RequestsKept
CHECK_DEADLOCK FALSE

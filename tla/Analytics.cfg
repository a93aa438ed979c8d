SPECIFICATION HistorySpec
CONSTANTS
  Sale <- MCSale
  Ticket <- MCTicket
  Stock <- MCStock
  Orders <- MCOrders
  Provider = {"manual"}
  Foreign = {1, 3}
  MaxTime = 4
  MaxEvents = 8
  MaxReopened = 1
  Sizes = {"1m", "5m"}
  Duration <- MCDuration
  Intervals <- MCIntervals
  AverageWindow = 2
  MaxSeries = 3
  StockoutSize = "5m"
  Bounds = {0, 2}
  Limits = {3, 100}
INVARIANTS  FunnelCascades SurvivalAddsUp WindowsPartition DemandAddsUp ExportsAgree
CHECK_DEADLOCK FALSE

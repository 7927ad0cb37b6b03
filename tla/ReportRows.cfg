SPECIFICATION ReportSpec
CONSTANTS
  MaxTasks = 2
  MaxChanges = 3
  MaxShows = 2
INVARIANTS
  ListedOnceUnlessRemapped
  HeaderAgreesWithRows
CHECK_DEADLOCK FALSE

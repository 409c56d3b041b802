\* Two dependencies, fetched and audited two at a time, and one lost frame.
SPECIFICATION FairSpec
CONSTANTS
  Package = {"a", "b"}
  OtherNodes = {"other"}
  Jobs = 2
  FetchLimit = 2
  MaxLogs = 1
  MaxLosses = 1
  MaxTickers <- TickersOf
INVARIANTS
  ScreenIsLogAndRows
  RowsAreOpenSpans
  BatchIsCounted
  AuditLinesInOrder
PROPERTIES
  LostFrameIsRepainted
  TickersReturn

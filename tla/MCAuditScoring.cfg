\* Two runs share one cache file and not the other; entries expire meanwhile.
SPECIFICATION FairSpec
CONSTANTS
  Process <- TwoRuns
  Key = {"k1", "k2"}
  Hash = {"h0", "h1"}
  Keys <- BothKeys
  HashOf <- OverridesDiffer
  Jobs <- SomeJobs
  MaxAge <- ShortAge
  NoCache = {}
  FindingCounts = {1}
  MaxClock = 2
INVARIANTS
  Inv
  EveryKeyReportedOnce
  TotalsMatchReport
PROPERTIES
  AuditsEnd
  ImplementsContract

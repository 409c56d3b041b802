\* Every family of worlds: provenance, registry, dates, sources, failures.
SPECIFICATION Spec
CONSTANTS
  Package = {1, 2, 3, 4}
  EcosystemOf <- Ecosystems
  Repo = {"r1", "r2"}
  LocalPath = "path"
  NoURL = "none"
  NoName = NoName
  Never = Never
  Unlisted = Unlisted
  Unreadable = Unreadable
  Worlds <- AllWorlds
INVARIANTS
  Inv
  GraphIsRunnable
  FailuresAreExternal
  OneFindingPerCause
  TamperingIsReported
  UnavailableSourceIsReported
  NamesAreVouchedFor
  SourceMismatchIsReal
  PassesOverlookNothing
CHECK_DEADLOCK FALSE

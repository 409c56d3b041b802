\* A repository without commits.
SPECIFICATION Spec
CONSTANTS
  Package = {1, 2, 3, 4}
  EcosystemOf <- Ecosystems
  Repo = {"r1", "r2"}
  LocalPath = "path"
  NoURL = "none"
  NoName = NoName
  Never = Never
  Unlisted = Unlisted
  Unreadable = Unreadable
  Worlds <- EmptyWorlds
INVARIANTS
  EmptyHistoryIsAnalysed
CHECK_DEADLOCK FALSE

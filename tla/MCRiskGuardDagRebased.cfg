\* Histories whose newest commit was written long ago.
SPECIFICATION Spec
CONSTANTS
  Package = {1, 2, 3, 4}
  EcosystemOf <- Ecosystems
  Repo = {"r1", "r2"}
  LocalPath = "path"
  NoURL = "none"
  NoName = NoName
  Never = Never
  Unlisted = Unlisted
  Unreadable = Unreadable
  Worlds <- RebasedWorlds
INVARIANTS
  InactiveReposAreInactive
CHECK_DEADLOCK FALSE

\* An init of a tree of which the audit of one package fails.
SPECIFICATION Spec
CONSTANTS
  RootKey <- Tree
  NoKey <- None
  Package <- Packages
  CategoriesOf <- Categories
  Glob <- Globs
  LengthOf <- Lengths
  SourceNames = {"source/tree"}
  EcosystemOf <- Ecosystems
  PurlOf <- Purls
  KeyOfPurl <- KeysOfPurls
  Covers <- Excludes
  Codes = {"before", "after"}
  ManifestsAt <- Trees
  SourceFindings <- OfSource
  PackageFindings <- OfPackages
  RepoNotFound = "SOURCE_REPO_NOT_FOUND"
  MayFail <- Fragile
  Escaped <- Versions
  KnownOverrides <- BuiltIn
  Urls = {"u1"}
  HandWritten <- NoPolicies
  MaxTime = 1
  MaxCommands = 1
  MaxEdits = 0
  MaxTuned = 1
CHECK_DEADLOCK FALSE
INVARIANT
  InitReachesTriage

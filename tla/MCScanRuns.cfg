\* Two commands in a row on one tree, with a person who edits the policy or the
\* tree once, over two moments.
SPECIFICATION Spec
CONSTANTS
  RootKey <- Tree
  NoKey <- None
  Package <- Packages
  CategoriesOf <- Categories
  Glob <- Globs
  LengthOf <- Lengths
  SourceNames = {"source/tree"}
  EcosystemOf <- Ecosystems
  PurlOf <- Purls
  KeyOfPurl <- KeysOfPurls
  Covers <- Excludes
  Codes = {"before", "after"}
  ManifestsAt <- Trees
  SourceFindings <- OfSource
  PackageFindings <- OfPackages
  RepoNotFound = "SOURCE_REPO_NOT_FOUND"
  MayFail <- Fragile
  Escaped <- Versions
  KnownOverrides <- BuiltIn
  Urls = {"u1"}
  HandWritten <- Policies
  MaxTime = 1
  MaxCommands = 2
  MaxEdits = 1
  MaxTuned = 1
CHECK_DEADLOCK FALSE
INVARIANTS
  FindingsPointAtTheirLine
PROPERTIES
  PassMeansAccepted
  AcknowledgingIsExact
  TimeOnlyTightens
  BaselineAccepts

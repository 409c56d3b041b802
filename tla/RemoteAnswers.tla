--------------------------- MODULE RemoteAnswers ----------------------------
(***************************************************************************)
(* What registries and git servers answer, and what the clients of         *)
(* src/registry, src/language and src/git make of the answers.             *)
(*                                                                         *)
(* A package has two versions, in the order of their numbers.  Documents   *)
(* are reduced to the versions they list and the dates they give them.     *)
(***************************************************************************)
EXTENDS Integers, FiniteSets

CONSTANTS
  Never,       \* the age of something nobody dated
  Unlisted,    \* the age of a version the registry's index does not list
  Unreadable   \* the age of a version whose date does not parse

ASSUME AgeAssumption ==
  /\ Never # Unlisted /\ Never # Unreadable /\ Unlisted # Unreadable
  /\ Nat \intersect {Never, Unlisted, Unreadable} = {}

Versions == {1, 2}
AnyVersion == 0  \* no version is asked for, or named as the latest
MaybeVersion == Versions \union {AnyVersion}

Age == Nat \union {Never, Unlisted, Unreadable}

-----------------------------------------------------------------------------
(* Registries.  An endpoint answers with a document, with 404, or in any     *)
(* other way, no connection and a body that is not JSON included.            *)

Ecosystem == {"npm", "pypi", "rubygems"}

Answer == {"ok", "missing", "failing"}

Listing ==
  [index : Answer,                          \* of the package: all its versions
   exact : Answer,                          \* of the one version (PyPI, RubyGems)
   extra : Answer \union {"quarantined"},   \* the simple index of PyPI, a gem's owners
   latest : MaybeVersion,                   \* named the latest (npm, PyPI)
   age : [Versions -> Age],                 \* of each version, by the index
   prerelease : SUBSET Versions,            \* (RubyGems)
   release : Age \ {Unlisted}]              \* of the one version, by its document (RubyGems)

Listed(l) == {v \in Versions : l.age[v] # Unlisted}
Dated(l) == {v \in Versions : l.age[v] \in Nat}
SomeUnreadable(l) == \E v \in Versions : l.age[v] = Unreadable

\* A client returns the document, reports a 404, and fails on anything else.
FetchStatus(answer) ==
  CASE answer = "ok" -> "found" [] answer = "missing" -> "missing" [] OTHER -> "failed"

NpmResponse(l, asked) == FetchStatus(l.index)

PypiDetail(l, asked) == IF asked = AnyVersion THEN l.index ELSE l.exact

\* Only a quarantined project is told from a missing one; the failure of this
\* lookup is ignored.
ProjectStatus(l) == IF l.extra = "quarantined" THEN "quarantined" ELSE "missing"

\* The index is fetched besides the version, for the history of releases.
PypiResponse(l, asked) ==
  LET detail == PypiDetail(l, asked)
  IN IF "failing" \in {l.index, detail} THEN "failed"
     ELSE IF detail = "missing" THEN ProjectStatus(l)
     ELSE "found"

\* The document of a gem's version is completed by the owners, if there are any.
GemDocument(l) == IF l.exact = "ok" /\ l.extra = "failing" THEN "failing" ELSE l.exact

\* The list of versions comes first, and its 404 is an error.
GemResponse(l, asked) ==
  IF l.index # "ok" \/ (asked = AnyVersion /\ Listed(l) = {}) THEN "failed"
  ELSE FetchStatus(GemDocument(l))

Response(ecosystem, l, asked) ==
  CASE ecosystem = "npm" -> NpmResponse(l, asked)
    [] ecosystem = "pypi" -> PypiResponse(l, asked)
    [] ecosystem = "rubygems" -> GemResponse(l, asked)

\* ExtractPackageMetadata.  npm looks for the version in the index and reads the
\* dates of all versions, for the history of their publishers.
NpmMetadata(l, asked) ==
  LET target == IF asked = AnyVersion THEN l.latest ELSE asked
  IN IF target = AnyVersion THEN "garbled"
     ELSE IF target \notin Listed(l) THEN "version_not_found"
     ELSE IF SomeUnreadable(l) THEN "garbled" ELSE "success"

\* The document of one PyPI version has no releases, hence no dates.
PypiMetadata(l, asked) ==
  IF asked = AnyVersion /\ l.latest # AnyVersion /\ l.age[l.latest] = Unreadable
  THEN "garbled" ELSE "success"

GemMetadata(l, asked) == IF l.release = Unreadable THEN "garbled" ELSE "success"

Metadata(ecosystem, l, asked) ==
  CASE ecosystem = "npm" -> NpmMetadata(l, asked)
    [] ecosystem = "pypi" -> PypiMetadata(l, asked)
    [] ecosystem = "rubygems" -> GemMetadata(l, asked)

\* The age of the version the metadata is of, when the metadata could be read.
ReleaseAge(ecosystem, l, asked) ==
  LET target == IF asked = AnyVersion THEN l.latest ELSE asked
  IN IF ecosystem = "rubygems" THEN l.release
     ELSE IF (ecosystem = "pypi" /\ asked # AnyVersion) \/ target \notin Dated(l) THEN Never
     ELSE l.age[target]

\* ExtractVersionHistory: the versions of a history are dated; there is one at
\* least except for gems, whose lists keep everything but prereleases.
GemHistory(l) == Listed(l) \ l.prerelease

History(ecosystem, l) == IF ecosystem = "rubygems" THEN GemHistory(l) ELSE Dated(l)

HistoryIsGarbled(ecosystem, l) ==
  IF ecosystem = "rubygems" THEN ~ GemHistory(l) \subseteq Dated(l)
  ELSE l.index # "ok" \/ SomeUnreadable(l) \/ Dated(l) = {}

Highest(versions) == CHOOSE v \in versions : \A w \in versions : w <= v

\* The highest number of a gem, else the one the registry names, else the newest.
LatestVersion(ecosystem, l) ==
  LET versions == History(ecosystem, l)
  IN IF versions = {} THEN AnyVersion
     ELSE IF ecosystem = "rubygems" THEN Highest(versions)
     ELSE IF l.latest \in versions THEN l.latest
     ELSE CHOOSE v \in versions : \A w \in versions : l.age[v] <= l.age[w]

AgeIn(ecosystem, l, v) ==
  IF v \in History(ecosystem, l) THEN l.age[v] ELSE Unlisted

-----------------------------------------------------------------------------
(* Git servers.  "silent" is one that takes longer than lsRemoteTimeout.     *)

Reply ==
  {"head", "unsafe", "unknown_host", "unreachable", "absent", "denied", "silent", "broken"}

\* The git process is killed after the timeout, which its error does not say: the
\* case for context.DeadlineExceeded compares with an error that is wrapped by then.
ClassifyCloneError(reply, otherVCS) ==
  CASE reply = "unknown_host" -> "REPO_NOT_FOUND"
    [] reply = "unreachable" -> "NETWORK_TRANSIENT"
    [] reply = "absent" -> IF otherVCS THEN "UNSUPPORTED_VCS" ELSE "REPO_NOT_FOUND"
    [] reply = "denied" -> "PRIVATE_REPO"
    [] reply \in {"silent", "broken"} -> "GIT_ERROR"

\* Mutant: the server's trouble is taken for the repository's.
HandleResolveErrorSoft(type, token) == "skipped"

HandleResolveError(type, token) ==
  IF type = "NETWORK_TRANSIENT" \/ (type = "PRIVATE_REPO" /\ token) THEN "error"
  ELSE "skipped"

\* A URL that is not safe to hand to git is refused before anything is asked.
ResolveRemote(reply, otherVCS, token) ==
  IF reply = "head" THEN "success"
  ELSE IF reply = "unsafe" THEN "error"
  ELSE HandleResolveError(ClassifyCloneError(reply, otherVCS), token)
=============================================================================

--------------------------- MODULE RiskGuardNodes ---------------------------
(***************************************************************************)
(* What one analysis looks at, and the nodes that fetch and transform it   *)
(* (src/dag-impl, src/language/dag, src/provenance).  Registries, remotes  *)
(* and the files of a source tree are facts of a "world" that is fixed     *)
(* while the analysis runs; a node is an operator from the input and the   *)
(* outputs stored so far to its output.                                    *)
(*                                                                         *)
(* Names and URLs are compared after normalisation in the code and are     *)
(* canonical values here; dates are ages in whole days.  The clone and     *)
(* response caches are left out: a hit returns what the fetch would.       *)
(***************************************************************************)
EXTENDS RemoteAnswers, Sequences

CONSTANTS
  Package,     \* packages; a number is the place in the order of SortPackages
  EcosystemOf, \* the ecosystem of every package
  Repo,        \* canonical repository URLs
  LocalPath,   \* the path of a source on disk
  NoURL,       \* no URL
  NoName,      \* the name of a manifest that states none
  Worlds       \* the worlds an analysis may start in

MaybeRepo == Repo \union {NoURL}
MaybeURL == Repo \union {LocalPath, NoURL}

Commit == [author : STRING, age : Nat, bot : BOOLEAN]

Manifest == [name : Package \union {NoName}, dynamic : BOOLEAN, scripts : BOOLEAN,
             lockfile : BOOLEAN, broken : BOOLEAN]

\* One attestation: "unsigned" fails verification or is not a GitHub Actions
\* build, "other_digest" is signed for another artifact.
Bundle == [kind : {"malformed", "unsigned", "other_digest", "signed"},
           repo : MaybeRepo, commit : BOOLEAN]

RepoFacts ==
  [kind : {"remote"} \union {"plain", "git", "unusable"},  \* remote, or on disk
   reply : Reply, otherVCS : BOOLEAN,   \* of a remote
   origin : MaybeRepo,                  \* the origin remote of a source on disk
   unclonable : SUBSET {"head", "published", "metadata"},
   unreadable : BOOLEAN,                \* reading a tree fails
   log : Seq(Commit),                   \* git log --date-order
   manifests : [{"head", "published"} -> SUBSET Manifest],
   ci : BOOLEAN, license : BOOLEAN, security : BOOLEAN, orgSecurity : BOOLEAN,
   unsupported : BOOLEAN,
   policy : {"absent", "valid", "invalid", "unreadable"}]

\* The artifact at the download URL: "corrupt" is not what its hash says, and
\* "unhashed" has none that could tell.  What its archive says of scripts that run
\* at installation: it declares some or none, the manifest that would declare them
\* is "absent" (a package.json elsewhere than in package/), or is "garbled".
PackageFacts ==
  [listing : Listing, asked : MaybeVersion, private : BOOLEAN,
   url : MaybeRepo, rejected : BOOLEAN, license : BOOLEAN, malformed : BOOLEAN,
   advertised : BOOLEAN, readable : BOOLEAN, bundles : Seq(Bundle),
   gitHead : BOOLEAN, tag : BOOLEAN,
   artifact : {"nourl", "unreachable", "intact", "unhashed", "corrupt"},
   scripts : {"some", "none", "absent", "garbled"}]

Input == [key : {"source", "package"}, url : MaybeURL, packages : SUBSET Package,
          trusted : BOOLEAN, token : BOOLEAN]

World == [input : Input, rootPolicy : BOOLEAN, repo : RepoFacts,
          pkg : [Package -> PackageFacts]]

ASSUME WorldAssumption ==
  /\ Package \subseteq Nat /\ IsFiniteSet(Package)
  /\ EcosystemOf \in [Package -> Ecosystem]
  /\ LocalPath \notin Repo /\ NoURL \notin Repo \union {LocalPath}
  /\ NoName \notin Package
  /\ Worlds \subseteq World

\* An analysis is asked for a source or for packages, and a source is a remote or
\* a path on disk.
Askable(w) ==
  /\ \/ w.input.key = "source" /\ w.input.url # NoURL /\ w.input.packages = {}
     \/ w.input.key = "package" /\ w.input.url = NoURL /\ w.input.packages # {}
  /\ w.repo.kind = "remote" <=> w.input.url # LocalPath

ASSUME InputAssumption == \A w \in Worlds : Askable(w)

VARIABLES
  world,  \* the facts the nodes find
  input,  \* the input the nodes are given
  out     \* the output of every node

Reason ==
  {"none", "no-attestation", "malformed-bundle", "invalid-signature", "digest-mismatch",
   "repo-mismatch"}

Provenance == [verified : BOOLEAN, reason : Reason, repo : MaybeRepo, commit : BOOLEAN]

NoProvenance(reason) ==
  [verified |-> FALSE, reason |-> reason, repo |-> NoURL, commit |-> FALSE]

Output ==
  [status : {"none", "success", "skipped", "error"},
   check : {"none", "compliant", "violation", "skipped"},
   url : MaybeURL, tree : {"none", "head", "published"},
   pin : {"none", "head", "tag", "gitHead", "provenance"},
   packages : SUBSET Package, manifests : SUBSET Manifest,
   provenance : Provenance, found : BOOLEAN,
   policy : {"none", "root", "default", "file", "invalid"}]

Blank(status) ==
  [status |-> status, check |-> "none", url |-> NoURL, tree |-> "none", pin |-> "none",
   packages |-> {}, manifests |-> {}, provenance |-> NoProvenance("no-attestation"),
   found |-> FALSE, policy |-> "none"]

Success == Blank("success")
Skipped == Blank("skipped")
Failed == Blank("error")

Ok(n) == out[n].status = "success"
HasURL == input.url # NoURL
IsLocal == world.input.url = LocalPath
Log == world.repo.log

-----------------------------------------------------------------------------
(* Resolving and cloning the source. *)

ResolveStatus(repo) ==
  CASE repo.kind \in {"plain", "git"} -> "success"
    [] repo.kind = "unusable" -> "skipped"
    [] repo.kind = "remote" -> ResolveRemote(repo.reply, repo.otherVCS, world.input.token)

\* A repository on disk without a commit has no HEAD to resolve.
GitResolve ==
  IF ~ HasURL THEN Skipped
  ELSE IF world.repo.kind = "git" /\ Log = <<>> THEN Failed
  ELSE LET status == ResolveStatus(world.repo)
       IN [Blank(status) EXCEPT
             !.url = IF ~ IsLocal /\ status = "success" THEN input.url ELSE NoURL]

Materialize(tree) ==
  IF ~ IsLocal /\ tree \in world.repo.unclonable THEN Failed
  ELSE [Success EXCEPT !.tree = tree]

\* An empty remote resolves, but has no HEAD to check out.
GitCloneContent ==
  IF ~ HasURL THEN Skipped
  ELSE IF ~ IsLocal /\ Log = <<>> THEN Failed
  ELSE Materialize("head")

GitCloneMetadata ==
  IF ~ HasURL \/ world.repo.kind = "plain" THEN Skipped
  ELSE IF "metadata" \in world.repo.unclonable THEN Failed
  ELSE Success

-----------------------------------------------------------------------------
(* Registry answers. *)

\* The version that is asked for: none for the packages a source declares.
Asked(p) == IF input.key = "package" THEN world.pkg[p].asked ELSE AnyVersion
Pinned(p) == Asked(p) # AnyVersion
Private(p) == input.key = "source" /\ world.pkg[p].private

\* Mutant: a manifest without a name contributes a package too.
NamedOrNot(manifests) ==
  IF input.key = "source" THEN {m.name : m \in manifests} ELSE {}

\* Only manifests that state a name contribute a package, and only when a
\* source was asked for.
Named(manifests) ==
  IF input.key = "source" THEN {m.name : m \in manifests} \ {NoName} ELSE {}

Detected(tree) ==
  IF world.repo.unreadable THEN Failed
  ELSE [Success EXCEPT !.manifests = world.repo.manifests[tree]]

PackageDetector ==
  LET found == Detected("head")
  IN [found EXCEPT !.packages = Named(found.manifests)]

Responded(p) == Response(EcosystemOf[p], world.pkg[p].listing, Asked(p))
MetadataOf(p) == Metadata(EcosystemOf[p], world.pkg[p].listing, Asked(p))

Fetcher ==
  IF input.packages = {} THEN Skipped
  ELSE IF \E p \in input.packages : Responded(p) = "failed" THEN Failed
  ELSE [Success EXCEPT !.packages = input.packages]

\* The loop both transformers share: only a 200 answer is parsed.
Transformed(garbled) ==
  LET answered == {p \in input.packages : Responded(p) = "found"}
  IN IF answered = {} THEN Skipped
     ELSE IF answered \intersect garbled # {} THEN Failed
     ELSE [Success EXCEPT !.packages = answered]

\* What the metadata of p holds; that of a version npm does not list holds no
\* more than its name, and only npm has attestations and source commits.
Facts(p) ==
  LET npm == EcosystemOf[p] = "npm"
      facts == world.pkg[p]
  IN IF MetadataOf(p) = "success"
     THEN [facts EXCEPT !.advertised = @ /\ npm, !.gitHead = @ /\ npm]
     ELSE [facts EXCEPT !.url = NoURL, !.rejected = FALSE, !.license = FALSE,
             !.malformed = FALSE, !.advertised = FALSE, !.gitHead = FALSE,
             !.artifact = "nourl"]

Transformer ==
  LET base == Transformed({p \in input.packages : MetadataOf(p) = "garbled"})
      urls == {Facts(p).url : p \in base.packages} \ {NoURL}
  IN IF base.status # "success" THEN base
     ELSE IF HasURL THEN [base EXCEPT !.url = input.url]
     ELSE IF Cardinality(urls) > 1 THEN Failed
     ELSE [base EXCEPT !.url = IF urls = {} THEN NoURL ELSE CHOOSE u \in urls : TRUE]

VersionTransformer ==
  Transformed({p \in input.packages :
                 HistoryIsGarbled(EcosystemOf[p], world.pkg[p].listing)})

\* The packages of the input that have metadata.
Described == input.packages \intersect out["transformer"].packages

\* No artifact is wanted of a package without metadata or download URL.
ArtifactFetch ==
  LET wanted == {p \in Described : Facts(p).artifact # "nourl"}
  IN IF \E p \in wanted : Facts(p).artifact = "unreachable" THEN Failed
     ELSE IF wanted = {} THEN Skipped
     ELSE [Success EXCEPT !.packages = wanted]

-----------------------------------------------------------------------------
(* Build provenance, and the tree a version was published from. *)

First(S) == CHOOSE i \in S : \A j \in S : i <= j

\* SigstoreVerifier.Verify: the first trusted attestation decides.
Verify(bundles) ==
  LET kinds == {bundles[i].kind : i \in DOMAIN bundles}
      trusted == {i \in DOMAIN bundles : bundles[i].kind \in {"signed", "other_digest"}}
      first == bundles[First(trusted)]
  IN IF trusted # {}
     THEN [verified |-> first.kind = "signed", repo |-> first.repo, commit |-> first.commit,
           reason |-> IF first.kind = "signed" THEN "none" ELSE "digest-mismatch"]
     ELSE IF "unsigned" \in kinds THEN NoProvenance("invalid-signature")
     ELSE IF "malformed" \in kinds THEN NoProvenance("malformed-bundle")
     ELSE NoProvenance("no-attestation")

\* Mutant: an attestation is trusted whatever repository it names.
SameRepoUnchecked(attested, declared) == TRUE

SameRepo(attested, declared) ==
  attested # NoURL /\ declared # NoURL /\ attested = declared

\* Only the first package that advertises an attestation is verified.
ProvenanceVerify ==
  LET advertising == {p \in Described : Facts(p).advertised}
      first == world.pkg[First(advertising)]
      res == IF first.readable THEN Verify(first.bundles)
             ELSE NoProvenance("no-attestation")
      mismatch == res.verified /\ ~ SameRepo(res.repo, out["git_resolve"].url)
  IN IF advertising = {} THEN Success
     ELSE [Success EXCEPT !.provenance =
             IF mismatch THEN [res EXCEPT !.verified = FALSE, !.reason = "repo-mismatch"]
             ELSE res]

\* A release tag is looked up by the version of the metadata or of the input.
PublishedPin ==
  LET attested == out["provenance_verify"].provenance
  IN IF attested.verified /\ attested.commit THEN "provenance"
     ELSE IF \E p \in Described : Facts(p).gitHead THEN "gitHead"
     ELSE IF \E p \in input.packages : (p \in Described \/ Pinned(p)) /\ world.pkg[p].tag
     THEN "tag" ELSE "none"

GitClonePublishedContent ==
  LET tree == Materialize("published")
  IN IF ~ HasURL \/ IsLocal \/ PublishedPin = "none" \/ tree.status = "error"
     THEN Skipped
     ELSE [tree EXCEPT !.pin = PublishedPin]

PackageDetectorPublished ==
  LET published == out["git_clone_published_content"]
  IN IF published.status # "success" \/ published.tree = "none"
     THEN [Blank(out["package_detector"].status) EXCEPT
             !.manifests = out["package_detector"].manifests, !.pin = "head"]
     ELSE [Detected("published") EXCEPT !.pin = published.pin]

-----------------------------------------------------------------------------
(* The other readers of the tree. *)

TreeScan(found) ==
  IF world.repo.unreadable THEN Failed ELSE [Success EXCEPT !.found = found]

LicenseFiles == TreeScan(world.repo.license)
UnsupportedManifests == TreeScan(world.repo.unsupported)

OrgSecurityPolicy == [Success EXCEPT !.found = HasURL /\ world.repo.orgSecurity]

DepsExtractor == Success

PolicyLoader ==
  LET Loaded(policy) == [Success EXCEPT !.policy = policy]
  IN IF world.rootPolicy THEN Loaded("root")
     ELSE IF ~ input.trusted THEN Loaded("default")
     ELSE CASE world.repo.policy = "absent" -> Loaded("default")
            [] world.repo.policy = "valid" -> Loaded("file")
            [] world.repo.policy = "invalid" -> Loaded("invalid")
            [] world.repo.policy = "unreadable" -> Failed
=============================================================================

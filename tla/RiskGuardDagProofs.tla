------------------------- MODULE RiskGuardDagProofs -------------------------
(***************************************************************************)
(* The graph of an analysis in every world, not only in those TLC tries.   *)
(*                                                                         *)
(* It is runnable: a set of nodes that holds a node as soon as it holds    *)
(* all of its dependencies holds them all.  And it is coherent: every      *)
(* output stored is the one its node would return now.  A step changes the *)
(* input while outputs made from a smaller one are kept, so the proof has  *)
(* a frame lemma per group of nodes: what a node reads, of the world, the  *)
(* input and other outputs, no step changes once its dependencies have     *)
(* run.  From this invariant follow the reasons a node may fail for here,  *)
(* and what the checks report in RiskGuardFindingsProofs.                  *)
(***************************************************************************)
EXTENDS RiskGuardDag, FiniteSetTheorems, WellFoundedInduction, TLAPS

Closed(D) == \A n \in Node : Deps(n) \subseteq D => n \in D

LEMMA ClosedStep ==
  ASSUME NEW D, Closed(D), NEW n \in Node, Deps(n) \subseteq D
  PROVE  n \in D
  BY DEF Closed

\* The nodes whose dependencies depend on the input are in it, whatever the
\* input is.
LEMMA ConditionalNodes ==
  ASSUME NEW D, Closed(D)
  PROVE  {"git_resolve", "fetcher", "transformer"} \subseteq D
<1>1. /\ Deps("transformer") = {"fetcher"} /\ "transformer" \in Node
      /\ Deps("git_clone_content") = {"git_resolve"} /\ "git_clone_content" \in Node
      /\ Deps("package_detector") = {"git_clone_content"} /\ "package_detector" \in Node
      /\ "git_resolve" \in Node /\ "fetcher" \in Node
  BY DEF Deps, Node, FixedDeps
<1>2. Deps("git_resolve") = GitResolveDeps /\ Deps("fetcher") = FetcherDeps
  BY DEF Deps
<1>3. CASE world.input.url # NoURL
  <2>1. GitResolveDeps = {} /\ FetcherDeps = {"package_detector"}
    BY <1>3 DEF GitResolveDeps, FetcherDeps
  <2>2. "git_resolve" \in D            BY <1>1, <1>2, <2>1, ClosedStep
  <2>3. "git_clone_content" \in D      BY <1>1, <2>2, ClosedStep
  <2>4. "package_detector" \in D       BY <1>1, <2>3, ClosedStep
  <2>5. "fetcher" \in D                BY <1>1, <1>2, <2>1, <2>4, ClosedStep
  <2>6. "transformer" \in D            BY <1>1, <2>5, ClosedStep
  <2> QED BY <2>2, <2>5, <2>6
<1>4. CASE world.input.url = NoURL
  <2>1. FetcherDeps = {} /\ GitResolveDeps \subseteq {"transformer"}
    BY <1>4 DEF GitResolveDeps, FetcherDeps
  <2>2. "fetcher" \in D                BY <1>1, <1>2, <2>1, ClosedStep
  <2>3. "transformer" \in D            BY <1>1, <2>2, ClosedStep
  <2>4. "git_resolve" \in D            BY <1>1, <1>2, <2>1, <2>3, ClosedStep
  <2> QED BY <2>2, <2>3, <2>4
<1> QED BY <1>3, <1>4

\* The nodes other nodes depend on, layer by layer.
LEMMA Acyclic ==
  ASSUME NEW D, Closed(D)
  PROVE  Node \subseteq D
<1> DEFINE Roots == {"git_resolve", "fetcher", "transformer"}
           Layer1 == {"git_clone_content", "git_clone_metadata", "org_security_policy",
                      "provenance_verify", "version_transformer", "artifact_fetch"}
           Layer2 == {"git_clone_published_content", "package_detector", "license_files",
                      "unsupported_manifests", "package_invalid_artifact",
                      "source_repo_stale", "source_repo_abandoned"}
           Layer3 == {"package_detector_published"}
<1>1. Roots \subseteq D
  BY ConditionalNodes
<1>2. \A n \in Layer1 : n \in Node /\ Deps(n) \subseteq Roots
  BY DEF Deps, Node, FixedDeps
<1>3. Layer1 \subseteq D
  BY <1>1, <1>2, ClosedStep
<1>4. \A n \in Layer2 : n \in Node /\ Deps(n) \subseteq Roots \union Layer1
  BY DEF Deps, Node, FixedDeps
<1>5. Layer2 \subseteq D
  BY <1>1, <1>3, <1>4, ClosedStep
<1>6. \A n \in Layer3 : n \in Node /\ Deps(n) \subseteq Roots \union Layer1 \union Layer2
  BY DEF Deps, Node, FixedDeps
<1>7. Layer3 \subseteq D
  BY <1>1, <1>3, <1>5, <1>6, ClosedStep
<1>8. \A n \in Node \ Roots : Deps(n) \subseteq Roots \union Layer1 \union Layer2 \union Layer3
  BY DEF Deps, Node, FixedDeps
<1> QED BY <1>1, <1>3, <1>5, <1>7, <1>8, ClosedStep

\* An analysis under way always has a node to run until all are done, for every
\* input and whatever the nodes answer.
THEOREM NeverStuck == Spec => []GraphIsRunnable
<1>1. GraphIsRunnable
  <2> SUFFICES ASSUME Ready = {}
               PROVE  \A n \in Node : Done(n)
    BY DEF GraphIsRunnable
  <2> DEFINE D == {n \in Node : Done(n)}
  <2>1. Closed(D)
    BY DEF Closed, Ready
  <2> QED BY <2>1, Acyclic
<1> QED BY <1>1, PTL

-----------------------------------------------------------------------------
(* Types: every node returns an output. *)

Statuses == {"none", "success", "skipped", "error"}
Pins == {"none", "head", "tag", "gitHead", "provenance"}

LEMMA NoProvenanceType ==
  ASSUME NEW reason \in Reason
  PROVE  NoProvenance(reason) \in Provenance
  BY DEF NoProvenance, Provenance, MaybeRepo

LEMMA BlankType ==
  ASSUME NEW s \in Statuses
  PROVE  Blank(s) \in Output /\ Blank(s).status = s
<1>1. NoProvenance("no-attestation") \in Provenance
  BY NoProvenanceType DEF Reason
<1>2. Blank(s).status = s
  BY DEF Blank
<1> QED BY <1>1, <1>2 DEF Blank, Output, MaybeURL, Statuses

LEMMA BasicOutputs ==
  /\ {Success, Skipped, Failed} \subseteq Output
  /\ Success.status = "success" /\ Skipped.status = "skipped" /\ Failed.status = "error"
  BY BlankType DEF Success, Skipped, Failed, Statuses

LEMMA OutputUpdates ==
  ASSUME NEW o \in Output
  PROVE  /\ \A c \in {"none", "compliant", "violation", "skipped"} :
              [o EXCEPT !.check = c] \in Output
         /\ \A u \in MaybeURL : [o EXCEPT !.url = u] \in Output
         /\ \A t \in {"none", "head", "published"} : [o EXCEPT !.tree = t] \in Output
         /\ \A p \in Pins : [o EXCEPT !.pin = p] \in Output
         /\ \A ps \in SUBSET Package : [o EXCEPT !.packages = ps] \in Output
         /\ \A ms \in SUBSET Manifest : [o EXCEPT !.manifests = ms] \in Output
         /\ \A ms \in SUBSET Manifest, p \in Pins :
              [o EXCEPT !.manifests = ms, !.pin = p] \in Output
         /\ \A p \in Provenance : [o EXCEPT !.provenance = p] \in Output
         /\ \A f \in BOOLEAN : [o EXCEPT !.found = f] \in Output
         /\ \A p \in {"none", "root", "default", "file", "invalid"} :
              [o EXCEPT !.policy = p] \in Output
  BY DEF Output, Pins

LEMMA WorldTypes ==
  ASSUME TypeOK
  PROVE  /\ world.input \in Input /\ world.repo \in RepoFacts
         /\ \A p \in Package : world.pkg[p] \in PackageFacts
         /\ input.url \in MaybeURL /\ input.packages \subseteq Package
         /\ \A n \in Node : out[n] \in Output
  BY DEF TypeOK, World, Input

\* A non-empty set of numbers has a first one.
LEMMA FirstIsLeast ==
  ASSUME NEW S \in SUBSET Nat, S # {}
  PROVE  First(S) \in S /\ \A j \in S : First(S) <= j
<1> DEFINE Less == {ss \in Nat \X Nat : ss[1] < ss[2]}
<1>1. IsWellFoundedOn(Less, Nat)
  BY NatLessThanWellFounded, Zenon DEF OpToRel
<1>2. PICK i \in S : \A j \in S : ~ (<<j, i>> \in Less)
  <2> HIDE DEF Less
  <2> QED BY <1>1, WFMin
<1>3. \A j \in S : i <= j
  <2>1. SUFFICES ASSUME NEW j \in S, ~ i <= j
                 PROVE  FALSE
    OBVIOUS
  <2>2. j < i
    BY <2>1
  <2>3. <<j, i>> \in Less
    BY <2>2
  <2> QED BY <1>2, <2>3
<1> QED BY <1>3 DEF First

LEMMA GitTypes ==
  ASSUME TypeOK
  PROVE  {GitResolve, GitCloneContent, GitCloneMetadata} \subseteq Output
<1>1. ResolveStatus(world.repo) \in Statuses
  BY WorldTypes DEF RepoFacts, ResolveStatus, ResolveRemote, Reply, HandleResolveError,
     ClassifyCloneError, Statuses
<1>2. GitResolve \in Output
  BY <1>1, WorldTypes, BlankType, BasicOutputs, OutputUpdates DEF GitResolve, MaybeURL
<1>3. GitCloneContent \in Output
  BY BasicOutputs, OutputUpdates DEF GitCloneContent, Materialize
<1>4. GitCloneMetadata \in Output
  BY BasicOutputs DEF GitCloneMetadata
<1> QED BY <1>2, <1>3, <1>4

LEMMA TransformedType ==
  ASSUME TypeOK, NEW garbled
  PROVE  Transformed(garbled) \in Output
<1>1. {p \in input.packages : Responded(p) = "found"} \in SUBSET Package
  BY WorldTypes
<1> QED BY <1>1, BasicOutputs, OutputUpdates DEF Transformed

\* What the transformer is made of.
TransformerBase == Transformed({p \in input.packages : MetadataOf(p) = "garbled"})
TransformerURLs == {Facts(p).url : p \in TransformerBase.packages} \ {NoURL}
TransformerURL ==
  IF TransformerURLs = {} THEN NoURL ELSE CHOOSE u \in TransformerURLs : TRUE

LEMMA TransformerIs ==
  Transformer =
    IF TransformerBase.status # "success" THEN TransformerBase
    ELSE IF HasURL THEN [TransformerBase EXCEPT !.url = input.url]
    ELSE IF Cardinality(TransformerURLs) > 1 THEN Failed
    ELSE [TransformerBase EXCEPT !.url = TransformerURL]
  BY DEF Transformer, TransformerBase, TransformerURLs, TransformerURL

LEMMA FactsURL ==
  ASSUME TypeOK, NEW p \in Package
  PROVE  Facts(p).url \in MaybeRepo /\ (Facts(p).url # NoURL => Facts(p).url = world.pkg[p].url)
  BY WorldTypes DEF Facts, PackageFacts, MaybeRepo

LEMMA TransformerTypes ==
  ASSUME TypeOK
  PROVE  /\ TransformerBase \in Output
         /\ TransformerURLs \subseteq Repo /\ TransformerURL \in MaybeRepo
         /\ Transformer \in Output
<1>1. TransformerBase \in Output
  BY TransformedType DEF TransformerBase
<1>2. TransformerURLs \subseteq Repo
  BY <1>1, FactsURL DEF TransformerURLs, Output, MaybeRepo
<1>3. TransformerURL \in MaybeRepo
  BY <1>2 DEF TransformerURL, MaybeRepo
<1>4. Transformer \in Output
  <2>1. TransformerURL \in MaybeURL
    BY <1>3 DEF MaybeRepo, MaybeURL
  <2> QED BY <1>1, <2>1, WorldTypes, TransformerIs, BasicOutputs, OutputUpdates
<1> QED BY <1>1, <1>2, <1>3, <1>4

LEMMA RegistryTypes ==
  ASSUME TypeOK
  PROVE  {Fetcher, VersionTransformer, ArtifactFetch} \subseteq Output
<1>1. Fetcher \in Output
  BY WorldTypes, BasicOutputs, OutputUpdates DEF Fetcher
<1>2. VersionTransformer \in Output
  BY TransformedType DEF VersionTransformer
<1>3. ArtifactFetch \in Output
  <2>1. {p \in Described : Facts(p).artifact # "nourl"} \in SUBSET Package
    BY WorldTypes DEF Described
  <2> QED BY <2>1, BasicOutputs, OutputUpdates DEF ArtifactFetch
<1> QED BY <1>1, <1>2, <1>3

\* The attestations that decide, and the first of them.
Trusted(bundles) == {i \in DOMAIN bundles : bundles[i].kind \in {"signed", "other_digest"}}

LEMMA TrustedIsFirst ==
  ASSUME NEW bundles \in Seq(Bundle), Trusted(bundles) # {}
  PROVE  First(Trusted(bundles)) \in Trusted(bundles)
<1>1. Trusted(bundles) \in SUBSET Nat
  BY DEF Trusted
<1> QED BY <1>1, FirstIsLeast

LEMMA VerifyType ==
  ASSUME NEW bundles \in Seq(Bundle)
  PROVE  Verify(bundles) \in Provenance
<1> DEFINE first == bundles[First(Trusted(bundles))]
<1>1. CASE Trusted(bundles) # {}
  <2>1. first \in Bundle
    BY <1>1, TrustedIsFirst DEF Trusted
  <2>2. Verify(bundles) =
          [verified |-> first.kind = "signed", repo |-> first.repo, commit |-> first.commit,
           reason |-> IF first.kind = "signed" THEN "none" ELSE "digest-mismatch"]
    BY <1>1 DEF Verify, Trusted
  <2> QED BY <2>1, <2>2 DEF Bundle, Provenance, Reason
<1>2. CASE Trusted(bundles) = {}
  <2>1. Verify(bundles) \in {NoProvenance("invalid-signature"),
                             NoProvenance("malformed-bundle"), NoProvenance("no-attestation")}
    BY <1>2 DEF Verify, Trusted
  <2> QED BY <2>1, NoProvenanceType DEF Reason
<1> QED BY <1>1, <1>2

\* The packages whose attestations might be judged, and what is made of them.
Advertising == {p \in Described : Facts(p).advertised}
FirstAdvertising == world.pkg[First(Advertising)]
Verified ==
  IF FirstAdvertising.readable THEN Verify(FirstAdvertising.bundles)
  ELSE NoProvenance("no-attestation")

LEMMA ProvenanceVerifyIs ==
  ProvenanceVerify =
    IF Advertising = {} THEN Success
    ELSE [Success EXCEPT !.provenance =
            IF Verified.verified /\ ~ SameRepo(Verified.repo, out["git_resolve"].url)
            THEN [Verified EXCEPT !.verified = FALSE, !.reason = "repo-mismatch"]
            ELSE Verified]
  BY DEF ProvenanceVerify, Advertising, FirstAdvertising, Verified

LEMMA AdvertisingTypes ==
  ASSUME TypeOK, Advertising # {}
  PROVE  /\ First(Advertising) \in Advertising
         /\ FirstAdvertising \in PackageFacts
         /\ Verified \in Provenance
<1>1. Advertising \subseteq Package
  BY WorldTypes DEF Advertising, Described
<1>2. First(Advertising) \in Advertising
  BY <1>1, FirstIsLeast, WorldAssumption
<1>3. FirstAdvertising \in PackageFacts
  BY <1>1, <1>2, WorldTypes DEF FirstAdvertising
<1>4. Verified \in Provenance
  <2>1. NoProvenance("no-attestation") \in Provenance
    BY NoProvenanceType DEF Reason
  <2>2. FirstAdvertising.bundles \in Seq(Bundle)
    BY <1>3 DEF PackageFacts
  <2> QED BY <2>1, <2>2, VerifyType DEF Verified
<1> QED BY <1>2, <1>3, <1>4

LEMMA ProvenanceTypes ==
  ASSUME TypeOK
  PROVE  {ProvenanceVerify, GitClonePublishedContent, PackageDetector,
          PackageDetectorPublished} \subseteq Output
<1>1. ProvenanceVerify \in Output
  <2>1. CASE Advertising = {}
    BY <2>1, ProvenanceVerifyIs, BasicOutputs
  <2>2. CASE Advertising # {}
    <3>1. Verified \in Provenance
      BY <2>2, AdvertisingTypes
    <3>2. [Verified EXCEPT !.verified = FALSE, !.reason = "repo-mismatch"] \in Provenance
      BY <3>1 DEF Provenance, Reason
    <3> QED BY <2>2, <3>1, <3>2, ProvenanceVerifyIs, BasicOutputs, OutputUpdates
  <2> QED BY <2>1, <2>2
<1>2. GitClonePublishedContent \in Output
  <2>1. PublishedPin \in Pins
    BY DEF PublishedPin, Pins
  <2>2. Materialize("published") \in Output
    BY BasicOutputs, OutputUpdates DEF Materialize
  <2> QED BY <2>1, <2>2, BasicOutputs, OutputUpdates DEF GitClonePublishedContent
<1>3. \A tree \in {"head", "published"} : Detected(tree) \in Output
  BY WorldTypes, BasicOutputs, OutputUpdates DEF Detected, RepoFacts
<1>4. PackageDetector \in Output
  <2>1. \A ms \in SUBSET Manifest : Named(ms) \in SUBSET Package
    BY DEF Named, Manifest
  <2>2. Detected("head").manifests \in SUBSET Manifest
    BY <1>3 DEF Output
  <2> QED BY <1>3, <2>1, <2>2, OutputUpdates DEF PackageDetector
<1>5. PackageDetectorPublished \in Output
  <2>1. /\ out["package_detector"] \in Output
        /\ out["git_clone_published_content"] \in Output
    BY WorldTypes DEF Node, FixedDeps
  <2>2. Blank(out["package_detector"].status) \in Output
    BY <2>1, BlankType DEF Output, Statuses
  <2>3. out["package_detector"].manifests \in SUBSET Manifest
    BY <2>1 DEF Output
  <2>4. out["git_clone_published_content"].pin \in Pins
    BY <2>1 DEF Output, Pins
  <2> QED BY <1>3, <2>2, <2>3, <2>4, OutputUpdates DEF PackageDetectorPublished, Pins
<1> QED BY <1>1, <1>2, <1>4, <1>5

LEMMA ReaderTypes ==
  ASSUME TypeOK
  PROVE  {LicenseFiles, UnsupportedManifests, OrgSecurityPolicy, DepsExtractor,
          PolicyLoader} \subseteq Output
<1>1. \A f \in BOOLEAN : TreeScan(f) \in Output
  BY BasicOutputs, OutputUpdates DEF TreeScan
<1>2. LicenseFiles \in Output /\ UnsupportedManifests \in Output
  BY <1>1, WorldTypes DEF LicenseFiles, UnsupportedManifests, RepoFacts
<1>3. OrgSecurityPolicy \in Output
  BY WorldTypes, BasicOutputs, OutputUpdates DEF OrgSecurityPolicy, RepoFacts
<1>4. PolicyLoader \in Output
  BY WorldTypes, BasicOutputs, OutputUpdates DEF PolicyLoader, RepoFacts
<1> QED BY <1>2, <1>3, <1>4, BasicOutputs DEF DepsExtractor

-----------------------------------------------------------------------------
(* The nodes by name. *)

LEMMA ProducersAre ==
  /\ Producers \subseteq Node /\ Node = Producers \union Checks
  /\ Execute("git_resolve") = GitResolve
  /\ Execute("git_clone_content") = GitCloneContent
  /\ Execute("git_clone_metadata") = GitCloneMetadata
  /\ Execute("provenance_verify") = ProvenanceVerify
  /\ Execute("git_clone_published_content") = GitClonePublishedContent
  /\ Execute("org_security_policy") = OrgSecurityPolicy
  /\ Execute("package_detector") = PackageDetector
  /\ Execute("package_detector_published") = PackageDetectorPublished
  /\ Execute("license_files") = LicenseFiles
  /\ Execute("policy_loader") = PolicyLoader
  /\ Execute("unsupported_manifests") = UnsupportedManifests
  /\ Execute("fetcher") = Fetcher
  /\ Execute("transformer") = Transformer
  /\ Execute("version_transformer") = VersionTransformer
  /\ Execute("artifact_fetch") = ArtifactFetch
  /\ Execute("deps_extractor") = DepsExtractor
  BY DEF Producers, Checks, Node, FixedDeps, Execute

LEMMA ChecksAre ==
  /\ Checks =
       {"source_repo_not_found", "source_malformed_metadata", "package_no_license",
        "package_registry_mismatch", "package_registry_quarantined",
        "package_unsafe_source_url", "package_source_url_mismatch",
        "package_name_mismatch", "package_unreleased_changes", "package_stale_release",
        "package_release_cooldown", "package_malformed_dependencies",
        "package_invalid_artifact", "source_no_human_commits",
        "source_no_security_policy", "source_no_ci", "package_dynamic_name",
        "package_install_scripts", "package_name_unexported", "source_few_contributors",
        "source_repo_new", "source_single_contributor", "source_repo_abandoned",
        "source_repo_stale", "source_no_license", "source_unsupported_manifest_file",
        "source_manifest_without_lockfile"}
  /\ Execute("source_repo_not_found") = SourceRepoNotFound
  /\ Execute("source_malformed_metadata") = SourceMalformedMetadata
  /\ Execute("package_no_license") = PackageNoLicense
  /\ Execute("package_registry_mismatch") = PackageRegistryMismatch
  /\ Execute("package_registry_quarantined") = PackageRegistryQuarantined
  /\ Execute("package_unsafe_source_url") = PackageUnsafeSourceURL
  /\ Execute("package_source_url_mismatch") = PackageSourceURLMismatch
  /\ Execute("package_name_mismatch") = PackageNameMismatch
  /\ Execute("package_unreleased_changes") = PackageUnreleasedChanges
  /\ Execute("package_stale_release") = PackageStaleRelease
  /\ Execute("package_release_cooldown") = PackageReleaseCooldown
  /\ Execute("package_malformed_dependencies") = PackageMalformedDependencies
  /\ Execute("package_invalid_artifact") = PackageInvalidArtifact
  /\ Execute("source_no_human_commits") = SourceNoHumanCommits
  /\ Execute("source_no_security_policy") = SourceNoSecurityPolicy
  /\ Execute("source_no_ci") = SourceNoCI
  /\ Execute("package_dynamic_name") = PackageDynamicName
  /\ Execute("package_install_scripts") = PackageInstallScripts
  /\ Execute("package_name_unexported") = PackageNameUnexported
  /\ Execute("source_few_contributors") = SourceFewContributors
  /\ Execute("source_repo_new") = SourceRepoNew
  /\ Execute("source_single_contributor") = SourceSingleContributor
  /\ Execute("source_repo_abandoned") = SourceRepoAbandoned
  /\ Execute("source_repo_stale") = SourceRepoStale
  /\ Execute("source_no_license") = SourceNoLicense
  /\ Execute("source_unsupported_manifest_file") = SourceUnsupportedManifestFile
  /\ Execute("source_manifest_without_lockfile") = SourceManifestWithoutLockfile
  BY DEF Producers, Checks, Node, FixedDeps, Execute

\* The same of the next state, where they are cited in the frame of a step.
LEMMA NodesAreNext ==
  /\ Execute("git_resolve")' = GitResolve'
  /\ Execute("git_clone_content")' = GitCloneContent'
  /\ Execute("git_clone_metadata")' = GitCloneMetadata'
  /\ Execute("provenance_verify")' = ProvenanceVerify'
  /\ Execute("git_clone_published_content")' = GitClonePublishedContent'
  /\ Execute("org_security_policy")' = OrgSecurityPolicy'
  /\ Execute("package_detector")' = PackageDetector'
  /\ Execute("package_detector_published")' = PackageDetectorPublished'
  /\ Execute("license_files")' = LicenseFiles'
  /\ Execute("policy_loader")' = PolicyLoader'
  /\ Execute("unsupported_manifests")' = UnsupportedManifests'
  /\ Execute("fetcher")' = Fetcher'
  /\ Execute("transformer")' = Transformer'
  /\ Execute("version_transformer")' = VersionTransformer'
  /\ Execute("artifact_fetch")' = ArtifactFetch'
  /\ Execute("deps_extractor")' = DepsExtractor'
  /\ Execute("source_repo_not_found")' = SourceRepoNotFound'
  /\ Execute("source_malformed_metadata")' = SourceMalformedMetadata'
  /\ Execute("package_no_license")' = PackageNoLicense'
  /\ Execute("package_registry_mismatch")' = PackageRegistryMismatch'
  /\ Execute("package_registry_quarantined")' = PackageRegistryQuarantined'
  /\ Execute("package_unsafe_source_url")' = PackageUnsafeSourceURL'
  /\ Execute("package_source_url_mismatch")' = PackageSourceURLMismatch'
  /\ Execute("package_name_mismatch")' = PackageNameMismatch'
  /\ Execute("package_unreleased_changes")' = PackageUnreleasedChanges'
  /\ Execute("package_stale_release")' = PackageStaleRelease'
  /\ Execute("package_release_cooldown")' = PackageReleaseCooldown'
  /\ Execute("package_malformed_dependencies")' = PackageMalformedDependencies'
  /\ Execute("package_invalid_artifact")' = PackageInvalidArtifact'
  /\ Execute("source_no_human_commits")' = SourceNoHumanCommits'
  /\ Execute("source_no_security_policy")' = SourceNoSecurityPolicy'
  /\ Execute("source_no_ci")' = SourceNoCI'
  /\ Execute("package_dynamic_name")' = PackageDynamicName'
  /\ Execute("package_install_scripts")' = PackageInstallScripts'
  /\ Execute("package_name_unexported")' = PackageNameUnexported'
  /\ Execute("source_few_contributors")' = SourceFewContributors'
  /\ Execute("source_repo_new")' = SourceRepoNew'
  /\ Execute("source_single_contributor")' = SourceSingleContributor'
  /\ Execute("source_repo_abandoned")' = SourceRepoAbandoned'
  /\ Execute("source_repo_stale")' = SourceRepoStale'
  /\ Execute("source_no_license")' = SourceNoLicense'
  /\ Execute("source_unsupported_manifest_file")' = SourceUnsupportedManifestFile'
  /\ Execute("source_manifest_without_lockfile")' = SourceManifestWithoutLockfile'
  BY DEF Execute

-----------------------------------------------------------------------------
(* What a check returns. *)

Verdicts == {Compliant, Violation, NotApplicable}

LEMMA VerdictFields ==
  /\ Verdicts \union {Failed} \subseteq Output
  /\ \A v \in Verdicts : v.status = "success"
  /\ Compliant.check = "compliant" /\ Violation.check = "violation"
  /\ NotApplicable.check = "skipped" /\ Failed.check = "none"
<1>1. {Compliant, Violation, NotApplicable} \subseteq Output
  <2>1. \A c \in {"compliant", "violation", "skipped"} : Verdict(c) \in Output
    BY BasicOutputs, OutputUpdates DEF Verdict
  <2> QED BY <2>1 DEF Compliant, Violation, NotApplicable
<1>2. \A v \in Verdicts : v.status = "success"
  BY DEF Verdicts, Compliant, Violation, NotApplicable, Verdict, Success, Blank
<1>3. /\ Compliant.check = "compliant" /\ Violation.check = "violation"
      /\ NotApplicable.check = "skipped" /\ Failed.check = "none"
  BY DEF Compliant, Violation, NotApplicable, Verdict, Success, Failed, Blank
<1> QED BY <1>1, <1>2, <1>3, BasicOutputs DEF Verdicts

\* Checks fold their findings into verdicts.
LEMMA VerdictOperators ==
  /\ \A b : Unless(b) \in Verdicts
  /\ \A bad, good, unknown : Graded(bad, good, unknown) \in Verdicts
  /\ \A bad : GradedBy(bad) \in Verdicts
  /\ \A v \in Verdicts : OfManifests(v) \in Verdicts
  /\ \A v \in Verdicts : OfVersions(v) \in Verdicts
<1>1. /\ \A b : Unless(b) \in Verdicts
      /\ \A bad, good, unknown : Graded(bad, good, unknown) \in Verdicts
  BY DEF Unless, Graded, Verdicts
<1> QED BY <1>1 DEF GradedBy, OfManifests, OfVersions, Verdicts

\* The checks that need no tree and no history.
LEMMA PlainChecks ==
  {SourceRepoNotFound, SourceMalformedMetadata, PackageNoLicense,
   PackageRegistryMismatch, PackageRegistryQuarantined, PackageUnsafeSourceURL,
   PackageSourceURLMismatch, PackageStaleRelease, PackageReleaseCooldown,
   PackageMalformedDependencies, PackageInvalidArtifact, PackageDynamicName,
   PackageInstallScripts, PackageNameUnexported, SourceNoLicense,
   SourceUnsupportedManifestFile, SourceManifestWithoutLockfile} \subseteq Verdicts
<1>1. /\ SourceRepoNotFound \in Verdicts /\ SourceMalformedMetadata \in Verdicts
      /\ SourceNoLicense \in Verdicts /\ SourceUnsupportedManifestFile \in Verdicts
      /\ SourceManifestWithoutLockfile \in Verdicts
  BY VerdictOperators DEF SourceRepoNotFound, SourceMalformedMetadata, SourceNoLicense,
     SourceUnsupportedManifestFile, SourceManifestWithoutLockfile, Verdicts
<1>2. /\ PackageNoLicense \in Verdicts /\ PackageMalformedDependencies \in Verdicts
      /\ PackageUnsafeSourceURL \in Verdicts
  BY VerdictOperators DEF PackageNoLicense, PackageMalformedDependencies,
     PackageUnsafeSourceURL
<1>3. PackageRegistryMismatch \in Verdicts /\ PackageRegistryQuarantined \in Verdicts
  BY VerdictOperators DEF PackageRegistryMismatch, PackageRegistryQuarantined
<1>4. PackageStaleRelease \in Verdicts /\ PackageReleaseCooldown \in Verdicts
  BY VerdictOperators DEF PackageStaleRelease, PackageReleaseCooldown
<1>5. PackageInvalidArtifact \in Verdicts /\ PackageSourceURLMismatch \in Verdicts
  BY VerdictOperators DEF PackageInvalidArtifact, PackageSourceURLMismatch, Verdicts
<1>6. /\ PackageDynamicName \in Verdicts /\ PackageNameUnexported \in Verdicts
      /\ PackageInstallScripts \in Verdicts
  BY VerdictOperators DEF PackageDynamicName, PackageNameUnexported,
     PackageInstallScripts, InstallScriptsOfSource, InstallScriptsOfArtifacts, Verdicts
<1> QED BY <1>1, <1>2, <1>3, <1>4, <1>5, <1>6

\* Those that read a tree or a history fail without it.
LEMMA DependentChecks ==
  /\ \A c \in {SourceNoCI, SourceNoSecurityPolicy} :
       \/ c \in Verdicts
       \/ c = Failed /\ (out["git_clone_content"].tree = "none" \/ world.repo.unreadable)
  /\ \A c \in {SourceRepoStale, SourceRepoAbandoned, SourceRepoNew, SourceFewContributors,
               SourceNoHumanCommits, PackageNameMismatch, PackageUnreleasedChanges} :
       \/ c \in Verdicts
       \/ c = Failed /\ (Ok("git_clone_metadata") => Log = <<>>)
  /\ \/ SourceSingleContributor \in Verdicts
     \/ SourceSingleContributor = Failed /\ Ok("git_clone_metadata") /\ Log = <<>>
<1>1. \A c \in {SourceNoCI, SourceNoSecurityPolicy} :
        \/ c \in Verdicts
        \/ c = Failed /\ (out["git_clone_content"].tree = "none" \/ world.repo.unreadable)
  BY VerdictOperators DEF SourceNoCI, SourceNoSecurityPolicy, OfTree
<1>2. \A c \in {SourceRepoStale, SourceRepoAbandoned, SourceRepoNew, SourceFewContributors,
                SourceNoHumanCommits} :
        \/ c \in Verdicts
        \/ c = Failed /\ (Ok("git_clone_metadata") => Log = <<>>)
  BY VerdictOperators DEF SourceRepoStale, SourceRepoAbandoned, SourceRepoNew,
     SourceFewContributors, SourceNoHumanCommits, IfDated, MustCount, OfHistory, Verdicts
<1>3. \A c \in {PackageNameMismatch, PackageUnreleasedChanges} :
        \/ c \in Verdicts
        \/ c = Failed /\ (Ok("git_clone_metadata") => Log = <<>>)
  BY VerdictOperators DEF PackageNameMismatch, PackageUnreleasedChanges, IfDated, OfHistory,
     Verdicts
<1>4. \/ SourceSingleContributor \in Verdicts
      \/ SourceSingleContributor = Failed /\ Ok("git_clone_metadata") /\ Log = <<>>
  BY VerdictOperators DEF SourceSingleContributor, MustCount, OfHistory, Verdicts
<1> QED BY <1>1, <1>2, <1>3, <1>4

\* Every result is an output.
LEMMA ResultType ==
  ASSUME TypeOK, NEW n \in Node
  PROVE  Result(n) \in Output
<1>1. CASE n \in Producers
  <2>1. Execute(n) \in Output
    BY <1>1, ProducersAre, GitTypes, RegistryTypes, TransformerTypes, ProvenanceTypes,
       ReaderTypes DEF Producers
  <2> QED BY <2>1, BasicOutputs, OutputUpdates DEF Result
<1>2. CASE n \in Checks
  <2>1. Execute(n) \in Verdicts \union {Failed}
    BY <1>2, ChecksAre, PlainChecks, DependentChecks
  <2> QED BY <2>1, VerdictFields, BasicOutputs, OutputUpdates DEF Result
<1> QED BY <1>1, <1>2, ProducersAre

-----------------------------------------------------------------------------
(* What a step leaves alone.  A node reads the world, the input and the      *)
(* outputs of nodes before it: once these are stored, nothing it reads will  *)
(* change any more.                                                          *)

DepsDone(n) == \A d \in Deps(n) : Done(d)

\* The input gains packages while the fetcher has to wait, and a URL by the
\* transformer.
Keeps ==
  /\ world' = world
  /\ input' = [input EXCEPT !.url = input'.url, !.packages = input'.packages]
  /\ \A n \in Node : Done(n) => out'[n] = out[n]
  /\ DepsDone("fetcher") => input'.packages = input.packages
  /\ \/ input'.url = input.url
     \/ ~ HasURL /\ "transformer" \in Ready /\ input'.url = Result("transformer").url

LEMMA InvParts ==
  ASSUME Inv
  PROVE  TypeOK /\ Askable(world) /\ OrderInv /\ InputInv
  BY DEF Inv

\* Without a URL, packages were asked for.
LEMMA WithoutURL ==
  ASSUME Inv, ~ HasURL
  PROVE  /\ input.key = "package" /\ world.input.url = NoURL
         /\ world.input.packages # {} /\ Deps("git_resolve") = {"transformer"}
<1>1. input.key = world.input.key /\ input.key \in {"source", "package"}
  BY InvParts, WorldTypes DEF InputInv, Input
<1>2. input.key = "package"
  BY <1>1, InvParts DEF InputInv, Askable, HasURL
<1>3. world.input.url = NoURL /\ world.input.packages # {}
  BY <1>1, <1>2, InvParts DEF Askable
<1> QED BY <1>2, <1>3 DEF Deps, GitResolveDeps

LEMMA InputFrame ==
  ASSUME Inv, Keeps
  PROVE  /\ world' = world
         /\ input'.key = input.key /\ input'.trusted = input.trusted
         /\ \A n \in Node : Deps(n)' = Deps(n) /\ Deps(n) \subseteq Node
         /\ \A n \in Node : DepsDone(n) => \A d \in Deps(n) : out'[d] = out[d]
<1>1. world' = world
  BY DEF Keeps
<1>2. input'.key = input.key /\ input'.trusted = input.trusted
  BY InvParts DEF Keeps, TypeOK, Input
<1>3. \A n \in Node : Deps(n)' = Deps(n)
  BY <1>1 DEF Deps, GitResolveDeps, FetcherDeps
<1>4. \A n \in Node : Deps(n) \subseteq Node
  BY DEF Deps, GitResolveDeps, FetcherDeps, Node, FixedDeps
<1> QED BY <1>1, <1>2, <1>3, <1>4 DEF Keeps, DepsDone

\* Who reads the packages of the input has the fetcher before it ...
PackageReaders ==
  {"fetcher", "transformer", "version_transformer", "artifact_fetch", "provenance_verify",
   "git_clone_published_content", "package_no_license", "package_registry_mismatch",
   "package_registry_quarantined", "package_name_mismatch", "package_unreleased_changes",
   "package_stale_release", "package_release_cooldown", "package_malformed_dependencies",
   "package_source_url_mismatch"}

\* ... and who reads its URL, the transformer, unless a source was asked for.
URLReaders ==
  {"git_resolve", "git_clone_content", "git_clone_metadata", "git_clone_published_content",
   "org_security_policy", "source_repo_not_found", "package_source_url_mismatch"}

LEMMA PackagesFrame ==
  ASSUME Inv, Keeps, NEW n \in PackageReaders, DepsDone(n)
  PROVE  input'.packages = input.packages
<1>1. /\ {"fetcher", "transformer", "version_transformer"} \subseteq Node
      /\ Deps("transformer") = {"fetcher"} /\ Deps("version_transformer") = {"fetcher"}
  BY DEF Node, FixedDeps, Deps
<1>2. Done("transformer") \/ Done("version_transformer") => Done("fetcher")
  BY <1>1, InvParts DEF OrderInv
<1>3. \/ n = "fetcher"
      \/ {"fetcher", "transformer", "version_transformer"} \intersect Deps(n) # {}
  BY DEF PackageReaders, Deps, FixedDeps
<1>4. DepsDone("fetcher")
  <2>1. CASE n = "fetcher"
    BY <2>1
  <2>2. CASE Done("fetcher")
    BY <1>1, <2>2, InvParts DEF OrderInv, DepsDone
  <2> QED BY <1>2, <1>3, <2>1, <2>2 DEF DepsDone
<1> QED BY <1>4 DEF Keeps

LEMMA URLFrame ==
  ASSUME Inv, Keeps, NEW n \in URLReaders, DepsDone(n)
  PROVE  input'.url = input.url
<1>1. SUFFICES ASSUME ~ HasURL
               PROVE  Done("transformer")
  BY DEF Keeps, Ready
<1>2. Deps("git_resolve") = {"transformer"} /\ "git_resolve" \in Node
  BY <1>1, WithoutURL DEF Node, FixedDeps
<1>3. Done("git_resolve") => Done("transformer")
  BY <1>2, InvParts DEF OrderInv
<1>4. \/ n = "git_resolve" /\ Done("transformer")
      \/ "git_resolve" \in Deps(n) \/ "transformer" \in Deps(n)
  BY <1>2 DEF URLReaders, Deps, FixedDeps, DepsDone
<1> QED BY <1>3, <1>4 DEF DepsDone

-----------------------------------------------------------------------------
(* The operators that read the world and the key of the input only. *)

LEMMA RegistryFrame ==
  ASSUME Inv, Keeps
  PROVE  /\ \A p : Asked(p)' = Asked(p) /\ Pinned(p)' = Pinned(p) /\ Private(p)' = Private(p)
         /\ \A p : Responded(p)' = Responded(p) /\ MetadataOf(p)' = MetadataOf(p)
         /\ \A p : Facts(p)' = Facts(p)
         /\ \A p : Newest(p)' = Newest(p) /\ \A v : AgeOf(p, v)' = AgeOf(p, v)
<1>1. \A p : Asked(p)' = Asked(p) /\ Private(p)' = Private(p)
  BY InputFrame DEF Asked, Private
<1>2. \A p : Pinned(p)' = Pinned(p)
  BY <1>1 DEF Pinned
<1>3. \A p : Responded(p)' = Responded(p) /\ MetadataOf(p)' = MetadataOf(p)
  BY <1>1, InputFrame DEF Responded, MetadataOf
<1>4. \A p : Facts(p)' = Facts(p)
  BY <1>3, InputFrame DEF Facts
<1>5. \A p : Newest(p)' = Newest(p) /\ \A v : AgeOf(p, v)' = AgeOf(p, v)
  BY InputFrame DEF Newest, AgeOf
<1> QED BY <1>1, <1>2, <1>3, <1>4, <1>5

LEMMA HistoryFrame ==
  ASSUME Inv, Keeps
  PROVE  /\ Log' = Log /\ IsLocal' = IsLocal /\ Human' = Human
         /\ LatestAge' = LatestAge /\ FirstAge' = FirstAge
         /\ RecentAuthors' = RecentAuthors
         /\ MonthlyAuthorsReach(3)' = MonthlyAuthorsReach(3)
<1>1. Log' = Log /\ IsLocal' = IsLocal
  BY InputFrame DEF Log, IsLocal
<1>2. Human' = Human
  BY <1>1 DEF Human
<1>3. Counted' = Counted
  BY <1>1, <1>2 DEF Counted
<1>4. CountedSet' = CountedSet /\ LatestAge' = LatestAge /\ FirstAge' = FirstAge
  BY <1>3 DEF CountedSet, LatestAge, FirstAge
<1>5. RecentAuthors' = RecentAuthors /\ MonthlyAuthorsReach(3)' = MonthlyAuthorsReach(3)
  BY <1>4 DEF RecentAuthors, MonthlyAuthorsReach
<1> QED BY <1>1, <1>2, <1>4, <1>5

-----------------------------------------------------------------------------
(* One frame per group of nodes. *)

LEMMA DescribedFrame ==
  ASSUME Inv, Keeps, input'.packages = input.packages,
         out'["transformer"] = out["transformer"]
  PROVE  Described' = Described /\ Advertising' = Advertising
<1>1. Described' = Described
  BY DEF Described
<1> QED BY <1>1, RegistryFrame DEF Advertising

LEMMA GitFrame ==
  ASSUME Inv, Keeps, input'.url = input.url
  PROVE  /\ GitResolve' = GitResolve /\ GitCloneContent' = GitCloneContent
         /\ GitCloneMetadata' = GitCloneMetadata /\ OrgSecurityPolicy' = OrgSecurityPolicy
<1>1. HasURL' = HasURL
  BY DEF HasURL
<1>2. ResolveStatus(world.repo)' = ResolveStatus(world.repo)
  BY InputFrame DEF ResolveStatus
<1>3. \A tree : Materialize(tree)' = Materialize(tree)
  BY InputFrame, HistoryFrame DEF Materialize
<1>4. GitResolve' = GitResolve
  BY <1>1, <1>2, InputFrame, HistoryFrame DEF GitResolve
<1>5. GitCloneContent' = GitCloneContent /\ GitCloneMetadata' = GitCloneMetadata
  BY <1>1, <1>3, InputFrame, HistoryFrame DEF GitCloneContent, GitCloneMetadata
<1> QED BY <1>1, <1>4, <1>5, InputFrame DEF OrgSecurityPolicy

LEMMA TreeFrame ==
  ASSUME Inv, Keeps
  PROVE  /\ PackageDetector' = PackageDetector /\ LicenseFiles' = LicenseFiles
         /\ UnsupportedManifests' = UnsupportedManifests /\ PolicyLoader' = PolicyLoader
         /\ DepsExtractor' = DepsExtractor
         /\ \A tree : Detected(tree)' = Detected(tree)
<1>1. \A tree : Detected(tree)' = Detected(tree)
  BY InputFrame DEF Detected
<1>2. \A ms : Named(ms)' = Named(ms)
  BY InputFrame DEF Named
<1>3. PackageDetector' = PackageDetector
  BY <1>1, <1>2 DEF PackageDetector
<1>4. LicenseFiles' = LicenseFiles /\ UnsupportedManifests' = UnsupportedManifests
  BY InputFrame DEF LicenseFiles, UnsupportedManifests, TreeScan
<1>5. PolicyLoader' = PolicyLoader
  <2>1. world'.repo = world.repo /\ world'.rootPolicy = world.rootPolicy
    BY InputFrame
  <2>2. world.repo.policy \in {"absent", "valid", "invalid", "unreadable"}
    BY InvParts, WorldTypes DEF RepoFacts
  <2> QED BY <2>1, <2>2, InputFrame DEF PolicyLoader
<1> QED BY <1>1, <1>3, <1>4, <1>5 DEF DepsExtractor

LEMMA RegistryNodesFrame ==
  ASSUME Inv, Keeps, input'.packages = input.packages
  PROVE  /\ Fetcher' = Fetcher /\ VersionTransformer' = VersionTransformer
         /\ TransformerBase' = TransformerBase /\ TransformerURLs' = TransformerURLs
         /\ TransformerURL' = TransformerURL
<1>1. \A garbled : Transformed(garbled)' = Transformed(garbled)
  BY RegistryFrame DEF Transformed
<1>2. Fetcher' = Fetcher
  BY RegistryFrame DEF Fetcher
<1>3. VersionTransformer' = VersionTransformer
  <2> DEFINE garbled == {p \in input.packages :
                           HistoryIsGarbled(EcosystemOf[p], world.pkg[p].listing)}
  <2>1. garbled' = garbled
    BY InputFrame
  <2>2. Transformed(garbled)' = Transformed(garbled)
    BY <2>1, RegistryFrame DEF Transformed
  <2> QED BY <2>2 DEF VersionTransformer
<1>4. TransformerBase' = TransformerBase
  <2> DEFINE garbled == {p \in input.packages : MetadataOf(p) = "garbled"}
  <2>1. garbled' = garbled
    BY RegistryFrame
  <2>2. Transformed(garbled)' = Transformed(garbled)
    BY <2>1, RegistryFrame DEF Transformed
  <2> QED BY <2>2 DEF TransformerBase
<1>5. TransformerURLs' = TransformerURLs
  BY <1>4, RegistryFrame DEF TransformerURLs
<1> QED BY <1>2, <1>3, <1>4, <1>5 DEF TransformerURL

\* The transformer runs before the URL it finds is merged, and would return the
\* same with it.
LEMMA TransformerFrame ==
  ASSUME Inv, Keeps, DepsDone("transformer")
  PROVE  Transformer' = Transformer
<1>1. /\ TransformerBase' = TransformerBase /\ TransformerURLs' = TransformerURLs
      /\ TransformerURL' = TransformerURL
  BY PackagesFrame, RegistryNodesFrame DEF PackageReaders
<1>2. Transformer' =
        IF TransformerBase.status # "success" THEN TransformerBase
        ELSE IF HasURL' THEN [TransformerBase EXCEPT !.url = input'.url]
        ELSE IF Cardinality(TransformerURLs) > 1 THEN Failed
        ELSE [TransformerBase EXCEPT !.url = TransformerURL]
  <2>1. Transformer' = (IF TransformerBase.status # "success" THEN TransformerBase
          ELSE IF HasURL THEN [TransformerBase EXCEPT !.url = input.url]
          ELSE IF Cardinality(TransformerURLs) > 1 THEN Failed
          ELSE [TransformerBase EXCEPT !.url = TransformerURL])'
    BY DEF Transformer, TransformerBase, TransformerURLs, TransformerURL
  <2> QED BY <1>1, <2>1
<1>3. HasURL' = (input'.url # NoURL)
  BY DEF HasURL
<1>4. CASE input'.url = input.url
  BY <1>2, <1>3, <1>4, TransformerIs DEF HasURL
<1>5. CASE ~ HasURL /\ input'.url = Result("transformer").url
  <2>1. Skipped.url = NoURL /\ Failed.url = NoURL /\ [Skipped EXCEPT !.check = "none"].url = NoURL
    BY DEF Skipped, Failed, Blank
  <2>2. CASE AutoSkipped("transformer")
    BY <1>4, <1>5, <2>1, <2>2 DEF Result, HasURL, Checks, Producers
  <2>3. CASE Result("transformer") = Transformer
    <3>1. CASE TransformerBase.status # "success"
      BY <1>2, <3>1, TransformerIs
    <3>2. CASE TransformerBase.status = "success" /\ Cardinality(TransformerURLs) > 1
      <4>1. Transformer = Failed /\ input'.url = NoURL
        BY <1>5, <2>1, <2>3, <3>2, TransformerIs
      <4> QED BY <1>2, <1>3, <3>2, <4>1
    <3>3. CASE TransformerBase.status = "success" /\ ~ Cardinality(TransformerURLs) > 1
      <4>1. Transformer = [TransformerBase EXCEPT !.url = TransformerURL]
        BY <1>5, <3>3, TransformerIs
      <4>2. Transformer.url = TransformerURL
        BY <4>1, InvParts, TransformerTypes DEF Output
      <4>3. input'.url = TransformerURL
        BY <1>5, <2>3, <4>2
      <4> QED BY <1>2, <1>3, <3>3, <4>1, <4>3
    <3> QED BY <3>1, <3>2, <3>3
  <2> QED BY <2>2, <2>3, ProducersAre DEF Result
<1> QED BY <1>4, <1>5 DEF Keeps

LEMMA ArtifactFrame ==
  ASSUME Inv, Keeps, DepsDone("artifact_fetch")
  PROVE  ArtifactFetch' = ArtifactFetch
<1>1. Described' = Described
  BY PackagesFrame, DescribedFrame, InputFrame DEF PackageReaders, Deps, Node, FixedDeps
<1> DEFINE wanted == {p \in Described : Facts(p).artifact # "nourl"}
<1>2. wanted' = wanted
  BY <1>1, RegistryFrame
<1>3. (\E p \in wanted : Facts(p).artifact = "unreachable")'
        <=> (\E p \in wanted : Facts(p).artifact = "unreachable")
  BY <1>2, RegistryFrame
<1> QED BY <1>2, <1>3 DEF ArtifactFetch

LEMMA ProvenanceFrame ==
  ASSUME Inv, Keeps, DepsDone("provenance_verify")
  PROVE  ProvenanceVerify' = ProvenanceVerify
<1>1. /\ out'["transformer"] = out["transformer"] /\ out'["git_resolve"] = out["git_resolve"]
      /\ Advertising' = Advertising
  BY PackagesFrame, DescribedFrame, InputFrame DEF PackageReaders, Deps, Node, FixedDeps
<1>2. FirstAdvertising' = FirstAdvertising
  BY <1>1, InputFrame DEF FirstAdvertising
<1>3. Verified' = Verified
  BY <1>2 DEF Verified
<1>4. ProvenanceVerify' =
        (IF Advertising = {} THEN Success
         ELSE [Success EXCEPT !.provenance =
                 IF Verified.verified /\ ~ SameRepo(Verified.repo, out["git_resolve"].url)
                 THEN [Verified EXCEPT !.verified = FALSE, !.reason = "repo-mismatch"]
                 ELSE Verified])'
  BY DEF ProvenanceVerify, Advertising, FirstAdvertising, Verified
<1> QED BY <1>1, <1>3, <1>4, ProvenanceVerifyIs

LEMMA PublishedFrame ==
  ASSUME Inv, Keeps, DepsDone("git_clone_published_content")
  PROVE  GitClonePublishedContent' = GitClonePublishedContent
<1>1. /\ out'["transformer"] = out["transformer"]
      /\ out'["provenance_verify"] = out["provenance_verify"]
  BY InputFrame DEF Deps, Node, FixedDeps
<1>2. input'.packages = input.packages /\ input'.url = input.url
  BY PackagesFrame, URLFrame DEF PackageReaders, URLReaders
<1>3. Described' = Described
  BY <1>1, <1>2, DescribedFrame
<1>4. PublishedPin' = PublishedPin
  BY <1>1, <1>2, <1>3, InputFrame, RegistryFrame DEF PublishedPin
<1>5. Materialize("published")' = Materialize("published")
  BY InputFrame, HistoryFrame DEF Materialize
<1> QED BY <1>2, <1>4, <1>5, HistoryFrame DEF GitClonePublishedContent, HasURL

LEMMA ManifestsFrame ==
  ASSUME Inv, Keeps, DepsDone("package_detector_published")
  PROVE  PackageDetectorPublished' = PackageDetectorPublished
<1>1. /\ out'["package_detector"] = out["package_detector"]
      /\ out'["git_clone_published_content"] = out["git_clone_published_content"]
  BY InputFrame DEF Deps, Node, FixedDeps
<1> QED BY <1>1, TreeFrame DEF PackageDetectorPublished

\* The verdicts that are read off one output.
LEMMA ReadingFrame ==
  ASSUME Inv, Keeps
  PROVE  /\ DepsDone("source_repo_not_found") => SourceRepoNotFound' = SourceRepoNotFound
         /\ DepsDone("source_malformed_metadata") =>
              SourceMalformedMetadata' = SourceMalformedMetadata
         /\ DepsDone("source_no_ci") => SourceNoCI' = SourceNoCI
         /\ DepsDone("source_no_security_policy") =>
              SourceNoSecurityPolicy' = SourceNoSecurityPolicy
         /\ DepsDone("source_no_license") => SourceNoLicense' = SourceNoLicense
         /\ DepsDone("source_unsupported_manifest_file") =>
              SourceUnsupportedManifestFile' = SourceUnsupportedManifestFile
         /\ DepsDone("source_manifest_without_lockfile") =>
              SourceManifestWithoutLockfile' = SourceManifestWithoutLockfile
         /\ DepsDone("package_dynamic_name") => PackageDynamicName' = PackageDynamicName
         /\ DepsDone("package_name_unexported") =>
              PackageNameUnexported' = PackageNameUnexported
<1>1. DepsDone("source_repo_not_found") => SourceRepoNotFound' = SourceRepoNotFound
  BY URLFrame, InputFrame DEF URLReaders, Deps, Node, FixedDeps, SourceRepoNotFound, HasURL, Ok
<1>2. /\ DepsDone("source_malformed_metadata") =>
           SourceMalformedMetadata' = SourceMalformedMetadata
      /\ DepsDone("source_manifest_without_lockfile") =>
           SourceManifestWithoutLockfile' = SourceManifestWithoutLockfile
  <2>1. DepsDone("source_malformed_metadata") \/ DepsDone("source_manifest_without_lockfile")
          => out'["package_detector"] = out["package_detector"]
    BY InputFrame DEF Deps, Node, FixedDeps
  <2> QED BY <2>1, InputFrame DEF SourceMalformedMetadata, SourceManifestWithoutLockfile
<1>3. /\ DepsDone("source_no_ci") => SourceNoCI' = SourceNoCI
      /\ DepsDone("source_no_security_policy") =>
           SourceNoSecurityPolicy' = SourceNoSecurityPolicy
  BY InputFrame DEF Deps, Node, FixedDeps, SourceNoCI, SourceNoSecurityPolicy, OfTree
<1>4. /\ DepsDone("source_no_license") => SourceNoLicense' = SourceNoLicense
      /\ DepsDone("source_unsupported_manifest_file") =>
           SourceUnsupportedManifestFile' = SourceUnsupportedManifestFile
  BY InputFrame DEF Deps, Node, FixedDeps, SourceNoLicense, SourceUnsupportedManifestFile
<1>5. /\ DepsDone("package_dynamic_name") => PackageDynamicName' = PackageDynamicName
      /\ DepsDone("package_name_unexported") => PackageNameUnexported' = PackageNameUnexported
  <2>1. DepsDone("package_dynamic_name") \/ DepsDone("package_name_unexported") =>
          Published' = Published
    BY InputFrame DEF Deps, Node, FixedDeps, Published
  <2> QED BY <2>1 DEF PackageDynamicName, PackageNameUnexported, OfManifests
<1> QED BY <1>1, <1>2, <1>3, <1>4, <1>5

\* The verdicts on the commit history.
LEMMA HistoryChecksFrame ==
  ASSUME Inv, Keeps
  PROVE  /\ DepsDone("source_repo_stale") => SourceRepoStale' = SourceRepoStale
         /\ DepsDone("source_repo_abandoned") => SourceRepoAbandoned' = SourceRepoAbandoned
         /\ DepsDone("source_repo_new") => SourceRepoNew' = SourceRepoNew
         /\ DepsDone("source_few_contributors") =>
              SourceFewContributors' = SourceFewContributors
         /\ DepsDone("source_no_human_commits") =>
              SourceNoHumanCommits' = SourceNoHumanCommits
         /\ DepsDone("source_single_contributor") =>
              SourceSingleContributor' = SourceSingleContributor
<1>1. \A n \in {"source_repo_stale", "source_repo_abandoned", "source_repo_new",
                "source_few_contributors", "source_no_human_commits",
                "source_single_contributor"} :
        DepsDone(n) => Ok("git_clone_metadata")' = Ok("git_clone_metadata")
  BY InputFrame DEF Deps, Node, FixedDeps, Ok
<1>2. DepsDone("source_single_contributor") =>
        /\ Violates("source_repo_stale")' = Violates("source_repo_stale")
        /\ Violates("source_repo_abandoned")' = Violates("source_repo_abandoned")
  BY InputFrame DEF Deps, Node, FixedDeps, Violates
<1>3. DepsDone("source_single_contributor") =>
        SourceSingleContributor' = SourceSingleContributor
  BY <1>1, <1>2, HistoryFrame DEF SourceSingleContributor, MustCount, OfHistory
<1> QED
  BY <1>1, <1>3, HistoryFrame DEF SourceRepoStale, SourceRepoAbandoned, SourceRepoNew,
     SourceFewContributors, SourceNoHumanCommits, IfDated, MustCount, OfHistory

\* The verdicts on packages and manifests.
LEMMA ManifestChecksFrame ==
  ASSUME Inv, Keeps
  PROVE  /\ DepsDone("package_install_scripts") =>
              PackageInstallScripts' = PackageInstallScripts
         /\ DepsDone("package_name_mismatch") => PackageNameMismatch' = PackageNameMismatch
<1>1. ASSUME DepsDone("package_install_scripts")
      PROVE  PackageInstallScripts' = PackageInstallScripts
  <2>1. Published' = Published /\ out'["artifact_fetch"] = out["artifact_fetch"]
    BY <1>1, InputFrame DEF Deps, Node, FixedDeps, Published
  <2>2. InstallScriptsOfSource' = InstallScriptsOfSource
    BY <2>1 DEF InstallScriptsOfSource, OfManifests
  <2>3. InstallScriptsOfArtifacts' = InstallScriptsOfArtifacts
    BY <2>1, InputFrame DEF InstallScriptsOfArtifacts, Scanned
  <2> QED BY <2>1, <2>2, <2>3, InputFrame DEF PackageInstallScripts, Ok
<1>2. ASSUME DepsDone("package_name_mismatch")
      PROVE  PackageNameMismatch' = PackageNameMismatch
  <2>1. Published' = Published /\ Ok("git_clone_metadata")' = Ok("git_clone_metadata")
    BY <1>2, InputFrame DEF Deps, Node, FixedDeps, Published, Ok
  <2>2. Static' = Static
    BY <2>1 DEF Static
  <2>3. input'.packages = input.packages
    BY <1>2, PackagesFrame DEF PackageReaders
  <2> QED BY <2>1, <2>2, <2>3 DEF PackageNameMismatch, OfHistory
<1> QED BY <1>1, <1>2

LEMMA MetadataChecksFrame ==
  ASSUME Inv, Keeps
  PROVE  /\ DepsDone("package_no_license") => PackageNoLicense' = PackageNoLicense
         /\ DepsDone("package_malformed_dependencies") =>
              PackageMalformedDependencies' = PackageMalformedDependencies
         /\ DepsDone("package_unsafe_source_url") =>
              PackageUnsafeSourceURL' = PackageUnsafeSourceURL
         /\ DepsDone("package_registry_mismatch") =>
              PackageRegistryMismatch' = PackageRegistryMismatch
         /\ DepsDone("package_registry_quarantined") =>
              PackageRegistryQuarantined' = PackageRegistryQuarantined
<1>1. DepsDone("package_no_license") \/ DepsDone("package_malformed_dependencies") =>
        Described' = Described
  BY PackagesFrame, DescribedFrame, InputFrame DEF PackageReaders, Deps, Node, FixedDeps
<1>2. /\ DepsDone("package_no_license") => PackageNoLicense' = PackageNoLicense
      /\ DepsDone("package_malformed_dependencies") =>
           PackageMalformedDependencies' = PackageMalformedDependencies
  BY <1>1, RegistryFrame DEF PackageNoLicense, PackageMalformedDependencies, OfVersions
<1>3. DepsDone("package_unsafe_source_url") =>
        out'["transformer"] = out["transformer"]
  BY InputFrame DEF Deps, Node, FixedDeps
<1>4. ASSUME DepsDone("package_unsafe_source_url")
      PROVE  PackageUnsafeSourceURL' = PackageUnsafeSourceURL
  <2>1. (\E p \in out["transformer"].packages : Facts(p).rejected)'
          <=> \E p \in out["transformer"].packages : Facts(p).rejected
    BY <1>3, <1>4, RegistryFrame
  <2> QED BY <2>1 DEF PackageUnsafeSourceURL, Unless
<1>5. DepsDone("package_registry_mismatch") \/ DepsDone("package_registry_quarantined") =>
        out'["fetcher"] = out["fetcher"] /\ input'.packages = input.packages
  BY PackagesFrame, InputFrame DEF PackageReaders, Deps, Node, FixedDeps
<1>6. DepsDone("package_registry_mismatch") \/ DepsDone("package_registry_quarantined") =>
        \A response : Fetched(response)' = Fetched(response)
  BY <1>5, RegistryFrame DEF Fetched
<1>7. /\ DepsDone("package_registry_mismatch") =>
           PackageRegistryMismatch' = PackageRegistryMismatch
      /\ DepsDone("package_registry_quarantined") =>
           PackageRegistryQuarantined' = PackageRegistryQuarantined
  <2>1. DepsDone("package_registry_mismatch") \/ DepsDone("package_registry_quarantined") =>
          \A response : (\E p \in Fetched(response) : Private(p))'
                          <=> \E p \in Fetched(response) : Private(p)
    BY <1>6, RegistryFrame
  <2>2. DepsDone("package_registry_mismatch") \/ DepsDone("package_registry_quarantined") =>
          \A response : (\E p \in Fetched(response) : ~ Private(p))'
                          <=> \E p \in Fetched(response) : ~ Private(p)
    BY <1>6, RegistryFrame
  <2> QED BY <2>1, <2>2 DEF PackageRegistryMismatch, PackageRegistryQuarantined, Unless
<1> QED BY <1>2, <1>4, <1>7

LEMMA ReleaseChecksFrame ==
  ASSUME Inv, Keeps
  PROVE  /\ DepsDone("package_release_cooldown") =>
              PackageReleaseCooldown' = PackageReleaseCooldown
         /\ DepsDone("package_stale_release") => PackageStaleRelease' = PackageStaleRelease
         /\ DepsDone("package_unreleased_changes") =>
              PackageUnreleasedChanges' = PackageUnreleasedChanges
<1>1. ASSUME DepsDone("package_release_cooldown")
      PROVE  PackageReleaseCooldown' = PackageReleaseCooldown
  <2>1. Versioned' = Versioned
    BY <1>1, PackagesFrame, InputFrame
       DEF PackageReaders, Deps, Node, FixedDeps, Versioned
  <2> DEFINE age(p) == IF Pinned(p) THEN AgeOf(p, Asked(p)) ELSE AgeOf(p, Newest(p))
             listed == {p \in Versioned : age(p) # Unlisted}
             unknown == {p \in listed : age(p) = Never}
             bad == {p \in listed \ unknown : age(p) < 7}
  <2>2. \A p : age(p)' = age(p)
    BY RegistryFrame
  <2>3. listed' = listed
    BY <2>1, <2>2
  <2>4. unknown' = unknown /\ bad' = bad
    BY <2>2, <2>3
  <2> QED BY <2>3, <2>4 DEF PackageReleaseCooldown, Graded
<1>2. ASSUME NEW n \in {"package_stale_release", "package_unreleased_changes"}, DepsDone(n)
      PROVE  /\ Described' = Described /\ Measured' = Measured
             /\ \A p : LastRelease(p)' = LastRelease(p)
  <2>1. Described' = Described /\ Versioned' = Versioned
    BY <1>2, PackagesFrame, DescribedFrame, InputFrame
       DEF PackageReaders, Deps, Node, FixedDeps, Versioned
  <2>2. \A p : LastRelease(p)' = LastRelease(p)
    BY <2>1, RegistryFrame, InputFrame DEF LastRelease
  <2> QED BY <2>1, <2>2 DEF Measured
<1>3. DepsDone("package_stale_release") => PackageStaleRelease' = PackageStaleRelease
  BY <1>2 DEF PackageStaleRelease, GradedBy
<1>4. ASSUME DepsDone("package_unreleased_changes")
      PROVE  PackageUnreleasedChanges' = PackageUnreleasedChanges
  <2> DEFINE bad == {p \in Measured : LastRelease(p) - LatestAge > 365}
  <2>1. bad' = bad /\ GradedBy(bad)' = GradedBy(bad)
    BY <1>2, <1>4, HistoryFrame DEF GradedBy
  <2>2. Ok("git_clone_metadata")' = Ok("git_clone_metadata")
    BY <1>4, InputFrame DEF Deps, Node, FixedDeps, Ok
  <2> QED BY <2>1, <2>2, HistoryFrame DEF PackageUnreleasedChanges, IfDated, OfHistory
<1> QED BY <1>1, <1>3, <1>4

LEMMA ProvenanceChecksFrame ==
  ASSUME Inv, Keeps
  PROVE  /\ DepsDone("package_invalid_artifact") =>
              PackageInvalidArtifact' = PackageInvalidArtifact
         /\ DepsDone("package_source_url_mismatch") =>
              PackageSourceURLMismatch' = PackageSourceURLMismatch
<1>1. ASSUME DepsDone("package_invalid_artifact")
      PROVE  PackageInvalidArtifact' = PackageInvalidArtifact
  <2>1. Attested' = Attested /\ out'["artifact_fetch"] = out["artifact_fetch"]
    BY <1>1, InputFrame DEF Deps, Node, FixedDeps, Attested
  <2> QED BY <2>1, InputFrame DEF PackageInvalidArtifact
<1>2. ASSUME DepsDone("package_source_url_mismatch")
      PROVE  PackageSourceURLMismatch' = PackageSourceURLMismatch
  <2>1. /\ Attested' = Attested
        /\ Violates("package_invalid_artifact")' = Violates("package_invalid_artifact")
        /\ out'["transformer"] = out["transformer"]
    BY <1>2, InputFrame DEF Deps, Node, FixedDeps, Attested, Violates
  <2>2. Described' = Described /\ HasURL' = HasURL /\ input'.url = input.url
    BY <1>2, <2>1, PackagesFrame, URLFrame, DescribedFrame
       DEF PackageReaders, URLReaders, HasURL
  <2>3. ComparisonURL' = ComparisonURL
    BY <2>2, InputFrame DEF ComparisonURL
  <2> DEFINE declared == {p \in Described : Facts(p).url # NoURL}
  <2>4. declared' = declared
    BY <2>2, RegistryFrame
  <2>5. (\E p \in declared : Facts(p).url # ComparisonURL)'
          <=> (\E p \in declared : Facts(p).url # ComparisonURL)
    BY <2>3, <2>4, RegistryFrame
  <2> QED BY <2>1, <2>2, <2>3, <2>4, <2>5 DEF PackageSourceURLMismatch
<1> QED BY <1>1, <1>2

\* No node that has run, or that a step runs, would return anything else after it.
LEMMA ResultFrame ==
  ASSUME Inv, Keeps, NEW n \in Node, DepsDone(n)
  PROVE  Result(n)' = Result(n)
<1>1. AutoSkipped(n)' = AutoSkipped(n)
  BY InputFrame DEF AutoSkipped
<1>2. Execute(n)' = Execute(n)
  <2>1. CASE n \in {"git_resolve", "git_clone_content", "git_clone_metadata",
                    "org_security_policy"}
    <3>1. input'.url = input.url
      BY <2>1, URLFrame DEF URLReaders
    <3> QED BY <2>1, <3>1, GitFrame, ProducersAre, NodesAreNext
  <2>2. CASE n \in {"fetcher", "version_transformer"}
    <3>1. input'.packages = input.packages
      BY <2>2, PackagesFrame DEF PackageReaders
    <3> QED BY <2>2, <3>1, RegistryNodesFrame, ProducersAre, NodesAreNext
  <2>3. CASE n \in {"package_detector", "license_files", "unsupported_manifests",
                    "policy_loader", "deps_extractor"}
    BY <2>3, TreeFrame, ProducersAre, NodesAreNext
  <2>4. CASE n \in {"transformer", "artifact_fetch", "provenance_verify",
                    "git_clone_published_content", "package_detector_published"}
    BY <2>4, TransformerFrame, ArtifactFrame, ProvenanceFrame, PublishedFrame,
       ManifestsFrame, ProducersAre, NodesAreNext
  <2>5. CASE n \in Checks
    BY <2>5, ReadingFrame, HistoryChecksFrame, ManifestChecksFrame, MetadataChecksFrame,
       ReleaseChecksFrame, ProvenanceChecksFrame, ChecksAre, NodesAreNext
  <2> QED BY <2>1, <2>2, <2>3, <2>4, <2>5, ProducersAre DEF Producers
<1> QED BY <1>1, <1>2 DEF Result

-----------------------------------------------------------------------------
(* What the status of an output is, and why it is an error.                  *)

LEMMA StatusKept ==
  ASSUME NEW o \in Output
  PROVE  /\ \A c : [o EXCEPT !.check = c].status = o.status
         /\ \A u : [o EXCEPT !.url = u].status = o.status
         /\ \A t : [o EXCEPT !.tree = t].status = o.status
         /\ \A p : [o EXCEPT !.pin = p].status = o.status
         /\ \A ps : [o EXCEPT !.packages = ps].status = o.status
         /\ \A ms : [o EXCEPT !.manifests = ms].status = o.status
         /\ \A ms, p : [o EXCEPT !.manifests = ms, !.pin = p].status = o.status
         /\ \A p : [o EXCEPT !.provenance = p].status = o.status
         /\ \A f : [o EXCEPT !.found = f].status = o.status
         /\ \A p : [o EXCEPT !.policy = p].status = o.status
  BY DEF Output

\* The source is resolved and cloned, unless a cause outside prevents it.
LEMMA GitStatuses ==
  ASSUME Inv
  PROVE  /\ GitResolve.status \in {"success", "skipped", "error"}
         /\ GitResolve.status = "error" => ExternalCause
         /\ GitCloneContent.status \in {"success", "skipped", "error"}
         /\ GitCloneContent.status = "error" => ExternalCause
         /\ GitCloneMetadata.status \in {"success", "skipped", "error"}
         /\ GitCloneMetadata.status = "error" => ExternalCause
         /\ OrgSecurityPolicy.status = "success" /\ DepsExtractor.status = "success"
         /\ PolicyLoader.status \in {"success", "error"}
         /\ PolicyLoader.status = "error" => ExternalCause
<1> DEFINE status == ResolveStatus(world.repo)
<1>1. world.repo \in RepoFacts /\ world.input.token \in BOOLEAN
  BY InvParts, WorldTypes DEF Input
<1>2. /\ status \in {"success", "skipped", "error"}
      /\ status = "error" => ExternalCause
  BY <1>1 DEF ResolveStatus, ResolveRemote, HandleResolveError, ClassifyCloneError, Reply,
     RepoFacts, ExternalCause
<1>3. /\ GitResolve.status \in {"success", "skipped", "error"}
      /\ GitResolve.status = "error" => ExternalCause
  <2>1. CASE world.repo.kind = "git" /\ Log = <<>>
    BY <2>1, BasicOutputs DEF ExternalCause, GitResolve
  <2>2. CASE ~ (world.repo.kind = "git" /\ Log = <<>>) /\ HasURL
    <3>1. GitResolve = [Blank(status) EXCEPT
                          !.url = IF ~ IsLocal /\ status = "success" THEN input.url ELSE NoURL]
      BY <2>2 DEF GitResolve
    <3>2. Blank(status) \in Output /\ Blank(status).status = status
      BY <1>2, BlankType DEF Statuses
    <3> QED BY <1>2, <3>1, <3>2, StatusKept
  <2>3. CASE ~ HasURL
    BY <2>3, BasicOutputs DEF GitResolve
  <2> QED BY <2>1, <2>2, <2>3
<1>4. /\ GitCloneContent.status \in {"success", "skipped", "error"}
      /\ GitCloneContent.status = "error" => ExternalCause
  <2>1. IsLocal \/ world.repo.kind # "plain"
    BY InvParts DEF Askable, IsLocal
  <2>2. [Success EXCEPT !.tree = "head"].status = "success"
    BY BasicOutputs, StatusKept
  <2> QED BY <2>1, <2>2, BasicOutputs DEF GitCloneContent, Materialize, ExternalCause
<1>5. /\ GitCloneMetadata.status \in {"success", "skipped", "error"}
      /\ GitCloneMetadata.status = "error" => ExternalCause
  BY BasicOutputs DEF GitCloneMetadata, ExternalCause
<1>6. OrgSecurityPolicy.status = "success" /\ DepsExtractor.status = "success"
  BY BasicOutputs, StatusKept DEF OrgSecurityPolicy, DepsExtractor
<1>7. /\ PolicyLoader.status \in {"success", "error"}
      /\ PolicyLoader.status = "error" => ExternalCause
  <2>1. \A p : [Success EXCEPT !.policy = p].status = "success"
    BY BasicOutputs, StatusKept
  <2>2. world.repo.policy \in {"absent", "valid", "invalid", "unreadable"}
    BY <1>1 DEF RepoFacts
  <2> QED BY <2>1, <2>2, BasicOutputs DEF PolicyLoader, ExternalCause
<1> QED BY <1>3, <1>4, <1>5, <1>6, <1>7

LEMMA TreeStatuses ==
  ASSUME Inv
  PROVE  /\ \A o \in {PackageDetector, LicenseFiles, UnsupportedManifests} :
              o.status \in {"success", "error"} /\ (o.status = "error" => ExternalCause)
         /\ GitClonePublishedContent.status \in {"success", "skipped"}
         /\ DepsDone("package_detector_published") =>
              /\ PackageDetectorPublished.status \in {"success", "skipped", "error"}
              /\ PackageDetectorPublished.status = "error" => ExternalCause
<1>1. \A tree \in {"head", "published"} :
        /\ Detected(tree) \in Output /\ Detected(tree).status \in {"success", "error"}
        /\ Detected(tree).status = "error" => ExternalCause
  <2>1. \A ms : [Success EXCEPT !.manifests = ms].status = "success"
    BY BasicOutputs, StatusKept
  <2>2. \A tree \in {"head", "published"} : Detected(tree) \in Output
    BY InvParts, WorldTypes, BasicOutputs, OutputUpdates DEF Detected, RepoFacts
  <2> QED BY <2>1, <2>2, BasicOutputs DEF Detected, ExternalCause
<1>2. PackageDetector.status = Detected("head").status
  BY <1>1, StatusKept DEF PackageDetector
<1>3. \A o \in {LicenseFiles, UnsupportedManifests} :
        o.status \in {"success", "error"} /\ (o.status = "error" => ExternalCause)
  <2>1. \A f : [Success EXCEPT !.found = f].status = "success"
    BY BasicOutputs, StatusKept
  <2> QED BY <2>1, BasicOutputs DEF LicenseFiles, UnsupportedManifests, TreeScan, ExternalCause
<1>4. GitClonePublishedContent.status \in {"success", "skipped"}
  <2>1. \A t : [Success EXCEPT !.tree = t].status = "success"
    BY BasicOutputs, StatusKept
  <2>2. Materialize("published") \in Output /\ Materialize("published").status \in {"success", "error"}
    BY <2>1, BasicOutputs, OutputUpdates DEF Materialize
  <2>3. \A p : [Materialize("published") EXCEPT !.pin = p].status = Materialize("published").status
    BY <2>2, StatusKept
  <2> QED BY <2>2, <2>3, BasicOutputs DEF GitClonePublishedContent
<1>5. ASSUME DepsDone("package_detector_published")
      PROVE  /\ PackageDetectorPublished.status \in {"success", "skipped", "error"}
             /\ PackageDetectorPublished.status = "error" => ExternalCause
  <2>1. /\ "package_detector" \in Node
        /\ "package_detector" \in Deps("package_detector_published")
    BY DEF Node, FixedDeps, Deps
  <2>2. out["package_detector"].status \in {"success", "skipped"}
    BY <1>5, <2>1, InvParts, WorldTypes DEF DepsDone, Done, OrderInv, Output
  <2>3. /\ Blank(out["package_detector"].status) \in Output
        /\ Blank(out["package_detector"].status).status = out["package_detector"].status
    BY <2>2, BlankType DEF Statuses
  <2>4. \A ms, p : [Detected("published") EXCEPT !.pin = p].status = Detected("published").status
    BY <1>1, StatusKept
  <2> QED BY <1>1, <2>2, <2>3, <2>4, StatusKept DEF PackageDetectorPublished
<1> QED BY <1>1, <1>2, <1>3, <1>4, <1>5

\* Whatever a client makes of an answer, it fails for the registry's trouble.
LEMMA RegistryFailures ==
  ASSUME Inv, NEW p \in Package
  PROVE  /\ Responded(p) = "failed" => RegistryTrouble(p)
         /\ MetadataOf(p) = "garbled" => RegistryTrouble(p)
         /\ Responded(p) = "found" /\ HistoryIsGarbled(EcosystemOf[p], world.pkg[p].listing) =>
              RegistryTrouble(p)
<1> DEFINE l == world.pkg[p].listing
           e == EcosystemOf[p]
           a == Asked(p)
<1>1. /\ l \in Listing /\ a \in MaybeVersion /\ e \in {"npm", "pypi", "rubygems"}
  BY InvParts, WorldTypes, WorldAssumption DEF PackageFacts, Asked, MaybeVersion, Ecosystem
<1>2. Dated(l) \subseteq Listed(l) /\ (SomeUnreadable(l) => ~ Listed(l) \subseteq Dated(l))
  BY <1>1, AgeAssumption DEF Dated, Listed, SomeUnreadable, Listing, Age
<1>3. ASSUME Responded(p) = "failed"
      PROVE  RegistryTrouble(p)
  <2>1. CASE e = "npm"
    BY <1>1, <1>3, <2>1 DEF Responded, Response, NpmResponse, FetchStatus, RegistryTrouble,
       Listing, Answer
  <2>2. CASE e = "pypi"
    BY <1>1, <1>3, <2>2 DEF Responded, Response, PypiResponse, PypiDetail, ProjectStatus,
       RegistryTrouble
  <2>3. CASE e = "rubygems"
    BY <1>1, <1>2, <1>3, <2>3 DEF Responded, Response, GemResponse, GemDocument, FetchStatus,
       RegistryTrouble, Listing, Answer
  <2> QED BY <1>1, <2>1, <2>2, <2>3
<1>4. ASSUME MetadataOf(p) = "garbled"
      PROVE  RegistryTrouble(p)
  <2>1. CASE e = "npm"
    BY <1>1, <1>2, <1>4, <2>1 DEF MetadataOf, Metadata, NpmMetadata, RegistryTrouble
  <2>2. CASE e = "pypi"
    <3>1. l.latest \in Versions /\ l.age[l.latest] = Unreadable
      BY <1>1, <1>4, <2>2 DEF MetadataOf, Metadata, PypiMetadata, Listing, MaybeVersion
    <3> QED BY <1>2, <3>1 DEF SomeUnreadable, RegistryTrouble
  <2>3. CASE e = "rubygems"
    BY <1>4, <2>3 DEF MetadataOf, Metadata, GemMetadata, RegistryTrouble
  <2> QED BY <1>1, <2>1, <2>2, <2>3
<1>5. ASSUME Responded(p) = "found", HistoryIsGarbled(e, l)
      PROVE  RegistryTrouble(p)
  <2>1. e = "npm" => l.index = "ok"
    BY <1>1, <1>5 DEF Responded, Response, NpmResponse, FetchStatus, Listing, Answer
  <2> QED BY <1>1, <1>2, <1>5, <2>1 DEF HistoryIsGarbled, GemHistory, RegistryTrouble,
          Listing, Answer
<1> QED BY <1>3, <1>4, <1>5

LEMMA TwoMembers ==
  ASSUME NEW S, Cardinality(S) > 1
  PROVE  \E x, y \in S : x # y
<1>1. S # {}
  BY FS_EmptySet
<1>2. PICK x \in S : TRUE
  BY <1>1
<1>3. S # {x}
  BY FS_Singleton
<1> QED BY <1>2, <1>3

LEMMA TransformedStatus ==
  ASSUME Inv, NEW garbled
  PROVE  /\ Transformed(garbled).status \in {"success", "skipped", "error"}
         /\ Transformed(garbled).status = "error" =>
              \E p \in input.packages \intersect garbled : Responded(p) = "found"
         /\ Transformed(garbled).packages \subseteq input.packages
<1> DEFINE answered == {p \in input.packages : Responded(p) = "found"}
<1>1. /\ [Success EXCEPT !.packages = answered].status = "success"
      /\ [Success EXCEPT !.packages = answered].packages = answered
  BY BasicOutputs, StatusKept DEF Output
<1>2. Skipped.packages = {} /\ Failed.packages = {}
  BY DEF Skipped, Failed, Blank
<1> QED BY <1>1, <1>2, BasicOutputs DEF Transformed

LEMMA RegistryStatuses ==
  ASSUME Inv
  PROVE  \A o \in {Fetcher, Transformer, VersionTransformer, ArtifactFetch, ProvenanceVerify} :
           /\ o.status \in {"success", "skipped", "error"}
           /\ o.status = "error" => ExternalCause
<1>1. input.packages \subseteq Package
  BY InvParts, WorldTypes
<1>2. \A p \in input.packages : RegistryTrouble(p) => ExternalCause
  BY DEF ExternalCause
<1>3. /\ Fetcher.status \in {"success", "skipped", "error"}
      /\ Fetcher.status = "error" => ExternalCause
  <2>1. [Success EXCEPT !.packages = input.packages].status = "success"
    BY BasicOutputs, StatusKept
  <2> QED BY <1>1, <1>2, <2>1, RegistryFailures, BasicOutputs DEF Fetcher
<1>4. /\ VersionTransformer.status \in {"success", "skipped", "error"}
      /\ VersionTransformer.status = "error" => ExternalCause
  BY <1>1, <1>2, RegistryFailures, TransformedStatus DEF VersionTransformer
<1>5. /\ TransformerBase.status \in {"success", "skipped", "error"}
      /\ TransformerBase.status = "error" => ExternalCause
      /\ TransformerBase.packages \subseteq input.packages
  BY <1>1, <1>2, RegistryFailures, TransformedStatus DEF TransformerBase
<1>6. Cardinality(TransformerURLs) > 1 => ExternalCause
  <2>1. SUFFICES ASSUME NEW x \in TransformerURLs, NEW y \in TransformerURLs, x # y
                 PROVE  ExternalCause
    BY TwoMembers
  <2>2. PICK p \in input.packages, q \in input.packages :
          /\ Facts(p).url = x /\ Facts(q).url = y /\ x # NoURL /\ y # NoURL
    BY <1>5 DEF TransformerURLs
  <2>3. world.pkg[q].url # world.pkg[p].url
    BY <1>1, <2>1, <2>2, InvParts, FactsURL
  <2> QED BY <2>3 DEF ExternalCause
<1>7. /\ Transformer.status \in {"success", "skipped", "error"}
      /\ Transformer.status = "error" => ExternalCause
  <2>1. \A u : [TransformerBase EXCEPT !.url = u].status = TransformerBase.status
    BY InvParts, TransformerTypes, StatusKept
  <2> QED BY <1>5, <1>6, <2>1, TransformerIs, BasicOutputs
<1>8. /\ ArtifactFetch.status \in {"success", "skipped", "error"}
      /\ ArtifactFetch.status = "error" => ExternalCause
  <2> DEFINE wanted == {p \in Described : Facts(p).artifact # "nourl"}
  <2>1. [Success EXCEPT !.packages = wanted].status = "success"
    BY BasicOutputs, StatusKept
  <2>2. ASSUME NEW p \in wanted, Facts(p).artifact = "unreachable"
        PROVE  ExternalCause
    <3>1. p \in input.packages /\ world.pkg[p] \in PackageFacts
      BY <1>1, InvParts, WorldTypes DEF Described
    <3>2. world.pkg[p].artifact = "unreachable"
      BY <2>2, <3>1 DEF Facts, PackageFacts
    <3> QED BY <3>1, <3>2 DEF ExternalCause
  <2> QED BY <2>1, <2>2, BasicOutputs DEF ArtifactFetch
<1>9. ProvenanceVerify.status = "success"
  BY ProvenanceVerifyIs, BasicOutputs, StatusKept
<1> QED BY <1>3, <1>4, <1>7, <1>8, <1>9

-----------------------------------------------------------------------------
(* Steps. *)

\* A node that has run is done.
LEMMA ResultStatus ==
  ASSUME Inv, NEW n \in Node, DepsDone(n)
  PROVE  Result(n).status # "none"
<1>1. [Skipped EXCEPT !.check = "skipped"].status # "none"
      /\ [Skipped EXCEPT !.check = "none"].status # "none"
  BY DEF Skipped, Blank
<1>2. Execute(n).status # "none"
  <2>1. CASE n \in Checks
    BY <2>1, ChecksAre, PlainChecks, DependentChecks, VerdictFields, BasicOutputs
  <2>2. CASE n \in {"git_resolve", "git_clone_content", "git_clone_metadata",
                    "org_security_policy", "policy_loader", "deps_extractor"}
    BY <2>2, GitStatuses, ProducersAre
  <2>3. CASE n \in {"package_detector", "license_files", "unsupported_manifests",
                    "package_detector_published", "git_clone_published_content"}
    BY <2>3, TreeStatuses, ProducersAre
  <2>4. CASE n \in {"fetcher", "transformer", "version_transformer", "artifact_fetch",
                    "provenance_verify"}
    BY <2>4, RegistryStatuses, ProducersAre
  <2> QED BY <2>1, <2>2, <2>3, <2>4, ProducersAre DEF Producers
<1> QED BY <1>1, <1>2 DEF Result

\* What a node returned is what it returns.
LEMMA CurrentOutput ==
  ASSUME Inv, NEW n \in Node, Ok(n)
  PROVE  out[n] = Execute(n)
<1>1. out[n] = Result(n)
  BY DEF Inv, OutputsAreCurrent, Done, Ok
<1>2. [Skipped EXCEPT !.check = "skipped"].status = "skipped"
      /\ [Skipped EXCEPT !.check = "none"].status = "skipped"
  BY BasicOutputs, StatusKept
<1> QED BY <1>1, <1>2 DEF Result, Ok

\* A cloned source has a tree, and one with a history is more than a directory.
LEMMA ClonesHaveTrees ==
  ASSUME Inv
  PROVE  /\ Ok("git_clone_content") => out["git_clone_content"].tree = "head" /\ HasURL
         /\ Ok("git_clone_metadata") => world.repo.kind # "plain" /\ HasURL
<1>1. Ok("git_clone_content") => out["git_clone_content"].tree = "head" /\ HasURL
  <2>1. [Success EXCEPT !.tree = "head"].tree = "head"
    BY BasicOutputs DEF Output
  <2>2. Ok("git_clone_content") => out["git_clone_content"] = GitCloneContent
    BY CurrentOutput, ProducersAre DEF Producers
  <2> QED BY <2>1, <2>2, BasicOutputs DEF GitCloneContent, Materialize, Ok
<1>2. Ok("git_clone_metadata") => world.repo.kind # "plain" /\ HasURL
  <2>1. Ok("git_clone_metadata") => out["git_clone_metadata"] = GitCloneMetadata
    BY CurrentOutput, ProducersAre DEF Producers
  <2> QED BY <2>1, BasicOutputs DEF GitCloneMetadata, Ok
<1> QED BY <1>1, <1>2

\* Why a check may return an error.  It has run after what it depends on, and if
\* that was skipped, so was the check.
LEMMA CheckFailures ==
  ASSUME Inv, NEW n \in Checks, DepsDone(n), Result(n).status = "error"
  PROVE  ExternalCause
<1>1. ~ AutoSkipped(n) /\ Result(n) = Execute(n)
  <2>1. [Skipped EXCEPT !.check = "skipped"].status = "skipped"
    BY BasicOutputs, StatusKept
  <2> QED BY <2>1 DEF Result
<1>2. Execute(n) = Failed
  BY <1>1, ChecksAre, PlainChecks, DependentChecks, VerdictFields
<1>3. n \in AutoSkip => \A d \in Deps(n) : Ok(d)
  <2>1. Deps(n) \subseteq Node
    BY DEF Deps, GitResolveDeps, FetcherDeps, Node, FixedDeps, Checks, Producers
  <2>2. \A d \in Deps(n) : out[d].status \in {"success", "skipped"}
    BY <2>1, InvParts, WorldTypes DEF DepsDone, Done, OrderInv, Output
  <2> QED BY <1>1, <2>2 DEF AutoSkipped, Ok
<1>4. CASE n \in {"source_no_ci", "source_no_security_policy"}
  <2>1. Ok("git_clone_content")
    BY <1>3, <1>4 DEF AutoSkip, Node, Deps, FixedDeps
  <2>2. out["git_clone_content"].tree # "none"
    BY <2>1, ClonesHaveTrees
  <2>3. world.repo.unreadable
    BY <1>2, <1>4, <2>2, ChecksAre, DependentChecks, VerdictFields, BasicOutputs
  <2> QED BY <2>3 DEF ExternalCause
<1>5. CASE n = "source_single_contributor"
  <2>1. Ok("git_clone_metadata") /\ Log = <<>>
    BY <1>2, <1>5, ChecksAre, DependentChecks, VerdictFields, BasicOutputs
  <2> QED BY <2>1, ClonesHaveTrees DEF ExternalCause
<1>6. CASE n \in {"source_repo_stale", "source_repo_abandoned", "source_repo_new",
                  "source_few_contributors", "source_no_human_commits",
                  "package_name_mismatch", "package_unreleased_changes"}
  <2>1. Ok("git_clone_metadata")
    BY <1>3, <1>6 DEF AutoSkip, Node, Deps, FixedDeps
  <2>2. Log = <<>>
    BY <1>2, <1>6, <2>1, ChecksAre, DependentChecks, VerdictFields, BasicOutputs
  <2> QED BY <2>1, <2>2, ClonesHaveTrees DEF ExternalCause
<1>7. n \notin {"source_no_ci", "source_no_security_policy", "source_single_contributor",
                "source_repo_stale", "source_repo_abandoned", "source_repo_new",
                "source_few_contributors", "source_no_human_commits",
                "package_name_mismatch", "package_unreleased_changes"} =>
        Execute(n) \in Verdicts
  BY ChecksAre, PlainChecks
<1> QED BY <1>2, <1>4, <1>5, <1>6, <1>7, VerdictFields, BasicOutputs

\* No node fails but for a cause outside of the analysis.
LEMMA Failures ==
  ASSUME Inv, NEW n \in Node, DepsDone(n), Result(n).status = "error"
  PROVE  ExternalCause
<1>1. Result(n) = Execute(n)
  <2>1. [Skipped EXCEPT !.check = "skipped"].status = "skipped"
        /\ [Skipped EXCEPT !.check = "none"].status = "skipped"
    BY BasicOutputs, StatusKept
  <2> QED BY <2>1 DEF Result
<1>2. CASE n \in {"git_resolve", "git_clone_content", "git_clone_metadata",
                  "org_security_policy", "policy_loader", "deps_extractor"}
  BY <1>1, <1>2, GitStatuses, ProducersAre
<1>3. CASE n \in {"package_detector", "license_files", "unsupported_manifests",
                  "package_detector_published", "git_clone_published_content"}
  BY <1>1, <1>3, TreeStatuses, ProducersAre
<1>4. CASE n \in {"fetcher", "transformer", "version_transformer", "artifact_fetch",
                  "provenance_verify"}
  BY <1>1, <1>4, RegistryStatuses, ProducersAre
<1> QED BY <1>2, <1>3, <1>4, CheckFailures, ProducersAre DEF Producers

-----------------------------------------------------------------------------
(* The invariant. *)

\* What a stage does to the outputs and the input.
LEMMA StageIs ==
  ASSUME Inv, RunStage
  PROVE  /\ world' = world /\ phase = "running" /\ phase' = phase
         /\ \A n \in Ready : Result(n).status # "error"
         /\ out' = [n \in Node |-> IF n \in Ready THEN Result(n) ELSE out[n]]
         /\ input' = [input EXCEPT
              !.url = IF HasURL \/ "transformer" \notin Ready THEN @
                      ELSE Result("transformer").url,
              !.packages = IF "package_detector" \notin Ready THEN @
                           ELSE @ \union Result("package_detector").packages]
<1>1. DOMAIN Stage = Ready /\ \A n \in Ready : Stage[n] = Result(n)
  BY DEF Stage
<1>2. \A n \in Ready : Result(n).status # "error"
  BY <1>1 DEF RunStage
<1>3. out' = [n \in Node |-> IF n \in Ready THEN Result(n) ELSE out[n]]
  BY <1>1 DEF RunStage
<1>4. input' = Merged(Stage)
  BY DEF RunStage
<1>5. input' = [input EXCEPT
        !.url = IF HasURL \/ "transformer" \notin Ready THEN @ ELSE Result("transformer").url,
        !.packages = IF "package_detector" \notin Ready THEN @
                     ELSE @ \union Result("package_detector").packages]
  BY <1>1, <1>4 DEF Merged
<1> QED BY <1>2, <1>3, <1>5 DEF RunStage

\* The parts of the input a stage changes.
LEMMA StageInput ==
  ASSUME Inv, RunStage
  PROVE  /\ input' = [input EXCEPT !.url = input'.url, !.packages = input'.packages]
         /\ input'.url = IF HasURL \/ "transformer" \notin Ready THEN input.url
                         ELSE Result("transformer").url
         /\ input'.packages = IF "package_detector" \notin Ready THEN input.packages
                              ELSE input.packages \union Result("package_detector").packages
         /\ input' \in Input
<1>1. input \in Input
  BY InvParts DEF TypeOK
<1>2. \A n \in Ready : Result(n).url \in MaybeURL /\ Result(n).packages \subseteq Package
  BY InvParts, ResultType DEF Ready, Output
<1> DEFINE url == IF HasURL \/ "transformer" \notin Ready THEN input.url
                  ELSE Result("transformer").url
           packages == IF "package_detector" \notin Ready THEN input.packages
                       ELSE input.packages \union Result("package_detector").packages
<1>3. input' = [input EXCEPT !.url = url, !.packages = packages]
  BY StageIs
<1>4. url \in MaybeURL /\ packages \subseteq Package
  BY <1>1, <1>2 DEF Input
<1>5. input'.url = url /\ input'.packages = packages /\ input' \in Input
  <2> HIDE DEF url, packages
  <2> QED BY <1>1, <1>3, <1>4 DEF Input
<1> QED BY <1>3, <1>5

\* A source's packages are those of its detector; packages are given.
LEMMA DetectedPackages ==
  ASSUME Inv
  PROVE  input.key = "package" => Result("package_detector").packages = {}
<1>1. [Skipped EXCEPT !.check = "none"].packages = {} /\ Failed.packages = {}
  BY BasicOutputs DEF Output, Skipped, Failed, Blank
<1>2. input.key = "package" => PackageDetector.packages = {}
  <2>1. Detected("head") \in Output
    BY InvParts, WorldTypes, BasicOutputs, OutputUpdates DEF Detected, RepoFacts
  <2> QED BY <2>1 DEF PackageDetector, Named, Output
<1> QED BY <1>1, <1>2, ProducersAre DEF Result, Checks, Producers

LEMMA StageKeeps ==
  ASSUME Inv, RunStage
  PROVE  Keeps
<1>1. \A n \in Node : Done(n) => out'[n] = out[n]
  BY StageIs DEF Ready
<1>2. DepsDone("fetcher") => input'.packages = input.packages
  <2>1. CASE input.key = "package"
    BY <2>1, DetectedPackages, StageInput
  <2>2. CASE input.key # "package"
    <3>1. world.input.url # NoURL
      BY <2>2, InvParts, WorldTypes DEF InputInv, Askable, Input
    <3>2. Deps("fetcher") = {"package_detector"}
      BY <3>1 DEF Deps, FetcherDeps
    <3> QED BY <3>2, StageInput DEF DepsDone, Ready
  <2> QED BY <2>1, <2>2
<1> QED BY <1>1, <1>2, StageIs, StageInput DEF Keeps

LEMMA StageTypes ==
  ASSUME Inv, RunStage
  PROVE  TypeOK' /\ Askable(world)' /\ OrderInv'
<1>1. TypeOK'
  <2>1. out' \in [Node -> Output]
    BY StageIs, ResultType, InvParts DEF TypeOK, Ready
  <2> QED BY <2>1, StageIs, StageInput, InvParts DEF TypeOK
<1>2. Askable(world)'
  BY StageIs, InvParts DEF Askable
<1>3. \A n \in Node : Done(n)' <=> Done(n) \/ n \in Ready
  BY StageIs, ResultStatus DEF Done, Ready, DepsDone
<1>4. OrderInv'
  <2> SUFFICES ASSUME NEW n \in Node
               PROVE  /\ Done(n)' => \A d \in Deps(n) : Done(d)'
                      /\ ~ Done(n)' => out'[n] = Blank("none")
                      /\ out'[n].status # "error"
    BY StageKeeps, InputFrame DEF OrderInv
  <2>1. Done(n)' => \A d \in Deps(n) : Done(d)'
    BY <1>3, StageKeeps, InputFrame, InvParts DEF Ready, OrderInv
  <2>2. ~ Done(n)' => out'[n] = Blank("none")
    BY <1>3, StageIs, InvParts DEF OrderInv
  <2>3. out'[n].status # "error"
    BY StageIs, InvParts DEF OrderInv
  <2> QED BY <2>1, <2>2, <2>3
<1> QED BY <1>1, <1>2, <1>4

LEMMA StageInputInv ==
  ASSUME Inv, RunStage
  PROVE  InputInv'
<1>1. /\ "transformer" \in Node /\ "package_detector" \in Node
      /\ world' = world /\ input'.key = input.key
  BY StageKeeps, InputFrame, ProducersAre DEF Producers
<1>2. Blank("none").url = NoURL /\ Blank("none").packages = {}
  BY DEF Blank
<1>3. input' = [world.input EXCEPT !.url = input'.url, !.packages = input'.packages]
  BY StageInput, InvParts, WorldTypes DEF InputInv, Input
<1>4. input'.url = IF input.key = "package" THEN out'["transformer"].url ELSE world.input.url
  <2>1. CASE input.key = "package"
    <3>1. input.url = out["transformer"].url
      BY <2>1, InvParts DEF InputInv
    <3>2. "transformer" \in Ready => input.url = NoURL
      BY <1>1, <1>2, <3>1, InvParts DEF Ready, OrderInv
    <3> QED BY <1>1, <2>1, <3>1, <3>2, StageInput, StageIs DEF HasURL
  <2>2. CASE input.key # "package"
    <3>1. input.url = world.input.url /\ input.url # NoURL
      BY <2>2, InvParts, WorldTypes DEF InputInv, Askable, Input
    <3> QED BY <2>2, <3>1, StageInput DEF HasURL
  <2> QED BY <2>1, <2>2
<1>5. input'.packages = IF input.key = "package" THEN world.input.packages
                        ELSE out'["package_detector"].packages
  <2>1. CASE input.key = "package"
    BY <2>1, DetectedPackages, StageInput, InvParts DEF InputInv
  <2>2. CASE input.key # "package"
    <3>1. input.packages = out["package_detector"].packages
      BY <2>2, InvParts DEF InputInv
    <3>2. "package_detector" \in Ready => input.packages = {}
      BY <1>1, <1>2, <3>1, InvParts DEF Ready, OrderInv
    <3> QED BY <1>1, <2>2, <3>1, <3>2, StageInput, StageIs
  <2> QED BY <2>1, <2>2
<1>6. input'.url = LocalPath <=> IsLocal'
  <2>1. IsLocal' = IsLocal /\ (input.url = LocalPath <=> IsLocal)
    BY <1>1, InvParts DEF IsLocal, InputInv
  <2>2. ASSUME ~ HasURL
        PROVE  Result("transformer").url # LocalPath
    <3>1. /\ [Skipped EXCEPT !.check = "none"].url = NoURL
          /\ Skipped.url = NoURL /\ Failed.url = NoURL
      BY DEF Skipped, Failed, Blank
    <3>2. Transformer.url # LocalPath
      <4>1. TransformerBase \in Output /\ TransformerURL \in MaybeRepo
        BY InvParts, TransformerTypes
      <4>2. TransformerBase.status # "success" => TransformerBase \in {Skipped, Failed}
        <5>1. \A ps : [Success EXCEPT !.packages = ps].status = "success"
          BY BasicOutputs, StatusKept
        <5> QED BY <5>1 DEF TransformerBase, Transformed
      <4>3. [TransformerBase EXCEPT !.url = TransformerURL].url = TransformerURL
        BY <4>1 DEF Output
      <4> QED BY <2>2, <3>1, <4>1, <4>2, <4>3, TransformerIs, WorldAssumption DEF MaybeRepo
    <3> QED BY <3>1, <3>2, WorldAssumption, ProducersAre DEF Result, Checks, Producers
  <2> QED BY <2>1, <2>2, StageInput, WorldAssumption DEF HasURL
<1> QED BY <1>1, <1>3, <1>4, <1>5, <1>6 DEF InputInv

LEMMA StageInv ==
  ASSUME Inv, RunStage
  PROVE  Inv'
<1>1. OutputsAreCurrent'
  <2> SUFFICES ASSUME NEW n \in Node, Done(n)'
               PROVE  out'[n] = Result(n)'
    BY DEF OutputsAreCurrent
  <2>1. CASE Done(n)
    <3>1. DepsDone(n) /\ out[n] = Result(n) /\ out'[n] = out[n]
      BY <2>1, StageKeeps DEF Inv, OrderInv, OutputsAreCurrent, DepsDone, Keeps
    <3> QED BY <3>1, StageKeeps, ResultFrame
  <2>2. CASE n \in Ready
    <3>1. DepsDone(n) /\ out'[n] = Result(n)
      BY <2>2, StageIs DEF Ready, DepsDone
    <3> QED BY <3>1, StageKeeps, ResultFrame
  <2>3. CASE ~ Done(n) /\ n \notin Ready
    BY <2>3, StageIs DEF Done
  <2> QED BY <2>1, <2>2, <2>3
<1>2. phase' = "running"
  BY StageIs
<1> QED BY <1>1, <1>2, StageTypes, StageInputInv DEF Inv, FailuresAreExternal

\* A step that leaves everything but the phase alone.
LEMMA PhaseStep ==
  ASSUME Inv, UNCHANGED <<world, input, out>>,
         phase' \in {"running", "done", "failed"},
         phase' = "done" => \A n \in Node : Done(n),
         phase' = "failed" => ExternalCause
  PROVE  Inv'
<1>1. Keeps
  BY InvParts DEF Keeps, TypeOK, Input
<1>2. \A n \in Node : Done(n)' <=> Done(n)
  BY DEF Done
<1>3. TypeOK' /\ Askable(world)' /\ InputInv'
  BY InvParts DEF TypeOK, Askable, InputInv, IsLocal
<1>4. OrderInv'
  BY <1>1, <1>2, InputFrame, InvParts DEF OrderInv
<1>5. OutputsAreCurrent'
  <2> SUFFICES ASSUME NEW n \in Node, Done(n)
               PROVE  out[n] = Result(n)'
    BY <1>2 DEF OutputsAreCurrent
  <2>1. DepsDone(n) /\ out[n] = Result(n)
    BY DEF Inv, OrderInv, OutputsAreCurrent, DepsDone
  <2> QED BY <1>1, <2>1, ResultFrame
<1>6. FailuresAreExternal'
  <2>1. \A p : RegistryTrouble(p)' <=> RegistryTrouble(p)
    BY DEF RegistryTrouble
  <2>2. Log' = Log
    BY DEF Log
  <2> QED BY <2>1, <2>2 DEF FailuresAreExternal, ExternalCause
<1>7. phase' = "done" => \A n \in Node : Done(n)'
  BY <1>2
<1> QED BY <1>3, <1>4, <1>5, <1>6, <1>7 DEF Inv

LEMMA InitInv == Init => Inv
<1> SUFFICES ASSUME Init
             PROVE  Inv
  OBVIOUS
<1>1. world \in Worlds /\ world \in World /\ Askable(world)
  BY WorldAssumption, InputAssumption DEF Init
<1>2. Blank("none") \in Output /\ Blank("none").status = "none"
  BY BlankType DEF Statuses
<1>3. \A n \in Node : out[n] = Blank("none") /\ ~ Done(n)
  BY <1>2 DEF Init, Done
<1>4. TypeOK
  BY <1>1, <1>2 DEF TypeOK, Init, World
<1>5. OrderInv /\ OutputsAreCurrent
  BY <1>2, <1>3 DEF OrderInv, OutputsAreCurrent
<1>6. InputInv
  <2>1. Blank("none").url = NoURL /\ Blank("none").packages = {}
    BY DEF Blank
  <2>2. world.input \in Input /\ input = world.input
    BY <1>1 DEF World, Init
  <2>3. out["transformer"].url = NoURL /\ out["package_detector"].packages = {}
    BY <1>3, <2>1, ProducersAre DEF Producers
  <2> QED BY <1>1, <2>2, <2>3 DEF InputInv, Askable, Input, IsLocal
<1> QED BY <1>1, <1>4, <1>5, <1>6 DEF Inv, Init, FailuresAreExternal

\* The inductive invariant holds, for every set of packages and repositories and
\* whatever the registries, the remotes and the source trees hold.
THEOREM Invariance == Spec => []Inv
<1>1. Inv /\ [Next]_vars => Inv'
  <2> SUFFICES ASSUME Inv, [Next]_vars
               PROVE  Inv'
    OBVIOUS
  <2>1. CASE RunStage
    BY <2>1, StageInv
  <2>2. CASE StageFails
    <3>1. ExternalCause
      BY <2>2, Failures DEF StageFails, Ready, DepsDone
    <3> QED BY <2>2, <3>1, PhaseStep DEF StageFails
  <2>3. CASE Finish
    BY <2>3, PhaseStep DEF Finish
  <2>4. CASE UNCHANGED vars
    <3>1. phase \in {"running", "done", "failed"} /\ (phase = "failed" => ExternalCause)
      BY DEF Inv, TypeOK, FailuresAreExternal
    <3>2. phase = "done" => \A n \in Node : Done(n)
      BY DEF Inv
    <3> QED BY <2>4, <3>1, <3>2, PhaseStep DEF vars
  <2> QED BY <2>1, <2>2, <2>3, <2>4 DEF Next
<1> QED BY <1>1, InitInv, PTL DEF Spec

\* Every output, the input and the phase keep their type.
THEOREM TypeCorrect == Spec => []TypeOK
<1>1. Inv => TypeOK
  BY DEF Inv
<1> QED BY <1>1, Invariance, PTL

\* What a node returned is what it would return now.
THEOREM NothingIsStale == Spec => []OutputsAreCurrent
<1>1. Inv => OutputsAreCurrent
  BY DEF Inv
<1> QED BY <1>1, Invariance, PTL

\* An analysis fails for a reason outside of it only.
THEOREM FailsForACause == Spec => []FailuresAreExternal
<1>1. Inv => FailuresAreExternal
  BY DEF Inv
<1> QED BY <1>1, Invariance, PTL
=============================================================================

---------------------------- MODULE RiskGuardDag ----------------------------
(***************************************************************************)
(* The graph of one analysis: the nodes that lib/local/dag registers,      *)
(* their dependencies (src/dag-builder and GetDependencies of every node), *)
(* and the engine that runs them.                                          *)
(*                                                                         *)
(* The engine takes one step per stage.  ExecutionDag has the goroutines   *)
(* of a stage; its theorem StagesAreIsolated says that nothing they read   *)
(* changes while one of them is active, so a stage computes what all its   *)
(* nodes computed at once would.  No two nodes of one stage add different  *)
(* URLs to the input, so the order in which it folds them does not matter. *)
(***************************************************************************)
EXTENDS RiskGuardChecks

VARIABLE phase  \* "running", "done" or "failed"

vars == <<world, input, out, phase>>

-----------------------------------------------------------------------------
(* The graph. *)

\* Mutant: the fetcher waits for the detector whatever the input is.
FetcherAlwaysDetects == {"package_detector"}

\* Mutant: the fetcher does not wait for the detector of a source's packages.
FetcherNeverWaits == {}

\* A source is searched for packages, which are then fetched ...
FetcherDeps == IF world.input.url # NoURL THEN {"package_detector"} ELSE {}

\* ... and packages are fetched to learn where their source is.
GitResolveDeps ==
  IF world.input.url = NoURL /\ world.input.packages # {} THEN {"transformer"} ELSE {}

FixedDeps ==
  [git_resolve |-> {},
   git_clone_content |-> {"git_resolve"},
   git_clone_metadata |-> {"git_resolve"},
   provenance_verify |-> {"transformer", "git_resolve"},
   git_clone_published_content |-> {"git_resolve", "transformer", "provenance_verify"},
   org_security_policy |-> {"git_resolve"},
   package_detector |-> {"git_clone_content"},
   package_detector_published |-> {"git_clone_published_content", "package_detector"},
   license_files |-> {"git_clone_content"},
   policy_loader |-> {"git_clone_content"},
   unsupported_manifests |-> {"git_clone_content"},
   fetcher |-> {},
   transformer |-> {"fetcher"},
   version_transformer |-> {"fetcher"},
   artifact_fetch |-> {"transformer"},
   deps_extractor |-> {"package_detector", "transformer"},
   source_repo_not_found |-> {"git_resolve"},
   source_malformed_metadata |-> {"package_detector"},
   package_no_license |-> {"transformer"},
   package_registry_mismatch |-> {"fetcher"},
   package_registry_quarantined |-> {"fetcher"},
   package_unsafe_source_url |-> {"transformer"},
   package_source_url_mismatch |->
     {"transformer", "provenance_verify", "package_invalid_artifact"},
   package_name_mismatch |->
     {"git_clone_metadata", "package_detector_published", "transformer"},
   package_unreleased_changes |->
     {"transformer", "git_clone_metadata", "version_transformer"},
   package_stale_release |-> {"transformer", "version_transformer"},
   package_release_cooldown |-> {"version_transformer"},
   package_malformed_dependencies |-> {"transformer"},
   package_invalid_artifact |-> {"artifact_fetch", "provenance_verify"},
   source_no_human_commits |-> {"git_clone_metadata"},
   source_no_security_policy |-> {"git_clone_content", "org_security_policy"},
   source_no_ci |-> {"git_clone_content"},
   package_dynamic_name |-> {"package_detector_published"},
   package_install_scripts |-> {"package_detector_published", "artifact_fetch"},
   package_name_unexported |-> {"package_detector_published"},
   source_few_contributors |-> {"git_clone_metadata"},
   source_repo_new |-> {"git_clone_metadata"},
   source_single_contributor |->
     {"git_clone_metadata", "source_repo_stale", "source_repo_abandoned"},
   source_repo_abandoned |-> {"git_clone_metadata"},
   source_repo_stale |-> {"git_clone_metadata"},
   source_no_license |-> {"license_files"},
   source_unsupported_manifest_file |-> {"unsupported_manifests"},
   source_manifest_without_lockfile |-> {"package_detector"}]

Node == DOMAIN FixedDeps

Deps(n) ==
  IF n = "git_resolve" THEN GitResolveDeps
  ELSE IF n = "fetcher" THEN FetcherDeps
  ELSE FixedDeps[n]

Producers ==
  {"git_resolve", "git_clone_content", "git_clone_metadata", "provenance_verify",
   "git_clone_published_content", "org_security_policy", "package_detector",
   "package_detector_published", "license_files", "policy_loader",
   "unsupported_manifests", "fetcher", "transformer", "version_transformer",
   "artifact_fetch", "deps_extractor"}

Checks == Node \ Producers

\* Mutants: the engine may skip every node, or none.
AutoSkipAll == Node
AutoSkipNone == {}

\* The nodes whose AllowAutoSkip is not overridden.
AutoSkip ==
  Node \ {"package_detector_published", "provenance_verify", "package_install_scripts",
          "source_repo_not_found", "source_single_contributor",
          "package_source_url_mismatch", "package_invalid_artifact", "deps_extractor"}

Execute(n) ==
  CASE n = "git_resolve" -> GitResolve
    [] n = "git_clone_content" -> GitCloneContent
    [] n = "git_clone_metadata" -> GitCloneMetadata
    [] n = "provenance_verify" -> ProvenanceVerify
    [] n = "git_clone_published_content" -> GitClonePublishedContent
    [] n = "org_security_policy" -> OrgSecurityPolicy
    [] n = "package_detector" -> PackageDetector
    [] n = "package_detector_published" -> PackageDetectorPublished
    [] n = "license_files" -> LicenseFiles
    [] n = "policy_loader" -> PolicyLoader
    [] n = "unsupported_manifests" -> UnsupportedManifests
    [] n = "fetcher" -> Fetcher
    [] n = "transformer" -> Transformer
    [] n = "version_transformer" -> VersionTransformer
    [] n = "artifact_fetch" -> ArtifactFetch
    [] n = "deps_extractor" -> DepsExtractor
    [] n = "source_repo_not_found" -> SourceRepoNotFound
    [] n = "source_malformed_metadata" -> SourceMalformedMetadata
    [] n = "package_no_license" -> PackageNoLicense
    [] n = "package_registry_mismatch" -> PackageRegistryMismatch
    [] n = "package_registry_quarantined" -> PackageRegistryQuarantined
    [] n = "package_unsafe_source_url" -> PackageUnsafeSourceURL
    [] n = "package_source_url_mismatch" -> PackageSourceURLMismatch
    [] n = "package_name_mismatch" -> PackageNameMismatch
    [] n = "package_unreleased_changes" -> PackageUnreleasedChanges
    [] n = "package_stale_release" -> PackageStaleRelease
    [] n = "package_release_cooldown" -> PackageReleaseCooldown
    [] n = "package_malformed_dependencies" -> PackageMalformedDependencies
    [] n = "package_invalid_artifact" -> PackageInvalidArtifact
    [] n = "source_no_human_commits" -> SourceNoHumanCommits
    [] n = "source_no_security_policy" -> SourceNoSecurityPolicy
    [] n = "source_no_ci" -> SourceNoCI
    [] n = "package_dynamic_name" -> PackageDynamicName
    [] n = "package_install_scripts" -> PackageInstallScripts
    [] n = "package_name_unexported" -> PackageNameUnexported
    [] n = "source_few_contributors" -> SourceFewContributors
    [] n = "source_repo_new" -> SourceRepoNew
    [] n = "source_single_contributor" -> SourceSingleContributor
    [] n = "source_repo_abandoned" -> SourceRepoAbandoned
    [] n = "source_repo_stale" -> SourceRepoStale
    [] n = "source_no_license" -> SourceNoLicense
    [] n = "source_unsupported_manifest_file" -> SourceUnsupportedManifestFile
    [] n = "source_manifest_without_lockfile" -> SourceManifestWithoutLockfile

-----------------------------------------------------------------------------
(* The engine. *)

Init ==
  /\ world \in Worlds
  /\ input = world.input
  /\ out = [n \in Node |-> Blank("none")]
  /\ phase = "running"

Done(n) == out[n].status # "none"

Ready == {n \in Node : ~ Done(n) /\ \A d \in Deps(n) : Done(d)}

AutoSkipped(n) == n \in AutoSkip /\ \E d \in Deps(n) : out[d].status = "skipped"

\* A check the engine skips carries a "skipped" verdict as well.
Result(n) ==
  IF AutoSkipped(n)
  THEN [Skipped EXCEPT !.check = IF n \in Checks THEN "skipped" ELSE "none"]
  ELSE Execute(n)

\* The packages and the URL the results of a stage add to the input.
Merged(results) ==
  [input EXCEPT
     !.url = IF HasURL \/ "transformer" \notin DOMAIN results THEN @
             ELSE results["transformer"].url,
     !.packages = IF "package_detector" \notin DOMAIN results THEN @
                  ELSE @ \union results["package_detector"].packages]

Stage == [n \in Ready |-> Result(n)]

RunStage ==
  /\ phase = "running"
  /\ \E results \in {Stage} :
       /\ results # <<>>
       /\ \A n \in DOMAIN results : results[n].status # "error"
       /\ out' = [n \in Node |-> IF n \in DOMAIN results THEN results[n] ELSE out[n]]
       /\ input' = Merged(results)
  /\ UNCHANGED <<world, phase>>

\* One failing node fails the analysis; the outputs of its stage are dropped.
StageFails ==
  /\ phase = "running"
  /\ \E n \in Ready : Result(n).status = "error"
  /\ phase' = "failed"
  /\ UNCHANGED <<world, input, out>>

Finish ==
  /\ phase = "running"
  /\ \A n \in Node : Done(n)
  /\ phase' = "done"
  /\ UNCHANGED <<world, input, out>>

Next == RunStage \/ StageFails \/ Finish

Spec == Init /\ [][Next]_vars

-----------------------------------------------------------------------------
(* Properties. *)

\* Every output, the input and the phase keep their type: in particular no
\* manifest without a name becomes a package.
TypeOK ==
  /\ world \in World
  /\ input \in Input
  /\ out \in [Node -> Output]
  /\ phase \in {"running", "done", "failed"}

\* A node runs once, after its dependencies, and an error is never stored.
OrderInv ==
  \A n \in Node :
    /\ Done(n) => \A d \in Deps(n) : Done(d)
    /\ ~ Done(n) => out[n] = Blank("none")
    /\ out[n].status # "error"

\* What the input is at every moment: a source gains the packages its detector
\* finds, and packages gain the source their metadata names, never a path.
InputInv ==
  /\ input = [world.input EXCEPT !.url = input.url, !.packages = input.packages]
  /\ input.url = IF input.key = "package" THEN out["transformer"].url ELSE world.input.url
  /\ input.packages = IF input.key = "package" THEN world.input.packages
                      ELSE out["package_detector"].packages
  /\ input.url = LocalPath <=> IsLocal

\* No output is stale: what a node returned, earlier and with a smaller input, is
\* what it would return now, so that in the end all of them speak of one input.
OutputsAreCurrent == \A n \in Node : Done(n) => out[n] = Result(n)

\* Whatever is given, a source or packages, the conditional dependencies never
\* close a cycle: an analysis under way has a node to run until all are done.
GraphIsRunnable ==
  phase = "running" => Ready # {} \/ \A n \in Node : Done(n)

\* What makes an analysis fail.  An empty history is on the list because the
\* code puts it there; EmptyHistoryIsAnalysed is about that.  So is a gem that
\* does not exist, and a package none of whose versions has a date.
RegistryTrouble(p) ==
  LET l == world.pkg[p].listing
  IN \/ "failing" \in {l.index, l.exact, l.extra}
     \/ l.index = "missing" /\ EcosystemOf[p] # "npm"
     \/ l.latest = AnyVersion \/ Dated(l) = {} \/ ~ Listed(l) \subseteq Dated(l)
     \/ l.release = Unreadable

ExternalCause ==
  \/ world.repo.kind = "remote" /\ world.repo.reply \in {"unsafe", "unreachable"}
  \/ world.repo.kind = "remote" /\ world.repo.reply = "denied" /\ world.input.token
  \/ world.repo.kind # "plain" /\ Log = <<>>
  \/ world.repo.unclonable \intersect {"head", "metadata"} # {}
  \/ world.repo.unreadable \/ world.repo.policy = "unreadable"
  \/ \E p \in input.packages :
       \/ RegistryTrouble(p)
       \/ world.pkg[p].artifact = "unreachable"
       \/ \E q \in input.packages : world.pkg[q].url # world.pkg[p].url

\* An analysis fails for a reason outside of it only: no node is run on the
\* missing output of a node that was skipped.
FailuresAreExternal == phase = "failed" => ExternalCause

\* The inductive invariant.
Inv ==
  /\ TypeOK
  /\ Askable(world)
  /\ OrderInv
  /\ InputInv
  /\ OutputsAreCurrent
  /\ phase = "done" => \A n \in Node : Done(n)
  /\ FailuresAreExternal

\* One cause is reported once: the checks that describe the same condition at
\* different strengths give way to each other, across stages.
OneFindingPerCause ==
  /\ Cardinality({n \in {"source_repo_stale", "source_repo_abandoned",
                         "source_single_contributor"} : Violates(n)}) <= 1
  /\ ~ (Violates("package_invalid_artifact") /\ Violates("package_source_url_mismatch"))
  /\ Cardinality(input.packages) = 1 =>
       ~ (Violates("package_registry_mismatch") /\ Violates("package_registry_quarantined"))

\* The attestations of the first package that advertises any.
Judged ==
  LET advertising == {p \in Described : Facts(p).advertised /\ Facts(p).readable}
  IN IF advertising = {} THEN <<>> ELSE world.pkg[First(advertising)].bundles

\* A provenance that is advertised and forged, with no genuine one beside it, is
\* reported, also when the artifact was not fetched and when the source could
\* not be resolved; it is never lost to an automatic skip.
TamperingIsReported ==
  /\ phase = "done"
  /\ \E i \in DOMAIN Judged : Judged[i].kind \in {"unsigned", "other_digest"}
  /\ \A i \in DOMAIN Judged : Judged[i].kind # "signed"
  /\ \A p \in Described : Facts(p).advertised => Facts(p).readable
  => Violates("package_invalid_artifact")

OfSourceTree ==
  {"source_malformed_metadata", "source_no_security_policy", "source_no_ci",
   "source_no_license", "source_unsupported_manifest_file",
   "source_manifest_without_lockfile", "package_dynamic_name", "package_name_unexported",
   "package_name_mismatch", "source_repo_stale", "source_repo_abandoned"}

\* A source that cannot be looked at is a finding of its own, and no check of
\* its tree or its history passes or fails without it.  It is the finding of a
\* server that answered, or that the resolver knows no better of: one that could
\* not be reached, or that rejects the token it was given, fails the analysis.
UnavailableSourceIsReported ==
  phase = "done" =>
    /\ ~ Ok("git_clone_content") =>
         /\ Violates("source_repo_not_found")
         /\ \A n \in OfSourceTree : out[n].check = "skipped"
    /\ HasURL /\ ~ IsLocal /\ Violates("source_repo_not_found") =>
         \/ world.repo.reply \in {"unknown_host", "absent", "silent", "broken"}
         \/ world.repo.reply = "denied" /\ ~ world.input.token

\* A name is vouched for by a manifest of the tree that states it, or by a
\* genuine attestation that names the repository that was resolved.
NamesAreVouchedFor ==
  out["package_name_mismatch"].check = "compliant" =>
    \/ \E m \in Static : m.name \in input.packages
    \/ \E i \in DOMAIN Judged :
         Judged[i].kind = "signed" /\ Judged[i].repo = out["git_resolve"].url

\* The identity of what was analysed: a path on disk has that of its origin.
AnalysedRepo == IF IsLocal THEN world.repo.origin ELSE input.url

\* Without a repository named by an attestation, a mismatch means that a
\* registry names another repository than the one analysed, and that the one
\* analysed has an identity to compare.
SourceMismatchIsReal ==
  Violates("package_source_url_mismatch") /\ Attested.repo = NoURL =>
    /\ AnalysedRepo # NoURL
    /\ \E p \in Described : Facts(p).url \notin {NoURL, AnalysedRepo}

\* A pass overlooks nothing that could be read.  A release check passes only when
\* some release it saw is dated.  Artifacts pass as free of install scripts only
\* when no archive of the batch declares one, whatever else of the batch could not
\* be read; an artifact that is not what its hash says hides none unreported.
\* (An archive whose manifest is missing or does not parse passes unread.)
PassesOverlookNothing ==
  phase = "done" =>
    /\ \A n \in {"package_stale_release", "package_unreleased_changes"} :
         out[n].check = "compliant" => \E p \in Described : LastRelease(p) # Never
    /\ input.key = "package" /\ out["package_install_scripts"].check = "compliant" =>
         \A p \in out["artifact_fetch"].packages : world.pkg[p].scripts = "some" =>
           world.pkg[p].artifact = "corrupt" /\ Violates("package_invalid_artifact")

\* git/analyzer.go says of a repository without commits that it is a valid state
\* that should not fail the whole analysis.  Nothing else is wrong in the worlds
\* this is checked in.
EmptyHistoryIsAnalysed == Log = <<>> => phase # "failed"

\* source_repo_stale and source_repo_abandoned say that the repository has had
\* no human commits for a long time: then every human commit is that old.
InactiveReposAreInactive ==
  Violates("source_repo_stale") \/ Violates("source_repo_abandoned") =>
    \A i \in DOMAIN Human : Human[i].age > 365

\* provenance_verify says that a repo mismatch is an attestation that names a
\* different repository than the one that was analysed.
MismatchNamesAnother ==
  Attested.reason = "repo-mismatch" => Attested.repo # AnalysedRepo
=============================================================================

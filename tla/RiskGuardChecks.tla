-------------------------- MODULE RiskGuardChecks ---------------------------
(***************************************************************************)
(* The checks of src/dag-impl/checks, one operator each, named after the   *)
(* directory of the check.  A check that decides not to apply returns a    *)
(* "skipped" verdict, which to the engine is a success; rationales,        *)
(* evidence and thresholds are left out.                                   *)
(***************************************************************************)
EXTENDS RiskGuardNodes

Verdict(check) == [Success EXCEPT !.check = check]

Compliant == Verdict("compliant")
Violation == Verdict("violation")
NotApplicable == Verdict("skipped")

Unless(violated) == IF violated THEN Violation ELSE Compliant

\* Mutant: a package without a date counts as compliant.
GradedUnknownPasses(bad, good, unknown) == IF bad # {} THEN Violation ELSE Compliant

\* How the checks of dates fold their packages.
Graded(bad, good, unknown) ==
  IF bad # {} THEN Violation
  ELSE IF good = {} /\ unknown # {} THEN NotApplicable
  ELSE Compliant

-----------------------------------------------------------------------------
(* The commit history, as AnalyzeRepository summarises it. *)

WithoutBots(log) == SelectSeq(log, LAMBDA c : ~ c.bot)

Human == WithoutBots(Log)

\* When every commit is a bot's, all of them count.
Counted == IF Human = <<>> THEN Log ELSE Human

CountedSet == {Counted[i] : i \in DOMAIN Counted}

LatestAge == Counted[1].age
FirstAge == Counted[Len(Counted)].age

RecentAuthors == Cardinality({c.author : c \in {d \in CountedSet : d.age < 365}})

\* Some window of 30 days ending with a commit has n authors or more.
MonthlyAuthorsReach(n) ==
  \E last \in CountedSet :
    Cardinality({c.author : c \in {d \in CountedSet :
                   d.age \in last.age .. last.age + 29}}) >= n

\* A check of the history fails without metadata, which auto-skipping rules out.
OfHistory(check) == IF Ok("git_clone_metadata") THEN check ELSE Failed

\* An empty history has metadata without counts: a check either accepts that ...
IfDated(check) == OfHistory(IF Log = <<>> THEN NotApplicable ELSE check)

\* ... or returns an error.
MustCount(check) == OfHistory(IF Log = <<>> THEN Failed ELSE check)

SourceRepoStale ==
  IfDated(IF LatestAge > 365 * 5 THEN NotApplicable ELSE Unless(LatestAge > 365))

SourceRepoAbandoned == IfDated(Unless(LatestAge > 365 * 5))

SourceRepoNew == MustCount(Unless(FirstAge < 365))

SourceFewContributors == MustCount(Unless(~ MonthlyAuthorsReach(3)))

SourceNoHumanCommits == OfHistory(Unless(Human = <<>>))

Violates(n) == out[n].check = "violation"

\* Mutant: the check does not defer to the others.
SingleContributorUndeferred ==
  IF ~ Ok("git_clone_metadata") THEN NotApplicable ELSE MustCount(Unless(RecentAuthors <= 1))

SourceSingleContributor ==
  IF Violates("source_repo_stale") \/ Violates("source_repo_abandoned") THEN NotApplicable
  ELSE IF ~ Ok("git_clone_metadata") THEN NotApplicable
  ELSE MustCount(Unless(RecentAuthors <= 1))

-----------------------------------------------------------------------------
(* The source tree. *)

SourceRepoNotFound == Unless(~ HasURL \/ ~ Ok("git_resolve"))

OfTree(check) ==
  IF out["git_clone_content"].tree = "none" \/ world.repo.unreadable THEN Failed ELSE check

SourceNoCI == OfTree(Unless(~ world.repo.ci))

SourceNoSecurityPolicy ==
  OfTree(Unless(~ world.repo.security /\ ~ out["org_security_policy"].found))

SourceNoLicense == Unless(~ out["license_files"].found)

SourceUnsupportedManifestFile ==
  IF input.key # "source" THEN NotApplicable
  ELSE Unless(out["unsupported_manifests"].found)

SourceMalformedMetadata == Unless(\E m \in out["package_detector"].manifests : m.broken)

SourceManifestWithoutLockfile ==
  IF input.key # "source" THEN NotApplicable
  ELSE Unless(\E m \in out["package_detector"].manifests : ~ m.lockfile)

-----------------------------------------------------------------------------
(* The manifests of the published tree, or of HEAD. *)

Published == out["package_detector_published"]

OfManifests(check) == IF Published.manifests = {} THEN NotApplicable ELSE check

PackageDynamicName == OfManifests(Unless(\E m \in Published.manifests : m.dynamic))

PackageNameUnexported ==
  OfManifests(Unless(\A m \in Published.manifests : m.name = NoName))

InstallScriptsOfSource == OfManifests(Unless(\E m \in Published.manifests : m.scripts))

\* An artifact without files is passed over: one that fails its hash has none,
\* nor has an archive without the manifest.  So is a manifest that does not parse.
Scanned(p) ==
  world.pkg[p].artifact # "corrupt" /\ world.pkg[p].scripts \notin {"absent", "garbled"}

\* Mutant: a manifest that does not parse ends the scan.
InstallScriptsUpToError ==
  LET packages == out["artifact_fetch"].packages
  IN Unless(/\ \E p \in packages : Scanned(p) /\ world.pkg[p].scripts = "some"
            /\ \A p \in packages : world.pkg[p].scripts # "garbled")

InstallScriptsOfArtifacts ==
  Unless(\E p \in out["artifact_fetch"].packages :
           Scanned(p) /\ world.pkg[p].scripts = "some")

PackageInstallScripts ==
  IF input.key = "source" /\ Published.status = "success" THEN InstallScriptsOfSource
  ELSE IF Ok("artifact_fetch") THEN InstallScriptsOfArtifacts
  ELSE NotApplicable

\* The manifests of the tree that name a package, literally.
Static == {m \in Published.manifests : ~ m.dynamic /\ m.name # NoName}

PackageNameMismatch ==
  LET siblings(p) == {m \in Static : EcosystemOf[m.name] = EcosystemOf[p]}
      matched == {p \in input.packages : \E m \in Static : m.name = p}
      mismatched == {p \in input.packages \ matched : siblings(p) # {}}
  IN OfHistory(
       IF Published.pin = "provenance" THEN Compliant
       ELSE IF Published.manifests = {} THEN NotApplicable
       ELSE IF Static = {} /\ \E m \in Published.manifests : m.dynamic THEN NotApplicable
       ELSE IF mismatched # {} THEN Violation
       ELSE IF matched # {} THEN Compliant
       ELSE NotApplicable)

-----------------------------------------------------------------------------
(* Registry metadata. *)

\* One version the registry does not know decides for all packages.
OfVersions(check) ==
  IF \E p \in Described : MetadataOf(p) = "version_not_found" THEN NotApplicable ELSE check

PackageMalformedDependencies == OfVersions(Unless(\E p \in Described : Facts(p).malformed))

PackageNoLicense == OfVersions(Unless(\E p \in Described : ~ Facts(p).license))

PackageUnsafeSourceURL ==
  Unless(\E p \in out["transformer"].packages : Facts(p).rejected)

Fetched(response) ==
  {p \in input.packages \intersect out["fetcher"].packages : Responded(p) = response}

PackageRegistryMismatch ==
  Unless(\/ \E p \in Fetched("missing") : ~ Private(p)
         \/ \E p \in Fetched("found") : Private(p))

PackageRegistryQuarantined == Unless(\E p \in Fetched("quarantined") : ~ Private(p))

-----------------------------------------------------------------------------
(* Releases. *)

Versioned == input.packages \intersect out["version_transformer"].packages

Newest(p) == LatestVersion(EcosystemOf[p], world.pkg[p].listing)
AgeOf(p, version) == AgeIn(EcosystemOf[p], world.pkg[p].listing, version)

\* A version that is not in the index is passed over.
PackageReleaseCooldown ==
  LET age(p) == IF Pinned(p) THEN AgeOf(p, Asked(p)) ELSE AgeOf(p, Newest(p))
      listed == {p \in Versioned : age(p) # Unlisted}
      unknown == {p \in listed : age(p) = Never}
      bad == {p \in listed \ unknown : age(p) < 7}
  IN Graded(bad, listed \ (unknown \union bad), unknown)

\* The latest version counts when the index names one, dated or not.
LastRelease(p) ==
  IF p \in Versioned /\ Newest(p) # AnyVersion THEN AgeOf(p, Newest(p))
  ELSE IF MetadataOf(p) = "success"
  THEN ReleaseAge(EcosystemOf[p], world.pkg[p].listing, Asked(p))
  ELSE Never

Measured == {p \in Described : LastRelease(p) # Never}

GradedBy(bad) == Graded(bad, Measured \ bad, Described \ Measured)

PackageStaleRelease == GradedBy({p \in Measured : LastRelease(p) >= 365 * 3})

PackageUnreleasedChanges ==
  IfDated(GradedBy({p \in Measured : LastRelease(p) - LatestAge > 365}))

-----------------------------------------------------------------------------
(* The artifact and its provenance. *)

Attested == out["provenance_verify"].provenance

PackageInvalidArtifact ==
  LET forged == Attested.reason \in {"invalid-signature", "digest-mismatch"}
      corrupt == \E p \in out["artifact_fetch"].packages :
                   world.pkg[p].artifact \in {"unhashed", "corrupt"}
  IN IF out["artifact_fetch"].status = "skipped" /\ ~ forged THEN NotApplicable
     ELSE Unless(forged \/ corrupt)

\* Mutant: a local source is compared by its path.
ComparisonURLRaw == input.url

\* What a registry's URL is compared with: the origin of a source on disk.
ComparisonURL == IF input.url = LocalPath THEN world.repo.origin ELSE input.url

PackageSourceURLMismatch ==
  LET declared == {p \in Described : Facts(p).url # NoURL}
      differs == \E p \in declared : Facts(p).url # ComparisonURL
      elsewhere == Attested.reason = "repo-mismatch" /\ Attested.repo # NoURL
  IN IF ~ HasURL \/ Violates("package_invalid_artifact") \/ ComparisonURL = NoURL
     THEN NotApplicable
     ELSE IF differs \/ elsewhere THEN Violation
     ELSE IF declared # {} THEN Compliant
     ELSE NotApplicable
=============================================================================

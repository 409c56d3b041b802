---------------------- MODULE RiskGuardFindingsProofs -----------------------
(***************************************************************************)
(* What the findings of an analysis mean, in every world.  Each property   *)
(* speaks of several outputs that different stages stored.  The invariant  *)
(* of RiskGuardDagProofs makes them all results of the present input and   *)
(* outputs, so that each property is a fact about the definitions of the   *)
(* nodes it names.                                                         *)
(***************************************************************************)
EXTENDS RiskGuardDagProofs

-----------------------------------------------------------------------------
(* Where an output comes from. *)

\* A check that passes or finds something was run.
LEMMA VerdictIsRun ==
  ASSUME Inv, NEW n \in Checks, out[n].check \in {"compliant", "violation"}
  PROVE  Done(n) /\ ~ AutoSkipped(n) /\ out[n] = Execute(n)
<1>1. n \in Node
  BY DEF Checks
<1>2. Done(n)
  BY <1>1, InvParts DEF OrderInv, Blank
<1>3. out[n] = Result(n)
  BY <1>1, <1>2 DEF Inv, OutputsAreCurrent
<1>4. [Skipped EXCEPT !.check = "skipped"].check = "skipped"
  BY BasicOutputs DEF Output
<1> QED BY <1>2, <1>3, <1>4 DEF Result

\* The nodes that are never skipped.
LEMMA UnskippableIsRun ==
  ASSUME Inv, NEW n \in Node \ AutoSkip, Done(n)
  PROVE  out[n] = Execute(n)
  BY DEF Inv, OutputsAreCurrent, Result, AutoSkipped

\* What an automatic skip looks like.
LEMMA SkipIsShown ==
  ASSUME Inv, NEW n \in AutoSkip, Done(n), NEW d \in Deps(n), out[d].status = "skipped"
  PROVE  out[n].status = "skipped" /\ (n \in Checks => out[n].check = "skipped")
<1>1. out[n] = [Skipped EXCEPT !.check = IF n \in Checks THEN "skipped" ELSE "none"]
  BY DEF Inv, OutputsAreCurrent, Result, AutoSkipped, AutoSkip
<1> QED BY <1>1, BasicOutputs DEF Output

\* What has run was neither left out nor lost.
LEMMA DoneStatus ==
  ASSUME Inv, NEW n \in Node, Done(n)
  PROVE  /\ out[n].status \in {"success", "skipped"}
         /\ \A d \in Deps(n) : d \in Node /\ Done(d)
<1>1. Deps(n) \subseteq Node
  BY DEF Deps, GitResolveDeps, FetcherDeps, Node, FixedDeps
<1> QED BY <1>1, InvParts, WorldTypes DEF Done, OrderInv, Output

\* A verdict of two outcomes.
LEMMA UnlessMeans ==
  ASSUME NEW violated
  PROVE  /\ Unless(violated).check = "violation" <=> violated
         /\ Unless(violated).check = "compliant" <=> ~ violated
  BY VerdictFields DEF Unless

-----------------------------------------------------------------------------
(* One finding per cause. *)

LEMMA AtMostOne ==
  ASSUME NEW S, \A x, y \in S : x = y
  PROVE  Cardinality(S) <= 1
<1>1. CASE S = {}
  BY <1>1, FS_EmptySet
<1>2. CASE S # {}
  <2>1. PICK x \in S : TRUE
    BY <1>2
  <2>2. S = {x}
    OBVIOUS
  <2> QED BY <2>2, FS_Singleton
<1> QED BY <1>1, <1>2

\* The checks of an inactive source give way to each other.
LEMMA InactivityOnce ==
  ASSUME Inv
  PROVE  /\ ~ (Violates("source_repo_stale") /\ Violates("source_repo_abandoned"))
         /\ Violates("source_single_contributor") =>
              ~ Violates("source_repo_stale") /\ ~ Violates("source_repo_abandoned")
<1>1. {"source_repo_stale", "source_repo_abandoned", "source_single_contributor"} \subseteq Checks
  BY ChecksAre
<1>2. ASSUME Violates("source_repo_stale"), Violates("source_repo_abandoned")
      PROVE  FALSE
  <2>1. SourceRepoStale.check = "violation" /\ SourceRepoAbandoned.check = "violation"
    BY <1>1, <1>2, VerdictIsRun, ChecksAre DEF Violates
  <2>2. Unless(LatestAge > 365 * 5).check = "violation"
    BY <2>1, VerdictFields DEF SourceRepoAbandoned, IfDated, OfHistory
  <2>3. LatestAge > 365 * 5
    BY <2>2, VerdictFields DEF Unless
  <2> QED BY <2>1, <2>3, VerdictFields DEF SourceRepoStale, IfDated, OfHistory
<1>3. ASSUME Violates("source_single_contributor")
      PROVE  ~ Violates("source_repo_stale") /\ ~ Violates("source_repo_abandoned")
  <2>1. SourceSingleContributor.check = "violation"
    BY <1>1, <1>3, VerdictIsRun, ChecksAre DEF Violates
  <2> QED BY <2>1, VerdictFields DEF SourceSingleContributor
<1> QED BY <1>2, <1>3

\* One package has one answer of the registry.
LEMMA RegistryOnce ==
  ASSUME Inv, Cardinality(input.packages) = 1
  PROVE  ~ (Violates("package_registry_mismatch") /\ Violates("package_registry_quarantined"))
<1> SUFFICES ASSUME Violates("package_registry_mismatch"),
                    Violates("package_registry_quarantined")
             PROVE  FALSE
  OBVIOUS
<1>1. /\ PackageRegistryMismatch.check = "violation"
      /\ PackageRegistryQuarantined.check = "violation"
  BY VerdictIsRun, ChecksAre DEF Violates
<1>2. PICK p \in Fetched("missing") \union Fetched("found") : TRUE
  BY <1>1, UnlessMeans DEF PackageRegistryMismatch
<1>3. PICK q \in Fetched("quarantined") : TRUE
  BY <1>1, UnlessMeans DEF PackageRegistryQuarantined
<1>4. p = q
  <2>1. IsFiniteSet(input.packages)
    BY InvParts, WorldTypes, WorldAssumption, FS_Subset
  <2>2. PICK x : input.packages = {x}
    BY <2>1, FS_Singleton
  <2> QED BY <2>2 DEF Fetched
<1> QED BY <1>2, <1>3, <1>4 DEF Fetched

\* One cause is reported once.
THEOREM CausesAreReportedOnce == Spec => []OneFindingPerCause
<1>1. ASSUME Inv
      PROVE  OneFindingPerCause
  <2>1. Cardinality({n \in {"source_repo_stale", "source_repo_abandoned",
                            "source_single_contributor"} : Violates(n)}) <= 1
    BY <1>1, InactivityOnce, AtMostOne
  <2>2. ASSUME Violates("package_invalid_artifact"), Violates("package_source_url_mismatch")
        PROVE  FALSE
    <3>1. PackageSourceURLMismatch.check = "violation"
      BY <1>1, <2>2, VerdictIsRun, ChecksAre DEF Violates
    <3> QED BY <2>2, <3>1, VerdictFields DEF PackageSourceURLMismatch
  <2> QED BY <1>1, <2>1, <2>2, RegistryOnce DEF OneFindingPerCause
<1> QED BY <1>1, Invariance, PTL

-----------------------------------------------------------------------------
(* Forged provenance. *)

\* A readable list of attestations without a genuine one is judged by what is
\* wrong with it.
LEMMA ForgedIsJudged ==
  ASSUME NEW bundles \in Seq(Bundle),
         \E i \in DOMAIN bundles : bundles[i].kind \in {"unsigned", "other_digest"},
         \A i \in DOMAIN bundles : bundles[i].kind # "signed"
  PROVE  /\ ~ Verify(bundles).verified
         /\ Verify(bundles).reason \in {"invalid-signature", "digest-mismatch"}
<1>1. CASE Trusted(bundles) # {}
  <2>1. bundles[First(Trusted(bundles))].kind = "other_digest"
    BY <1>1, TrustedIsFirst DEF Trusted
  <2> QED BY <1>1, <2>1 DEF Verify, Trusted
<1>2. CASE Trusted(bundles) = {}
  <2>1. PICK i \in DOMAIN bundles : bundles[i].kind = "unsigned"
    BY <1>2 DEF Trusted
  <2>2. Verify(bundles) = NoProvenance("invalid-signature")
    BY <1>2, <2>1 DEF Verify, Trusted
  <2> QED BY <2>2 DEF NoProvenance
<1> QED BY <1>1, <1>2

\* Facts leave the attestations of a package as the registry has them.
LEMMA FactsKeep ==
  ASSUME Inv, NEW p \in Package
  PROVE  /\ Facts(p).readable = world.pkg[p].readable
         /\ Facts(p).artifact # "nourl" => Facts(p).artifact = world.pkg[p].artifact
  BY InvParts, WorldTypes DEF Facts, PackageFacts

\* The attestations that are judged are those of the first package that
\* advertises any, when they can be read.
LEMMA JudgedIsFirst ==
  ASSUME Inv, Advertising # {}, FirstAdvertising.readable
  PROVE  Judged = FirstAdvertising.bundles
<1> DEFINE readable == {p \in Described : Facts(p).advertised /\ Facts(p).readable}
<1>1. Advertising \subseteq Nat /\ Advertising \subseteq Package
  BY InvParts, WorldTypes, WorldAssumption DEF Advertising, Described
<1>2. First(Advertising) \in Advertising /\ \A j \in Advertising : First(Advertising) <= j
  BY <1>1, FirstIsLeast
<1>3. First(Advertising) \in readable /\ readable \subseteq Advertising
  BY <1>1, <1>2, FactsKeep DEF Advertising, FirstAdvertising
<1>4. First(readable) \in readable /\ \A j \in readable : First(readable) <= j
  BY <1>1, <1>3, FirstIsLeast
<1>5. First(readable) = First(Advertising)
  <2>1. First(readable) \in Nat /\ First(Advertising) \in Nat
    BY <1>1, <1>2, <1>3, <1>4
  <2>2. First(readable) <= First(Advertising) /\ First(Advertising) <= First(readable)
    BY <1>2, <1>3, <1>4
  <2> QED BY <2>1, <2>2
<1> QED BY <1>3, <1>5 DEF Judged, FirstAdvertising

\* A provenance that is forged is reported, whatever else was skipped.
THEOREM ForgeryIsReported == Spec => []TamperingIsReported
<1>1. ASSUME Inv, phase = "done",
             \E i \in DOMAIN Judged : Judged[i].kind \in {"unsigned", "other_digest"},
             \A i \in DOMAIN Judged : Judged[i].kind # "signed",
             \A p \in Described : Facts(p).advertised => Facts(p).readable
      PROVE  Violates("package_invalid_artifact")
  <2>1. /\ out["provenance_verify"] = ProvenanceVerify
        /\ out["package_invalid_artifact"] = PackageInvalidArtifact
    <3>1. {"provenance_verify", "package_invalid_artifact"} \subseteq Node \ AutoSkip
      BY DEF AutoSkip, Node, FixedDeps
    <3> QED BY <1>1, <3>1, UnskippableIsRun, ProducersAre, ChecksAre DEF Inv
  <2>2. Advertising # {}
    BY <1>1 DEF Judged, Advertising
  <2>3. /\ First(Advertising) \in Advertising /\ FirstAdvertising \in PackageFacts
        /\ Advertising \subseteq Package /\ Verified \in Provenance
    BY <1>1, <2>2, InvParts, AdvertisingTypes, WorldTypes DEF Advertising, Described
  <2>4. FirstAdvertising.readable /\ Judged = FirstAdvertising.bundles
    BY <1>1, <2>2, <2>3, FactsKeep, JudgedIsFirst DEF Advertising, FirstAdvertising
  <2>5. Verified = Verify(Judged)
    BY <2>4 DEF Verified
  <2>6. ~ Verified.verified /\ Verified.reason \in {"invalid-signature", "digest-mismatch"}
    BY <1>1, <2>3, <2>4, <2>5, ForgedIsJudged DEF PackageFacts
  <2>7. ProvenanceVerify.provenance = Verified
    BY <2>2, <2>3, <2>6, ProvenanceVerifyIs, BasicOutputs DEF Output
  <2> QED BY <2>1, <2>6, <2>7, UnlessMeans DEF Violates, PackageInvalidArtifact, Attested
<1> QED BY <1>1, Invariance, PTL DEF TamperingIsReported

-----------------------------------------------------------------------------
(* The source that cannot be looked at. *)

\* When the transformer is skipped, it has not found a source.
LEMMA SkippedTransformer ==
  ASSUME Inv, Done("transformer"), out["transformer"].status = "skipped"
  PROVE  out["transformer"].url = NoURL
<1>1. /\ [Skipped EXCEPT !.check = "none"].url = NoURL /\ Skipped.url = NoURL
      /\ Failed.url = NoURL
  BY DEF Skipped, Failed, Blank
<1>2. out["transformer"] = Result("transformer")
  BY ProducersAre DEF Inv, OutputsAreCurrent, Producers
<1>3. CASE out["transformer"] = Transformer
  <2>1. TransformerBase.status # "success"
    <3>1. \A u : [TransformerBase EXCEPT !.url = u].status = TransformerBase.status
      BY InvParts, TransformerTypes, StatusKept
    <3> QED BY <1>3, <3>1, TransformerIs, BasicOutputs
  <2>2. TransformerBase \in {Skipped, Failed}
    <3>1. \A ps : [Success EXCEPT !.packages = ps].status = "success"
      BY BasicOutputs, StatusKept
    <3> QED BY <2>1, <3>1 DEF TransformerBase, Transformed
  <2> QED BY <1>1, <1>3, <2>1, <2>2, TransformerIs
<1> QED BY <1>1, <1>2, <1>3, ProducersAre DEF Result, Checks, Producers

\* The resolver is skipped only without a URL, or for what a remote answered.
LEMMA WhyUnresolved ==
  ASSUME Inv, Done("git_resolve"), ~ Ok("git_resolve"), HasURL, ~ IsLocal
  PROVE  \/ world.repo.reply \in {"unknown_host", "absent", "silent", "broken"}
         \/ world.repo.reply = "denied" /\ ~ world.input.token
<1>1. "git_resolve" \in Node /\ "transformer" \in Node
  BY ProducersAre DEF Producers
<1>2. out["git_resolve"].status = "skipped"
  BY <1>1, DoneStatus DEF Ok
<1>3. ~ AutoSkipped("git_resolve")
  <2>1. SUFFICES ASSUME NEW d \in Deps("git_resolve"), out[d].status = "skipped"
                 PROVE  FALSE
    BY DEF AutoSkipped
  <2>2. d = "transformer" /\ world.input.url = NoURL
    BY DEF Deps, GitResolveDeps
  <2>3. input.key = "package"
    BY <2>2, InvParts, WorldTypes DEF Askable, InputInv, Input
  <2>4. out["transformer"].url = NoURL
    BY <1>1, <2>1, <2>2, DoneStatus, SkippedTransformer
  <2> QED BY <2>3, <2>4, InvParts DEF InputInv, HasURL
<1>4. GitResolve.status = "skipped"
  BY <1>1, <1>2, <1>3, ProducersAre DEF Inv, OutputsAreCurrent, Result
<1>5. world.repo \in RepoFacts /\ world.repo.kind = "remote"
  BY InvParts, WorldTypes DEF Askable, IsLocal
<1>6. ResolveStatus(world.repo) \in Statuses
  BY <1>5, WorldTypes DEF RepoFacts, ResolveStatus, ResolveRemote, Reply,
     HandleResolveError, ClassifyCloneError, Statuses
<1>7. ResolveStatus(world.repo) = "skipped"
  <2>1. GitResolve = [Blank(ResolveStatus(world.repo)) EXCEPT
          !.url = IF ~ IsLocal /\ ResolveStatus(world.repo) = "success" THEN input.url
                  ELSE NoURL]
    BY <1>5 DEF GitResolve
  <2> QED BY <1>4, <1>6, <2>1, BlankType, StatusKept
<1> QED BY <1>5, <1>7 DEF ResolveStatus, ResolveRemote, HandleResolveError,
        ClassifyCloneError, RepoFacts, Reply

\* Without a tree there is no resolved source, and everything that needs the tree
\* or the history is skipped, node after node.
LEMMA WithoutTree ==
  ASSUME Inv, \A n \in Node : Done(n), ~ Ok("git_clone_content")
  PROVE  /\ ~ HasURL \/ ~ Ok("git_resolve")
         /\ \A n \in OfSourceTree : out[n].check = "skipped"
<1>1. out["git_clone_content"].status = "skipped" /\ "git_clone_content" \in Node
  BY DoneStatus, ProducersAre DEF Ok, Producers
<1>2. out["git_resolve"].status = "skipped"
  <2>1. "git_resolve" \in Node /\ Deps("git_clone_content") = {"git_resolve"}
    BY DEF Node, FixedDeps, Deps
  <2>2. CASE AutoSkipped("git_clone_content")
    BY <2>1, <2>2 DEF AutoSkipped
  <2>3. CASE ~ AutoSkipped("git_clone_content")
    <3>1. GitCloneContent.status = "skipped"
      BY <1>1, <2>3, ProducersAre DEF Inv, OutputsAreCurrent, Result
    <3>2. ~ HasURL
      <4>1. \A t : [Success EXCEPT !.tree = t].status = "success"
        BY BasicOutputs, StatusKept
      <4> QED BY <3>1, <4>1, BasicOutputs DEF GitCloneContent, Materialize
    <3>3. ~ Ok("git_resolve")
      <4>1. Ok("git_resolve") => out["git_resolve"] = GitResolve
        BY <2>1, CurrentOutput, ProducersAre
      <4> QED BY <3>2, <4>1, BasicOutputs DEF GitResolve, Ok
    <3> QED BY <2>1, <3>3, DoneStatus DEF Ok
  <2> QED BY <2>2, <2>3
<1>3. /\ out["git_clone_metadata"].status = "skipped"
      /\ out["git_clone_published_content"].status = "skipped"
  BY <1>2, SkipIsShown DEF AutoSkip, Node, Deps, FixedDeps
<1>4. /\ out["package_detector"].status = "skipped" /\ out["license_files"].status = "skipped"
      /\ out["unsupported_manifests"].status = "skipped"
  BY <1>1, SkipIsShown DEF AutoSkip, Node, Deps, FixedDeps
<1>5. out["package_detector_published"].status = "skipped"
  <2>1. out["package_detector_published"] = PackageDetectorPublished
    BY UnskippableIsRun, ProducersAre DEF AutoSkip, Producers
  <2>2. PackageDetectorPublished =
          [Blank("skipped") EXCEPT !.manifests = out["package_detector"].manifests,
                                   !.pin = "head"]
    BY <1>3, <1>4 DEF PackageDetectorPublished
  <2> QED BY <2>1, <2>2, BlankType, StatusKept DEF Statuses
<1>6. \A n \in OfSourceTree : out[n].check = "skipped"
  <2> SUFFICES ASSUME NEW n \in OfSourceTree
               PROVE  out[n].check = "skipped"
    OBVIOUS
  <2>1. n \in AutoSkip /\ n \in Checks
    BY DEF OfSourceTree, AutoSkip, Checks, Node, FixedDeps, Producers
  <2>2. Deps(n) \intersect {"git_clone_content", "git_clone_metadata", "package_detector",
                            "package_detector_published", "license_files",
                            "unsupported_manifests"} # {}
    BY DEF OfSourceTree, Deps, FixedDeps
  <2>3. PICK d \in Deps(n) : out[d].status = "skipped"
    BY <1>1, <1>3, <1>4, <1>5, <2>2
  <2> QED BY <2>1, <2>3, SkipIsShown DEF AutoSkip
<1> QED BY <1>2, <1>6 DEF Ok

\* A source that cannot be looked at is a finding, and of nothing else.
THEOREM UnavailabilityIsReported == Spec => []UnavailableSourceIsReported
<1>1. ASSUME Inv, phase = "done"
      PROVE  /\ ~ Ok("git_clone_content") =>
                   /\ Violates("source_repo_not_found")
                   /\ \A n \in OfSourceTree : out[n].check = "skipped"
             /\ HasURL /\ ~ IsLocal /\ Violates("source_repo_not_found") =>
                   \/ world.repo.reply \in {"unknown_host", "absent", "silent", "broken"}
                   \/ world.repo.reply = "denied" /\ ~ world.input.token
  <2>1. /\ \A n \in Node : Done(n)
        /\ "git_resolve" \in Node
        /\ out["source_repo_not_found"] = SourceRepoNotFound
    <3>1. "source_repo_not_found" \in Node \ AutoSkip
      BY DEF AutoSkip, Node, FixedDeps
    <3> QED BY <1>1, <3>1, UnskippableIsRun, ProducersAre, ChecksAre DEF Inv, Producers
  <2>2. Violates("source_repo_not_found") <=> ~ HasURL \/ ~ Ok("git_resolve")
    BY <2>1, VerdictFields DEF Violates, SourceRepoNotFound, Unless
  <2> QED BY <1>1, <2>1, <2>2, WithoutTree, WhyUnresolved
<1> QED BY <1>1, Invariance, PTL DEF UnavailableSourceIsReported

-----------------------------------------------------------------------------
(* Names and sources. *)

\* A provenance that is stored as verified is a signed attestation of the
\* repository that was resolved.
LEMMA VerifiedIsSigned ==
  ASSUME Inv, Done("provenance_verify"), out["provenance_verify"].provenance.verified
  PROVE  \E i \in DOMAIN Judged :
           Judged[i].kind = "signed" /\ Judged[i].repo = out["git_resolve"].url
<1>1. out["provenance_verify"] = ProvenanceVerify
  BY UnskippableIsRun, ProducersAre DEF AutoSkip, Producers
<1>2. Advertising # {}
  BY <1>1, ProvenanceVerifyIs DEF Success, Blank, NoProvenance
<1>3. /\ FirstAdvertising \in PackageFacts /\ Verified \in Provenance
  BY <1>2, InvParts, AdvertisingTypes
<1>4. Verified.verified /\ SameRepo(Verified.repo, out["git_resolve"].url)
  <2> DEFINE judged == IF Verified.verified /\ ~ SameRepo(Verified.repo, out["git_resolve"].url)
                       THEN [Verified EXCEPT !.verified = FALSE, !.reason = "repo-mismatch"]
                       ELSE Verified
  <2>1. [Success EXCEPT !.provenance = judged].provenance = judged
    BY BasicOutputs DEF Output
  <2>2. judged.verified
    BY <1>1, <1>2, <2>1, ProvenanceVerifyIs
  <2>3. [Verified EXCEPT !.verified = FALSE, !.reason = "repo-mismatch"].verified = FALSE
    BY <1>3 DEF Provenance
  <2> QED BY <2>2, <2>3
<1> DEFINE bundles == FirstAdvertising.bundles
<1>5. FirstAdvertising.readable /\ Verified = Verify(bundles) /\ bundles \in Seq(Bundle)
  BY <1>3, <1>4 DEF Verified, NoProvenance, PackageFacts
<1>6. Judged = bundles
  BY <1>2, <1>5, JudgedIsFirst
<1>7. Trusted(bundles) # {}
  BY <1>4, <1>5 DEF Verify, Trusted, NoProvenance
<1>8. Verify(bundles).verified <=> bundles[First(Trusted(bundles))].kind = "signed"
  BY <1>7 DEF Verify, Trusted
<1>9. Verify(bundles).repo = bundles[First(Trusted(bundles))].repo
  BY <1>7 DEF Verify, Trusted
<1>10. First(Trusted(bundles)) \in DOMAIN bundles
  BY <1>5, <1>7, TrustedIsFirst DEF Trusted
<1> QED BY <1>4, <1>5, <1>6, <1>8, <1>9, <1>10 DEF SameRepo

\* A name is vouched for by a manifest or by a genuine attestation.
THEOREM NamesHaveVouchers == Spec => []NamesAreVouchedFor
<1>1. ASSUME Inv, out["package_name_mismatch"].check = "compliant"
      PROVE  \/ \E m \in Static : m.name \in input.packages
             \/ \E i \in DOMAIN Judged :
                  Judged[i].kind = "signed" /\ Judged[i].repo = out["git_resolve"].url
  <2>1. Done("package_name_mismatch") /\ PackageNameMismatch.check = "compliant"
    BY <1>1, VerdictIsRun, ChecksAre
  <2>2. \/ Published.pin = "provenance"
        \/ {p \in input.packages : \E m \in Static : m.name = p} # {}
    BY <2>1, VerdictFields DEF PackageNameMismatch, OfHistory
  <2>3. /\ Done("package_detector_published") /\ Done("git_clone_published_content")
        /\ Done("provenance_verify") /\ Done("package_detector")
    <3>1. /\ "package_name_mismatch" \in Node
          /\ "package_detector_published" \in Deps("package_name_mismatch")
          /\ "package_detector" \in Deps("package_detector_published")
          /\ "git_clone_published_content" \in Deps("package_detector_published")
          /\ "provenance_verify" \in Deps("git_clone_published_content")
      BY DEF Node, FixedDeps, Deps
    <3> QED BY <1>1, <2>1, <3>1, DoneStatus
  <2>4. ASSUME Published.pin = "provenance"
        PROVE  out["provenance_verify"].provenance.verified
    <3>1. PackageDetectorPublished.pin = "provenance"
      BY <1>1, <2>3, <2>4, UnskippableIsRun, ProducersAre DEF AutoSkip, Producers, Published
    <3>2. /\ Detected("published") \in Output
          /\ Blank(out["package_detector"].status) \in Output
      <4>1. "package_detector" \in Node
        BY ProducersAre DEF Producers
      <4>2. out["package_detector"].status \in Statuses
        BY <1>1, <2>3, <4>1, DoneStatus DEF Statuses
      <4> QED BY <1>1, <4>2, InvParts, WorldTypes, BlankType, BasicOutputs, OutputUpdates
              DEF Detected, RepoFacts
    <3>3. /\ out["git_clone_published_content"].pin = "provenance"
          /\ Ok("git_clone_published_content")
      BY <3>1, <3>2 DEF PackageDetectorPublished, Output, Ok
    <3>4. GitClonePublishedContent.pin = "provenance"
      BY <1>1, <3>3, CurrentOutput, ProducersAre DEF Producers
    <3>5. PublishedPin = "provenance"
      <4>1. Materialize("published") \in Output
        BY BasicOutputs, OutputUpdates DEF Materialize
      <4>2. \A pin : [Materialize("published") EXCEPT !.pin = pin].pin = pin
        BY <4>1 DEF Output
      <4> QED BY <3>4, <4>2 DEF GitClonePublishedContent, Skipped, Blank
    <3> QED BY <3>5 DEF PublishedPin
  <2> QED BY <1>1, <2>2, <2>3, <2>4, VerifiedIsSigned
<1> QED BY <1>1, Invariance, PTL DEF NamesAreVouchedFor

\* A mismatch of the source is one of a registry with the source analysed.
THEOREM MismatchIsReal == Spec => []SourceMismatchIsReal
<1>1. ASSUME Inv, Violates("package_source_url_mismatch"), Attested.repo = NoURL
      PROVE  /\ AnalysedRepo # NoURL
             /\ \E p \in Described : Facts(p).url \notin {NoURL, AnalysedRepo}
  <2>1. PackageSourceURLMismatch.check = "violation"
    BY <1>1, VerdictIsRun, ChecksAre DEF Violates
  <2>2. ComparisonURL = AnalysedRepo
    BY <1>1, InvParts DEF ComparisonURL, AnalysedRepo, InputInv
  <2>3. /\ ComparisonURL # NoURL
        /\ \E p \in {q \in Described : Facts(q).url # NoURL} : Facts(p).url # ComparisonURL
    BY <1>1, <2>1, VerdictFields DEF PackageSourceURLMismatch
  <2> QED BY <2>2, <2>3
<1> QED BY <1>1, Invariance, PTL DEF SourceMismatchIsReal

-----------------------------------------------------------------------------
(* Passes. *)

\* A transformer that succeeded has metadata of some package of the input.
LEMMA MetadataIsOfPackages ==
  ASSUME Inv, Ok("transformer")
  PROVE  Described # {}
<1>1. out["transformer"] = Transformer
  BY CurrentOutput, ProducersAre DEF Producers
<1> DEFINE answered == {p \in input.packages : Responded(p) = "found"}
<1>2. TransformerBase \in Output
  BY InvParts, TransformerTypes
<1>3. TransformerBase.status = "success" /\ Transformer.packages = TransformerBase.packages
  BY <1>1, <1>2, TransformerIs, BasicOutputs DEF Ok, Output
<1>4. TransformerBase.packages = answered /\ answered # {}
  <2>1. [Success EXCEPT !.packages = answered].packages = answered
    BY BasicOutputs DEF Output
  <2> QED BY <1>3, <2>1, BasicOutputs DEF TransformerBase, Transformed
<1> QED BY <1>1, <1>3, <1>4 DEF Described

\* A graded check passes only with a release it could date, if it saw packages.
LEMMA GradedPass ==
  ASSUME NEW bad, GradedBy(bad).check = "compliant", Described # {}
  PROVE  Measured # {}
  BY VerdictFields DEF GradedBy, Graded

\* A release check that passes has seen a date, and a scan of artifacts that
\* passes has read no archive that declares a script; what is corrupt is reported.
THEOREM NothingReadIsOverlooked == Spec => []PassesOverlookNothing
<1>1. ASSUME Inv, NEW n \in {"package_stale_release", "package_unreleased_changes"},
             out[n].check = "compliant"
      PROVE  \E p \in Described : LastRelease(p) # Never
  <2>1. n \in Checks /\ n \in AutoSkip /\ "transformer" \in Deps(n) /\ n \in Node
    BY DEF AutoSkip, Node, Deps, FixedDeps, Checks, Producers
  <2>2. Done(n) /\ ~ AutoSkipped(n) /\ out[n] = Execute(n)
    BY <1>1, <2>1, VerdictIsRun
  <2>3. Ok("transformer")
    BY <1>1, <2>1, <2>2, DoneStatus DEF AutoSkipped, Ok
  <2>4. \E bad : GradedBy(bad).check = "compliant"
    <3>1. CASE n = "package_stale_release"
      BY <1>1, <2>2, <3>1, ChecksAre DEF PackageStaleRelease
    <3>2. CASE n = "package_unreleased_changes"
      BY <1>1, <2>2, <3>2, ChecksAre, VerdictFields
         DEF PackageUnreleasedChanges, IfDated, OfHistory
    <3> QED BY <3>1, <3>2
  <2>5. Measured # {}
    BY <1>1, <2>3, <2>4, MetadataIsOfPackages, GradedPass
  <2> QED BY <2>5 DEF Measured
<1>2. ASSUME Inv, phase = "done", input.key = "package",
             out["package_install_scripts"].check = "compliant",
             NEW p \in out["artifact_fetch"].packages, world.pkg[p].scripts = "some"
      PROVE  world.pkg[p].artifact = "corrupt" /\ Violates("package_invalid_artifact")
  <2>1. PackageInstallScripts.check = "compliant"
    BY <1>2, VerdictIsRun, ChecksAre
  <2>2. Ok("artifact_fetch") /\ InstallScriptsOfArtifacts.check = "compliant"
    BY <1>2, <2>1, VerdictFields DEF PackageInstallScripts
  <2>3. world.pkg[p].artifact = "corrupt"
    BY <1>2, <2>2, VerdictFields DEF InstallScriptsOfArtifacts, Unless, Scanned
  <2>4. out["package_invalid_artifact"] = PackageInvalidArtifact
    <3>1. "package_invalid_artifact" \in Node \ AutoSkip
      BY DEF AutoSkip, Node, FixedDeps
    <3> QED BY <1>2, <3>1, UnskippableIsRun, ChecksAre DEF Inv
  <2>5. Violates("package_invalid_artifact")
    BY <1>2, <2>2, <2>3, <2>4, VerdictFields DEF PackageInvalidArtifact, Ok, Violates, Unless
  <2> QED BY <2>3, <2>5
<1>3. Inv => PassesOverlookNothing
  BY <1>1, <1>2 DEF PassesOverlookNothing
<1> QED BY <1>3, Invariance, PTL
=============================================================================

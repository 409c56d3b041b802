--------------------------- MODULE MCRiskGuardDag ---------------------------
(* Worlds for RiskGuardDag.  Each family varies the facts of one subject over *)
(* a world where nothing is wrong.                                            *)
EXTENDS RiskGuardDag

\* Two npm packages, one of PyPI and a gem.
Ecosystems == [p \in {1, 2, 3, 4} |->
                 IF p = 3 THEN "pypi" ELSE IF p = 4 THEN "rubygems" ELSE "npm"]

M(name) == [name |-> name, dynamic |-> FALSE, scripts |-> FALSE, lockfile |-> TRUE,
            broken |-> FALSE]

Dynamic == [M(NoName) EXCEPT !.dynamic = TRUE]

Trees(head, published) ==
  [tree \in {"head", "published"} |-> IF tree = "head" THEN head ELSE published]

By(author, age) == [author |-> author, age |-> age, bot |-> FALSE]

Bot(age) == [author |-> "bot", age |-> age, bot |-> TRUE]

Active == <<By("a", 10), By("b", 20), By("c", 400)>>

GoodRepo ==
  [kind |-> "remote", reply |-> "head", otherVCS |-> FALSE, origin |-> NoURL, unclonable |-> {}, unreadable |-> FALSE,
   log |-> Active, manifests |-> Trees({M(1)}, {M(1)}), ci |-> TRUE, license |-> TRUE,
   security |-> TRUE, orgSecurity |-> FALSE, unsupported |-> FALSE, policy |-> "absent"]

Ages(old, new) == [v \in Versions |-> IF v = 1 THEN old ELSE new]

GoodListing ==
  [index |-> "ok", exact |-> "ok", extra |-> "ok", latest |-> 2, age |-> Ages(400, 30),
   prerelease |-> {}, release |-> 30]

GoodPackage ==
  [listing |-> GoodListing, asked |-> AnyVersion, private |-> FALSE,
   url |-> "r1", rejected |-> FALSE, license |-> TRUE, malformed |-> FALSE,
   advertised |-> FALSE, readable |-> TRUE, bundles |-> <<>>, gitHead |-> FALSE,
   tag |-> FALSE, artifact |-> "intact", scripts |-> "none"]

Everywhere(facts) == [p \in Package |-> facts]

PackageWorld(repo, facts) ==
  [input |-> [key |-> "package", url |-> NoURL, packages |-> {1}, trusted |-> FALSE,
            token |-> FALSE],
   rootPolicy |-> FALSE, repo |-> repo, pkg |-> Everywhere(facts)]

SourceWorld(url, repo, pkg) ==
  [input |-> [key |-> "source", url |-> url, packages |-> {}, trusted |-> TRUE,
            token |-> FALSE],
   rootPolicy |-> FALSE, repo |-> repo, pkg |-> pkg]

-----------------------------------------------------------------------------
B(kind, repo) == [kind |-> kind, repo |-> repo, commit |-> TRUE]

Attestations ==
  {<<>>, <<B("unsigned", NoURL)>>, <<B("other_digest", "r1")>>, <<B("malformed", NoURL)>>,
   <<B("signed", "r1")>>, <<B("signed", "r2")>>, <<[B("signed", "r1") EXCEPT !.commit = FALSE]>>,
   <<B("unsigned", NoURL), B("signed", "r1")>>, <<B("malformed", NoURL), B("unsigned", NoURL)>>}

\* Attestations, artifacts and what the source that is found or not looks like.
ProvenanceWorlds ==
  {PackageWorld([GoodRepo EXCEPT !.reply = reply, !.manifests = Trees({M(2)}, published)],
                [GoodPackage EXCEPT !.advertised = TRUE, !.readable = readable,
                   !.bundles = bundles, !.artifact = artifact, !.gitHead = gitHead,
                   !.scripts = "some"]) :
     reply \in {"head", "absent"}, published \in {{M(1)}, {M(2)}, {Dynamic}, {}},
     readable \in BOOLEAN, bundles \in Attestations, gitHead \in BOOLEAN,
     artifact \in {"nourl", "intact", "corrupt"}}

Listings ==
  {[GoodListing EXCEPT !.index = index, !.exact = exact, !.extra = extra] :
     index \in Answer, exact \in Answer, extra \in Answer \union {"quarantined"}}
  \union
  {[GoodListing EXCEPT !.latest = latest, !.age = Ages(old, new),
                       !.prerelease = prerelease, !.release = release] :
     latest \in {AnyVersion, 2}, old \in {400, Never, Unlisted}, prerelease \in {{}, {1, 2}},
     new \in {30, Never, Unlisted, Unreadable}, release \in {Never, 30, Unreadable}}

\* What the registries answer for a package that is asked for, by a version or
\* not, or that is declared by a source.
RegistryWorlds ==
  {[PackageWorld(GoodRepo, [GoodPackage EXCEPT !.listing = listing, !.asked = asked])
      EXCEPT !.input.packages = {p}] :
     listing \in Listings, asked \in {AnyVersion, 1}, p \in {1, 3, 4}}
  \union
  {PackageWorld(GoodRepo,
                [GoodPackage EXCEPT !.listing.age = Ages(Unlisted, 30), !.asked = asked,
                   !.url = url, !.tag = TRUE, !.license = license, !.malformed = ~ license,
                   !.rejected = url = NoURL]) :
     asked \in {AnyVersion, 1}, url \in {"r1", NoURL}, license \in BOOLEAN}
  \union
  {SourceWorld("r1", [GoodRepo EXCEPT !.manifests = Trees({M(p), M(NoName)}, {M(p)})],
               Everywhere([GoodPackage EXCEPT !.listing.index = index,
                             !.listing.extra = extra, !.private = private])) :
     index \in Answer, extra \in {"ok", "quarantined"}, private \in BOOLEAN, p \in {1, 3}}

\* What git servers answer, with a token and without.
RemoteWorlds ==
  {[PackageWorld([GoodRepo EXCEPT !.reply = reply, !.otherVCS = otherVCS], GoodPackage)
      EXCEPT !.input.token = token] :
     reply \in Reply, otherVCS \in BOOLEAN, token \in BOOLEAN}

\* Dates of releases and of commits, on both sides of every threshold.
DateWorlds ==
  {PackageWorld([GoodRepo EXCEPT !.log = <<By("a", commit)>>],
                [GoodPackage EXCEPT !.asked = asked, !.listing.age = Ages(old, new)]) :
     commit \in {0, 400}, asked \in {AnyVersion, 1}, old \in {Never, Unlisted, 6, 7, 1095},
     new \in {Never, Unlisted, 6, 366, 1094, 1095}}

Logs ==
  {Active, <<By("a", 364)>>, <<By("a", 365), By("b", 365), By("c", 394)>>,
   <<By("a", 366), By("b", 396)>>, <<By("a", 1825)>>, <<By("a", 1826)>>,
   <<Bot(5), By("a", 2000)>>, <<Bot(5), Bot(300)>>, <<>>}

BadManifest == [M(1) EXCEPT !.broken = TRUE, !.scripts = TRUE, !.lockfile = FALSE]

Bare == [GoodRepo EXCEPT !.ci = FALSE, !.license = FALSE, !.security = FALSE,
           !.unsupported = TRUE, !.policy = "invalid",
           !.manifests = Trees({BadManifest}, {BadManifest})]

Undeclared == [GoodRepo EXCEPT !.manifests = Trees({}, {})]

\* Sources on disk and remote, with every history, and trees that lack things.
SourceWorlds ==
  {SourceWorld(LocalPath, [repo EXCEPT !.kind = kind, !.origin = origin, !.log = log],
               Everywhere([GoodPackage EXCEPT !.advertised = TRUE, !.bundles = bundles])) :
     bundles \in {<<>>, <<B("unsigned", NoURL)>>, <<B("signed", "r1")>>},
     repo \in {GoodRepo, Bare, Undeclared}, kind \in {"plain", "git", "unusable"},
     origin \in {NoURL, "r1", "r2"}, log \in Logs}
  \union
  {SourceWorld("r1", [repo EXCEPT !.log = log], Everywhere(GoodPackage)) :
     repo \in {GoodRepo, Bare, Undeclared}, log \in Logs}

Two(a, b) == [p \in Package |-> IF p = 1 THEN a ELSE b]

\* A source that declares several packages, of which some attest or mismatch.
MonorepoWorlds ==
  {SourceWorld(url, [GoodRepo EXCEPT !.kind = IF url = LocalPath THEN "git" ELSE "remote",
                       !.origin = "r1", !.manifests = Trees(head, {M(2)})],
               Two([GoodPackage EXCEPT !.url = declared, !.advertised = advertised,
                      !.bundles = <<B("unsigned", NoURL)>>],
                   [GoodPackage EXCEPT !.advertised = TRUE, !.bundles = bundles])) :
     url \in {LocalPath, "r1"}, declared \in {"r1", "r2", NoURL}, advertised \in BOOLEAN,
     head \in {{M(1), M(2)}, {M(2), M(3)}, {M(1), Dynamic}},
     bundles \in {<<>>, <<B("signed", "r1")>>}}

\* Two artifacts: what their archives declare, and whether that can be read.
ArtifactWorlds ==
  {[PackageWorld(GoodRepo, GoodPackage) EXCEPT !.input.packages = {1, 2},
      !.pkg = Two([GoodPackage EXCEPT !.artifact = artifact, !.scripts = scripts],
                  [GoodPackage EXCEPT !.scripts = others])] :
     artifact \in {"intact", "unhashed", "corrupt"},
     scripts \in {"some", "none", "absent", "garbled"}, others \in {"some", "none", "garbled"}}

\* One operation of the analysis fails.
FailureWorlds ==
  {PackageWorld([GoodRepo EXCEPT !.unclonable = unclonable, !.unreadable = unreadable],
                [GoodPackage EXCEPT !.tag = TRUE, !.artifact = artifact]) :
     unclonable \in {{}, {"head"}, {"published"}, {"metadata"}}, unreadable \in BOOLEAN,
     artifact \in {"intact", "unreachable"}}
  \union
  {[PackageWorld(GoodRepo, GoodPackage) EXCEPT !.input.packages = {1, 2},
      !.pkg = Two(GoodPackage, [GoodPackage EXCEPT !.url = url])] : url \in {"r1", "r2", NoURL}}
  \union
  {[SourceWorld("r1", [GoodRepo EXCEPT !.policy = policy, !.security = FALSE,
                         !.orgSecurity = TRUE], Everywhere(GoodPackage))
      EXCEPT !.rootPolicy = root] : policy \in {"valid", "unreadable"}, root \in BOOLEAN}

AllWorlds ==
  ProvenanceWorlds \union RegistryWorlds \union RemoteWorlds \union DateWorlds
    \union SourceWorlds \union MonorepoWorlds \union ArtifactWorlds \union FailureWorlds

EmptyWorlds ==
  {SourceWorld(LocalPath, [GoodRepo EXCEPT !.kind = "git", !.log = log],
               Everywhere(GoodPackage)) : log \in Logs}

\* Rebasing keeps the date a commit was written: an old one may be on top.
RebasedWorlds ==
  {SourceWorld("r1", [GoodRepo EXCEPT !.log = <<By("a", i), By("b", j)>>],
               Everywhere(GoodPackage)) : i \in {10, 400, 2000}, j \in {5, 20, 500}}

\* A source on disk whose origin is the repository its package attests.
LocalWorlds ==
  {SourceWorld(LocalPath, [GoodRepo EXCEPT !.kind = "git", !.origin = origin],
               Everywhere([GoodPackage EXCEPT !.advertised = TRUE,
                             !.bundles = <<B("signed", repo)>>])) :
     origin \in {"r1", "r2"}, repo \in {"r1", "r2"}}
=============================================================================

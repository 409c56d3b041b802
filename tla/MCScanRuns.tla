------------------------------ MODULE MCScanRuns ------------------------------
(* Instances of ScanRuns for TLC: a tree with an npm package, its lockfile     *)
(* a workspace and a vendored Python package.  Its next state has moved to     *)
(* bun, to a newer version of a dependency and to Python packages without      *)
(* their versions.                                                             *)
EXTENDS ScanRuns

Tree == [name |-> "source/tree", query |-> {}]
A1 == [name |-> "package/npm/a", query |-> {<<"version", "1">>}]
A2 == [name |-> "package/npm/a", query |-> {<<"version", "2">>}]
B == [name |-> "package/npm/b", query |-> {<<"version", "1+x">>}]
Decoded == [B EXCEPT !.query = {<<"version", "1 x">>}]
C == [name |-> "package/pypi/c", query |-> {<<"version", "1!3">>}]
C0 == [C EXCEPT !.query = {}]
W == [name |-> "package/npm/w", query |-> {<<"version", "9">>}]
None == [name |-> "", query |-> {}]
Packages == {A1, A2, B, C, C0}

\* The epoch of C is written with an escape.
Versions == "1!3" :> "1%213" @@ "1 x" :> "1+x" @@ [v \in {"1", "2", "9", "1+x"} |-> v]

Categories ==
  "SOURCE_REPO_NOT_FOUND" :> {"critical"} @@ "SOURCE_REPO_STALE" :> {"continuity-assurance", "security-vulnerability"}
    @@ "SOURCE_NO_CI" :> {"continuity-assurance"}

Globs == "package/npm/*" :> {"package/npm/a", "package/npm/b"} @@ "SOURCE_REPO_*" :> {"SOURCE_REPO_NOT_FOUND", "SOURCE_REPO_STALE"}
Lengths == "package/npm/*" :> 13 @@ "SOURCE_REPO_*" :> 13
Ecosystems == "source/tree" :> "source" @@ "package/npm/a" :> "npm" @@ "package/npm/b" :> "npm" @@ "package/pypi/c" :> "pypi"

\* The purl of B decodes its version differently, so B keeps its key.
Purls == Tree :> {} @@ W :> {"pkg:npm/w@9"} @@ C :> {"pkg:pypi/c@1%213"} @@ C0 :> {"pkg:pypi/c"} @@ A1 :> {"pkg:npm/a@1"} @@ A2 :> {"pkg:npm/a@2"} @@ B :> {"pkg:npm/b@1%20x"}
KeysOfPurls == "pkg:npm/w@9" :> W @@ "pkg:pypi/c@1%213" :> C @@ "pkg:pypi/c" :> C0 @@ "pkg:npm/a@1" :> A1 @@ "pkg:npm/a@2" :> A2 @@ "pkg:npm/b@1%20x" :> Decoded

At(f, l) == {[file |-> f, line |-> l]}
Unpinned(name, l) == [child |-> MakeKey(name, NoVersion), location |-> l]

\* In "before" a uses b and, over a link, w, a folder of the tree without a name.
Pkg(version, dependencies) ==
  [name |-> {}, version |-> version, link |-> FALSE, resolved |-> <<>>,
   dependencies |-> dependencies, dev |-> {}, optional |-> {}]
NpmPlaces ==
  <<>> :> [Pkg("", {"package/npm/a"}) EXCEPT !.dev = {"package/npm/b"}]
    @@ <<NodeModules, "package/npm/a">> :> Pkg("1", {"package/npm/b", "package/npm/w"})
    @@ <<NodeModules, "package/npm/b">> :> Pkg("1+x", {})
    @@ <<NodeModules, "package/npm/w">> :> [Pkg("", {}) EXCEPT !.link = TRUE, !.resolved = <<"w">>]
    @@ <<"w">> :> [Pkg("9", {"package/npm/a"}) EXCEPT !.name = {}]
Lock(ecosystem, rank) == [ecosystem |-> ecosystem, dir |-> <<>>, rank |-> rank, parses |-> TRUE]
NpmLock == [format |-> "npm", packages |-> NpmPlaces] @@ Lock("npm", 1)
V1Lock == [format |-> "npm1", tree |-> <<"package/npm/a">> :> "2" @@ <<"package/npm/a", "package/npm/b">> :> "1+x"]
            @@ [Lock("npm", 1) EXCEPT !.dir = <<"legacy">>]
YarnLock == [format |-> "other"] @@ Lock("npm", 2)
BunLock ==
  [format |-> "bun", workspaces |-> {{"package/npm/a", "package/npm/b"}},
   packages |-> <<"package/npm/a">> :> [name |-> "package/npm/a", version |-> "2", dependencies |-> {"package/npm/b"}]
     @@ <<"package/npm/b">> :> [name |-> "package/npm/b", version |-> "1+x", dependencies |-> {}]]
    @@ Lock("npm", 4)
UvLock ==
  [format |-> "uv", entries |-> <<[name |-> "vendored", version |-> "", root |-> TRUE, dependencies |-> {"package/pypi/c"}],
                                  [name |-> "package/pypi/c", version |-> "1!3", root |-> FALSE, dependencies |-> {}]>>]
    @@ [Lock("pypi", 4) EXCEPT !.dir = <<"vendor">>]

Main(lockfiles) ==
  [paths |-> {"package.json"}, parses |-> TRUE, dir |-> <<>>, lockfiles |-> lockfiles,
   declared |-> <<Unpinned("package/npm/a", At("package.json", 3)), Unpinned("package/npm/b", At("package.json", 4))>>]
Vendored ==
  [paths |-> {"vendor/pyproject.toml", "vendor/setup.py"}, parses |-> TRUE, dir |-> <<"vendor">>,
   lockfiles |-> {UvLock}, declared |-> <<Unpinned("package/pypi/c", At("vendor/pyproject.toml", 2))>>]
Legacy(lockfiles) ==
  [paths |-> {"legacy/package.json"}, parses |-> TRUE, dir |-> <<"legacy">>, lockfiles |-> lockfiles,
   declared |-> <<Unpinned("package/npm/a", At("legacy/package.json", 5))>>]
Member ==
  [paths |-> {"w/package.json"}, parses |-> TRUE, dir |-> <<"w">>, lockfiles |-> {NpmLock},
   declared |-> <<Unpinned("package/npm/a", At("w/package.json", 7))>>]
Requirements ==
  [paths |-> {"requirements.txt"}, parses |-> TRUE, dir |-> <<>>, lockfiles |-> {},
   declared |-> <<Unpinned("package/pypi/c", {})>>]
Garbled == [Legacy({NpmLock}) EXCEPT !.parses = FALSE, !.declared = <<>>]
Trees ==
  "before" :> <<Member, Main({NpmLock, YarnLock}), Garbled, Vendored>>
    @@ "after" :> <<Main({BunLock, V1Lock}), Legacy({BunLock, V1Lock}), Requirements>>
Excludes == "vendor/" :> {"vendor/pyproject.toml", "vendor/setup.py"}

OfSource == "before" :> {"SOURCE_REPO_STALE"} @@ "after" :> {"SOURCE_NO_CI"}
OfPackages == A1 :> {"SOURCE_REPO_NOT_FOUND"} @@ A2 :> {"SOURCE_REPO_STALE"} @@ B :> {"SOURCE_NO_CI"} @@ C :> {"SOURCE_NO_CI"} @@ C0 :> {"SOURCE_NO_CI"} @@ W :> {} @@ Decoded :> {}

BuiltIn == A2 :> "u1"

\* Entries that lapse, a rule that becomes blocking, a rule with the path of one
\* of the default policy, and a mode that is none.
Entry(name, checks, expires) == [name |-> name, query |-> {}] :> [checks |-> checks, expires |-> expires]
Policies ==
  {[MinimalPolicy EXCEPT !.failures = Entry("package/npm/*", {"SOURCE_REPO_*"}, {0}),
                         !.rules = {CategoryRule("critical", "warning", {}),
                                    [CheckRule("SOURCE_REPO_*", "warning") EXCEPT !.env = {FALSE}]}],
   [MinimalPolicy EXCEPT !.failures = Entry("root", {"SOURCE_REPO_NOT_FOUND"}, {}),
                         !.warnings = Entry("package/npm/a", {"SOURCE_REPO_STALE"}, {0}),
                         !.rules = {[CheckRule("SOURCE_REPO_STALE", "ignore") EXCEPT !.after = {0}]},
                         !.mode = {"no-fail"}],
   [MinimalPolicy EXCEPT !.mode = {"warn"}]}
ShownPolicies ==
  {[MinimalPolicy EXCEPT !.rules = {CategoryRule("critical", "warning", {})}]}
Fragile == {B}
NoPolicies == {}
=============================================================================

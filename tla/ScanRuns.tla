------------------------------- MODULE ScanRuns -------------------------------
(* The commands that scan a source tree, grade what they find and write the    *)
(* policy that the next scan is graded by (cmd/risk-guard): run, init, policy  *)
(* add-expected-failures and policy override, with what a person may do        *)
(* between them and meanwhile: edit .risk-guard.yml, change the tree, wait.    *)
(*                                                                             *)
(* One command runs at a time.  job holds what its process has in memory, file *)
(* is .risk-guard.yml, report the SARIF report on disk.                        *)
EXTENDS PolicyRules, SbomGraph

CONSTANTS
  Package,          \* keys of packages: records [name, query]
  Codes,            \* states of the source tree
  ManifestsAt,      \* [state -> its manifests]
  SourceFindings,   \* [state -> the checks the tree violates]
  PackageFindings,  \* [package -> the checks it violates]
  RepoNotFound,     \* the check that a corrected source URL satisfies
  MayFail,          \* packages whose audit may fail
  Escaped,          \* [version of a key -> it, unescaped and escaped as in a URL]
  KnownOverrides,   \* the built-in overrides
  Urls,             \* URLs a person may enter
  HandWritten,      \* policies a person may write
  MaxTime, MaxCommands, MaxEdits, MaxTuned

\* A policy as the loader compiles it: every date is a day, every severity one
\* of three.
IsDated(table) == \A k \in DOMAIN table : table[k].expires \subseteq Int
IsRule(r) ==
  /\ {"severity", "after", "overlay"} \subseteq DOMAIN r
  /\ r.severity \in Severities /\ r.after \subseteq Int
IsPolicy(p) ==
  /\ {"rules", "failures", "warnings", "overrides"} \subseteq DOMAIN p
  /\ \A r \in p.rules : IsRule(r)
  /\ IsDated(p.failures) /\ IsDated(p.warnings)

\* One that a person or a command writes is of one layer.
IsFile(p) == IsPolicy(p) /\ \A r \in p.rules : ~ r.overlay

ASSUME ScanAssumption == \A p \in HandWritten : IsFile(p)

VARIABLES file, ignored, code, now, report, job, outcome, commands, edits

vars == <<file, ignored, code, now, report, job, outcome, commands, edits>>
outside == <<code, now, commands, edits>>

AuditError == "AUDIT_ERROR"
RepoRoot == {[file |-> "."]}
Formats == {"spdx", "cyclonedx"}

NoFile == [status |-> "none"]
BrokenFile == [status |-> "broken"]
Written(policy) == [status |-> "valid", policy |-> policy]
PolicyIn(f) == IF f.status = "valid" THEN {f.policy} ELSE {}

\* loadRepoPolicy: nothing without a file, an error when it does not compile.
Unreadable(f) == f.status = "broken"

\* The policy that grades when the repository's is repo, a set of at most one.
Effective(repo) == CHOOSE p \in Resolve({}, repo, {}) : TRUE

-------------------------------------------------------------------------------
(* Overrides of a package's source URL.                                        *)

MatchingOverrides(table, key) == {k \in DOMAIN table : EntityMatches(k, key)}

\* An exact pattern before a wildcard, then the longer one.
MoreSpecific(a, b) ==
  \/ ~IsPattern(a.name) /\ IsPattern(b.name)
  \/ ~IsPattern(a.name) /\ ~IsPattern(b.name) /\ a.query # {} /\ b.query = {}
  \/ IsPattern(a.name) /\ IsPattern(b.name) /\ LengthOf[a.name] > LengthOf[b.name]

Winning(table, key) ==
  {table[k] : k \in {k \in MatchingOverrides(table, key) :
                       \A j \in MatchingOverrides(table, key) : ~ MoreSpecific(j, k)}}

\* The repository's overrides win over the built-in ones.
OverrideFor(repo, key) ==
  LET own == UNION {Winning(p.overrides, key) : p \in repo}
  IN  IF own # {} THEN own ELSE Winning(KnownOverrides, key)

\* A key holds its version verbatim; an identifier is built from the version
\* that was read out of the key.
Respelt(query) == {<<p[1], Escaped[p[2]]>> : p \in query}

\* An overridden analysis carries the hash of its overrides in its identifier.
AnalysisId(repo, key) ==
  [key EXCEPT !.query = Respelt(@) \cup {<<"overrides", url>> : url \in OverrideFor(repo, key)}]

-------------------------------------------------------------------------------
(* Scoring and grading.                                                        *)

Violations(entity, checks, depth) ==
  {[entity |-> entity, check |-> c, depth |-> depth, dev |-> FALSE] : c \in checks}

\* What the audit of a package finds, one edge below the source.
PackageViolations(repo, key) ==
  Violations(AnalysisId(repo, key),
             PackageFindings[key] \ {c \in {RepoNotFound} : OverrideFor(repo, key) # {}}, 1)

Graded(j) ==
  Violations(RootKey, j.source, 0)
    \cup UNION {PackageViolations(j.repo, key) : key \in j.scored}

\* The line of the manifest when the result's name is the key of a dependency,
\* else the root of the repository.
PhysicalLocation(entity, deps) ==
  LET at == LocationOf(deps, entity) IN IF at # {} THEN at ELSE RepoRoot

GradedResult(policy, v, t, deps) ==
  [name |-> v.entity, check |-> v.check, level |-> Level(Kind(policy, v, t)),
   location |-> PhysicalLocation(v.entity, deps)]

\* A package that failed to score is an error, whatever the policy says.
FailureResult(key) ==
  [name |-> key, check |-> AuditError, level |-> "error", location |-> RepoRoot]

Assembled(j, t) ==
  {GradedResult(Effective(j.repo), v, t, j.deps) : v \in Graded(j)}
    \cup {FailureResult(key) : key \in j.failed}

Errors(results) == {r \in results : r.level = "error"}
Warnings(results) == {r \in results : r.level = "warning"}

-------------------------------------------------------------------------------
(* The scan.                                                                   *)

Idle == [pc |-> "idle"]

NewJob(cmd, format, continue, terminal) ==
  [cmd |-> cmd, pc |-> "start", format |-> format, continue |-> continue, terminal |-> terminal,
   repo |-> {}, mode |-> "active", source |-> {}, deps |-> {}, scored |-> {}, failed |-> {},
   partial |-> FALSE, gradedAt |-> 0, results |-> {}, fresh |-> FALSE,
   urls |-> NoOverrides, rules |-> {}]

Init ==
  /\ file = NoFile
  /\ ignored = {}
  /\ code \in Codes
  /\ now = 0
  /\ report = [status |-> "none", results |-> {}]
  /\ job = Idle
  /\ outcome = "none"
  /\ commands = 0
  /\ edits = 0

Finish(result) == job' = Idle /\ outcome' = result

StartRun(format, continue) ==
  /\ job = Idle
  /\ commands < MaxCommands
  /\ job' = NewJob("run", format, continue, FALSE)
  /\ commands' = commands + 1
  /\ outcome' = "none"
  /\ UNCHANGED <<file, ignored, code, now, report, edits>>

\* init leaves an existing file alone unless --force is given.  Only at a
\* terminal does it ask anything.
StartInit(format, terminal, force) ==
  /\ job = Idle
  /\ commands < MaxCommands
  /\ force \/ file.status = "none"
  /\ job' = NewJob("init", format, TRUE, terminal)
  /\ commands' = commands + 1
  /\ outcome' = "none"
  /\ UNCHANGED <<file, ignored, code, now, report, edits>>

\* The corrected URLs of init come with the default policy, not with the file.
ReadRules ==
  /\ job.pc = "start"
  /\ IF Unreadable(file) THEN Finish("error")
     ELSE /\ job' = [job EXCEPT
               !.repo = IF job.urls = NoOverrides THEN PolicyIn(file)
                        ELSE {[DefaultPolicy EXCEPT !.overrides = job.urls]},
               !.fresh = file.status = "none",
               !.pc = IF job.cmd = "init" THEN "source" ELSE "mode"]
          /\ UNCHANGED outcome
  /\ UNCHANGED <<file, ignored, report, outside>>

\* resolveWorkflowMode reads the file a second time.
ResolveMode ==
  /\ job.pc = "mode"
  /\ IF Unreadable(file) \/ \E p \in PolicyIn(file) : ~ p.mode \subseteq Modes
     THEN Finish("error")
     ELSE /\ job' = [job EXCEPT !.pc = "source",
               !.mode = IF \E p \in PolicyIn(file) : p.mode # {}
                        THEN CHOOSE m \in UNION {p.mode : p \in PolicyIn(file)} : TRUE
                        ELSE "active"]
          /\ UNCHANGED outcome
  /\ UNCHANGED <<file, ignored, report, outside>>

ScoreSource ==
  /\ job.pc = "source"
  /\ job' = [job EXCEPT !.source = SourceFindings[code], !.pc = "sbom"]
  /\ UNCHANGED <<file, ignored, report, outcome, outside>>

ScoreSourceFails ==
  /\ job.pc = "source"
  /\ Finish("error")
  /\ UNCHANGED <<file, ignored, report, outside>>

BuildSbom ==
  /\ job.pc = "sbom"
  /\ job' = [job EXCEPT !.deps = DirectDeps(ManifestsAt[code], ignored, job.format), !.pc = "audit"]
  /\ UNCHANGED <<file, ignored, report, outcome, outside>>

\* init offers to exclude the directories of the manifests it found, and builds
\* the document again.
ExcludeDirectories(chosen) ==
  /\ job.pc = "sbom" /\ job.cmd = "init" /\ job.terminal
  /\ chosen # {} /\ chosen \cap ignored = {}
  /\ \A i \in chosen : \E k \in KeptManifests(ManifestsAt[code], ignored) :
       ManifestsAt[code][k].paths \cap Covers[i] # {}
  /\ ignored' = ignored \cup chosen
  /\ UNCHANGED <<file, report, job, outcome, outside>>

\* Without the document: only the source is reported, by run if it may continue.
BuildSbomFails ==
  /\ job.pc = "sbom"
  /\ IF job.cmd = "init" \/ job.continue
     THEN job' = [job EXCEPT !.partial = TRUE, !.deps = {}, !.scored = {}, !.failed = {},
                             !.pc = "report"] /\ UNCHANGED outcome
     ELSE Finish("error")
  /\ UNCHANGED <<file, ignored, report, outside>>

\* Mutant: a package that fails is passed over.
AuditWithoutFailures(failing) ==
  /\ job.pc = "audit"
  /\ failing \subseteq MayFail \cap Keys(job.deps)
  /\ job' = [job EXCEPT !.scored = Keys(job.deps) \ failing, !.failed = {}, !.pc = "report"]
  /\ UNCHANGED <<file, ignored, report, outcome, outside>>

Audit(failing) ==
  /\ job.pc = "audit"
  /\ failing \subseteq MayFail \cap Keys(job.deps)
  /\ job' = [job EXCEPT !.scored = Keys(job.deps) \ failing, !.failed = failing, !.pc = "report"]
  /\ UNCHANGED <<file, ignored, report, outcome, outside>>

\* The audit as a whole fails, before any package is scored.
AuditFails ==
  /\ job.pc = "audit"
  /\ job.deps # {}
  /\ IF job.cmd = "init" \/ job.continue
     THEN job' = [job EXCEPT !.partial = TRUE, !.scored = {}, !.failed = {}, !.pc = "report"]
          /\ UNCHANGED outcome
     ELSE Finish("error")
  /\ UNCHANGED <<file, ignored, report, outside>>

\* assembleReport and writeReport.  A report without dependencies for want of a
\* document ends the run with exit 0 and no verdict.
Report ==
  /\ job.pc = "report"
  /\ report' = [status |-> "valid", results |-> Assembled(job, now)]
  /\ IF job.cmd = "run" /\ job.partial /\ job.deps = {} THEN Finish("local only")
     ELSE /\ job' = [job EXCEPT !.results = Assembled(job, now), !.gradedAt = now,
                                !.pc = IF job.cmd = "run" THEN "verdict"
                                       ELSE IF job.urls = NoOverrides THEN "urls" ELSE "tune"]
          /\ UNCHANGED outcome
  /\ UNCHANGED <<file, ignored, outside>>

\* The file is truncated first, so a failing write leaves no report.
ReportFails ==
  /\ job.pc = "report"
  /\ report' = [status |-> "broken", results |-> {}]
  /\ Finish("error")
  /\ UNCHANGED <<file, ignored, outside>>

Verdict ==
  /\ job.pc = "verdict"
  /\ Finish(IF Errors(job.results) = {} THEN "passing"
            ELSE IF job.mode # "active" THEN "not failing" ELSE "blocked")
  /\ UNCHANGED <<file, ignored, report, outside>>

-------------------------------------------------------------------------------
(* init, after the report is written: source URLs, severities, baselines.      *)

\* The key a finding is acknowledged under.
EntityKey(result) == IF result.name.name \in SourceNames THEN Root ELSE result.name

NotFoundKeys(results) ==
  {EntityKey(r) : r \in {r \in results : r.check = RepoNotFound}} \ {Root}

\* The entered URLs are applied by scanning again.
CorrectURLs(chosen, url) ==
  /\ job.pc = "urls" /\ job.terminal
  /\ chosen \subseteq NotFoundKeys(job.results)
  /\ job' = IF chosen = {} THEN [job EXCEPT !.pc = "tune"]
            ELSE [job EXCEPT !.urls = [k \in chosen |-> url], !.partial = FALSE, !.pc = "start"]
  /\ UNCHANGED <<file, ignored, report, outcome, outside>>

TuneTargets(results) == {r.check : r \in {r \in results : r.level \in {"error", "warning"}}}

CurrentSeverity(results, check) ==
  IF \E r \in results : r.check = check /\ r.level = "error" THEN "blocking" ELSE "warning"

SeverityToLevel(severity) ==
  CASE severity = "blocking" -> "error" [] severity = "warning" -> "warning"
    [] severity = "ignore" -> "none"

\* Every result of a reviewed check takes the level of the choice made for it.
ApplyChoices(results, choices) ==
  {[r EXCEPT !.level = IF r.check \in DOMAIN choices THEN SeverityToLevel(choices[r.check]) ELSE @] :
     r \in results}

\* Each check that fired is offered with its rationale; AUDIT_ERROR has none.
TuneSeverities(changed, severity) ==
  /\ job.pc = "tune"
  /\ AuditError \notin TuneTargets(job.results)
  /\ changed \subseteq TuneTargets(job.results) /\ Cardinality(changed) <= MaxTuned
  /\ \A c \in changed : CurrentSeverity(job.results, c) # severity
  /\ LET choices == [c \in TuneTargets(job.results) |->
                       IF c \in changed THEN severity ELSE CurrentSeverity(job.results, c)]
     IN  job' = [job EXCEPT !.rules = {CheckRule(c, severity) : c \in changed},
                            !.results = ApplyChoices(@, choices), !.pc = "triage"]
  /\ UNCHANGED <<file, ignored, report, outcome, outside>>

TuneFails ==
  /\ job.pc = "tune"
  /\ AuditError \in TuneTargets(job.results)
  /\ Finish("init failed")
  /\ UNCHANGED <<file, ignored, report, outside>>

Baseline(results) ==
  [k \in {EntityKey(r) : r \in results} |->
     [checks |-> {r.check : r \in {r \in results : EntityKey(r) = k}}, expires |-> {}]]

MinimalPolicy ==
  [rules |-> {}, failures |-> NoTable, warnings |-> NoTable, mode |-> {"active"},
   overrides |-> NoOverrides]

\* Mutant: the corrected URLs are applied but not kept.
PolicyWithoutURLs(rules, urls, errors, warnings) ==
  [MinimalPolicy EXCEPT !.rules = rules,
                        !.failures = Baseline(errors), !.warnings = Baseline(warnings)]

TriagedPolicy(rules, urls, errors, warnings) ==
  [MinimalPolicy EXCEPT !.rules = rules, !.overrides = urls,
                        !.failures = Baseline(errors), !.warnings = Baseline(warnings)]

\* The picks of both passes are written in one file, over any that exists by now.
Triage(errors, warnings) ==
  /\ job.pc = "triage"
  /\ errors \subseteq Errors(job.results)
  /\ warnings \subseteq Warnings(job.results)
  /\ file' = Written(TriagedPolicy(job.rules, job.urls, errors, warnings))
  /\ Finish("written")
  /\ UNCHANGED <<ignored, report, outside>>

\* Without a terminal nothing is asked: the policy is the minimal one.
InitWithoutTerminal ==
  /\ job.pc = "urls" /\ ~ job.terminal
  /\ file' = Written(MinimalPolicy)
  /\ Finish("written")
  /\ UNCHANGED <<ignored, report, outside>>

-------------------------------------------------------------------------------
(* policy add-expected-failures and policy override.                           *)

\* What a command changes: the file as loaded, or the minimal policy.
Loaded(repo) ==
  IF repo = {} THEN MinimalPolicy ELSE ToPolicy(CHOOSE p \in repo : TRUE)

LoadFindings ==
  /\ job = Idle
  /\ commands < MaxCommands
  /\ report.status = "valid" /\ Errors(report.results) # {} /\ ~ Unreadable(file)
  /\ job' = [NewJob("acknowledge", "spdx", TRUE, TRUE) EXCEPT
               !.repo = PolicyIn(file), !.results = Errors(report.results), !.pc = "pick"]
  /\ commands' = commands + 1
  /\ outcome' = "none"
  /\ UNCHANGED <<file, ignored, code, now, report, edits>>

\* Mutant: the new checks replace those of the entry.
UnionOfNew(table, picks) == [k \in DOMAIN table \cup DOMAIN picks |->
                               IF k \in DOMAIN picks THEN picks[k] ELSE table[k]]

\* Picks join the entries; an entry keeps its date.
UnionOf(table, picks) ==
  [k \in DOMAIN table \cup DOMAIN picks |->
     [checks |-> UNION {t[k].checks : t \in {t \in {table, picks} : k \in DOMAIN t}},
      expires |-> IF k \in DOMAIN table THEN table[k].expires ELSE {}]]

Acknowledge(picked) ==
  /\ job.pc = "pick"
  /\ picked \subseteq job.results /\ picked # {}
  /\ file' = Written([Loaded(job.repo) EXCEPT !.failures = UnionOf(@, Baseline(picked))])
  /\ Finish("written")
  /\ UNCHANGED <<ignored, report, outside>>

AcknowledgeNothing ==
  /\ job.pc = "pick"
  /\ Finish("unchanged")
  /\ UNCHANGED <<file, ignored, report, outside>>

\* An override of the same key is replaced only with --force.
Override(key, url, force) ==
  /\ job = Idle
  /\ commands < MaxCommands
  /\ ~ Unreadable(file)
  /\ force \/ key \notin DOMAIN Loaded(PolicyIn(file)).overrides
  /\ file' = Written([Loaded(PolicyIn(file)) EXCEPT
                        !.overrides = Overlaid(@, [k \in {key} |-> url])])
  /\ commands' = commands + 1
  /\ outcome' = "written"
  /\ UNCHANGED <<ignored, code, now, report, job, edits>>

-------------------------------------------------------------------------------
(* The surroundings.                                                           *)

\* Right before a step that reads the file: one at another moment has the same
\* effect, or none, since init and add-expected-failures write over it.
EditFile(f) ==
  /\ job.pc \in {"idle", "start", "mode"}
  /\ edits < MaxEdits
  /\ f # file
  /\ file' = f
  /\ edits' = edits + 1
  /\ UNCHANGED <<ignored, code, now, report, job, outcome, commands>>

\* Between two commands only: a scan of a tree that changes meanwhile is left out.
ChangeCode(c) ==
  /\ job = Idle
  /\ edits < MaxEdits
  /\ c # code
  /\ code' = c
  /\ edits' = edits + 1
  /\ UNCHANGED <<file, ignored, now, report, job, outcome, commands>>

\* Between two commands, or right before the step that reads the clock.
Tick ==
  /\ job.pc \in {"idle", "report"}
  /\ now < MaxTime
  /\ now' = now + 1
  /\ UNCHANGED <<file, ignored, code, report, job, outcome, commands, edits>>

Scan ==
  \/ \E format \in Formats, continue \in BOOLEAN : StartRun(format, continue)
  \/ \E format \in Formats, terminal, force \in BOOLEAN : StartInit(format, terminal, force)
  \/ ReadRules \/ ResolveMode \/ ScoreSource \/ ScoreSourceFails
  \/ BuildSbom \/ BuildSbomFails \/ \E i \in SUBSET DOMAIN Covers : ExcludeDirectories(i)
  \/ \E failing \in SUBSET MayFail : Audit(failing)
  \/ AuditFails \/ Report \/ ReportFails \/ Verdict

\* What is decided at the prompts of init and of policy add-expected-failures.
Prompts ==
  /\ job # Idle
  /\ \/ \E chosen \in SUBSET NotFoundKeys(job.results), url \in Urls : CorrectURLs(chosen, url)
     \/ \E changed \in SUBSET TuneTargets(job.results), s \in Severities : TuneSeverities(changed, s)
     \/ TuneFails
     \/ \E errors \in SUBSET Errors(job.results), warnings \in SUBSET Warnings(job.results) :
          Triage(errors, warnings)
     \/ InitWithoutTerminal
     \/ \E picked \in SUBSET job.results : Acknowledge(picked)
     \/ AcknowledgeNothing

Commands ==
  \/ LoadFindings
  \/ \E key \in Package, url \in Urls, force \in BOOLEAN : Override(key, url, force)

Surroundings ==
  \/ \E f \in {Written(p) : p \in HandWritten} \cup {NoFile, BrokenFile} : EditFile(f)
  \/ \E c \in Codes : ChangeCode(c)
  \/ Tick

Next == Scan \/ Prompts \/ Commands \/ Surroundings

Spec == Init /\ [][Next]_vars
-------------------------------------------------------------------------------
(* The trees, packages and names that a scan meets.                            *)

LockThatCounts(m) ==
  {l \in ClosestLockfile(m.dir, m.lockfiles) : l.parses /\ l.format # "other"}

\* What npm links to a folder of the tree is no package of its own.
LinkedFolder(m, name) ==
  \E l \in LockThatCounts(m) : l.format = "npm" /\ l.packages[<<NodeModules, name>>].link

NamedIn(m) == {d \in ToSet(m.declared) : d.child # NoKey}
DeclaredIn(m) == {d \in NamedIn(m) : ~ LinkedFolder(m, d.child.name)}

\* A lockfile in step with its manifest has one package at the top for a name
\* the manifest declares, and under that name.
Lists(l, name) ==
  CASE l.format = "npm" ->
         /\ {<<>>, <<NodeModules, name>>} \subseteq DOMAIN l.packages
         /\ l.packages[<<NodeModules, name>>].name \subseteq {name}
         /\ name \in l.packages[<<>>].dependencies \cup l.packages[<<>>].dev \cup l.packages[<<>>].optional
    [] l.format = "npm1" -> <<name>> \in DOMAIN l.tree
    [] l.format = "bun" ->
         <<name>> \in DOMAIN l.packages /\ l.packages[<<name>>].name = name /\ \E w \in l.workspaces : name \in w
    [] l.format = "uv" ->
         /\ \E i \in DOMAIN l.entries : \A j \in DOMAIN l.entries : l.entries[j].name = name <=> j = i
         /\ \E e \in ToSet(l.entries) : e.root /\ name \in e.dependencies

Manifests == UNION {ToSet(ManifestsAt[c]) : c \in Codes}

\* Lockfiles that are behind their manifest, aliases of npm and forks of uv, of
\* which the code takes one, are not among the trees.
ASSUME LockfileAssumption ==
  \A m \in Manifests : \A l \in ClosestLockfile(m.dir, m.lockfiles) :
    /\ l.format \in {"npm", "npm1", "bun", "uv", "other"}
    /\ l.format = "npm" => DOMAIN l.packages \subseteq Seq(STRING)
    /\ l.format = "uv" => l.entries \in Seq(ToSet(l.entries))
    /\ l \in LockThatCounts(m) => \A d \in NamedIn(m) : Lists(l, d.child.name)

\* A key has the version as its only parameter, if any.
IsPackageKey(key) ==
  /\ key = [name |-> key.name, query |-> key.query]
  /\ key.name \notin SourceNames \cup DOMAIN Glob \cup {Root.name, NoKey.name}
  /\ \A p \in key.query : p[1] # "overrides"

ASSUME KeyAssumption ==
  /\ RootKey \in DOMAIN PurlOf
  /\ RootKey.name \in SourceNames
  /\ Package \subseteq DOMAIN PackageFindings
  /\ \A key \in DOMAIN PackageFindings : IsPackageKey(key)

\* The keys in a tree are of packages, never of the tree itself.
ASSUME TreeAssumption ==
  /\ \A c \in Codes :
       /\ ManifestsAt[c] \in Seq(Manifests)
       /\ \A e \in Edges(ManifestsAt[c], DOMAIN ManifestsAt[c]) :
            /\ e.child \in DOMAIN PackageFindings \cap DOMAIN PurlOf
            /\ e.parent \in {RootKey} \cup (DOMAIN PackageFindings \cap DOMAIN PurlOf)
  /\ \A m \in Manifests :
       /\ m.declared \in Seq(ToSet(m.declared))
       /\ \A e \in LockfileDependencies(m) : e.parent # RootKey

\* Names of checks are no patterns, and an audit that fails is no check.
ASSUME CheckAssumption ==
  /\ IsFiniteSet(DOMAIN Glob)
  /\ (Check \cup {AuditError}) \cap DOMAIN Glob = {}
  /\ AuditError \notin Check
  /\ \A c \in Codes : SourceFindings[c] \subseteq Check
  /\ \A key \in DOMAIN PackageFindings : PackageFindings[key] \subseteq Check

-------------------------------------------------------------------------------
(* What must hold.  The tree's own declarations, read off the manifests.       *)

\* Manifests that count, except those below another one's lockfile: of them the
\* lockfile's own root is reported, and nothing they declare themselves.
InScope(m) ==
  /\ m.parses
  /\ \E p \in m.paths : ~ IgnoreMatch(p, ignored)
  /\ \A l \in ClosestLockfile(m.dir, m.lockfiles) : l.dir = m.dir

\* The version that is installed at the top of the tree for a name.
TopVersion(l, name) ==
  CASE l.format = "npm" -> l.packages[<<NodeModules, name>>].version
    [] l.format = "npm1" -> l.tree[<<name>>]
    [] l.format = "bun" -> l.packages[<<name>>].version
    [] l.format = "uv" -> (CHOOSE e \in ToSet(l.entries) : e.name = name).version

PinnedKey(m, key) ==
  IF LockThatCounts(m) = {} THEN key
  ELSE MakeKey(key.name, TopVersion(CHOOSE l \in LockThatCounts(m) : TRUE, key.name))

\* The packages the manifests declare, in the versions their lockfiles pin.
Declarations ==
  UNION {{[child |-> PinnedKey(m, d.child), location |-> d.location] : d \in DeclaredIn(m)} :
           m \in {m \in ToSet(ManifestsAt[code]) : InScope(m)}}

DeclaredKeys == {e.child : e \in Declarations}

Overridden(key) == OverrideFor(job.repo, key) # {}

\* What is wrong with a declared package under the overrides of the scan.
ViolationsOf(key) ==
  {[entity |-> AnalysisId(job.repo, key), check |-> c, depth |-> 1, dev |-> FALSE] :
     c \in {c \in PackageFindings[key] : c = RepoNotFound => ~ Overridden(key)}}

SourceViolations ==
  {[entity |-> RootKey, check |-> c, depth |-> 0, dev |-> FALSE] : c \in SourceFindings[code]}

\* "Passing (exit 0): no blocking findings" (run_all.go:198): unless the audit
\* as a whole failed, every package the manifests declare was scored, and the
\* policy read at the start accepts everything wrong with it and with the tree.
PassMeansAccepted ==
  [][outcome' = "passing" /\ job.pc = "verdict" /\ ~ job.partial =>
       /\ DeclaredKeys \subseteq job.scored
       /\ \A v \in SourceViolations \cup UNION {ViolationsOf(key) : key \in DeclaredKeys} :
            Level(Kind(Effective(job.repo), v, job.gradedAt)) # "error"]_vars

\* Where a declared package may be reported: at a line that declares its name, or
\* at the root of the repository when no line is known.  A package whose analysis
\* is not named by its key, for an override or a version that escaping changes
\* (input.go:54), has only the line of a dependency of which that is the key.
PlacesOf(key) ==
  LET id     == AnalysisId(job.repo, key)
      pinned == {e.location : e \in {e \in Declarations : e.child = key}} \ {{}}
      named  == (UNION {{d.location : d \in {d \in NamedIn(m) : d.child.name = key.name}} :
                          m \in {m \in ToSet(ManifestsAt[code]) : ~ ManifestIgnored(m, ignored)}}) \ {{}}
  IN  IF id = key THEN named \cup {l \in {RepoRoot} : pinned = {}}
      ELSE {RepoRoot} \cup {l \in named : id \in Keys(job.deps)}

ResultsOf(v) == {r \in job.results : r.name = v.entity /\ r.check = v.check}

\* A written report has one result for each finding of the tree and of every
\* package its manifests declare, at a line that declares the package if its key
\* names the analysis; packages whose audit failed have an error (pipeline.go:265,
\* :244, :188).
FindingsPointAtTheirLine ==
  job.pc \in {"verdict", "urls", "tune"} =>
    /\ \A v \in SourceViolations : Cardinality(ResultsOf(v)) = 1
    /\ ~ job.partial =>
         \A key \in DeclaredKeys \ job.failed : \A v \in ViolationsOf(key) :
           /\ Cardinality(ResultsOf(v)) = 1
           /\ \A r \in ResultsOf(v) : r.location \in PlacesOf(key)
    /\ \A key \in job.failed : \E r \in Errors(job.results) : r.name = key /\ r.check = AuditError

\* Every violation that some scan may find, under any override.
Analyses ==
  {[key EXCEPT !.query = Respelt(@) \cup o] : key \in Package, o \in {{}} \cup {{<<"overrides", url>>} : url \in Urls}}

Universe == Violations(RootKey, Check, 0) \cup UNION {Violations(e, Check, 1) : e \in Analyses}

\* What add-expected-failures writes acknowledges the picked findings and grades
\* every other violation as the file it read did (policy.go:196-241); only an
\* entry that had lapsed before stays lapsed.  An entry without a version is for
\* every version of its package (matcher.go:128).
AcknowledgingIsExact ==
  [][job.pc = "pick" /\ outcome' = "written" /\ job' = Idle =>
       LET before == Effective(job.repo)
           after  == Effective({file'.policy})
           written == file'.policy.failures
           Added(k, v) == /\ v.check \in written[k].checks
                          /\ \A p \in job.repo : k \in DOMAIN p.failures => v.check \notin p.failures[k].checks
           IsFor(k, v) == IF v.entity = RootKey THEN k = Root
                          ELSE k.name = v.entity.name /\ k.query \in {{}, v.entity.query}
       IN  \A v \in Universe :
             IF Kind(before, v, now) = "ignored" \/ ~ \E k \in DOMAIN written : IsFor(k, v) /\ Added(k, v)
             THEN Kind(after, v, now) = Kind(before, v, now)
             ELSE \/ Kind(after, v, now) = "acknowledged"
                  \/ /\ Kind(after, v, now) = "expired"
                     /\ \E p \in job.repo : \E k \in DOMAIN p.failures : Lapsed(p.failures[k], now)]_vars

Rank(kind) ==
  CASE kind \in {"blocking", "expired"} -> 2
    [] kind = "warning" -> 1
    [] kind \in {"acknowledged", "ignored"} -> 0

\* With the file unchanged, the passing of time only makes a grade stricter:
\* dates set rules to blocking and let acknowledgments lapse (matcher.go:185,
\* evaluate_core.go:78), never the reverse.
TimeOnlyTightens ==
  [][now' > now =>
       LET policy == Effective(PolicyIn(file))
       IN  \A v \in Universe : Rank(Kind(policy, v, now)) <= Rank(Kind(policy, v, now'))]_vars

\* "Baselining them records today's findings as accepted" (init.go:257): after
\* an init that baselined all blocking findings of a tree without a policy, a
\* scan of that tree would find nothing that blocks.  Not so if a severity was
\* tuned or an audit failed.
BaselineAccepts ==
  [][/\ job.pc = "triage" /\ outcome' = "written" /\ job' = Idle
     /\ job.fresh /\ job.rules = {} /\ ~ job.partial
     /\ DOMAIN file'.policy.failures = {EntityKey(r) : r \in Errors(job.results)}
     /\ \A r \in Errors(job.results) : r.check \in file'.policy.failures[EntityKey(r)].checks
     => \A v \in SourceViolations \cup UNION {PackageViolations({file'.policy}, key) : key \in job.scored} :
          Level(Kind(Effective({file'.policy}), v, job.gradedAt)) # "error"]_vars

\* "Print the effective policy that would be enforced" (policy.go:43): what
\* policy show prints, enforced, grades as the policy itself does.
ShownPolicyIsEnforced ==
  \A v \in Universe :
    LET policy == Effective(PolicyIn(file))
    IN  Kind(ToPolicy(policy), v, now) = Kind(policy, v, now)

\* "init can always reach the triage step" (init.go:150): no init ends with an
\* error once its report is written.
InitReachesTriage == outcome # "init failed"
=============================================================================

# Verification of Risk Guard

TLA+ models of Risk Guard (`src/`), the command line that scores the source
repository and the dependencies of a project, with the TLC runs that check them
on small instances and the theorems TLAPS proves about them. Paths below are
relative to the repository.

## 1. The system

    run-all / audit / score (cmd/risk-guard)
      |  setupAuditContext: policy, storage, overrides, cache configuration
      |  scoreLocalSource -----------------> one run of the engine on the source
      |  runPackageAudits -> scoreAll -----> one run of the engine per dependency,
      |                        |             at most --jobs at a time
      |                        +-- auditcache: results of earlier runs (files)
      |  assembleReport, gradeViolations: policy -> findings, verdict, exit code
      v
    execution-dag: stages of goroutines over the node graph of dag-builder
      |-- git clones (clone cache, metadata cache)      files shared by all runs
      |-- registry and API requests (response cache, retries)   files, network
      +-- observe spans -> ui: rows, spinner, progress lines on the terminal

### Components, their state, operations and hard parts

| component | source | state | operations | what is hard | what makes it correct |
|---|---|---|---|---|---|
| execution engine | `src/execution-dag` | graph, stages, goroutines, channels, context, input, skipped keys, override store, spans | sort, run a stage, skip, execute/read, fold, warn, return | concurrency inside a stage, partial failure, skip propagation, cancellation | a node runs after, and sees everything of, its dependencies; skips propagate; nothing shared changes while a stage runs; Execute returns |
| output overrides | `src/overrides`, `src/language/dag/transformer/output.go` | requests, applied requests | apply, record, warn | precedence, outputs that are skipped | every request is applied or warned about; a fallback only fills a gap |
| audit worker pool | `cmd/risk-guard/audit_score.go` | running goroutines, results, totals | launch, score, collect, wait | bounded pool, failures beside successes | every package is reported once; totals agree with the report; the audit ends |
| audit result cache | `src/lib/local/auditcache`, `cmd/risk-guard/audit_cache.go` | one file per package, version and overrides | get, put | files written in place, other runs, crashes, expiry | a report only holds genuine analyses of the right identity |
| node graph | `src/dag-builder`, `src/lib/local/dag`, node packages | registered nodes, dependencies | build, conditional dependencies, Read under `--no-fetch` | two input shapes, nodes that opt out of skipping | acyclic and complete for every input; nodes that require a source URL have one |
| registry and git answers | `src/registry`, `src/language`, `src/git/{errors,ls_remote}.go`, `git_resolve` | none that lasts | fetch, extract metadata and history, classify an error | three registries that say the same things differently; a server's trouble against a repository's | a missing package or source is reported only when it is missing |
| git clones and their cache | `src/git`, `git_clone_content`, `git_clone_metadata` | working trees, archives, cached histories | resolve, clone, check out, archive, extract, analyse | the remote moves, other runs, kills, directories that outlive a run | a tree is the tree of the commit it is named after |
| HTTP and the response cache | `src/http`, `src/lib/common/cache` | cached responses, temporary files | look up, read, request, retry, store | retries, concurrent writers, kills | an answer is whole and recent enough; a fetch ends |
| policy and verdict | `src/policy`, `cmd/risk-guard/{evaluation,run_all,pipeline}.go` | `.risk-guard.yml`: rules, acknowledgements; findings, exit code | match, merge, grade, print, exit | precedence, expiry, soft failure | a blocking finding is never silenced by accident |
| commands that write the policy | `cmd/risk-guard/{init*,policy}.go` | prompts, picks, the report they read | init and its four prompts, add-expected-failures, override | a sequence of commands, hand edits between them | what is written accepts what was picked, and nothing else |
| SBOM and lockfiles | `cmd/risk-guard/sbom*.go`, `src/lib/common/sbom`, `src/ecosystem` | edges, nodes, two document formats | detect, parse, merge, write, read back | names that are encoded and decoded, edges attributed to lines | what a manifest declares is audited, and reported where it is declared |
| progress display | `src/ui`, `src/observe` | rows, painted lines, ticker | begin, end, print, redraw, stop | callbacks of every goroutine, a ticker that stops and restarts | the screen shows the active rows; no ticker outlives them |
| parsers, checks, reports, plumbing | `src/parsers`, `src/package_detection`, `src/violations`, `src/archive`, ... | none that lasts | pure functions and plain I/O | data, not control | covered by the repository's table tests |

## 2. Plan

1. `DagContract`, `ExecutionDag`, `ExecutionDagInv`, `ExecutionDagProofs`: the
   engine, its contract, its inductive invariant, its theorems.  Done.
2. `ScoringContract`, `AuditScoring`, `AuditScoringProofs`: the worker pool and
   the result cache.  Done.
3. `RemoteAnswers`, `RiskGuardNodes`, `RiskGuardChecks`, `RiskGuardDag`,
   `RiskGuardDagProofs`, `RiskGuardFindingsProofs`: the actual graph, for a
   source and for a package input, over what registries and git servers answer.
   Done.
4. `FileStore`, `HttpFetch`, `CloneCache`, `CachedRuns`, `CachedRunsProofs`: the
   file cache, what is fetched through it and the runs that share it.  Done.
5. `PolicyRules`: rules, acknowledgements, merging and grading.  Done.
6. `LockfileGraph`, `SbomGraph`, `SbomGraphProofs`: from lockfiles to the
   packages that are audited.  Left: manifest parsers, lockfiles of poetry, pdm
   and others.
7. `ScanRuns`, `ScanRunsProofs`: the commands, composed of 5 and 6.  Done.
8. `LiveRows`, `ProgressDisplay`, `ProgressDisplayProofs`: rows, the ticker, the
   completion counter.  Done.

Abstract specifications: the engine's contract and the scoring contract, both
with a refinement.  That a cache only holds what was fetched under its key, and
that a pass means that the policy accepts what is declared, are stated as
properties of 4 and 7.

## 3. What is modelled

### 3.1 The engine: `ExecutionDag`

One call of `DAG.Execute` over any graph.  State: the registered graph, the
counters of `topologicalSort`, the stages it makes, one goroutine per node of
the running stage (`worker`, `result`), the two buffered channels, what the main
goroutine folds into (`ctx`, `input`, `skippedKeys`, the override store), the
open spans and whether the context was cancelled.

| action | code |
|---|---|
| `SortMissingDependency`, `SortStage`, `SortCycle`, `SortDone` | `topologicalSort` |
| `StageCancelled`, `LaunchStage` | the head of the loop over stages |
| `SkipNode`, `BeginNode`, `EndNode` | `executeNode`: the automatic skip, `Execute` or `Read`, the span |
| `SendResult` | a goroutine's send to `outputChan` or `errChan` |
| `StageReturned`, `StageFailed`, `StageSucceeded` | `wg.Wait`, the error, the drain |
| `FoldSkipped`, `FoldOutput`, `FoldOverrideError`, `StageFolded`, `AllStagesFolded` | storing, overriding and merging one output at a time |

A node is a function from nothing to a set of outputs: which one it returns is
the choice of TLC.  What an actual node returns is section 3.3.  The model of
"skipped" is the engine's flag, which a check's skipped output also carries
although its status is a success (`src/dag-impl/checks/output.go`).

`DagContract` says what a caller may rely on, in three variables: nodes finish
once, after their dependencies, and an error ends the call.

### 3.2 The audit: `AuditScoring`

`scoreAll` of several runs at once.  A run launches a goroutine per key, at most
`--jobs` at a time; a goroutine looks its key up, scores it or fails, counts it
and appends its result; the main goroutine waits and returns the report.  The
cache is a set of files that every run on the same directory shares; `Put`
truncates a file and then writes it, and a run may crash at any point, leaving
an empty file that the next reader treats as a miss.  `ScoringContract` is the
promise to the caller: a report holds one genuine answer per key.

### 3.3 One analysis: `RemoteAnswers`, `RiskGuardNodes`, `RiskGuardChecks`, `RiskGuardDag`

What an analysis looks at (remotes, trees, histories, registries, attestations)
is a record, `world`, that does not change while it runs.  Each of the 16 nodes
that fetch or transform is an operator of `RiskGuardNodes` and each of the 27
checks one of `RiskGuardChecks`, named as in the code: from the input and the
stored outputs to an output (status, verdict, and the data other nodes read).
What may be asked is `Askable`: a source URL without packages, or packages
without a URL, the only inputs that `NewSourceInputWithOverrides` and
`NewPackageInputWithVersion` make (`InputAssumption`).
`RiskGuardDag` has the registered graph with its two conditional dependencies,
the nodes that opt out of automatic skips, and an engine that takes a whole
stage in one step: `RunStage`, `StageFails`, `Finish`.

The coarse step is justified by the theorem `StagesAreIsolated` of 3.1: nothing
that the goroutines of a stage read changes while one of them runs, so the
stage's outputs are those its nodes compute from the state at its start; and
the outputs of one stage never add two different URLs to the input, so the
order of the fold does not show.

`RemoteAnswers` is the border to the outside.  A package has a `Listing`: how each
endpoint of its registry answers (`Answer`), the versions the index lists and
their dates.  `Response` is what the npm, PyPI or RubyGems client makes of it
(found, missing, quarantined, failed), `Metadata` and `History` what the
ecosystem's `ExtractPackageMetadata` and `ExtractVersionHistory` do, which may
fail on what was found ("garbled").  A remote has a `Reply` to `git ls-remote`;
`ClassifyCloneError` names its error and `HandleResolveError` decides whether the
analysis fails or the source counts as not found.

Data that no verdict tells apart is left out: names and URLs are values that are
already normalised, dates are ages in whole days, an artifact is intact,
corrupt or unreachable, a bundle is malformed, unsigned, signed for another
digest or signed.  Rationales, evidence, thresholds that were reconfigured, the
commit a user may pass on the command line and `--no-fetch` are not in it, and
neither are the caches behind the nodes, whose hit is taken to return what the
fetch would.

### 3.4 The display: `LiveRows`, `ProgressDisplay`

`LiveRows` is `ui.UI`: the rows, the lines it believes are painted, its tickers
and their goroutines, and the terminal itself, as lines and a cursor that the
escape sequences move.  Every operator is one critical section of `UI.mu`
(`StartRow`, `RemoveRow`, `AddActive`, `RemoveActive`, `Printf`, `Stop`, and
`Repaint` of a goroutine that received a tick before).  Up to `MaxLosses` frames
do not reach the terminal, which `paint` does not report.

`ProgressDisplay` is who calls them in one `risk-guard run`.  The local source
is a phase around a stage of nodes; the fetcher's node has a batch with a
goroutine per package, which ends in the three critical sections of
`finishPackage` (`RetireRow`, `CountPackage`, `PrintPackage`); the audits are
phases, each of which ends with its line, printed under the lock of `scoreAll`
(`CountAudit`, `PrintAudit`).  On a run that is not on a terminal, `enabled` is
false and only lines appear.

Left out: spinner, time, labels and truncation; a terminal lower than the block
of rows; a write that fails half way; the phase that builds the SBOM; nodes
under an audit; and the few lines the command writes to stderr itself, between
phases, when there are no rows.

### 3.5 Files, fetches and clones: `FileStore`, `HttpFetch`, `CloneCache`, `CachedRuns`

`FileStore` is the cache backend on disk.  A fetch is a task with a program
counter.  `Lookup` sees that an entry exists and is young enough, `ReadEntry`
reads it in a later step, when it may be another one; `CreateTemp`, `WriteTemp`
and `Publish` write a temporary file and rename it, and `SetFails` is a write
that fails.

| module | action | code |
|---|---|---|
| `HttpFetch` | `HttpLookup`, `HttpHit` | `GetJSONCached`, `PostJSONCached` |
| | `RequestSucceeds`, `RequestFails` | one attempt, its answer, the retry loop |
| `CloneCache` | `Resolve`, `ResolveFails` | `git_resolve`: the commit the remote has now |
| | `CloneLookup`, `ContentHit`, `Extract` | `tryCloneCache`: file by file into the directory as it is |
| | `Clone`, `Checkout`, `CloneFails`, `ContentFails` | `CloneContentOnly`, `cleanupAndReturn` |
| | `Archive`, `ClonePublish`, `CloneSet` | `CreateTarGz` and the entry |
| | `MetadataHit`, `CloneHistory`, `CloneHistoryFails` | `git_clone_metadata` |
| `CachedRuns` | `NextRound`, `Kill` | runs one after the other; a process that dies anywhere |
| | `Tick`, `PublishVersion`, `PushCommit` | the clock, the registry and the remote |

A plan says which tasks run in which round and process.  The model writes
"failed" where a published clone that fails is a skipped output in the code; the
node graph has that distinction.

Left out: two tasks of a round in one directory.  Two analyses of one package at
the same time share a working tree (`materialize.go:163`), which one run never
does and nothing prevents between two; `PlanAssumption` excludes it.  The limit
on the size of a file does not show, nor does the ignore file that is applied to
trusted inputs after the archive is stored.

Archives hold no symbolic links (`Archived`, `create.go:36`), but the directory
they are extracted to may: a clone puts them there, and extraction opens a path
for writing without removing what stands there (`Opened`, `tar.go:54-58`), so a
link that an earlier clone left sends the content of a file to where it leads
(`Target`).  Entries come in the order in which the archive was written, that of
`filepath.WalkDir` (`NextEntry`), and the later one wins.  A link to a directory
is a link at every path below it.  `CloneAssumption` says that no link of a tree
leads to another link of it (`Straight`); links out of the tree are left out.

### 3.6 Scans and policies: `PolicyRules`, `LockfileGraph`, `SbomGraph`, `ScanRuns`

`PolicyRules` has the operators of `src/policy`: how specific a rule is
(`Specificity`), which of them count (`BestRules`), their severity on a day
(`Resolved`), the acknowledgement that outranks the others (`AckKeys`), the grade of
a finding (`Kind`), the merge of two layers and the form in which a policy is
shown.  Names are values; `Glob` says what a pattern matches.  `GlobAssumption`
excludes two patterns of one length that match one name, which a Go map would
put in a random order.

`LockfileGraph` reads npm (versions 1 to 3), bun and uv lockfiles, with their
links, workspaces and name lookup, and attributes each edge to the line of the
manifest it comes from.  `SbomGraph` turns the manifests that are not ignored
into edges, nodes and an SPDX or CycloneDX document, and reads it back.  What the
code ranges over in a Go map comes in no order: edges are sets, each with its
place in the list (`at`), and where the order of the list decides, as for the
first line of a package, it is that place that does (`FirstLocation`).

`ScanRuns` composes them.  `job` is the memory of the one command that runs,
`file` is `.risk-guard.yml`, `report` the SARIF file that
`policy add-expected-failures` reads.

| action | code |
|---|---|
| `StartRun`, `StartInit`, `ReadRules`, `ResolveMode` | `runAll`, `runInit`, the layers of the policy, the mode |
| `ScoreSource`, `ExcludeDirectories`, `BuildSbom`, `Audit`, `Report` and their failures | the pipeline, with and without `--continue-on-error` |
| `Verdict` | grades, mode, exit |
| `CorrectURLs`, `TuneSeverities`, `TuneFails`, `Triage`, `InitWithoutTerminal` | the prompts of `init`, and the file it writes |
| `LoadFindings`, `Acknowledge`, `AcknowledgeNothing`, `Override` | the commands of `policy` |
| `EditFile`, `ChangeCode`, `Tick` | a person, the tree, the calendar: between the steps of a command too |

An analysis is a set of findings per package here; section 3.3 is what makes them.
One command runs at a time.  A file that cannot be decoded is a value of its own;
a write that is torn is not modelled.

Four assumptions say what trees and names a scan meets; TLC evaluates them on
the instance.  `LockfileAssumption`: a lockfile that is read is in step with its
manifest, that is, it has one package at the top for each name the manifest
declares, under that name.  The tools that write these lockfiles keep them so; npm
aliases, forks of a uv package and a lockfile that someone forgot to update are
excluded, because then what is declared and what is installed are two questions,
and the code answers the second.  `KeyAssumption`: a package is
named by its ecosystem and its name, which is neither that of a source, a
pattern, "root" nor empty, and an override is no part of a key in a tree.  The
version in a key is verbatim; the identifier of an analysis is built from a version that
was unescaped and escaped again (`Escaped`, `Respelt`), so `AnalysisId` gives a
version such as `1!3` another identifier than its key.
`TreeAssumption`: the keys of a tree are of packages, and no lockfile names the
tree itself.  `CheckAssumption`: patterns are finitely many, and no check is named
like one or like the error of a failed audit.

## 4. What is checked

| run | instance | what it shows |
|---|---|---|
| `engine` | three graphs of four nodes and every graph over three, cyclic or not, with every outcome, a forced and a misspelt override, `--no-fetch` and cancellation | outputs are available to their readers, a dependency's URL reaches its dependents, skips propagate and stop at nodes that opt out, the context returned with an error holds nothing of a stage in which a node failed and only what was folded before an override that failed (`FailureInv`, a part of `Inv`), overrides are applied or warned about and a fallback only fills gaps, spans are closed, a stage is isolated, exactly the cyclic graphs are refused, `Execute` returns, and the contract is implemented |
| `audit` | two runs over two packages, one shared and one private cache file, `--jobs` 1 and 2, torn and expired files, failures, crashes | every key reported once, totals that match the report, runs that end, genuine answers only |
| `graph` | 3,007 worlds in families of provenance, registry answers, git servers' replies, dates, sources, monorepos and failures | see below |
| `graph_empty_history`, `graph_rebased_history`, `graph_local_provenance` | small families of worlds | three disagreements, section 6 |
| `display` | two dependencies, fetched and audited two at a time, a terminal or none, one lost frame | the terminal holds the printed lines, then the rows, with the cursor below; the rows are the open spans; a batch counts 1 to its size, once each; audit lines are in order; a lost frame is repainted although nothing ends; no goroutine of a ticker is left |
| `caches` | five plans of up to three rounds: two processes and one document, a moving repository, HEAD and published trees of one commit, a private repository, histories | every file is whole and holds what its name says; a document that is returned was current within the maximal age; a tree holds its commit's files, but where a link of an earlier clone stands or leads to; every fetch ends |
| `caches_mixed_tree` | the same plans | a disagreement, section 6 |
| `scans` | two commands in a row on a tree with lockfiles of four kinds, a workspace, one vendored and one garbled manifest a package without a version and one whose version escaping changes; an audit may fail, a person edits the policy or moves the tree once, over two moments | see below |
| `scans_shown_policy`, `scans_init_abort` | one command | two disagreements, section 6 |

What `graph` shows of a whole analysis: a node's output stays what the node would
return now although the input grew since (`OutputsAreCurrent`, a part of `Inv`);
there is always a node to run; it fails
for a reason outside of it only (`FailuresAreExternal`: no node runs into the
missing output of a skipped one); stale, abandoned and single-contributor are
one finding, as are a tampered artifact and a mismatching URL; a forged
provenance is reported even when neither artifact nor source could be had; an
unavailable source is a finding and no check of its tree passes or fails, and
no unreachable server or refused token makes it a finding (what section 6 says of
silent servers and of names that do not resolve excepted); a package's name is
vouched for by a manifest or by a genuine attestation of the resolved repository
only; a URL mismatch means two repositories; and a pass overlooks nothing that could be
read (`PassesOverlookNothing`): the release checks have seen a date, and artifacts
are said to be free of install scripts only when no archive that was read
declares one, whatever else of the batch was passed over, while one that fails
its hash is reported.  It is not said that a pass read everything: see section 6.

What `scans` shows of a command: each finding of a package that a manifest
declares is reported once, in the version the lockfile pins, and at a line that
declares it if the identifier of its analysis is its key
(`FindingsPointAtTheirLine`; an override or a version that escaping changes puts
it at the root, or at a line of the same name if the identifier is another
dependency's key); "Passing" means that every declared package
was scored and that the policy of the start accepts all that is wrong
(`PassMeansAccepted`); what add-expected-failures writes silences the picked
findings and changes no other grade (`AcknowledgingIsExact`); a baseline of
`init` accepts the tree it was made of (`BaselineAccepts`); and time only makes
a grade stricter (`TimeOnlyTightens`).  The first two compare the pipeline with
`Declarations`, which reads the manifests directly.

### Bounds, and why they are enough

Four nodes give the engine two nodes in a stage and three stages, which is what
a race inside a stage, a chain of skips and an output that outlives a failed
stage need.  Three nodes give the sort every shape of cycle.  Two keys, two runs
and three cache states give the audit a collision on a file, on a slot and on a
result.  Two packages in one ecosystem and one in each of two others, and two
repositories, give the graph siblings, conflicting URLs and an attested
repository that is not the analysed one.  Two versions of a package give a pinned
one that is not the latest, one that is not listed, and a prerelease beside a release.  The families vary one subject each over a world where nothing
else is wrong, with ages on both sides of every threshold: a verdict reads at
most two subjects, and the families of provenance, of sources and of monorepos
vary those together.  Two packages give the display two rows to add and remove
in either order under the phase's row, a completion between the sections of
another, and two restarts of the ticker; after one lost frame the count of
painted lines is wrong, and a second one adds nothing new.

Two fetches of one entry give the caches a reader between a lookup and a rename,
and a slow writer over a fast one; a `MaxAge` of 1 with `maxClock` 2 gives both
sides of the age; two attempts (`MaxAttempts`) give a retry and its end.  Two
commits, of which the second deletes a file and makes a file of the link LICENSE
to docs/LICENSE, and three rounds give a directory
an earlier tree, a later one and a way back.  `MaxCommands` 2 and `MaxEdits` 1
give the scans a command that reads what another wrote, and a change under or
between them; `MaxTime` 1 the day on which an entry lapses; `MaxTuned` 1 a
severity picked in `init`, since picks of two checks do not meet.  The depth of
links in lockfiles is the code's own (`MaxLinks`).

Every property is violated in these bounds by a plausible bug of the code, which
PROJECT.json lists next to it.

Deadlock is checked for the engine, the audit, the display and the caches, which
stutter once they have ended.  It is off for the graph, where an analysis stops when
it is done or failed (that it never stops earlier is `GraphIsRunnable`), and for the
scans, which stop when the bound on commands is used up.

### Fairness

Weak fairness per goroutine and of the main goroutine (`FairSpec`): the Go
scheduler runs every runnable goroutine, `Execute` and `Read` of a node return
(their requests have timeouts and bounded retries) and a scoring ends.  Nothing
forces a cancellation or a crash.  Launching needs no strong fairness: a slot of
the pool, once free, stays free until the main goroutine takes it.  The graph
and the scans have no fairness; nothing temporal is claimed of them but what a
step may not do.  The display assumes only
that a running ticker ticks, that its goroutine gets the lock (Go's mutex does not
starve a waiter) and that a fetch that was answered is reported.  A fetch, a node
or an audit may take forever, so that it is the ticker that repairs the screen.

The caches assume weak fairness of "some task takes a step", of "some package is
resolved" and of the start of the next round, which is weaker than fairness per
task: a round is finite work, because each task has finitely many steps and
attempts, so all of it is done if some of it always is.  Nothing forces the
clock, the registry, the remote or a kill.

## 5. What is proved

For every value of the constants that meets the named assumptions.

- `ExecutionDagProofs`, from the assumptions of `ExecutionDag` on graph, returns
  and overrides.  That an output is available to its reader depends on what the
  sort did, where the goroutines are and what the fold stored, so the inductive
  invariant `Inv` (`ExecutionDagInv`) has a part per mechanism: `SortInv` (the
  stages partition the placed nodes, dependencies lie in earlier ones, the
  in-degrees count what is not placed, and nodes that wait for each other are
  never placed), `StageInv` (which goroutines are active and which outputs are
  stored, by stage and phase), `ChanInv` (the output channel holds each node of
  the stage that returned and is not folded, once), `SkipInv` (how spans,
  results, stored outputs and skipped keys belong together), `InputInv` (what
  a stored output contributed is in the input), `OverrideInv` (an output that
  took an override is stored and took every forced one) and `FailureInv` (what the
  context holds that is returned with an error: of the stage it stopped in
  nothing, or what was folded before the output whose override failed).  None is inductive alone.  From it: types, available outputs,
  propagated skips, complete inputs, closed spans, the verdict of the sort, the
  isolation of stages, that every override leaves a trace and a fallback only
  fills a gap, and `DagContract`.
- `AuditScoringProofs`: `LoopInv` (the keys not launched are the idle ones, and
  a run that returned has none left), `GenuineInv` (an answer, and what a saved
  file holds, is a genuine analysis of its own identity) and `ResultsInv` (the
  results are those of the goroutines that are done, each once).  From them:
  types, one report per key, the totals and `ScoringContract`.  The sum of the
  findings is stated by its running sums (`AddsUpTo`), so that one more result
  extends a witness and no induction over the results is needed.
- `RiskGuardDagProofs`, for every set of worlds that can be asked about.
  `NeverStuck`: whichever conditional dependencies are present, the nodes other
  nodes depend on form layers, so an analysis under way has a node to run; this
  holds of every set of finished nodes, without induction over steps.  The
  findings are statements about the end of an analysis, but outputs are made
  stage by stage, of an input that later stages extend.  `Inv` bridges the two:
  `OrderInv` (a node runs once, after its dependencies), `InputInv` (the input
  is the one asked about with what one node added: the detector's packages, or
  the transformer's URL, which is never a path on disk) and `OutputsAreCurrent`
  (each stored output is what its node would return now).  The last is inductive
  because a node reads only the outputs it depends on, for which there is one
  frame lemma per node, and those fields of the input that no node it may
  precede adds to.  That a failure has an external cause (`FailuresAreExternal`)
  is proved of each node in turn, from the statuses its dependencies may have.
- `RiskGuardFindingsProofs`: with `OutputsAreCurrent` an output of a finished
  analysis can be replaced by its definition, and the six properties of findings
  become statements about operators: who gives way to whom, which skips stop
  where, and what a pass was computed from.  They hold for any histories, registry
  answers, attestations and numbers of packages, not only the families of the run.
- `CachedRunsProofs`, for any plans, documents, processes and trees, from
  `RunAssumption` and `CloneAssumption`.  That entries are genuine is not inductive:
  an entry is what a task had in its hands, several steps and possibly a rename
  by another task earlier.  `Inv` adds `RoundInv` (rounds over have ended, rounds
  to come have not begun), `ResolveInv` (the tasks of a package wait together
  for one resolution) and, per task, `TaskInv`: what it is about to store is
  genuine (`TransferInv`), its temporary file is whole before it takes the
  entry's place, an entry it saw is still there and not too old, and a tree on
  its way holds exactly, or at least, what its step has put there (`TreeInv`).  From
  it: `StoreIsGenuine`, `TreesHoldTheirCommit` and `AnswersAreFresh`.  This `Inv`
  was checked by TLC on the instance of `caches` before it was proved; it is
  not among the properties of the run.
- `SbomGraphProofs`, about operators: identifiers of nodes are distinct although
  a purl loses information, because a node uses its purl only if it converts
  back (`PurlAssumption`: a key has at most one purl); from that, each format
  gives back the root's dependencies with their lines, and both the same ones.
  Dependencies of a lockfile need no induction here: the graph is any set of edges.
- `ScanRunsProofs`, for any trees, lockfiles, packages, findings, policies and
  globs, from `ScanAssumption` (what a person writes compiles) and the four
  assumptions of 3.6.  All five properties of `scans` are theorems.
  - `TimeOnlyTightens`: the rules that are blocking and the entries that lapsed only
    grow while neither the best rules nor the best acknowledgement depend on the
    day.  It needs that dates are dates in every policy a command holds or writes
    (`PolicyInv`).
  - The other four speak of the end of a command, about a tree and a policy that
    it read several steps earlier.  `ScanInv` carries what was read to that end:
    what the job has scored is of the tree as it is now and of the packages in its
    document (`ReadInv`), a scan without a policy grades by the default one and the
    corrected URLs (`FreshInv`), and its results are the grades of all that it
    scored at the moment of grading; after severities are tuned the errors are
    still there if nothing was changed (`ResultsInv`).  None of the three is
    inductive alone: the results are of what was scored, which is of what was read.
  - `AcknowledgingIsExact`: the entry a pick makes names its package, or the root,
    so it is the one that applies to the pick (`OwnEntryApplies`) and to no other
    package; where both the old table and the new one have an entry, the best key
    is the same or the new one, and the old entry's date is kept.
  - `BaselineAccepts`: a file that repeats rules of the default policy grades as the
    default does (`DoubledLayers`, `FreshGrades`), the overrides written are those of
    the scan, and a baseline's entry has no date to lapse on.
  - `FindingsPointAtTheirLine` and `PassMeansAccepted` compare the pipeline with the
    manifests.  Per lockfile format, the version installed at the top for a declared
    name is an edge from the root (`NpmPins`, `V1Pins`, `BunPins`, `UvPins`); such an
    edge takes the line of the declaration (`AttachedEdges`); the first line among
    several manifests is one of theirs (`FirstIsOne`), and the documents give it
    back (`SbomGraphProofs`).  A finding makes one result because entity and check
    tell findings apart (`OneResult`).  Transitive edges need no walk here: they
    do not start at the root.
  - `ScanInv` was checked by TLC on the instance of `scans` before it was proved; it
    is not among the properties of the run.
- `ProgressDisplayProofs`, for any packages, nodes, limits and numbers of lost
  frames, from `RowsAssumption` and `DisplayAssumption`.  The screen comes first,
  without the program: what `Put`, `Up`, `Erased` and `Frame` do to a terminal
  that holds the printed lines and a block (`Holds`), whatever the heights of
  the old block and the new one.  Then one fact per locked operation of the UI,
  and one table (`Effects`) of what each action prints, adds, drops or leaves.
  The rest of `Inv` is about the spans: they lie within their parents
  (`NestingInv`), which is why a row that is started was not there and why the
  command ends with no row; the audit in the mutex has the last number and its
  line is missing (`AuditInv`); the numbers given out are 1 to `batchDone`, one to
  each package counted, and each line has the number of its own package, whatever
  was counted since (`CountInv`).  From it: types, `ScreenIsLogAndRows`,
  `RowsAreOpenSpans`, `BatchIsCounted` and `AuditLinesInOrder`.  TLC checked this
  `Inv` on the instance of `display` before it was proved; it is not among the
  properties of the run.

Only model-checked: `ExecuteReturns`, `AuditsEnd`, `TasksEnd`,
`LostFrameIsRepainted` and `TickersReturn` (liveness is out of this prover's reach,
as is `ENABLED`).  What the walks of `LockfileGraph` compute beyond the first level,
`AncestorLocations` and the links of npm, would take an induction over data; the
properties proved do not depend on it, and TLC runs it on the instance.  The
violated properties of section 6 have their counterexamples, and no theorem.

## 6. Disagreements found

Shown by a run:

- **A repository without commits fails the analysis.**  `git_resolve` returns
  the error of resolving HEAD (`src/dag-impl/git_resolve/node.go:76`), while
  `src/git/analyzer.go:204` calls that a valid state that should not fail the
  whole analysis (`EmptyHistoryIsAnalysed`).
- **A rebased commit makes an active repository look inactive.**  The log is
  sorted by commit date and read by author date, and its first entry taken for
  the latest (`src/git/analyzer.go:298`, `InactiveReposAreInactive`).
- **A genuine attestation of a source on disk is a repo mismatch.**  The field it
  is compared with is set for remotes only
  (`src/dag-impl/provenance_verify/node.go:96`, `MismatchNamesAnother`).
- **A tree from the cache may be a mixture of two commits.**  A hit unpacks into
  the directory an earlier run left and removes nothing
  (`src/dag-impl/git_clone_content/materialize.go:132`, `CheckoutIsExact`).
  `TreesHoldTheirCommit` is what remains true of it: the regular files of the
  commit are there with their content, except at the paths where an earlier
  clone left a link and those such a link leads to (`Disturbed`).  If `LICENSE`
  was a link to `docs/LICENSE` and became a file, its content goes to
  `docs/LICENSE`, which is then written over, and reading `LICENSE` gives the
  text of the other.
- **`policy show` prints what is not enforced.**  Of two rules with one path it
  shows the repository's, and the stricter one is enforced
  (`src/policy/yaml.go:31`, `ShownPolicyIsEnforced`).
- **An audit that fails makes `init` fail.**  The AUDIT_ERROR result gets as far
  as the severity prompts, which have no rationale for it
  (`cmd/risk-guard/init_severity.go:88`, `InitReachesTriage`), although
  `pipeline.go:228` says that triage skips it.

Met while reading, and modelled as they are or left out; no run is about them:

- `finishPackage` removes the row, counts and prints in three critical sections
  (`src/ui/reporter.go:149`), so counter and rows do disagree for a moment, and
  "(2/2)" may be printed first.  Its comment says that they never disagree.
- Failures of audits are said to have their location stamped like every other
  result (`pipeline.go:245`), but the stamping comes before they are added (`:171`).
- `add-expected-failures` keeps the past date of an entry it adds to
  (`init_triage.go:209`), so a finding picked today may lapse at once.
  `AcknowledgingIsExact` allows for that.
- A finding of a package without a version is acknowledged under its name alone,
  which matches every version of it (`src/policy/matcher.go:128`).
  `AcknowledgingIsExact` counts those as picked too.
- A choice of "ignore" in `init` for one check is as specific as the default
  policy's rules by depth and category; the stricter one wins, so the choice may have no
  effect.
- An analysis under an override has the override's hash in its identifier
  (`input.go:54`), so acknowledgements that pin a version do not match it, and
  it is reported at the root of the repository.
- `init` and `add-expected-failures` read the policy first and write it after
  their prompts: a file saved in between is overwritten.
- `parseKeyIdentity` (`sbom_graph.go:273`) unescapes the version of a key, while keys
  hold versions as they are, and `input.go:57` escapes it: a version with "+" becomes
  another one, and an epoch (`1!2.0`) or a git, file or `workspace:` version gets an
  identifier that is not its key.  Its findings are placed at the root although
  their line is known (`pipeline.go:188`), and a source URL that `init` corrects under
  that identifier is not applied by later runs, which match overrides with the key.
- `package_install_scripts` passes over an archive without the manifest or with one that
  does not parse (`package_install_scripts/node.go:84-102`), and is compliant when no
  other archive declares a script; its text names every package as scanned.
  The cooldown check is compliant about a version the registry does not list.
- A manifest below a directory with a lockfile takes that lockfile
  (`src/ecosystem/lockfile/detect.go:59`), and what it declares itself is
  dropped (`sbom_graph.go:60`); the dependencies of npm workspaces that are
  hoisted are never direct.  `InScope` excludes such manifests from the properties.
- With `--continue-on-error`, a scan whose audit failed as a whole may say
  "Passing"; `PassMeansAccepted` excludes it (`job.partial`).
- A document without any edge from the root reads back as all its packages from
  SPDX, and from CycloneDX as those that nothing depends on; `FormatsAgree` excludes it.
- `classifyCloneError` (`src/git/errors.go:96`) compares with `==` an error that is
  always wrapped, so a timeout of git is reported as a git error, and a server
  that takes more than the ten seconds of `ls_remote.go` as a source that is not
  found; `git_resolve` means a timeout to fail the analysis (`node.go:151`).
- "Could not resolve host" counts as a domain that does not exist
  (`src/git/errors.go:107`), although a resolver that is down says the same.
  `UnavailableSourceIsReported` allows for both.
- A RubyGems package that does not exist fails the analysis, because the list of
  versions is fetched first and its 404 is an error (`src/language/ruby/ruby.go:39`);
  npm and PyPI report it as PACKAGE_REGISTRY_MISMATCH.
- An npm or PyPI package without a dated version fails the analysis
  (`src/language/python/extract.go:195`).  So the branch of the cooldown check for
  a version without a date is never taken by these registries.

A frame that is lost is repainted, as `print.go:61` says, but not harmless: the
block counts as painted, so the next frame moves up over lines it never drew and
overwrites the last printed ones.  `ScreenIsLogAndRows` is therefore stated of
runs that lose none.

## 7. What is not modelled

- Parsers of manifests, of gems, of Python setup files and of licences, what an
  answer of a registry says besides versions and dates (dependencies, URLs,
  publishers, scripts: facts of a package), the choice of a release tag, and the lockfiles of poetry, pipenv, pdm, yarn and pnpm: sequential
  functions of one document, which the repository covers with table tests;
  their results are facts of a world or of a tree.
- `score`, `audit`, `view`, login and the inspection of reports: they run or
  print what is modelled; flags that only change output; a commit given on the
  command line (`GetRemoteRefSHA`).
- The hash and the built-in table of overrides; the YAML of the policy; the
  vulnerability gate; the schema and rendering of SARIF.
- Environment, logging and string helpers: no state and no decision that the
  modelled parts depend on.
- Cryptography, tar and gzip, git and HTTP themselves: external.
- Two runs at the same time in one working tree, two commands at the same time on
  one policy file, and a policy file torn by a kill (`os.WriteFile` truncates it
  first): the code has no protection against them to model.

---------------------------- MODULE ExecutionDag ----------------------------
(***************************************************************************)
(* The execution engine of src/execution-dag.  DAG.Execute sorts the       *)
(* registered nodes into stages, runs every node of a stage in a goroutine *)
(* of its own, waits for all of them, and folds their outputs, in the      *)
(* order the goroutines sent them, into the context, the set of skipped    *)
(* keys, the override store and the shared input, before the next stage    *)
(* starts.                                                                 *)
(*                                                                         *)
(* What a node computes is abstracted to its status, the source URL and    *)
(* the packages it adds to the input, and how many packages it describes;  *)
(* the texts of reasons and errors are left out.                           *)
(***************************************************************************)
EXTENDS Integers, Sequences, FiniteSets

CONSTANTS
  Node,        \* the node types registered with AddNode
  NodeKey,     \* all type keys, also of nodes that are not registered
  Graphs,      \* the dependency functions a run may start with
  Inputs,      \* the inputs a run may start with
  AutoSkip,    \* nodes whose AllowAutoSkip() is true (the default)
  Fetch,       \* nodes of kind "fetch"
  Readable,    \* nodes that implement Read
  Overridable, \* nodes whose output implements OverridableV2
  Returns,     \* the outputs a node's Execute or Read may return
  Overrides,   \* the override store: a sequence of override requests
  URL,         \* source URLs
  NoURL,       \* a nil or empty source URL
  Package      \* packages

ASSUME NodeAssumption ==
  /\ IsFiniteSet(NodeKey)
  /\ Node \subseteq NodeKey
  /\ Graphs \subseteq [Node -> SUBSET NodeKey]
  /\ AutoSkip \subseteq Node /\ Fetch \subseteq Node
  /\ Readable \subseteq Node /\ Overridable \subseteq Node

MaybeURL == URL \union {NoURL}

Input == [url : MaybeURL, packages : SUBSET Package, noFetch : BOOLEAN]

Output == [status : {"none", "success", "skipped", "error"},
           url : MaybeURL, packages : SUBSET Package, subjects : Nat]

Override == [path : STRING, valid : BOOLEAN, url : URL,
             precedence : {"force", "fallback"}]

ASSUME DataAssumption ==
  /\ NoURL \notin URL
  /\ Inputs \subseteq Input
  /\ Overrides \in Seq(Override)
  /\ Returns \in [Node -> SUBSET {o \in Output : o.status \in {"success", "skipped"}}]

Blank(status) ==
  [status |-> status, url |-> NoURL, packages |-> {}, subjects |-> 0]

NoOutput == Blank("none")           \* nothing stored, nothing returned yet
\* What CreateSkippedOutput returns.  "skipped" is the engine's isSkipped flag:
\* that of a check has the status of a success, and a verdict of its own.
SkippedOutput == Blank("skipped")
ErrorResult == Blank("error")       \* a nil output and an error

VARIABLES
  deps,        \* GetDependencies() of every registered node
  phase,       \* where Execute is
  inDegree,    \* the sort: unmet dependencies of every node not yet placed
  stages,      \* the sort: the stages found so far
  stageNo,     \* the stage Execute works on
  worker,      \* the goroutine of every node
  result,      \* what a node's goroutine is about to send
  outputChan,  \* the nodes whose output was sent, in that order
  errChan,     \* the nodes whose error was sent, in that order
  ctx,         \* the node outputs stored in the context
  skippedKeys, \* the nodes recorded as skipped
  input,       \* the input passed to the nodes
  applied,     \* the overrides recorded as applied, as indices of Overrides
  warned,      \* the overrides WarnUnconsumed warned about
  span,        \* the observer's span of every node
  cancelled,   \* the caller's context is cancelled
  err          \* the kind of error Execute returns

sortVars == <<inDegree, stages>>
workVars == <<worker, result, span, outputChan, errChan>>
foldVars == <<ctx, skippedKeys, input, applied>>
vars == <<deps, phase, sortVars, stageNo, workVars, foldVars, warned, cancelled, err>>

-----------------------------------------------------------------------------
(* NewDAG, AddNode, and the entry of Execute. *)

Init ==
  /\ deps \in Graphs
  /\ phase = "sort"
  /\ inDegree = [n \in Node |-> Cardinality(deps[n])]
  /\ stages = <<>>
  /\ stageNo = 1
  /\ worker = [n \in Node |-> "idle"]
  /\ result = [n \in Node |-> NoOutput]
  /\ outputChan = <<>>
  /\ errChan = <<>>
  /\ ctx = [n \in Node |-> NoOutput]
  /\ skippedKeys = {}
  /\ input \in Inputs
  /\ applied = {}
  /\ warned = {}
  /\ span = [n \in Node |-> "none"]
  /\ cancelled = FALSE
  /\ err = "none"

Return(why) ==
  /\ phase' = IF why = "none" THEN "done" ELSE "failed"
  /\ err' = why

-----------------------------------------------------------------------------
(* topologicalSort.  One step per pass of its loop. *)

\* Mutant: the sort does not check that dependencies are registered.
DepsUnchecked == TRUE

DepsRegistered == \A n \in Node : deps[n] \subseteq Node

\* Mutant: a node is ready with one dependency left.
ReadyTooEarly == {n \in DOMAIN inDegree : inDegree[n] <= 1}

ReadyNodes == {n \in DOMAIN inDegree : inDegree[n] = 0}

SortMissingDependency ==
  /\ phase = "sort"
  /\ ~ DepsRegistered
  /\ Return("missing")
  /\ UNCHANGED <<deps, sortVars, stageNo, workVars, foldVars, warned, cancelled>>

SortStage ==
  /\ phase = "sort"
  /\ DepsRegistered
  /\ ReadyNodes # {}
  /\ stages' = Append(stages, ReadyNodes)
  /\ inDegree' = [n \in DOMAIN inDegree \ ReadyNodes |->
                    inDegree[n] - Cardinality(deps[n] \intersect ReadyNodes)]
  /\ UNCHANGED <<deps, phase, stageNo, workVars, foldVars, warned, cancelled, err>>

SortCycle ==
  /\ phase = "sort"
  /\ DepsRegistered
  /\ ReadyNodes = {}
  /\ DOMAIN inDegree # {}
  /\ Return("cycle")
  /\ UNCHANGED <<deps, sortVars, stageNo, workVars, foldVars, warned, cancelled>>

SortDone ==
  /\ phase = "sort"
  /\ DepsRegistered
  /\ DOMAIN inDegree = {}
  /\ phase' = "head"
  /\ UNCHANGED <<deps, sortVars, stageNo, workVars, foldVars, warned, cancelled, err>>

-----------------------------------------------------------------------------
(* The stage loop of Execute, up to wg.Wait(). *)

CurrentStage == stages[stageNo]

StageCancelled ==
  /\ phase = "head"
  /\ stageNo <= Len(stages)
  /\ cancelled
  /\ Return("cancelled")
  /\ UNCHANGED <<deps, sortVars, stageNo, workVars, foldVars, warned, cancelled>>

LaunchStage ==
  /\ phase = "head"
  /\ stageNo <= Len(stages)
  /\ ~ cancelled
  /\ phase' = "run"
  /\ worker' = [n \in Node |-> IF n \in CurrentStage THEN "started" ELSE worker[n]]
  /\ outputChan' = <<>>
  /\ errChan' = <<>>
  /\ UNCHANGED <<deps, sortVars, stageNo, result, span, foldVars, warned, cancelled, err>>

-----------------------------------------------------------------------------
(* executeNode, in the goroutine of node n. *)

\* Mutant: a node is skipped only when all its dependencies were.
AutoSkippedByAll(n) ==
  n \in AutoSkip /\ deps[n] # {} /\ deps[n] \subseteq skippedKeys

AutoSkipped(n) == n \in AutoSkip /\ deps[n] \intersect skippedKeys # {}

SkipNode(n) ==
  /\ worker[n] = "started"
  /\ AutoSkipped(n)
  /\ worker' = [worker EXCEPT ![n] = "returned"]
  /\ result' = [result EXCEPT ![n] = SkippedOutput]
  /\ UNCHANGED <<deps, phase, sortVars, stageNo, span, outputChan, errChan,
                 foldVars, warned, cancelled, err>>

BeginNode(n) ==
  /\ worker[n] = "started"
  /\ ~ AutoSkipped(n)
  /\ worker' = [worker EXCEPT ![n] = "running"]
  /\ span' = [span EXCEPT ![n] = "open"]
  /\ UNCHANGED <<deps, phase, sortVars, stageNo, result, outputChan, errChan,
                 foldVars, warned, cancelled, err>>

\* Execute, or Read for a fetch node under --no-fetch.
NodeResults(n) ==
  IF input.noFetch /\ n \in Fetch /\ n \notin Readable
  THEN {ErrorResult}
  ELSE Returns[n] \union {ErrorResult}

\* Mutant: the span of a failing node is not ended.
EndNodeLeaksSpan(n) ==
  /\ worker[n] = "running"
  /\ \E r \in NodeResults(n) :
       /\ result' = [result EXCEPT ![n] = r]
       /\ span' = IF r.status = "error" THEN span ELSE [span EXCEPT ![n] = r.status]
  /\ worker' = [worker EXCEPT ![n] = "returned"]
  /\ UNCHANGED <<deps, phase, sortVars, stageNo, outputChan, errChan,
                 foldVars, warned, cancelled, err>>

EndNode(n) ==
  /\ worker[n] = "running"
  /\ \E r \in NodeResults(n) :
       /\ result' = [result EXCEPT ![n] = r]
       /\ span' = [span EXCEPT ![n] = r.status]
  /\ worker' = [worker EXCEPT ![n] = "returned"]
  /\ UNCHANGED <<deps, phase, sortVars, stageNo, outputChan, errChan,
                 foldVars, warned, cancelled, err>>

\* Mutant: a channel with room for one value.
ChanCapacityOne == 1

\* Both channels are buffered: make(chan ..., len(stage)).
ChanCapacity == Cardinality(CurrentStage)

SendResult(n) ==
  /\ worker[n] = "returned"
  /\ IF result[n].status = "error"
     THEN /\ Len(errChan) < ChanCapacity
          /\ errChan' = Append(errChan, n)
          /\ UNCHANGED outputChan
     ELSE /\ Len(outputChan) < ChanCapacity
          /\ outputChan' = Append(outputChan, n)
          /\ UNCHANGED errChan
  /\ worker' = [worker EXCEPT ![n] = "done"]
  /\ UNCHANGED <<deps, phase, sortVars, stageNo, result, span,
                 foldVars, warned, cancelled, err>>

-----------------------------------------------------------------------------
(* Execute after wg.Wait(): the first error, or the fold. *)

\* Mutant: Execute goes on after the first value it receives.
StageReturnedEarly == outputChan # <<>> \/ errChan # <<>>

StageReturned == \A n \in CurrentStage : worker[n] = "done"

\* Mutant: what the other nodes of a failing stage returned is stored.
StageFailedKept ==
  /\ phase = "run"
  /\ StageReturned
  /\ errChan # <<>>
  /\ Return("node")
  /\ ctx' = [n \in Node |-> IF n \in CurrentStage /\ result[n].status = "success"
                           THEN result[n] ELSE ctx[n]]
  /\ UNCHANGED <<deps, sortVars, stageNo, workVars, skippedKeys, input, applied,
                 warned, cancelled>>

StageFailed ==
  /\ phase = "run"
  /\ StageReturned
  /\ errChan # <<>>
  /\ Return("node")
  /\ UNCHANGED <<deps, sortVars, stageNo, workVars, foldVars, warned, cancelled>>

StageSucceeded ==
  /\ phase = "run"
  /\ StageReturned
  /\ errChan = <<>>
  /\ phase' = "fold"
  /\ UNCHANGED <<deps, sortVars, stageNo, workVars, foldVars, warned, cancelled, err>>

\* The source_url overrides of Output.ApplyOverridesV2; other paths are ignored.
SourceURLOverrides == {i \in DOMAIN Overrides : Overrides[i].path = "source_url"}

OverrideFails(o) ==
  \E i \in SourceURLOverrides : ~ Overrides[i].valid \/ o.subjects # 1

\* Mutant: the precedence is not looked at.
OverrideAlwaysApplies(i, o) == TRUE

\* A fallback only fills a gap: no URL in the output, none set by an earlier override.
OverrideApplies(i, o) ==
  \/ Overrides[i].precedence = "force"
  \/ o.url = NoURL /\ \A j \in SourceURLOverrides : i <= j

AppliedTo(o) == {i \in SourceURLOverrides : OverrideApplies(i, o)}

\* The last override that applies decides the URL.  A set with one element.
WithOverrides(o) ==
  IF AppliedTo(o) = {} THEN {o}
  ELSE {[o EXCEPT !.url = Overrides[i].url] :
          i \in {k \in AppliedTo(o) : \A j \in AppliedTo(o) : j <= k}}

\* ApplyOverrides leaves an output that is not OverridableV2 as it is.
OutputsToStore(n) ==
  IF n \in Overridable THEN WithOverrides(result[n]) ELSE {result[n]}

\* Mutant: the packages of an output replace those of the input.
MergedOver(o) ==
  [input EXCEPT !.url = IF @ = NoURL THEN o.url ELSE @, !.packages = o.packages]

\* Input.Merge: the URL is set once, packages accumulate.
Merged(o) ==
  [input EXCEPT !.url = IF @ = NoURL THEN o.url ELSE @,
                !.packages = @ \union o.packages]

\* Mutant: a skipped output is not stored in the context.
FoldSkippedUnstored ==
  /\ phase = "fold"
  /\ outputChan # <<>>
  /\ LET n == Head(outputChan) IN
       /\ result[n].status = "skipped"
       /\ skippedKeys' = skippedKeys \union {n}
  /\ outputChan' = Tail(outputChan)
  /\ UNCHANGED <<deps, phase, sortVars, stageNo, worker, result, span, errChan,
                 ctx, input, applied, warned, cancelled, err>>

FoldSkipped ==
  /\ phase = "fold"
  /\ outputChan # <<>>
  /\ LET n == Head(outputChan) IN
       /\ result[n].status = "skipped"
       /\ ctx' = [ctx EXCEPT ![n] = result[n]]
       /\ skippedKeys' = skippedKeys \union {n}
  /\ outputChan' = Tail(outputChan)
  /\ UNCHANGED <<deps, phase, sortVars, stageNo, worker, result, span, errChan,
                 input, applied, warned, cancelled, err>>

FoldOverrideError ==
  /\ phase = "fold"
  /\ outputChan # <<>>
  /\ LET n == Head(outputChan) IN
       /\ result[n].status = "success"
       /\ n \in Overridable
       /\ OverrideFails(result[n])
  /\ Return("override")
  /\ outputChan' = Tail(outputChan)
  /\ UNCHANGED <<deps, sortVars, stageNo, worker, result, span, errChan,
                 foldVars, warned, cancelled>>

FoldOutput ==
  /\ phase = "fold"
  /\ outputChan # <<>>
  /\ LET n == Head(outputChan) IN
       /\ result[n].status = "success"
       /\ n \in Overridable => ~ OverrideFails(result[n])
       /\ \E o \in OutputsToStore(n) :
            /\ ctx' = [ctx EXCEPT ![n] = o]
            /\ input' = Merged(o)
       /\ applied' = IF n \in Overridable
                     THEN applied \union AppliedTo(result[n]) ELSE applied
  /\ outputChan' = Tail(outputChan)
  /\ UNCHANGED <<deps, phase, sortVars, stageNo, worker, result, span, errChan,
                 skippedKeys, warned, cancelled, err>>

StageFolded ==
  /\ phase = "fold"
  /\ outputChan = <<>>
  /\ phase' = "head"
  /\ stageNo' = stageNo + 1
  /\ UNCHANGED <<deps, sortVars, workVars, foldVars, warned, cancelled, err>>

\* Mutant: one applied override silences every warning.
UnconsumedIfNone ==
  {i \in DOMAIN Overrides : Overrides[i].precedence # "fallback" /\ applied = {}}

\* WarnUnconsumed compares paths, and never warns about a fallback.
Unconsumed ==
  {i \in DOMAIN Overrides :
     /\ Overrides[i].precedence # "fallback"
     /\ \A j \in applied : Overrides[j].path # Overrides[i].path}

AllStagesFolded ==
  /\ phase = "head"
  /\ stageNo > Len(stages)
  /\ warned' = Unconsumed
  /\ Return("none")
  /\ UNCHANGED <<deps, sortVars, stageNo, workVars, foldVars, cancelled>>

-----------------------------------------------------------------------------
(* The caller cancels the context (a signal, a deadline). *)

Returned == phase \in {"done", "failed"}

Cancel ==
  /\ ~ cancelled
  /\ ~ Returned
  /\ cancelled' = TRUE
  /\ UNCHANGED <<deps, phase, sortVars, stageNo, workVars, foldVars, warned, err>>

\* Execute has returned: the model stutters, so TLC still reports any other stop.
Stopped == Returned /\ UNCHANGED vars

Sort == SortMissingDependency \/ SortStage \/ SortCycle \/ SortDone

Work(n) == SkipNode(n) \/ BeginNode(n) \/ EndNode(n) \/ SendResult(n)

Fold == FoldSkipped \/ FoldOverrideError \/ FoldOutput \/ StageFolded

Main == \/ Sort
        \/ StageCancelled \/ LaunchStage \/ StageFailed \/ StageSucceeded
        \/ Fold
        \/ AllStagesFolded

Next == Main \/ (\E n \in Node : Work(n)) \/ Cancel \/ Stopped

Spec == Init /\ [][Next]_vars

\* The goroutines are scheduled fairly, and every Execute and Read returns.
FairSpec == Spec /\ WF_vars(Main) /\ \A n \in Node : WF_vars(Work(n))

-----------------------------------------------------------------------------
(* Properties. *)

Active == {"started", "running", "returned"}

Stored(n) == ctx[n].status # "none"

StagesBefore(k) == UNION {stages[i] : i \in 1 .. (k - 1)}

\* Every variable has its type.
TypeOK ==
  /\ deps \in Graphs
  /\ phase \in {"sort", "head", "run", "fold", "done", "failed"}
  /\ DOMAIN inDegree \subseteq Node
  /\ inDegree \in [DOMAIN inDegree -> Int]
  /\ stages \in Seq(SUBSET Node)
  /\ stageNo \in Nat \ {0}
  /\ worker \in [Node -> {"idle", "done"} \union Active]
  /\ result \in [Node -> Output]
  /\ outputChan \in Seq(Node)
  /\ errChan \in Seq(Node)
  /\ ctx \in [Node -> Output]
  /\ skippedKeys \subseteq Node
  /\ input \in Input
  /\ applied \subseteq DOMAIN Overrides
  /\ warned \subseteq DOMAIN Overrides
  /\ span \in [Node -> {"none", "open", "success", "skipped", "error"}]
  /\ cancelled \in BOOLEAN
  /\ err \in {"none", "missing", "cycle", "cancelled", "node", "override"}

\* A node's Execute finds the output of every dependency in its context:
\* GetOutput (context.go) never panics for a declared dependency.
OutputsAvailable ==
  \A n \in Node : worker[n] = "running" => \A d \in deps[n] : d \in Node /\ Stored(d)

\* A node that runs sees in its input what its successful dependencies
\* contributed: their packages, and a source URL if one of them had one.
\* MustHaveSourceURL (dag-impl/input.go) rests on it.
DependenciesReachInput ==
  \A n \in Node : worker[n] = "running" =>
    \A d \in deps[n] : ctx[d].status = "success" =>
      /\ ctx[d].packages \subseteq input.packages
      /\ ctx[d].url # NoURL => input.url # NoURL

\* Skips propagate: an auto-skippable node with a skipped dependency never
\* begins and is itself recorded as skipped; the skipped keys are the nodes
\* whose stored output is skipped, so propagation is transitive.
SkipsPropagate ==
  /\ skippedKeys = {n \in Node : ctx[n].status = "skipped"}
  /\ \A n \in AutoSkip :
       deps[n] \intersect skippedKeys # {} =>
         /\ span[n] = "none"
         /\ Stored(n) => n \in skippedKeys

\* No goroutine of a stage is active while the context, the skipped keys, the
\* shared input or the override store change: what siblings read is stable.
StageIsolation ==
  [][foldVars' # foldVars => \A n \in Node : worker[n] \notin Active]_vars

\* No request is lost without a trace: when Execute succeeds, every override
\* that is not a fallback was either recorded as applied or warned about, never
\* both, and an applied one comes from an output that was not skipped.
OverridesAccountedFor ==
  phase = "done" =>
    /\ \A i \in DOMAIN Overrides :
         Overrides[i].precedence = "force" => (i \in applied <=> i \notin warned)
    /\ applied # {} => \E n \in Overridable : ctx[n].status = "success"

\* A fallback override never replaces a source URL: what a node resolved is
\* stored, or what a forced correction says, whatever order they come in.
FallbackOnlyFillsGaps ==
  \A n \in Node :
    Stored(n) /\ result[n].url # NoURL =>
      ctx[n].url \in {result[n].url}
        \union {Overrides[i].url : i \in {j \in DOMAIN Overrides : Overrides[j].precedence = "force"}}

\* A span is open exactly while its node runs, so none is open when Execute
\* returns, on whichever path.
SpansClosed ==
  /\ \A n \in Node : span[n] = "open" <=> worker[n] = "running"
  /\ Returned => \A n \in Node : span[n] # "open"

\* Some nodes wait for each other.
Cyclic == \E S \in (SUBSET Node) \ {{}} : \A n \in S : deps[n] \intersect S # {}

\* The sort reports a cycle exactly when there is one.
CycleVerdict ==
  /\ err = "cycle" => Cyclic
  /\ phase \notin {"sort", "failed"} => ~ Cyclic

\* Execute returns: no send blocks, no wait is forever.
ExecuteReturns == <>Returned

\* The engine implements the contract.
Contract == INSTANCE DagContract WITH
  begun <- {n \in Node : span[n] # "none"},
  outcome <- [n \in Node |-> ctx[n].status],
  verdict <- IF Returned THEN phase ELSE "running"

ImplementsContract == Contract!CSpec
=============================================================================

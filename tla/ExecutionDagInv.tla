-------------------------- MODULE ExecutionDagInv --------------------------
(***************************************************************************)
(* The inductive invariant of ExecutionDag: what makes OutputsAvailable,   *)
(* SkipsPropagate, CycleVerdict, OverridesAccountedFor and the contract    *)
(* hold after every step, and what the context holds that Execute returns  *)
(* with an error.                                                          *)
(***************************************************************************)
EXTENDS ExecutionDag

Unplaced == DOMAIN inDegree

Placed == Node \ Unplaced

\* No stage has taken a node of a set whose members wait for each other.
Closed(S) == \A n \in S : deps[n] \intersect S # {}

\* The stages partition the placed nodes, every dependency lies in an earlier
\* stage, and inDegree counts the dependencies that are not placed.
SortInv ==
  /\ \/ phase = "sort" /\ stages = <<>>
     \/ err = "missing"
     \/ DepsRegistered
  /\ \A i \in DOMAIN stages : stages[i] \subseteq Placed
  /\ \A n \in Placed : \E i \in DOMAIN stages : n \in stages[i]
  /\ \A i, j \in DOMAIN stages : i # j => stages[i] \intersect stages[j] = {}
  /\ \A i \in DOMAIN stages : \A n \in stages[i] : \A d \in deps[n] :
       \E j \in DOMAIN stages : j < i /\ d \in stages[j]
  /\ \A n \in Unplaced : inDegree[n] = Cardinality(deps[n] \ Placed)
  /\ \A S \in SUBSET Node : Closed(S) => S \subseteq Unplaced
  /\ phase \in {"head", "run", "fold", "done"} => Unplaced = {}
  /\ err = "cycle" => Cyclic

\* Where the goroutines are, and which outputs are stored, by stage.
StageInv ==
  /\ err # "none" <=> phase = "failed"
  /\ stageNo <= Len(stages) + 1
  /\ phase = "sort" => stageNo = 1
  /\ phase \in {"run", "fold"} => stageNo \in DOMAIN stages
  /\ phase = "done" => stageNo = Len(stages) + 1
  /\ phase # "run" => \A n \in Node : worker[n] \notin Active
  /\ \A n \in Unplaced : worker[n] = "idle" /\ ~ Stored(n)
  /\ \A i \in DOMAIN stages : \A n \in stages[i] :
       /\ i < stageNo => worker[n] = "done" /\ Stored(n)
       /\ i > stageNo => worker[n] = "idle" /\ ~ Stored(n)
       /\ i = stageNo =>
            /\ phase \in {"sort", "head"} => worker[n] = "idle" /\ ~ Stored(n)
            /\ phase = "run" => worker[n] # "idle" /\ ~ Stored(n)
            /\ phase = "fold" => worker[n] = "done"

Sent(n) == \E k \in DOMAIN outputChan : outputChan[k] = n

\* The output channel holds every node of the stage that returned an output
\* and is not folded yet, once.
ChanInv ==
  /\ phase \in {"run", "fold"} =>
       \A k \in DOMAIN outputChan :
         /\ outputChan[k] \in CurrentStage
         /\ worker[outputChan[k]] = "done"
         /\ result[outputChan[k]].status \in {"success", "skipped"}
  /\ \A k, l \in DOMAIN outputChan : outputChan[k] = outputChan[l] => k = l
  /\ phase = "run" =>
       \A n \in CurrentStage : worker[n] = "done" => Sent(n) \/ errChan # <<>>
  /\ phase = "fold" => \A n \in CurrentStage : Stored(n) <=> ~ Sent(n)

\* How spans, results, stored outputs and skipped keys belong together.
SkipInv ==
  /\ \A n \in Node :
       /\ worker[n] \in {"idle", "started"} => span[n] = "none"
       /\ worker[n] = "running" <=> span[n] = "open"
       /\ worker[n] \in {"returned", "done"} =>
            \/ span[n] = result[n].status /\ span[n] # "none"
            \/ span[n] = "none" /\ result[n].status = "skipped" /\ AutoSkipped(n)
       /\ Stored(n) =>
            /\ ctx[n].status = result[n].status
            /\ result[n].status \in {"success", "skipped"}
            /\ worker[n] = "done"
  /\ skippedKeys = {n \in Node : ctx[n].status = "skipped"}
  /\ \A n \in AutoSkip : deps[n] \intersect skippedKeys # {} => span[n] = "none"

\* What a stored successful output contributed is in the input.
InputInv ==
  \A n \in Node : ctx[n].status = "success" =>
    /\ ctx[n].packages \subseteq input.packages
    /\ ctx[n].url # NoURL => input.url # NoURL

\* An output that took an override took every forced one: they differ in nothing
\* but the URL.  The warnings are made from what was applied by then.
OverrideInv ==
  /\ applied \subseteq SourceURLOverrides
  /\ applied # {} =>
       /\ {i \in SourceURLOverrides : Overrides[i].precedence = "force"} \subseteq applied
       /\ \E n \in Overridable : ctx[n].status = "success"
  /\ phase = "done" => warned = Unconsumed
  /\ FallbackOnlyFillsGaps

\* The context Execute returns with an error: beside the earlier stages (StageInv)
\* it holds nothing of the stage it stopped in when a node failed, and when an
\* override failed exactly what was folded before the output it was for.
FailureInv ==
  phase = "failed" /\ stageNo \in DOMAIN stages =>
    IF err = "override"
    THEN \E f \in CurrentStage \intersect Overridable :
           /\ result[f].status = "success" /\ OverrideFails(result[f])
           /\ \A n \in CurrentStage : Stored(n) <=> n # f /\ ~ Sent(n)
    ELSE \A n \in CurrentStage : ~ Stored(n)

\* The inductive invariant.
Inv == /\ TypeOK /\ SortInv /\ StageInv /\ ChanInv
       /\ SkipInv /\ InputInv /\ OverrideInv /\ FailureInv
=============================================================================

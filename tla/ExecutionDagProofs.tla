------------------------ MODULE ExecutionDagProofs ------------------------
(***************************************************************************)
(* Proofs about ExecutionDag, for every graph, override list and set of    *)
(* outputs: the inductive invariant, the properties it implies, and that   *)
(* the engine implements DagContract.                                      *)
(***************************************************************************)
EXTENDS ExecutionDagInv, FiniteSetTheorems, TLAPS

-----------------------------------------------------------------------------
(* Facts about the operators. *)

\* The blank outputs are outputs.
LEMMA BlankType ==
  /\ NoOutput \in Output /\ NoOutput.status = "none"
  /\ SkippedOutput \in Output /\ SkippedOutput.status = "skipped"
  /\ ErrorResult \in Output /\ ErrorResult.status = "error"
BY DEF NoOutput, SkippedOutput, ErrorResult, Blank, Output, MaybeURL

\* Appending to and taking from a sequence.
LEMMA AppendFacts ==
  ASSUME NEW S, NEW s \in Seq(S), NEW e \in S
  PROVE  /\ Append(s, e) \in Seq(S)
         /\ Len(Append(s, e)) = Len(s) + 1
         /\ DOMAIN Append(s, e) = DOMAIN s \union {Len(s) + 1}
         /\ \A i \in DOMAIN s : Append(s, e)[i] = s[i]
         /\ Append(s, e)[Len(s) + 1] = e
         /\ DOMAIN s = 1 .. Len(s)
OBVIOUS

\* Taking the head off a sequence.
LEMMA TailFacts ==
  ASSUME NEW S, NEW s \in Seq(S), s # <<>>
  PROVE  /\ Tail(s) \in Seq(S)
         /\ Head(s) = s[1] /\ Head(s) \in S
         /\ 1 \in DOMAIN s
         /\ DOMAIN Tail(s) = 1 .. (Len(s) - 1)
         /\ \A i \in DOMAIN Tail(s) : i + 1 \in DOMAIN s /\ Tail(s)[i] = s[i + 1]
         /\ \A i \in DOMAIN s \ {1} : i - 1 \in DOMAIN Tail(s) /\ Tail(s)[i - 1] = s[i]
OBVIOUS

\* The nodes and their dependencies are finite in number.
LEMMA FiniteDeps ==
  ASSUME TypeOK, NEW n \in Node
  PROVE  IsFiniteSet(deps[n]) /\ deps[n] \subseteq NodeKey
<1>1. deps[n] \subseteq NodeKey
  BY NodeAssumption DEF TypeOK
<1> QED
  BY <1>1, NodeAssumption, FS_Subset

\* What a node returns is an output.
LEMMA ResultType ==
  ASSUME NEW n \in Node, NEW r \in NodeResults(n)
  PROVE  r \in Output /\ r.status \in {"success", "skipped", "error"}
<1>1. CASE r = ErrorResult
  BY <1>1, BlankType
<1>2. CASE r \in Returns[n]
  BY <1>2, DataAssumption
<1> QED
  BY <1>1, <1>2 DEF NodeResults

\* An override changes only the URL of an output, and never clears it.
LEMMA OverriddenType ==
  ASSUME NEW o \in Output, NEW p \in WithOverrides(o)
  PROVE  /\ p \in Output /\ p.status = o.status /\ p.packages = o.packages
         /\ o.url # NoURL => p.url # NoURL
<1>1. CASE AppliedTo(o) = {}
  BY <1>1 DEF WithOverrides
<1>2. CASE AppliedTo(o) # {}
  <2>1. PICK i \in AppliedTo(o) : p = [o EXCEPT !.url = Overrides[i].url]
    BY <1>2 DEF WithOverrides
  <2>2. i \in DOMAIN Overrides
    BY <2>1 DEF AppliedTo, SourceURLOverrides
  <2>3. Overrides[i] \in Override
    BY <2>2, DataAssumption
  <2>4. Overrides[i].url \in URL /\ Overrides[i].url # NoURL
    BY <2>3, DataAssumption DEF Override
  <2> QED
    BY <2>1, <2>4 DEF Output, MaybeURL
<1> QED
  BY <1>1, <1>2

\* What the fold stores for a node is an output with the node's status.
LEMMA StoredType ==
  ASSUME TypeOK, NEW n \in Node, NEW o \in OutputsToStore(n)
  PROVE  /\ o \in Output /\ o.status = result[n].status
         /\ o.packages = result[n].packages
<1>1. result[n] \in Output
  BY DEF TypeOK
<1>2. CASE n \in Overridable
  BY <1>1, <1>2, OverriddenType DEF OutputsToStore
<1>3. CASE n \notin Overridable
  BY <1>1, <1>3 DEF OutputsToStore
<1> QED
  BY <1>2, <1>3

\* Merging keeps the input's type, never clears the URL and never drops a package.
LEMMA MergedType ==
  ASSUME TypeOK, NEW o \in Output
  PROVE  /\ Merged(o) \in Input
         /\ input.packages \subseteq Merged(o).packages
         /\ o.packages \subseteq Merged(o).packages
         /\ input.url # NoURL => Merged(o).url # NoURL
         /\ o.url # NoURL => Merged(o).url # NoURL
         /\ Merged(o).noFetch = input.noFetch
BY DEF TypeOK, Merged, Input, Output, MaybeURL

-----------------------------------------------------------------------------
(* Type correctness. *)

\* The initial state is well typed.
LEMMA TypeInit == Init => TypeOK
<1> SUFFICES ASSUME Init PROVE TypeOK
  OBVIOUS
<1>1. \A n \in Node : Cardinality(deps[n]) \in Nat
  <2> SUFFICES ASSUME NEW n \in Node PROVE Cardinality(deps[n]) \in Nat
    OBVIOUS
  <2>1. deps[n] \subseteq NodeKey
    BY NodeAssumption DEF Init
  <2> QED
    BY <2>1, NodeAssumption, FS_Subset, FS_CardinalityType
<1>2. inDegree \in [DOMAIN inDegree -> Int] /\ DOMAIN inDegree = Node
  BY <1>1 DEF Init
<1>3. NoOutput \in Output
  BY BlankType
<1>4. ctx \in [Node -> Output] /\ result \in [Node -> Output]
  BY <1>3 DEF Init
<1>5. input \in Input /\ deps \in Graphs
  BY DataAssumption DEF Init
<1>6. /\ stages \in Seq(SUBSET Node) /\ outputChan \in Seq(Node)
      /\ errChan \in Seq(Node) /\ stageNo \in Nat \ {0}
  BY DEF Init
<1> QED
  BY <1>2, <1>4, <1>5, <1>6 DEF Init, TypeOK, Active

\* Every step keeps the types.
LEMMA TypeNext == TypeOK /\ [Next]_vars => TypeOK'
<1> SUFFICES ASSUME TypeOK, [Next]_vars PROVE TypeOK'
  OBVIOUS
<1> USE DEF TypeOK
<1>1. CASE SortMissingDependency
  BY <1>1 DEF SortMissingDependency, Return, sortVars, workVars, foldVars
<1>2. CASE SortStage
  <2>1. ReadyNodes \subseteq Node
    BY DEF ReadyNodes
  <2>2. stages' \in Seq(SUBSET Node)
    BY <1>2, <2>1 DEF SortStage
  <2>3. ASSUME NEW n \in DOMAIN inDegree \ ReadyNodes
        PROVE  inDegree[n] - Cardinality(deps[n] \intersect ReadyNodes) \in Int
    <3>1. IsFiniteSet(deps[n] \intersect ReadyNodes)
      BY FiniteDeps, FS_Subset
    <3>2. Cardinality(deps[n] \intersect ReadyNodes) \in Nat
      BY <3>1, FS_CardinalityType
    <3> QED
      BY <3>2
  <2>4. inDegree' \in [DOMAIN inDegree' -> Int] /\ DOMAIN inDegree' \subseteq Node
    BY <1>2, <2>3 DEF SortStage
  <2> QED
    BY <1>2, <2>2, <2>4 DEF SortStage, sortVars, workVars, foldVars
<1>3. CASE SortCycle
  BY <1>3 DEF SortCycle, Return, sortVars, workVars, foldVars
<1>4. CASE SortDone
  BY <1>4 DEF SortDone, sortVars, workVars, foldVars
<1>5. CASE StageCancelled
  BY <1>5 DEF StageCancelled, Return, sortVars, workVars, foldVars
<1>6. CASE LaunchStage
  BY <1>6 DEF LaunchStage, sortVars, foldVars, Active
<1>7. CASE StageFailed
  BY <1>7 DEF StageFailed, Return, sortVars, workVars, foldVars
<1>8. CASE StageSucceeded
  BY <1>8 DEF StageSucceeded, sortVars, workVars, foldVars
<1>9. CASE FoldSkipped
  BY <1>9 DEF FoldSkipped, sortVars
<1>10. CASE FoldOverrideError
  BY <1>10 DEF FoldOverrideError, Return, sortVars, foldVars
<1>11. CASE FoldOutput
  <2>1. Head(outputChan) \in Node
    BY <1>11 DEF FoldOutput
  <2>2. PICK o \in OutputsToStore(Head(outputChan)) :
          ctx' = [ctx EXCEPT ![Head(outputChan)] = o] /\ input' = Merged(o)
    BY <1>11 DEF FoldOutput
  <2>3. ctx' \in [Node -> Output] /\ input' \in Input
    BY <2>1, <2>2, StoredType, MergedType
  <2>4. applied' \subseteq DOMAIN Overrides
    BY <1>11 DEF FoldOutput, AppliedTo, SourceURLOverrides
  <2> QED
    BY <1>11, <2>3, <2>4 DEF FoldOutput, sortVars
<1>12. CASE StageFolded
  BY <1>12 DEF StageFolded, sortVars, workVars, foldVars
<1>13. CASE AllStagesFolded
  BY <1>13 DEF AllStagesFolded, Return, Unconsumed, sortVars, workVars, foldVars
<1>14. ASSUME NEW n \in Node, SkipNode(n) PROVE TypeOK'
  BY <1>14, BlankType DEF SkipNode, sortVars, foldVars, Active
<1>15. ASSUME NEW n \in Node, BeginNode(n) PROVE TypeOK'
  BY <1>15 DEF BeginNode, sortVars, foldVars, Active
<1>16. ASSUME NEW n \in Node, EndNode(n) PROVE TypeOK'
  <2>1. PICK r \in NodeResults(n) : result' = [result EXCEPT ![n] = r]
                                    /\ span' = [span EXCEPT ![n] = r.status]
    BY <1>16 DEF EndNode
  <2>2. r \in Output /\ r.status \in {"success", "skipped", "error"}
    BY ResultType
  <2> QED
    BY <1>16, <2>1, <2>2 DEF EndNode, sortVars, foldVars, Active
<1>17. ASSUME NEW n \in Node, SendResult(n) PROVE TypeOK'
  <2>1. errChan' \in {errChan, Append(errChan, n)}
    BY <1>17 DEF SendResult
  <2>2. outputChan' \in {outputChan, Append(outputChan, n)}
    BY <1>17 DEF SendResult
  <2>3. errChan' \in Seq(Node) /\ outputChan' \in Seq(Node)
    <3>1. Append(errChan, n) \in Seq(Node) /\ Append(outputChan, n) \in Seq(Node)
      BY AppendFacts
    <3> QED
      BY <2>1, <2>2, <3>1
  <2>4. worker' \in [Node -> {"idle", "done"} \union Active]
    BY <1>17 DEF SendResult
  <2>5. UNCHANGED <<deps, phase, inDegree, stages, stageNo, result, span, ctx,
                    skippedKeys, input, applied, warned, cancelled, err>>
    BY <1>17 DEF SendResult, sortVars, foldVars
  <2> QED
    BY <2>3, <2>4, <2>5
<1>18. CASE Cancel
  BY <1>18 DEF Cancel, sortVars, workVars, foldVars
<1>19. CASE UNCHANGED vars
  BY <1>19 DEF vars, sortVars, workVars, foldVars
<1> QED
  BY <1>1, <1>2, <1>3, <1>4, <1>5, <1>6, <1>7, <1>8, <1>9, <1>10, <1>11, <1>12,
     <1>13, <1>14, <1>15, <1>16, <1>17, <1>18, <1>19
  DEF Next, Main, Sort, Fold, Work, Stopped

-----------------------------------------------------------------------------
(* The sort. *)

\* Only SortStage changes the stages and the counts.
LEMMA SortFrame ==
  ASSUME [Next]_vars, ~ SortStage
  PROVE  UNCHANGED <<deps, inDegree, stages>>
BY DEF Next, vars, sortVars, workVars, foldVars, Main, Sort, Fold, Work, Stopped,
       SortMissingDependency, SortCycle, SortDone, StageCancelled, LaunchStage,
       StageFailed, StageSucceeded, FoldSkipped, FoldOverrideError, FoldOutput,
       StageFolded, AllStagesFolded, SkipNode, BeginNode, EndNode, SendResult, Cancel

\* How phase and err change.
LEMMA PhaseFrame ==
  ASSUME [Next]_vars
  PROVE  \/ UNCHANGED <<phase, err>>
         \/ SortMissingDependency /\ phase' = "failed" /\ err' = "missing"
         \/ SortCycle /\ phase' = "failed" /\ err' = "cycle"
         \/ SortDone /\ phase = "sort" /\ phase' = "head" /\ err' = err
         \/ phase = "head" /\ phase' = "failed" /\ err' = "cancelled"
         \/ phase = "head" /\ phase' = "run" /\ err' = err
         \/ phase = "run" /\ phase' = "failed" /\ err' = "node"
         \/ phase = "run" /\ phase' = "fold" /\ err' = err
         \/ phase = "fold" /\ phase' = "failed" /\ err' = "override"
         \/ phase = "fold" /\ phase' = "head" /\ err' = err
         \/ phase = "head" /\ phase' = "done" /\ err' = "none"
BY DEF Next, vars, sortVars, workVars, foldVars, Main, Sort, Fold, Work, Stopped,
       SortStage, SortMissingDependency, SortCycle, SortDone, StageCancelled,
       LaunchStage, StageFailed, StageSucceeded, FoldSkipped, FoldOverrideError,
       FoldOutput, StageFolded, AllStagesFolded, SkipNode, BeginNode, EndNode,
       SendResult, Cancel, Return

\* The dependencies of a ready node are all placed.
LEMMA ReadyPlaced ==
  ASSUME TypeOK, SortInv, DepsRegistered, NEW n \in ReadyNodes
  PROVE  deps[n] \subseteq Placed
<1>1. n \in Unplaced /\ n \in Node /\ inDegree[n] = 0
  BY DEF ReadyNodes, Unplaced, TypeOK
<1>2. Cardinality(deps[n] \ Placed) = 0
  BY <1>1 DEF SortInv
<1>3. IsFiniteSet(deps[n] \ Placed)
  BY <1>1, FiniteDeps, FS_Subset
<1> QED
  BY <1>2, <1>3, FS_EmptySet

\* Placing the ready nodes keeps the stages a layering of the graph and the
\* counts right.
LEMMA SortStep ==
  ASSUME TypeOK, SortInv, SortStage, StageInv
  PROVE  SortInv'
<1>1. /\ ReadyNodes \subseteq Unplaced /\ Unplaced \subseteq Node
      /\ Unplaced' = Unplaced \ ReadyNodes
      /\ deps' = deps /\ phase' = phase /\ phase = "sort" /\ err' = err
      /\ DepsRegistered
  BY DEF SortStage, ReadyNodes, Unplaced, TypeOK
<1>2. Placed' = Placed \union ReadyNodes /\ Placed \intersect ReadyNodes = {}
  BY <1>1 DEF Placed
<1>3. /\ DOMAIN stages' = DOMAIN stages \union {Len(stages) + 1}
      /\ \A i \in DOMAIN stages : stages'[i] = stages[i]
      /\ stages'[Len(stages) + 1] = ReadyNodes
      /\ DOMAIN stages = 1 .. Len(stages) /\ Len(stages) \in Nat
  <2>1. stages' = Append(stages, ReadyNodes) /\ ReadyNodes \in SUBSET Node
    BY <1>1 DEF SortStage
  <2> QED
    BY <2>1, AppendFacts DEF TypeOK
<1>4. DepsRegistered'
  BY <1>1 DEF DepsRegistered
<1>5. \A i \in DOMAIN stages' : stages'[i] \subseteq Placed'
  BY <1>2, <1>3 DEF SortInv
<1>6. \A n \in Placed' : \E i \in DOMAIN stages' : n \in stages'[i]
  BY <1>2, <1>3 DEF SortInv
<1>7. \A i, j \in DOMAIN stages' : i # j => stages'[i] \intersect stages'[j] = {}
  BY <1>2, <1>3 DEF SortInv
<1>8. ASSUME NEW i \in DOMAIN stages', NEW n \in stages'[i], NEW d \in deps'[n]
      PROVE  \E j \in DOMAIN stages' : j < i /\ d \in stages'[j]
  <2>1. CASE i \in DOMAIN stages
    BY <1>1, <1>3, <1>8, <2>1 DEF SortInv
  <2>2. CASE i = Len(stages) + 1
    <3>1. d \in Placed
      BY <1>1, <1>3, <1>8, <2>2, ReadyPlaced
    <3>2. PICK j \in DOMAIN stages : d \in stages[j]
      BY <3>1 DEF SortInv
    <3> QED
      BY <1>3, <2>2, <3>2
  <2> QED
    BY <1>3, <2>1, <2>2
<1>9. ASSUME NEW n \in Unplaced'
      PROVE  inDegree'[n] = Cardinality(deps'[n] \ Placed')
  <2>1. n \in Unplaced /\ n \in Node /\ n \notin ReadyNodes
    BY <1>1, <1>9
  <2>2. inDegree'[n] = inDegree[n] - Cardinality(deps[n] \intersect ReadyNodes)
    BY <1>9, <2>1 DEF SortStage, Unplaced
  <2>3. inDegree[n] = Cardinality(deps[n] \ Placed)
    BY <2>1 DEF SortInv
  <2>4. IsFiniteSet(deps[n] \ Placed)
    BY <2>1, FiniteDeps, FS_Subset
  <2>5. /\ (deps[n] \ Placed) \intersect ReadyNodes = deps[n] \intersect ReadyNodes
        /\ deps'[n] \ Placed' = (deps[n] \ Placed) \ ReadyNodes
    BY <1>1, <1>2
  <2>6. /\ Cardinality((deps[n] \ Placed) \ ReadyNodes)
             = Cardinality(deps[n] \ Placed)
               - Cardinality((deps[n] \ Placed) \intersect ReadyNodes)
    <3>1. IsFiniteSet((deps[n] \ Placed) \intersect ReadyNodes)
      BY <2>4, FS_Subset
    <3> HIDE DEF Placed
    <3> QED
      BY <2>4, FS_Difference
  <2> QED
    BY <2>2, <2>3, <2>5, <2>6
<1>10. ASSUME NEW S \in SUBSET Node, Closed(S)'
       PROVE  S \subseteq Unplaced'
  <2>1. Closed(S)
    BY <1>1, <1>10 DEF Closed
  <2>2. S \subseteq Unplaced
    BY <2>1 DEF SortInv
  <2>3. ASSUME NEW n \in S, n \in ReadyNodes PROVE FALSE
    <3>1. deps[n] \intersect S # {}
      BY <2>1, <2>3 DEF Closed
    <3>2. deps[n] \subseteq Placed
      BY <1>1, <2>3, ReadyPlaced
    <3> QED
      BY <2>2, <3>1, <3>2 DEF Placed
  <2> QED
    BY <1>1, <2>2, <2>3
<1>11. err' # "cycle" \/ Cyclic'
  BY <1>1 DEF SortInv, Cyclic
<1> QED
  BY <1>1, <1>4, <1>5, <1>6, <1>7, <1>8, <1>9, <1>10, <1>11 DEF SortInv

\* When no unplaced node is ready, the unplaced nodes wait for each other.
LEMMA CycleFound ==
  ASSUME TypeOK, SortInv, SortCycle
  PROVE  Cyclic
<1>1. DepsRegistered /\ Unplaced # {} /\ Unplaced \subseteq Node /\ ReadyNodes = {}
  BY DEF SortCycle, Unplaced, TypeOK
<1>2. ASSUME NEW n \in Unplaced PROVE deps[n] \intersect Unplaced # {}
  <2>1. n \in Node /\ inDegree[n] # 0
    BY <1>1 DEF ReadyNodes, Unplaced
  <2>2. Cardinality(deps[n] \ Placed) # 0
    BY <2>1 DEF SortInv
  <2>3. deps[n] \ Placed # {}
    BY <2>2, FS_EmptySet
  <2> QED
    BY <1>1, <2>1, <2>3 DEF DepsRegistered, Placed
<1> QED
  BY <1>1, <1>2 DEF Cyclic

\* Before the first pass no node is placed.
LEMMA SortInit == Init => SortInv
<1> SUFFICES ASSUME Init PROVE SortInv
  OBVIOUS
<1>1. Unplaced = Node /\ Placed = {}
  BY DEF Init, Unplaced, Placed
<1>2. stages = <<>> /\ DOMAIN stages = {} /\ phase = "sort" /\ err = "none"
  BY DEF Init
<1>3. \A n \in Unplaced : inDegree[n] = Cardinality(deps[n] \ Placed)
  <2>1. \A n \in Node : deps[n] \ {} = deps[n]
    OBVIOUS
  <2> QED
    BY <1>1, <2>1 DEF Init
<1> QED
  BY <1>1, <1>2, <1>3 DEF SortInv

\* Every step preserves SortInv.
LEMMA SortNext ==
  ASSUME TypeOK, SortInv, StageInv, [Next]_vars
  PROVE  SortInv'
<1>1. CASE SortStage
  BY <1>1, SortStep
<1>2. CASE ~ SortStage
  <2>1. deps' = deps /\ inDegree' = inDegree /\ stages' = stages
    BY <1>2, SortFrame
  <2>2. /\ Placed' = Placed /\ Unplaced' = Unplaced
        /\ DepsRegistered' = DepsRegistered /\ Cyclic' = Cyclic
        /\ \A S \in SUBSET Node : Closed(S)' = Closed(S)
    BY <2>1 DEF Placed, Unplaced, DepsRegistered, Cyclic, Closed
  <2>3. err' = "cycle" => Cyclic
    BY PhaseFrame, CycleFound DEF SortInv
  <2>4. phase' \in {"head", "run", "fold", "done"} => Unplaced = {}
    BY PhaseFrame DEF SortInv, SortDone, Unplaced
  <2>5. \/ phase' = "sort" /\ stages = <<>>
        \/ err' = "missing"
        \/ DepsRegistered
    <3>1. SortMissingDependency => err' = "missing"
      BY DEF SortMissingDependency, Return
    <3> QED
      BY <3>1, PhaseFrame DEF SortInv, SortCycle, SortDone, StageInv
  <2> QED
    BY <2>1, <2>2, <2>3, <2>4, <2>5 DEF SortInv
<1> QED
  BY <1>1, <1>2

-----------------------------------------------------------------------------
(* The stages and the goroutines. *)

\* After the sort every node is in exactly one stage.
LEMMA NodeHasStage ==
  ASSUME SortInv, phase \in {"head", "run", "fold", "done"}, NEW n \in Node
  PROVE  \E i \in DOMAIN stages : n \in stages[i]
BY DEF SortInv, Placed

\* A node with an active goroutine belongs to the stage that runs.
LEMMA ActiveInStage ==
  ASSUME TypeOK, SortInv, StageInv, NEW n \in Node, worker[n] \in Active
  PROVE  phase = "run" /\ stageNo \in DOMAIN stages /\ n \in CurrentStage
<1>1. phase = "run" /\ stageNo \in DOMAIN stages
  BY DEF StageInv
<1>2. PICK i \in DOMAIN stages : n \in stages[i]
  BY <1>1, NodeHasStage
<1>3. i \in Int /\ stageNo \in Int
  BY DEF TypeOK
<1>4. i = stageNo
  BY <1>2, <1>3 DEF StageInv, Active
<1> QED
  BY <1>1, <1>2, <1>4 DEF CurrentStage

\* What a goroutine's step does to the state.
LEMMA WorkStep ==
  ASSUME TypeOK, SortInv, StageInv, NEW n \in Node, Work(n)
  PROVE  /\ phase = "run" /\ stageNo \in DOMAIN stages /\ n \in CurrentStage
         /\ worker[n] \in Active
         /\ worker' = [worker EXCEPT ![n] = worker'[n]]
         /\ worker'[n] \in {"running", "returned", "done"}
         /\ UNCHANGED <<deps, phase, inDegree, stages, stageNo, ctx, skippedKeys,
                        input, applied, err>>
<1>1. worker[n] \in Active
  BY DEF Work, SkipNode, BeginNode, EndNode, SendResult, Active
<1>2. worker' = [worker EXCEPT ![n] = worker'[n]]
      /\ worker'[n] \in {"running", "returned", "done"}
  BY DEF Work, SkipNode, BeginNode, EndNode, SendResult, TypeOK
<1>3. UNCHANGED <<deps, phase, inDegree, stages, stageNo, ctx, skippedKeys,
                  input, applied, err>>
  BY DEF Work, SkipNode, BeginNode, EndNode, SendResult, sortVars, foldVars
<1> QED
  BY <1>1, <1>2, <1>3, ActiveInStage

\* What a fold of one output does to the state.
LEMMA FoldStep ==
  ASSUME TypeOK, SortInv, StageInv, ChanInv, FoldSkipped \/ FoldOutput
  PROVE  \E n \in CurrentStage : \E o \in Output :
           /\ n = Head(outputChan) /\ n \in Node
           /\ o.status = result[n].status /\ o.status \in {"success", "skipped"}
           /\ ctx' = [ctx EXCEPT ![n] = o]
           /\ skippedKeys' = IF o.status = "skipped"
                             THEN skippedKeys \union {n} ELSE skippedKeys
           /\ input' = IF o.status = "skipped" THEN input ELSE Merged(o)
           /\ phase = "fold" /\ stageNo \in DOMAIN stages
           /\ outputChan # <<>> /\ outputChan' = Tail(outputChan)
           /\ UNCHANGED <<deps, phase, inDegree, stages, stageNo, worker, result,
                          span, err>>
<1> DEFINE n == Head(outputChan)
<1>1. /\ phase = "fold" /\ stageNo \in DOMAIN stages
      /\ outputChan # <<>> /\ outputChan' = Tail(outputChan)
      /\ UNCHANGED <<deps, phase, inDegree, stages, stageNo, worker, result,
                     span, err>>
  BY DEF FoldSkipped, FoldOutput, sortVars, StageInv
<1>2. n \in CurrentStage /\ n \in Node
  BY <1>1, TailFacts DEF ChanInv, TypeOK
<1>3. CASE FoldSkipped
  <2>1. result[n] \in Output
    BY <1>2 DEF TypeOK
  <2> QED
    BY <1>1, <1>2, <1>3, <2>1 DEF FoldSkipped
<1>4. CASE FoldOutput
  <2>1. PICK o \in OutputsToStore(n) :
          ctx' = [ctx EXCEPT ![n] = o] /\ input' = Merged(o)
    BY <1>4 DEF FoldOutput
  <2>2. o \in Output /\ o.status = result[n].status
    BY <1>2, <2>1, StoredType
  <2>3. result[n].status = "success" /\ skippedKeys' = skippedKeys
    BY <1>4 DEF FoldOutput
  <2> QED
    BY <1>1, <1>2, <2>1, <2>2, <2>3
<1> QED
  BY <1>3, <1>4

\* Before the first stage every goroutine is idle and nothing is stored.
LEMMA StageInitial == Init => StageInv
<1> SUFFICES ASSUME Init PROVE StageInv
  OBVIOUS
<1>1. stages = <<>> /\ DOMAIN stages = {} /\ Len(stages) = 0
  BY DEF Init
<1>2. NoOutput.status = "none"
  BY BlankType
<1>3. \A n \in Node : worker[n] = "idle" /\ ~ Stored(n)
  BY <1>2 DEF Init, Stored
<1> QED
  BY <1>1, <1>3 DEF Init, StageInv, Active, Unplaced

\* What Execute itself does between the sort and its return leaves the results,
\* the spans and the stored outputs alone.
LEMMA MainFrame ==
  ASSUME TypeOK,
         \/ SortMissingDependency \/ SortCycle \/ SortDone \/ StageCancelled
         \/ StageFailed \/ StageSucceeded \/ StageFolded \/ AllStagesFolded \/ Cancel
         \/ UNCHANGED vars
  PROVE  UNCHANGED <<deps, inDegree, stages, worker, result, span, outputChan,
                     errChan, ctx, skippedKeys, input>>
BY DEF SortMissingDependency, SortCycle, SortDone, StageCancelled, StageFailed,
       StageSucceeded, StageFolded, AllStagesFolded, Cancel, vars, sortVars,
       workVars, foldVars

\* A pass of the sort does not touch the goroutines.
LEMMA StageNextSort ==
  ASSUME TypeOK, SortInv, StageInv, SortStage
  PROVE  StageInv'
<1>1. /\ UNCHANGED <<phase, err, stageNo, worker, ctx>>
      /\ phase = "sort" /\ stageNo = 1
  BY DEF SortStage, StageInv, workVars, foldVars
<1>2. /\ DOMAIN stages' = DOMAIN stages \union {Len(stages) + 1}
      /\ \A i \in DOMAIN stages : stages'[i] = stages[i]
      /\ stages'[Len(stages) + 1] = ReadyNodes
      /\ DOMAIN stages = 1 .. Len(stages) /\ Len(stages) \in Nat
      /\ Len(stages') = Len(stages) + 1
  <2>1. stages' = Append(stages, ReadyNodes) /\ ReadyNodes \in SUBSET Node
    BY DEF SortStage, ReadyNodes, TypeOK
  <2> QED
    BY <2>1, AppendFacts DEF TypeOK
<1>3. Unplaced' \subseteq Unplaced /\ ReadyNodes \subseteq Unplaced
  BY DEF SortStage, Unplaced, ReadyNodes
<1>4. \A m \in Node : Stored(m)' = Stored(m)
  BY <1>1 DEF Stored
<1>5. \A m \in Unplaced : m \in Node
  BY DEF Unplaced, TypeOK
<1>6. ASSUME NEW i \in DOMAIN stages', NEW m \in stages'[i]
      PROVE  worker[m] = "idle" /\ ~ Stored(m) /\ m \in Node /\ i >= 1
  <2>1. CASE i \in DOMAIN stages
    BY <1>1, <1>2, <1>6, <2>1 DEF StageInv, SortInv, Placed
  <2>2. CASE i = Len(stages) + 1
    BY <1>2, <1>3, <1>5, <1>6, <2>2 DEF StageInv
  <2> QED
    BY <1>2, <2>1, <2>2
<1>7. \A i \in DOMAIN stages' : i \in Int
  BY <1>2
<1>8. \A m \in Unplaced' : worker'[m] = "idle" /\ ~ Stored(m)'
  BY <1>1, <1>3, <1>4, <1>5 DEF StageInv
<1> QED
  BY <1>1, <1>2, <1>4, <1>6, <1>7, <1>8 DEF StageInv

\* A goroutine of the running stage never becomes idle again.
LEMMA StageNextWork ==
  ASSUME TypeOK, SortInv, StageInv, NEW n \in Node, Work(n)
  PROVE  StageInv'
<1>1. /\ phase = "run" /\ stageNo \in DOMAIN stages /\ n \in stages[stageNo]
      /\ worker' = [worker EXCEPT ![n] = worker'[n]]
      /\ worker'[n] \in {"running", "returned", "done"}
      /\ UNCHANGED <<phase, inDegree, stages, stageNo, ctx, err>>
  BY WorkStep DEF CurrentStage
<1>2. \A m \in Node : Stored(m)' = Stored(m)
  BY <1>1 DEF Stored
<1>3. \A m \in Node \ {n} : worker'[m] = worker[m]
  BY <1>1 DEF TypeOK
<1>4. Unplaced' = {} /\ Unplaced = {}
  BY <1>1 DEF Unplaced, SortInv
<1>5. \A i \in DOMAIN stages : \A m \in stages[i] : m \in Node /\ (i # stageNo => m # n)
  BY <1>1 DEF SortInv, Placed
<1>6. DOMAIN stages \subseteq Int /\ stageNo \in Int
  BY DEF TypeOK
<1>7. \A i \in DOMAIN stages : \A m \in stages[i] :
        /\ i < stageNo => worker'[m] = "done" /\ Stored(m)
        /\ i > stageNo => worker'[m] = "idle" /\ ~ Stored(m)
        /\ i = stageNo => worker'[m] # "idle" /\ ~ Stored(m)
  BY <1>1, <1>3, <1>5, <1>6 DEF StageInv
<1> QED
  BY <1>1, <1>2, <1>4, <1>5, <1>7 DEF StageInv

\* Launching a stage starts exactly its own goroutines.
LEMMA StageNextLaunch ==
  ASSUME TypeOK, SortInv, StageInv, LaunchStage
  PROVE  StageInv'
<1>1. /\ phase = "head" /\ phase' = "run"
      /\ worker' = [n \in Node |-> IF n \in CurrentStage THEN "started" ELSE worker[n]]
      /\ UNCHANGED <<deps, inDegree, stages, stageNo, ctx, err>>
  BY DEF LaunchStage, sortVars, foldVars
<1>2. stageNo \in DOMAIN stages /\ DOMAIN stages \subseteq Int /\ stageNo \in Int
  BY DEF LaunchStage, TypeOK
<1>3. \A m \in Node : Stored(m)' = Stored(m)
  BY <1>1 DEF Stored
<1>4. Unplaced' = {} /\ Unplaced = {}
  BY <1>1 DEF Unplaced, SortInv
<1>5. \A i \in DOMAIN stages : \A m \in stages[i] :
        m \in Node /\ (m \in CurrentStage <=> i = stageNo)
  BY <1>2 DEF SortInv, Placed, CurrentStage
<1>6. \A i \in DOMAIN stages : \A m \in stages[i] :
        /\ i < stageNo => worker'[m] = "done" /\ Stored(m)
        /\ i > stageNo => worker'[m] = "idle" /\ ~ Stored(m)
        /\ i = stageNo => worker'[m] # "idle" /\ ~ Stored(m)
  BY <1>1, <1>2, <1>5 DEF StageInv
<1> QED
  BY <1>1, <1>2, <1>3, <1>4, <1>5, <1>6 DEF StageInv

\* Folding an output stores it for a node of the current stage only.
LEMMA StageNextFold ==
  ASSUME TypeOK, SortInv, StageInv, ChanInv, FoldSkipped \/ FoldOutput
  PROVE  StageInv'
<1>1. PICK n \in CurrentStage, o \in Output :
        /\ n \in Node /\ o.status \in {"success", "skipped"}
        /\ ctx' = [ctx EXCEPT ![n] = o]
        /\ phase = "fold" /\ stageNo \in DOMAIN stages
        /\ UNCHANGED <<deps, phase, inDegree, stages, stageNo, worker, result, span, err>>
  BY FoldStep
<1>2. \A m \in Node \ {n} : Stored(m)' = Stored(m)
  BY <1>1 DEF Stored, TypeOK
<1>3. Unplaced' = {} /\ Unplaced = {}
  BY <1>1 DEF Unplaced, SortInv
<1>4. \A i \in DOMAIN stages : \A m \in stages[i] : m \in Node /\ (i # stageNo => m # n)
  BY <1>1 DEF SortInv, Placed, CurrentStage
<1>5. DOMAIN stages \subseteq Int /\ stageNo \in Int
  BY DEF TypeOK
<1>6. \A i \in DOMAIN stages : \A m \in stages[i] :
        /\ i < stageNo => worker'[m] = "done" /\ Stored(m)'
        /\ i > stageNo => worker'[m] = "idle" /\ ~ Stored(m)'
        /\ i = stageNo => worker'[m] = "done"
  BY <1>1, <1>2, <1>4, <1>5 DEF StageInv
<1> QED
  BY <1>1, <1>3, <1>6 DEF StageInv

\* The other steps of Execute: a stage is left only when it is folded.
LEMMA StageNextMain ==
  ASSUME TypeOK, SortInv, StageInv, ChanInv,
         \/ SortMissingDependency \/ SortCycle \/ SortDone \/ StageCancelled
         \/ StageFailed \/ StageSucceeded \/ FoldOverrideError \/ StageFolded
         \/ AllStagesFolded \/ Cancel \/ UNCHANGED vars
  PROVE  StageInv'
<1>1. UNCHANGED <<deps, inDegree, stages, worker, ctx>>
  BY MainFrame DEF FoldOverrideError, sortVars, foldVars
<1>2. /\ Unplaced' = Unplaced
      /\ \A m \in Node : Stored(m)' = Stored(m)
      /\ Len(stages) \in Nat /\ DOMAIN stages = 1 .. Len(stages)
      /\ stageNo \in Int /\ Unplaced \subseteq Node
  BY <1>1 DEF Unplaced, Stored, TypeOK
<1>3. \A i \in DOMAIN stages : stages[i] \subseteq Node
  BY DEF TypeOK
<1>4. CASE SortMissingDependency \/ SortCycle \/ StageCancelled \/ FoldOverrideError
  <2>1. phase # "run" /\ phase' = "failed" /\ err' # "none" /\ stageNo' = stageNo
    BY <1>4 DEF SortMissingDependency, SortCycle, StageCancelled, FoldOverrideError, Return
  <2> QED
    BY <1>1, <1>2, <1>3, <2>1 DEF StageInv
<1>5. CASE SortDone
  <2>1. phase = "sort" /\ phase' = "head" /\ err' = err /\ stageNo' = stageNo
    BY <1>5 DEF SortDone
  <2> QED
    BY <1>1, <1>2, <1>3, <2>1 DEF StageInv
<1>6. CASE StageFailed \/ StageSucceeded
  <2>1. /\ phase = "run" /\ StageReturned /\ stageNo' = stageNo
        /\ (phase' = "fold" /\ err' = err) \/ (phase' = "failed" /\ err' = "node")
    BY <1>6 DEF StageFailed, StageSucceeded, Return
  <2>2. \A m \in Node : worker[m] \notin Active
    <3> SUFFICES ASSUME NEW m \in Node, worker[m] \in Active PROVE FALSE
      OBVIOUS
    <3>1. m \in CurrentStage
      BY ActiveInStage
    <3> QED
      BY <2>1, <3>1 DEF StageReturned, Active
  <2>3. \A m \in stages[stageNo] : worker[m] = "done"
    BY <2>1 DEF StageReturned, CurrentStage
  <2> QED
    BY <1>1, <1>2, <1>3, <2>1, <2>2, <2>3 DEF StageInv
<1>7. CASE StageFolded
  <2>1. /\ phase = "fold" /\ phase' = "head" /\ err' = err
        /\ outputChan = <<>> /\ stageNo' = stageNo + 1
    BY <1>7 DEF StageFolded
  <2>2. \A m \in stages[stageNo] : worker[m] = "done" /\ Stored(m)
    BY <2>1 DEF StageInv, ChanInv, CurrentStage, Sent
  <2>3. \A i \in DOMAIN stages : \A m \in stages[i] :
          /\ i < stageNo + 1 => worker[m] = "done" /\ Stored(m)
          /\ i > stageNo => worker[m] = "idle" /\ ~ Stored(m)
    BY <1>2, <2>1, <2>2 DEF StageInv
  <2> QED
    BY <1>1, <1>2, <1>3, <2>1, <2>3 DEF StageInv
<1>8. CASE AllStagesFolded
  <2>1. /\ phase = "head" /\ phase' = "done" /\ err' = "none"
        /\ stageNo > Len(stages) /\ stageNo' = stageNo
    BY <1>8 DEF AllStagesFolded, Return
  <2> QED
    BY <1>1, <1>2, <1>3, <2>1 DEF StageInv
<1>9. CASE Cancel \/ UNCHANGED vars
  <2>1. UNCHANGED <<phase, err, stageNo>>
    BY <1>9 DEF Cancel, vars
  <2> QED
    BY <1>1, <1>2, <1>3, <2>1 DEF StageInv
<1> QED
  BY <1>4, <1>5, <1>6, <1>7, <1>8, <1>9

\* Every step preserves StageInv.
LEMMA StageNext ==
  ASSUME TypeOK, SortInv, StageInv, ChanInv, [Next]_vars
  PROVE  StageInv'
<1>1. CASE \E n \in Node : Work(n)
  BY <1>1, StageNextWork
<1>2. CASE SortStage
  BY <1>2, StageNextSort
<1>3. CASE LaunchStage
  BY <1>3, StageNextLaunch
<1>4. CASE FoldSkipped \/ FoldOutput
  BY <1>4, StageNextFold
<1>5. CASE \/ SortMissingDependency \/ SortCycle \/ SortDone \/ StageCancelled
           \/ StageFailed \/ StageSucceeded \/ FoldOverrideError \/ StageFolded
           \/ AllStagesFolded \/ Cancel \/ UNCHANGED vars
  BY <1>5, StageNextMain
<1> QED
  BY <1>1, <1>2, <1>3, <1>4, <1>5 DEF Next, Main, Sort, Fold, Stopped

-----------------------------------------------------------------------------
(* The output channel. *)

\* The channels are empty when Execute is entered.
LEMMA ChanInitial == Init => ChanInv
<1> SUFFICES ASSUME Init PROVE ChanInv
  OBVIOUS
<1>1. outputChan = <<>> /\ DOMAIN outputChan = {} /\ phase = "sort"
  BY DEF Init
<1> QED
  BY <1>1 DEF ChanInv

\* A goroutine that has not sent yet leaves the channel as it is.
LEMMA ChanNextWork ==
  ASSUME TypeOK, SortInv, StageInv, ChanInv, SkipInv, NEW n \in Node,
         SkipNode(n) \/ BeginNode(n) \/ EndNode(n)
  PROVE  ChanInv'
<1>1. /\ phase = "run" /\ stageNo \in DOMAIN stages /\ n \in CurrentStage
      /\ worker[n] \in Active
      /\ UNCHANGED <<phase, stages, stageNo>>
  BY WorkStep DEF Work
<1>2. /\ worker' = [worker EXCEPT ![n] = worker'[n]]
      /\ worker'[n] \in {"running", "returned"}
      /\ result' = [result EXCEPT ![n] = result'[n]]
      /\ UNCHANGED <<outputChan, errChan>>
  BY DEF SkipNode, BeginNode, EndNode, TypeOK
<1>3. \A m \in Node \ {n} : worker'[m] = worker[m] /\ result'[m] = result[m]
  BY <1>2 DEF TypeOK
<1>4. \A k \in DOMAIN outputChan : outputChan[k] \in Node \ {n}
  BY <1>1 DEF ChanInv, TypeOK, Active
<1>5. CurrentStage \subseteq Node /\ CurrentStage' = CurrentStage
  BY <1>1 DEF CurrentStage, TypeOK
<1>6. \A m \in Node : Sent(m)' = Sent(m)
  BY <1>2 DEF Sent
<1>7. \A m \in CurrentStage : worker'[m] = "done" => Sent(m) \/ errChan # <<>>
  BY <1>1, <1>2, <1>3, <1>5 DEF ChanInv
<1> QED
  BY <1>1, <1>2, <1>3, <1>4, <1>5, <1>6, <1>7 DEF ChanInv

\* What a goroutine that returned has to send.
LEMMA ReturnedResult ==
  ASSUME TypeOK, SkipInv, NEW n \in Node, worker[n] \in {"returned", "done"}
  PROVE  result[n].status \in {"success", "skipped", "error"}
<1>1. result[n] \in Output
  BY DEF TypeOK
<1>2. result[n].status \in {"none", "success", "skipped", "error"}
  BY <1>1 DEF Output
<1> QED
  BY <1>2 DEF SkipInv

\* A send adds the node, which was not in the channel.
LEMMA ChanNextSend ==
  ASSUME TypeOK, SortInv, StageInv, ChanInv, SkipInv, NEW n \in Node, SendResult(n)
  PROVE  ChanInv'
<1>1. /\ phase = "run" /\ stageNo \in DOMAIN stages /\ n \in CurrentStage
      /\ UNCHANGED <<phase, stages, stageNo>>
  BY WorkStep DEF Work
<1>2. /\ worker[n] = "returned" /\ worker' = [worker EXCEPT ![n] = "done"]
      /\ result' = result
  BY DEF SendResult
<1>3. \A m \in Node \ {n} : worker'[m] = worker[m]
  BY <1>2 DEF TypeOK
<1>4. worker'[n] = "done"
  BY <1>2 DEF TypeOK
<1>5. \A k \in DOMAIN outputChan : outputChan[k] \in Node \ {n}
  BY <1>1, <1>2 DEF ChanInv, TypeOK
<1>6. CurrentStage \subseteq Node /\ CurrentStage' = CurrentStage
  BY <1>1 DEF CurrentStage, TypeOK
<1>7. CASE result[n].status = "error"
  <2>1. outputChan' = outputChan /\ errChan' = Append(errChan, n)
    BY <1>7 DEF SendResult
  <2>2. errChan' # <<>>
    <3>1. Len(errChan') = Len(errChan) + 1 /\ Len(errChan) \in Nat
      BY <2>1, AppendFacts DEF TypeOK
    <3> QED
      BY <3>1
  <2> QED
    BY <1>1, <1>2, <1>3, <1>5, <1>6, <2>1, <2>2 DEF ChanInv
<1>8. CASE result[n].status # "error"
  <2>1. outputChan' = Append(outputChan, n) /\ errChan' = errChan
    BY <1>8 DEF SendResult
  <2>2. /\ DOMAIN outputChan' = DOMAIN outputChan \union {Len(outputChan) + 1}
        /\ \A k \in DOMAIN outputChan : outputChan'[k] = outputChan[k]
        /\ outputChan'[Len(outputChan) + 1] = n
    BY <2>1, AppendFacts DEF TypeOK
  <2>3. result[n].status \in {"success", "skipped"}
    BY <1>2, <1>8, ReturnedResult
  <2>4. \A k \in DOMAIN outputChan' :
          /\ outputChan'[k] \in CurrentStage
          /\ worker'[outputChan'[k]] = "done"
          /\ result[outputChan'[k]].status \in {"success", "skipped"}
    <3> SUFFICES ASSUME NEW k \in DOMAIN outputChan'
                 PROVE  /\ outputChan'[k] \in CurrentStage
                        /\ worker'[outputChan'[k]] = "done"
                        /\ result[outputChan'[k]].status \in {"success", "skipped"}
      OBVIOUS
    <3>1. CASE k \in DOMAIN outputChan
      BY <1>1, <1>3, <1>5, <2>2, <3>1 DEF ChanInv
    <3>2. CASE k = Len(outputChan) + 1
      BY <1>1, <1>4, <2>2, <2>3, <3>2
    <3> QED
      BY <2>2, <3>1, <3>2
  <2>5. \A k, l \in DOMAIN outputChan' : outputChan'[k] = outputChan'[l] => k = l
    BY <1>5, <2>2 DEF ChanInv
  <2>6. \A m \in CurrentStage : worker'[m] = "done" => Sent(m)' \/ errChan' # <<>>
    <3> SUFFICES ASSUME NEW m \in CurrentStage, worker'[m] = "done"
                 PROVE  Sent(m)' \/ errChan' # <<>>
      OBVIOUS
    <3>1. CASE m = n
      BY <2>2, <3>1 DEF Sent
    <3>2. CASE m # n
      <4>1. worker[m] = "done"
        BY <1>3, <1>6, <3>2
      <4>2. Sent(m) \/ errChan # <<>>
        BY <1>1, <4>1 DEF ChanInv
      <4>3. Sent(m) => Sent(m)'
        BY <2>2 DEF Sent
      <4> QED
        BY <2>1, <4>2, <4>3
    <3> QED
      BY <3>1, <3>2
  <2> QED
    BY <1>1, <1>2, <1>6, <2>4, <2>5, <2>6 DEF ChanInv
<1> QED
  BY <1>7, <1>8

\* A fold takes the first node out of the channel and stores its output.
LEMMA ChanNextFold ==
  ASSUME TypeOK, SortInv, StageInv, ChanInv, FoldSkipped \/ FoldOutput
  PROVE  ChanInv'
<1>1. PICK n \in CurrentStage, o \in Output :
        /\ n = Head(outputChan) /\ n \in Node
        /\ o.status \in {"success", "skipped"}
        /\ ctx' = [ctx EXCEPT ![n] = o]
        /\ phase = "fold" /\ stageNo \in DOMAIN stages
        /\ outputChan # <<>> /\ outputChan' = Tail(outputChan)
        /\ UNCHANGED <<phase, stages, stageNo, worker, result>>
  BY FoldStep
<1>2. /\ outputChan' \in Seq(Node)
      /\ \A k \in DOMAIN outputChan' : k + 1 \in DOMAIN outputChan /\ outputChan'[k] = outputChan[k + 1]
      /\ \A k \in DOMAIN outputChan : k # 1 => k - 1 \in DOMAIN outputChan' /\ outputChan[k] = outputChan'[k - 1]
      /\ n = outputChan[1] /\ 1 \in DOMAIN outputChan
      /\ DOMAIN outputChan' \subseteq Nat /\ ~ (0 \in DOMAIN outputChan')
  BY <1>1, TailFacts DEF TypeOK
<1>3. ~ Sent(n)'
  BY <1>2 DEF ChanInv, Sent
<1>4. Stored(n)'
  BY <1>1 DEF Stored, TypeOK
<1>5. \A m \in Node \ {n} : Stored(m)' = Stored(m)
  BY <1>1 DEF Stored, TypeOK
<1>6. \A m \in Node \ {n} : Sent(m)' <=> Sent(m)
  BY <1>2 DEF Sent
<1>7. CurrentStage' = CurrentStage /\ CurrentStage \subseteq Node
  BY <1>1 DEF CurrentStage, TypeOK
<1>8. \A m \in CurrentStage : Stored(m)' <=> ~ Sent(m)'
  BY <1>1, <1>3, <1>4, <1>5, <1>6, <1>7 DEF ChanInv
<1>9. \A k, l \in DOMAIN outputChan' : outputChan'[k] = outputChan'[l] => k = l
  BY <1>2 DEF ChanInv
<1> QED
  BY <1>1, <1>2, <1>7, <1>8, <1>9 DEF ChanInv

\* The other steps of Execute.
LEMMA ChanNextMain ==
  ASSUME TypeOK, SortInv, StageInv, ChanInv,
         \/ SortStage \/ LaunchStage \/ SortMissingDependency \/ SortCycle
         \/ SortDone \/ StageCancelled \/ StageFailed \/ StageSucceeded
         \/ FoldOverrideError \/ StageFolded \/ AllStagesFolded \/ Cancel
         \/ UNCHANGED vars
  PROVE  ChanInv'
<1>1. CASE LaunchStage
  <2>1. /\ outputChan' = <<>> /\ DOMAIN outputChan' = {} /\ phase' = "run"
        /\ worker' = [n \in Node |-> IF n \in CurrentStage THEN "started" ELSE worker[n]]
        /\ stages' = stages /\ stageNo' = stageNo /\ stageNo \in DOMAIN stages
    BY <1>1 DEF LaunchStage, sortVars, TypeOK
  <2>2. CurrentStage' = CurrentStage /\ CurrentStage \subseteq Node
    BY <2>1 DEF CurrentStage, TypeOK
  <2> QED
    BY <2>1, <2>2 DEF ChanInv
<1>2. CASE StageSucceeded
  <2>1. /\ phase = "run" /\ phase' = "fold" /\ StageReturned /\ errChan = <<>>
        /\ UNCHANGED <<stages, stageNo, worker, result, outputChan, ctx>>
    BY <1>2 DEF StageSucceeded, sortVars, workVars, foldVars
  <2>2. stageNo \in DOMAIN stages
    BY <2>1 DEF StageInv
  <2>3. CurrentStage' = CurrentStage
    BY <2>1 DEF CurrentStage
  <2>4. \A m \in CurrentStage : Sent(m) /\ ~ Stored(m)
    BY <2>1, <2>2 DEF ChanInv, StageReturned, StageInv, CurrentStage
  <2>5. \A m \in CurrentStage : Sent(m)' /\ ~ Stored(m)'
    BY <2>1, <2>4 DEF Sent, Stored
  <2> QED
    BY <2>1, <2>3, <2>5 DEF ChanInv
<1>3. CASE FoldOverrideError
  <2>1. phase' = "failed" /\ outputChan # <<>> /\ outputChan' = Tail(outputChan)
    BY <1>3 DEF FoldOverrideError, Return
  <2>2. \A k \in DOMAIN outputChan' : k + 1 \in DOMAIN outputChan /\ outputChan'[k] = outputChan[k + 1] /\ k \in Nat
    BY <2>1, TailFacts DEF TypeOK
  <2> QED
    BY <2>1, <2>2 DEF ChanInv
<1>4. CASE \/ SortStage \/ SortMissingDependency \/ SortCycle \/ SortDone
           \/ StageCancelled \/ StageFailed \/ StageFolded \/ AllStagesFolded
  <2>1. outputChan' = outputChan /\ phase' \notin {"run", "fold"}
    BY <1>4 DEF SortStage, SortMissingDependency, SortCycle, SortDone, StageCancelled,
       StageFailed, StageFolded, AllStagesFolded, workVars, Return
  <2> QED
    BY <2>1 DEF ChanInv
<1>5. CASE Cancel \/ UNCHANGED vars
  <2>1. UNCHANGED <<phase, stages, stageNo, worker, result, outputChan, errChan, ctx>>
    BY <1>5 DEF Cancel, vars, sortVars, workVars, foldVars
  <2>2. CurrentStage' = CurrentStage /\ (\A m : Sent(m)' = Sent(m)) /\ (\A m : Stored(m)' = Stored(m))
    BY <2>1 DEF CurrentStage, Sent, Stored
  <2> QED
    BY <2>1, <2>2 DEF ChanInv
<1> QED
  BY <1>1, <1>2, <1>3, <1>4, <1>5

\* Every step preserves ChanInv.
LEMMA ChanNext ==
  ASSUME TypeOK, SortInv, StageInv, ChanInv, SkipInv, [Next]_vars
  PROVE  ChanInv'
<1>1. CASE \E n \in Node : SkipNode(n) \/ BeginNode(n) \/ EndNode(n)
  BY <1>1, ChanNextWork
<1>2. CASE \E n \in Node : SendResult(n)
  BY <1>2, ChanNextSend
<1>3. CASE FoldSkipped \/ FoldOutput
  BY <1>3, ChanNextFold
<1>4. CASE \/ SortStage \/ LaunchStage \/ SortMissingDependency \/ SortCycle
           \/ SortDone \/ StageCancelled \/ StageFailed \/ StageSucceeded
           \/ FoldOverrideError \/ StageFolded \/ AllStagesFolded \/ Cancel
           \/ UNCHANGED vars
  BY <1>4, ChanNextMain
<1> QED
  BY <1>1, <1>2, <1>3, <1>4 DEF Next, Main, Sort, Fold, Work, Stopped

-----------------------------------------------------------------------------
(* Skips. *)

\* Before anything runs nothing is skipped.
LEMMA SkipInitial == Init => SkipInv
<1> SUFFICES ASSUME Init PROVE SkipInv
  OBVIOUS
<1>1. NoOutput.status = "none"
  BY BlankType
<1> QED
  BY <1>1 DEF Init, SkipInv, Stored

\* A node begins only while none of its dependencies is skipped.
LEMMA SkipNextWork ==
  ASSUME TypeOK, SortInv, StageInv, SkipInv, NEW n \in Node, Work(n)
  PROVE  SkipInv'
<1>1. /\ worker[n] \in Active
      /\ UNCHANGED <<deps, ctx, skippedKeys, input>>
  BY WorkStep
<1>2. /\ \A m \in Node : Stored(m)' = Stored(m)
      /\ \A m \in Node : AutoSkipped(m)' = AutoSkipped(m)
      /\ ~ Stored(n)
  BY <1>1 DEF Stored, AutoSkipped, SkipInv, Active
<1>3. CASE SkipNode(n)
  BY <1>1, <1>2, <1>3, BlankType DEF SkipNode, SkipInv, TypeOK
<1>4. CASE BeginNode(n)
  <2>1. n \in AutoSkip => deps[n] \intersect skippedKeys = {}
    BY <1>4 DEF BeginNode, AutoSkipped
  <2> QED
    BY <1>1, <1>2, <1>4, <2>1 DEF BeginNode, SkipInv, TypeOK
<1>5. CASE EndNode(n)
  <2>1. PICK r \in NodeResults(n) :
          result' = [result EXCEPT ![n] = r] /\ span' = [span EXCEPT ![n] = r.status]
    BY <1>5 DEF EndNode
  <2>2. r.status \in {"success", "skipped", "error"}
    BY <2>1, ResultType
  <2>3. span[n] = "open" /\ worker' = [worker EXCEPT ![n] = "returned"]
    BY <1>5 DEF EndNode, SkipInv
  <2>4. n \in AutoSkip => deps[n] \intersect skippedKeys = {}
    BY <2>3 DEF SkipInv
  <2> QED
    BY <1>1, <1>2, <2>1, <2>2, <2>3, <2>4 DEF SkipInv, TypeOK
<1>6. CASE SendResult(n)
  BY <1>1, <1>2, <1>6 DEF SendResult, SkipInv, TypeOK
<1> QED
  BY <1>3, <1>4, <1>5, <1>6 DEF Work

\* A node whose dependency is being folded has not started.
LEMMA DependentIdle ==
  ASSUME TypeOK, SortInv, StageInv, phase = "fold", NEW n \in CurrentStage,
         NEW m \in Node, n \in deps[m]
  PROVE  worker[m] = "idle" /\ ~ Stored(m)
<1>1. PICK i \in DOMAIN stages : m \in stages[i]
  BY NodeHasStage
<1>2. PICK j \in DOMAIN stages : j < i /\ n \in stages[j]
  BY <1>1 DEF SortInv
<1>3. stageNo \in DOMAIN stages /\ DOMAIN stages \subseteq Int
  BY DEF StageInv, TypeOK
<1>4. j = stageNo
  BY <1>2, <1>3 DEF SortInv, CurrentStage
<1> QED
  BY <1>1, <1>2, <1>3, <1>4 DEF StageInv

\* A fold records a skip before any dependent node has started.
LEMMA SkipNextFold ==
  ASSUME TypeOK, SortInv, StageInv, ChanInv, SkipInv, FoldSkipped \/ FoldOutput
  PROVE  SkipInv'
<1>1. PICK n \in CurrentStage, o \in Output :
        /\ n \in Node
        /\ o.status = result[n].status /\ o.status \in {"success", "skipped"}
        /\ ctx' = [ctx EXCEPT ![n] = o]
        /\ skippedKeys' = IF o.status = "skipped"
                          THEN skippedKeys \union {n} ELSE skippedKeys
        /\ phase = "fold" /\ stageNo \in DOMAIN stages
        /\ outputChan # <<>> /\ n = Head(outputChan)
        /\ UNCHANGED <<deps, worker, result, span>>
  BY FoldStep
<1>2. ~ Stored(n)
  <2>1. n = outputChan[1] /\ 1 \in DOMAIN outputChan
    BY <1>1, TailFacts DEF TypeOK
  <2> QED
    BY <1>1, <2>1 DEF ChanInv, Sent
<1>3. worker[n] = "done"
  BY <1>1 DEF StageInv, CurrentStage
<1>4. /\ \A m \in Node \ {n} : ctx'[m] = ctx[m]
      /\ ctx'[n] = o
  BY <1>1 DEF TypeOK
<1>5. skippedKeys' = {m \in Node : ctx'[m].status = "skipped"}
  <2>1. n \notin skippedKeys
    BY <1>2 DEF SkipInv, Stored
  <2> QED
    BY <1>1, <1>2, <1>4, <2>1 DEF SkipInv
<1>6. \A m \in Node : AutoSkipped(m) => AutoSkipped(m)'
  BY <1>1 DEF AutoSkipped
<1>7. \A m \in AutoSkip : deps[m] \intersect skippedKeys' # {} => span[m] = "none"
  <2> SUFFICES ASSUME NEW m \in AutoSkip, deps[m] \intersect skippedKeys' # {}
               PROVE  span[m] = "none"
    OBVIOUS
  <2>1. m \in Node
    BY NodeAssumption
  <2>2. CASE n \in deps[m]
    BY <1>1, <2>1, <2>2, DependentIdle DEF SkipInv
  <2>3. CASE n \notin deps[m]
    BY <1>1, <2>3 DEF SkipInv
  <2> QED
    BY <2>2, <2>3
<1>8. ASSUME NEW m \in Node
      PROVE  /\ worker[m] \in {"idle", "started"} => span[m] = "none"
             /\ worker[m] = "running" <=> span[m] = "open"
             /\ worker[m] \in {"returned", "done"} =>
                  \/ span[m] = result[m].status /\ span[m] # "none"
                  \/ span[m] = "none" /\ result[m].status = "skipped" /\ AutoSkipped(m)'
             /\ Stored(m)' =>
                  /\ ctx'[m].status = result[m].status
                  /\ result[m].status \in {"success", "skipped"}
                  /\ worker[m] = "done"
  <2>1. CASE m = n
    BY <1>1, <1>3, <1>4, <1>6, <2>1 DEF SkipInv
  <2>2. CASE m # n
    BY <1>1, <1>4, <1>6, <2>2 DEF SkipInv, Stored
  <2> QED
    BY <2>1, <2>2
<1> QED
  BY <1>1, <1>5, <1>7, <1>8 DEF SkipInv

\* Every step preserves SkipInv.
LEMMA SkipNext ==
  ASSUME TypeOK, SortInv, StageInv, ChanInv, SkipInv, [Next]_vars
  PROVE  SkipInv'
<1>1. CASE \E n \in Node : Work(n)
  BY <1>1, SkipNextWork
<1>2. CASE FoldSkipped \/ FoldOutput
  BY <1>2, SkipNextFold
<1>3. CASE LaunchStage
  <2>1. /\ worker' = [n \in Node |-> IF n \in CurrentStage THEN "started" ELSE worker[n]]
        /\ phase = "head" /\ stageNo \in DOMAIN stages
        /\ UNCHANGED <<deps, result, span, ctx, skippedKeys>>
    BY <1>3 DEF LaunchStage, foldVars, TypeOK
  <2>2. \A m \in CurrentStage : m \in Node /\ worker[m] = "idle" /\ ~ Stored(m)
    BY <2>1 DEF StageInv, CurrentStage, TypeOK
  <2>3. \A m \in Node : Stored(m)' = Stored(m) /\ AutoSkipped(m)' = AutoSkipped(m)
    BY <2>1 DEF Stored, AutoSkipped
  <2>4. \A m \in Node : \/ worker'[m] = "started" /\ worker[m] = "idle" /\ ~ Stored(m)
                        \/ worker'[m] = worker[m]
    BY <2>1, <2>2
  <2> QED
    BY <2>1, <2>3, <2>4 DEF SkipInv
<1>4. CASE \/ SortStage \/ SortMissingDependency \/ SortCycle \/ SortDone
           \/ StageCancelled \/ StageFailed \/ StageSucceeded \/ FoldOverrideError
           \/ StageFolded \/ AllStagesFolded \/ Cancel \/ UNCHANGED vars
  <2>1. UNCHANGED <<deps, worker, result, span, ctx, skippedKeys>>
    BY <1>4 DEF SortStage, SortMissingDependency, SortCycle, SortDone, StageCancelled,
       StageFailed, StageSucceeded, FoldOverrideError, StageFolded, AllStagesFolded,
       Cancel, vars, workVars, foldVars
  <2>2. \A m \in Node : Stored(m)' = Stored(m) /\ AutoSkipped(m)' = AutoSkipped(m)
    BY <2>1 DEF Stored, AutoSkipped
  <2> QED
    BY <2>1, <2>2 DEF SkipInv
<1> QED
  BY <1>1, <1>2, <1>3, <1>4 DEF Next, Main, Sort, Fold, Stopped

-----------------------------------------------------------------------------
(* The shared input. *)

\* Nothing has been stored when Execute is entered.
LEMMA InputInitial == Init => InputInv
BY BlankType DEF Init, InputInv

\* The input changes by Merged only, which keeps what it has and adds the
\* packages and the URL of the stored output.
LEMMA InputNext ==
  ASSUME TypeOK, SortInv, StageInv, ChanInv, InputInv, [Next]_vars
  PROVE  InputInv'
<1>1. CASE FoldSkipped \/ FoldOutput
  <2>1. PICK n \in CurrentStage, o \in Output :
          /\ n \in Node
          /\ ctx' = [ctx EXCEPT ![n] = o]
          /\ input' = IF o.status = "skipped" THEN input ELSE Merged(o)
          /\ o.status \in {"success", "skipped"}
    BY <1>1, FoldStep
  <2>2. \A m \in Node \ {n} : ctx'[m] = ctx[m]
    BY <2>1 DEF TypeOK
  <2>3. ctx'[n] = o
    BY <2>1 DEF TypeOK
  <2>4. CASE o.status = "skipped"
    BY <2>1, <2>2, <2>3, <2>4 DEF InputInv
  <2>5. CASE o.status # "skipped"
    <3>1. /\ input.packages \subseteq input'.packages
          /\ o.packages \subseteq input'.packages
          /\ input.url # NoURL => input'.url # NoURL
          /\ o.url # NoURL => input'.url # NoURL
      BY <2>1, <2>5 DEF Merged, TypeOK, Input
    <3> QED
      BY <2>2, <2>3, <3>1 DEF InputInv
  <2> QED
    BY <2>4, <2>5
<1>2. CASE UNCHANGED <<ctx, input>>
  BY <1>2 DEF InputInv
<1> QED
  BY <1>1, <1>2 DEF Next, Main, Sort, Fold, Work, Stopped, SortStage,
       SortMissingDependency, SortCycle, SortDone, StageCancelled, LaunchStage,
       StageFailed, StageSucceeded, FoldOverrideError, StageFolded,
       AllStagesFolded, SkipNode, BeginNode, EndNode, SendResult, Cancel, vars, foldVars

-----------------------------------------------------------------------------
(* The overrides. *)

\* No override has been looked at when Execute is entered.
LEMMA OverrideInitial == Init => OverrideInv
BY BlankType DEF Init, OverrideInv, FallbackOnlyFillsGaps, Stored

\* What an output becomes by its overrides: a URL it had is kept, or gives way to
\* a forced one.
LEMMA OverriddenURL ==
  ASSUME NEW o \in Output, NEW p \in WithOverrides(o), o.url # NoURL
  PROVE  p.url \in {o.url} \union {Overrides[i].url :
           i \in {j \in DOMAIN Overrides : Overrides[j].precedence = "force"}}
<1>1. CASE AppliedTo(o) = {}
  BY <1>1 DEF WithOverrides
<1>2. CASE AppliedTo(o) # {}
  <2>1. PICK i \in AppliedTo(o) : p = [o EXCEPT !.url = Overrides[i].url]
    BY <1>2 DEF WithOverrides
  <2>2. p.url = Overrides[i].url
    BY <2>1 DEF Output
  <2>3. i \in DOMAIN Overrides /\ Overrides[i].precedence = "force"
    BY <2>1 DEF AppliedTo, SourceURLOverrides, OverrideApplies
  <2> QED
    BY <2>2, <2>3
<1> QED
  BY <1>1, <1>2

\* A stored output leaves every forced source URL applied.
LEMMA OverrideNextFold ==
  ASSUME TypeOK, OverrideInv, phase # "done", FoldOutput
  PROVE  OverrideInv'
<1> DEFINE n == Head(outputChan)
<1>1. /\ n \in Node /\ result[n] \in Output /\ result[n].status = "success"
      /\ phase' # "done" /\ result' = result
  BY TailFacts DEF TypeOK, FoldOutput
<1>2. PICK o \in OutputsToStore(n) : ctx' = [ctx EXCEPT ![n] = o]
  BY DEF FoldOutput
<1>3. ctx'[n] = o /\ o.status = "success" /\ \A m \in Node \ {n} : ctx'[m] = ctx[m]
  BY <1>1, <1>2, StoredType DEF TypeOK
<1>4. applied' = IF n \in Overridable THEN applied \union AppliedTo(result[n]) ELSE applied
  BY DEF FoldOutput
<1>5. /\ AppliedTo(result[n]) \subseteq SourceURLOverrides
      /\ {i \in SourceURLOverrides : Overrides[i].precedence = "force"}
           \subseteq AppliedTo(result[n])
  BY DEF AppliedTo, OverrideApplies
<1>6. applied' # {} => \E m \in Overridable : ctx'[m].status = "success"
  <2>1. CASE n \in Overridable
    BY <1>3, <2>1
  <2>2. CASE n \notin Overridable
    BY <1>3, <1>4, <2>2, NodeAssumption DEF OverrideInv
  <2> QED
    BY <2>1, <2>2
<1>7. FallbackOnlyFillsGaps'
  <2> SUFFICES ASSUME NEW m \in Node, Stored(m)', result[m].url # NoURL
               PROVE  ctx'[m].url \in {result[m].url} \union {Overrides[i].url :
                        i \in {j \in DOMAIN Overrides : Overrides[j].precedence = "force"}}
    BY <1>1 DEF FallbackOnlyFillsGaps
  <2>1. CASE m = n
    BY <1>1, <1>2, <1>3, <2>1, OverriddenURL DEF OutputsToStore
  <2>2. CASE m # n
    BY <1>3, <2>2 DEF OverrideInv, FallbackOnlyFillsGaps, Stored
  <2> QED
    BY <2>1, <2>2
<1> QED
  BY <1>1, <1>4, <1>5, <1>6, <1>7 DEF OverrideInv

\* Outputs are stored as they are when they were skipped, and what is stored, or
\* was returned for it, is not changed by any other step.
LEMMA OverrideNext ==
  ASSUME TypeOK, SkipInv, OverrideInv, [Next]_vars
  PROVE  OverrideInv'
<1>1. CASE FoldOutput
  BY <1>1, OverrideNextFold DEF FoldOutput
<1>2. CASE FoldSkipped
  <2> DEFINE n == Head(outputChan)
  <2>1. n \in Node /\ result' = result /\ phase' # "done" /\ applied' = applied
    BY <1>2, TailFacts DEF TypeOK, FoldSkipped
  <2>2. /\ ctx'[n] = result[n] /\ result[n].status = "skipped"
        /\ \A m \in Node \ {n} : ctx'[m] = ctx[m]
    BY <1>2, <2>1 DEF TypeOK, FoldSkipped
  <2>3. FallbackOnlyFillsGaps'
    BY <2>1, <2>2 DEF OverrideInv, FallbackOnlyFillsGaps, Stored
  <2>4. \A m \in Overridable : ctx[m].status = "success" => ctx'[m].status = "success"
    <3>1. ~ Stored(n) \/ ctx[n].status = "skipped"
      BY <2>1, <2>2 DEF SkipInv
    <3> QED
      BY <2>2, <3>1, NodeAssumption DEF Stored
  <2> QED
    BY <2>1, <2>3, <2>4 DEF OverrideInv
<1>3. ASSUME NEW n \in Node, Work(n)
      PROVE  OverrideInv'
  <2>1. UNCHANGED <<ctx, applied, warned, phase>>
    BY <1>3 DEF Work, SkipNode, BeginNode, EndNode, SendResult, foldVars
  <2>2. \A m \in Node : Stored(m) => result'[m] = result[m]
    BY <1>3 DEF Work, SkipNode, BeginNode, EndNode, SendResult, SkipInv, TypeOK
  <2>3. FallbackOnlyFillsGaps'
    BY <2>1, <2>2 DEF OverrideInv, FallbackOnlyFillsGaps, Stored
  <2> QED
    BY <2>1, <2>3 DEF OverrideInv, Unconsumed
<1>4. CASE UNCHANGED <<ctx, result, applied>>
           /\ (phase' = "done" => warned' = Unconsumed)
  <2>1. Unconsumed' = Unconsumed
    BY <1>4 DEF Unconsumed
  <2>2. FallbackOnlyFillsGaps'
    BY <1>4 DEF OverrideInv, FallbackOnlyFillsGaps, Stored
  <2> QED
    BY <1>4, <2>1, <2>2 DEF OverrideInv
<1> QED
  BY <1>1, <1>2, <1>3, <1>4 DEF Next, Main, Sort, Fold, Stopped, SortStage,
       SortMissingDependency, SortCycle, SortDone, StageCancelled, LaunchStage,
       StageFailed, StageSucceeded, FoldOverrideError, StageFolded, AllStagesFolded,
       Cancel, Return, vars, foldVars, workVars, OverrideInv

-----------------------------------------------------------------------------
(* The context that is returned with an error. *)

\* Before anything runs no stage has failed.
LEMMA FailureInitial == Init => FailureInv
BY DEF Init, FailureInv

\* The output whose override fails has left the channel and is not stored.
LEMMA FailureNextOverride ==
  ASSUME TypeOK, StageInv, ChanInv, FoldOverrideError
  PROVE  FailureInv'
<1>0. PICK f : f = Head(outputChan)
  OBVIOUS
<1>1. /\ phase = "fold" /\ stageNo \in DOMAIN stages /\ err' = "override"
      /\ outputChan # <<>> /\ outputChan' = Tail(outputChan)
      /\ result[f].status = "success" /\ f \in Overridable /\ OverrideFails(result[f])
      /\ UNCHANGED <<stages, stageNo, result, ctx>>
  BY <1>0 DEF FoldOverrideError, Return, StageInv, sortVars, foldVars
<1>2. /\ f = outputChan[1] /\ 1 \in DOMAIN outputChan
      /\ \A k \in DOMAIN outputChan' :
           k + 1 \in DOMAIN outputChan /\ outputChan'[k] = outputChan[k + 1]
      /\ \A k \in DOMAIN outputChan :
           k # 1 => k - 1 \in DOMAIN outputChan' /\ outputChan[k] = outputChan'[k - 1]
      /\ DOMAIN outputChan' \subseteq Nat /\ 0 \notin DOMAIN outputChan'
  BY <1>0, <1>1, TailFacts DEF TypeOK
<1>3. f \in CurrentStage /\ Sent(f)
  BY <1>1, <1>2 DEF ChanInv, Sent
<1>4. ~ Sent(f)'
  BY <1>2 DEF ChanInv, Sent
<1>5. ASSUME NEW n \in CurrentStage
      PROVE  Stored(n)' <=> n # f /\ ~ Sent(n)'
  <2>1. Stored(n)' = Stored(n) /\ (Stored(n) <=> ~ Sent(n))
    BY <1>1 DEF Stored, ChanInv
  <2>2. n # f => (Sent(n)' <=> Sent(n))
    BY <1>2 DEF Sent
  <2> QED
    BY <1>3, <2>1, <2>2
<1>6. CurrentStage' = CurrentStage /\ OverrideFails(result[f])' = OverrideFails(result[f])
  BY <1>1 DEF CurrentStage, OverrideFails
<1> QED
  BY <1>1, <1>3, <1>5, <1>6 DEF FailureInv

\* Execute gives up before the fold, where nothing of the stage is stored.
LEMMA FailureNextStop ==
  ASSUME TypeOK, StageInv,
         SortMissingDependency \/ SortCycle \/ StageCancelled \/ StageFailed
  PROVE  FailureInv'
<1>1. /\ phase \in {"sort", "head", "run"} /\ err' # "override"
      /\ UNCHANGED <<stages, stageNo, ctx>>
  BY DEF SortMissingDependency, SortCycle, StageCancelled, StageFailed, Return,
         sortVars, foldVars
<1>2. stageNo \in DOMAIN stages => \A n \in CurrentStage : ~ Stored(n)
  BY <1>1 DEF StageInv, CurrentStage
<1>3. CurrentStage' = CurrentStage /\ \A n : Stored(n)' = Stored(n)
  BY <1>1 DEF CurrentStage, Stored
<1> QED
  BY <1>1, <1>2, <1>3 DEF FailureInv

\* Every step preserves FailureInv: it either does not fail, or fails in one of
\* the two ways above, or Execute had failed before and nothing moves.
LEMMA FailureNext ==
  ASSUME TypeOK, SortInv, StageInv, ChanInv, FailureInv, [Next]_vars
  PROVE  FailureInv'
<1>1. CASE FoldOverrideError
  BY <1>1, FailureNextOverride
<1>2. CASE SortMissingDependency \/ SortCycle \/ StageCancelled \/ StageFailed
  BY <1>2, FailureNextStop
<1>3. CASE UNCHANGED vars
  <2>1. UNCHANGED <<phase, err, stages, stageNo, outputChan, result, ctx>>
    BY <1>3 DEF vars, sortVars, workVars, foldVars
  <2> QED
    BY <2>1 DEF FailureInv, CurrentStage, OverrideFails, Sent, Stored
<1>4. CASE \E n \in Node : Work(n)
  BY <1>4, WorkStep DEF FailureInv
<1>5. CASE \/ SortStage \/ SortDone \/ LaunchStage \/ StageSucceeded \/ Cancel
           \/ FoldSkipped \/ FoldOutput \/ StageFolded \/ AllStagesFolded
  <2>1. phase' # "failed"
    BY <1>5 DEF SortStage, SortDone, LaunchStage, StageSucceeded, Cancel, Returned,
         FoldSkipped, FoldOutput, StageFolded, AllStagesFolded, Return
  <2> QED
    BY <2>1 DEF FailureInv
<1> QED
  BY <1>1, <1>2, <1>3, <1>4, <1>5 DEF Next, Main, Sort, Fold, Stopped

-----------------------------------------------------------------------------
(* The theorems. *)

\* The invariant holds when Execute is entered.
LEMMA InvInitial == Init => Inv
BY TypeInit, SortInit, StageInitial, ChanInitial, SkipInitial, InputInitial,
   OverrideInitial, FailureInitial DEF Inv

\* The invariant is inductive.
LEMMA InvNext == Inv /\ [Next]_vars => Inv'
<1> SUFFICES ASSUME Inv, [Next]_vars PROVE Inv'
  OBVIOUS
<1>1. TypeOK'
  BY TypeNext DEF Inv
<1>2. SortInv'
  BY SortNext DEF Inv
<1>3. StageInv'
  BY StageNext DEF Inv
<1>4. ChanInv' /\ SkipInv' /\ InputInv' /\ OverrideInv' /\ FailureInv'
  BY ChanNext, SkipNext, InputNext, OverrideNext, FailureNext DEF Inv
<1> QED
  BY <1>1, <1>2, <1>3, <1>4 DEF Inv

\* The inductive invariant holds throughout every run, for any nodes, any
\* dependency relation, any outputs and any overrides.
THEOREM Invariance == Spec => []Inv
<1>1. Init => Inv
  BY InvInitial
<1>2. Inv /\ [Next]_vars => Inv'
  BY InvNext
<1> QED
  BY <1>1, <1>2, PTL DEF Spec

\* Every variable keeps its type.
THEOREM TypeCorrect == Spec => []TypeOK
<1>1. Inv => TypeOK
  BY DEF Inv
<1> QED
  BY <1>1, Invariance, PTL

\* The dependencies of the nodes of the running stage are all stored.
LEMMA DepsStored ==
  ASSUME Inv, stageNo \in DOMAIN stages, NEW n \in CurrentStage, NEW d \in deps[n]
  PROVE  d \in Node /\ Stored(d) /\ n \in Node
<1>1. PICK j \in DOMAIN stages : j < stageNo /\ d \in stages[j]
  BY DEF Inv, SortInv, CurrentStage
<1>2. d \in Node /\ n \in Node
  BY <1>1 DEF Inv, TypeOK, CurrentStage
<1> QED
  BY <1>1, <1>2 DEF Inv, StageInv

\* GetOutput never panics: whatever the dependency relation, a node runs only
\* when every output it declared a dependency on is in the context.
THEOREM OutputsAreAvailable == Spec => []OutputsAvailable
<1>1. Inv => OutputsAvailable
  <2> SUFFICES ASSUME Inv, NEW n \in Node, worker[n] = "running", NEW d \in deps[n]
               PROVE  d \in Node /\ Stored(d)
    BY DEF OutputsAvailable
  <2>1. stageNo \in DOMAIN stages /\ n \in CurrentStage
    BY ActiveInStage DEF Inv, Active
  <2> QED
    BY <2>1, DepsStored
<1> QED
  BY <1>1, Invariance, PTL

\* What dependencies contribute to the input has arrived when a node runs, so
\* a node may rely on the source URL its dependency resolved.
THEOREM InputIsComplete == Spec => []DependenciesReachInput
<1>1. Inv => DependenciesReachInput
  <2> SUFFICES ASSUME Inv, NEW n \in Node, worker[n] = "running", NEW d \in deps[n],
                      ctx[d].status = "success"
               PROVE  /\ ctx[d].packages \subseteq input.packages
                      /\ ctx[d].url # NoURL => input.url # NoURL
    BY DEF DependenciesReachInput
  <2>1. stageNo \in DOMAIN stages /\ n \in CurrentStage
    BY ActiveInStage DEF Inv, Active
  <2>2. d \in Node
    BY <2>1, DepsStored
  <2> QED
    BY <2>2 DEF Inv, InputInv
<1> QED
  BY <1>1, Invariance, PTL

\* A skip propagates to every auto-skippable dependent, before it begins.
THEOREM SkipsDoPropagate == Spec => []SkipsPropagate
<1>1. Inv => SkipsPropagate
  <2> SUFFICES ASSUME Inv PROVE SkipsPropagate
    OBVIOUS
  <2>1. ASSUME NEW n \in AutoSkip, deps[n] \intersect skippedKeys # {}
        PROVE  span[n] = "none" /\ (Stored(n) => n \in skippedKeys)
    <3>1. n \in Node
      BY NodeAssumption
    <3>2. span[n] = "none"
      BY <2>1 DEF Inv, SkipInv
    <3> QED
      BY <3>1, <3>2 DEF Inv, SkipInv
  <2> QED
    BY <2>1 DEF Inv, SkipInv, SkipsPropagate
<1> QED
  BY <1>1, Invariance, PTL

\* Every forced override leaves a trace, in the outputs or in a warning.
THEOREM OverridesLeaveATrace == Spec => []OverridesAccountedFor
<1>1. Inv => OverridesAccountedFor
  <2> SUFFICES ASSUME Inv, phase = "done"
               PROVE  /\ \A i \in DOMAIN Overrides : Overrides[i].precedence = "force" =>
                           (i \in applied <=> i \notin warned)
                      /\ applied # {} => \E n \in Overridable : ctx[n].status = "success"
    BY DEF OverridesAccountedFor
  <2>1. OverrideInv /\ warned = Unconsumed
    BY DEF Inv, OverrideInv
  <2>2. ASSUME NEW i \in DOMAIN Overrides, Overrides[i].precedence = "force", i \notin warned
        PROVE  i \in applied
    <3>1. PICK j \in applied : Overrides[j].path = Overrides[i].path
      BY <2>1, <2>2 DEF Unconsumed
    <3>2. i \in SourceURLOverrides
      BY <2>1, <2>2, <3>1 DEF OverrideInv, SourceURLOverrides
    <3> QED
      BY <2>1, <2>2, <3>1, <3>2 DEF OverrideInv
  <2>3. ASSUME NEW i \in applied
        PROVE  i \notin warned
    BY <2>1, <2>3 DEF Unconsumed
  <2> QED
    BY <2>1, <2>2, <2>3 DEF OverrideInv
<1> QED
  BY <1>1, Invariance, PTL

\* A fallback never replaces a URL, whatever the list of overrides.
THEOREM FallbacksFillGaps == Spec => []FallbackOnlyFillsGaps
<1>1. Inv => FallbackOnlyFillsGaps
  BY DEF Inv, OverrideInv
<1> QED
  BY <1>1, Invariance, PTL

\* No span is left open, on any path out of Execute.
THEOREM SpansAreClosed == Spec => []SpansClosed
<1>1. Inv => SpansClosed
  BY DEF Inv, SkipInv, StageInv, SpansClosed, Returned, Active
<1> QED
  BY <1>1, Invariance, PTL

\* The sort fails with a cycle only when there is one, and never gets past one.
THEOREM SortIsRight == Spec => []CycleVerdict
<1>1. Inv => CycleVerdict
  <2> SUFFICES ASSUME Inv, phase \notin {"sort", "failed"} PROVE ~ Cyclic
    BY DEF Inv, SortInv, CycleVerdict
  <2>1. Unplaced = {}
    BY DEF Inv, SortInv, TypeOK
  <2>2. \A S \in SUBSET Node : Closed(S) => S = {}
    BY <2>1 DEF Inv, SortInv
  <2> QED
    BY <2>2 DEF Cyclic, Closed
<1> QED
  BY <1>1, Invariance, PTL

\* The state that goroutines share changes only while none of them is active.
THEOREM StagesAreIsolated == Spec => StageIsolation
<1>1. Inv /\ [Next]_vars => [foldVars' # foldVars => \A n \in Node : worker[n] \notin Active]_vars
  <2> SUFFICES ASSUME Inv, [Next]_vars, foldVars' # foldVars
               PROVE  \A n \in Node : worker[n] \notin Active
    OBVIOUS
  <2>1. FoldSkipped \/ FoldOutput
    BY DEF Next, Main, Sort, Fold, Work, Stopped, SortStage, SortMissingDependency,
       SortCycle, SortDone, StageCancelled, LaunchStage, StageFailed, StageSucceeded,
       FoldOverrideError, StageFolded, AllStagesFolded, SkipNode, BeginNode, EndNode,
       SendResult, Cancel, vars
  <2>2. phase = "fold"
    BY <2>1 DEF FoldSkipped, FoldOutput
  <2> QED
    BY <2>2 DEF Inv, StageInv
<1> QED
  BY <1>1, Invariance, PTL DEF Spec, StageIsolation

-----------------------------------------------------------------------------
(* The refinement. *)

\* The nodes of the running stage are reached, in the words of the contract.
LEMMA StageReached ==
  ASSUME Inv, phase \in {"run", "fold"}, NEW n \in CurrentStage, ~ Stored(n)
  PROVE  Contract!Reached(n)
<1>1. stageNo \in DOMAIN stages
  BY DEF Inv, StageInv
<1>2. n \in Node /\ \A d \in deps[n] : d \in Node /\ Stored(d)
  <2>1. n \in Node
    BY <1>1 DEF Inv, TypeOK, CurrentStage
  <2> QED
    BY <1>1, <2>1, DepsStored
<1>3. ~ Returned
  BY DEF Returned
<1> QED
  BY <1>2, <1>3 DEF Contract!Reached, Contract!Published, Stored

\* Blocked and AutoSkipped say the same of a node whose dependencies are nodes.
LEMMA BlockedIsSkipped ==
  ASSUME Inv, NEW n \in Node, deps[n] \subseteq Node
  PROVE  Contract!Blocked(n) <=> AutoSkipped(n)
BY DEF Contract!Blocked, AutoSkipped, Inv, SkipInv

\* The initial state of the engine is one of the contract.
LEMMA RefinesInit == Init => Contract!CInit
<1> SUFFICES ASSUME Init PROVE Contract!CInit
  OBVIOUS
<1>1. NoOutput.status = "none"
  BY BlankType
<1> QED
  BY <1>1 DEF Init, Contract!CInit, Returned

\* A goroutine's step begins its node or is invisible.
LEMMA RefinesWork ==
  ASSUME Inv, NEW n \in Node, Work(n)
  PROVE  Contract!Begin(n) \/ UNCHANGED Contract!cvars
<1>1. /\ phase = "run" /\ stageNo \in DOMAIN stages /\ n \in CurrentStage
      /\ worker[n] \in Active
      /\ UNCHANGED <<deps, phase, ctx, skippedKeys>>
  BY WorkStep DEF Inv
<1>2. ~ Returned /\ ~ Returned'
  BY <1>1 DEF Returned
<1>3. CASE BeginNode(n)
  <2>1. ~ Stored(n) /\ span[n] = "none"
    BY <1>1, <1>3 DEF BeginNode, Inv, SkipInv
  <2>2. Contract!Reached(n)
    BY <1>1, <2>1, StageReached
  <2>3. ~ Contract!Blocked(n)
    BY <1>1, <1>3, BlockedIsSkipped, DepsStored DEF BeginNode
  <2>4. {m \in Node : span'[m] # "none"} = {m \in Node : span[m] # "none"} \union {n}
    BY <1>3 DEF BeginNode, Inv, TypeOK
  <2> QED
    BY <1>1, <1>2, <2>1, <2>2, <2>3, <2>4 DEF Contract!Begin
<1>4. CASE EndNode(n)
  <2>1. PICK r \in NodeResults(n) : span' = [span EXCEPT ![n] = r.status]
    BY <1>4 DEF EndNode
  <2>2. r.status # "none"
    BY ResultType
  <2>3. span[n] # "none"
    BY <1>4 DEF EndNode, Inv, SkipInv
  <2>4. {m \in Node : span'[m] # "none"} = {m \in Node : span[m] # "none"}
    BY <2>1, <2>2, <2>3 DEF Inv, TypeOK
  <2> QED
    BY <1>1, <1>2, <2>4 DEF Contract!cvars
<1>5. CASE SkipNode(n) \/ SendResult(n)
  <2>1. span' = span
    BY <1>5 DEF SkipNode, SendResult
  <2> QED
    BY <1>1, <1>2, <2>1 DEF Contract!cvars
<1> QED
  BY <1>3, <1>4, <1>5 DEF Work

\* A fold publishes the output of a node that began, or skips one that did not.
LEMMA RefinesFold ==
  ASSUME Inv, FoldSkipped \/ FoldOutput
  PROVE  \E n \in Node : Contract!Publish(n) \/ Contract!Skip(n)
<1>1. PICK n \in CurrentStage, o \in Output :
        /\ n \in Node
        /\ o.status = result[n].status /\ o.status \in {"success", "skipped"}
        /\ ctx' = [ctx EXCEPT ![n] = o]
        /\ phase = "fold" /\ stageNo \in DOMAIN stages
        /\ outputChan # <<>> /\ n = Head(outputChan)
        /\ UNCHANGED <<deps, phase, worker, result, span>>
  BY FoldStep DEF Inv
<1>2. ~ Returned /\ ~ Returned'
  BY <1>1 DEF Returned
<1>3. ~ Stored(n)
  <2>1. n = outputChan[1] /\ 1 \in DOMAIN outputChan
    BY <1>1, TailFacts DEF Inv, TypeOK
  <2> QED
    BY <1>1, <2>1 DEF Inv, ChanInv, Sent
<1>4. [m \in Node |-> ctx'[m].status]
        = [[m \in Node |-> ctx[m].status] EXCEPT ![n] = o.status]
  BY <1>1 DEF Inv, TypeOK
<1>5. CASE span[n] # "none"
  BY <1>1, <1>2, <1>3, <1>4, <1>5 DEF Contract!Publish, Contract!Published, Stored
<1>6. CASE span[n] = "none"
  <2>1. worker[n] = "done"
    BY <1>1 DEF Inv, StageInv, CurrentStage
  <2>2. o.status = "skipped" /\ AutoSkipped(n)
    BY <1>1, <1>6, <2>1 DEF Inv, SkipInv
  <2>3. Contract!Reached(n)
    BY <1>1, <1>3, StageReached
  <2>4. Contract!Blocked(n)
    BY <1>1, <2>2, BlockedIsSkipped, DepsStored
  <2> QED
    BY <1>1, <1>2, <1>4, <1>6, <2>2, <2>3, <2>4 DEF Contract!Skip
<1> QED
  BY <1>5, <1>6

\* Every other step halts the run, completes it, or is invisible.
LEMMA RefinesMain ==
  ASSUME Inv,
         \/ SortStage \/ LaunchStage \/ SortMissingDependency \/ SortCycle
         \/ SortDone \/ StageCancelled \/ StageFailed \/ StageSucceeded
         \/ FoldOverrideError \/ StageFolded \/ AllStagesFolded \/ Cancel
         \/ UNCHANGED vars
  PROVE  Contract!Halt \/ Contract!Succeed \/ UNCHANGED Contract!cvars
<1>1. UNCHANGED <<deps, span, ctx>>
  BY DEF SortStage, LaunchStage, SortMissingDependency, SortCycle, SortDone,
     StageCancelled, StageFailed, StageSucceeded, FoldOverrideError, StageFolded,
     AllStagesFolded, Cancel, vars, workVars, foldVars
<1>2. CASE \/ SortMissingDependency \/ SortCycle \/ StageCancelled
           \/ StageFailed \/ FoldOverrideError
  <2>1. ~ Returned /\ phase' = "failed"
    BY <1>2 DEF SortMissingDependency, SortCycle, StageCancelled, StageFailed,
       FoldOverrideError, Return, Returned
  <2> QED
    BY <1>1, <2>1 DEF Contract!Halt, Returned
<1>3. CASE AllStagesFolded
  <2>1. phase = "head" /\ stageNo > Len(stages) /\ phase' = "done"
    BY <1>3 DEF AllStagesFolded, Return
  <2>2. \A n \in Node : Stored(n)
    <3> SUFFICES ASSUME NEW n \in Node PROVE Stored(n)
      OBVIOUS
    <3>1. PICK i \in DOMAIN stages : n \in stages[i]
      BY <2>1, NodeHasStage DEF Inv
    <3>2. i < stageNo
      BY <2>1 DEF Inv, TypeOK
    <3> QED
      BY <3>1, <3>2 DEF Inv, StageInv
  <2> QED
    BY <1>1, <2>1, <2>2 DEF Contract!Succeed, Contract!Published, Stored, Returned
<1>4. CASE \/ SortStage \/ LaunchStage \/ SortDone \/ StageSucceeded \/ StageFolded
           \/ Cancel \/ UNCHANGED vars
  <2>1. \/ phase' = phase
        \/ ~ Returned /\ ~ Returned'
    BY <1>4 DEF SortStage, LaunchStage, SortDone, StageSucceeded, StageFolded,
       Cancel, vars, Returned
  <2> QED
    BY <1>1, <2>1 DEF Contract!cvars, Returned
<1> QED
  BY <1>2, <1>3, <1>4

\* The engine implements the contract that node.go states for the authors of
\* nodes, for every dependency relation and every outcome.
THEOREM EngineImplementsContract == Spec => ImplementsContract
<1>1. Init => Contract!CInit
  BY RefinesInit
<1>2. Inv /\ [Next]_vars => [Contract!CNext]_(Contract!cvars)
  <2> SUFFICES ASSUME Inv, [Next]_vars
               PROVE  Contract!CNext \/ UNCHANGED Contract!cvars
    OBVIOUS
  <2>1. CASE \E n \in Node : Work(n)
    BY <2>1, RefinesWork DEF Contract!CNext
  <2>2. CASE FoldSkipped \/ FoldOutput
    BY <2>2, RefinesFold DEF Contract!CNext
  <2>3. CASE \/ SortStage \/ LaunchStage \/ SortMissingDependency \/ SortCycle
             \/ SortDone \/ StageCancelled \/ StageFailed \/ StageSucceeded
             \/ FoldOverrideError \/ StageFolded \/ AllStagesFolded \/ Cancel
             \/ UNCHANGED vars
    BY <2>3, RefinesMain DEF Contract!CNext
  <2> QED
    BY <2>1, <2>2, <2>3 DEF Next, Main, Sort, Fold, Stopped
<1> QED
  BY <1>1, <1>2, Invariance, PTL DEF Spec, ImplementsContract, Contract!CSpec
=============================================================================

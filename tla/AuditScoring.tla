---------------------------- MODULE AuditScoring ----------------------------
(***************************************************************************)
(* Scoring the direct dependencies of a project: scoreAll, its pool of     *)
(* goroutines (cmd/risk-guard/audit_score.go), scoreOneCached              *)
(* (audit_cache.go), and the files of lib/local/auditcache that all runs   *)
(* of the program share.                                                   *)
(*                                                                         *)
(* A scoring (a whole run of the engine of ExecutionDag) is abstracted to  *)
(* the number of findings it ends with, or a failure; a key that does not  *)
(* parse is one that always fails.  A cache file is absent, empty (a       *)
(* writer truncated it), torn (JSON that does not decode) or saved.        *)
(***************************************************************************)
EXTENDS Integers, Sequences, FiniteSets

CONSTANTS
  Process,       \* runs of the program that share the cache directory
  Key,           \* analysis-identifier keys of packages
  Hash,          \* hashes of the overrides of a package
  Keys,          \* the keys each run audits, in the order of the SBOM
  HashOf,        \* the overrides each run has for each key
  Jobs,          \* --jobs of each run
  MaxAge,        \* --max-age of each run
  NoCache,       \* the runs with --no-cache
  FindingCounts, \* how many findings a scoring may have
  MaxClock       \* bound of the clock

ASSUME ScoringAssumption ==
  /\ Keys \in [Process -> Seq(Key)]
  /\ \A p \in Process : \A i, j \in DOMAIN Keys[p] :
       Keys[p][i] = Keys[p][j] => i = j           \* sbom.dedupeAndSort
  /\ HashOf \in [Process -> [Key -> Hash]]
  /\ Jobs \in [Process -> Nat \ {0}]           \* runAll and runAudit refuse --jobs < 1
  /\ MaxAge \in [Process -> Nat]
  /\ NoCache \subseteq Process
  /\ FindingCounts \subseteq Nat
  /\ MaxClock \in Nat

\* The analysis identifier: ecosystem, name and version in the key, overrides hash.
Identity == Key \X Hash

Id(p, k) == <<k, HashOf[p][k]>>

KeysOf(p) == {Keys[p][i] : i \in DOMAIN Keys[p]}

Analysis == [id : Identity, findings : FindingCounts]

\* What scoreOneCached returns.
Answer == [status : {"none", "failed"}]
          \union [status : {"scored", "cached"}, analysis : Analysis]

\* A cache file.
Entry == [state : {"absent", "empty", "torn"}]
         \union [state : {"saved"}, analysis : Analysis, savedAt : 0 .. MaxClock]

Totals == [scored : Nat, failed : Nat, cached : Nat, findings : Nat]

VARIABLES
  phase,    \* where scoreAll is, in each run
  launched, \* the number of keys the loop has handed to g.Go
  pc,       \* where the goroutine of each key is
  answer,   \* what scoreOneCached returned for each key
  results,  \* the results collected under the mutex
  totals,   \* the auditTotals
  cache,    \* the cache files
  clock,
  genuine   \* history: every analysis a scoring ever produced

vars == <<phase, launched, pc, answer, results, totals, cache, clock, genuine>>

Init ==
  /\ phase = [p \in Process |-> "running"]
  /\ launched = [p \in Process |-> 0]
  /\ pc = [p \in Process |-> [k \in Key |-> "idle"]]
  /\ answer = [p \in Process |-> [k \in Key |-> [status |-> "none"]]]
  /\ results = [p \in Process |-> <<>>]
  /\ totals = [p \in Process |-> [scored |-> 0, failed |-> 0, cached |-> 0, findings |-> 0]]
  /\ cache = [id \in Identity |-> [state |-> "absent"]]
  /\ clock = 0
  /\ genuine = {}

-----------------------------------------------------------------------------
(* The loop of scoreAll: g.Go blocks while Jobs goroutines are active. *)

\* buildCacheConfig
CacheEnabled(p) == p \notin NoCache /\ MaxAge[p] > 0

Active(p) == {k \in KeysOf(p) : pc[p][k] \notin {"idle", "done"}}

\* Mutant: a slot is never given back.
LaunchLeaksSlot(p) ==
  /\ phase[p] = "running"
  /\ launched[p] < Len(Keys[p]) /\ launched[p] < Jobs[p]
  /\ launched' = [launched EXCEPT ![p] = @ + 1]
  /\ pc' = [pc EXCEPT ![p][Keys[p][launched[p] + 1]] =
              IF CacheEnabled(p) THEN "lookup" ELSE "score"]
  /\ UNCHANGED <<phase, answer, results, totals, cache, clock, genuine>>

Launch(p) ==
  /\ phase[p] = "running"
  /\ launched[p] < Len(Keys[p])
  /\ Cardinality(Active(p)) < Jobs[p]
  /\ launched' = [launched EXCEPT ![p] = @ + 1]
  /\ pc' = [pc EXCEPT ![p][Keys[p][launched[p] + 1]] =
              IF CacheEnabled(p) THEN "lookup" ELSE "score"]
  /\ UNCHANGED <<phase, answer, results, totals, cache, clock, genuine>>

-----------------------------------------------------------------------------
(* scoreOneCached, in the goroutine of key k. *)

\* Mutant: the file is named after the package alone.
CacheKeyOfPackage(p, k) == <<k, CHOOSE h \in Hash : TRUE>>

\* The name of the cache file: auditcache.Key(input.AnalysisIdentifier).
CacheKey(p, k) == Id(p, k)

Hit(p, e) == e.state = "saved" /\ clock - e.savedAt <= MaxAge[p]

LookupHit(p, k) ==
  /\ phase[p] = "running" /\ pc[p][k] = "lookup"
  /\ Hit(p, cache[CacheKey(p, k)])
  /\ answer' = [answer EXCEPT ![p][k] =
                  [status |-> "cached", analysis |-> cache[CacheKey(p, k)].analysis]]
  /\ pc' = [pc EXCEPT ![p][k] = "record"]
  /\ UNCHANGED <<phase, launched, results, totals, cache, clock, genuine>>

\* Absent, expired, or (with a warning) unreadable: score it.
LookupMiss(p, k) ==
  /\ phase[p] = "running" /\ pc[p][k] = "lookup"
  /\ ~ Hit(p, cache[CacheKey(p, k)])
  /\ pc' = [pc EXCEPT ![p][k] = "score"]
  /\ UNCHANGED <<phase, launched, answer, results, totals, cache, clock, genuine>>

Score(p, k) ==
  /\ phase[p] = "running" /\ pc[p][k] = "score"
  /\ \E n \in FindingCounts :
       LET a == [id |-> Id(p, k), findings |-> n] IN
         /\ answer' = [answer EXCEPT ![p][k] = [status |-> "scored", analysis |-> a]]
         /\ genuine' = genuine \union {a}
  /\ pc' = [pc EXCEPT ![p][k] = IF CacheEnabled(p) THEN "truncate" ELSE "record"]
  /\ UNCHANGED <<phase, launched, results, totals, cache, clock>>

ScoreFails(p, k) ==
  /\ phase[p] = "running" /\ pc[p][k] = "score"
  /\ answer' = [answer EXCEPT ![p][k] = [status |-> "failed"]]
  /\ pc' = [pc EXCEPT ![p][k] = "record"]
  /\ UNCHANGED <<phase, launched, results, totals, cache, clock, genuine>>

\* auditcache.Put is os.WriteFile: it opens the file with O_TRUNC, then writes.
Truncate(p, k) ==
  /\ phase[p] = "running" /\ pc[p][k] = "truncate"
  /\ cache' = [cache EXCEPT ![CacheKey(p, k)] = [state |-> "empty"]]
  /\ pc' = [pc EXCEPT ![p][k] = "write"]
  /\ UNCHANGED <<phase, launched, answer, results, totals, clock, genuine>>

\* Over what another writer wrote since, a shorter text leaves a tail behind.
Write(p, k) ==
  /\ phase[p] = "running" /\ pc[p][k] = "write"
  /\ \E e \in {[state |-> "saved", analysis |-> answer[p][k].analysis, savedAt |-> clock]}
              \union {t \in {[state |-> "torn"]} : cache[CacheKey(p, k)].state # "empty"} :
       cache' = [cache EXCEPT ![CacheKey(p, k)] = e]
  /\ pc' = [pc EXCEPT ![p][k] = "record"]
  /\ UNCHANGED <<phase, launched, answer, results, totals, clock, genuine>>

\* A failed Put is only logged; a failed write may leave part of the text.
PutFails(p, k) ==
  /\ phase[p] = "running" /\ pc[p][k] \in {"truncate", "write"}
  /\ cache' = IF pc[p][k] = "write"
              THEN [cache EXCEPT ![CacheKey(p, k)] = [state |-> "torn"]] ELSE cache
  /\ pc' = [pc EXCEPT ![p][k] = "record"]
  /\ UNCHANGED <<phase, launched, answer, results, totals, clock, genuine>>

-----------------------------------------------------------------------------
(* Collecting, under the mutex of scoreAll, and returning. *)

\* Mutant: findings are counted for cached answers only.
CountOfCached(t, r) ==
  IF r.status = "failed" THEN [t EXCEPT !.failed = @ + 1]
  ELSE IF r.status = "scored" THEN [t EXCEPT !.scored = @ + 1]
  ELSE [t EXCEPT !.scored = @ + 1, !.cached = @ + 1, !.findings = @ + r.analysis.findings]

Count(t, r) ==
  IF r.status = "failed" THEN [t EXCEPT !.failed = @ + 1]
  ELSE [t EXCEPT !.scored = @ + 1,
                 !.cached = IF r.status = "cached" THEN @ + 1 ELSE @,
                 !.findings = @ + r.analysis.findings]

Record(p, k) ==
  /\ phase[p] = "running" /\ pc[p][k] = "record"
  /\ results' = [results EXCEPT ![p] = Append(@, [key |-> k, answer |-> answer[p][k]])]
  /\ totals' = [totals EXCEPT ![p] = Count(@, answer[p][k])]
  /\ pc' = [pc EXCEPT ![p][k] = "done"]
  /\ UNCHANGED <<phase, launched, answer, cache, clock, genuine>>

\* Mutant: g.Go returns the first error, and Wait does not wait for the rest.
ReturnOnFailure(p) ==
  /\ phase[p] = "running"
  /\ \/ \A k \in KeysOf(p) : pc[p][k] = "done"
     \/ totals[p].failed > 0
  /\ phase' = [phase EXCEPT ![p] = "returned"]
  /\ UNCHANGED <<launched, pc, answer, results, totals, cache, clock, genuine>>

\* g.Wait returns once the loop has launched every key and all goroutines ended.
Return(p) ==
  /\ phase[p] = "running"
  /\ launched[p] = Len(Keys[p])
  /\ Active(p) = {}
  /\ phase' = [phase EXCEPT ![p] = "returned"]
  /\ UNCHANGED <<launched, pc, answer, results, totals, cache, clock, genuine>>

\* The run is killed: nothing more of it happens, its files stay as they are.
Crash(p) ==
  /\ phase[p] = "running"
  /\ phase' = [phase EXCEPT ![p] = "crashed"]
  /\ UNCHANGED <<launched, pc, answer, results, totals, cache, clock, genuine>>

Tick ==
  /\ clock < MaxClock
  /\ clock' = clock + 1
  /\ UNCHANGED <<phase, launched, pc, answer, results, totals, cache, genuine>>

\* Every run is over: the model stutters, so TLC still reports any other stop.
Stopped == (\A p \in Process : phase[p] # "running") /\ UNCHANGED vars

Goroutine(p, k) ==
  \/ LookupHit(p, k) \/ LookupMiss(p, k)
  \/ Score(p, k) \/ ScoreFails(p, k)
  \/ Truncate(p, k) \/ Write(p, k) \/ PutFails(p, k)
  \/ Record(p, k)

Main(p) == Launch(p) \/ Return(p)

Next ==
  \/ \E p \in Process : Main(p) \/ Crash(p) \/ \E k \in KeysOf(p) : Goroutine(p, k)
  \/ Tick
  \/ Stopped

Spec == Init /\ [][Next]_vars

\* Goroutines are scheduled fairly, and every scoring ends.
FairSpec ==
  /\ Spec
  /\ \A p \in Process : WF_vars(Main(p)) /\ \A k \in KeysOf(p) : WF_vars(Goroutine(p, k))

-----------------------------------------------------------------------------
(* Properties. *)

\* Every variable has its type.
TypeOK ==
  /\ phase \in [Process -> {"running", "returned", "crashed"}]
  /\ launched \in [Process -> Nat]
  /\ pc \in [Process -> [Key -> {"idle", "lookup", "score", "truncate", "write",
                               "record", "done"}]]
  /\ answer \in [Process -> [Key -> Answer]]
  /\ results \in [Process -> Seq([key : Key, answer : Answer])]
  /\ totals \in [Process -> Totals]
  /\ cache \in [Identity -> Entry]
  /\ clock \in 0 .. MaxClock
  /\ genuine \subseteq Analysis

\* The analyses scoreAll returns, and the failures, by their place in results.
Analyses(p) == {i \in DOMAIN results[p] : results[p][i].answer.status # "failed"}

Failures(p) == DOMAIN results[p] \ Analyses(p)

\* A run that returns reports on every key exactly once, whatever failed,
\* whatever was served from the cache and in whatever order goroutines ended.
EveryKeyReportedOnce ==
  \A p \in Process : phase[p] = "returned" =>
    /\ \A k \in KeysOf(p) : \E i \in DOMAIN results[p] :
         \A j \in DOMAIN results[p] : results[p][j].key = k <=> j = i
    /\ \A i \in DOMAIN results[p] : results[p][i].key \in KeysOf(p)

\* The findings of a result; a failure has none.
FindingsOf(r) == IF r.answer.status = "failed" THEN 0 ELSE r.answer.analysis.findings

\* The findings of a sequence of results add up to total, result after result.
AddsUpTo(rs, total) ==
  \E sum \in [0 .. Len(rs) -> 0 .. total] :
    /\ sum[0] = 0 /\ sum[Len(rs)] = total
    /\ \A i \in DOMAIN rs : sum[i] = sum[i - 1] + FindingsOf(rs[i])

\* The totals printed agree with what is reported, at every moment.
TotalsMatchReport ==
  \A p \in Process :
    /\ totals[p].failed = Cardinality(Failures(p))
    /\ totals[p].scored = Cardinality(Analyses(p))
    /\ totals[p].cached =
         Cardinality({i \in Analyses(p) : results[p][i].answer.status = "cached"})
    /\ AddsUpTo(results[p], totals[p].findings)

\* Every run ends: it returns, or was killed.
AuditsEnd == \A p \in Process : <>(phase[p] # "running")

\* The inductive invariant, in parts.  The keys not launched yet are idle.
LoopInv ==
  \A p \in Process :
    /\ launched[p] <= Len(Keys[p])
    /\ \A i \in DOMAIN Keys[p] : pc[p][Keys[p][i]] = "idle" <=> i > launched[p]
    /\ phase[p] = "returned" => \A k \in KeysOf(p) : pc[p][k] = "done"

\* An answer, and what is about to be written, is a genuine analysis of the
\* goroutine's own identity, and so is what a saved file holds.
GenuineInv ==
  /\ \A p \in Process : \A k \in Key :
       /\ pc[p][k] \in {"idle", "lookup", "score"} <=> answer[p][k].status = "none"
       /\ pc[p][k] \in {"truncate", "write"} => answer[p][k].status = "scored"
       /\ answer[p][k].status \in {"scored", "cached"} =>
            answer[p][k].analysis \in genuine /\ answer[p][k].analysis.id = Id(p, k)
  /\ \A id \in Identity : cache[id].state = "saved" =>
       cache[id].analysis \in genuine /\ cache[id].analysis.id = id

\* The results are those of the goroutines that are done, each once.
ResultsInv ==
  \A p \in Process :
    /\ \A i \in DOMAIN results[p] :
         /\ results[p][i].key \in KeysOf(p)
         /\ pc[p][results[p][i].key] = "done"
    /\ \A i, j \in DOMAIN results[p] : results[p][i].key = results[p][j].key => i = j
    /\ \A k \in KeysOf(p) : pc[p][k] = "done" =>
         \E i \in DOMAIN results[p] : results[p][i].key = k

Inv == TypeOK /\ LoopInv /\ GenuineInv /\ ResultsInv

\* What each run has reported for each key.
Reported(r) ==
  IF r.status \in {"none", "failed"} THEN [status |-> r.status]
  ELSE [status |-> "answered", analysis |-> r.analysis]

\* The audit implements the contract: the cache, its torn files, its expiry,
\* crashes and other runs never put a foreign or invented analysis in a report.
Contract == INSTANCE ScoringContract WITH
  ReportKeys <- [p \in Process |-> KeysOf(p)],
  IdentityOf <- [p \in Process |-> [k \in Key |-> Id(p, k)]],
  report <- [p \in Process |-> [k \in Key |->
               IF pc[p][k] = "done" THEN Reported(answer[p][k]) ELSE [status |-> "none"]]]

ImplementsContract == Contract!CSpec
=============================================================================

--------------------------- MODULE ScanRunsProofs ---------------------------
(* Proofs about ScanRuns, for any packages, trees, lockfiles, policies and     *)
(* times.  However a policy came to be, by hand, from init or from             *)
(* add-expected-failures: waiting never turns a finding it rejects into one    *)
(* that it accepts, acknowledging lets through what was picked and nothing     *)
(* else, and a baseline accepts what it records.  Of what the manifests        *)
(* declare, all is scored, reported once and at its line, and a run that       *)
(* passes accepts it.                                                          *)
EXTENDS ScanRuns, SbomGraphProofs, FiniteSetTheorems, WellFoundedInduction

-------------------------------------------------------------------------------
(* Grading, at two moments.                                                    *)

LEMMA ResolvedTightens ==
  ASSUME NEW r, IsRule(r), NEW t \in Int, NEW u \in Int, t <= u
  PROVE  /\ Resolved(r, t) \in Severities
         /\ Resolved(r, t) = "blocking" => Resolved(r, u) = "blocking"
         /\ Resolved(r, t) = "warning" => Resolved(r, u) \in {"blocking", "warning"}
<1>1. \A d \in r.after : t > d => u > d
  BY DEF IsRule
<1>2. r.severity \in Severities
  BY DEF IsRule
<1> QED BY <1>1, <1>2 DEF Resolved, Severities

LEMMA SeverityTightens ==
  ASSUME NEW p, IsPolicy(p), NEW v, NEW t \in Int, NEW u \in Int, t <= u
  PROVE  /\ Severity(p, v, t) \in Severities
         /\ Severity(p, v, t) = "blocking" => Severity(p, v, u) = "blocking"
         /\ Severity(p, v, t) = "warning" => Severity(p, v, u) \in {"blocking", "warning"}
<1> DEFINE best == BestRules(p.rules, v)
           at(x) == {Resolved(r, x) : r \in best}
<1>1. \A r \in best : IsRule(r)
  BY DEF BestRules, IsPolicy
<1> HIDE DEF best
<1>2. \A r \in best : /\ Resolved(r, t) \in Severities
                      /\ Resolved(r, t) = "blocking" => Resolved(r, u) = "blocking"
                      /\ Resolved(r, t) = "warning" => Resolved(r, u) \in {"blocking", "warning"}
  BY <1>1, ResolvedTightens
<1>3. \A x : Severity(p, v, x) = IF at(x) # {} THEN Strictest(at(x)) ELSE "blocking"
  BY DEF Severity, best
<1>4. at(t) # {} <=> at(u) # {}
  OBVIOUS
<1>5. "blocking" \in at(t) => "blocking" \in at(u)
  BY <1>2
<1>6. "warning" \in at(t) => "blocking" \in at(u) \/ "warning" \in at(u)
  BY <1>2
<1> HIDE DEF at
<1> QED BY <1>3, <1>4, <1>5, <1>6 DEF Strictest, Severities

\* What is lapsed stays lapsed.
LEMMA LapsedStays ==
  ASSUME NEW table, IsDated(table), NEW v, NEW t \in Int, NEW u \in Int, t <= u,
         NEW ack \in Acks(table, v), Lapsed(ack, t)
  PROVE  Lapsed(ack, u)
<1>1. PICK k \in DOMAIN table : ack = table[k]
  BY DEF Acks, AckKeys, MatchingKeys
<1>2. ack.expires \subseteq Int
  BY <1>1 DEF IsDated
<1> QED BY <1>2 DEF Lapsed

LEMMA FailureKindTightens ==
  ASSUME NEW p, IsPolicy(p), NEW v, NEW t \in Int, NEW u \in Int, t <= u
  PROVE  /\ FailureKind(p, v, t) \in {"expired", "acknowledged"}
         /\ FailureKind(p, v, t) = "expired" => FailureKind(p, v, u) = "expired"
<1>1. \A ack \in Acks(p.failures, v) : Lapsed(ack, t) => Lapsed(ack, u)
  BY LapsedStays DEF IsPolicy
<1> QED BY <1>1 DEF FailureKind

LEMMA WarningKindTightens ==
  ASSUME NEW p, IsPolicy(p), NEW v, NEW t \in Int, NEW u \in Int, t <= u
  PROVE  /\ WarningKind(p, v, t) \in {"warning", "acknowledged"}
         /\ WarningKind(p, v, t) = "warning" => WarningKind(p, v, u) = "warning"
<1>1. \A ack \in Acks(p.warnings, v) : Lapsed(ack, t) => Lapsed(ack, u)
  BY LapsedStays DEF IsPolicy
<1> QED BY <1>1 DEF WarningKind

LEMMA KindByCases ==
  ASSUME NEW p, NEW v, NEW x, Severity(p, v, x) \in Severities
  PROVE  /\ Severity(p, v, x) = "ignore" => Kind(p, v, x) = "ignored"
         /\ Severity(p, v, x) # "ignore" /\ Acks(p.failures, v) # {} => Kind(p, v, x) = FailureKind(p, v, x)
         /\ Severity(p, v, x) = "blocking" /\ Acks(p.failures, v) = {} => Kind(p, v, x) = "blocking"
         /\ Severity(p, v, x) = "warning" /\ Acks(p.failures, v) = {} => Kind(p, v, x) = WarningKind(p, v, x)
<1> DEFINE s == Severity(p, v, x)
<1>1. CASE s = "ignore"
  BY <1>1 DEF Kind
<1>2. CASE s # "ignore" /\ Acks(p.failures, v) # {}
  BY <1>2 DEF Kind, Severities
<1>3. CASE s = "blocking" /\ Acks(p.failures, v) = {}
  BY <1>3 DEF Kind
<1>4. CASE s = "warning" /\ Acks(p.failures, v) = {}
  BY <1>4 DEF Kind
<1> QED BY <1>1, <1>2, <1>3, <1>4 DEF Severities

LEMMA Ranks ==
  /\ Rank("blocking") = 2 /\ Rank("expired") = 2 /\ Rank("warning") = 1
  /\ Rank("acknowledged") = 0 /\ Rank("ignored") = 0
BY DEF Rank

LEMMA KindTightens ==
  ASSUME NEW p, IsPolicy(p), NEW v, NEW t \in Int, NEW u \in Int, t <= u
  PROVE  Rank(Kind(p, v, t)) <= Rank(Kind(p, v, u))
<1>1. /\ Severity(p, v, t) \in Severities /\ Severity(p, v, u) \in Severities
      /\ Severity(p, v, t) = "blocking" => Severity(p, v, u) = "blocking"
      /\ Severity(p, v, t) = "warning" => Severity(p, v, u) \in {"blocking", "warning"}
  BY SeverityTightens
<1>2. /\ FailureKind(p, v, t) \in {"expired", "acknowledged"}
      /\ FailureKind(p, v, u) \in {"expired", "acknowledged"}
      /\ FailureKind(p, v, t) = "expired" => FailureKind(p, v, u) = "expired"
  BY FailureKindTightens
<1>3. /\ WarningKind(p, v, t) \in {"warning", "acknowledged"}
      /\ WarningKind(p, v, u) \in {"warning", "acknowledged"}
      /\ WarningKind(p, v, t) = "warning" => WarningKind(p, v, u) = "warning"
  BY WarningKindTightens
<1>4. CASE Severity(p, v, t) = "ignore"
  <2>1. Kind(p, v, t) = "ignored"
    BY <1>1, <1>4, KindByCases
  <2>2. Kind(p, v, u) \in {"blocking", "expired", "warning", "acknowledged", "ignored"}
    BY <1>1, <1>2, <1>3, KindByCases DEF Severities
  <2> QED BY <2>1, <2>2, Ranks
<1>5. CASE Severity(p, v, t) # "ignore" /\ Acks(p.failures, v) # {}
  <2>1. Severity(p, v, u) # "ignore"
    BY <1>1, <1>5 DEF Severities
  <2>2. Kind(p, v, t) = FailureKind(p, v, t) /\ Kind(p, v, u) = FailureKind(p, v, u)
    BY <1>1, <1>5, <2>1, KindByCases
  <2> QED BY <1>2, <2>2, Ranks
<1>6. CASE Severity(p, v, t) = "blocking" /\ Acks(p.failures, v) = {}
  <2>1. Kind(p, v, t) = "blocking" /\ Kind(p, v, u) = "blocking"
    BY <1>1, <1>6, KindByCases
  <2> QED BY <2>1, Ranks
<1>7. CASE Severity(p, v, t) = "warning" /\ Acks(p.failures, v) = {}
  <2>1. Kind(p, v, t) = WarningKind(p, v, t)
    BY <1>1, <1>7, KindByCases
  <2>2. Kind(p, v, u) \in {"blocking", WarningKind(p, v, u)}
    BY <1>1, <1>7, KindByCases
  <2> QED BY <1>3, <2>1, <2>2, Ranks
<1> QED BY <1>1, <1>4, <1>5, <1>6, <1>7 DEF Severities

-------------------------------------------------------------------------------
(* Policies stay policies.                                                     *)

LEMMA TablesStayDated ==
  /\ IsDated(NoTable)
  /\ \A results : IsDated(Baseline(results))
  /\ \A a, b : IsDated(a) /\ IsDated(b) => IsDated(Overlaid(a, b)) /\ IsDated(UnionOf(a, b))
<1>1. IsDated(NoTable)
  BY DEF IsDated, NoTable
<1>2. \A results : IsDated(Baseline(results))
  BY DEF IsDated, Baseline
<1>3. ASSUME NEW a, NEW b, IsDated(a), IsDated(b)
      PROVE  IsDated(Overlaid(a, b))
  BY <1>3 DEF IsDated, Overlaid
<1>4. ASSUME NEW a, NEW b, IsDated(a), IsDated(b)
      PROVE  IsDated(UnionOf(a, b))
  BY <1>4 DEF IsDated, UnionOf
<1> QED BY <1>1, <1>2, <1>3, <1>4

LEMMA RulesAreRules ==
  ASSUME NEW target, NEW severity \in Severities, NEW depth
  PROVE  IsRule(CategoryRule(target, severity, depth)) /\ IsRule(CheckRule(target, severity))
BY DEF IsRule, CategoryRule, CheckRule

LEMMA DefaultIsPolicy ==
  /\ IsPolicy(DefaultPolicy) /\ IsFile(DefaultPolicy)
  /\ DOMAIN DefaultPolicy = {"rules", "failures", "warnings", "mode", "overrides"}
<1>1. \A r \in DefaultPolicy.rules : IsRule(r)
  BY RulesAreRules DEF DefaultPolicy, Severities
<1>2. \A r \in DefaultPolicy.rules : ~ r.overlay
  BY DEF DefaultPolicy, CategoryRule
<1> QED BY <1>1, <1>2, TablesStayDated DEF DefaultPolicy, IsPolicy, IsFile

LEMMA MinimalIsPolicy ==
  /\ IsFile(MinimalPolicy)
  /\ DOMAIN MinimalPolicy = {"rules", "failures", "warnings", "mode", "overrides"}
BY TablesStayDated DEF MinimalPolicy, IsPolicy, IsFile

LEMMA LayersAreRules ==
  ASSUME NEW r, IsRule(r), NEW overlay
  PROVE  IsRule([r EXCEPT !.overlay = overlay])
BY DEF IsRule

LEMMA EffectiveIsPolicy ==
  ASSUME NEW repo, \A p \in repo : IsPolicy(p)
  PROVE  IsPolicy(Effective(repo))
<1>1. ASSUME NEW a, NEW b, IsPolicy(a), IsPolicy(b)
      PROVE  IsPolicy(Merge(a, b))
  <2>1. \A r \in Merge(a, b).rules : IsRule(r)
    <3>1. Merge(a, b).rules = Layer(a.rules, FALSE) \cup Layer(b.rules, TRUE)
      BY DEF Merge
    <3>2. \A rules, overlay : (\A r \in rules : IsRule(r)) => \A r \in Layer(rules, overlay) : IsRule(r)
      BY LayersAreRules DEF Layer
    <3> QED BY <1>1, <3>1, <3>2 DEF IsPolicy
  <2>2. IsDated(Merge(a, b).failures) /\ IsDated(Merge(a, b).warnings)
    BY <1>1, TablesStayDated DEF Merge, IsPolicy
  <2>3. {"rules", "failures", "warnings", "overrides"} \subseteq DOMAIN Merge(a, b)
    BY DEF Merge
  <2> QED BY <2>1, <2>2, <2>3 DEF IsPolicy
<1>2. Resolve({}, repo, {}) = {Merge(DefaultPolicy, r) : r \in repo} \cup {b \in {DefaultPolicy} : repo = {}}
  BY DEF Resolve
<1>3. \A p \in Resolve({}, repo, {}) : IsPolicy(p)
  BY <1>1, <1>2, DefaultIsPolicy
<1>4. Resolve({}, repo, {}) # {}
  BY <1>2
<1> QED BY <1>3, <1>4 DEF Effective

LEMMA LoadedIsFile ==
  ASSUME NEW repo, \A p \in repo : IsFile(p)
  PROVE  IsFile(Loaded(repo))
<1>1. ASSUME NEW p, IsFile(p)
      PROVE  IsFile(ToPolicy(p))
  <2> DEFINE kept == {r \in p.rules : r.overlay \/ \A q \in p.rules : SamePath(q, r) => ~q.overlay}
             shown == {[r EXCEPT !.overlay = FALSE] : r \in kept}
  <2>1. \A r \in shown : IsRule(r) /\ ~ r.overlay
    BY <1>1, LayersAreRules DEF IsFile, IsPolicy, IsRule
  <2> HIDE DEF shown
  <2>2. IsFile([p EXCEPT !.rules = shown])
    BY <1>1, <2>1 DEF IsPolicy, IsFile
  <2> QED BY <2>2 DEF ToPolicy, shown
<1>2. CASE repo = {}
  BY <1>2, MinimalIsPolicy DEF Loaded
<1>3. CASE repo # {}
  BY <1>1, <1>3 DEF Loaded
<1> QED BY <1>2, <1>3

-------------------------------------------------------------------------------
(* The invariant: what is in the file, and in the memory of a command, is a    *)
(* policy.                                                                     *)

JobInv(j) ==
  /\ {"pc", "cmd", "repo", "rules", "fresh"} \subseteq DOMAIN j
  /\ \A p \in j.repo : IsFile(p)
  /\ \A r \in j.rules : IsRule(r) /\ ~ r.overlay

PolicyInv ==
  /\ now \in Nat
  /\ \A p \in PolicyIn(file) : IsFile(p)
  /\ job # Idle => JobInv(job)

\* A step of a command that leaves the policies alone.
SameRules ==
  /\ UNCHANGED <<file, now>>
  /\ \/ job' = Idle
     \/ DOMAIN job' = DOMAIN job /\ job'.repo = job.repo /\ job'.rules = job.rules

LEMMA SameRulesKeep ==
  ASSUME PolicyInv, SameRules, job # Idle
  PROVE  PolicyInv'
BY DEF PolicyInv, SameRules, JobInv

LEMMA NotIdle == job.pc # "idle" => job # Idle
BY DEF Idle

\* Steps that read, scan, report and ask.
LEMMA ScanKeeps ==
  ASSUME PolicyInv, Scan
  PROVE  PolicyInv'
<1> USE DEF outside, Finish
<1>1. CASE \E format \in Formats, continue \in BOOLEAN : StartRun(format, continue)
  BY <1>1 DEF StartRun, NewJob, PolicyInv, JobInv
<1>2. CASE \E format \in Formats, terminal, force \in BOOLEAN : StartInit(format, terminal, force)
  BY <1>2 DEF StartInit, NewJob, PolicyInv, JobInv
<1>3. CASE ReadRules
  <2>1. job # Idle /\ UNCHANGED <<file, now>>
    BY <1>3, NotIdle DEF ReadRules
  <2>2. IsFile([DefaultPolicy EXCEPT !.overrides = job.urls])
    BY DefaultIsPolicy DEF IsPolicy, IsFile
  <2>3. \/ job' = Idle
        \/ /\ DOMAIN job' = DOMAIN job /\ job'.rules = job.rules
           /\ job'.repo \in {PolicyIn(file), {[DefaultPolicy EXCEPT !.overrides = job.urls]}}
    BY <1>3, <2>1 DEF ReadRules, PolicyInv, JobInv
  <2> QED BY <2>1, <2>2, <2>3 DEF PolicyInv, JobInv
<1>4. CASE ResolveMode
  BY <1>4, NotIdle, SameRulesKeep DEF ResolveMode, SameRules, PolicyInv, JobInv
<1>5. CASE ScoreSource \/ ScoreSourceFails
  BY <1>5, NotIdle, SameRulesKeep DEF ScoreSource, ScoreSourceFails, SameRules, PolicyInv, JobInv
<1>6. CASE BuildSbom \/ BuildSbomFails
  BY <1>6, NotIdle, SameRulesKeep DEF BuildSbom, BuildSbomFails, SameRules, PolicyInv, JobInv
<1>7. CASE \E i \in SUBSET DOMAIN Covers : ExcludeDirectories(i)
  BY <1>7, NotIdle, SameRulesKeep DEF ExcludeDirectories, SameRules, PolicyInv, JobInv
<1>8. CASE \E failing \in SUBSET MayFail : Audit(failing)
  BY <1>8, NotIdle, SameRulesKeep DEF Audit, SameRules, PolicyInv, JobInv
<1>9. CASE AuditFails
  BY <1>9, NotIdle, SameRulesKeep DEF AuditFails, SameRules, PolicyInv, JobInv
<1>10. CASE Report \/ ReportFails
  BY <1>10, NotIdle, SameRulesKeep DEF Report, ReportFails, SameRules, PolicyInv, JobInv
<1>11. CASE Verdict
  BY <1>11, NotIdle, SameRulesKeep DEF Verdict, SameRules, PolicyInv, JobInv
<1> QED BY <1>1, <1>2, <1>3, <1>4, <1>5, <1>6, <1>7, <1>8, <1>9, <1>10, <1>11 DEF Scan

LEMMA WrittenIn ==
  ASSUME NEW p
  PROVE  PolicyIn(Written(p)) = {p}
BY DEF PolicyIn, Written

\* What init and add-expected-failures decide at their prompts, and write.
LEMMA PromptsKeep ==
  ASSUME PolicyInv, Prompts
  PROVE  PolicyInv'
<1> USE DEF outside, Finish
<1>0. job # Idle /\ JobInv(job) /\ now \in Nat /\ UNCHANGED now
  BY DEF Prompts, PolicyInv, CorrectURLs, TuneSeverities, TuneFails, Triage, InitWithoutTerminal,
         Acknowledge, AcknowledgeNothing
<1>1. CASE \E chosen \in SUBSET NotFoundKeys(job.results), url \in Urls : CorrectURLs(chosen, url)
  BY <1>0, <1>1, SameRulesKeep DEF CorrectURLs, SameRules, JobInv
<1>2. CASE \E changed \in SUBSET TuneTargets(job.results), s \in Severities : TuneSeverities(changed, s)
  <2>1. PICK changed \in SUBSET TuneTargets(job.results), s \in Severities : TuneSeverities(changed, s)
    BY <1>2
  <2>2. /\ file' = file /\ DOMAIN job' = DOMAIN job /\ job'.repo = job.repo
        /\ job'.rules = {CheckRule(c, s) : c \in changed}
    BY <1>0, <2>1 DEF TuneSeverities, JobInv
  <2>3. \A r \in job'.rules : IsRule(r) /\ ~ r.overlay
    BY <2>2, RulesAreRules, ZenonT(40) DEF CheckRule, CategoryRule
  <2> QED BY <1>0, <2>2, <2>3 DEF PolicyInv, JobInv
<1>3. CASE TuneFails \/ AcknowledgeNothing
  BY <1>0, <1>3, SameRulesKeep DEF TuneFails, AcknowledgeNothing, SameRules
<1>4. CASE \E errors \in SUBSET Errors(job.results), warnings \in SUBSET Warnings(job.results) :
             Triage(errors, warnings)
  <2>1. PICK errors, warnings : Triage(errors, warnings)
    BY <1>4
  <2> DEFINE p == TriagedPolicy(job.rules, job.urls, errors, warnings)
  <2>2. file' = Written(p) /\ job' = Idle
    BY <2>1 DEF Triage
  <2>3. IsFile(p)
    BY <1>0, MinimalIsPolicy, TablesStayDated DEF IsFile, IsPolicy, TriagedPolicy, JobInv
  <2> HIDE DEF p
  <2> QED BY <1>0, <2>2, <2>3, WrittenIn DEF PolicyInv
<1>5. CASE InitWithoutTerminal
  BY <1>0, <1>5, MinimalIsPolicy, WrittenIn DEF InitWithoutTerminal, PolicyInv
<1>6. CASE \E picked \in SUBSET job.results : Acknowledge(picked)
  <2>1. PICK picked : Acknowledge(picked)
    BY <1>6
  <2> DEFINE loaded == Loaded(job.repo)
             p == [loaded EXCEPT !.failures = UnionOf(@, Baseline(picked))]
  <2>2. file' = Written(p) /\ job' = Idle
    BY <2>1 DEF Acknowledge
  <2>3. IsFile(loaded)
    BY <1>0, LoadedIsFile DEF JobInv
  <2> HIDE DEF loaded
  <2>4. IsFile(p)
    BY <2>3, TablesStayDated DEF IsFile, IsPolicy
  <2> HIDE DEF p
  <2> QED BY <1>0, <2>2, <2>4, WrittenIn DEF PolicyInv
<1> QED BY <1>1, <1>2, <1>3, <1>4, <1>5, <1>6 DEF Prompts

LEMMA OthersKeep ==
  ASSUME PolicyInv, Commands \/ Surroundings \/ UNCHANGED vars
  PROVE  PolicyInv'
<1>1. CASE LoadFindings
  BY <1>1 DEF LoadFindings, NewJob, PolicyInv, JobInv
<1>2. CASE \E key \in Package, url \in Urls, force \in BOOLEAN : Override(key, url, force)
  <2>1. PICK key \in Package, url \in Urls, force \in BOOLEAN : Override(key, url, force)
    BY <1>2
  <2> DEFINE loaded == Loaded(PolicyIn(file))
             p == [loaded EXCEPT !.overrides = Overlaid(@, [k \in {key} |-> url])]
  <2>2. file' = Written(p) /\ UNCHANGED <<job, now>>
    BY <2>1 DEF Override
  <2>3. IsFile(loaded)
    BY LoadedIsFile DEF PolicyInv
  <2> HIDE DEF loaded
  <2>4. IsFile(p)
    BY <2>3 DEF IsPolicy, IsFile
  <2> HIDE DEF p
  <2> QED BY <2>2, <2>4, WrittenIn DEF PolicyInv
<1>3. CASE Surroundings
  <2>1. CASE \E f \in {Written(p) : p \in HandWritten} \cup {NoFile, BrokenFile} : EditFile(f)
    <3>1. PolicyIn(NoFile) = {} /\ PolicyIn(BrokenFile) = {}
      BY DEF PolicyIn, NoFile, BrokenFile
    <3>2. \A f \in {Written(p) : p \in HandWritten} \cup {NoFile, BrokenFile} :
            \A p \in PolicyIn(f) : IsFile(p)
      BY <3>1, WrittenIn, ScanAssumption
    <3> QED BY <2>1, <3>2 DEF EditFile, PolicyInv
  <2>2. CASE (\E c \in Codes : ChangeCode(c)) \/ Tick
    BY <2>2 DEF ChangeCode, Tick, PolicyInv
  <2> QED BY <1>3, <2>1, <2>2 DEF Surroundings
<1>4. CASE UNCHANGED vars
  BY <1>4 DEF vars, PolicyInv
<1> QED BY <1>1, <1>2, <1>3, <1>4 DEF Commands

\* Every policy that is read or written has only days for dates.
THEOREM PoliciesStayPolicies == Spec => []PolicyInv
<1>1. Init => PolicyInv
  BY DEF Init, PolicyInv, PolicyIn, NoFile
<1>2. PolicyInv /\ [Next]_vars => PolicyInv'
  BY ScanKeeps, PromptsKeep, OthersKeep DEF Next
<1> QED BY <1>1, <1>2, PTL DEF Spec

\* With the file unchanged, the passing of time only makes a grade stricter,
\* for every finding and whatever the policy (matcher.go:185,
\* evaluate_core.go:78): a build that was refused is not accepted by waiting.
THEOREM TimeTightens == Spec => TimeOnlyTightens
<1> DEFINE policy == Effective(PolicyIn(file))
<1>1. ASSUME PolicyInv, [Next]_vars, now' > now, NEW v \in Universe
      PROVE  Rank(Kind(policy, v, now)) <= Rank(Kind(policy, v, now'))
  <2>1. IsPolicy(policy)
    BY <1>1, EffectiveIsPolicy DEF PolicyInv, IsFile
  <2>2. now \in Nat /\ now' \in Nat
    BY <1>1, ScanKeeps, PromptsKeep, OthersKeep DEF PolicyInv, Next
  <2> QED BY <1>1, <2>1, <2>2, KindTightens
<1>2. PolicyInv /\ [Next]_vars =>
        [now' > now => \A v \in Universe : Rank(Kind(policy, v, now)) <= Rank(Kind(policy, v, now'))]_vars
  BY <1>1
<1> QED BY <1>2, PoliciesStayPolicies, PTL DEF Spec, TimeOnlyTightens

-------------------------------------------------------------------------------
(* Matching: of the keys that match, one is outranked by no other.             *)

LEMMA LeastNat ==
  ASSUME NEW T, T \subseteq Nat, T # {}
  PROVE  \E n \in T : \A m \in T : n <= m
<1>1. PICK n \in T : \A m \in T : ~ (<<m, n>> \in OpToRel(<, Nat))
  BY NatLessThanWellFounded, WFMin
<1>2. \A m \in T : ~ (m < n)
  BY <1>1 DEF OpToRel
<1> QED BY <1>2

LEMMA SpecificityRange ==
  ASSUME NEW k
  PROVE  EntitySpecificity(k) \in 0..3
BY DEF EntitySpecificity

\* Patterns that are longer than one, of finitely many.
Longer(p) == {q \in DOMAIN Glob : LengthOf[q] > LengthOf[p]}

LEMMA LongerShrinks ==
  ASSUME NEW p \in DOMAIN Glob, NEW q \in DOMAIN Glob, LengthOf[q] > LengthOf[p]
  PROVE  /\ Cardinality(Longer(p)) \in Nat /\ Cardinality(Longer(q)) \in Nat
         /\ Cardinality(Longer(q)) < Cardinality(Longer(p))
<1>1. LengthOf[p] \in Nat /\ LengthOf[q] \in Nat /\ \A x \in DOMAIN Glob : LengthOf[x] \in Nat
  BY GlobAssumption
<1>2. Longer(q) \subseteq Longer(p) /\ Longer(p) \subseteq DOMAIN Glob
  BY <1>1 DEF Longer
<1>3. q \in Longer(p) /\ q \notin Longer(q)
  BY <1>1 DEF Longer
<1>4. IsFiniteSet(Longer(p))
  BY <1>2, CheckAssumption, FS_Subset
<1>5. /\ IsFiniteSet(Longer(q)) /\ Cardinality(Longer(q)) <= Cardinality(Longer(p))
      /\ Cardinality(Longer(p)) = Cardinality(Longer(q)) => Longer(p) = Longer(q)
  BY <1>2, <1>4, FS_Subset
<1>6. Cardinality(Longer(p)) \in Nat /\ Cardinality(Longer(q)) \in Nat
  BY <1>4, <1>5, FS_CardinalityType
<1> QED BY <1>3, <1>5, <1>6

LEMMA LongerIsFinite ==
  ASSUME NEW p
  PROVE  Cardinality(Longer(p)) \in Nat
<1>1. IsFiniteSet(Longer(p))
  BY CheckAssumption, FS_Subset DEF Longer
<1> QED BY <1>1, FS_CardinalityType

LEMMA SomeKeyIsBest ==
  ASSUME NEW M, M # {}
  PROVE  \E k \in M : \A j \in M : ~ Outranks(j, k)
<1> DEFINE lack(k) == 3 - EntitySpecificity(k)
           top == {k \in M : \A j \in M : EntitySpecificity(j) <= EntitySpecificity(k)}
<1>1. top # {}
  <2>1. {lack(k) : k \in M} \subseteq Nat /\ {lack(k) : k \in M} # {}
    BY SpecificityRange
  <2>2. PICK n \in {lack(k) : k \in M} : \A m \in {lack(k) : k \in M} : n <= m
    BY <2>1, LeastNat
  <2>3. PICK k \in M : n = lack(k)
    BY <2>2
  <2>4. \A j \in M : lack(k) <= lack(j)
    BY <2>2, <2>3
  <2>5. \A j \in M : EntitySpecificity(j) <= EntitySpecificity(k)
    BY <2>4, SpecificityRange
  <2> QED BY <2>5
<1>2. \A j, k \in top : EntitySpecificity(j) = EntitySpecificity(k)
  BY SpecificityRange
<1>3. \A k \in top : \A j \in M : Outranks(j, k) =>
        j \in top /\ IsPattern(j.name) /\ IsPattern(k.name) /\ LengthOf[j.name] > LengthOf[k.name]
  <2>1. ASSUME NEW k \in top, NEW j \in M, Outranks(j, k)
        PROVE  EntitySpecificity(j) = EntitySpecificity(k)
    BY <2>1, SpecificityRange DEF Outranks
  <2>2. ASSUME NEW k \in top, NEW j \in M, Outranks(j, k)
        PROVE  j \in top
    BY <2>1, <2>2
  <2>3. ASSUME NEW k \in top, NEW j \in M, Outranks(j, k)
        PROVE  IsPattern(j.name) /\ IsPattern(k.name) /\ LengthOf[j.name] > LengthOf[k.name]
    <3>1. EntitySpecificity(j) = EntitySpecificity(k) /\ EntitySpecificity(k) \in 0..3
      BY <2>1, <2>3, SpecificityRange
    <3> QED BY <2>3, <3>1 DEF Outranks
  <2> QED BY <2>2, <2>3
<1> HIDE DEF top
<1>4. PICK n \in {Cardinality(Longer(k.name)) : k \in top} :
        \A m \in {Cardinality(Longer(k.name)) : k \in top} : n <= m
  <2>1. {Cardinality(Longer(k.name)) : k \in top} \subseteq Nat
    BY LongerIsFinite
  <2>2. {Cardinality(Longer(k.name)) : k \in top} # {}
    BY <1>1
  <2> QED BY <2>1, <2>2, LeastNat
<1>5. PICK k \in top : n = Cardinality(Longer(k.name))
  BY <1>4
<1>6. ASSUME NEW j \in M, Outranks(j, k)
      PROVE  FALSE
  <2>1. /\ j \in top /\ j.name \in DOMAIN Glob /\ k.name \in DOMAIN Glob
        /\ LengthOf[j.name] > LengthOf[k.name]
    BY <1>3, <1>6 DEF IsPattern
  <2>2. /\ Cardinality(Longer(j.name)) < Cardinality(Longer(k.name))
        /\ Cardinality(Longer(j.name)) \in Nat /\ Cardinality(Longer(k.name)) \in Nat
    BY <2>1, LongerShrinks
  <2>3. Cardinality(Longer(k.name)) <= Cardinality(Longer(j.name))
    BY <1>4, <1>5, <2>1
  <2> QED BY <2>2, <2>3
<1>7. k \in M
  BY <1>5 DEF top
<1> QED BY <1>6, <1>7

\* Of matching acknowledgments, some apply.
LEMMA SomeAckApplies ==
  ASSUME NEW table, NEW v, MatchingKeys(table, v) # {}
  PROVE  Acks(table, v) # {}
<1>1. AckKeys(table, v) # {}
  BY SomeKeyIsBest DEF AckKeys
<1> QED BY <1>1 DEF Acks

-------------------------------------------------------------------------------
(* What a grade depends on.                                                    *)

LEMMA SeverityIsOne ==
  ASSUME NEW p, IsPolicy(p), NEW v, NEW t \in Int
  PROVE  Severity(p, v, t) \in Severities
BY SeverityTightens

LEMMA SameGrade ==
  ASSUME NEW p, IsPolicy(p), NEW q, IsPolicy(q), NEW v, NEW t \in Int,
         Severity(p, v, t) = Severity(q, v, t),
         Acks(p.failures, v) = {} <=> Acks(q.failures, v) = {},
         FailureKind(p, v, t) = FailureKind(q, v, t),
         WarningKind(p, v, t) = WarningKind(q, v, t)
  PROVE  Kind(p, v, t) = Kind(q, v, t)
<1>1. Severity(p, v, t) \in Severities /\ Severity(q, v, t) \in Severities
  BY SeverityIsOne
<1> QED BY <1>1, KindByCases DEF Severities

\* Two tables that apply the same keys, with the same dates, grade alike.
LEMMA SameAcks ==
  ASSUME NEW a, NEW b, NEW v, NEW t,
         AckKeys(a, v) = AckKeys(b, v),
         \A k \in AckKeys(a, v) : Lapsed(a[k], t) <=> Lapsed(b[k], t)
  PROVE  /\ Acks(a, v) = {} <=> Acks(b, v) = {}
         /\ (\E ack \in Acks(a, v) : Lapsed(ack, t)) <=> \E ack \in Acks(b, v) : Lapsed(ack, t)
         /\ (\E ack \in Acks(a, v) : ~ Lapsed(ack, t)) <=> \E ack \in Acks(b, v) : ~ Lapsed(ack, t)
BY DEF Acks

\* Two policies with one set of rules that apply the same entries.
LEMMA SameEntries ==
  ASSUME NEW p, IsPolicy(p), NEW q, IsPolicy(q), NEW v, NEW t \in Int,
         Severity(p, v, t) = Severity(q, v, t),
         AckKeys(p.failures, v) = AckKeys(q.failures, v),
         \A k \in AckKeys(p.failures, v) : Lapsed(p.failures[k], t) <=> Lapsed(q.failures[k], t),
         AckKeys(p.warnings, v) = AckKeys(q.warnings, v),
         \A k \in AckKeys(p.warnings, v) : Lapsed(p.warnings[k], t) <=> Lapsed(q.warnings[k], t)
  PROVE  Kind(p, v, t) = Kind(q, v, t)
<1>1. /\ Acks(p.failures, v) = {} <=> Acks(q.failures, v) = {}
      /\ (\E ack \in Acks(p.failures, v) : Lapsed(ack, t)) <=> \E ack \in Acks(q.failures, v) : Lapsed(ack, t)
  BY SameAcks
<1>2. (\E ack \in Acks(p.warnings, v) : ~ Lapsed(ack, t)) <=> \E ack \in Acks(q.warnings, v) : ~ Lapsed(ack, t)
  BY SameAcks
<1>3. FailureKind(p, v, t) = FailureKind(q, v, t)
  BY <1>1 DEF FailureKind
<1>4. WarningKind(p, v, t) = WarningKind(q, v, t)
  BY <1>2 DEF WarningKind
<1> QED BY <1>1, <1>3, <1>4, SameGrade

\* A table over an empty one.
LEMMA OverNothing ==
  ASSUME NEW table
  PROVE  /\ DOMAIN Overlaid(NoTable, table) = DOMAIN table
         /\ \A k \in DOMAIN table : Overlaid(NoTable, table)[k] = table[k]
         /\ \A v : AckKeys(Overlaid(NoTable, table), v) = AckKeys(table, v)
<1>1. DOMAIN Overlaid(NoTable, table) = DOMAIN table
  BY DEF Overlaid, NoTable
<1>2. \A k \in DOMAIN table : Overlaid(NoTable, table)[k] = table[k]
  BY DEF Overlaid, NoTable
<1>3. \A v : MatchingKeys(Overlaid(NoTable, table), v) = MatchingKeys(table, v)
  BY <1>1, <1>2 DEF MatchingKeys
<1>4. \A v : AckKeys(Overlaid(NoTable, table), v) = AckKeys(table, v)
  <2> DEFINE over == Overlaid(NoTable, table)
  <2>1. \A v : {k \in DOMAIN over \cap {Root} : v.depth = 0 /\ ChecksContain(over[k].checks, v.check)}
               = {k \in DOMAIN table \cap {Root} : v.depth = 0 /\ ChecksContain(table[k].checks, v.check)}
    BY <1>1, <1>2
  <2> HIDE DEF over
  <2> QED BY <1>3, <2>1 DEF AckKeys, over
<1> QED BY <1>1, <1>2, <1>4

\* The policy that grades, by the file.
LEMMA EffectiveByFile ==
  /\ Effective({}) = DefaultPolicy
  /\ \A p : Effective({p}) = Merge(DefaultPolicy, p)
<1>1. Resolve({}, {}, {}) = {DefaultPolicy}
  BY DEF Resolve
<1>2. \A p : Resolve({}, {p}, {}) = {Merge(DefaultPolicy, p)}
  BY DEF Resolve
<1> QED BY <1>1, <1>2 DEF Effective

LEMMA DefaultRulesAreOfOneLayer == Layer(DefaultPolicy.rules, FALSE) = DefaultPolicy.rules
<1>1. ASSUME NEW category, NEW severity, NEW depth
      PROVE  [CategoryRule(category, severity, depth) EXCEPT !.overlay = FALSE]
             = CategoryRule(category, severity, depth)
  <2> DEFINE r == CategoryRule(category, severity, depth)
  <2>1. r = [x \in DOMAIN r |-> r[x]] /\ r.overlay = FALSE
    BY DEF CategoryRule
  <2> HIDE DEF r
  <2>2. [r EXCEPT !.overlay = FALSE] = r
    BY <2>1
  <2> QED BY <2>2 DEF r
<1>2. \A r \in DefaultPolicy.rules : [r EXCEPT !.overlay = FALSE] = r
  BY <1>1 DEF DefaultPolicy
<1> DEFINE rules == DefaultPolicy.rules
<1>3. \A r \in rules : [r EXCEPT !.overlay = FALSE] = r
  BY <1>2
<1> HIDE DEF rules
<1>4. {[r EXCEPT !.overlay = FALSE] : r \in rules} = rules
  BY <1>3
<1> QED BY <1>4 DEF Layer, rules

\* The rules of a file, and of the file as it is written back, grade the same.
LEMMA WrittenBackRules ==
  ASSUME NEW p, IsFile(p)
  PROVE  Layer(ToPolicy(p).rules, TRUE) = Layer(p.rules, TRUE)
<1> DEFINE kept == {r \in p.rules : r.overlay \/ \A q \in p.rules : SamePath(q, r) => ~q.overlay}
           shown == {[r EXCEPT !.overlay = FALSE] : r \in kept}
<1>1. kept = p.rules
  BY DEF IsFile
<1>2. ToPolicy(p).rules = shown
  BY DEF ToPolicy, IsFile, IsPolicy
<1>3. \A r : [[r EXCEPT !.overlay = FALSE] EXCEPT !.overlay = TRUE] = [r EXCEPT !.overlay = TRUE]
  OBVIOUS
<1>4. Layer(shown, TRUE) = {[r EXCEPT !.overlay = TRUE] : r \in kept}
  <2> DEFINE off(r) == [r EXCEPT !.overlay = FALSE]
             on(r) == [r EXCEPT !.overlay = TRUE]
  <2>1. \A r : on(off(r)) = on(r)
    BY <1>3
  <2>2. shown = {off(r) : r \in kept} /\ Layer(shown, TRUE) = {on(r) : r \in shown}
    BY DEF Layer
  <2> HIDE DEF on, off, kept, shown
  <2>3. \A r \in kept : off(r) \in shown
    BY <2>2
  <2>4. \A x \in shown : \E r \in kept : on(x) = on(r)
    BY <2>1, <2>2
  <2>5. \A r \in kept : on(r) \in {on(x) : x \in shown}
    BY <2>1, <2>3
  <2>6. {on(x) : x \in shown} = {on(r) : r \in kept}
    BY <2>4, <2>5
  <2>7. Layer(shown, TRUE) = {on(r) : r \in kept}
    BY <2>2, <2>6
  <2> QED BY <2>7 DEF on
<1> QED BY <1>1, <1>2, <1>4 DEF Layer

-------------------------------------------------------------------------------
(* Acknowledging.                                                              *)

\* A result names the tree, or a package by a name that is no pattern.
IsResult(r) ==
  /\ {"name", "check", "level"} \subseteq DOMAIN r
  /\ r.check \in Check \cup {AuditError}
  /\ r.name.name \notin SourceNames => r.name.name \notin DOMAIN Glob \cup {Root.name}

\* What the universe of violations consists of.
LEMMA UniverseForms ==
  ASSUME NEW v \in Universe
  PROVE  /\ v.check \in Check
         /\ \/ v.entity = RootKey /\ v.depth = 0
            \/ /\ v.depth = 1 /\ v.entity # RootKey
               /\ v.entity.name \notin SourceNames \cup DOMAIN Glob \cup {Root.name}
<1>1. CASE v \in Violations(RootKey, Check, 0)
  BY <1>1 DEF Violations
<1>2. CASE v \in UNION {Violations(e, Check, 1) : e \in Analyses}
  <2>1. PICK e \in Analyses : v \in Violations(e, Check, 1)
    BY <1>2
  <2>2. PICK key \in Package : \E o : e = [key EXCEPT !.query = Respelt(@) \cup o]
    BY DEF Analyses
  <2>3. IsPackageKey(key)
    BY KeyAssumption
  <2>4. e.name = key.name
    <3>1. key = [name |-> key.name, query |-> key.query]
      BY <2>3 DEF IsPackageKey
    <3>2. "name" \in DOMAIN key
      BY <3>1
    <3> QED BY <2>2, <3>2
  <2>5. v.entity = e /\ v.depth = 1 /\ v.check \in Check
    BY <2>1 DEF Violations
  <2>6. key.name \notin SourceNames \cup DOMAIN Glob \cup {Root.name}
    BY <2>3 DEF IsPackageKey
  <2> QED BY <2>4, <2>5, <2>6, KeyAssumption
<1> QED BY <1>1, <1>2 DEF Universe

\* A name that is no pattern matches itself alone.
LEMMA Literally ==
  ASSUME NEW checks, NEW c \in Check \cup {AuditError}
  PROVE  c \in checks => ChecksContain(checks, c)
<1>1. ~ IsPattern(c)
  BY CheckAssumption DEF IsPattern
<1>2. MatchesPattern(c, c)
  BY <1>1 DEF MatchesPattern
<1> QED BY <1>2 DEF ChecksContain

\* The entries for picked results: under keys and with checks that are no patterns.
LEMMA BaselineEntries ==
  ASSUME NEW picked, \A r \in picked : IsResult(r)
  PROVE  \A k \in DOMAIN Baseline(picked) :
           /\ k = Root \/ k.name \notin SourceNames \cup DOMAIN Glob \cup {Root.name}
           /\ Baseline(picked)[k].checks \subseteq Check \cup {AuditError}
           /\ Baseline(picked)[k].expires = {}
<1> DEFINE of(k) == {r.check : r \in {r \in picked : EntityKey(r) = k}}
<1>1. /\ DOMAIN Baseline(picked) = {EntityKey(r) : r \in picked}
      /\ \A k \in DOMAIN Baseline(picked) : Baseline(picked)[k] = [checks |-> of(k), expires |-> {}]
  BY DEF Baseline
<1>2. \A k : of(k) \subseteq Check \cup {AuditError}
  BY DEF IsResult
<1> HIDE DEF of
<1>4. ASSUME NEW k \in DOMAIN Baseline(picked)
      PROVE  Baseline(picked)[k].checks = of(k) /\ Baseline(picked)[k].expires = {}
  <2>1. Baseline(picked)[k] = [checks |-> of(k), expires |-> {}]
    BY <1>1
  <2> QED BY <2>1
<1>3. ASSUME NEW k \in DOMAIN Baseline(picked)
      PROVE  k = Root \/ k.name \notin SourceNames \cup DOMAIN Glob \cup {Root.name}
  <2>1. PICK r \in picked : k = EntityKey(r)
    BY <1>1
  <2>2. IsResult(r)
    BY <2>1
  <2>3. CASE r.name.name \in SourceNames
    BY <2>1, <2>3 DEF EntityKey
  <2>4. CASE r.name.name \notin SourceNames
    <3>1. k = r.name
      BY <2>1, <2>4 DEF EntityKey
    <3> QED BY <2>2, <2>4, <3>1 DEF IsResult
  <2> QED BY <2>3, <2>4
<1> QED BY <1>2, <1>3, <1>4

\* Two tables with the checks of both.
LEMMA UnionEntries ==
  ASSUME NEW old, NEW picks
  PROVE  /\ DOMAIN UnionOf(old, picks) = DOMAIN old \cup DOMAIN picks
         /\ \A k \in DOMAIN UnionOf(old, picks) : \A c :
              c \in UnionOf(old, picks)[k].checks <=>
                \/ k \in DOMAIN old /\ c \in old[k].checks
                \/ k \in DOMAIN picks /\ c \in picks[k].checks
         /\ \A k \in DOMAIN UnionOf(old, picks) :
              UnionOf(old, picks)[k].expires = IF k \in DOMAIN old THEN old[k].expires ELSE {}
<1> DEFINE both(k) == UNION {t[k].checks : t \in {t \in {old, picks} : k \in DOMAIN t}}
<1>1. /\ DOMAIN UnionOf(old, picks) = DOMAIN old \cup DOMAIN picks
      /\ \A k \in DOMAIN UnionOf(old, picks) :
           UnionOf(old, picks)[k] = [checks |-> both(k),
                                     expires |-> IF k \in DOMAIN old THEN old[k].expires ELSE {}]
  BY DEF UnionOf
<1>2. ASSUME NEW k, NEW c
      PROVE  c \in both(k) <=> \/ k \in DOMAIN old /\ c \in old[k].checks
                               \/ k \in DOMAIN picks /\ c \in picks[k].checks
  OBVIOUS
<1> HIDE DEF both
<1>3. ASSUME NEW k \in DOMAIN UnionOf(old, picks)
      PROVE  /\ UnionOf(old, picks)[k].checks = both(k)
             /\ UnionOf(old, picks)[k].expires = IF k \in DOMAIN old THEN old[k].expires ELSE {}
  <2>1. UnionOf(old, picks)[k] = [checks |-> both(k),
                                  expires |-> IF k \in DOMAIN old THEN old[k].expires ELSE {}]
    BY <1>1
  <2> QED BY <2>1
<1> QED BY <1>1, <1>2, <1>3

\* The keys under which a violation is acknowledged by its own name.
IsKeyFor(k, v) ==
  IF v.entity = RootKey THEN k = Root
  ELSE k.name = v.entity.name /\ k.query \in {{}, v.entity.query}

\* Adding the picks changes which entries apply only to what they are for.
LEMMA PicksApplyToTheirOwn ==
  ASSUME NEW old, NEW picked, \A r \in picked : IsResult(r), NEW v \in Universe,
         \A k \in DOMAIN UnionOf(old, Baseline(picked)) :
           IsKeyFor(k, v) /\ v.check \in UnionOf(old, Baseline(picked))[k].checks
             => k \in DOMAIN old /\ v.check \in old[k].checks
  PROVE  AckKeys(UnionOf(old, Baseline(picked)), v) = AckKeys(old, v)
<1> DEFINE picks == Baseline(picked)
           new == UnionOf(old, picks)
<1>1. \A k \in DOMAIN picks :
        /\ k = Root \/ k.name \notin SourceNames \cup DOMAIN Glob \cup {Root.name}
        /\ picks[k].checks \subseteq Check \cup {AuditError}
  BY BaselineEntries
<1>2. /\ DOMAIN new = DOMAIN old \cup DOMAIN picks
      /\ \A k \in DOMAIN new : \A c :
           c \in new[k].checks <=> \/ k \in DOMAIN old /\ c \in old[k].checks
                                   \/ k \in DOMAIN picks /\ c \in picks[k].checks
  BY UnionEntries
<1>3. /\ v.check \in Check
      /\ \/ v.entity = RootKey /\ v.depth = 0
         \/ v.depth = 1 /\ v.entity # RootKey /\ v.entity.name \notin SourceNames
  BY UniverseForms
<1>4. \A k \in DOMAIN new : IsKeyFor(k, v) /\ v.check \in new[k].checks
                              => k \in DOMAIN old /\ v.check \in old[k].checks
  OBVIOUS
<1> HIDE DEF picks, new
<1>5. ASSUME NEW k \in DOMAIN new, ChecksContain(new[k].checks, v.check),
             ~ (k \in DOMAIN old /\ ChecksContain(old[k].checks, v.check))
      PROVE  k \in DOMAIN picks /\ v.check \in new[k].checks
  <2>1. PICK c \in new[k].checks : MatchesPattern(c, v.check)
    BY <1>5 DEF ChecksContain
  <2>2. k \in DOMAIN picks /\ c \in picks[k].checks
    BY <1>2, <1>5, <2>1 DEF ChecksContain
  <2>3. ~ IsPattern(c)
    BY <1>1, <2>2, CheckAssumption DEF IsPattern
  <2>4. c = v.check
    BY <2>1, <2>3 DEF MatchesPattern
  <2> QED BY <2>1, <2>2, <2>4
<1>6. ASSUME NEW k \in DOMAIN old, ChecksContain(old[k].checks, v.check)
      PROVE  k \in DOMAIN new /\ ChecksContain(new[k].checks, v.check)
  BY <1>2, <1>6 DEF ChecksContain
<1>7. ASSUME NEW k \in MatchingKeys(new, v)
      PROVE  k \in MatchingKeys(old, v)
  <2>1. /\ k \in DOMAIN new /\ k # Root
        /\ EntityMatches(k, v.entity) /\ ChecksContain(new[k].checks, v.check)
    BY <1>7 DEF MatchingKeys
  <2>2. SUFFICES ASSUME ~ (k \in DOMAIN old /\ ChecksContain(old[k].checks, v.check)) PROVE FALSE
    BY <2>1 DEF MatchingKeys
  <2>3. k \in DOMAIN picks /\ v.check \in new[k].checks
    BY <1>5, <2>1, <2>2
  <2>4. k.name \notin SourceNames \cup DOMAIN Glob
    BY <1>1, <2>1, <2>3
  <2>5. k.name = v.entity.name /\ k.query \in {{}, v.entity.query}
    BY <2>1, <2>4 DEF EntityMatches, MatchesPattern, IsPattern
  <2>6. v.entity # RootKey
    BY <2>4, <2>5, KeyAssumption
  <2>7. k \in DOMAIN old /\ v.check \in old[k].checks
    BY <1>4, <2>1, <2>3, <2>5, <2>6 DEF IsKeyFor
  <2> QED BY <1>3, <2>2, <2>7, Literally
<1>8. MatchingKeys(new, v) = MatchingKeys(old, v)
  BY <1>6, <1>7 DEF MatchingKeys
<1>9. ASSUME Root \in DOMAIN new, v.depth = 0, ChecksContain(new[Root].checks, v.check)
      PROVE  Root \in DOMAIN old /\ ChecksContain(old[Root].checks, v.check)
  <2>1. SUFFICES ASSUME ~ (Root \in DOMAIN old /\ ChecksContain(old[Root].checks, v.check)) PROVE FALSE
    OBVIOUS
  <2>2. v.check \in new[Root].checks
    BY <1>5, <1>9, <2>1
  <2>3. IsKeyFor(Root, v)
    BY <1>3, <1>9 DEF IsKeyFor
  <2>4. Root \in DOMAIN old /\ v.check \in old[Root].checks
    BY <1>4, <1>9, <2>2, <2>3
  <2> QED BY <1>3, <2>1, <2>4, Literally
<1>10. {k \in DOMAIN new \cap {Root} : v.depth = 0 /\ ChecksContain(new[k].checks, v.check)}
       = {k \in DOMAIN old \cap {Root} : v.depth = 0 /\ ChecksContain(old[k].checks, v.check)}
  BY <1>6, <1>9
<1>11. AckKeys(new, v) = AckKeys(old, v)
  BY <1>8, <1>10 DEF AckKeys
<1> QED BY <1>11 DEF new, picks

\* An entry with a violation's check, under a key that is for it, is applied.
LEMMA OwnEntryApplies ==
  ASSUME NEW table, NEW v, NEW k \in DOMAIN table, v.check \in Check, v.check \in table[k].checks,
         \/ k = Root /\ v.depth = 0
         \/ /\ k.name = v.entity.name /\ k.query \in {{}, v.entity.query}
            /\ v.entity.name \notin DOMAIN Glob \cup {Root.name}
  PROVE  Acks(table, v) # {}
<1>1. ChecksContain(table[k].checks, v.check)
  BY Literally
<1>2. CASE MatchingKeys(table, v) # {}
  BY <1>2, SomeAckApplies
<1>3. CASE MatchingKeys(table, v) = {} /\ k = Root /\ v.depth = 0
  <2>1. k \in AckKeys(table, v)
    BY <1>1, <1>3 DEF AckKeys
  <2> QED BY <2>1 DEF Acks
<1>4. ASSUME k.name = v.entity.name, k.query \in {{}, v.entity.query},
             v.entity.name \notin DOMAIN Glob \cup {Root.name}
      PROVE  MatchingKeys(table, v) # {}
  <2>1. EntityMatches(k, v.entity) /\ k # Root
    BY <1>4 DEF EntityMatches, MatchesPattern, IsPattern
  <2> QED BY <1>1, <2>1 DEF MatchingKeys
<1> QED BY <1>2, <1>3, <1>4

LEMMA MergedTables ==
  ASSUME NEW p
  PROVE  /\ Merge(DefaultPolicy, p).rules = Layer(DefaultPolicy.rules, FALSE) \cup Layer(p.rules, TRUE)
         /\ Merge(DefaultPolicy, p).failures = Overlaid(NoTable, p.failures)
         /\ Merge(DefaultPolicy, p).warnings = Overlaid(NoTable, p.warnings)
<1>1. DefaultPolicy.failures = NoTable /\ DefaultPolicy.warnings = NoTable
  BY DEF DefaultPolicy
<1>2. /\ Merge(DefaultPolicy, p).rules = Layer(DefaultPolicy.rules, FALSE) \cup Layer(p.rules, TRUE)
      /\ Merge(DefaultPolicy, p).failures = Overlaid(DefaultPolicy.failures, p.failures)
      /\ Merge(DefaultPolicy, p).warnings = Overlaid(DefaultPolicy.warnings, p.warnings)
  BY DEF Merge
<1> QED BY <1>1, <1>2

\* The policy that grades by a file, and the file as a command loads it.
LEMMA LoadedGrades ==
  ASSUME NEW repo, \A p \in repo : IsFile(p), \A p, q \in repo : p = q
  PROVE  /\ Effective(repo).rules = Layer(DefaultPolicy.rules, FALSE) \cup Layer(Loaded(repo).rules, TRUE)
         /\ \A v : AckKeys(Effective(repo).failures, v) = AckKeys(Loaded(repo).failures, v)
         /\ \A v : AckKeys(Effective(repo).warnings, v) = AckKeys(Loaded(repo).warnings, v)
         /\ \A k \in DOMAIN Loaded(repo).failures : Effective(repo).failures[k] = Loaded(repo).failures[k]
         /\ \A k \in DOMAIN Loaded(repo).warnings : Effective(repo).warnings[k] = Loaded(repo).warnings[k]
         /\ \A p \in repo : Loaded(repo).failures = p.failures
         /\ repo = {} => Loaded(repo).failures = NoTable
<1>1. CASE repo = {}
  <2>1. Effective(repo) = DefaultPolicy /\ Loaded(repo) = MinimalPolicy
    BY <1>1, EffectiveByFile DEF Loaded
  <2>2. /\ MinimalPolicy.failures = NoTable /\ MinimalPolicy.warnings = NoTable
        /\ DefaultPolicy.failures = NoTable /\ DefaultPolicy.warnings = NoTable
        /\ MinimalPolicy.rules = {}
    BY DEF MinimalPolicy, DefaultPolicy
  <2>3. Layer({}, TRUE) = {}
    BY DEF Layer
  <2> QED BY <1>1, <2>1, <2>2, <2>3, DefaultRulesAreOfOneLayer
<1>2. ASSUME NEW p \in repo
      PROVE  /\ Effective(repo).rules = Layer(DefaultPolicy.rules, FALSE) \cup Layer(Loaded(repo).rules, TRUE)
             /\ \A v : AckKeys(Effective(repo).failures, v) = AckKeys(Loaded(repo).failures, v)
             /\ \A v : AckKeys(Effective(repo).warnings, v) = AckKeys(Loaded(repo).warnings, v)
             /\ \A k \in DOMAIN Loaded(repo).failures : Effective(repo).failures[k] = Loaded(repo).failures[k]
             /\ \A k \in DOMAIN Loaded(repo).warnings : Effective(repo).warnings[k] = Loaded(repo).warnings[k]
             /\ Loaded(repo).failures = p.failures
  <2>1. repo = {p}
    BY <1>2
  <2>2. Effective(repo) = Merge(DefaultPolicy, p) /\ Loaded(repo) = ToPolicy(p)
    BY <2>1, EffectiveByFile DEF Loaded
  <2>3. ToPolicy(p).failures = p.failures /\ ToPolicy(p).warnings = p.warnings
    BY DEF ToPolicy, IsFile, IsPolicy
  <2>4. Layer(ToPolicy(p).rules, TRUE) = Layer(p.rules, TRUE)
    BY WrittenBackRules
  <2>5. /\ Effective(repo).rules = Layer(DefaultPolicy.rules, FALSE) \cup Layer(Loaded(repo).rules, TRUE)
        /\ Effective(repo).failures = Overlaid(NoTable, p.failures)
        /\ Effective(repo).warnings = Overlaid(NoTable, p.warnings)
        /\ Loaded(repo).failures = p.failures /\ Loaded(repo).warnings = p.warnings
    BY <2>2, <2>3, <2>4, MergedTables
  <2> QED BY <2>5, OverNothing
<1> QED BY <1>1, <1>2

LEMMA KeysAreEntries ==
  ASSUME NEW table, NEW v
  PROVE  AckKeys(table, v) \subseteq DOMAIN table
BY DEF AckKeys, MatchingKeys

\* A policy that differs from the file in the table of expected failures alone.
DiffersInFailures(repo, q) ==
  /\ \A v, t : Severity(Effective({q}), v, t) = Severity(Effective(repo), v, t)
  /\ \A v : AckKeys(Effective({q}).failures, v) = AckKeys(q.failures, v)
  /\ \A k \in DOMAIN q.failures : Effective({q}).failures[k] = q.failures[k]
  /\ \A v : /\ AckKeys(Effective({q}).warnings, v) = AckKeys(Effective(repo).warnings, v)
            /\ \A k \in AckKeys(Effective(repo).warnings, v) :
                 Effective({q}).warnings[k] = Effective(repo).warnings[k]

LEMMA SameElsewhere ==
  ASSUME NEW repo, \A p \in repo : IsFile(p), \A p, q \in repo : p = q,
         NEW q, q.rules = Loaded(repo).rules, q.warnings = Loaded(repo).warnings
  PROVE  DiffersInFailures(repo, q)
<1> DEFINE loaded == Loaded(repo)
<1>1. /\ Effective(repo).rules = Layer(DefaultPolicy.rules, FALSE) \cup Layer(loaded.rules, TRUE)
      /\ \A v : AckKeys(Effective(repo).warnings, v) = AckKeys(loaded.warnings, v)
      /\ \A k \in DOMAIN loaded.warnings : Effective(repo).warnings[k] = loaded.warnings[k]
      /\ q.rules = loaded.rules /\ q.warnings = loaded.warnings
  BY LoadedGrades
<1> HIDE DEF loaded
<1>2. Effective({q}) = Merge(DefaultPolicy, q)
  BY EffectiveByFile
<1>3. /\ Effective({q}).rules = Effective(repo).rules
      /\ Effective({q}).failures = Overlaid(NoTable, q.failures)
      /\ Effective({q}).warnings = Overlaid(NoTable, loaded.warnings)
  BY <1>1, <1>2, MergedTables
<1>4. \A v, t : Severity(Effective({q}), v, t) = Severity(Effective(repo), v, t)
  BY <1>3 DEF Severity
<1>5. /\ \A v : AckKeys(Effective({q}).failures, v) = AckKeys(q.failures, v)
      /\ \A k \in DOMAIN q.failures : Effective({q}).failures[k] = q.failures[k]
  BY <1>3, OverNothing
<1>6. ASSUME NEW v
      PROVE  /\ AckKeys(Effective({q}).warnings, v) = AckKeys(Effective(repo).warnings, v)
             /\ \A k \in AckKeys(Effective(repo).warnings, v) :
                  Effective({q}).warnings[k] = Effective(repo).warnings[k]
  <2>1. AckKeys(Overlaid(NoTable, loaded.warnings), v) = AckKeys(loaded.warnings, v)
    BY OverNothing
  <2>2. AckKeys(loaded.warnings, v) \subseteq DOMAIN loaded.warnings
    BY KeysAreEntries
  <2>3. \A k \in DOMAIN loaded.warnings : Overlaid(NoTable, loaded.warnings)[k] = loaded.warnings[k]
    BY OverNothing
  <2> QED BY <1>1, <1>3, <2>1, <2>2, <2>3
<1> QED BY <1>4, <1>5, <1>6 DEF DiffersInFailures

LEMMA KindIsIgnored ==
  ASSUME NEW p, IsPolicy(p), NEW v, NEW t \in Int
  PROVE  Kind(p, v, t) = "ignored" <=> Severity(p, v, t) = "ignore"
<1>1. /\ Severity(p, v, t) \in Severities
      /\ FailureKind(p, v, t) \in {"expired", "acknowledged"}
      /\ WarningKind(p, v, t) \in {"warning", "acknowledged"}
  BY SeverityIsOne, FailureKindTightens, WarningKindTightens
<1> QED BY <1>1, KindByCases DEF Severities

LEMMA AcknowledgingOne ==
  ASSUME NEW repo, \A p \in repo : IsFile(p), \A p, q \in repo : p = q,
         NEW picked, \A r \in picked : IsResult(r), NEW v \in Universe, NEW t \in Int
  PROVE  LET q == [Loaded(repo) EXCEPT !.failures = UnionOf(@, Baseline(picked))]
             before == Effective(repo)
             after == Effective({q})
             Added(k) == /\ v.check \in q.failures[k].checks
                         /\ \A p \in repo : k \in DOMAIN p.failures => v.check \notin p.failures[k].checks
         IN  IF Kind(before, v, t) = "ignored" \/ ~ \E k \in DOMAIN q.failures : IsKeyFor(k, v) /\ Added(k)
             THEN Kind(after, v, t) = Kind(before, v, t)
             ELSE \/ Kind(after, v, t) = "acknowledged"
                  \/ /\ Kind(after, v, t) = "expired"
                     /\ \E p \in repo : \E k \in DOMAIN p.failures : Lapsed(p.failures[k], t)
<1> DEFINE old == Loaded(repo).failures
           table == UnionOf(old, Baseline(picked))
           q == [Loaded(repo) EXCEPT !.failures = table]
           before == Effective(repo)
           after == Effective({q})
           Added(k) == /\ v.check \in q.failures[k].checks
                       /\ \A p \in repo : k \in DOMAIN p.failures => v.check \notin p.failures[k].checks
<1>1. IsDated(old) /\ IsDated(table)
  BY LoadedIsFile, TablesStayDated DEF IsFile, IsPolicy
<1>2. /\ IsFile(q) /\ q.failures = table
      /\ Severity(after, v, t) = Severity(before, v, t)
      /\ AckKeys(after.failures, v) = AckKeys(table, v)
      /\ \A k \in DOMAIN table : after.failures[k] = table[k]
      /\ AckKeys(after.warnings, v) = AckKeys(before.warnings, v)
      /\ \A k \in AckKeys(before.warnings, v) : after.warnings[k] = before.warnings[k]
  <2> DEFINE loaded == Loaded(repo)
  <2>1. IsFile(loaded)
    BY LoadedIsFile
  <2> HIDE DEF loaded, table
  <2>2. [loaded EXCEPT !.failures = table].failures = table
    BY <2>1 DEF IsFile, IsPolicy
  <2>3. /\ [loaded EXCEPT !.failures = table].rules = loaded.rules
        /\ [loaded EXCEPT !.failures = table].warnings = loaded.warnings
    OBVIOUS
  <2>4. IsFile([loaded EXCEPT !.failures = table])
    BY <1>1, <2>1 DEF IsFile, IsPolicy
  <2>5. /\ IsFile(q) /\ q.failures = table
        /\ q.rules = Loaded(repo).rules /\ q.warnings = Loaded(repo).warnings
    BY <2>2, <2>3, <2>4 DEF loaded
  <2> HIDE DEF q
  <2>6. DiffersInFailures(repo, q)
    BY <2>5, SameElsewhere
  <2> QED BY <2>5, <2>6 DEF DiffersInFailures
<1>3. /\ AckKeys(before.failures, v) = AckKeys(old, v)
      /\ \A k \in DOMAIN old : before.failures[k] = old[k]
      /\ \A p \in repo : old = p.failures
      /\ repo = {} => old = NoTable
  BY LoadedGrades
<1>4. IsPolicy(before) /\ IsPolicy(after)
  <2>1. \A p \in repo : IsPolicy(p)
    BY DEF IsFile
  <2>2. IsPolicy(q)
    BY <1>2 DEF IsFile
  <2> HIDE DEF q
  <2> QED BY <2>1, <2>2, EffectiveIsPolicy
<1>5. /\ DOMAIN table = DOMAIN old \cup DOMAIN Baseline(picked)
      /\ \A k \in DOMAIN table : table[k].expires = IF k \in DOMAIN old THEN old[k].expires ELSE {}
  BY UnionEntries
<1>6. \A k \in DOMAIN old : Lapsed(table[k], t) <=> Lapsed(old[k], t)
  BY <1>5 DEF Lapsed
<1>7. \A k \in DOMAIN old : \E p \in repo : k \in DOMAIN p.failures /\ p.failures[k] = old[k]
  BY <1>3 DEF NoTable
<1>8. \A k : (\A p \in repo : k \in DOMAIN p.failures => v.check \notin p.failures[k].checks)
               <=> (k \in DOMAIN old => v.check \notin old[k].checks)
  BY <1>3, <1>7
<1>9. ASSUME ~ \E k \in DOMAIN q.failures : IsKeyFor(k, v) /\ Added(k)
      PROVE  Kind(after, v, t) = Kind(before, v, t)
  <2>1. \A k \in DOMAIN table : IsKeyFor(k, v) /\ v.check \in table[k].checks
                                  => k \in DOMAIN old /\ v.check \in old[k].checks
    BY <1>2, <1>8, <1>9
  <2>2. AckKeys(table, v) = AckKeys(old, v)
    <3> HIDE DEF old
    <3> QED BY <2>1, PicksApplyToTheirOwn
  <2>3. \A k \in AckKeys(before.failures, v) : Lapsed(before.failures[k], t) <=> Lapsed(after.failures[k], t)
    BY <1>2, <1>3, <1>5, <1>6, KeysAreEntries
  <2> HIDE DEF before, after, table, old
  <2> QED BY <1>2, <1>3, <1>4, <2>2, <2>3, SameEntries
<1>10. ASSUME Kind(before, v, t) = "ignored"
       PROVE  Kind(after, v, t) = "ignored"
  <2> HIDE DEF before, after
  <2> QED BY <1>2, <1>4, <1>10, KindIsIgnored
<1>11. ASSUME Kind(before, v, t) # "ignored", NEW k \in DOMAIN q.failures, IsKeyFor(k, v), Added(k)
       PROVE  \/ Kind(after, v, t) = "acknowledged"
              \/ /\ Kind(after, v, t) = "expired"
                 /\ \E p \in repo : \E j \in DOMAIN p.failures : Lapsed(p.failures[j], t)
  <2>1. k \in DOMAIN table /\ v.check \in table[k].checks
    BY <1>2, <1>11
  <2>2. Acks(table, v) # {}
    <3>1. /\ v.check \in Check
          /\ \/ k = Root /\ v.depth = 0
             \/ /\ k.name = v.entity.name /\ k.query \in {{}, v.entity.query}
                /\ v.entity.name \notin DOMAIN Glob \cup {Root.name}
      BY <1>11, UniverseForms DEF IsKeyFor
    <3> HIDE DEF table
    <3> QED BY <2>1, <3>1, OwnEntryApplies
  <2>3. Acks(after.failures, v) = Acks(table, v)
    <3>1. AckKeys(table, v) \subseteq DOMAIN table
      BY KeysAreEntries
    <3> HIDE DEF table, after
    <3> QED BY <1>2, <3>1 DEF Acks
  <2>4. Severity(after, v, t) \in Severities /\ Severity(after, v, t) # "ignore"
    <3> HIDE DEF before, after
    <3> QED BY <1>2, <1>4, <1>11, KindIsIgnored, SeverityIsOne
  <2>5. Kind(after, v, t) = FailureKind(after, v, t)
    <3> HIDE DEF after, table
    <3> QED BY <2>2, <2>3, <2>4, KindByCases
  <2>6. SUFFICES ASSUME FailureKind(after, v, t) # "acknowledged"
                 PROVE  /\ FailureKind(after, v, t) = "expired"
                        /\ \E p \in repo : \E j \in DOMAIN p.failures : Lapsed(p.failures[j], t)
    BY <2>5
  <2>7. PICK ack \in Acks(table, v) : Lapsed(ack, t)
    BY <2>3, <2>6 DEF FailureKind
  <2>8. PICK j \in DOMAIN table : ack = table[j]
    <3> HIDE DEF table
    <3> QED BY <2>7, KeysAreEntries DEF Acks
  <2>9. j \in DOMAIN old /\ Lapsed(old[j], t)
    BY <1>5, <2>7, <2>8 DEF Lapsed
  <2>10. \E p \in repo : \E i \in DOMAIN p.failures : Lapsed(p.failures[i], t)
    BY <1>7, <2>9
  <2> QED BY <2>6, <2>10 DEF FailureKind
<1> QED BY <1>9, <1>10, <1>11

-------------------------------------------------------------------------------
(* The graph of a tree.                                                        *)

TreeEdges(c, excluded) == Edges(ManifestsAt[c], KeptManifests(ManifestsAt[c], excluded))
TreeNodes(c, excluded) == Nodes(TreeEdges(c, excluded))

LEMMA TreeIsAGraph ==
  ASSUME NEW c \in Codes, NEW excluded
  PROVE  /\ \A e \in TreeEdges(c, excluded) : e.child \in DOMAIN PackageFindings \cap DOMAIN PurlOf
         /\ IsGraph(TreeNodes(c, excluded))
         /\ RootKey \notin TreeNodes(c, excluded)[RootKey].deps
         /\ DOMAIN TreeNodes(c, excluded) \subseteq {RootKey} \cup DOMAIN PackageFindings
<1> DEFINE manifests == ManifestsAt[c]
           kept == KeptManifests(manifests, excluded)
           of(i) == {[e EXCEPT !.at = <<i, @>>] : e \in ManifestEdges(manifests[i])}
           edges == TreeEdges(c, excluded)
<1>1. edges \subseteq Edges(manifests, DOMAIN manifests)
  <2>1. kept \subseteq DOMAIN manifests
    BY DEF KeptManifests
  <2>2. edges = UNION {of(i) : i \in kept}
    BY DEF TreeEdges, Edges
  <2>3. Edges(manifests, DOMAIN manifests) = UNION {of(i) : i \in DOMAIN manifests}
    BY DEF Edges
  <2> HIDE DEF of, kept
  <2> QED BY <2>1, <2>2, <2>3
<1>2. \A e \in edges : /\ e.child \in DOMAIN PackageFindings \cap DOMAIN PurlOf
                       /\ e.parent \in {RootKey} \cup (DOMAIN PackageFindings \cap DOMAIN PurlOf)
  BY <1>1, TreeAssumption
<1>3. RootKey \notin DOMAIN PackageFindings /\ RootKey \in DOMAIN PurlOf
  BY KeyAssumption DEF IsPackageKey
<1> HIDE DEF edges
<1> DEFINE nodes == Nodes(edges)
<1>4. /\ DOMAIN nodes = {RootKey} \cup UNION {{e.parent, e.child} : e \in edges}
      /\ nodes[RootKey].deps = {e.child : e \in {e \in edges : e.parent = RootKey}}
  BY DEF Nodes
<1>5. DOMAIN nodes \subseteq DOMAIN PurlOf /\ DOMAIN nodes \subseteq {RootKey} \cup DOMAIN PackageFindings
  BY <1>2, <1>3, <1>4
<1>6. RootKey \notin nodes[RootKey].deps
  BY <1>2, <1>3, <1>4
<1>7. IsGraph(nodes)
  BY <1>5, NodesAreAGraph
<1> QED BY <1>2, <1>5, <1>6, <1>7 DEF edges, TreeNodes

LEMMA DepsByFormat ==
  ASSUME NEW c, NEW excluded, NEW format
  PROVE  DirectDeps(ManifestsAt[c], excluded, format) \in
           {SpdxDirectDeps(SpdxDocument(TreeNodes(c, excluded))), CdxDirectDeps(CdxDocument(TreeNodes(c, excluded)))}
BY DEF DirectDeps, TreeNodes, TreeEdges

\* Only packages are audited.
LEMMA DepsArePackages ==
  ASSUME NEW c \in Codes, NEW excluded, NEW format
  PROVE  Keys(DirectDeps(ManifestsAt[c], excluded, format)) \subseteq DOMAIN PackageFindings
<1> DEFINE nodes == TreeNodes(c, excluded)
<1>1. /\ IsGraph(nodes) /\ RootKey \notin nodes[RootKey].deps
      /\ DOMAIN nodes \subseteq {RootKey} \cup DOMAIN PackageFindings
  BY TreeIsAGraph
<1> HIDE DEF nodes
<1>2. \A d \in SpdxDirectDeps(SpdxDocument(nodes)) \cup CdxDirectDeps(CdxDocument(nodes)) :
        d.key \in DOMAIN PackageFindings
  BY <1>1, SpdxReadsNodes, CdxReadsNodes
<1>3. \A d \in DirectDeps(ManifestsAt[c], excluded, format) : d.key \in DOMAIN PackageFindings
  BY <1>2, DepsByFormat DEF nodes
<1> QED BY <1>3 DEF Keys

-------------------------------------------------------------------------------
(* The invariant of a scan.                                                    *)

JobFields ==
  {"cmd", "pc", "format", "continue", "terminal", "repo", "mode", "source", "deps", "scored", "failed",
   "partial", "gradedAt", "results", "fresh", "urls", "rules"}

\* What a command has read is of the tree as it is, and its results are the
\* grades of all that it scored.
ReadInv(j, c, excluded) ==
  /\ j.pc \in {"sbom", "audit", "report", "verdict", "urls", "tune", "triage"} => j.source = SourceFindings[c]
  /\ j.pc \in {"audit", "report", "verdict", "urls", "tune", "triage"} /\ ~ j.partial =>
       j.deps = DirectDeps(ManifestsAt[c], excluded, j.format)
  /\ j.pc \in {"report", "verdict", "urls", "tune", "triage"} /\ ~ j.partial =>
       j.scored = Keys(j.deps) \ j.failed

\* A scan of a tree without a policy grades by the default one, with the
\* corrected URLs.
FreshInv(j) ==
  j.pc \notin {"start", "pick"} /\ j.fresh =>
    j.repo = IF j.urls = NoOverrides THEN {} ELSE {[DefaultPolicy EXCEPT !.overrides = j.urls]}

GradedError(j, v) == Level(Kind(Effective(j.repo), v, j.gradedAt)) = "error"

ResultsInv(j) ==
  /\ j.pc \in {"verdict", "urls", "tune"} => j.results = Assembled(j, j.gradedAt)
  /\ j.pc = "triage" /\ j.rules = {} =>
       \A v \in Graded(j) : GradedError(j, v) =>
         \E r \in Errors(j.results) : r.name = v.entity /\ r.check = v.check

ScanJob(j, c, excluded) ==
  /\ DOMAIN j = JobFields
  /\ \A p, q \in j.repo : p = q
  /\ j.gradedAt \in Int
  /\ j.source \subseteq Check
  /\ Keys(j.deps) \cup j.scored \cup j.failed \subseteq DOMAIN PackageFindings
  /\ \A r \in j.results : IsResult(r)
  /\ ReadInv(j, c, excluded) /\ FreshInv(j) /\ ResultsInv(j)

ScanInv ==
  /\ code \in Codes
  /\ \A r \in report.results : IsResult(r)
  /\ job # Idle => ScanJob(job, code, ignored)

LEMMA LevelIsOne ==
  /\ Level("blocking") = "error" /\ Level("expired") = "error" /\ Level("warning") = "warning"
  /\ Level("acknowledged") = "note" /\ Level("ignored") = "none"
BY DEF Level

\* What a scan assembles names the tree and packages.
LEMMA AnalysisNames ==
  ASSUME NEW repo, NEW key \in DOMAIN PackageFindings
  PROVE  /\ AnalysisId(repo, key).name = key.name
         /\ key.name \notin SourceNames \cup DOMAIN Glob \cup {Root.name, NoKey.name}
         /\ AnalysisId(repo, key) # RootKey
         /\ AnalysisId(repo, key).query = Respelt(key.query) \cup {<<"overrides", url>> : url \in OverrideFor(repo, key)}
<1>1. IsPackageKey(key)
  BY KeyAssumption
<1>2. key = [name |-> key.name, query |-> key.query]
  BY <1>1 DEF IsPackageKey
<1>3. "name" \in DOMAIN key /\ "query" \in DOMAIN key
  BY <1>2
<1>4. /\ AnalysisId(repo, key).name = key.name
      /\ AnalysisId(repo, key).query = Respelt(key.query) \cup {<<"overrides", url>> : url \in OverrideFor(repo, key)}
  BY <1>3 DEF AnalysisId
<1>5. key.name \notin SourceNames \cup DOMAIN Glob \cup {Root.name, NoKey.name}
  BY <1>1 DEF IsPackageKey
<1> QED BY <1>4, <1>5, KeyAssumption

LEMMA GradedForms ==
  ASSUME NEW j, j.source \subseteq Check, j.scored \subseteq DOMAIN PackageFindings, NEW v \in Graded(j)
  PROVE  /\ v.check \in Check
         /\ \/ /\ v = [entity |-> RootKey, check |-> v.check, depth |-> 0, dev |-> FALSE]
               /\ v.check \in j.source
            \/ \E key \in j.scored :
                 /\ v = [entity |-> AnalysisId(j.repo, key), check |-> v.check, depth |-> 1, dev |-> FALSE]
                 /\ v \in PackageViolations(j.repo, key)
<1>1. CASE v \in Violations(RootKey, j.source, 0)
  BY <1>1 DEF Violations
<1>2. CASE v \in UNION {PackageViolations(j.repo, key) : key \in j.scored}
  <2>1. PICK key \in j.scored : v \in PackageViolations(j.repo, key)
    BY <1>2
  <2>2. PICK c \in PackageFindings[key] :
          v = [entity |-> AnalysisId(j.repo, key), check |-> c, depth |-> 1, dev |-> FALSE]
    BY <2>1 DEF PackageViolations, Violations
  <2>3. v.check = c /\ c \in Check
    BY <2>2, CheckAssumption
  <2> QED BY <2>1, <2>2, <2>3
<1> QED BY <1>1, <1>2 DEF Graded

LEMMA AssembledAreResults ==
  ASSUME NEW j, j.source \subseteq Check, j.scored \cup j.failed \subseteq DOMAIN PackageFindings, NEW t,
         NEW r \in Assembled(j, t)
  PROVE  IsResult(r)
<1>1. ASSUME NEW v \in Graded(j), r = GradedResult(Effective(j.repo), v, t, j.deps)
      PROVE  IsResult(r)
  <2>1. r.name = v.entity /\ r.check = v.check /\ {"name", "check", "level"} \subseteq DOMAIN r
    BY <1>1 DEF GradedResult
  <2>2. v.check \in Check
    BY GradedForms
  <2>3. v.entity = RootKey \/ \E key \in j.scored : v.entity = AnalysisId(j.repo, key)
    <3>1. CASE v = [entity |-> RootKey, check |-> v.check, depth |-> 0, dev |-> FALSE]
      BY <3>1
    <3>2. ASSUME NEW key \in j.scored,
                 v = [entity |-> AnalysisId(j.repo, key), check |-> v.check, depth |-> 1, dev |-> FALSE]
          PROVE  v.entity = AnalysisId(j.repo, key)
      BY <3>2
    <3> QED BY <3>1, <3>2, GradedForms
  <2>4. v.entity.name \notin SourceNames => v.entity.name \notin DOMAIN Glob \cup {Root.name}
    BY <2>3, AnalysisNames, KeyAssumption
  <2> QED BY <2>1, <2>2, <2>4 DEF IsResult
<1>2. ASSUME NEW key \in j.failed, r = FailureResult(key)
      PROVE  IsResult(r)
  <2>1. r.name = key /\ r.check = AuditError /\ {"name", "check", "level"} \subseteq DOMAIN r
    BY <1>2 DEF FailureResult
  <2>2. key.name \notin DOMAIN Glob \cup {Root.name}
    BY AnalysisNames
  <2> QED BY <2>1, <2>2 DEF IsResult
<1> QED BY <1>1, <1>2 DEF Assembled

LEMMA SameScan ==
  ASSUME NEW j, NEW k, k.source = j.source, k.repo = j.repo, k.scored = j.scored, k.failed = j.failed,
         k.deps = j.deps
  PROVE  Graded(k) = Graded(j) /\ \A t : Assembled(k, t) = Assembled(j, t)
<1>1. Graded(k) = Graded(j)
  BY DEF Graded
<1> QED BY <1>1 DEF Assembled

LEMMA NoFieldsInIdle == Idle.pc = "idle" /\ DOMAIN Idle = {"pc"}
BY DEF Idle

\* A command begins with nothing.
LEMMA NewJobScans ==
  ASSUME NEW c, NEW excluded, NEW cmd, NEW format, NEW continue, NEW terminal
  PROVE  ScanJob(NewJob(cmd, format, continue, terminal), c, excluded)
<1> DEFINE j == NewJob(cmd, format, continue, terminal)
<1>1. /\ DOMAIN j = JobFields /\ j.pc = "start" /\ j.repo = {} /\ j.gradedAt = 0 /\ j.source = {}
      /\ j.deps = {} /\ j.scored = {} /\ j.failed = {} /\ j.results = {}
  BY DEF NewJob, JobFields
<1> HIDE DEF j
<1>2. Keys(j.deps) = {}
  BY <1>1 DEF Keys
<1>3. ReadInv(j, c, excluded) /\ FreshInv(j) /\ ResultsInv(j)
  BY <1>1 DEF ReadInv, FreshInv, ResultsInv
<1>4. ScanJob(j, c, excluded)
  BY <1>1, <1>2, <1>3 DEF ScanJob
<1> QED BY <1>4 DEF j

LEMMA StartScans ==
  ASSUME ScanInv,
         \/ \E format \in Formats, continue \in BOOLEAN : StartRun(format, continue)
         \/ \E format \in Formats, terminal, force \in BOOLEAN : StartInit(format, terminal, force)
  PROVE  ScanInv'
<1>1. /\ code' = code /\ report' = report
      /\ \E cmd, format, continue, terminal : job' = NewJob(cmd, format, continue, terminal)
  BY DEF StartRun, StartInit
<1>2. ScanJob(job', code', ignored')
  BY <1>1, NewJobScans
<1> QED BY <1>1, <1>2 DEF ScanInv

LEMMA FileHasOne == \A p, q \in PolicyIn(file) : p = q
BY DEF PolicyIn

LEMMA ReadingScans ==
  ASSUME ScanInv, ReadRules \/ ResolveMode
  PROVE  ScanInv'
<1> USE DEF outside, Finish
<1>0. job # Idle /\ ScanJob(job, code, ignored) /\ code' = code /\ ignored' = ignored /\ report' = report
  BY NotIdle DEF ReadRules, ResolveMode, ScanInv
<1>1. SUFFICES ASSUME job' # Idle PROVE ScanJob(job', code, ignored)
  BY <1>0 DEF ScanInv
<1>2. /\ DOMAIN job' = JobFields /\ job'.gradedAt = job.gradedAt /\ job'.source = job.source
      /\ job'.deps = job.deps /\ job'.scored = job.scored /\ job'.failed = job.failed
      /\ job'.results = job.results /\ job'.urls = job.urls
      /\ job'.pc \in {"source", "mode"}
  BY <1>0, <1>1, ZenonT(40) DEF ReadRules, ResolveMode, ScanJob, JobFields
<1>3. ReadInv(job', code, ignored) /\ ResultsInv(job')
  BY <1>2 DEF ReadInv, ResultsInv
<1>4. CASE ReadRules
  <2>1. /\ job'.repo = IF job.urls = NoOverrides THEN PolicyIn(file)
                       ELSE {[DefaultPolicy EXCEPT !.overrides = job.urls]}
        /\ job'.fresh = (file.status = "none")
    BY <1>0, <1>1, <1>4 DEF ReadRules, ScanJob, JobFields
  <2>2. file.status = "none" => PolicyIn(file) = {}
    BY DEF PolicyIn
  <2> DEFINE given == {[DefaultPolicy EXCEPT !.overrides = job.urls]}
  <2>3. \A p, q \in given : p = q
    OBVIOUS
  <2>4. FreshInv(job')
    BY <1>2, <2>1, <2>2 DEF FreshInv
  <2> HIDE DEF given
  <2>5. \A p, q \in job'.repo : p = q
    BY <2>1, <2>3, FileHasOne DEF given
  <2> QED BY <1>0, <1>2, <1>3, <2>4, <2>5 DEF ScanJob
<1>5. CASE ResolveMode
  <2>1. job'.repo = job.repo /\ job'.fresh = job.fresh /\ job.pc = "mode"
    BY <1>0, <1>1, <1>5 DEF ResolveMode, ScanJob, JobFields
  <2>2. FreshInv(job')
    BY <1>0, <1>2, <2>1 DEF FreshInv, ScanJob
  <2> QED BY <1>0, <1>2, <1>3, <2>1, <2>2 DEF ScanJob
<1> QED BY <1>4, <1>5

LEMMA ScoringScans ==
  ASSUME ScanInv,
         \/ ScoreSource \/ ScoreSourceFails \/ BuildSbom \/ BuildSbomFails
         \/ \E i \in SUBSET DOMAIN Covers : ExcludeDirectories(i)
         \/ \E failing \in SUBSET MayFail : Audit(failing)
         \/ AuditFails
  PROVE  ScanInv'
<1> USE DEF outside, Finish
<1>0. /\ job # Idle /\ ScanJob(job, code, ignored) /\ code' = code /\ report' = report
      /\ code \in Codes /\ job.pc \in {"source", "sbom", "audit"}
  BY NotIdle DEF ScoreSource, ScoreSourceFails, BuildSbom, BuildSbomFails, ExcludeDirectories, Audit,
                 AuditFails, ScanInv
<1>1. SUFFICES ASSUME job' # Idle PROVE ScanJob(job', code, ignored')
  BY <1>0 DEF ScanInv
<1>2. /\ DOMAIN job' = JobFields /\ job'.gradedAt = job.gradedAt /\ job'.repo = job.repo
      /\ job'.results = job.results /\ job'.urls = job.urls /\ job'.fresh = job.fresh
      /\ job'.pc \in {"sbom", "audit", "report"} /\ job'.format = job.format
  BY <1>0, <1>1, ZenonT(40)
     DEF ScoreSource, ScoreSourceFails, BuildSbom, BuildSbomFails, ExcludeDirectories, Audit, AuditFails,
         ScanJob, JobFields
<1>3. FreshInv(job') /\ ResultsInv(job')
  BY <1>0, <1>2 DEF FreshInv, ResultsInv, ScanJob
<1>4. SUFFICES /\ job'.source \subseteq Check
               /\ Keys(job'.deps) \cup job'.scored \cup job'.failed \subseteq DOMAIN PackageFindings
               /\ ReadInv(job', code, ignored')
  BY <1>0, <1>2, <1>3 DEF ScanJob
<1>5. CASE ScoreSource \/ ScoreSourceFails
  <2>1. /\ job'.source = SourceFindings[code] /\ job'.pc = "sbom" /\ job'.deps = job.deps
        /\ job'.scored = job.scored /\ job'.failed = job.failed
    BY <1>0, <1>1, <1>5 DEF ScoreSource, ScoreSourceFails, ScanJob, JobFields
  <2> QED BY <1>0, <2>1, CheckAssumption DEF ScanJob, ReadInv
<1>6. CASE BuildSbom
  <2>1. /\ job'.source = job.source /\ job'.pc = "audit" /\ job.pc = "sbom"
        /\ job'.deps = DirectDeps(ManifestsAt[code], ignored, job.format)
        /\ job'.scored = job.scored /\ job'.failed = job.failed /\ ignored' = ignored
    BY <1>0, <1>1, <1>6 DEF BuildSbom, ScanJob, JobFields
  <2>2. Keys(job'.deps) \subseteq DOMAIN PackageFindings
    BY <1>0, <2>1, DepsArePackages
  <2> QED BY <1>0, <1>2, <2>1, <2>2 DEF ScanJob, ReadInv
<1>7. CASE BuildSbomFails
  <2>1. /\ job'.source = job.source /\ job'.pc = "report" /\ job.pc = "sbom" /\ job'.deps = {}
        /\ job'.scored = {} /\ job'.failed = {} /\ job'.partial = TRUE
    BY <1>0, <1>1, <1>7 DEF BuildSbomFails, ScanJob, JobFields
  <2>2. Keys(job'.deps) = {}
    BY <2>1 DEF Keys
  <2> QED BY <1>0, <2>1, <2>2 DEF ScanJob, ReadInv
<1>8. CASE \E i \in SUBSET DOMAIN Covers : ExcludeDirectories(i)
  BY <1>0, <1>8 DEF ExcludeDirectories, ScanJob, ReadInv
<1>9. CASE \E failing \in SUBSET MayFail : Audit(failing)
  <2>1. PICK failing \in SUBSET MayFail : Audit(failing)
    BY <1>9
  <2>2. /\ job'.source = job.source /\ job'.pc = "report" /\ job.pc = "audit" /\ job'.deps = job.deps
        /\ job'.scored = Keys(job.deps) \ failing /\ job'.failed = failing /\ job'.partial = job.partial
        /\ failing \subseteq Keys(job.deps) /\ ignored' = ignored
    BY <1>0, <2>1 DEF Audit, ScanJob, JobFields
  <2> QED BY <1>0, <1>2, <2>2 DEF ScanJob, ReadInv
<1>10. CASE AuditFails
  <2>1. /\ job'.source = job.source /\ job'.pc = "report" /\ job.pc = "audit" /\ job'.deps = job.deps
        /\ job'.scored = {} /\ job'.failed = {} /\ job'.partial = TRUE
    BY <1>0, <1>1, <1>10 DEF AuditFails, ScanJob, JobFields
  <2> QED BY <1>0, <2>1 DEF ScanJob, ReadInv
<1> QED BY <1>5, <1>6, <1>7, <1>8, <1>9, <1>10

LEMMA ReportingScans ==
  ASSUME PolicyInv, ScanInv, Report \/ ReportFails \/ Verdict
  PROVE  ScanInv'
<1> USE DEF outside, Finish
<1>0. /\ job # Idle /\ ScanJob(job, code, ignored) /\ code' = code /\ ignored' = ignored /\ now \in Int
  <2>1. job # Idle /\ UNCHANGED <<code, ignored>>
    BY NotIdle DEF Report, ReportFails, Verdict
  <2> QED BY <2>1 DEF ScanInv, PolicyInv
<1>1. \A r \in Assembled(job, now) : IsResult(r)
  BY <1>0, AssembledAreResults DEF ScanJob
<1>2. \A r \in report'.results : IsResult(r)
  <2>1. CASE Report
    BY <1>1, <2>1 DEF Report
  <2>2. CASE ReportFails
    BY <2>2 DEF ReportFails
  <2>3. CASE Verdict
    BY <2>3 DEF Verdict, ScanInv
  <2> QED BY <2>1, <2>2, <2>3
<1>3. ASSUME job' # Idle
      PROVE  ScanJob(job', code, ignored)
  <2>1. /\ Report /\ job.pc = "report" /\ DOMAIN job' = JobFields
        /\ job'.gradedAt = now /\ job'.results = Assembled(job, now)
        /\ job'.pc \in {"verdict", "urls", "tune"}
    BY <1>0, <1>3 DEF Report, ReportFails, Verdict, ScanJob, JobFields
  <2>2. /\ job'.source = job.source /\ job'.repo = job.repo /\ job'.scored = job.scored
        /\ job'.failed = job.failed /\ job'.deps = job.deps /\ job'.partial = job.partial
        /\ job'.format = job.format /\ job'.fresh = job.fresh /\ job'.urls = job.urls
    BY <1>0, <1>3, <2>1, ZenonT(40) DEF Report, ScanJob, JobFields
  <2>3. ReadInv(job', code, ignored)
    BY <1>0, <2>1, <2>2 DEF ReadInv, ScanJob
  <2>4. FreshInv(job')
    BY <1>0, <2>1, <2>2 DEF FreshInv, ScanJob
  <2>5. Assembled(job', now) = Assembled(job, now)
    BY <2>2, SameScan
  <2>6. ResultsInv(job')
    BY <2>1, <2>5 DEF ResultsInv
  <2> QED BY <1>0, <1>1, <2>1, <2>2, <2>3, <2>4, <2>6 DEF ScanJob
<1> QED BY <1>0, <1>2, <1>3 DEF ScanInv

\* Leaving every severity as it is keeps what blocks.
LEMMA UntunedKeepsErrors ==
  ASSUME NEW results, \A r \in results : IsResult(r), NEW choices,
         choices = [c \in TuneTargets(results) |-> CurrentSeverity(results, c)],
         NEW r \in Errors(results)
  PROVE  \E e \in Errors(ApplyChoices(results, choices)) : e.name = r.name /\ e.check = r.check
<1> DEFINE e == [r EXCEPT !.level = IF r.check \in DOMAIN choices THEN SeverityToLevel(choices[r.check]) ELSE @]
<1>1. r \in results /\ r.level = "error" /\ {"name", "check", "level"} \subseteq DOMAIN r
  BY DEF Errors, IsResult
<1>2. r.check \in DOMAIN choices
  BY <1>1 DEF TuneTargets
<1>3. choices[r.check] = "blocking"
  BY <1>1, <1>2 DEF CurrentSeverity
<1>4. SeverityToLevel("blocking") = "error"
  BY DEF SeverityToLevel
<1>5. e.name = r.name /\ e.check = r.check /\ e.level = "error"
  BY <1>1, <1>2, <1>3, <1>4
<1>6. e \in ApplyChoices(results, choices)
  BY <1>1 DEF ApplyChoices
<1> HIDE DEF e
<1> QED BY <1>5, <1>6 DEF Errors

LEMMA ChoicesKeepResults ==
  ASSUME NEW results, \A r \in results : IsResult(r), NEW choices, NEW e \in ApplyChoices(results, choices)
  PROVE  IsResult(e)
<1>1. PICK r \in results :
        e = [r EXCEPT !.level = IF r.check \in DOMAIN choices THEN SeverityToLevel(choices[r.check]) ELSE @]
  BY DEF ApplyChoices
<1>2. IsResult(r) /\ {"name", "check", "level"} \subseteq DOMAIN r
  BY <1>1 DEF IsResult
<1>3. e.name = r.name /\ e.check = r.check /\ DOMAIN e = DOMAIN r
  BY <1>1, <1>2
<1> QED BY <1>2, <1>3 DEF IsResult

\* A finding that grades as an error is among the errors reported.
LEMMA ErrorsAreReported ==
  ASSUME NEW j, NEW v \in Graded(j), GradedError(j, v)
  PROVE  \E r \in Errors(Assembled(j, j.gradedAt)) : r.name = v.entity /\ r.check = v.check
<1> DEFINE r == GradedResult(Effective(j.repo), v, j.gradedAt, j.deps)
<1>1. r \in Assembled(j, j.gradedAt)
  BY DEF Assembled
<1>2. r.name = v.entity /\ r.check = v.check /\ r.level = "error"
  BY DEF GradedResult, GradedError
<1> QED BY <1>1, <1>2 DEF Errors

LEMMA TuningScans ==
  ASSUME ScanInv, \E changed \in SUBSET TuneTargets(job.results), s \in Severities : TuneSeverities(changed, s)
  PROVE  ScanInv'
<1>1. PICK changed, s : TuneSeverities(changed, s)
  OBVIOUS
<1> DEFINE choices == [c \in TuneTargets(job.results) |->
                         IF c \in changed THEN s ELSE CurrentSeverity(job.results, c)]
<1>2. job # Idle /\ job.pc = "tune" /\ UNCHANGED <<code, ignored, report>>
  BY <1>1, NotIdle DEF TuneSeverities, outside
<1>3. ScanJob(job, code, ignored)
  BY <1>2 DEF ScanInv
<1>4. job' = [job EXCEPT !.rules = {CheckRule(c, s) : c \in changed},
                         !.results = ApplyChoices(@, choices), !.pc = "triage"]
  BY <1>1 DEF TuneSeverities
<1> HIDE DEF choices
<1>5. /\ DOMAIN job' = JobFields /\ job'.gradedAt = job.gradedAt /\ job'.source = job.source
      /\ job'.repo = job.repo /\ job'.scored = job.scored /\ job'.failed = job.failed
      /\ job'.deps = job.deps /\ job'.partial = job.partial /\ job'.format = job.format
      /\ job'.fresh = job.fresh /\ job'.urls = job.urls
      /\ job'.results = ApplyChoices(job.results, choices) /\ job'.pc = "triage"
      /\ job'.rules = {CheckRule(c, s) : c \in changed}
  BY <1>3, <1>4 DEF ScanJob, JobFields
<1>6. \A r \in job'.results : IsResult(r)
  BY <1>3, <1>5, ChoicesKeepResults DEF ScanJob
<1>7. ReadInv(job', code, ignored) /\ FreshInv(job')
  BY <1>2, <1>3, <1>5 DEF ScanJob, ReadInv, FreshInv
<1>8. ASSUME job'.rules = {}, NEW v \in Graded(job'), GradedError(job', v)
      PROVE  \E r \in Errors(job'.results) : r.name = v.entity /\ r.check = v.check
  <2>1. changed = {}
    BY <1>5, <1>8
  <2>2. choices = [c \in TuneTargets(job.results) |-> CurrentSeverity(job.results, c)]
    BY <2>1 DEF choices
  <2>3. v \in Graded(job) /\ GradedError(job, v)
    BY <1>5, <1>8, SameScan DEF GradedError
  <2>4. job.results = Assembled(job, job.gradedAt)
    BY <1>2, <1>3 DEF ScanJob, ResultsInv
  <2>5. PICK r \in Errors(job.results) : r.name = v.entity /\ r.check = v.check
    BY <2>3, <2>4, ErrorsAreReported
  <2>6. \E e \in Errors(ApplyChoices(job.results, choices)) : e.name = r.name /\ e.check = r.check
    BY <1>3, <2>2, <2>5, UntunedKeepsErrors DEF ScanJob
  <2> QED BY <1>5, <2>5, <2>6
<1>9. ResultsInv(job')
  BY <1>5, <1>8 DEF ResultsInv
<1>10. ScanJob(job', code, ignored)
  BY <1>3, <1>5, <1>6, <1>7, <1>9 DEF ScanJob
<1> QED BY <1>2, <1>10 DEF ScanInv

LEMMA PromptsScan ==
  ASSUME ScanInv, Prompts
  PROVE  ScanInv'
<1> USE DEF outside, Finish
<1>1. CASE \E chosen \in SUBSET NotFoundKeys(job.results), url \in Urls : CorrectURLs(chosen, url)
  <2>1. PICK chosen, url : CorrectURLs(chosen, url)
    BY <1>1
  <2>2. job # Idle /\ job.pc = "urls" /\ UNCHANGED <<code, ignored, report>>
    BY <2>1, NotIdle DEF CorrectURLs
  <2>3. ScanJob(job, code, ignored)
    BY <2>2 DEF ScanInv
  <2>4. /\ DOMAIN job' = JobFields /\ job'.gradedAt = job.gradedAt /\ job'.source = job.source
        /\ job'.repo = job.repo /\ job'.scored = job.scored /\ job'.failed = job.failed
        /\ job'.deps = job.deps /\ job'.format = job.format
        /\ job'.results = job.results /\ job'.pc \in {"tune", "start"}
        /\ job'.pc = "tune" => job'.partial = job.partial /\ job'.urls = job.urls /\ job'.fresh = job.fresh
    BY <2>1, <2>3 DEF CorrectURLs, ScanJob, JobFields
  <2>5. ReadInv(job', code, ignored)
    BY <2>2, <2>3, <2>4 DEF ScanJob, ReadInv
  <2>6. FreshInv(job')
    BY <2>2, <2>3, <2>4 DEF ScanJob, FreshInv
  <2>7. Assembled(job', job.gradedAt) = Assembled(job, job.gradedAt)
    BY <2>4, SameScan
  <2>8. ResultsInv(job')
    BY <2>2, <2>3, <2>4, <2>7 DEF ScanJob, ResultsInv
  <2>9. ScanJob(job', code, ignored)
    BY <2>3, <2>4, <2>5, <2>6, <2>8 DEF ScanJob
  <2> QED BY <2>2, <2>9 DEF ScanInv
<1>2. CASE \E changed \in SUBSET TuneTargets(job.results), s \in Severities : TuneSeverities(changed, s)
  BY <1>2, TuningScans
<1>3. CASE TuneFails \/ InitWithoutTerminal \/ AcknowledgeNothing
  BY <1>3 DEF TuneFails, InitWithoutTerminal, AcknowledgeNothing, ScanInv
<1>4. CASE \E errors \in SUBSET Errors(job.results), warnings \in SUBSET Warnings(job.results) :
             Triage(errors, warnings)
  BY <1>4 DEF Triage, ScanInv
<1>5. CASE \E picked \in SUBSET job.results : Acknowledge(picked)
  BY <1>5 DEF Acknowledge, ScanInv
<1> QED BY <1>1, <1>2, <1>3, <1>4, <1>5 DEF Prompts

LEMMA OthersScan ==
  ASSUME ScanInv, Commands \/ Surroundings \/ UNCHANGED vars
  PROVE  ScanInv'
<1>1. CASE LoadFindings
  <2> DEFINE new == NewJob("acknowledge", "spdx", TRUE, TRUE)
  <2>1. /\ code' = code /\ report' = report
        /\ job' = [new EXCEPT !.repo = PolicyIn(file), !.results = Errors(report.results), !.pc = "pick"]
    BY <1>1 DEF LoadFindings
  <2>2. ScanJob(new, code, ignored')
    BY NewJobScans
  <2> HIDE DEF new
  <2>3. /\ DOMAIN job' = JobFields /\ job'.gradedAt = new.gradedAt /\ job'.source = new.source
        /\ job'.deps = new.deps /\ job'.scored = new.scored /\ job'.failed = new.failed
        /\ job'.repo = PolicyIn(file) /\ job'.results = Errors(report.results) /\ job'.pc = "pick"
    BY <2>1, <2>2 DEF ScanJob, JobFields
  <2>4. \A r \in job'.results : IsResult(r)
    BY <2>3 DEF Errors, ScanInv
  <2>5. ReadInv(job', code, ignored') /\ FreshInv(job') /\ ResultsInv(job')
    BY <2>3 DEF ReadInv, FreshInv, ResultsInv
  <2>6. ScanJob(job', code, ignored')
    BY <2>2, <2>3, <2>4, <2>5, FileHasOne DEF ScanJob
  <2> QED BY <2>1, <2>6 DEF ScanInv
<1>2. CASE \E key \in Package, url \in Urls, force \in BOOLEAN : Override(key, url, force)
  BY <1>2 DEF Override, ScanInv
<1>3. CASE \E f \in {Written(p) : p \in HandWritten} \cup {NoFile, BrokenFile} : EditFile(f)
  BY <1>3 DEF EditFile, ScanInv
<1>4. CASE (\E c \in Codes : ChangeCode(c)) \/ Tick
  BY <1>4 DEF ChangeCode, Tick, ScanInv
<1>5. CASE UNCHANGED vars
  BY <1>5 DEF vars, ScanInv
<1> QED BY <1>1, <1>2, <1>3, <1>4, <1>5 DEF Commands, Surroundings

\* What a command holds is of the tree and the policy that it read, and a report
\* names only the tree, packages and checks.
THEOREM ScansAreOfOneTree == Spec => [](PolicyInv /\ ScanInv)
<1>1. Init => ScanInv
  BY DEF Init, ScanInv
<1>2. PolicyInv /\ ScanInv /\ [Next]_vars => ScanInv'
  <2>1. Scan => \/ \E format \in Formats, continue \in BOOLEAN : StartRun(format, continue)
                \/ \E format \in Formats, terminal, force \in BOOLEAN : StartInit(format, terminal, force)
                \/ ReadRules \/ ResolveMode
                \/ \/ ScoreSource \/ ScoreSourceFails \/ BuildSbom \/ BuildSbomFails
                   \/ \E i \in SUBSET DOMAIN Covers : ExcludeDirectories(i)
                   \/ \E failing \in SUBSET MayFail : Audit(failing)
                   \/ AuditFails
                \/ Report \/ ReportFails \/ Verdict
    BY DEF Scan
  <2>2. PolicyInv /\ ScanInv /\ Scan => ScanInv'
    BY <2>1, StartScans, ReadingScans, ScoringScans, ReportingScans
  <2> QED BY <2>2, PromptsScan, OthersScan DEF Next
<1> QED BY <1>1, <1>2, PoliciesStayPolicies, PTL DEF Spec

-------------------------------------------------------------------------------
(* Acknowledging picked findings, as an action of the specification.           *)

LEMMA OnlyAcknowledgeWrites ==
  ASSUME Next, job.pc = "pick", outcome' = "written", job' = Idle
  PROVE  \E picked \in SUBSET job.results : Acknowledge(picked)
<1>0. job # Idle
  BY NotIdle
<1>1. ~ Scan
  BY <1>0 DEF Scan, StartRun, StartInit, ReadRules, ResolveMode, ScoreSource, ScoreSourceFails, BuildSbom,
              BuildSbomFails, ExcludeDirectories, Audit, AuditFails, Report, ReportFails, Verdict
<1>2. ~ Commands
  BY <1>0 DEF Commands, LoadFindings, Override
<1>3. ~ Surroundings
  BY <1>0 DEF Surroundings, EditFile, ChangeCode, Tick
<1>4. Prompts
  BY <1>1, <1>2, <1>3 DEF Next
<1> QED BY <1>4 DEF Prompts, CorrectURLs, TuneSeverities, TuneFails, Triage, InitWithoutTerminal,
                    AcknowledgeNothing, Finish

\* What add-expected-failures writes acknowledges what was picked and grades
\* every other violation as before (policy.go:196-241), whatever the file, the
\* report and the picks: nothing else is let through, and nothing is lost.
THEOREM AcknowledgingKeepsTheRest == Spec => AcknowledgingIsExact
<1> DEFINE Exact ==
             job.pc = "pick" /\ outcome' = "written" /\ job' = Idle =>
               LET before == Effective(job.repo)
                   after  == Effective({file'.policy})
                   written == file'.policy.failures
                   Added(k, v) == /\ v.check \in written[k].checks
                                  /\ \A p \in job.repo : k \in DOMAIN p.failures => v.check \notin p.failures[k].checks
                   IsFor(k, v) == IF v.entity = RootKey THEN k = Root
                                  ELSE k.name = v.entity.name /\ k.query \in {{}, v.entity.query}
               IN  \A v \in Universe :
                     IF Kind(before, v, now) = "ignored" \/ ~ \E k \in DOMAIN written : IsFor(k, v) /\ Added(k, v)
                     THEN Kind(after, v, now) = Kind(before, v, now)
                     ELSE \/ Kind(after, v, now) = "acknowledged"
                          \/ /\ Kind(after, v, now) = "expired"
                             /\ \E p \in job.repo : \E k \in DOMAIN p.failures : Lapsed(p.failures[k], now)
<1>1. ASSUME PolicyInv, ScanInv, Next, job.pc = "pick", outcome' = "written", job' = Idle
      PROVE  Exact
  <2>1. job # Idle
    BY <1>1, NotIdle
  <2>2. /\ \A p \in job.repo : IsFile(p)
        /\ \A p, q \in job.repo : p = q
        /\ \A r \in job.results : IsResult(r)
        /\ now \in Int
    BY <1>1, <2>1 DEF PolicyInv, JobInv, ScanInv, ScanJob
  <2>3. PICK picked \in SUBSET job.results : Acknowledge(picked)
    BY <1>1, OnlyAcknowledgeWrites
  <2> DEFINE q == [Loaded(job.repo) EXCEPT !.failures = UnionOf(@, Baseline(picked))]
  <2>4. file'.policy = q
    BY <2>3 DEF Acknowledge, Written
  <2>5. SUFFICES ASSUME NEW v \in Universe
        PROVE  LET before == Effective(job.repo)
                   after == Effective({q})
                   Added(k) == /\ v.check \in q.failures[k].checks
                               /\ \A p \in job.repo : k \in DOMAIN p.failures => v.check \notin p.failures[k].checks
               IN  IF Kind(before, v, now) = "ignored"
                        \/ ~ \E k \in DOMAIN q.failures : IsKeyFor(k, v) /\ Added(k)
                   THEN Kind(after, v, now) = Kind(before, v, now)
                   ELSE \/ Kind(after, v, now) = "acknowledged"
                        \/ /\ Kind(after, v, now) = "expired"
                           /\ \E p \in job.repo : \E k \in DOMAIN p.failures : Lapsed(p.failures[k], now)
    <3> HIDE DEF q
    <3> QED BY <2>4 DEF IsKeyFor
  <2>6. \A r \in picked : IsResult(r)
    BY <2>2
  <2> QED BY <2>2, <2>6, AcknowledgingOne
<1>2. PolicyInv /\ ScanInv /\ [Next]_vars => [Exact]_vars
  BY <1>1
<1> QED BY <1>2, ScansAreOfOneTree, PTL DEF Spec, AcknowledgingIsExact

-------------------------------------------------------------------------------
(* Baselines.                                                                  *)

LEMMA KindRange ==
  ASSUME NEW p, IsPolicy(p), NEW v, NEW t \in Int
  PROVE  Kind(p, v, t) \in Kinds
<1>1. /\ Severity(p, v, t) \in Severities
      /\ FailureKind(p, v, t) \in {"expired", "acknowledged"}
      /\ WarningKind(p, v, t) \in {"warning", "acknowledged"}
  BY SeverityIsOne, FailureKindTightens, WarningKindTightens
<1> QED BY <1>1, KindByCases DEF Severities, Kinds

LEMMA WhatIsAnError ==
  ASSUME NEW p, IsPolicy(p), NEW v, NEW t \in Int, Level(Kind(p, v, t)) = "error"
  PROVE  \/ Kind(p, v, t) = "blocking" /\ Severity(p, v, t) = "blocking" /\ Acks(p.failures, v) = {}
         \/ \E ack \in Acks(p.failures, v) : Lapsed(ack, t)
<1>1. Kind(p, v, t) \in {"blocking", "expired"}
  BY KindRange, LevelIsOne DEF Kinds
<1>2. /\ Severity(p, v, t) \in Severities
      /\ WarningKind(p, v, t) \in {"warning", "acknowledged"}
      /\ FailureKind(p, v, t) \in {"expired", "acknowledged"}
  BY SeverityIsOne, WarningKindTightens, FailureKindTightens
<1>3. \/ Severity(p, v, t) = "blocking" /\ Acks(p.failures, v) = {}
      \/ Acks(p.failures, v) # {} /\ Kind(p, v, t) = FailureKind(p, v, t)
  BY <1>1, <1>2, KindByCases DEF Severities
<1>4. CASE Severity(p, v, t) = "blocking" /\ Acks(p.failures, v) = {}
  BY <1>2, <1>4, KindByCases
<1>5. CASE Acks(p.failures, v) # {} /\ Kind(p, v, t) = FailureKind(p, v, t)
  BY <1>1, <1>2, <1>5 DEF FailureKind
<1> QED BY <1>3, <1>4, <1>5

\* A rule's fields, but for the layer that it is of.
RuleFields == {"source", "ecosystem", "depth", "env", "isCategory", "target", "severity", "after", "overlay"}

LEMMA LayerGradesAlike ==
  ASSUME NEW r, DOMAIN r = RuleFields, NEW overlay
  PROVE  /\ \A v : RuleMatches([r EXCEPT !.overlay = overlay], v) <=> RuleMatches(r, v)
         /\ Specificity([r EXCEPT !.overlay = overlay]) = Specificity(r)
         /\ \A t : Resolved([r EXCEPT !.overlay = overlay], t) = Resolved(r, t)
<1> DEFINE s == [r EXCEPT !.overlay = overlay]
<1>1. /\ s.source = r.source /\ s.ecosystem = r.ecosystem /\ s.depth = r.depth /\ s.env = r.env
      /\ s.isCategory = r.isCategory /\ s.target = r.target /\ s.severity = r.severity /\ s.after = r.after
  BY DEF RuleFields
<1> HIDE DEF s
<1>2. \A v : RuleMatches(s, v) <=> RuleMatches(r, v)
  BY <1>1 DEF RuleMatches
<1>3. Specificity(s) = Specificity(r)
  BY <1>1 DEF Specificity
<1>4. \A t : Resolved(s, t) = Resolved(r, t)
  BY <1>1 DEF Resolved
<1> QED BY <1>2, <1>3, <1>4 DEF s

Resolutions(rules, v, t) == {Resolved(r, t) : r \in BestRules(rules, v)}

\* Rules that are there in both layers grade as one of them does.
LEMMA DoubledLayers ==
  ASSUME NEW rules, \A r \in rules : DOMAIN r = RuleFields, NEW v, NEW t
  PROVE  Resolutions(rules \cup Layer(rules, TRUE), v, t) = Resolutions(rules, v, t)
<1> DEFINE on(r) == [r EXCEPT !.overlay = TRUE]
           both == rules \cup Layer(rules, TRUE)
           m == {r \in rules : RuleMatches(r, v)}
           n == {r \in both : RuleMatches(r, v)}
<1>1. Layer(rules, TRUE) = {on(r) : r \in rules}
  BY DEF Layer
<1>2. \A r \in rules : /\ RuleMatches(on(r), v) <=> RuleMatches(r, v)
                       /\ Specificity(on(r)) = Specificity(r)
                       /\ Resolved(on(r), t) = Resolved(r, t)
  BY LayerGradesAlike
<1> HIDE DEF on
<1>3. /\ \A r \in m : r \in n /\ on(r) \in n
      /\ \A x \in n : x \in m \/ \E r \in m : x = on(r)
  BY <1>1, <1>2
<1>4. \A r \in m : Specificity(on(r)) = Specificity(r) /\ Resolved(on(r), t) = Resolved(r, t)
  BY <1>2
<1>5. /\ BestRules(both, v) = {r \in n : \A q \in n : Specificity(q) <= Specificity(r)}
      /\ BestRules(rules, v) = {r \in m : \A q \in m : Specificity(q) <= Specificity(r)}
  BY DEF BestRules
<1> HIDE DEF m, n, both
<1>6. \A r \in BestRules(rules, v) : r \in BestRules(both, v)
  BY <1>3, <1>4, <1>5
<1>7. \A x \in BestRules(both, v) : \E r \in BestRules(rules, v) : Resolved(x, t) = Resolved(r, t)
  <2>1. SUFFICES ASSUME NEW x \in BestRules(both, v)
                 PROVE  \E r \in BestRules(rules, v) : Resolved(x, t) = Resolved(r, t)
    OBVIOUS
  <2>2. CASE x \in m
    BY <1>3, <1>5, <2>1, <2>2
  <2>3. ASSUME NEW r \in m, x = on(r)
        PROVE  r \in BestRules(rules, v) /\ Resolved(x, t) = Resolved(r, t)
    BY <1>3, <1>4, <1>5, <2>1, <2>3
  <2> QED BY <1>3, <1>5, <2>1, <2>2, <2>3
<1>8. {Resolved(r, t) : r \in BestRules(both, v)} = {Resolved(r, t) : r \in BestRules(rules, v)}
  BY <1>6, <1>7
<1> QED BY <1>8 DEF both, Resolutions

LEMMA DefaultFields == \A r \in DefaultPolicy.rules : DOMAIN r = RuleFields
<1>1. \A category, severity, depth : DOMAIN CategoryRule(category, severity, depth) = RuleFields
  BY DEF CategoryRule, RuleFields
<1> QED BY <1>1 DEF DefaultPolicy

\* The policy by which a tree without one is graded, with URLs or without.
FreshPolicies(urls) == IF urls = NoOverrides THEN {} ELSE {[DefaultPolicy EXCEPT !.overrides = urls]}

LEMMA FreshGrades ==
  ASSUME NEW urls, NEW v, NEW t
  PROVE  /\ Severity(Effective(FreshPolicies(urls)), v, t) = Severity(DefaultPolicy, v, t)
         /\ Acks(Effective(FreshPolicies(urls)).failures, v) = {}
         /\ IsPolicy(Effective(FreshPolicies(urls)))
<1>1. \A w : AckKeys(NoTable, w) = {} /\ Acks(NoTable, w) = {}
  BY DEF Acks, AckKeys, MatchingKeys, NoTable
<1>2. CASE urls = NoOverrides
  <2>1. Effective(FreshPolicies(urls)) = DefaultPolicy
    BY <1>2, EffectiveByFile DEF FreshPolicies
  <2>2. DefaultPolicy.failures = NoTable
    BY DEF DefaultPolicy
  <2> QED BY <1>1, <2>1, <2>2, DefaultIsPolicy
<1>3. CASE urls # NoOverrides
  <2> DEFINE p == [DefaultPolicy EXCEPT !.overrides = urls]
  <2>1. /\ p.rules = DefaultPolicy.rules /\ p.failures = DefaultPolicy.failures
        /\ p.warnings = DefaultPolicy.warnings /\ DOMAIN p = DOMAIN DefaultPolicy
    BY DefaultIsPolicy
  <2>2. FreshPolicies(urls) = {p}
    BY <1>3 DEF FreshPolicies
  <2> HIDE DEF p
  <2>3. Effective({p}) = Merge(DefaultPolicy, p)
    BY EffectiveByFile
  <2>4. Effective({p}).rules = DefaultPolicy.rules \cup Layer(DefaultPolicy.rules, TRUE)
    BY <2>1, <2>3, MergedTables, DefaultRulesAreOfOneLayer
  <2>5. Severity(Effective({p}), v, t) = Severity(DefaultPolicy, v, t)
    <3> DEFINE rules == DefaultPolicy.rules
    <3>1. \A r \in rules : DOMAIN r = RuleFields
      BY DefaultFields
    <3> HIDE DEF rules
    <3>2. Resolutions(rules \cup Layer(rules, TRUE), v, t) = Resolutions(rules, v, t)
      BY <3>1, DoubledLayers
    <3>3. Resolutions(Effective({p}).rules, v, t) = Resolutions(DefaultPolicy.rules, v, t)
      BY <2>4, <3>2 DEF rules
    <3> QED BY <3>3 DEF Severity, Resolutions
  <2>6. DefaultPolicy.failures = NoTable
    BY DEF DefaultPolicy
  <2>7. Effective({p}).failures = Overlaid(NoTable, NoTable)
    BY <2>1, <2>3, <2>6, MergedTables
  <2>8. Acks(Effective({p}).failures, v) = {}
    <3>1. AckKeys(Overlaid(NoTable, NoTable), v) = AckKeys(NoTable, v)
      BY OverNothing
    <3>2. AckKeys(Effective({p}).failures, v) = {}
      BY <1>1, <2>7, <3>1
    <3> QED BY <3>2 DEF Acks
  <2>9. IsPolicy(p)
    BY <2>1, DefaultIsPolicy DEF IsPolicy
  <2>10. IsPolicy(Effective({p}))
    BY <2>9, EffectiveIsPolicy
  <2> QED BY <2>2, <2>5, <2>8, <2>10
<1> QED BY <1>2, <1>3

\* A policy that only baselines, with the URLs of the scan.
LEMMA TriagedGrades ==
  ASSUME NEW urls, NEW errors, NEW warnings, NEW v, NEW t,
         NEW p, p = TriagedPolicy({}, urls, errors, warnings)
  PROVE  /\ p.failures = Baseline(errors) /\ p.overrides = urls
         /\ Severity(Effective({p}), v, t) = Severity(DefaultPolicy, v, t)
         /\ Acks(Effective({p}).failures, v) = Acks(Baseline(errors), v)
         /\ IsPolicy(Effective({p}))
<1>1. /\ p.rules = {} /\ p.failures = Baseline(errors) /\ p.overrides = urls /\ p.warnings = Baseline(warnings)
      /\ DOMAIN p = {"rules", "failures", "warnings", "mode", "overrides"}
  BY DEF TriagedPolicy, MinimalPolicy
<1>2. Effective({p}) = Merge(DefaultPolicy, p)
  BY EffectiveByFile
<1>3. Layer({}, TRUE) = {}
  BY DEF Layer
<1>4. /\ Effective({p}).rules = DefaultPolicy.rules
      /\ Effective({p}).failures = Overlaid(NoTable, Baseline(errors))
  BY <1>1, <1>2, <1>3, MergedTables, DefaultRulesAreOfOneLayer
<1>5. Severity(Effective({p}), v, t) = Severity(DefaultPolicy, v, t)
  BY <1>4 DEF Severity
<1>6. Acks(Effective({p}).failures, v) = Acks(Baseline(errors), v)
  <2>1. AckKeys(Baseline(errors), v) \subseteq DOMAIN Baseline(errors)
    BY KeysAreEntries
  <2> QED BY <1>4, <2>1, OverNothing DEF Acks
<1>7. IsPolicy(p)
  BY <1>1, TablesStayDated DEF IsPolicy
<1>8. IsPolicy(Effective({p}))
  BY <1>7, EffectiveIsPolicy
<1> QED BY <1>1, <1>5, <1>6, <1>8

\* The corrected URLs apply to the scan and to the next one alike.
LEMMA SameOverrides ==
  ASSUME NEW urls, NEW key, NEW p, p.overrides = urls
  PROVE  OverrideFor({p}, key) = OverrideFor(FreshPolicies(urls), key)
<1>1. OverrideFor({p}, key) = IF Winning(urls, key) # {} THEN Winning(urls, key) ELSE Winning(KnownOverrides, key)
  <2>1. UNION {Winning(q.overrides, key) : q \in {p}} = Winning(urls, key)
    OBVIOUS
  <2> QED BY <2>1 DEF OverrideFor
<1>2. CASE urls = NoOverrides
  <2>1. Winning(urls, key) = {}
    BY <1>2 DEF Winning, MatchingOverrides, NoOverrides
  <2>2. FreshPolicies(urls) = {}
    BY <1>2 DEF FreshPolicies
  <2>3. OverrideFor({}, key) = Winning(KnownOverrides, key)
    BY DEF OverrideFor
  <2> QED BY <1>1, <2>1, <2>2, <2>3
<1>3. CASE urls # NoOverrides
  <2> DEFINE d == [DefaultPolicy EXCEPT !.overrides = urls]
  <2>1. d.overrides = urls
    BY DefaultIsPolicy
  <2>2. FreshPolicies(urls) = {d}
    BY <1>3 DEF FreshPolicies
  <2> HIDE DEF d
  <2>3. UNION {Winning(q.overrides, key) : q \in {d}} = Winning(urls, key)
    BY <2>1
  <2>4. OverrideFor({d}, key) = IF Winning(urls, key) # {} THEN Winning(urls, key) ELSE Winning(KnownOverrides, key)
    BY <2>3 DEF OverrideFor
  <2> QED BY <1>1, <2>2, <2>4
<1> QED BY <1>2, <1>3

LEMMA OnlyTriageWrites ==
  ASSUME Next, job.pc = "triage", outcome' = "written", job' = Idle
  PROVE  \E errors \in SUBSET Errors(job.results), warnings \in SUBSET Warnings(job.results) :
           Triage(errors, warnings)
<1>0. job # Idle
  BY NotIdle
<1>1. ~ Scan
  BY <1>0 DEF Scan, StartRun, StartInit, ReadRules, ResolveMode, ScoreSource, ScoreSourceFails, BuildSbom,
              BuildSbomFails, ExcludeDirectories, Audit, AuditFails, Report, ReportFails, Verdict
<1>2. ~ Commands
  BY <1>0 DEF Commands, LoadFindings, Override
<1>3. ~ Surroundings
  BY <1>0 DEF Surroundings, EditFile, ChangeCode, Tick
<1>4. Prompts
  BY <1>1, <1>2, <1>3 DEF Next
<1> QED BY <1>4 DEF Prompts, CorrectURLs, TuneSeverities, TuneFails, InitWithoutTerminal,
                    Acknowledge, AcknowledgeNothing, Finish

\* Entries of a baseline are without a date, so none lapses.
LEMMA BaselinesHold ==
  ASSUME NEW results, NEW v, NEW t, NEW ack \in Acks(Baseline(results), v)
  PROVE  ~ Lapsed(ack, t)
<1>1. PICK k \in DOMAIN Baseline(results) : ack = Baseline(results)[k]
  BY KeysAreEntries DEF Acks
<1>2. ack.expires = {}
  BY <1>1 DEF Baseline
<1> QED BY <1>2 DEF Lapsed

\* The entry for an error applies to the violation that the error is about.
LEMMA BaselinedIsAcknowledged ==
  ASSUME NEW j, j.source \subseteq Check, j.scored \subseteq DOMAIN PackageFindings, NEW v \in Graded(j),
         NEW table, NEW r, r.name = v.entity, r.check = v.check,
         EntityKey(r) \in DOMAIN table, r.check \in table[EntityKey(r)].checks
  PROVE  Acks(table, v) # {}
<1>1. v.check \in Check
  BY GradedForms
<1>2. CASE v = [entity |-> RootKey, check |-> v.check, depth |-> 0, dev |-> FALSE]
  <2>1. v.entity = RootKey /\ v.depth = 0
    BY <1>2
  <2>2. EntityKey(r) = Root
    BY <2>1, KeyAssumption DEF EntityKey
  <2> QED BY <1>1, <2>1, <2>2, OwnEntryApplies
<1>3. ASSUME NEW key \in j.scored,
             v = [entity |-> AnalysisId(j.repo, key), check |-> v.check, depth |-> 1, dev |-> FALSE]
      PROVE  Acks(table, v) # {}
  <2>1. v.entity = AnalysisId(j.repo, key)
    BY <1>3
  <2>2. v.entity.name \notin SourceNames \cup DOMAIN Glob \cup {Root.name}
    BY <2>1, AnalysisNames
  <2>3. EntityKey(r) = v.entity
    BY <2>2 DEF EntityKey
  <2> QED BY <1>1, <2>2, <2>3, OwnEntryApplies
<1> QED BY <1>2, <1>3, GradedForms

\* After an init that baselines all that blocks in a tree without a policy, a
\* scan of that tree finds nothing that blocks (init.go:257), whatever the tree,
\* the packages and the corrected URLs.
THEOREM BaseliningIsEnough == Spec => BaselineAccepts
<1> DEFINE Accepts ==
             /\ job.pc = "triage" /\ outcome' = "written" /\ job' = Idle
             /\ job.fresh /\ job.rules = {} /\ ~ job.partial
             /\ DOMAIN file'.policy.failures = {EntityKey(r) : r \in Errors(job.results)}
             /\ \A r \in Errors(job.results) : r.check \in file'.policy.failures[EntityKey(r)].checks
             => \A v \in SourceViolations \cup UNION {PackageViolations({file'.policy}, key) : key \in job.scored} :
                  Level(Kind(Effective({file'.policy}), v, job.gradedAt)) # "error"
<1>1. ASSUME PolicyInv, ScanInv, Next,
             job.pc = "triage", outcome' = "written", job' = Idle, job.fresh, job.rules = {},
             DOMAIN file'.policy.failures = {EntityKey(r) : r \in Errors(job.results)},
             \A r \in Errors(job.results) : r.check \in file'.policy.failures[EntityKey(r)].checks,
             NEW v \in SourceViolations \cup UNION {PackageViolations({file'.policy}, key) : key \in job.scored}
      PROVE  Level(Kind(Effective({file'.policy}), v, job.gradedAt)) # "error"
  <2> DEFINE p == file'.policy
             t == job.gradedAt
  <2>1. job # Idle
    BY <1>1, NotIdle
  <2>2. /\ ScanJob(job, code, ignored)
        /\ job.source = SourceFindings[code]
        /\ job.repo = FreshPolicies(job.urls)
        /\ \A w \in Graded(job) : GradedError(job, w) =>
             \E r \in Errors(job.results) : r.name = w.entity /\ r.check = w.check
    BY <1>1, <2>1 DEF ScanInv, ScanJob, ReadInv, FreshInv, ResultsInv, FreshPolicies
  <2>3. PICK errors \in SUBSET Errors(job.results), warnings \in SUBSET Warnings(job.results) :
          Triage(errors, warnings)
    BY <1>1, OnlyTriageWrites
  <2>4. p = TriagedPolicy({}, job.urls, errors, warnings)
    BY <1>1, <2>3 DEF Triage, Written
  <2> HIDE DEF p
  <2>5. /\ p.failures = Baseline(errors) /\ p.overrides = job.urls
        /\ Severity(Effective({p}), v, t) = Severity(DefaultPolicy, v, t)
        /\ Acks(Effective({p}).failures, v) = Acks(Baseline(errors), v)
        /\ IsPolicy(Effective({p}))
    BY <2>4, TriagedGrades
  <2>6. v \in Graded(job)
    <3>1. ASSUME NEW key
          PROVE  PackageViolations({p}, key) = PackageViolations(job.repo, key)
      <4>1. OverrideFor({p}, key) = OverrideFor(job.repo, key)
        BY <2>2, <2>5, SameOverrides
      <4>2. AnalysisId({p}, key) = AnalysisId(job.repo, key)
        BY <4>1 DEF AnalysisId
      <4> QED BY <4>1, <4>2 DEF PackageViolations
    <3>2. SourceViolations = Violations(RootKey, job.source, 0)
      BY <2>2 DEF SourceViolations, Violations
    <3> QED BY <1>1, <3>1, <3>2 DEF Graded, p
  <2>7. /\ Severity(Effective(job.repo), v, t) = Severity(DefaultPolicy, v, t)
        /\ Acks(Effective(job.repo).failures, v) = {}
        /\ IsPolicy(Effective(job.repo))
    BY <2>2, FreshGrades
  <2>8. t \in Int
    BY <2>2 DEF ScanJob
  <2>9. SUFFICES ASSUME Level(Kind(Effective({p}), v, t)) = "error" PROVE FALSE
    BY DEF p
  <2>10. Severity(Effective({p}), v, t) = "blocking" /\ Acks(Baseline(errors), v) = {}
    BY <2>5, <2>8, <2>9, WhatIsAnError, BaselinesHold
  <2>11. Kind(Effective(job.repo), v, t) = "blocking"
    BY <2>5, <2>7, <2>10, KindByCases DEF Severities
  <2>12. GradedError(job, v)
    BY <2>11, LevelIsOne DEF GradedError
  <2>13. PICK r \in Errors(job.results) : r.name = v.entity /\ r.check = v.check
    BY <2>2, <2>6, <2>12
  <2>14. EntityKey(r) \in DOMAIN p.failures /\ r.check \in p.failures[EntityKey(r)].checks
    BY <1>1, <2>13 DEF p
  <2>15. Acks(p.failures, v) # {}
    BY <2>2, <2>6, <2>13, <2>14, BaselinedIsAcknowledged DEF ScanJob
  <2> QED BY <2>5, <2>10, <2>15
<1>2. PolicyInv /\ ScanInv /\ [Next]_vars => [Accepts]_vars
  BY <1>1
<1> QED BY <1>2, ScansAreOfOneTree, PTL DEF Spec, BaselineAccepts

-------------------------------------------------------------------------------
(* What a lockfile pins.                                                       *)

LEMMA MaxIsIn ==
  ASSUME NEW n \in Nat, NEW S \in SUBSET (1..n), S # {}
  PROVE  Max(S) \in S
<1> DEFINE D == {n - x : x \in S}
<1>1. D \subseteq Nat /\ D # {}
  <2>1. \A x \in S : n - x \in Nat
    OBVIOUS
  <2> QED BY <2>1
<1>2. PICK y \in D : \A z \in D : y <= z
  <2> HIDE DEF D
  <2> QED BY <1>1, LeastNat
<1>3. PICK x \in S : y = n - x
  BY <1>2
<1>4. \A z \in S : n - x <= n - z
  BY <1>2, <1>3
<1>5. \A z \in S : x >= z
  BY <1>4
<1> QED BY <1>5 DEF Max

LEMMA LockfileByFormat ==
  ASSUME NEW l, l.parses
  PROVE  /\ l.format = "npm" => ParseLockfile(l) = ParsePackages(l.packages)
         /\ l.format = "npm1" => ParseLockfile(l) = ParseDependenciesV1(l.tree)
         /\ l.format = "bun" => ParseLockfile(l) = ParseBun(l.workspaces, l.packages)
         /\ l.format = "uv" => ParseLockfile(l) = ParseUv(l.entries)
         /\ l.format = "other" => ParseLockfile(l) = {}
<1>1. CASE l.format = "npm"
  BY <1>1 DEF ParseLockfile
<1>2. CASE l.format = "npm1"
  BY <1>2 DEF ParseLockfile
<1>3. CASE l.format = "bun"
  BY <1>3 DEF ParseLockfile
<1>4. CASE l.format = "uv"
  BY <1>4 DEF ParseLockfile
<1>5. CASE l.format = "other"
  BY <1>5 DEF ParseLockfile
<1> QED BY <1>1, <1>2, <1>3, <1>4, <1>5

LEMMA UnparsedLockfile ==
  ASSUME NEW l, ~ l.parses
  PROVE  ParseLockfile(l) = {}
BY DEF ParseLockfile

LEMMA NpmPins ==
  ASSUME NEW l, NEW name, l.format = "npm", Lists(l, name), DOMAIN l.packages \subseteq Seq(STRING),
         ~ l.packages[<<NodeModules, name>>].link
  PROVE  Edge(NoKey, MakeKey(name, l.packages[<<NodeModules, name>>].version)) \in ParsePackages(l.packages)
<1> DEFINE packages == l.packages
           place == <<NodeModules, name>>
           pkg == packages[place]
<1>1. /\ <<>> \in DOMAIN packages /\ place \in DOMAIN packages /\ pkg.name \subseteq {name} /\ ~ pkg.link
      /\ name \in packages[<<>>].dependencies \cup packages[<<>>].dev \cup packages[<<>>].optional
      /\ DOMAIN packages \subseteq Seq(STRING)
  BY DEF Lists
<1> HIDE DEF packages
<1>2. Last(place) = name /\ Installed(place) /\ place # <<>>
  BY DEF Last, Installed, ToSet
<1>3. name \in NamesOf(place, pkg)
  BY <1>1, <1>2 DEF NamesOf, CanonicalName
<1>4. ASSUME NEW p \in Seq(STRING), IsStrictPrefix(p, place)
      PROVE  p = <<>> \/ Installed(p)
  <2>1. Len(p) <= 2 /\ p # place /\ \A i \in 1..Len(p) : p[i] = place[i]
    BY <1>4 DEF IsStrictPrefix, IsPrefix
  <2>2. Len(p) # 2
    BY <2>1
  <2>3. Len(p) \in Nat /\ (p # <<>> => Len(p) # 0)
    OBVIOUS
  <2>4. place[1] = NodeModules
    OBVIOUS
  <2>5. ASSUME p # <<>> PROVE Len(p) = 1 /\ p[1] = NodeModules
    <3> HIDE DEF place
    <3>1. Len(p) = 1
      <4>1. \A k \in Nat : k <= 2 /\ k # 2 /\ k # 0 => k = 1
        OBVIOUS
      <4>2. Len(p) <= 2
        BY <2>1
      <4> QED BY <2>2, <2>3, <2>5, <4>1, <4>2
    <3>2. 1 \in 1..Len(p)
      BY <3>1
    <3>3. p[1] = place[1]
      BY <2>1, <3>2
    <3> QED BY <2>4, <3>1, <3>3
  <2>6. p # <<>> => 1 \in DOMAIN p
    BY <2>5
  <2> QED BY <2>5, <2>6 DEF Installed, ToSet
<1>5. RootOf(place, packages) = <<>>
  <2>1. \A r \in FindRoots(packages) : IsStrictPrefix(r, place) <=> r = <<>>
    <3>1. IsStrictPrefix(<<>>, place)
      BY DEF IsStrictPrefix, IsPrefix
    <3> QED BY <1>1, <1>4, <3>1 DEF FindRoots
  <2>2. <<>> \in FindRoots(packages)
    BY <1>1 DEF FindRoots
  <2>3. Len(<<>>) <= Len(<<>>)
    OBVIOUS
  <2> HIDE DEF place
  <2> QED BY <2>1, <2>2, <2>3 DEF RootOf
<1>6. IsDirectDep(place, packages)
  <2>1. <<>> \o <<NodeModules, name>> = place
    OBVIOUS
  <2> QED BY <1>1, <1>2, <1>5, <2>1 DEF IsDirectDep
<1>7. Edge(NoKey, MakeKey(name, pkg.version)) \in NpmEdgesOf(place, packages)
  BY <1>3, <1>6 DEF NpmEdgesOf
<1>8. NpmEdgesOf(place, packages) \subseteq ParsePackages(packages)
  BY <1>1, <1>2 DEF ParsePackages
<1> QED BY <1>7, <1>8 DEF packages

LEMMA V1Pins ==
  ASSUME NEW l, NEW name, l.format = "npm1", Lists(l, name)
  PROVE  Edge(NoKey, MakeKey(name, l.tree[<<name>>])) \in ParseDependenciesV1(l.tree)
<1>1. <<name>> \in DOMAIN l.tree
  BY DEF Lists
<1>2. Len(<<name>>) = 1 /\ Last(<<name>>) = name
  BY DEF Last
<1> QED BY <1>1, <1>2 DEF ParseDependenciesV1

LEMMA BunPins ==
  ASSUME NEW l, NEW name, l.format = "bun", Lists(l, name)
  PROVE  Edge(NoKey, MakeKey(name, l.packages[<<name>>].version)) \in ParseBun(l.workspaces, l.packages)
<1> DEFINE packages == l.packages
           direct == {p \in DOMAIN packages : \E w \in l.workspaces : \E d \in w : p = <<d>>}
<1>1. <<name>> \in DOMAIN packages /\ packages[<<name>>].name = name /\ \E w \in l.workspaces : name \in w
  BY DEF Lists
<1>2. BunKey(packages[<<name>>]) = MakeKey(name, packages[<<name>>].version)
  BY <1>1 DEF BunKey
<1>3. <<name>> \in direct
  BY <1>1
<1>4. {Edge(NoKey, BunKey(packages[p])) : p \in direct} \subseteq ParseBun(l.workspaces, packages)
  BY DEF ParseBun
<1> HIDE DEF direct, packages
<1>5. Edge(NoKey, BunKey(packages[<<name>>])) \in ParseBun(l.workspaces, packages)
  BY <1>3, <1>4
<1> QED BY <1>2, <1>5 DEF packages

LEMMA UvPins ==
  ASSUME NEW l, NEW name, l.format = "uv", Lists(l, name), l.entries \in Seq(ToSet(l.entries))
  PROVE  Edge(NoKey, MakeKey(name, (CHOOSE e \in ToSet(l.entries) : e.name = name).version))
           \in ParseUv(l.entries)
<1> DEFINE entries == l.entries
<1>1. /\ \E i \in DOMAIN entries : \A j \in DOMAIN entries : entries[j].name = name <=> j = i
      /\ \E e \in ToSet(entries) : e.root /\ name \in e.dependencies
      /\ entries \in Seq(ToSet(entries))
  BY DEF Lists
<1> HIDE DEF entries
<1>2. PICK i \in DOMAIN entries : \A j \in DOMAIN entries : entries[j].name = name <=> j = i
  BY <1>1
<1>3. PICK e \in ToSet(entries) : e.root /\ name \in e.dependencies
  BY <1>1
<1>4. ToSet(entries) = {entries[j] : j \in DOMAIN entries}
  BY DEF ToSet
<1>5. (CHOOSE x \in ToSet(entries) : x.name = name) = entries[i]
  BY <1>2, <1>4
<1>6. ResolveVersion(name, entries) = entries[i].version
  <2> DEFINE at == {j \in DOMAIN entries : entries[j].name = name}
  <2>1. at = {i} /\ i \in Nat
    BY <1>1, <1>2
  <2> HIDE DEF at
  <2>2. Max(at) = i
    BY <2>1 DEF Max
  <2> QED BY <2>1, <2>2 DEF ResolveVersion, at
<1>7. Edge(NoKey, MakeKey(name, ResolveVersion(name, entries))) \in ParseUv(entries)
  BY <1>3 DEF ParseUv
<1> QED BY <1>5, <1>6, <1>7 DEF entries

\* What a manifest declares, its lockfile lists at the top.
LEMMA PinnedEdge ==
  ASSUME NEW m \in Manifests, NEW l \in LockThatCounts(m), NEW d \in DeclaredIn(m)
  PROVE  Edge(NoKey, MakeKey(d.child.name, TopVersion(l, d.child.name))) \in ParseLockfile(l)
<1> DEFINE name == d.child.name
<1>1. l \in ClosestLockfile(m.dir, m.lockfiles) /\ l.parses /\ l.format # "other"
  BY DEF LockThatCounts
<1>2. /\ l.format \in {"npm", "npm1", "bun", "uv", "other"}
      /\ l.format = "npm" => DOMAIN l.packages \subseteq Seq(STRING)
      /\ l.format = "uv" => l.entries \in Seq(ToSet(l.entries))
      /\ \A x \in NamedIn(m) : Lists(l, x.child.name)
  BY <1>1, LockfileAssumption
<1>3. d \in NamedIn(m) /\ ~ LinkedFolder(m, name)
  BY DEF DeclaredIn
<1>4. Lists(l, name)
  BY <1>2, <1>3
<1> HIDE DEF name
<1>5. CASE l.format = "npm"
  <2>1. ~ l.packages[<<NodeModules, name>>].link
    BY <1>3, <1>5 DEF LinkedFolder
  <2>2. TopVersion(l, name) = l.packages[<<NodeModules, name>>].version
    BY <1>5 DEF TopVersion
  <2> QED BY <1>1, <1>2, <1>4, <1>5, <2>1, <2>2, NpmPins, LockfileByFormat DEF name
<1>6. CASE l.format = "npm1"
  <2>1. TopVersion(l, name) = l.tree[<<name>>]
    BY <1>6 DEF TopVersion
  <2> QED BY <1>1, <1>4, <1>6, <2>1, V1Pins, LockfileByFormat DEF name
<1>7. CASE l.format = "bun"
  <2>1. TopVersion(l, name) = l.packages[<<name>>].version
    BY <1>7 DEF TopVersion
  <2> QED BY <1>1, <1>4, <1>7, <2>1, BunPins, LockfileByFormat DEF name
<1>8. CASE l.format = "uv"
  <2>1. TopVersion(l, name) = (CHOOSE e \in ToSet(l.entries) : e.name = name).version
    BY <1>8 DEF TopVersion
  <2> QED BY <1>1, <1>2, <1>4, <1>8, <2>1, UvPins, LockfileByFormat DEF name
<1> QED BY <1>1, <1>2, <1>5, <1>6, <1>7, <1>8

\* The parsers give no edge a place yet.
LEMMA LockfileEdges ==
  ASSUME NEW l, l.format \in {"npm", "npm1", "bun", "uv", "other"}, NEW e \in ParseLockfile(l)
  PROVE  \E a, b : e = Edge(a, b)
<1>0. l.parses
  BY UnparsedLockfile
<1>1. CASE l.format = "npm"
  <2>1. PICK p : e \in NpmEdgesOf(p, l.packages)
    BY <1>0, <1>1, LockfileByFormat DEF ParsePackages
  <2> QED BY <2>1 DEF NpmEdgesOf
<1>2. CASE l.format = "npm1"
  BY <1>0, <1>2, LockfileByFormat DEF ParseDependenciesV1
<1>3. CASE l.format = "bun"
  <2> DEFINE packages == l.packages
             direct == {p \in DOMAIN packages : \E w \in l.workspaces : \E d \in w : p = <<d>>}
             of(p, d) == {Edge(BunKey(packages[p]), BunKey(packages[q])) : q \in Nearest(p, <<d>>, DOMAIN packages)}
  <2>1. e \in {Edge(NoKey, BunKey(packages[p])) : p \in direct}
               \cup UNION {UNION {of(p, d) : d \in packages[p].dependencies} : p \in DOMAIN packages}
    BY <1>0, <1>3, LockfileByFormat DEF ParseBun
  <2>2. \A p, d : \A x \in of(p, d) : \E a, b : x = Edge(a, b)
    OBVIOUS
  <2> HIDE DEF packages, direct, of
  <2> QED BY <2>1, <2>2
<1>4. CASE l.format = "uv"
  BY <1>0, <1>4, LockfileByFormat DEF ParseUv
<1>5. CASE l.format = "other"
  BY <1>0, <1>5, LockfileByFormat
<1> QED BY <1>1, <1>2, <1>3, <1>4, <1>5

LEMMA DeclaredLines ==
  ASSUME NEW declared, declared \in Seq(ToSet(declared)), NEW name
  PROVE  /\ DeclaredLocation(declared, name) # {} =>
              \E j \in DOMAIN declared : /\ declared[j].child.name = name
                                         /\ declared[j].location = DeclaredLocation(declared, name)
         /\ \A j \in DOMAIN declared :
              declared[j].child.name = name /\ declared[j].location # {} => DeclaredLocation(declared, name) # {}
<1> DEFINE at == {i \in DOMAIN declared : declared[i].child.name = name /\ declared[i].location # {}}
<1>1. at \subseteq 1..Len(declared) /\ Len(declared) \in Nat
  OBVIOUS
<1>2. DeclaredLocation(declared, name) = IF at = {} THEN {} ELSE declared[Max(at)].location
  BY DEF DeclaredLocation
<1>3. \A i \in at : i \in DOMAIN declared /\ declared[i].child.name = name /\ declared[i].location # {}
  OBVIOUS
<1>4. \A j \in DOMAIN declared : declared[j].child.name = name /\ declared[j].location # {} => j \in at
  OBVIOUS
<1> HIDE DEF at
<1>5. at # {} => Max(at) \in at
  BY <1>1, MaxIsIn
<1> QED BY <1>2, <1>3, <1>4, <1>5

\* What the tree itself depends on, by its lockfiles, lies where the manifest
\* declares it.
LEMMA AttachedEdges ==
  ASSUME NEW edges, \A e \in edges : \E a, b : e = Edge(a, b), NEW declared
  PROVE  /\ \A x \in AttachManifestLocations(edges, declared) :
              x.parent = NoKey => x.location = DeclaredLocation(declared, x.child.name)
         /\ \A b : Edge(NoKey, b) \in edges =>
              \E x \in AttachManifestLocations(edges, declared) : x.parent = NoKey /\ x.child = b
<1> DEFINE ancestors == AncestorLocations(edges, declared)
           above(key) == {r[2] : r \in {r \in ancestors : r[1] = key}}
           place(e) == IF e.parent = NoKey THEN DeclaredLocation(declared, e.child.name)
                       ELSE {l \in above(e.parent) : l = CHOOSE k \in above(e.parent) : TRUE}
           put(e) == [e EXCEPT !.location = place(e)]
<1>1. AttachManifestLocations(edges, declared) = {put(e) : e \in edges}
  BY DEF AttachManifestLocations
<1>2. \A e : e.parent = NoKey => place(e) = DeclaredLocation(declared, e.child.name)
  OBVIOUS
<1> HIDE DEF place
<1>3. ASSUME NEW e \in edges
      PROVE  put(e).parent = e.parent /\ put(e).child = e.child /\ put(e).location = place(e)
  <2>1. PICK a, b : e = Edge(a, b)
    OBVIOUS
  <2>2. {"parent", "child", "location"} = DOMAIN e
    BY <2>1 DEF Edge
  <2> QED BY <2>2
<1>4. \A b : Edge(NoKey, b).parent = NoKey /\ Edge(NoKey, b).child = b
  BY DEF Edge
<1> HIDE DEF put
<1> QED BY <1>1, <1>2, <1>3, <1>4

-------------------------------------------------------------------------------
(* Where the tree's own dependencies lie.                                      *)

\* The place of a dependency of the tree, by its number in the manifest.
LineIn(m, at, child) ==
  IF LockedEdges(m) # {} THEN DeclaredLocation(m.declared, child.name) ELSE m.declared[at].location

LEMMA LockfileDeps ==
  ASSUME NEW m \in Manifests, NEW x \in LockfileDependencies(m), x.parent = NoKey
  PROVE  x.location = DeclaredLocation(m.declared, x.child.name)
<1>1. PICK l \in ClosestLockfile(m.dir, m.lockfiles) : x \in AttachManifestLocations(ParseLockfile(l), m.declared)
  BY DEF LockfileDependencies
<1>2. l.format \in {"npm", "npm1", "bun", "uv", "other"}
  BY <1>1, LockfileAssumption
<1>3. \A e \in ParseLockfile(l) : \E a, b : e = Edge(a, b)
  BY <1>2, LockfileEdges
<1> QED BY <1>1, <1>3, AttachedEdges

LEMMA LockedDeclaration ==
  ASSUME NEW m \in Manifests, NEW l \in LockThatCounts(m), NEW d \in DeclaredIn(m)
  PROVE  \E x \in LockfileDependencies(m) :
           x.parent = NoKey /\ x.child = MakeKey(d.child.name, TopVersion(l, d.child.name))
<1>1. l \in ClosestLockfile(m.dir, m.lockfiles)
  BY DEF LockThatCounts
<1>2. l.format \in {"npm", "npm1", "bun", "uv", "other"}
  BY <1>1, LockfileAssumption
<1>3. \A e \in ParseLockfile(l) : \E a, b : e = Edge(a, b)
  BY <1>2, LockfileEdges
<1>4. \E x \in AttachManifestLocations(ParseLockfile(l), m.declared) :
        x.parent = NoKey /\ x.child = MakeKey(d.child.name, TopVersion(l, d.child.name))
  BY <1>3, AttachedEdges, PinnedEdge
<1>5. AttachManifestLocations(ParseLockfile(l), m.declared) \subseteq LockfileDependencies(m)
  BY <1>1 DEF LockfileDependencies
<1> QED BY <1>4, <1>5

LEMMA WithoutLockfile ==
  ASSUME NEW m \in Manifests, LockThatCounts(m) = {}
  PROVE  LockedEdges(m) = {}
<1>1. ASSUME NEW l \in ClosestLockfile(m.dir, m.lockfiles)
      PROVE  ParseLockfile(l) = {}
  <2>1. ~ l.parses \/ l.format = "other"
    BY DEF LockThatCounts
  <2> QED BY <2>1, UnparsedLockfile, LockfileByFormat
<1>2. ASSUME NEW l \in ClosestLockfile(m.dir, m.lockfiles)
      PROVE  AttachManifestLocations(ParseLockfile(l), m.declared) = {}
  <2>1. ParseLockfile(l) = {}
    BY <1>1
  <2> QED BY <2>1 DEF AttachManifestLocations
<1>3. LockfileDependencies(m) = {}
  BY <1>2 DEF LockfileDependencies
<1> QED BY <1>3 DEF LockedEdges

LEMMA RootEdges ==
  ASSUME NEW m \in Manifests, NEW x \in ManifestEdges(m), x.parent = RootKey
  PROVE  /\ DOMAIN x = {"at", "parent", "child", "location"}
         /\ x.at \in Nat
         /\ x.location = LineIn(m, x.at, x.child)
         /\ x.location # {} => \E j \in DOMAIN m.declared : /\ m.declared[j].child.name = x.child.name
                                                            /\ m.declared[j].location = x.location
<1>0. m.declared \in Seq(ToSet(m.declared)) /\ \A e \in LockfileDependencies(m) : e.parent # RootKey
  BY TreeAssumption
<1>1. CASE x \in LockedEdges(m)
  <2>1. PICK e \in LockfileDependencies(m) :
          x = [at |-> 0, parent |-> IF e.parent = NoKey THEN RootKey ELSE e.parent,
               child |-> e.child, location |-> e.location]
    BY <1>1 DEF LockedEdges
  <2>2. e.parent = NoKey
    BY <1>0, <2>1
  <2>3. x.location = DeclaredLocation(m.declared, x.child.name)
    BY <2>1, <2>2, LockfileDeps
  <2>4. x.at = 0 /\ DOMAIN x = {"at", "parent", "child", "location"} /\ LockedEdges(m) # {}
    BY <1>1, <2>1
  <2> QED BY <1>0, <2>3, <2>4, DeclaredLines DEF LineIn
<1>2. CASE x \in DeclaredEdges(m) /\ LockedEdges(m) = {}
  <2>1. PICK j \in DOMAIN m.declared :
          x = [at |-> j, parent |-> RootKey, child |-> m.declared[j].child, location |-> m.declared[j].location]
    BY <1>2 DEF DeclaredEdges
  <2>2. j \in Nat
    BY <1>0
  <2> QED BY <1>2, <2>1, <2>2 DEF LineIn
<1> QED BY <1>1, <1>2 DEF ManifestEdges

\* The edges of a tree, each from one of its manifests.
LEMMA TreeEdgeOf ==
  ASSUME NEW c \in Codes, NEW excluded, NEW e \in TreeEdges(c, excluded), e.parent = RootKey
  PROVE  \E i \in KeptManifests(ManifestsAt[c], excluded) : \E x \in ManifestEdges(ManifestsAt[c][i]) :
           /\ i \in Nat /\ ManifestsAt[c][i] \in Manifests
           /\ x.parent = RootKey /\ x.child = e.child /\ x.location = e.location
           /\ x.at \in Nat /\ e.at = <<i, x.at>>
<1> DEFINE manifests == ManifestsAt[c]
           kept == KeptManifests(manifests, excluded)
<1>1. PICK i \in kept : e \in {[x EXCEPT !.at = <<i, @>>] : x \in ManifestEdges(manifests[i])}
  BY DEF TreeEdges, Edges
<1>2. PICK x \in ManifestEdges(manifests[i]) : e = [x EXCEPT !.at = <<i, @>>]
  BY <1>1
<1>3. i \in DOMAIN manifests
  BY <1>1 DEF KeptManifests
<1>4. manifests \in Seq(Manifests)
  BY TreeAssumption
<1>5. i \in Nat /\ manifests[i] \in Manifests
  BY <1>3, <1>4
<1>6. x.parent = e.parent /\ x.child = e.child /\ x.location = e.location
  BY <1>2
<1> HIDE DEF manifests, kept
<1>7. DOMAIN x = {"at", "parent", "child", "location"} /\ x.at \in Nat
  BY <1>2, <1>5, <1>6, RootEdges
<1>8. e.at = <<i, x.at>>
  BY <1>2, <1>7
<1> QED BY <1>1, <1>2, <1>5, <1>6, <1>7, <1>8 DEF manifests, kept

\* The first of several places is one of them.
LEMMA FirstIsOne ==
  ASSUME NEW edges, NEW key, LocatedAt(edges, key) # {},
         \A e \in LocatedAt(edges, key) : e.at[1] \in Nat /\ e.at[2] \in Nat,
         \A e, f \in LocatedAt(edges, key) :
           e.at[1] = f.at[1] /\ e.at[2] = f.at[2] => e.location = f.location
  PROVE  \E e \in LocatedAt(edges, key) : FirstLocation(edges, key) = e.location
<1> DEFINE L == LocatedAt(edges, key)
           minimal == {e \in L : \A f \in L : ~ Sooner(f.at, e.at)}
           rows == {e.at[1] : e \in L}
<1>1. FirstLocation(edges, key) = UNION {e.location : e \in minimal}
  BY DEF FirstLocation
<1>2. /\ L # {} /\ \A e \in L : e.at[1] \in Nat /\ e.at[2] \in Nat
      /\ \A e, f \in L : e.at[1] = f.at[1] /\ e.at[2] = f.at[2] => e.location = f.location
  OBVIOUS
<1> HIDE DEF L
<1>3. PICK a \in rows : \A x \in rows : a <= x
  <2>1. rows \subseteq Nat /\ rows # {}
    BY <1>2
  <2> HIDE DEF rows
  <2> QED BY <2>1, LeastNat
<1> DEFINE columns == {e.at[2] : e \in {e \in L : e.at[1] = a}}
<1>4. PICK b \in columns : \A y \in columns : b <= y
  <2>1. columns \subseteq Nat /\ columns # {}
    BY <1>2, <1>3
  <2> HIDE DEF columns
  <2> QED BY <2>1, LeastNat
<1>5. PICK e \in L : e.at[1] = a /\ e.at[2] = b
  BY <1>4
<1>6. \A f \in L : a <= f.at[1] /\ (f.at[1] = a => b <= f.at[2])
  BY <1>3, <1>4
<1>7. e \in minimal
  BY <1>2, <1>5, <1>6 DEF Sooner
<1>8. ASSUME NEW f \in minimal
      PROVE  f.location = e.location
  <2>1. f \in L /\ ~ Sooner(e.at, f.at)
    OBVIOUS
  <2>2. f.at[1] = a /\ f.at[2] = b
    BY <1>2, <1>5, <1>6, <2>1 DEF Sooner
  <2> QED BY <1>2, <1>5, <2>1, <2>2
<1> HIDE DEF minimal
<1>9. FirstLocation(edges, key) = e.location
  BY <1>1, <1>7, <1>8
<1> QED BY <1>9 DEF L

\* A package of the tree is placed at a line of a kept manifest that declares
\* its name, if any edge to it has a place.
LEMMA FirstPlace ==
  ASSUME NEW c \in Codes, NEW excluded, NEW key
  PROVE  LET edges == TreeEdges(c, excluded)
         IN  IF LocatedAt(edges, key) = {} THEN FirstLocation(edges, key) = {}
             ELSE /\ FirstLocation(edges, key) # {}
                  /\ \E i \in KeptManifests(ManifestsAt[c], excluded) :
                       LET m == ManifestsAt[c][i]
                       IN  \E j \in DOMAIN m.declared : /\ m.declared[j].child.name = key.name
                                                        /\ m.declared[j].location = FirstLocation(edges, key)
<1> DEFINE edges == TreeEdges(c, excluded)
           kept == KeptManifests(ManifestsAt[c], excluded)
           manifest(i) == ManifestsAt[c][i]
<1>1. CASE LocatedAt(edges, key) = {}
  BY <1>1 DEF FirstLocation
<1>2. CASE LocatedAt(edges, key) # {}
  <2>1. \A e \in LocatedAt(edges, key) : e \in edges /\ e.parent = RootKey /\ e.child = key /\ e.location # {}
    BY DEF LocatedAt
  <2>2. ASSUME NEW e \in LocatedAt(edges, key)
        PROVE  \E i \in kept :
                 /\ i \in Nat /\ e.at[2] \in Nat /\ e.at[1] = i
                 /\ e.location = LineIn(manifest(i), e.at[2], key)
                 /\ \E j \in DOMAIN manifest(i).declared :
                      /\ manifest(i).declared[j].child.name = key.name
                      /\ manifest(i).declared[j].location = e.location
    <3>1. PICK i \in kept : \E x \in ManifestEdges(manifest(i)) :
            /\ i \in Nat /\ manifest(i) \in Manifests
            /\ x.parent = RootKey /\ x.child = e.child /\ x.location = e.location
            /\ x.at \in Nat /\ e.at = <<i, x.at>>
      BY <2>1, TreeEdgeOf
    <3>2. PICK x \in ManifestEdges(manifest(i)) :
            /\ i \in Nat /\ manifest(i) \in Manifests
            /\ x.parent = RootKey /\ x.child = e.child /\ x.location = e.location
            /\ x.at \in Nat /\ e.at = <<i, x.at>>
      BY <3>1
    <3>3. e.at[1] = i /\ e.at[2] = x.at /\ x.child = key /\ x.location # {}
      BY <2>1, <3>2
    <3> HIDE DEF manifest, kept, edges
    <3>4. /\ x.location = LineIn(manifest(i), x.at, x.child)
          /\ \E j \in DOMAIN manifest(i).declared : /\ manifest(i).declared[j].child.name = x.child.name
                                                    /\ manifest(i).declared[j].location = x.location
      BY <3>2, <3>3, RootEdges
    <3> QED BY <3>2, <3>3, <3>4
  <2> HIDE DEF edges, kept, manifest
  <2>3. \A e \in LocatedAt(edges, key) : e.at[1] \in Nat /\ e.at[2] \in Nat
    BY <2>2
  <2>4. \A e, f \in LocatedAt(edges, key) :
          e.at[1] = f.at[1] /\ e.at[2] = f.at[2] => e.location = f.location
    <3>1. \A e \in LocatedAt(edges, key) : e.location = LineIn(manifest(e.at[1]), e.at[2], key)
      BY <2>2
    <3> QED BY <3>1
  <2>5. PICK e \in LocatedAt(edges, key) : FirstLocation(edges, key) = e.location
    BY <1>2, <2>3, <2>4, FirstIsOne
  <2>6. e.location # {}
    BY <2>1
  <2> QED BY <1>2, <2>2, <2>5, <2>6 DEF edges, kept, manifest
<1> QED BY <1>1, <1>2

\* What the tree declares is among its edges, in the version that is pinned, and
\* has a place if the declaration has.
LEMMA DeclarationsAreEdges ==
  ASSUME code \in Codes, NEW e \in Declarations
  PROVE  \E x \in TreeEdges(code, ignored) :
           /\ x.parent = RootKey /\ x.child = e.child
           /\ e.location # {} => x.location # {}
<1> DEFINE manifests == ManifestsAt[code]
           kept == KeptManifests(manifests, ignored)
<1>1. PICK m \in ToSet(manifests) : InScope(m) /\ \E d \in DeclaredIn(m) :
              e = [child |-> PinnedKey(m, d.child), location |-> d.location]
  BY DEF Declarations
<1>2. PICK d \in DeclaredIn(m) : e = [child |-> PinnedKey(m, d.child), location |-> d.location]
  BY <1>1
<1>3. manifests \in Seq(Manifests)
  BY TreeAssumption
<1>4. PICK i \in DOMAIN manifests : manifests[i] = m
  BY <1>1 DEF ToSet
<1>5. m \in Manifests
  BY <1>3, <1>4
<1>6. m.parses /\ i \in kept
  <2>1. m.parses /\ \E p \in m.paths : ~ IgnoreMatch(p, ignored)
    BY <1>1 DEF InScope
  <2> QED BY <1>4, <2>1 DEF KeptManifests, ManifestIgnored
<1> HIDE DEF manifests, kept
<1>7. PICK j \in DOMAIN m.declared : m.declared[j] = d /\ d.child # NoKey
  BY DEF DeclaredIn, NamedIn, ToSet
<1>8. \E x \in ManifestEdges(m) :
        /\ x.parent = RootKey /\ x.child = e.child
        /\ e.location # {} => x.location # {}
        /\ DOMAIN x = {"at", "parent", "child", "location"}
  <2>1. CASE LockThatCounts(m) = {}
    <3>1. ManifestEdges(m) = DeclaredEdges(m)
      BY <1>5, <1>6, <2>1, WithoutLockfile DEF ManifestEdges
    <3>2. PinnedKey(m, d.child) = d.child
      BY <2>1 DEF PinnedKey
    <3>3. [at |-> j, parent |-> RootKey, child |-> d.child, location |-> d.location] \in DeclaredEdges(m)
      BY <1>7 DEF DeclaredEdges
    <3> QED BY <1>2, <3>1, <3>2, <3>3
  <2>2. CASE LockThatCounts(m) # {}
    <3> DEFINE l == CHOOSE l \in LockThatCounts(m) : TRUE
    <3>1. l \in LockThatCounts(m)
      BY <2>2
    <3>2. PinnedKey(m, d.child) = MakeKey(d.child.name, TopVersion(l, d.child.name))
      BY <2>2 DEF PinnedKey
    <3> HIDE DEF l
    <3>3. PICK y \in LockfileDependencies(m) : y.parent = NoKey /\ y.child = PinnedKey(m, d.child)
      BY <1>5, <3>1, <3>2, LockedDeclaration
    <3>4. [at |-> 0, parent |-> RootKey, child |-> y.child, location |-> y.location] \in LockedEdges(m)
      BY <3>3 DEF LockedEdges
    <3>5. ManifestEdges(m) = LockedEdges(m)
      BY <1>6, <3>4 DEF ManifestEdges
    <3>6. y.location = DeclaredLocation(m.declared, y.child.name)
      BY <1>5, <3>3, LockfileDeps
    <3>7. y.child.name = d.child.name
      BY <3>2, <3>3 DEF MakeKey
    <3>8. m.declared \in Seq(ToSet(m.declared))
      BY <1>5, TreeAssumption
    <3>9. d.location # {} => y.location # {}
      BY <1>7, <3>6, <3>7, <3>8, DeclaredLines
    <3> QED BY <1>2, <3>3, <3>4, <3>5, <3>9
  <2> QED BY <2>1, <2>2
<1>9. PICK x \in ManifestEdges(m) :
        /\ x.parent = RootKey /\ x.child = e.child
        /\ e.location # {} => x.location # {}
        /\ DOMAIN x = {"at", "parent", "child", "location"}
  BY <1>8
<1> DEFINE y == [x EXCEPT !.at = <<i, @>>]
<1>10. y \in TreeEdges(code, ignored)
  <2> DEFINE of(k) == {[z EXCEPT !.at = <<k, @>>] : z \in ManifestEdges(manifests[k])}
  <2>1. y \in of(i)
    BY <1>4, <1>9
  <2>2. TreeEdges(code, ignored) = UNION {of(k) : k \in kept}
    BY DEF TreeEdges, Edges, manifests, kept
  <2> HIDE DEF of, y
  <2> QED BY <1>6, <2>1, <2>2
<1>11. y.parent = x.parent /\ y.child = x.child /\ y.location = x.location
  BY <1>9
<1> QED BY <1>9, <1>10, <1>11

\* Whatever the format of the document, each declared package is read back from
\* it, and each dependency that is, at its first place.
LEMMA DeclaredDeps ==
  ASSUME code \in Codes, NEW key \in DeclaredKeys, NEW format
  PROVE  LET deps == DirectDeps(ManifestsAt[code], ignored, format)
         IN  /\ key \in Keys(deps)
             /\ \A d \in Keys(deps) : LocationOf(deps, d) = FirstLocation(TreeEdges(code, ignored), d)
<1> DEFINE edges == TreeEdges(code, ignored)
           nodes == TreeNodes(code, ignored)
           deps == DirectDeps(ManifestsAt[code], ignored, format)
<1>1. PICK x \in edges : x.parent = RootKey /\ x.child = key
  BY DeclarationsAreEdges DEF DeclaredKeys
<1>2. IsGraph(nodes)
  BY TreeIsAGraph
<1>3. nodes = Nodes(edges)
  BY DEF TreeNodes
<1> HIDE DEF edges, nodes
<1>4. /\ nodes[RootKey].deps = {e.child : e \in {e \in edges : e.parent = RootKey}}
      /\ \A k \in DOMAIN nodes : nodes[k].location = FirstLocation(edges, k)
      /\ nodes[RootKey].deps \subseteq DOMAIN nodes
  BY <1>1, <1>3 DEF Nodes
<1>5. key \in nodes[RootKey].deps
  BY <1>1, <1>4
<1>6. deps = Expected(nodes)
  <2>1. nodes[RootKey].deps # {}
    BY <1>5
  <2> QED BY <1>2, <2>1, DepsByFormat, SpdxReadsBack, CdxReadsBack DEF nodes
<1> HIDE DEF deps
<1>7. Keys(deps) = nodes[RootKey].deps
  <2>1. \A d \in nodes[RootKey].deps : [key |-> d, location |-> nodes[d].location] \in deps
    BY <1>6 DEF Expected
  <2>2. \A d \in deps : d.key \in nodes[RootKey].deps
    BY <1>6 DEF Expected
  <2>3. ASSUME NEW d \in nodes[RootKey].deps
        PROVE  d \in Keys(deps)
    <3> DEFINE dep == [key |-> d, location |-> nodes[d].location]
    <3>1. dep \in deps /\ dep.key = d
      BY <2>1
    <3> HIDE DEF dep
    <3> QED BY <3>1 DEF Keys
  <2>4. \A d \in Keys(deps) : d \in nodes[RootKey].deps
    BY <2>2 DEF Keys
  <2> QED BY <2>3, <2>4
<1>8. ASSUME NEW d \in nodes[RootKey].deps
      PROVE  LocationOf(deps, d) = FirstLocation(edges, d)
  <2>1. [key |-> d, location |-> nodes[d].location] \in deps
    BY <1>6 DEF Expected
  <2>2. \A e \in deps : e.key = d => e.location = nodes[d].location
    BY <1>6 DEF Expected
  <2>3. LocationOf(deps, d) = nodes[d].location
    BY <2>1, <2>2 DEF LocationOf
  <2> QED BY <1>4, <2>3
<1> QED BY <1>5, <1>7, <1>8 DEF deps, edges

\* Where a dependency is declared: nowhere, or at a line for its name.
LEMMA LinesOfTheName ==
  ASSUME code \in Codes, NEW key, key.name # NoKey.name, FirstLocation(TreeEdges(code, ignored), key) # {}
  PROVE  \E m \in ToSet(ManifestsAt[code]) :
           /\ ~ ManifestIgnored(m, ignored)
           /\ \E d \in NamedIn(m) :
                d.child.name = key.name /\ d.location = FirstLocation(TreeEdges(code, ignored), key)
<1> DEFINE first == FirstLocation(TreeEdges(code, ignored), key)
<1>1. \E i \in KeptManifests(ManifestsAt[code], ignored) :
        LET m == ManifestsAt[code][i]
        IN  \E j \in DOMAIN m.declared : m.declared[j].child.name = key.name /\ m.declared[j].location = first
  BY FirstPlace
<1> HIDE DEF first
<1>2. PICK i \in KeptManifests(ManifestsAt[code], ignored) :
        \E j \in DOMAIN ManifestsAt[code][i].declared :
          /\ ManifestsAt[code][i].declared[j].child.name = key.name
          /\ ManifestsAt[code][i].declared[j].location = first
  BY <1>1
<1> DEFINE m == ManifestsAt[code][i]
<1>3. PICK j \in DOMAIN m.declared : m.declared[j].child.name = key.name /\ m.declared[j].location = first
  BY <1>2
<1>4. m \in ToSet(ManifestsAt[code]) /\ ~ ManifestIgnored(m, ignored)
  BY <1>2 DEF KeptManifests, ToSet
<1> HIDE DEF m
<1>5. m.declared[j].child # NoKey
  BY <1>3
<1>6. m.declared[j] \in NamedIn(m)
  BY <1>3, <1>5 DEF NamedIn, ToSet
<1> QED BY <1>3, <1>4, <1>6 DEF first

\* A finding about a declared package is placed where it may be.
LEMMA PlacedWhereDeclared ==
  ASSUME code \in Codes, NEW key \in DeclaredKeys,
         job.deps = DirectDeps(ManifestsAt[code], ignored, job.format)
  PROVE  PhysicalLocation(AnalysisId(job.repo, key), job.deps) \in PlacesOf(key)
<1> DEFINE edges == TreeEdges(code, ignored)
           id == AnalysisId(job.repo, key)
           pinned == {e.location : e \in {e \in Declarations : e.child = key}} \ {{}}
           counted == {m \in ToSet(ManifestsAt[code]) : ~ ManifestIgnored(m, ignored)}
           lines(m) == {d.location : d \in {d \in NamedIn(m) : d.child.name = key.name}}
           named == (UNION {lines(m) : m \in counted}) \ {{}}
<1>1. /\ key \in Keys(job.deps)
      /\ \A d \in Keys(job.deps) : LocationOf(job.deps, d) = FirstLocation(edges, d)
  BY DeclaredDeps
<1>2. key \in DOMAIN PackageFindings
  BY <1>1, DepsArePackages
<1>3. id.name = key.name /\ key.name # NoKey.name
  BY <1>2, AnalysisNames
<1>4. PlacesOf(key) = IF id = key THEN named \cup {l \in {RepoRoot} : pinned = {}}
                      ELSE {RepoRoot} \cup {l \in named : id \in Keys(job.deps)}
  BY DEF PlacesOf
<1>5. PhysicalLocation(id, job.deps) =
        IF LocationOf(job.deps, id) # {} THEN LocationOf(job.deps, id) ELSE RepoRoot
  BY DEF PhysicalLocation
<1>6. ASSUME NEW d, d.name = key.name, FirstLocation(edges, d) # {}
      PROVE  FirstLocation(edges, d) \in named
  <2>1. PICK m \in ToSet(ManifestsAt[code]) :
          /\ ~ ManifestIgnored(m, ignored)
          /\ \E x \in NamedIn(m) : x.child.name = d.name /\ x.location = FirstLocation(edges, d)
    BY <1>3, <1>6, LinesOfTheName
  <2>2. FirstLocation(edges, d) \in lines(m) /\ m \in counted
    BY <1>6, <2>1
  <2> HIDE DEF edges, lines, counted
  <2> QED BY <1>6, <2>2
<1>7. pinned # {} => FirstLocation(edges, key) # {}
  <2>1. SUFFICES ASSUME NEW e \in Declarations, e.child = key, e.location # {}
                 PROVE  FirstLocation(edges, key) # {}
    OBVIOUS
  <2>2. PICK x \in edges : x.parent = RootKey /\ x.child = key /\ x.location # {}
    BY <2>1, DeclarationsAreEdges
  <2>3. LocatedAt(edges, key) # {}
    BY <2>2 DEF LocatedAt
  <2> QED BY <2>3, FirstPlace
<1>8. LocationOf(job.deps, id) # {} => id \in Keys(job.deps)
  BY DEF LocationOf, Keys
<1> HIDE DEF edges, id, pinned, named
<1>9. CASE LocationOf(job.deps, id) # {}
  <2>1. LocationOf(job.deps, id) \in named /\ id \in Keys(job.deps)
    BY <1>1, <1>3, <1>6, <1>8, <1>9
  <2> QED BY <1>4, <1>5, <1>9, <2>1 DEF id
<1>10. CASE LocationOf(job.deps, id) = {}
  <2>1. id = key => pinned = {}
    BY <1>1, <1>7, <1>10
  <2> QED BY <1>4, <1>5, <1>10, <2>1 DEF id
<1> QED BY <1>9, <1>10

-------------------------------------------------------------------------------
(* One result for each finding.                                                *)

LEMMA OneResult ==
  ASSUME NEW j, j.source \subseteq Check, j.scored \subseteq DOMAIN PackageFindings, NEW t,
         NEW v \in Graded(j)
  PROVE  {r \in Assembled(j, t) : r.name = v.entity /\ r.check = v.check} =
           {GradedResult(Effective(j.repo), v, t, j.deps)}
<1> DEFINE of(w) == GradedResult(Effective(j.repo), w, t, j.deps)
<1>1. \A w : of(w).name = w.entity /\ of(w).check = w.check
  BY DEF GradedResult
<1>2. \A w \in Graded(j) : w.check \in Check /\ w.check # AuditError
  BY GradedForms, CheckAssumption
<1>3. ASSUME NEW w \in Graded(j), w.entity = v.entity, w.check = v.check
      PROVE  w = v
  <2> DEFINE source(x) == [entity |-> RootKey, check |-> x.check, depth |-> 0, dev |-> FALSE]
             package(x) == [entity |-> x.entity, check |-> x.check, depth |-> 1, dev |-> FALSE]
  <2>1. ASSUME NEW x \in Graded(j)
        PROVE  (x = source(x) /\ x.entity = RootKey) \/ (x = package(x) /\ x.entity # RootKey)
    <3>1. CASE x = source(x)
      BY <3>1
    <3>2. ASSUME NEW key \in j.scored,
                 x = [entity |-> AnalysisId(j.repo, key), check |-> x.check, depth |-> 1, dev |-> FALSE]
          PROVE  x = package(x) /\ x.entity # RootKey
      <4>1. x.entity = AnalysisId(j.repo, key)
        BY <3>2
      <4> QED BY <3>2, <4>1, AnalysisNames
    <3> QED BY <3>1, <3>2, GradedForms
  <2> QED BY <1>3, <2>1
<1>4. \A key : FailureResult(key).check = AuditError
  BY DEF FailureResult
<1>5. Assembled(j, t) = {of(w) : w \in Graded(j)} \cup {FailureResult(key) : key \in j.failed}
  BY DEF Assembled
<1> HIDE DEF of
<1>6. ASSUME NEW r \in Assembled(j, t), r.name = v.entity, r.check = v.check
      PROVE  r = of(v)
  BY <1>1, <1>2, <1>3, <1>4, <1>5, <1>6
<1>7. of(v) \in Assembled(j, t)
  BY <1>5
<1> QED BY <1>1, <1>6, <1>7 DEF of

\* What is wrong with the tree and with what it declares is among what is graded.
LEMMA DeclaredIsGraded ==
  ASSUME job.source = SourceFindings[code]
  PROVE  /\ SourceViolations \subseteq Graded(job)
         /\ \A key \in job.scored : ViolationsOf(key) \subseteq Graded(job)
<1>1. SourceViolations = Violations(RootKey, job.source, 0)
  BY DEF SourceViolations, Violations
<1>2. ASSUME NEW key \in job.scored, NEW v \in ViolationsOf(key)
      PROVE  v \in Graded(job)
  <2>1. PICK c \in PackageFindings[key] :
          /\ c = RepoNotFound => ~ Overridden(key)
          /\ v = [entity |-> AnalysisId(job.repo, key), check |-> c, depth |-> 1, dev |-> FALSE]
    BY DEF ViolationsOf
  <2>2. c \in PackageFindings[key] \ {x \in {RepoNotFound} : OverrideFor(job.repo, key) # {}}
    BY <2>1 DEF Overridden
  <2>3. v \in PackageViolations(job.repo, key)
    BY <2>1, <2>2 DEF PackageViolations, Violations
  <2> QED BY <2>3 DEF Graded
<1> QED BY <1>1, <1>2 DEF Graded

\* A written report has one result for each finding of the tree and of every
\* package its manifests declare, at a line that declares the package if its key
\* names the analysis, and an error for each package whose audit failed
\* (pipeline.go:265, :244, :188): for any manifests and lockfiles, either format of
\* the document, and any policy.  An override, or a version that escaping changes,
\* costs the line (input.go:54).
THEOREM FindingsArePlaced == Spec => []FindingsPointAtTheirLine
<1>1. ASSUME ScanInv, job.pc \in {"verdict", "urls", "tune"}
      PROVE  /\ \A v \in SourceViolations : Cardinality(ResultsOf(v)) = 1
             /\ ~ job.partial =>
                  \A key \in DeclaredKeys \ job.failed : \A v \in ViolationsOf(key) :
                    /\ Cardinality(ResultsOf(v)) = 1
                    /\ \A r \in ResultsOf(v) : r.location \in PlacesOf(key)
             /\ \A key \in job.failed : \E r \in Errors(job.results) : r.name = key /\ r.check = AuditError
  <2> DEFINE t == job.gradedAt
             of(v) == GradedResult(Effective(job.repo), v, t, job.deps)
  <2>1. job # Idle
    BY <1>1, NoFieldsInIdle
  <2>2. /\ code \in Codes
        /\ job.source \subseteq Check /\ job.scored \subseteq DOMAIN PackageFindings
        /\ job.source = SourceFindings[code]
        /\ ~ job.partial => /\ job.deps = DirectDeps(ManifestsAt[code], ignored, job.format)
                            /\ job.scored = Keys(job.deps) \ job.failed
        /\ job.results = Assembled(job, t)
    BY <1>1, <2>1 DEF ScanInv, ScanJob, ReadInv, ResultsInv
  <2>3. ASSUME NEW v \in Graded(job)
        PROVE  ResultsOf(v) = {of(v)} /\ Cardinality(ResultsOf(v)) = 1
    <3>1. ResultsOf(v) = {of(v)}
      BY <2>2, OneResult DEF ResultsOf
    <3> HIDE DEF of
    <3> QED BY <3>1, FS_Singleton
  <2>4. \A v \in SourceViolations : Cardinality(ResultsOf(v)) = 1
    BY <2>2, <2>3, DeclaredIsGraded
  <2>5. ASSUME ~ job.partial, NEW key \in DeclaredKeys \ job.failed, NEW v \in ViolationsOf(key)
        PROVE  /\ Cardinality(ResultsOf(v)) = 1
               /\ \A r \in ResultsOf(v) : r.location \in PlacesOf(key)
    <3>1. key \in job.scored
      BY <2>2, <2>5, DeclaredDeps
    <3>2. v \in Graded(job)
      BY <2>2, <3>1, DeclaredIsGraded
    <3>3. v.entity = AnalysisId(job.repo, key)
      BY DEF ViolationsOf
    <3>4. of(v).location = PhysicalLocation(AnalysisId(job.repo, key), job.deps)
      BY <3>3 DEF GradedResult
    <3>5. of(v).location \in PlacesOf(key)
      BY <2>2, <2>5, <3>4, PlacedWhereDeclared
    <3> HIDE DEF of
    <3> QED BY <2>3, <3>2, <3>5
  <2>6. ASSUME NEW key \in job.failed
        PROVE  \E r \in Errors(job.results) : r.name = key /\ r.check = AuditError
    <3>1. FailureResult(key) \in job.results
      BY <2>2 DEF Assembled
    <3> QED BY <3>1 DEF Errors, FailureResult
  <2> QED BY <2>4, <2>5, <2>6
<1>2. PolicyInv /\ ScanInv => FindingsPointAtTheirLine
  BY <1>1 DEF FindingsPointAtTheirLine
<1> QED BY <1>2, ScansAreOfOneTree, PTL

LEMMA OnlyVerdictPasses ==
  ASSUME Next, job.pc = "verdict"
  PROVE  Verdict
<1>0. job # Idle
  BY NoFieldsInIdle
<1>1. Scan => Verdict
  BY <1>0 DEF Scan, StartRun, StartInit, ReadRules, ResolveMode, ScoreSource, ScoreSourceFails, BuildSbom,
              BuildSbomFails, ExcludeDirectories, Audit, AuditFails, Report, ReportFails
<1>2. ~ Prompts
  BY DEF Prompts, CorrectURLs, TuneSeverities, TuneFails, Triage, InitWithoutTerminal, Acknowledge,
         AcknowledgeNothing
<1>3. ~ Commands
  BY <1>0 DEF Commands, LoadFindings, Override
<1>4. ~ Surroundings
  BY <1>0 DEF Surroundings, EditFile, ChangeCode, Tick
<1> QED BY <1>1, <1>2, <1>3, <1>4 DEF Next

\* A run that passes scored every package the manifests declare, unless the
\* audit as a whole failed, and its policy accepts everything wrong with them
\* and with the tree (run_all.go:198).
THEOREM PassingIsAccepted == Spec => PassMeansAccepted
<1> DEFINE Accepted ==
             outcome' = "passing" /\ job.pc = "verdict" /\ ~ job.partial =>
               /\ DeclaredKeys \subseteq job.scored
               /\ \A v \in SourceViolations \cup UNION {ViolationsOf(key) : key \in DeclaredKeys} :
                    Level(Kind(Effective(job.repo), v, job.gradedAt)) # "error"
<1>1. ASSUME PolicyInv, ScanInv, Next, outcome' = "passing", job.pc = "verdict", ~ job.partial
      PROVE  /\ DeclaredKeys \subseteq job.scored
             /\ \A v \in SourceViolations \cup UNION {ViolationsOf(key) : key \in DeclaredKeys} :
                  Level(Kind(Effective(job.repo), v, job.gradedAt)) # "error"
  <2> DEFINE t == job.gradedAt
             of(v) == GradedResult(Effective(job.repo), v, t, job.deps)
  <2>1. job # Idle
    BY <1>1, NoFieldsInIdle
  <2>2. /\ code \in Codes
        /\ job.source = SourceFindings[code]
        /\ job.deps = DirectDeps(ManifestsAt[code], ignored, job.format)
        /\ job.scored = Keys(job.deps) \ job.failed
        /\ job.results = Assembled(job, t)
    BY <1>1, <2>1 DEF ScanInv, ScanJob, ReadInv, ResultsInv
  <2>3. Errors(job.results) = {}
    BY <1>1, OnlyVerdictPasses DEF Verdict, Finish
  <2>4. /\ \A v \in Graded(job) : of(v) \in job.results
        /\ \A key \in job.failed : FailureResult(key) \in job.results
    BY <2>2 DEF Assembled
  <2>5. job.failed = {}
    <3>1. \A key : FailureResult(key).level = "error"
      BY DEF FailureResult
    <3> QED BY <2>3, <2>4, <3>1 DEF Errors
  <2>6. DeclaredKeys \subseteq job.scored
    BY <2>2, <2>5, DeclaredDeps
  <2>7. \A v \in SourceViolations \cup UNION {ViolationsOf(key) : key \in DeclaredKeys} : v \in Graded(job)
    BY <2>2, <2>6, DeclaredIsGraded
  <2>8. \A v \in Graded(job) : Level(Kind(Effective(job.repo), v, t)) # "error"
    <3>1. \A v : of(v).level = Level(Kind(Effective(job.repo), v, t))
      BY DEF GradedResult
    <3> HIDE DEF of
    <3> QED BY <2>3, <2>4, <3>1 DEF Errors
  <2> QED BY <2>6, <2>7, <2>8
<1>2. PolicyInv /\ ScanInv /\ [Next]_vars => [Accepted]_vars
  BY <1>1
<1> QED BY <1>2, ScansAreOfOneTree, PTL DEF Spec, PassMeansAccepted
=============================================================================

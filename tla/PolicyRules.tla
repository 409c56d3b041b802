----------------------------- MODULE PolicyRules -----------------------------
(* How a policy grades a violation (src/policy): severity rules, the two       *)
(* tables of acknowledgments, the merge of the repository's file with the      *)
(* default, and the form in which a policy is shown and written back.          *)
(*                                                                             *)
(* Names are opaque.  Glob gives each name with a "*" the names it matches.    *)
(* An analysis, and the key of an acknowledgment, is a name with a query: a    *)
(* set of parameters, {} when there is no "?".  What may be absent in the code *)
(* (a nil pointer, an empty map) is a set with at most one element.            *)
EXTENDS Integers, FiniteSets

CONSTANTS
  Glob,          \* [pattern with a "*" -> the names it matches]
  LengthOf,      \* [pattern with a "*" -> its length]
  SourceNames,   \* names of analyses of a source tree ("source/<path>")
  EcosystemOf,   \* [name of an analysis -> its ecosystem]
  CategoriesOf   \* [check code -> its categories]

ASSUME GlobAssumption ==
  /\ DOMAIN LengthOf = DOMAIN Glob
  /\ \A p \in DOMAIN Glob : LengthOf[p] \in Nat
  \* matchAck ranks equally long patterns by the order of a map: none overlap.
  /\ \A p, q \in DOMAIN Glob : p # q /\ Glob[p] \cap Glob[q] # {} => LengthOf[p] # LengthOf[q]

\* Every registered check declares a category, so grading never ends in the
\* error of a check without one.
ASSUME CategoryAssumption == \A c \in DOMAIN CategoriesOf : CategoriesOf[c] # {}

NoPath == ""
Root == [name |-> "root", query |-> {}]

Check == DOMAIN CategoriesOf
Severities == {"blocking", "warning", "ignore"}
Kinds == {"blocking", "expired", "warning", "acknowledged", "ignored"}
Modes == {"active", "no-fail", "silent", "disabled"}

IsPattern(p) == p \in DOMAIN Glob

MatchesPattern(p, v) == IF IsPattern(p) THEN v \in Glob[p] ELSE v = p

-------------------------------------------------------------------------------
(* Severity rules.  A rule is a record [source, ecosystem, depth, env,         *)
(* isCategory, target, severity, after, overlay]; a violation is a record      *)
(* [entity, check, depth, dev].                                                *)

\* Max is -1 in an open range.
DepthContains(range, depth) == range.min <= depth /\ (range.max = -1 \/ depth <= range.max)

Specificity(r) ==
  2 * Cardinality(r.source) + Cardinality(r.ecosystem) + Cardinality(r.depth)
    + Cardinality(r.env) + (IF r.isCategory THEN 0 ELSE 1)

SourcePath(e) == IF e.name \in SourceNames THEN e.name ELSE NoPath

RuleMatches(r, v) ==
  /\ \A p \in r.source : MatchesPattern(p, SourcePath(v.entity))
  /\ \A p \in r.ecosystem : MatchesPattern(p, EcosystemOf[v.entity.name])
  /\ \A d \in r.depth : DepthContains(d, v.depth)
  /\ \A dev \in r.env : dev = v.dev
  /\ IF r.isCategory THEN \E c \in CategoriesOf[v.check] : MatchesPattern(r.target, c)
                     ELSE MatchesPattern(r.target, v.check)

\* Mutant: blocking from the day itself on, and a warning again the day after.
ResolvedOnTheDay(r, now) == IF now \in r.after THEN "blocking" ELSE r.severity

Resolved(r, now) == IF \E t \in r.after : now > t THEN "blocking" ELSE r.severity

BestRules(rules, v) ==
  LET matching == {r \in rules : RuleMatches(r, v)}
  IN  {r \in matching : \A q \in matching : Specificity(q) <= Specificity(r)}

Strictest(severities) ==
  IF "blocking" \in severities THEN "blocking"
  ELSE IF "warning" \in severities THEN "warning" ELSE "ignore"

\* Without a matching rule a violation blocks.
Severity(policy, v, now) ==
  LET resolved == {Resolved(r, now) : r \in BestRules(policy.rules, v)}
  IN  IF resolved # {} THEN Strictest(resolved) ELSE "blocking"

-------------------------------------------------------------------------------
(* Acknowledgments.  A table is a function from keys to records                *)
(* [checks, expires].                                                          *)

\* A key without a query is compared with the name alone.
EntityMatches(key, e) == MatchesPattern(key.name, e.name) /\ key.query \in {{}, e.query}

ChecksContain(checks, check) == \E c \in checks : MatchesPattern(c, check)

EntitySpecificity(key) ==
  (IF key.query # {} THEN 2 ELSE 0) + (IF IsPattern(key.name) THEN 0 ELSE 1)

Outranks(a, b) ==
  \/ EntitySpecificity(a) > EntitySpecificity(b)
  \/ /\ EntitySpecificity(a) = EntitySpecificity(b)
     /\ IsPattern(a.name) /\ IsPattern(b.name)
     /\ LengthOf[a.name] > LengthOf[b.name]

MatchingKeys(table, v) ==
  {k \in DOMAIN table \ {Root} : EntityMatches(k, v.entity) /\ ChecksContain(table[k].checks, v.check)}

\* "root" stands for the source, and only when nothing else matches.
AckKeys(table, v) ==
  LET matching == MatchingKeys(table, v)
  IN  IF matching # {} THEN {k \in matching : \A j \in matching : ~Outranks(j, k)}
      ELSE {k \in DOMAIN table \cap {Root} : v.depth = 0 /\ ChecksContain(table[k].checks, v.check)}

Acks(table, v) == {table[k] : k \in AckKeys(table, v)}

Lapsed(ack, now) == \E t \in ack.expires : t < now

-------------------------------------------------------------------------------
(* Grading one violation.                                                      *)

WarningKind(policy, v, now) ==
  IF \E ack \in Acks(policy.warnings, v) : ~Lapsed(ack, now) THEN "acknowledged" ELSE "warning"

FailureKind(policy, v, now) ==
  IF \E ack \in Acks(policy.failures, v) : Lapsed(ack, now) THEN "expired" ELSE "acknowledged"

\* expected_warnings is read for warnings only, so it never hides a blocking one.
Kind(policy, v, now) ==
  LET severity == Severity(policy, v, now)
  IN  CASE severity = "ignore" -> "ignored"
        [] severity \in {"blocking", "warning"} /\ Acks(policy.failures, v) # {} ->
             FailureKind(policy, v, now)
        [] severity = "blocking" /\ Acks(policy.failures, v) = {} -> "blocking"
        [] severity = "warning" /\ Acks(policy.failures, v) = {} -> WarningKind(policy, v, now)

\* The SARIF level of a finding.
Level(kind) ==
  CASE kind \in {"blocking", "expired"} -> "error"
    [] kind = "warning" -> "warning"
    [] kind = "acknowledged" -> "note"
    [] kind = "ignored" -> "none"

-------------------------------------------------------------------------------
(* Policies: the default, merging, showing.                                    *)

NoTable == [k \in {} |-> [checks |-> {}, expires |-> {}]]
NoOverrides == [k \in {} |-> NoPath]

CategoryRule(category, severity, depth) ==
  [source |-> {}, ecosystem |-> {}, depth |-> depth, env |-> {}, isCategory |-> TRUE,
   target |-> category, severity |-> severity, after |-> {}, overlay |-> FALSE]

CheckRule(check, severity) ==
  [CategoryRule(check, severity, {}) EXCEPT !.isCategory = FALSE]

\* default_policy.yml.
DefaultPolicy ==
  [rules |-> {CategoryRule("critical", "blocking", {}),
              CategoryRule("title-assurance", "warning", {}),
              CategoryRule("license-compliance", "warning", {}),
              CategoryRule("continuity-assurance", "warning", {}),
              CategoryRule("continuity-assurance", "warning", {[min |-> 2, max |-> -1]}),
              CategoryRule("continuity-assurance", "blocking", {[min |-> 1, max |-> 1]}),
              CategoryRule("continuity-assurance", "ignore", {[min |-> 0, max |-> 0]}),
              CategoryRule("security-vulnerability", "warning", {})},
   failures |-> NoTable, warnings |-> NoTable, mode |-> {"active"}, overrides |-> NoOverrides]

Layer(rules, overlay) == {[r EXCEPT !.overlay = overlay] : r \in rules}

\* The entries of the second table replace those of the first.
Overlaid(base, overlay) ==
  [k \in DOMAIN base \cup DOMAIN overlay |-> IF k \in DOMAIN overlay THEN overlay[k] ELSE base[k]]

\* Rules of both layers stay, also when they have the same path.
Merge(base, overlay) ==
  [rules |-> Layer(base.rules, FALSE) \cup Layer(overlay.rules, TRUE),
   failures |-> Overlaid(base.failures, overlay.failures),
   warnings |-> Overlaid(base.warnings, overlay.warnings),
   mode |-> IF overlay.mode # {} THEN overlay.mode ELSE base.mode,
   overrides |-> overlay.overrides]

\* A policy's overrides, a function from keys to repository URLs, are kept beside
\* the compiled policy and reach the audits from the repository's file only.
\* Each argument is a set of at most one policy: --policy-override, the
\* repository's file, --policy-default.
Resolve(override, repo, default) ==
  LET base == IF default # {} THEN default ELSE {DefaultPolicy}
  IN  IF override # {} THEN override
      ELSE {Merge(b, r) : b \in base, r \in repo} \cup {b \in base : repo = {}}

SamePath(q, r) == [q EXCEPT !.severity = r.severity, !.after = r.after, !.overlay = r.overlay] = r

\* ToPolicy keeps one value for a path: the first in the order of merge, which
\* puts the repository's rules before the default's.
ToPolicy(policy) ==
  [policy EXCEPT !.rules =
     {[r EXCEPT !.overlay = FALSE] : r \in {r \in policy.rules :
        r.overlay \/ \A q \in policy.rules : SamePath(q, r) => ~q.overlay}}]
=============================================================================

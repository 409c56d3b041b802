--------------------------- MODULE MCAuditScoring ---------------------------
(* Instances of AuditScoring for TLC. *)
EXTENDS AuditScoring

TwoRuns == {"run1", "run2"}

\* Both runs audit k1 under the same overrides; run2 has others for k2.
BothKeys == [p \in TwoRuns |-> <<"k1", "k2">>]

OverridesDiffer ==
  [run1 |-> [k \in {"k1", "k2"} |-> "h0"], run2 |-> [k1 |-> "h0", k2 |-> "h1"]]

\* run1 may work on both keys at once, run2 on one after the other.
SomeJobs == [run1 |-> 2, run2 |-> 1]

ShortAge == [p \in TwoRuns |-> 1]
=============================================================================

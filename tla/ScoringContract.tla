--------------------------- MODULE ScoringContract ---------------------------
(***************************************************************************)
(* What an audit promises about its report, with no cache, no worker pool  *)
(* and no files: every key of a run gets exactly one answer, a failure or  *)
(* the analysis that some scoring of this very identity (package, version  *)
(* and overrides) produced; and a run returns only when all keys have one. *)
(***************************************************************************)
CONSTANTS
  Process,    \* the runs of the program
  Key,        \* package keys
  ReportKeys, \* the keys each run audits
  IdentityOf, \* the identity a run audits a key under
  Analysis    \* what a scoring may produce: records with an id

VARIABLES
  genuine,   \* the analyses scorings have produced
  report,    \* what each run reports for each key
  phase      \* running, returned or crashed

cvars == <<genuine, report, phase>>

Unanswered == [status |-> "none"]

FailureReport == [status |-> "failed"]

Answered(a) == [status |-> "answered", analysis |-> a]

CInit ==
  /\ genuine = {}
  /\ report = [p \in Process |-> [k \in Key |-> Unanswered]]
  /\ phase = [p \in Process |-> "running"]

Produce ==
  /\ \E a \in Analysis : genuine' = genuine \union {a}
  /\ UNCHANGED <<report, phase>>

Answer(p, k) ==
  /\ phase[p] = "running"
  /\ report[p][k] = Unanswered
  /\ \E r \in {FailureReport} \union {Answered(a) : a \in {b \in genuine : b.id = IdentityOf[p][k]}} :
       report' = [report EXCEPT ![p][k] = r]
  /\ UNCHANGED <<genuine, phase>>

Return(p) ==
  /\ phase[p] = "running"
  /\ \A k \in ReportKeys[p] : report[p][k] # Unanswered
  /\ phase' = [phase EXCEPT ![p] = "returned"]
  /\ UNCHANGED <<genuine, report>>

Crash(p) ==
  /\ phase[p] = "running"
  /\ phase' = [phase EXCEPT ![p] = "crashed"]
  /\ UNCHANGED <<genuine, report>>

CNext ==
  \/ Produce
  \/ \E p \in Process : Return(p) \/ Crash(p) \/ \E k \in ReportKeys[p] : Answer(p, k)

CSpec == CInit /\ [][CNext]_cvars
=============================================================================

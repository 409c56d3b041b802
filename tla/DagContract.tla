----------------------------- MODULE DagContract -----------------------------
(***************************************************************************)
(* What the comments of src/execution-dag/node.go promise to a node, with  *)
(* no stages, goroutines or channels: a node begins at most once, after    *)
(* all its dependencies have published; a node that allows it is skipped,  *)
(* without beginning, when a dependency was skipped; any error halts the   *)
(* whole run; and a run that succeeds has published every node.            *)
(***************************************************************************)
EXTENDS Integers

CONSTANTS Node, Graphs, AutoSkip

VARIABLES
  deps,     \* the dependencies of every node
  begun,    \* the nodes whose Execute was called
  outcome,  \* what every node published
  verdict   \* what the run returned

cvars == <<deps, begun, outcome, verdict>>

Published(n) == outcome[n] # "none"

Reached(n) ==
  /\ verdict = "running"
  /\ ~ Published(n)
  /\ \A d \in deps[n] : d \in Node /\ Published(d)

Blocked(n) == n \in AutoSkip /\ \E d \in deps[n] : outcome[d] = "skipped"

CInit ==
  /\ deps \in Graphs
  /\ begun = {}
  /\ outcome = [n \in Node |-> "none"]
  /\ verdict = "running"

Begin(n) ==
  /\ Reached(n) /\ ~ Blocked(n) /\ n \notin begun
  /\ begun' = begun \union {n}
  /\ UNCHANGED <<deps, outcome, verdict>>

Publish(n) ==
  /\ verdict = "running" /\ n \in begun /\ ~ Published(n)
  /\ \E s \in {"success", "skipped"} : outcome' = [outcome EXCEPT ![n] = s]
  /\ UNCHANGED <<deps, begun, verdict>>

Skip(n) ==
  /\ Reached(n) /\ Blocked(n) /\ n \notin begun
  /\ outcome' = [outcome EXCEPT ![n] = "skipped"]
  /\ UNCHANGED <<deps, begun, verdict>>

Halt ==
  /\ verdict = "running"
  /\ verdict' = "failed"
  /\ UNCHANGED <<deps, begun, outcome>>

Succeed ==
  /\ verdict = "running"
  /\ \A n \in Node : Published(n)
  /\ verdict' = "done"
  /\ UNCHANGED <<deps, begun, outcome>>

CNext ==
  \/ \E n \in Node : Begin(n) \/ Publish(n) \/ Skip(n)
  \/ Halt
  \/ Succeed

CSpec == CInit /\ [][CNext]_cvars
=============================================================================

--------------------------- MODULE MCExecutionDag ---------------------------
(* Instances of ExecutionDag for TLC. *)
EXTENDS ExecutionDagInv

\* A three-layer graph: "fetch" feeds "meta" and "scan", which feed "check".
FourNodes == {"fetch", "meta", "scan", "check"}

Diamond == [fetch |-> {}, meta |-> {"fetch"}, scan |-> {"fetch"},
            check |-> {"meta", "scan"}]

Chain == [fetch |-> {}, meta |-> {"fetch"}, scan |-> {"meta"}, check |-> {"scan"}]

Wide == [fetch |-> {}, meta |-> {}, scan |-> {}, check |-> {"fetch", "meta", "scan"}]

\* Every relation among the three nodes above "fetch", cyclic or not, and a
\* dependency on "x", which is not registered.
SmallGraphs ==
  {[fetch |-> {}, meta |-> m, scan |-> s, check |-> c] :
     m, s, c \in SUBSET {"meta", "scan", "check"}}
  \union {[Chain EXCEPT !["meta"] = {"x"}]}

RunGraphs == {Diamond, Chain, Wide} \union SmallGraphs

Success(u, p, k) == [status |-> "success", url |-> u, packages |-> p, subjects |-> k]

\* "meta" may declare a source URL and describe one package or two.
RunReturns ==
  [fetch |-> {Success(NoURL, {"pkg"}, 0), SkippedOutput},
   meta |-> {Success("u1", {}, 1), Success(NoURL, {}, 1), Success(NoURL, {}, 2), SkippedOutput},
   scan |-> {Success("u2", {}, 0), SkippedOutput},
   check |-> {Success(NoURL, {}, 0)}]

RunInputs == [url : {NoURL}, packages : {{}}, noFetch : BOOLEAN]

Force == [path |-> "source_url", valid |-> TRUE, url |-> "u3", precedence |-> "force"]

Misspelt == [Force EXCEPT !.path = "source-url"]

\* It comes after a forced correction, which leaves no gap to fill.
Fallback == [Force EXCEPT !.url = "u2", !.precedence = "fallback"]

RunOverrides == <<Force, Misspelt, Fallback>>
==================================================

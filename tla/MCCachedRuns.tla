--------------------------- MODULE MCCachedRuns ---------------------------
(***************************************************************************)
(* Two packages of one repository with two commits, one registry document  *)
(* of two versions, and five plans of at most three rounds.                *)
(***************************************************************************)
EXTENDS CachedRuns, TLC

CONSTANTS p, q

\* LICENSE = 1, docs/LICENSE = 2, package-lock.json = 3, package.json = 4.  The
\* second commit makes a file of the link LICENSE, deletes one and changes one.
MCTarget == ("to docs" :> 2)
MCTree ==
  <<(1 :> "to docs") @@ (2 :> "docs 1") @@ (3 :> "lock 1") @@ (4 :> "manifest 1"),
    (1 :> "license 2") @@ (2 :> "docs 1") @@ (4 :> "manifest 2")>>

\* The same without the link: what is left of a tree is not a matter of links.
MCNoTarget == [x \in {} |-> 0]
MCPlainTree ==
  <<(3 :> "lock 1") @@ (4 :> "manifest 1"), (4 :> "manifest 2")>>

Http(n, proc, i) == [kind |-> "http", url |-> "u", round |-> n, proc |-> proc, id |-> i]
Content(n, pkg, pin, private) ==
  [kind |-> "content", package |-> pkg, pin |-> pin, private |-> private,
   dir |-> IF pin = 0 THEN "repo" ELSE "repo-published", round |-> n, proc |-> 1, id |-> 0]
Metadata(n, pkg) ==
  [kind |-> "metadata", package |-> pkg, private |-> FALSE, round |-> n, proc |-> 1, id |-> 0]

Plan(tasks, maxHead, maxDoc, maxClock) ==
  [tasks |-> tasks, maxHead |-> maxHead, maxDoc |-> maxDoc, maxClock |-> maxClock]

MCPlans == {
  \* two processes fetch one document at a time, and again
  Plan({Http(1, 1, 1), Http(1, 2, 2), Http(2, 1, 1), Http(2, 2, 2)}, 1, 2, 2),
  \* a package, then another one at a newer commit, then the first again
  Plan({Content(1, p, 0, FALSE), Content(2, q, 0, FALSE), Content(3, p, 0, FALSE)}, 2, 1, 0),
  \* HEAD and the published version, which may be one commit, twice
  Plan({Content(n, p, pin, FALSE) : n \in {1, 2}, pin \in {0, 1}}, 2, 1, 0),
  \* a private repository beside one that is not
  Plan({Content(1, p, 0, TRUE), Content(1, q, 0, FALSE), Content(2, p, 0, TRUE)}, 2, 1, 0),
  \* histories of two packages
  Plan({Metadata(1, p), Metadata(1, q), Metadata(2, p)}, 2, 1, 0)}

MCTasks == UNION {pl.tasks : pl \in MCPlans}
=============================================================================

---------------------------- MODULE CachedRuns ----------------------------
(***************************************************************************)
(* Runs of Risk Guard on one cache directory: which fetches happen in      *)
(* which run, what a run leaves to the next, and what changes outside.     *)
(*                                                                         *)
(* A plan is a set of tasks in rounds.  The tasks of a round run at the    *)
(* same time: those of one process are the nodes of its analyses, and      *)
(* registry documents are also fetched by several processes at once.  The  *)
(* directory of a working tree has one task per round, because nothing in  *)
(* the code keeps two runs on one package apart.  A process may be killed  *)
(* at any point; its files stay as they are.                               *)
(***************************************************************************)
EXTENDS HttpFetch, CloneCache

CONSTANT Plans      \* [tasks, maxHead, maxDoc, maxClock] : the last three are bounds

VARIABLES
  plan,             \* the plan of this behaviour
  round             \* the round that is under way

runVars == <<plan, round>>
vars == <<storeVars, taskVars, httpVars, cloneVars, runVars>>

InRound(n) == {t \in plan.tasks : t.round = n}
Current == InRound(round)
Active == {t \in Current : pc[t] \notin Ended}
Urls == {t.url : t \in HttpTasks}

\* No two tasks of a round share a directory.
PlanAssumption ==
  \A pl \in Plans :
    /\ pl.tasks \subseteq Tasks
    /\ \A s, t \in pl.tasks \cap ContentTasks :
         s.round = t.round /\ RepoDir(s) = RepoDir(t) => s = t

ASSUME RunAssumption ==
  /\ PlanAssumption
  /\ Tasks = HttpTasks \cup CloneTasks
  /\ \A t \in Tasks : t.round \in Nat \ {0}
  /\ \A t \in CloneTasks : t.package \in Packages /\ t.private \in BOOLEAN
  /\ \A t \in ContentTasks : RepoDir(t) \in RepoDirs /\ t.pin \in Commits \cup {NoCommit}
  /\ \A pl \in Plans : pl.maxHead \in Nat \ {0} /\ 1 .. pl.maxHead \subseteq Commits

Init ==
  /\ plan \in Plans
  /\ round = 1
  /\ clock = 0
  /\ store = [k \in {} |-> k]
  /\ temp = [t \in plan.tasks |-> "none"]
  /\ pc = [t \in plan.tasks |-> IF t \in HttpTasks THEN "lookup" ELSE "idle"]
  /\ got = [t \in plan.tasks |-> NoData]
  /\ doc = [u \in Urls |-> 1]
  /\ publishedAt = [u \in Urls |-> [v \in {1} |-> 0]]
  /\ tries = [t \in plan.tasks |-> 0]
  /\ head = 1
  /\ resolved = [p \in Packages |-> NoCommit]
  /\ trees = [d \in RepoDirs |-> Empty]

HttpTask(t) == t \in HttpTasks \cap Current /\ HttpStep(t) /\ UNCHANGED <<cloneVars, runVars>>
ContentTask(t) == t \in ContentTasks \cap Current /\ ContentStep(t) /\ UNCHANGED <<httpVars, runVars>>
MetadataTask(t) == t \in MetadataTasks \cap Current /\ MetadataStep(t) /\ UNCHANGED <<httpVars, runVars>>

Waiting(p) == {t \in Current \cap OfPackage(p) : pc[t] = "idle"}
ResolvePackage(p) ==
  (Resolve(p, Waiting(p)) \/ ResolveFails(p, Waiting(p))) /\ UNCHANGED <<httpVars, runVars>>

\* A process dies with all its tasks.  Entries and trees stay as they are; its
\* temporary files stay too, but nothing ever reads them.
Kill(proc) ==
  LET killed == {t \in Active : t.proc = proc} IN
  /\ killed # {}
  /\ pc' = [t \in plan.tasks |-> IF t \in killed THEN "dead" ELSE pc[t]]
  /\ temp' = [t \in plan.tasks |-> IF t \in killed THEN "none" ELSE temp[t]]
  /\ tries' = [t \in plan.tasks |-> IF t \in killed THEN 0 ELSE tries[t]]
  /\ UNCHANGED <<clock, store, got, doc, publishedAt, cloneVars, runVars>>

\* The next runs start with nothing but the files.
NextRound ==
  /\ Active = {}
  /\ \E t \in plan.tasks : t.round > round
  /\ round' = round + 1
  /\ resolved' = [p \in Packages |-> NoCommit]
  /\ UNCHANGED <<storeVars, taskVars, httpVars, head, trees, plan>>

-----------------------------------------------------------------------------
(* The world outside *)

\* A tick is long against what a task does on the disk, and short against a
\* pause between two requests or a clone.
Tick ==
  /\ clock < plan.maxClock
  /\ \A t \in Current : pc[t] \notin OnDisk
  /\ clock' = clock + 1
  /\ UNCHANGED <<store, temp, taskVars, httpVars, cloneVars, runVars>>

PublishVersion(url) ==
  /\ doc[url] < plan.maxDoc
  /\ doc' = [doc EXCEPT ![url] = @ + 1]
  /\ publishedAt' = [publishedAt EXCEPT ![url] = Update(@, doc[url] + 1, clock)]
  /\ UNCHANGED <<storeVars, taskVars, tries, cloneVars, runVars>>

PushCommit ==
  /\ head < plan.maxHead
  /\ head' = head + 1
  /\ UNCHANGED <<storeVars, taskVars, httpVars, resolved, trees, runVars>>

Finished == Active = {} /\ \A t \in plan.tasks : t.round <= round
Stutter == Finished /\ UNCHANGED vars

TaskStep(t) == HttpTask(t) \/ ContentTask(t) \/ MetadataTask(t)
Procs == {t.proc : t \in Tasks}

Next ==
  \/ \E t \in HttpTasks : HttpTask(t)
  \/ \E t \in ContentTasks : ContentTask(t)
  \/ \E t \in MetadataTasks : MetadataTask(t)
  \/ \E p \in Packages : ResolvePackage(p)
  \/ \E proc \in Procs : Kill(proc)
  \/ NextRound
  \/ Tick \/ \E u \in Urls : PublishVersion(u)
  \/ PushCommit
  \/ Stutter

Spec == Init /\ [][Next]_vars

SomeTask == \E t \in Tasks : TaskStep(t)
SomeResolution == \E p \in Packages : ResolvePackage(p)

\* Whatever can go on does: a scheduler never leaves all tasks waiting.
FairSpec ==
  /\ Spec
  /\ WF_vars(SomeTask)
  /\ WF_vars(SomeResolution)
  /\ WF_vars(NextRound)

-----------------------------------------------------------------------------
(* What data is worth under a key. *)
Genuine(k, data, when) ==
  /\ k[1] = "http" => CurrentSince(k[2], data, when)
  /\ k[1] = "content" => data = Archived(Tree[k[2]])
  /\ k[1] = "metadata" => data \in k[2] .. head

\* Every file of the cache is whole and holds what its name says, whichever
\* runs were killed while writing it: a registry document that was current
\* when it was stored, the regular files of exactly the commit, or a history
\* that contains the commit.  (That it may be a longer one is because the
\* remote moves between git_resolve and the clone.)
StoreIsGenuine ==
  \A k \in DOMAIN store : store[k].form = "whole" /\ Genuine(k, store[k].data, store[k].at)

\* A registry document that a fetch returns was current at some time within
\* the maximal age, also when the file was replaced between looking at its
\* age and reading it, and when a slower fetch overwrote a newer answer.
AnswersAreFresh ==
  [][\A t \in HttpTasks \cap plan.tasks :
       pc[t] # "done" /\ pc'[t] = "done" => CurrentSince(t.url, got'[t][1], clock - MaxAge)]_vars

\* What an extraction could not put right: the paths of regular files at which
\* an earlier clone left a link, and those where such a link leads to.
Disturbed(tree, commit) ==
  LET crossed == Regular(commit) \cap LinksOf(tree)
  IN crossed \cup {Target[tree[p]] : p \in crossed}

\* The directory an analysis is given holds every regular file of the commit
\* it reports, with that commit's content, whatever files earlier runs left
\* there; only a link that an earlier clone left at the path of one takes its
\* content elsewhere.  Without the cache it is exactly the commit's tree.
TreesHoldTheirCommit ==
  \A t \in Current \cap ContentTasks : pc[t] = "done" =>
    LET tree == trees[RepoDir(t)]
        commit == Tree[Wanted(t)] IN
    /\ \A p \in Regular(commit) \ Disturbed(tree, commit) :
         p \in DOMAIN tree /\ tree[p] = commit[p]
    /\ ~UseCache(t) => tree = commit

\* Every fetch of every round ends, whatever servers answer: retries run out,
\* and no writer waits for another.
TasksEnd == <>Finished

\* materialize.go:60 calls what is returned a checkout at the commit.
CheckoutIsExact ==
  \A t \in Current \cap ContentTasks :
    pc[t] = "done" => trees[RepoDir(t)] = Tree[Wanted(t)]
=============================================================================

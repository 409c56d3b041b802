-------------------------- MODULE CachedRunsProofs --------------------------
(***************************************************************************)
(* Proofs about CachedRuns, for any plans, trees, servers, ages and kills: *)
(* the files of the cache, the working trees and the answers are what      *)
(* their names say, whoever was killed and whoever wrote at the same time. *)
(***************************************************************************)
EXTENDS CachedRuns, TLAPS

(* The inductive invariant. *)

Key(t) == IF t \in HttpTasks THEN HttpKey(t) ELSE CloneKey(t)
Writing == {"store", "write", "rename"}

WorldInv ==
  /\ plan \in Plans /\ round \in Nat /\ clock \in Nat
  /\ head \in 1 .. plan.maxHead /\ resolved \in [Packages -> {NoCommit} \cup 1 .. head]
  /\ doc \in [Urls -> Nat \ {0}]
  /\ publishedAt = [u \in Urls |-> publishedAt[u]]
  /\ \A u \in Urls : publishedAt[u] \in [1 .. doc[u] -> 0 .. clock]
  /\ pc \in [plan.tasks -> Phases]
  /\ temp = [t \in plan.tasks |-> temp[t]]
  /\ got = [t \in plan.tasks |-> got[t]]
  /\ trees = [d \in RepoDirs |-> trees[d]]
  /\ \A d \in RepoDirs : IsTree(trees[d]) /\ Straight(trees[d])

\* A key names a URL, or a commit that the remote has.
IsKey(k) ==
  \/ k[1] = "http" /\ k[2] \in Urls
  \/ k[1] \in {"content", "metadata"} /\ k[2] \in Nat

StoreInv ==
  \A k \in DOMAIN store :
    /\ IsKey(k)
    /\ store[k].form = "whole"
    /\ store[k].at \in 0 .. clock
    /\ Genuine(k, store[k].data, store[k].at)

\* Rounds that are over have ended, and rounds to come have not begun.
RoundInv ==
  \A t \in plan.tasks :
    /\ t.round < round => pc[t] \in Ended
    /\ t.round > round => pc[t] = IF t \in HttpTasks THEN "lookup" ELSE "idle"

\* The tasks of a package wait for one resolution, and keep what it found.
ResolveInv ==
  /\ \A s, t \in Current \cap CloneTasks :
       s.package = t.package /\ pc[s] = "idle" => pc[t] \in {"idle", "dead"}
  /\ \A t \in Current \cap CloneTasks :
       pc[t] \notin {"idle", "dead", "failed"} => resolved[t.package] # NoCommit

\* What a task is about to store is genuine, and its temporary file is whole
\* before it takes the entry's place.  An entry about to be read is there, and
\* not too old: the clock stands still for a task that uses the disk.
TransferInv(t) ==
  /\ pc[t] \in Writing => Genuine(Key(t), got[t][1], clock)
  /\ pc[t] = "rename" => temp[t] = "whole"
  /\ pc[t] = "read" => Key(t) \in DOMAIN store
  /\ pc[t] = "read" /\ t \in HttpTasks => clock - store[Key(t)].at <= MaxAge
  /\ pc[t] \in {"extract", "archive", "checkout", "idle"} => t \notin HttpTasks

\* The tree of a directory belongs to the one task of the round that uses it.
PartOf(tree, commit) == \A x \in DOMAIN tree : x \in DOMAIN commit /\ tree[x] = commit[x]

\* The regular files of a commit are there, but for those in a set.
Includes(tree, commit, except) ==
  \A x \in Regular(commit) \ (except \cup Disturbed(tree, commit)) :
    x \in DOMAIN tree /\ tree[x] = commit[x]

\* What is left of an archive of the commit is what the tree does not hold yet.
Remains(archive, tree, commit) ==
  /\ \A x \in DOMAIN archive : x \in Regular(commit) /\ archive[x] = commit[x]
  /\ Includes(tree, commit, DOMAIN archive)

TreeInv(t) ==
  LET tree   == trees[RepoDir(t)]
      commit == Tree[Wanted(t)]
  IN  /\ pc[t] \in {"lookup", "read", "extract"} => UseCache(t)
      /\ pc[t] = "extract" => Remains(Held(t), tree, commit)
      /\ pc[t] = "checkout" => PartOf(tree, commit)
      /\ pc[t] \in {"archive"} \cup Writing => tree = commit
      /\ pc[t] = "done" => Includes(tree, commit, {}) /\ (~UseCache(t) => tree = commit)

TaskInv(t) == TransferInv(t) /\ (t \in ContentTasks => TreeInv(t))

Inv ==
  /\ WorldInv
  /\ StoreInv
  /\ RoundInv
  /\ ResolveInv
  /\ \A t \in Current : TaskInv(t)
-----------------------------------------------------------------------------
(* What a task may do. *)

\* A task moves itself and its own files; the entry it replaces is its own.
Local(t) ==
  /\ t \in Current /\ pc[t] \notin {"idle"} \cup Ended
  /\ UNCHANGED <<clock, doc, publishedAt, head, resolved, plan, round>>
  /\ \E w \in Phases \ {"idle"} : pc' = [pc EXCEPT ![t] = w]
  /\ got' = [s \in plan.tasks |-> got'[s]]
  /\ temp' = [s \in plan.tasks |-> temp'[s]]
  /\ \A s \in plan.tasks \ {t} : got'[s] = got[s] /\ temp'[s] = temp[s]
  /\ trees' = [d \in RepoDirs |-> trees'[d]]
  /\ \A d \in RepoDirs : IsTree(trees'[d]) /\ Straight(trees'[d])
  /\ \A d \in RepoDirs : (t \in ContentTasks /\ d = RepoDir(t)) \/ trees'[d] = trees[d]
  /\ DOMAIN store \subseteq DOMAIN store'
  /\ \A k \in DOMAIN store' :
       \/ k \in DOMAIN store /\ store'[k] = store[k]
       \/ /\ k = Key(t) /\ pc[t] = "rename"
          /\ store'[k] = [data |-> Held(t), form |-> temp[t], at |-> clock]

\* A task fetches a document, a tree or a history.
LEMMA TaskFacts ==
  ASSUME WorldInv, NEW t \in Current
  PROVE  /\ t \in plan.tasks /\ t \in Tasks /\ t.round = round
         /\ t.round \in Nat \ {0}
         /\ t \in HttpTasks => t \notin CloneTasks /\ t.url \in Urls
         /\ t \in ContentTasks => t \notin MetadataTasks /\ t \in CloneTasks
         /\ t \in MetadataTasks => t \in CloneTasks
         /\ t \notin HttpTasks => t \in CloneTasks
         /\ t \in CloneTasks => t.package \in Packages
         /\ t \in ContentTasks => RepoDir(t) \in RepoDirs /\ t.pin \in Commits \cup {NoCommit}
BY RunAssumption
   DEF WorldInv, Current, InRound, PlanAssumption, HttpTasks, CloneTasks, ContentTasks,
       MetadataTasks, Urls

\* The key of a task that looks at or writes its entry names what there is.
LEMMA KeyOfTask ==
  ASSUME WorldInv, ResolveInv, NEW t \in Current,
         pc[t] \notin {"idle", "dead", "failed"}
  PROVE  /\ IsKey(Key(t))
         /\ t \in HttpTasks => Key(t) = <<"http", t.url>>
         /\ t \in ContentTasks => Key(t) = <<"content", Wanted(t)>> /\ Wanted(t) \in Commits
         /\ t \in MetadataTasks => Key(t) = <<"metadata", Wanted(t)>> /\ Wanted(t) \in 1 .. head
<1>0. /\ plan.maxHead \in Nat \ {0} /\ 1 .. plan.maxHead \subseteq Commits
      /\ Commits \subseteq Nat \ {0} /\ head \in Nat
  BY RunAssumption, CloneAssumption DEF WorldInv
<1>1. CASE t \in HttpTasks
  BY <1>1, TaskFacts DEF Key, HttpKey, IsKey, CloneTasks
<1>2. CASE t \in CloneTasks
  <2>1. t \notin HttpTasks /\ t.package \in Packages
    BY <1>2, TaskFacts
  <2>2. resolved[t.package] \in 1 .. head
    BY <1>0, <1>2, <2>1 DEF WorldInv, ResolveInv
  <2>3. CASE t \in ContentTasks
    <3>1. t.kind = "content" /\ t \notin MetadataTasks
      BY <2>3, TaskFacts DEF ContentTasks
    <3>2. Wanted(t) \in Commits
      BY <1>0, <2>2, <2>3, <3>1, TaskFacts DEF Wanted, WorldInv
    <3> QED BY <1>0, <2>1, <3>1, <3>2 DEF Key, CloneKey, ContentKey, IsKey
  <2>4. CASE t \in MetadataTasks
    <3>1. t.kind = "metadata" /\ t \notin ContentTasks
      BY <2>4, TaskFacts DEF MetadataTasks
    <3>2. Wanted(t) \in 1 .. head
      BY <2>2, <3>1 DEF Wanted
    <3> QED BY <1>0, <2>1, <3>1, <3>2 DEF Key, CloneKey, MetadataKey, IsKey
  <2> QED BY <1>2, <2>3, <2>4 DEF CloneTasks
<1> QED BY <1>1, <1>2, TaskFacts

\* What was worth storing then is worth serving as older.
LEMMA GenuineWhenOlder ==
  ASSUME WorldInv, NEW k, IsKey(k), NEW data, NEW a \in Int, NEW b \in Int, b <= a,
         Genuine(k, data, a)
  PROVE  Genuine(k, data, b)
<1>1. CASE k[1] = "http"
  <2>1. CurrentSince(k[2], data, a) /\ k[2] \in Urls
    BY <1>1 DEF Genuine, IsKey
  <2>2. data \in 1 .. doc[k[2]] /\ doc[k[2]] \in Nat
    BY <2>1 DEF CurrentSince, WorldInv
  <2>3. CASE data = doc[k[2]]
    BY <1>1, <2>1, <2>2, <2>3 DEF Genuine, CurrentSince
  <2>4. CASE data # doc[k[2]]
    <3>1. data + 1 \in 1 .. doc[k[2]]
      BY <2>2, <2>4
    <3>2. publishedAt[k[2]][data + 1] \in Int
      BY <2>1, <3>1 DEF WorldInv
    <3> QED BY <1>1, <2>1, <2>4, <3>2 DEF Genuine, CurrentSince
  <2> QED BY <2>3, <2>4
<1>2. CASE k[1] # "http"
  BY <1>2 DEF Genuine, IsKey
<1> QED BY <1>1, <1>2

-----------------------------------------------------------------------------
(* Every step of a task is local. *)

LEMMA UpdateIsTree ==
  ASSUME NEW tree, NEW path, NEW blob
  PROVE  IsTree(Update(tree, path, blob)) /\ IsTree(Empty) /\ Straight(Empty)
BY DEF IsTree, Update, Empty, Straight, LinksOf

\* What is opened is no link, as no link leads to another.
LEMMA OpenedIsNoLink ==
  ASSUME NEW tree, NEW path, Straight(tree)
  PROVE  Opened(tree, path) \notin LinksOf(tree)
BY DEF Opened, Straight

\* Writing a regular file over what is no link leaves the links as they are.
LEMMA WriteKeepsLinks ==
  ASSUME NEW tree, NEW path, NEW blob, path \notin LinksOf(tree), ~IsLink(blob)
  PROVE  /\ LinksOf(Update(tree, path, blob)) = LinksOf(tree)
         /\ \A p \in LinksOf(tree) : Update(tree, path, blob)[p] = tree[p]
         /\ Straight(tree) => Straight(Update(tree, path, blob))
<1> DEFINE written == Update(tree, path, blob)
<1>1. DOMAIN written = DOMAIN tree \cup {path} /\ written[path] = blob
  BY DEF Update
<1>2. \A p \in DOMAIN tree : p # path => written[p] = tree[p]
  BY DEF Update
<1> HIDE DEF written
<1>3. LinksOf(written) = LinksOf(tree) /\ \A p \in LinksOf(tree) : written[p] = tree[p]
  BY <1>1, <1>2 DEF LinksOf
<1>4. Straight(tree) => Straight(written)
  BY <1>3 DEF Straight
<1> QED BY <1>3, <1>4 DEF written

\* The links of a tree that is part of a commit are the commit's.
LEMMA PartIsStraight ==
  ASSUME NEW tree, NEW commit, PartOf(tree, commit), Straight(commit)
  PROVE  Straight(tree)
<1>1. \A p \in LinksOf(tree) : p \in LinksOf(commit) /\ tree[p] = commit[p]
  BY DEF PartOf, LinksOf
<1> QED BY <1>1 DEF Straight

LEMMA PartGrows ==
  ASSUME NEW tree, NEW commit, PartOf(tree, commit), NEW path \in DOMAIN commit
  PROVE  PartOf(Update(tree, path, commit[path]), commit)
BY DEF PartOf, Update

\* A commit's own tree holds all of it.
LEMMA WholeTree ==
  ASSUME NEW tree, NEW commit, tree = commit
  PROVE  Includes(tree, commit, {})
BY DEF Includes, Regular

\* One more entry of the archive is in the tree, or is led elsewhere by a link.
LEMMA EntryIsWritten ==
  ASSUME NEW archive, NEW tree, NEW commit, NEW p \in DOMAIN archive,
         Straight(tree), Remains(archive, tree, commit)
  PROVE  LET written == Update(tree, Opened(tree, p), archive[p])
         IN  Straight(written) /\ Remains(After(archive, p), written, commit)
<1> DEFINE at == Opened(tree, p)
           written == Update(tree, at, archive[p])
<1>1. p \in Regular(commit) /\ archive[p] = commit[p] /\ ~IsLink(archive[p])
  BY DEF Remains, Regular, LinksOf
<1>2. at \notin LinksOf(tree)
  BY OpenedIsNoLink
<1>3. /\ LinksOf(written) = LinksOf(tree) /\ Straight(written)
      /\ \A q \in LinksOf(tree) : written[q] = tree[q]
  BY <1>1, <1>2, WriteKeepsLinks
<1>4. Disturbed(written, commit) = Disturbed(tree, commit)
  BY <1>3 DEF Disturbed
<1>5. /\ DOMAIN After(archive, p) = DOMAIN archive \ {p}
      /\ \A x \in DOMAIN archive \ {p} : After(archive, p)[x] = archive[x]
  BY DEF After
<1>6. DOMAIN written = DOMAIN tree \cup {at} /\ written[at] = archive[p]
  BY DEF Update
<1>7. \A x \in DOMAIN tree : x # at => written[x] = tree[x]
  BY DEF Update
<1>8. at = p \/ (at \in Disturbed(tree, commit) /\ p \in Disturbed(tree, commit))
  <2>1. CASE p \in LinksOf(tree)
    <3>1. at = Target[tree[p]] /\ p \in Regular(commit) \cap LinksOf(tree)
      BY <1>1, <2>1 DEF Opened
    <3> QED BY <3>1 DEF Disturbed
  <2> QED BY <2>1 DEF Opened
<1> HIDE DEF at, written
<1>9. Includes(written, commit, DOMAIN archive \ {p})
  <2> SUFFICES ASSUME NEW x \in Regular(commit), x \notin DOMAIN archive \ {p},
                      x \notin Disturbed(tree, commit)
               PROVE  x \in DOMAIN written /\ written[x] = commit[x]
    BY <1>4 DEF Includes
  <2>1. CASE x = p
    BY <1>1, <1>6, <1>8, <2>1
  <2>2. CASE x # p
    <3>1. x \in DOMAIN tree /\ tree[x] = commit[x]
      BY <2>2 DEF Remains, Includes
    <3> QED BY <1>6, <1>7, <1>8, <2>2, <3>1
  <2> QED BY <2>1, <2>2
<1>10. Remains(After(archive, p), written, commit)
  BY <1>5, <1>9 DEF Remains
<1> QED BY <1>3, <1>10 DEF at, written

\* What the steps of the cache backend have in common.
LEMMA BackendIsLocal ==
  ASSUME Inv, NEW t \in Current, UNCHANGED <<httpVars, cloneVars, runVars>>,
         \/ Lookup(t, Key(t), MaxAge) \/ Lookup(t, Key(t), NeverTooOld)
         \/ ReadEntry(t, Key(t), "extract") \/ ReadEntry(t, Key(t), "done")
         \/ CreateTemp(t, Key(t)) \/ WriteTemp(t) \/ SetFails(t) \/ Publish(t, Key(t))
  PROVE  Local(t)
<1> USE DEF Inv, WorldInv, Local, Goto, Holds, storeVars, taskVars, httpVars, cloneVars,
            runVars, Phases, Ended, OnDisk
<1>0. t \in plan.tasks
  BY TaskFacts
<1>1. CASE Lookup(t, Key(t), MaxAge) \/ Lookup(t, Key(t), NeverTooOld)
  BY <1>0, <1>1 DEF Lookup
<1>2. CASE ReadEntry(t, Key(t), "extract") \/ ReadEntry(t, Key(t), "done")
  BY <1>0, <1>2 DEF ReadEntry
<1>3. CASE CreateTemp(t, Key(t)) \/ WriteTemp(t) \/ SetFails(t)
  BY <1>0, <1>3 DEF CreateTemp, WriteTemp, SetFails
<1>4. CASE Publish(t, Key(t))
  <2>1. /\ DOMAIN store' = DOMAIN store \cup {Key(t)}
        /\ store'[Key(t)] = [data |-> Held(t), form |-> temp[t], at |-> clock]
        /\ \A x \in DOMAIN store : x # Key(t) => store'[x] = store[x]
    BY <1>4 DEF Publish, WithEntry
  <2> QED BY <1>0, <1>4, <2>1 DEF Publish
<1> QED BY <1>1, <1>2, <1>3, <1>4

LEMMA HttpIsLocal ==
  ASSUME Inv, NEW t \in HttpTasks \cap Current, HttpTask(t)
  PROVE  Local(t)
<1>0. Key(t) = HttpKey(t) /\ UNCHANGED <<cloneVars, runVars>>
  BY DEF Key, HttpTask
<1>1. CASE HttpLookup(t) \/ HttpHit(t) \/ HttpPublish(t)
  BY <1>0, <1>1, BackendIsLocal DEF HttpLookup, HttpHit, HttpPublish
<1>2. CASE (CreateTemp(t, HttpKey(t)) \/ WriteTemp(t) \/ SetFails(t)) /\ UNCHANGED httpVars
  BY <1>0, <1>2, BackendIsLocal
<1>3. CASE \E answer \in Answers : RequestSucceeds(t, answer) \/ RequestFails(t, answer)
  <2>1. t \in plan.tasks
    BY TaskFacts DEF Inv
  <2> QED
    BY <1>0, <1>3, <2>1
       DEF Inv, WorldInv, Local, Goto, Holds, storeVars, taskVars, httpVars, cloneVars,
           runVars, Phases, Ended, OnDisk, RequestSucceeds, RequestFails
<1> QED BY <1>1, <1>2, <1>3 DEF HttpTask, HttpStep

LEMMA ContentIsLocal ==
  ASSUME Inv, NEW t \in ContentTasks \cap Current, ContentTask(t)
  PROVE  Local(t)
<1> USE DEF Inv, WorldInv, Local, Goto, Holds, SetTree, storeVars, taskVars, httpVars, cloneVars,
            runVars, Phases, Ended, OnDisk
<1>0. /\ Key(t) = CloneKey(t) /\ UNCHANGED <<httpVars, runVars>>
      /\ t \in plan.tasks /\ RepoDir(t) \in RepoDirs
  BY TaskFacts DEF Key, ContentTask
<1>1. CASE (CloneLookup(t) \/ ContentHit(t) \/ CloneSet(t) \/ ClonePublish(t))
  BY <1>0, <1>1, BackendIsLocal DEF CloneLookup, ContentHit, CloneSet, ClonePublish
<1>2. CASE Extract(t)
  <2> DEFINE tree == trees[RepoDir(t)]
  <2>1. Remains(Held(t), tree, Tree[Wanted(t)]) /\ IsTree(tree) /\ Straight(tree)
    BY <1>0, <1>2 DEF Extract, TaskInv, TreeInv
  <2>2. CASE DOMAIN Held(t) = {} /\ UNCHANGED <<got, trees>>
    BY <1>0, <1>2, <2>2 DEF Extract
  <2>3. ASSUME NEW p \in DOMAIN Held(t),
               trees' = [trees EXCEPT ![RepoDir(t)] = Update(tree, Opened(tree, p), Held(t)[p])],
               got' = [got EXCEPT ![t] = <<After(Held(t), p)>>], UNCHANGED pc
        PROVE  Local(t)
    <3>1. Straight(Update(tree, Opened(tree, p), Held(t)[p]))
      BY <2>1, EntryIsWritten
    <3>2. IsTree(Update(tree, Opened(tree, p), Held(t)[p]))
      BY UpdateIsTree
    <3>3. pc[t] = "extract" /\ UNCHANGED <<storeVars, head, resolved>>
      BY <1>2 DEF Extract
    <3> HIDE DEF tree
    <3> QED BY <1>0, <2>3, <3>1, <3>2, <3>3
  <2> QED BY <1>2, <2>2, <2>3 DEF Extract
<1>3. CASE Clone(t)
  BY <1>0, <1>3, UpdateIsTree DEF Clone
<1>4. CASE Checkout(t)
  <2> DEFINE tree == trees[RepoDir(t)]
             commit == Tree[Wanted(t)]
  <2>1. PartOf(tree, commit) /\ Wanted(t) \in Commits /\ pc[t] = "checkout"
    <3>1. pc[t] = "checkout" /\ pc[t] \notin {"idle", "dead", "failed"}
      BY <1>4 DEF Checkout
    <3> QED BY <1>0, <3>1, KeyOfTask DEF TaskInv, TreeInv
  <2>2. Straight(commit)
    BY <2>1, CloneAssumption
  <2>3. \A p \in Missing(tree, commit) : Straight(Update(tree, p, commit[p]))
    BY <2>1, <2>2, PartGrows, PartIsStraight DEF Missing
  <2>4. \A p \in Missing(tree, commit) : IsTree(Update(tree, p, commit[p]))
    BY UpdateIsTree
  <2>5. CASE UNCHANGED trees
    BY <1>0, <1>4, <2>5 DEF Checkout
  <2>6. ASSUME NEW p \in Missing(tree, commit), UNCHANGED pc,
               trees' = [trees EXCEPT ![RepoDir(t)] = Update(tree, p, commit[p])]
        PROVE  Local(t)
    <3>1. /\ Straight(Update(tree, p, commit[p])) /\ IsTree(Update(tree, p, commit[p]))
          /\ UNCHANGED <<storeVars, got, head, resolved>>
      BY <1>4, <2>3, <2>4 DEF Checkout
    <3> HIDE DEF tree, commit
    <3> QED BY <1>0, <2>1, <2>6, <3>1
  <2> QED BY <1>4, <2>5, <2>6 DEF Checkout
<1>5. CASE CloneFails(t)
  BY <1>0, <1>5, UpdateIsTree DEF CloneFails
<1>6. CASE Archive(t)
  BY <1>0, <1>6 DEF Archive
<1>7. CASE ContentFails(t)
  BY <1>0, <1>7 DEF ContentFails
<1> QED BY <1>1, <1>2, <1>3, <1>4, <1>5, <1>6, <1>7 DEF ContentTask, ContentStep

LEMMA MetadataIsLocal ==
  ASSUME Inv, NEW t \in MetadataTasks \cap Current, MetadataTask(t)
  PROVE  Local(t)
<1>0. /\ Key(t) = CloneKey(t) /\ UNCHANGED <<httpVars, runVars>> /\ t \in plan.tasks
  BY TaskFacts DEF Key, MetadataTask, Inv
<1>1. CASE (CloneLookup(t) \/ MetadataHit(t) \/ CloneSet(t) \/ ClonePublish(t))
  BY <1>0, <1>1, BackendIsLocal DEF CloneLookup, MetadataHit, CloneSet, ClonePublish
<1>2. CASE CloneHistory(t) \/ CloneHistoryFails(t)
  BY <1>0, <1>2
     DEF Inv, WorldInv, Local, Goto, Holds, storeVars, taskVars, httpVars, cloneVars,
         runVars, Phases, Ended, OnDisk, CloneHistory, CloneHistoryFails
<1> QED BY <1>1, <1>2 DEF MetadataTask, MetadataStep

-----------------------------------------------------------------------------
(* What a local step leaves alone. *)

LEMMA LocalWorld ==
  ASSUME Inv, NEW t \in Current, Local(t)
  PROVE  WorldInv' /\ Current' = Current
BY DEF Inv, WorldInv, Local, Current, InRound

LEMMA LocalRounds ==
  ASSUME Inv, NEW t \in Current, Local(t)
  PROVE  RoundInv' /\ ResolveInv'
<1>0. WorldInv /\ RoundInv /\ ResolveInv /\ Current' = Current /\ t \in plan.tasks
      /\ t.round = round /\ round \in Nat
  BY LocalWorld, TaskFacts DEF Inv, WorldInv
<1>1. PICK w \in Phases \ {"idle"} : pc' = [pc EXCEPT ![t] = w]
  BY DEF Local
<1>2. \A s \in plan.tasks : s # t => pc'[s] = pc[s]
  BY <1>0, <1>1 DEF WorldInv
<1>3. pc'[t] # "idle" /\ pc[t] \notin {"idle", "done", "failed", "dead"}
  BY <1>0, <1>1 DEF Local, Ended, WorldInv
<1>4. RoundInv'
  BY <1>0, <1>2 DEF Local, RoundInv
<1>5. \A s \in Current : s \in plan.tasks
  BY DEF Current, InRound
<1>6. ResolveInv'
  BY <1>0, <1>2, <1>3, <1>5 DEF Local, ResolveInv
<1> QED BY <1>4, <1>6

\* An entry a task replaces is replaced by a whole and genuine one.
LEMMA LocalStore ==
  ASSUME Inv, NEW t \in Current, Local(t)
  PROVE  /\ StoreInv'
         /\ \A k \in DOMAIN store : store'[k].at \in {store[k].at, clock}
<1>0. WorldInv /\ StoreInv /\ ResolveInv /\ TaskInv(t) /\ clock \in Nat
  BY DEF Inv, WorldInv
<1>1. ASSUME NEW k \in DOMAIN store', k \in DOMAIN store, store'[k] = store[k]
      PROVE  IsKey(k) /\ store'[k].form = "whole" /\ store'[k].at \in 0 .. clock
             /\ Genuine(k, store'[k].data, store'[k].at)
  <2>1. store[k].form = "whole" /\ store[k].at \in 0 .. clock
        /\ IsKey(k) /\ Genuine(k, store[k].data, store[k].at)
    BY <1>0, <1>1 DEF StoreInv
  <2> QED BY <2>1, <1>1
<1>2. ASSUME NEW k \in DOMAIN store', k = Key(t), pc[t] = "rename",
             store'[k] = [data |-> Held(t), form |-> temp[t], at |-> clock]
      PROVE  IsKey(k) /\ store'[k].form = "whole" /\ store'[k].at = clock
             /\ Genuine(k, store'[k].data, store'[k].at)
  <2>1. Genuine(Key(t), got[t][1], clock) /\ temp[t] = "whole"
    BY <1>0, <1>2 DEF TaskInv, TransferInv, Writing
  <2>2. IsKey(Key(t))
    BY <1>0, <1>2, KeyOfTask
  <2>3. store'[k].form = "whole" /\ store'[k].data = got[t][1] /\ store'[k].at = clock
    BY <1>2, <2>1 DEF Held
  <2> QED BY <1>2, <2>1, <2>2, <2>3
<1>3. \A k \in DOMAIN store' :
        IsKey(k) /\ store'[k].form = "whole" /\ store'[k].at \in 0 .. clock
        /\ Genuine(k, store'[k].data, store'[k].at)
  BY <1>0, <1>1, <1>2 DEF Local
<1>4. StoreInv'
  BY <1>3 DEF Local, StoreInv, IsKey, Genuine, CurrentSince
<1>5. \A k \in DOMAIN store : store'[k].at \in {store[k].at, clock}
  BY <1>2 DEF Local
<1> QED BY <1>4, <1>5

LEMMA LocalOthers ==
  ASSUME Inv, NEW t \in Current, Local(t), NEW s \in Current, s # t
  PROVE  TaskInv(s)'
<1>0. /\ WorldInv /\ TaskInv(s) /\ StoreInv /\ clock \in Nat /\ MaxAge \in Nat
      /\ s \in plan.tasks /\ t \in plan.tasks
  BY HttpAssumption, TaskFacts DEF Inv, WorldInv
<1>1. pc'[s] = pc[s] /\ got'[s] = got[s] /\ temp'[s] = temp[s]
  BY <1>0 DEF Local, WorldInv
<1>2. Key(s)' = Key(s) /\ Wanted(s)' = Wanted(s)
  BY DEF Local, Key, HttpKey, CloneKey, ContentKey, MetadataKey, Wanted
<1>3. TransferInv(s)'
  <2>1. TransferInv(s)
    BY <1>0 DEF TaskInv
  <2>2. pc[s] \in Writing => Genuine(Key(s), got[s][1], clock)'
    BY <1>1, <1>2, <2>1 DEF TransferInv, Genuine, CurrentSince, Local
  <2>3. pc[s] = "read" => Key(s) \in DOMAIN store'
    BY <2>1 DEF TransferInv, Local
  <2>4. pc[s] = "read" /\ s \in HttpTasks => clock - store'[Key(s)].at <= MaxAge
    <3> SUFFICES ASSUME pc[s] = "read", s \in HttpTasks
                 PROVE  clock - store'[Key(s)].at <= MaxAge
      OBVIOUS
    <3>1. Key(s) \in DOMAIN store /\ clock - store[Key(s)].at <= MaxAge
      BY <2>1 DEF TransferInv
    <3>2. store'[Key(s)].at \in {store[Key(s)].at, clock}
      BY <3>1, LocalStore
    <3> QED BY <1>0, <3>1, <3>2
  <2> QED BY <1>1, <1>2, <2>1, <2>2, <2>3, <2>4 DEF TransferInv, Local
<1>4. ASSUME s \in ContentTasks
      PROVE  TreeInv(s)'
  <2>1. ~(t \in ContentTasks /\ RepoDir(s) = RepoDir(t)) /\ RepoDir(s) \in RepoDirs
    BY <1>0, <1>4, RunAssumption, TaskFacts DEF PlanAssumption, WorldInv
  <2>2. trees'[RepoDir(s)] = trees[RepoDir(s)]
    BY <2>1 DEF Local
  <2> QED BY <1>0, <1>1, <1>2, <1>4, <2>2 DEF TaskInv, TreeInv, Held
<1> QED BY <1>3, <1>4 DEF TaskInv

-----------------------------------------------------------------------------
(* What a task does to itself. *)

LEMMA LookupKeeps ==
  ASSUME Inv, NEW t \in Current, Local(t), NEW maxAge \in Nat, Lookup(t, Key(t), maxAge),
         t \in HttpTasks => maxAge = MaxAge, UNCHANGED trees
  PROVE  TaskInv(t)'
<1>0. /\ WorldInv /\ TaskInv(t) /\ t \in plan.tasks /\ pc[t] = "lookup"
      /\ pc' = [pc EXCEPT ![t] = IF Usable(Key(t), maxAge) THEN "read" ELSE "fetch"]
      /\ UNCHANGED <<clock, store, temp, got>>
  BY TaskFacts DEF Inv, Lookup, Goto, storeVars
<1>1. Key(t)' = Key(t) /\ Wanted(t)' = Wanted(t)
  BY DEF Local, Key, HttpKey, CloneKey, ContentKey, MetadataKey, Wanted
<1>2. pc'[t] = IF Usable(Key(t), maxAge) THEN "read" ELSE "fetch"
  BY <1>0 DEF WorldInv
<1>3. TransferInv(t)'
  BY <1>0, <1>1, <1>2 DEF TransferInv, Writing, Usable
<1>4. t \in ContentTasks => TreeInv(t)'
  BY <1>0, <1>1, <1>2 DEF TaskInv, TreeInv, Writing
<1> QED BY <1>3, <1>4 DEF TaskInv

\* Set changes nothing of what the task holds and of the tree it packed.
LEMMA SetKeeps ==
  ASSUME Inv, NEW t \in Current, Local(t), UNCHANGED trees,
         \/ CreateTemp(t, Key(t)) \/ WriteTemp(t) \/ SetFails(t) \/ Publish(t, Key(t))
  PROVE  TaskInv(t)'
<1>0. /\ WorldInv /\ TaskInv(t) /\ t \in plan.tasks /\ pc[t] \in Writing /\ got' = got
  BY TaskFacts DEF Inv, CreateTemp, WriteTemp, SetFails, Publish, Writing
<1>1. Key(t)' = Key(t) /\ Wanted(t)' = Wanted(t)
  BY DEF Local, Key, HttpKey, CloneKey, ContentKey, MetadataKey, Wanted
<1>2. /\ pc'[t] \in {"write", "rename", "failed", "done"}
      /\ pc'[t] = "rename" => temp'[t] = "whole"
  BY <1>0 DEF WorldInv, CreateTemp, WriteTemp, SetFails, Publish, Goto
<1>3. TransferInv(t)'
  BY <1>0, <1>1, <1>2 DEF TaskInv, TransferInv, Writing, Genuine, CurrentSince, Local
<1>4. t \in ContentTasks => TreeInv(t)'
  BY <1>0, <1>1, <1>2, WholeTree DEF TaskInv, TreeInv, Writing
<1> QED BY <1>3, <1>4 DEF TaskInv

LEMMA ReadKeeps ==
  ASSUME Inv, NEW t \in Current, Local(t), UNCHANGED trees,
         NEW next \in {"extract", "done"}, ReadEntry(t, Key(t), next),
         t \in ContentTasks <=> next = "extract"
  PROVE  /\ TaskInv(t)'
         /\ pc'[t] = "done" => got'[t][1] = store[Key(t)].data /\ Key(t) \in DOMAIN store
<1>0. /\ WorldInv /\ StoreInv /\ ResolveInv /\ TaskInv(t) /\ t \in plan.tasks /\ pc[t] = "read"
      /\ pc' = [pc EXCEPT ![t] = IF store[Key(t)].form = "whole" THEN next ELSE "failed"]
      /\ got' = [got EXCEPT ![t] = <<store[Key(t)].data>>]
      /\ UNCHANGED <<clock, store, temp>>
  BY TaskFacts DEF Inv, ReadEntry, Goto, Holds, storeVars
<1>1. Key(t)' = Key(t) /\ Wanted(t)' = Wanted(t)
  BY DEF Local, Key, HttpKey, CloneKey, ContentKey, MetadataKey, Wanted
<1>2. pc'[t] \in {next, "failed"} /\ got'[t] = <<store[Key(t)].data>>
  BY <1>0 DEF WorldInv
<1>3. Key(t) \in DOMAIN store
  BY <1>0 DEF TaskInv, TransferInv
<1>4. TransferInv(t)'
  <2>1. pc'[t] \in {"extract", "done", "failed"}
    BY <1>2
  <2>2. t \in HttpTasks => t \notin ContentTasks
    BY <1>0, TaskFacts
  <2> QED BY <1>2, <2>1, <2>2 DEF TransferInv, Writing
<1>5. ASSUME t \in ContentTasks
      PROVE  TreeInv(t)'
  <2>1. pc'[t] \in {"extract", "failed"} /\ UseCache(t)
    BY <1>0, <1>2, <1>5 DEF TaskInv, TreeInv
  <2>2. Key(t) = <<"content", Wanted(t)>>
    BY <1>0, <1>5, KeyOfTask
  <2>3. store[Key(t)].data = Archived(Tree[Wanted(t)])
    BY <1>0, <1>3, <2>2 DEF StoreInv, Genuine
  <2>4. Remains(Archived(Tree[Wanted(t)]), trees[RepoDir(t)], Tree[Wanted(t)])
    BY DEF Remains, Archived, Includes
  <2> QED BY <1>1, <1>2, <2>1, <2>3, <2>4 DEF TreeInv, Held, Writing
<1>6. pc'[t] = "done" => got'[t][1] = store[Key(t)].data
  BY <1>2
<1> QED BY <1>3, <1>4, <1>5, <1>6 DEF TaskInv

LEMMA RequestKeeps ==
  ASSUME Inv, NEW t \in HttpTasks \cap Current, Local(t), UNCHANGED trees, NEW answer,
         RequestSucceeds(t, answer) \/ RequestFails(t, answer)
  PROVE  TaskInv(t)'
<1>0. /\ WorldInv /\ t \in plan.tasks /\ t \notin CloneTasks /\ t.url \in Urls
      /\ Key(t) = <<"http", t.url>>
  BY TaskFacts DEF Inv, Key, HttpKey
<1>1. t \notin ContentTasks
  BY <1>0 DEF CloneTasks
<1>2. CASE RequestSucceeds(t, answer)
  <2>1. pc'[t] = "store" /\ got'[t][1] = doc[t.url]
    BY <1>0, <1>2 DEF RequestSucceeds, Goto, Holds, WorldInv
  <2>2. CurrentSince(t.url, doc[t.url], clock)'
    BY <1>0 DEF CurrentSince, WorldInv, Local
  <2>3. Genuine(Key(t), got[t][1], clock)'
    BY <1>0, <2>1, <2>2 DEF Genuine, Key, HttpKey, CurrentSince, Local
  <2>4. TransferInv(t)'
    BY <2>1, <2>3 DEF TransferInv
  <2> QED BY <1>1, <2>4 DEF TaskInv
<1>3. CASE RequestFails(t, answer)
  <2>1. pc'[t] \in {"fetch", "failed"}
    BY <1>0, <1>3 DEF RequestFails, Goto, WorldInv
  <2> QED BY <1>1, <2>1 DEF TaskInv, TransferInv, Writing
<1> QED BY <1>2, <1>3

LEMMA HttpKeeps ==
  ASSUME Inv, NEW t \in HttpTasks \cap Current, HttpTask(t)
  PROVE  TaskInv(t)'
<1>0. /\ Local(t) /\ Key(t) = HttpKey(t) /\ UNCHANGED trees /\ MaxAge \in Nat
      /\ t \notin ContentTasks
  BY HttpIsLocal, HttpAssumption, TaskFacts DEF HttpTask, cloneVars, Key, Inv, CloneTasks
<1>1. CASE HttpLookup(t)
  BY <1>0, <1>1, LookupKeeps DEF HttpLookup
<1>2. CASE HttpHit(t)
  BY <1>0, <1>2, ReadKeeps DEF HttpHit
<1>3. CASE HttpPublish(t) \/ CreateTemp(t, HttpKey(t)) \/ WriteTemp(t) \/ SetFails(t)
  BY <1>0, <1>3, SetKeeps DEF HttpPublish
<1>4. CASE \E answer \in Answers : RequestSucceeds(t, answer) \/ RequestFails(t, answer)
  BY <1>0, <1>4, RequestKeeps
<1> QED BY <1>1, <1>2, <1>3, <1>4 DEF HttpTask, HttpStep

LEMMA MetadataKeeps ==
  ASSUME Inv, NEW t \in MetadataTasks \cap Current, MetadataTask(t)
  PROVE  TaskInv(t)'
<1>0. /\ Local(t) /\ Key(t) = CloneKey(t) /\ UNCHANGED trees /\ NeverTooOld \in Nat
      /\ t \notin ContentTasks /\ t \notin HttpTasks /\ t \in plan.tasks /\ WorldInv
  <2>1. t.kind = "metadata"
    BY DEF MetadataTasks
  <2>2. UNCHANGED trees
    BY DEF MetadataTask, MetadataStep, CloneLookup, MetadataHit, CloneHistory,
           CloneHistoryFails, CloneSet, ClonePublish, cloneVars
  <2> QED BY <2>1, <2>2, MetadataIsLocal, TaskFacts
          DEF Inv, Key, HttpTasks, ContentTasks, NeverTooOld
<1>1. CASE CloneLookup(t)
  BY <1>0, <1>1, LookupKeeps DEF CloneLookup
<1>2. CASE MetadataHit(t)
  BY <1>0, <1>2, ReadKeeps DEF MetadataHit
<1>3. CASE ClonePublish(t) \/ CloneSet(t)
  BY <1>0, <1>3, SetKeeps DEF ClonePublish, CloneSet
<1>4. CASE CloneHistory(t)
  <2>1. pc'[t] \in {"store", "done"} /\ got'[t][1] = head /\ pc[t] = "fetch"
    BY <1>0, <1>4 DEF CloneHistory, Goto, Holds, WorldInv
  <2>2. Key(t) = <<"metadata", Wanted(t)>> /\ Wanted(t) \in 1 .. head /\ head \in Nat
    <3>1. head \in Nat
      BY <1>0, RunAssumption DEF WorldInv
    <3>2. ResolveInv
      BY DEF Inv
    <3> QED BY <1>0, <2>1, <3>1, <3>2, KeyOfTask
  <2>3. Key(t)' = Key(t) /\ head' = head
    BY <1>0 DEF Local, Key, HttpKey, CloneKey, ContentKey, MetadataKey, Wanted
  <2>4. Genuine(Key(t), got[t][1], clock)'
    BY <2>1, <2>2, <2>3 DEF Genuine
  <2> QED BY <1>0, <2>1, <2>4 DEF TaskInv, TransferInv
<1>5. CASE CloneHistoryFails(t)
  <2>1. pc'[t] = "failed"
    BY <1>0, <1>5 DEF CloneHistoryFails, Goto, WorldInv
  <2> QED BY <1>0, <2>1 DEF TaskInv, TransferInv, Writing
<1> QED BY <1>1, <1>2, <1>3, <1>4, <1>5 DEF MetadataTask, MetadataStep

\* A tree that is part of another and misses nothing is that tree.
LEMMA CompleteTree ==
  ASSUME NEW tree, NEW commit, IsTree(tree), IsTree(commit), PartOf(tree, commit),
         Missing(tree, commit) = {}
  PROVE  tree = commit
<1>1. \A x \in DOMAIN commit : x \in DOMAIN tree
  BY DEF Missing
<1>2. DOMAIN tree = DOMAIN commit
  BY <1>1 DEF PartOf
<1>3. tree = [x \in DOMAIN tree |-> tree[x]] /\ commit = [x \in DOMAIN commit |-> commit[x]]
  BY DEF IsTree
<1>4. \A x \in DOMAIN tree : tree[x] = commit[x]
  BY DEF PartOf
<1> HIDE DEF PartOf
<1>5. [x \in DOMAIN tree |-> tree[x]] = [x \in DOMAIN commit |-> commit[x]]
  BY <1>2, <1>4
<1> QED BY <1>3, <1>5

LEMMA ContentKeeps ==
  ASSUME Inv, NEW t \in ContentTasks \cap Current, ContentTask(t)
  PROVE  TaskInv(t)'
<1> DEFINE tree == trees[RepoDir(t)]
           commit == Tree[Wanted(t)]
<1>0. /\ Local(t) /\ Key(t) = CloneKey(t) /\ NeverTooOld \in Nat
      /\ t \notin HttpTasks /\ t \in plan.tasks /\ RepoDir(t) \in RepoDirs
      /\ WorldInv /\ ResolveInv /\ TaskInv(t) /\ TreeInv(t)
  <2>1. t.kind = "content"
    BY DEF ContentTasks
  <2> QED BY <2>1, ContentIsLocal, TaskFacts
          DEF Inv, Key, HttpTasks, NeverTooOld, TaskInv
<1>1. Key(t)' = Key(t) /\ Wanted(t)' = Wanted(t) /\ IsTree(tree)
  BY <1>0 DEF Local, Key, HttpKey, CloneKey, ContentKey, MetadataKey, Wanted, WorldInv
<1>2. pc[t] \notin {"idle", "dead", "failed"}
  BY <1>0 DEF Local, Ended
<1>3. Key(t) = <<"content", Wanted(t)>> /\ Wanted(t) \in Commits /\ IsTree(commit)
  BY <1>0, <1>2, KeyOfTask, CloneAssumption
<1>4. CASE CloneLookup(t)
  BY <1>0, <1>4, LookupKeeps DEF CloneLookup, cloneVars
<1>5. CASE ContentHit(t)
  BY <1>0, <1>5, ReadKeeps DEF ContentHit, cloneVars
<1>6. CASE CloneSet(t) \/ ClonePublish(t)
  BY <1>0, <1>6, SetKeeps DEF CloneSet, ClonePublish, cloneVars
<1>7. CASE Extract(t)
  <2>1. pc[t] = "extract" /\ UseCache(t) /\ Remains(Held(t), tree, commit) /\ Straight(tree)
    BY <1>0, <1>7 DEF Extract, TreeInv, WorldInv
  <2>2. CASE DOMAIN Held(t) = {} /\ pc'[t] = "done" /\ UNCHANGED trees
    <3>1. Includes(tree, commit, {})
      BY <2>1, <2>2 DEF Remains
    <3> QED BY <1>0, <1>1, <2>1, <2>2, <3>1 DEF TaskInv, TransferInv, TreeInv, Writing
  <2>3. ASSUME NEW p \in DOMAIN Held(t), pc'[t] = "extract", got'[t] = <<After(Held(t), p)>>,
               trees'[RepoDir(t)] = Update(tree, Opened(tree, p), Held(t)[p])
        PROVE  TaskInv(t)'
    <3>1. Remains(Held(t)', trees'[RepoDir(t)], commit)
      BY <2>1, <2>3, EntryIsWritten DEF Held
    <3> QED BY <1>0, <1>1, <2>1, <2>3, <3>1 DEF TaskInv, TransferInv, TreeInv, Writing
  <2> QED BY <1>0, <1>7, <2>1, <2>2, <2>3 DEF Extract, WorldInv, Goto, Holds, SetTree
<1>8. CASE Clone(t)
  <2>1. pc'[t] = "checkout" /\ trees'[RepoDir(t)] = Empty
    BY <1>0, <1>8 DEF Clone, Goto, SetTree, WorldInv
  <2>2. PartOf(Empty, commit)
    BY DEF PartOf, Empty
  <2> QED BY <1>0, <1>1, <2>1, <2>2 DEF TaskInv, TransferInv, TreeInv, Writing
<1>9. CASE Checkout(t)
  <2>1. pc[t] = "checkout" /\ PartOf(tree, commit)
    BY <1>0, <1>9 DEF Checkout, TreeInv
  <2>2. CASE Missing(tree, commit) = {}
    <3>1. /\ pc'[t] = (IF UseCache(t) THEN "archive" ELSE "done") /\ trees' = trees
      BY <1>0, <1>9, <2>2 DEF Checkout, Goto, WorldInv
    <3>2. tree = commit
      BY <1>1, <1>3, <2>1, <2>2, CompleteTree
    <3> QED BY <1>0, <1>1, <3>1, <3>2, WholeTree DEF TaskInv, TransferInv, TreeInv, Writing
  <2>3. CASE Missing(tree, commit) # {}
    <3>1. /\ pc'[t] = "checkout"
          /\ \E x \in Missing(tree, commit) : trees'[RepoDir(t)] = Update(tree, x, commit[x])
      BY <1>0, <1>9, <2>1, <2>3 DEF Checkout, SetTree, WorldInv
    <3>2. PartOf(trees'[RepoDir(t)], commit)
      BY <2>1, <3>1, PartGrows DEF Missing
    <3> QED BY <1>0, <1>1, <3>1, <3>2 DEF TaskInv, TransferInv, TreeInv, Writing
  <2> QED BY <2>2, <2>3
<1>10. CASE CloneFails(t) \/ ContentFails(t)
  <2>1. pc'[t] = "failed"
    BY <1>0, <1>10 DEF CloneFails, ContentFails, Goto, WorldInv
  <2> QED BY <1>0, <2>1 DEF TaskInv, TransferInv, TreeInv, Writing
<1>11. CASE Archive(t)
  <2>1. /\ pc[t] = "archive" /\ pc'[t] = "store" /\ trees' = trees
        /\ got'[t][1] = Archived(tree)
    BY <1>0, <1>11 DEF Archive, Goto, Holds, WorldInv, cloneVars
  <2>2. tree = commit
    BY <1>0, <2>1 DEF TreeInv
  <2>3. Genuine(Key(t), got[t][1], clock)'
    BY <1>1, <1>3, <2>1, <2>2 DEF Genuine
  <2> QED BY <1>0, <1>1, <2>1, <2>2, <2>3 DEF TaskInv, TransferInv, TreeInv
<1> QED BY <1>4, <1>5, <1>6, <1>7, <1>8, <1>9, <1>10, <1>11 DEF ContentTask, ContentStep

LEMMA TasksKeep ==
  ASSUME Inv, NEW t \in Tasks, TaskStep(t)
  PROVE  Inv'
<1>1. t \in Current /\ Local(t) /\ TaskInv(t)'
  BY HttpIsLocal, HttpKeeps, ContentIsLocal, ContentKeeps, MetadataIsLocal, MetadataKeeps
     DEF TaskStep, HttpTask, ContentTask, MetadataTask
<1>2. Current' = Current /\ WorldInv' /\ StoreInv' /\ RoundInv' /\ ResolveInv'
  BY <1>1, LocalWorld, LocalStore, LocalRounds
<1>3. \A s \in Current : TaskInv(s)'
  BY <1>1, LocalOthers
<1> QED BY <1>2, <1>3 DEF Inv

-----------------------------------------------------------------------------
(* The other steps. *)

LEMMA InitKeeps ==
  ASSUME Init
  PROVE  Inv
<1>0. /\ plan \in Plans /\ round = 1 /\ clock = 0 /\ DOMAIN store = {} /\ head = 1
      /\ \A t \in plan.tasks : t \in Tasks /\ t.round \in Nat \ {0}
  BY RunAssumption DEF Init, PlanAssumption
<1>1. \A t \in plan.tasks : pc[t] = IF t \in HttpTasks THEN "lookup" ELSE "idle"
  BY DEF Init
<1>2. pc \in [plan.tasks -> Phases]
  BY DEF Init, Phases
<1>3. WorldInv
  <2>1. head \in 1 .. plan.maxHead /\ resolved \in [Packages -> {NoCommit} \cup 1 .. head]
    BY <1>0, RunAssumption DEF Init
  <2>2. \A u \in Urls : doc[u] = 1 /\ publishedAt[u] = [v \in {1} |-> 0]
    BY DEF Init
  <2>3. {1} = 1 .. 1
    OBVIOUS
  <2>4. \A u \in Urls : publishedAt[u] \in [1 .. doc[u] -> 0 .. clock]
    <3> TAKE u \in Urls
    <3>1. [v \in {1} |-> 0] \in [1 .. 1 -> 0 .. 0]
      BY <2>3
    <3> QED BY <1>0, <2>2, <3>1
  <2>5. \A d \in RepoDirs : IsTree(trees[d]) /\ Straight(trees[d])
    BY UpdateIsTree DEF Init
  <2> QED BY <1>0, <1>2, <2>1, <2>4, <2>5 DEF Init, WorldInv
<1>4. StoreInv
  BY <1>0 DEF StoreInv
<1>5. RoundInv
  BY <1>0, <1>1 DEF RoundInv
<1>6. ResolveInv
  BY <1>1 DEF ResolveInv, Current, InRound, HttpTasks, CloneTasks, ContentTasks, MetadataTasks
<1>7. \A t \in Current : TaskInv(t)
  BY <1>1 DEF Current, InRound, TaskInv, TransferInv, TreeInv, Writing, HttpTasks, ContentTasks
<1> QED BY <1>3, <1>4, <1>5, <1>6, <1>7 DEF Inv

\* One resolution serves all waiting tasks, and concerns no other that still runs.
LEMMA ResolveKeeps ==
  ASSUME Inv, NEW p \in Packages, ResolvePackage(p)
  PROVE  Inv'
<1> DEFINE waiting == Waiting(p)
<1>0. /\ WorldInv /\ StoreInv /\ RoundInv /\ ResolveInv /\ waiting # {}
      /\ UNCHANGED <<clock, store, temp, got, doc, publishedAt, head, trees, plan, round>>
      /\ head \in Nat \ {0} /\ round \in Nat
  BY RunAssumption
     DEF Inv, WorldInv, ResolvePackage, Resolve, ResolveFails, storeVars, httpVars, runVars, cloneVars
<1>1. \A t \in waiting : /\ t \in Current /\ t \in CloneTasks /\ t.package = p /\ pc[t] = "idle"
                         /\ t \in plan.tasks /\ t.round = round /\ t \notin HttpTasks
  BY <1>0, TaskFacts DEF Waiting, OfPackage
<1> HIDE DEF waiting
<1>a. \/ /\ pc' = [t \in plan.tasks |-> IF t \in waiting THEN FirstStep(t) ELSE pc[t]]
         /\ resolved' = [resolved EXCEPT ![p] = head]
      \/ /\ pc' = [t \in plan.tasks |-> IF t \in waiting THEN "failed" ELSE pc[t]]
         /\ resolved' = resolved
  BY <1>0 DEF ResolvePackage, Resolve, ResolveFails, WorldInv, cloneVars, waiting
<1>b. \A t \in plan.tasks : FirstStep(t) \in {"lookup", "fetch"} /\ pc[t] \in Phases
  BY <1>0 DEF FirstStep, WorldInv
<1>2. /\ \A t \in plan.tasks \ waiting : pc'[t] = pc[t]
      /\ \A t \in waiting : pc'[t] \in {FirstStep(t), "failed"}
      /\ \A t \in waiting : pc'[t] \in {"lookup", "fetch", "failed"}
      /\ pc' \in [plan.tasks -> Phases]
  BY <1>1, <1>a, <1>b DEF Phases, Ended
<1>3. /\ resolved' \in [Packages -> {NoCommit} \cup 1 .. head]
      /\ \A x \in Packages : x # p => resolved'[x] = resolved[x]
      /\ resolved'[p] # NoCommit \/ \A t \in waiting : pc'[t] = "failed"
  <2>1. resolved \in [Packages -> {NoCommit} \cup 1 .. head]
    BY <1>0 DEF WorldInv
  <2> QED BY <1>0, <1>1, <1>a, <2>1 DEF NoCommit
<1>4. Current' = Current /\ \A t \in Current : t \in plan.tasks
  BY <1>0 DEF Current, InRound
<1>5. \A t \in Current \cap CloneTasks : t.package = p /\ t \notin waiting => pc[t] = "dead"
  <2>1. PICK s \in waiting : TRUE
    BY <1>0
  <2> QED BY <1>0, <1>1, <2>1 DEF ResolveInv, waiting, Waiting, OfPackage
<1>6. WorldInv'
  BY <1>0, <1>2, <1>3 DEF WorldInv
<1>7. StoreInv'
  BY <1>0 DEF StoreInv, IsKey, Genuine, CurrentSince
<1>8. RoundInv'
  BY <1>0, <1>1, <1>2 DEF RoundInv
<1>9. ResolveInv'
  <2>1. \A s \in Current \cap CloneTasks : pc'[s] = "idle" => s.package # p /\ pc[s] = "idle"
    BY <1>2, <1>4, <1>5
  <2>2. \A t \in Current \cap CloneTasks : t.package # p =>
          pc'[t] = pc[t] /\ resolved'[t.package] = resolved[t.package]
    BY <1>1, <1>2, <1>3, <1>4, <1>0, TaskFacts
  <2>3. \A s, t \in Current \cap CloneTasks :
          s.package = t.package /\ pc'[s] = "idle" => pc'[t] \in {"idle", "dead"}
    BY <1>0, <2>1, <2>2 DEF ResolveInv
  <2>4. \A t \in Current \cap CloneTasks :
          pc'[t] \notin {"idle", "dead", "failed"} => resolved'[t.package] # NoCommit
    <3> SUFFICES ASSUME NEW t \in Current \cap CloneTasks, pc'[t] \notin {"idle", "dead", "failed"}
                 PROVE  resolved'[t.package] # NoCommit
      OBVIOUS
    <3>1. CASE t.package # p
      BY <1>0, <2>2, <3>1 DEF ResolveInv
    <3>2. CASE t.package = p
      BY <1>2, <1>3, <1>4, <1>5, <3>2
    <3> QED BY <3>1, <3>2
  <2> QED BY <1>4, <2>3, <2>4 DEF ResolveInv
<1>10. ASSUME NEW t \in Current
       PROVE  TaskInv(t)'
  <2>1. CASE t \in waiting
    <3>1. pc'[t] \in {"fetch", "failed"} \/ (pc'[t] = "lookup" /\ UseCache(t))
      <4>1. CASE UseCache(t)
        BY <1>2, <2>1, <4>1
      <4>2. CASE ~UseCache(t)
        <5>1. FirstStep(t) = "fetch"
          BY <4>2 DEF FirstStep
        <5> QED BY <1>2, <2>1, <5>1
      <4> QED BY <4>1, <4>2
    <3> QED BY <3>1 DEF TaskInv, TransferInv, TreeInv, Writing
  <2>2. CASE t \notin waiting /\ t \in CloneTasks /\ t.package = p
    <3>1. pc'[t] = "dead"
      BY <1>2, <1>4, <1>5, <2>2
    <3> QED BY <3>1 DEF TaskInv, TransferInv, TreeInv, Writing
  <2>3. CASE t \notin waiting /\ (t \in CloneTasks => t.package # p)
    <3>1. pc'[t] = pc[t] /\ (t \in CloneTasks => resolved'[t.package] = resolved[t.package])
      BY <1>0, <1>2, <1>3, <1>4, <2>3, TaskFacts
    <3>2. /\ Key(t)' = Key(t)
          /\ t \in CloneTasks => Wanted(t)' = Wanted(t)
      BY <1>0, <3>1, TaskFacts DEF Key, HttpKey, CloneKey, ContentKey, MetadataKey, Wanted
    <3>3. TransferInv(t)'
      BY <1>0, <3>1, <3>2 DEF Inv, TaskInv, TransferInv, Genuine, CurrentSince
    <3>4. t \in ContentTasks => TreeInv(t)'
      BY <1>0, <3>1, <3>2 DEF Inv, TaskInv, TreeInv, CloneTasks, Held
    <3> QED BY <3>3, <3>4 DEF TaskInv
  <2> QED BY <2>1, <2>2, <2>3
<1> QED BY <1>4, <1>6, <1>7, <1>8, <1>9, <1>10 DEF Inv

LEMMA KillKeeps ==
  ASSUME Inv, NEW proc, Kill(proc)
  PROVE  Inv'
<1> DEFINE killed == {t \in Active : t.proc = proc}
<1>0. /\ WorldInv /\ StoreInv /\ RoundInv /\ ResolveInv
      /\ UNCHANGED <<clock, store, got, doc, publishedAt, head, resolved, trees, plan, round>>
  BY DEF Inv, Kill, runVars, cloneVars
<1>1. killed \subseteq Current /\ Current' = Current /\ Current \subseteq plan.tasks
  BY <1>0 DEF Active, Current, InRound
<1>2. /\ pc' \in [plan.tasks -> Phases] /\ temp' = [t \in plan.tasks |-> temp'[t]]
      /\ \A t \in plan.tasks : IF t \in killed THEN pc'[t] = "dead"
                                ELSE pc'[t] = pc[t] /\ temp'[t] = temp[t]
  BY <1>0 DEF Kill, WorldInv, Phases, Ended
<1> HIDE DEF killed
<1>3. WorldInv' /\ StoreInv' /\ RoundInv'
  <2>1. WorldInv'
    BY <1>0, <1>2 DEF WorldInv
  <2>2. StoreInv'
    BY <1>0 DEF StoreInv, IsKey, Genuine, CurrentSince
  <2>3. \A t \in killed : t.round = round /\ round \in Nat
    BY <1>0, <1>1, TaskFacts DEF WorldInv
  <2>4. RoundInv'
    BY <1>0, <1>2, <2>3 DEF RoundInv, Ended
  <2> QED BY <2>1, <2>2, <2>4
<1>4. ResolveInv'
  BY <1>0, <1>1, <1>2 DEF ResolveInv
<1>5. ASSUME NEW t \in Current
      PROVE  TaskInv(t)'
  <2>1. CASE t \in killed
    BY <1>1, <1>2, <2>1 DEF TaskInv, TransferInv, TreeInv, Writing
  <2>2. CASE t \notin killed
    <3>1. pc'[t] = pc[t] /\ temp'[t] = temp[t]
      BY <1>1, <1>2, <2>2
    <3>2. Key(t)' = Key(t) /\ Wanted(t)' = Wanted(t)
      BY <1>0 DEF Key, HttpKey, CloneKey, ContentKey, MetadataKey, Wanted
    <3> QED BY <1>0, <3>1, <3>2
            DEF Inv, TaskInv, TransferInv, TreeInv, Genuine, CurrentSince, Held
  <2> QED BY <2>1, <2>2
<1> QED BY <1>1, <1>3, <1>4, <1>5 DEF Inv

LEMMA RoundKeeps ==
  ASSUME Inv, NextRound
  PROVE  Inv'
<1>0. /\ WorldInv /\ StoreInv /\ RoundInv /\ round \in Nat /\ round' = round + 1 /\ Active = {}
      /\ resolved' = [p \in Packages |-> NoCommit]
      /\ UNCHANGED <<clock, store, temp, pc, got, doc, publishedAt, head, trees, plan>>
      /\ \A t \in plan.tasks : t.round \in Nat /\ t \in Tasks
  BY RunAssumption DEF Inv, WorldInv, NextRound, storeVars, taskVars, httpVars, PlanAssumption
<1>1. WorldInv' /\ StoreInv'
  BY <1>0 DEF WorldInv, StoreInv, IsKey, Genuine, CurrentSince
<1>2. \A t \in plan.tasks : t.round = round => pc[t] \in Ended
  BY <1>0 DEF Active, Current, InRound
<1>3. RoundInv'
  <2>1. \A t \in plan.tasks : /\ t.round < round + 1 => t.round < round \/ t.round = round
                              /\ t.round > round + 1 => t.round > round
    BY <1>0
  <2> QED BY <1>0, <1>2, <2>1 DEF RoundInv
<1>4. \A t \in Current' : t \in plan.tasks /\ t \in Tasks /\ pc'[t] = IF t \in HttpTasks THEN "lookup" ELSE "idle"
  <2>1. \A t \in Current' : t \in plan.tasks /\ t.round = round + 1
    BY <1>0 DEF Current, InRound
  <2>2. \A t \in plan.tasks : t.round = round + 1 => t.round > round
    BY <1>0
  <2> QED BY <1>0, <2>1, <2>2 DEF RoundInv
<1>5. ResolveInv'
  BY <1>4 DEF ResolveInv, HttpTasks, CloneTasks, ContentTasks, MetadataTasks
<1>6. \A t \in Current' : TaskInv(t)'
  BY <1>4 DEF TaskInv, TransferInv, TreeInv, Writing, HttpTasks, ContentTasks
<1> QED BY <1>1, <1>3, <1>5, <1>6 DEF Inv

LEMMA TickKeeps ==
  ASSUME Inv, Tick
  PROVE  Inv'
<1>0. /\ WorldInv /\ StoreInv /\ RoundInv /\ ResolveInv /\ clock \in Nat /\ clock' = clock + 1
      /\ UNCHANGED <<store, temp, pc, got, doc, publishedAt, head, resolved, trees, plan, round>>
      /\ Current' = Current
      /\ \A t \in Current : pc[t] \notin OnDisk
  BY DEF Inv, WorldInv, Tick, taskVars, httpVars, cloneVars, runVars, Current, InRound
<1>1. WorldInv'
  <2>1. \A u \in Urls : publishedAt[u] \in [1 .. doc[u] -> 0 .. clock + 1]
    <3> TAKE u \in Urls
    <3>1. publishedAt[u] \in [1 .. doc[u] -> 0 .. clock] /\ 0 .. clock \subseteq 0 .. clock + 1
      BY <1>0 DEF WorldInv
    <3> QED BY <3>1
  <2> QED BY <1>0, <2>1 DEF WorldInv
<1>2. StoreInv'
  <2>1. \A k \in DOMAIN store : store[k].at \in 0 .. clock => store[k].at \in 0 .. clock + 1
    BY <1>0
  <2> QED BY <1>0, <2>1 DEF StoreInv, IsKey, Genuine, CurrentSince
<1>3. RoundInv' /\ ResolveInv'
  BY <1>0 DEF RoundInv, ResolveInv
<1>4. ASSUME NEW t \in Current
      PROVE  TaskInv(t)'
  <2>1. Wanted(t)' = Wanted(t)
    BY <1>0 DEF Wanted
  <2> QED BY <1>0, <1>4, <2>1 DEF Inv, TaskInv, TransferInv, TreeInv, Writing, OnDisk, Held
<1> QED BY <1>0, <1>1, <1>2, <1>3, <1>4 DEF Inv

\* A version published now takes nothing from what was current until now.
LEMMA StillGenuine ==
  ASSUME WorldInv, NEW url \in Urls, PublishVersion(url), NEW k, IsKey(k),
         NEW data, NEW when \in Nat, when <= clock, Genuine(k, data, when)
  PROVE  Genuine(k, data, when)'
<1>0. /\ doc' = [doc EXCEPT ![url] = @ + 1]
      /\ publishedAt' = [publishedAt EXCEPT ![url] = Update(@, doc[url] + 1, clock)]
      /\ doc[url] \in Nat \ {0} /\ DOMAIN publishedAt[url] = 1 .. doc[url]
      /\ head' = head /\ clock \in Nat
  BY DEF PublishVersion, WorldInv, cloneVars
<1>1. CASE k[1] = "http" /\ k[2] = url
  <2>1. data \in 1 .. doc[url] /\ (data = doc[url] \/ publishedAt[url][data + 1] >= when)
    BY <1>1 DEF Genuine, CurrentSince
  <2>2. doc'[url] = doc[url] + 1 /\ publishedAt'[url] = Update(publishedAt[url], doc[url] + 1, clock)
    BY <1>0 DEF WorldInv
  <2>3. publishedAt'[url][data + 1] >= when
    <3>1. CASE data = doc[url]
      BY <1>0, <2>2, <3>1 DEF Update
    <3>2. CASE data # doc[url]
      <4>1. data + 1 \in 1 .. doc[url] /\ data + 1 # doc[url] + 1
        BY <1>0, <2>1, <3>2
      <4> QED BY <1>0, <2>1, <2>2, <3>2, <4>1 DEF Update
    <3> QED BY <3>1, <3>2
  <2>4. data \in 1 .. doc'[url]
    BY <1>0, <2>1, <2>2
  <2> QED BY <1>1, <2>3, <2>4 DEF Genuine, CurrentSince
<1>2. CASE k[1] = "http" /\ k[2] # url
  <2>1. doc'[k[2]] = doc[k[2]] /\ publishedAt'[k[2]] = publishedAt[k[2]]
    BY <1>0, <1>2 DEF WorldInv, IsKey
  <2> QED BY <1>2, <2>1 DEF Genuine, CurrentSince
<1>3. CASE k[1] # "http"
  BY <1>0, <1>3 DEF Genuine, IsKey
<1> QED BY <1>1, <1>2, <1>3

LEMMA PublishKeeps ==
  ASSUME Inv, NEW url \in Urls, PublishVersion(url)
  PROVE  Inv'
<1>0. /\ WorldInv /\ StoreInv /\ RoundInv /\ ResolveInv /\ clock \in Nat
      /\ UNCHANGED <<clock, store, temp, pc, got, head, resolved, trees, plan, round>>
      /\ Current' = Current
  BY DEF Inv, WorldInv, PublishVersion, storeVars, taskVars, cloneVars, runVars, Current, InRound
<1>1. WorldInv'
  <2>1. /\ doc' = [doc EXCEPT ![url] = @ + 1]
        /\ publishedAt' = [publishedAt EXCEPT ![url] = Update(@, doc[url] + 1, clock)]
        /\ doc \in [Urls -> Nat \ {0}] /\ doc[url] \in Nat
        /\ publishedAt = [u \in Urls |-> publishedAt[u]]
    BY <1>0 DEF PublishVersion, WorldInv
  <2>2. doc' \in [Urls -> Nat \ {0}] /\ publishedAt' = [u \in Urls |-> publishedAt'[u]]
    BY <2>1
  <2>3. \A u \in Urls : publishedAt'[u] \in [1 .. doc'[u] -> 0 .. clock]
    <3> TAKE u \in Urls
    <3>1. publishedAt[u] \in [1 .. doc[u] -> 0 .. clock]
      BY <1>0 DEF WorldInv
    <3>2. CASE u # url
      BY <2>1, <3>1, <3>2
    <3>3. CASE u = url
      <4>1. doc'[u] = doc[u] + 1 /\ publishedAt'[u] = Update(publishedAt[u], doc[u] + 1, clock)
        BY <2>1, <3>3
      <4>2. 1 .. doc[u] + 1 = (1 .. doc[u]) \cup {doc[u] + 1} /\ clock \in 0 .. clock
        BY <1>0, <2>1, <3>3
      <4>3. publishedAt'[u] \in [(1 .. doc[u]) \cup {doc[u] + 1} -> 0 .. clock]
        BY <3>1, <4>1, <4>2 DEF Update
      <4> QED BY <4>1, <4>2, <4>3
    <3> QED BY <3>2, <3>3
  <2> QED BY <1>0, <2>2, <2>3 DEF WorldInv
<1>2. StoreInv'
  <2>1. ASSUME NEW k \in DOMAIN store
        PROVE  Genuine(k, store[k].data, store[k].at)'
    <3>1. IsKey(k) /\ store[k].at \in Nat /\ store[k].at <= clock
          /\ Genuine(k, store[k].data, store[k].at)
      BY <1>0 DEF StoreInv
    <3>2. \A d, w : d = store[k].data /\ w = store[k].at => Genuine(k, d, w)'
      BY <1>0, <3>1, StillGenuine
    <3> QED BY <1>0, <3>2
  <2> QED BY <1>0, <2>1 DEF StoreInv, IsKey
<1>3. RoundInv' /\ ResolveInv'
  BY <1>0 DEF RoundInv, ResolveInv
<1>4. ASSUME NEW t \in Current
      PROVE  TaskInv(t)'
  <2>1. Key(t)' = Key(t) /\ Wanted(t)' = Wanted(t)
    BY <1>0 DEF Key, HttpKey, CloneKey, ContentKey, MetadataKey, Wanted
  <2>2. pc[t] \in Writing => Genuine(Key(t), got[t][1], clock)'
    <3> SUFFICES ASSUME pc[t] \in Writing
                 PROVE  Genuine(Key(t), got[t][1], clock)'
      OBVIOUS
    <3>1. IsKey(Key(t)) /\ Genuine(Key(t), got[t][1], clock)
      BY <1>0, KeyOfTask DEF Inv, TaskInv, TransferInv, Writing
    <3>2. \A k, d, w : k = Key(t) /\ d = got[t][1] /\ w = clock => Genuine(k, d, w)'
      BY <1>0, <3>1, StillGenuine
    <3> QED BY <1>0, <2>1, <3>2
  <2> QED BY <1>0, <2>1, <2>2 DEF Inv, TaskInv, TransferInv, TreeInv, Held
<1> QED BY <1>0, <1>1, <1>2, <1>3, <1>4 DEF Inv

LEMMA PushKeeps ==
  ASSUME Inv, PushCommit
  PROVE  Inv'
<1>0. /\ WorldInv /\ StoreInv /\ RoundInv /\ ResolveInv /\ head \in Nat \ {0} /\ head' = head + 1
      /\ head < plan.maxHead /\ plan.maxHead \in Nat
      /\ UNCHANGED <<clock, store, temp, pc, got, doc, publishedAt, resolved, trees, plan, round>>
      /\ Current' = Current
  BY RunAssumption DEF Inv, WorldInv, PushCommit, storeVars, taskVars, httpVars, runVars, Current, InRound
<1>1. WorldInv'
  <2>1. head + 1 \in 1 .. plan.maxHead /\ 1 .. head \subseteq 1 .. head + 1
    BY <1>0
  <2>2. resolved \in [Packages -> {NoCommit} \cup 1 .. head + 1]
    BY <1>0, <2>1 DEF WorldInv
  <2> QED BY <1>0, <2>1, <2>2 DEF WorldInv
<1>2. \A k, d, w : IsKey(k) /\ Genuine(k, d, w) => Genuine(k, d, w)'
  <2> SUFFICES ASSUME NEW k, NEW d, NEW w, IsKey(k), Genuine(k, d, w)
               PROVE  Genuine(k, d, w)'
    OBVIOUS
  <2>1. CASE k[1] = "metadata"
    <3>1. d \in k[2] .. head /\ k[2] \in Nat
      BY <2>1 DEF Genuine, IsKey
    <3>2. d \in k[2] .. head + 1
      BY <1>0, <3>1
    <3> QED BY <1>0, <2>1, <3>2 DEF Genuine
  <2>2. CASE k[1] # "metadata"
    BY <1>0, <2>2 DEF Genuine, CurrentSince
  <2> QED BY <2>1, <2>2
<1>3. StoreInv'
  BY <1>0, <1>2 DEF StoreInv, IsKey
<1>4. RoundInv' /\ ResolveInv'
  BY <1>0 DEF RoundInv, ResolveInv
<1>5. ASSUME NEW t \in Current
      PROVE  TaskInv(t)'
  <2>1. Key(t)' = Key(t) /\ Wanted(t)' = Wanted(t)
    BY <1>0 DEF Key, HttpKey, CloneKey, ContentKey, MetadataKey, Wanted
  <2>2. pc[t] \in Writing => Genuine(Key(t), got[t][1], clock)'
    <3>1. pc[t] \in Writing => IsKey(Key(t)) /\ Genuine(Key(t), got[t][1], clock)
      BY <1>0, KeyOfTask DEF Inv, TaskInv, TransferInv, Writing
    <3>2. \A k, d, w : k = Key(t) /\ d = got[t][1] /\ w = clock /\ IsKey(k) /\ Genuine(k, d, w)
                        => Genuine(k, d, w)'
      BY <1>2
    <3> QED BY <1>0, <2>1, <3>1, <3>2
  <2> QED BY <1>0, <2>1, <2>2 DEF Inv, TaskInv, TransferInv, TreeInv, Held
<1> QED BY <1>0, <1>1, <1>3, <1>4, <1>5 DEF Inv

LEMMA StutterKeeps ==
  ASSUME Inv, UNCHANGED vars
  PROVE  Inv'
<1>0. /\ WorldInv /\ StoreInv /\ RoundInv /\ ResolveInv /\ Current' = Current
      /\ UNCHANGED <<clock, store, temp, pc, got, doc, publishedAt, head, resolved, trees, plan, round>>
  BY DEF Inv, Current, InRound, vars, storeVars, taskVars, httpVars, cloneVars, runVars
<1>1. WorldInv' /\ StoreInv' /\ RoundInv' /\ ResolveInv'
  BY <1>0 DEF WorldInv, StoreInv, RoundInv, ResolveInv, IsKey, Genuine, CurrentSince
<1>2. ASSUME NEW t \in Current
      PROVE  TaskInv(t)'
  <2>1. Key(t)' = Key(t) /\ Wanted(t)' = Wanted(t)
    BY <1>0 DEF Key, HttpKey, CloneKey, ContentKey, MetadataKey, Wanted
  <2> QED BY <1>0, <2>1
          DEF Inv, TaskInv, TransferInv, TreeInv, Genuine, CurrentSince, Held
<1> QED BY <1>0, <1>1, <1>2 DEF Inv

-----------------------------------------------------------------------------
(* Theorems. *)

\* The inductive invariant holds in every state of every run, whatever is
\* killed, published or pushed meanwhile.
THEOREM Invariance == Spec => []Inv
<1>1. Init => Inv
  BY InitKeeps
<1>2. Inv /\ [Next]_vars => Inv'
  <2> SUFFICES ASSUME Inv, [Next]_vars
               PROVE  Inv'
    OBVIOUS
  <2>1. CASE \E t \in HttpTasks : HttpTask(t)
    BY <2>1, TasksKeep DEF TaskStep, HttpTasks
  <2>2. CASE \E t \in ContentTasks : ContentTask(t)
    BY <2>2, TasksKeep DEF TaskStep, ContentTasks
  <2>3. CASE \E t \in MetadataTasks : MetadataTask(t)
    BY <2>3, TasksKeep DEF TaskStep, MetadataTasks
  <2>4. CASE \E p \in Packages : ResolvePackage(p)
    BY <2>4, ResolveKeeps
  <2>5. CASE \E proc \in Procs : Kill(proc)
    BY <2>5, KillKeeps
  <2>6. CASE NextRound \/ Tick \/ \E u \in Urls : PublishVersion(u)
    BY <2>6, RoundKeeps, TickKeeps, PublishKeeps
  <2>7. CASE PushCommit \/ Stutter \/ UNCHANGED vars
    BY <2>7, PushKeeps, StutterKeeps DEF Stutter
  <2> QED BY <2>1, <2>2, <2>3, <2>4, <2>5, <2>6, <2>7 DEF Next
<1> QED BY <1>1, <1>2, PTL DEF Spec

\* Every file of the cache is whole and holds what its name says, whichever
\* processes were killed while writing and whoever wrote the same entry.
THEOREM StoreStaysGenuine == Spec => []StoreIsGenuine
<1>1. Inv => StoreIsGenuine
  BY DEF Inv, StoreInv, StoreIsGenuine
<1> QED BY <1>1, Invariance, PTL

\* A finished checkout holds every regular file of the commit it was made for,
\* but where a link of an earlier clone takes one elsewhere, and exactly the
\* commit's tree without the cache.
THEOREM TreesStayComplete == Spec => []TreesHoldTheirCommit
<1>1. Inv => TreesHoldTheirCommit
  BY DEF Inv, TaskInv, TreeInv, TreesHoldTheirCommit, Includes
<1> QED BY <1>1, Invariance, PTL

\* A document was current within the maximal age when its fetch returns it.
THEOREM AnswersStayFresh == Spec => AnswersAreFresh
<1>1. ASSUME Inv, [Next]_vars, NEW t \in HttpTasks \cap plan.tasks, pc[t] # "done", pc'[t] = "done"
      PROVE  CurrentSince(t.url, got'[t][1], clock - MaxAge)
  <2>0. /\ WorldInv /\ StoreInv /\ clock \in Nat /\ MaxAge \in Nat /\ t \notin CloneTasks
    BY <1>1, HttpAssumption DEF Inv, WorldInv, HttpTasks, CloneTasks, ContentTasks, MetadataTasks
  <2>1. \A s \in Tasks : TaskStep(s) => s = t
    <3> SUFFICES ASSUME NEW s \in Tasks, TaskStep(s), s # t
                 PROVE  FALSE
      OBVIOUS
    <3>1. Local(s)
      BY <1>1, HttpIsLocal, ContentIsLocal, MetadataIsLocal
         DEF TaskStep, HttpTask, ContentTask, MetadataTask
    <3>2. pc'[t] = pc[t]
      BY <1>1, <2>0, <3>1 DEF Local, WorldInv
    <3> QED BY <1>1, <3>2
  <2>2. HttpTask(t)
    <3>1. ~ \E p \in Packages : ResolvePackage(p)
      BY <1>1, <2>0 DEF ResolvePackage, Resolve, ResolveFails, Waiting, OfPackage, WorldInv
    <3>2. ~ \E proc \in Procs : Kill(proc)
      BY <1>1, <2>0 DEF Kill
    <3>3. ~ (NextRound \/ Tick \/ (\E u \in Urls : PublishVersion(u)) \/ PushCommit \/ Stutter \/ UNCHANGED vars)
      BY <1>1 DEF NextRound, Tick, PublishVersion, PushCommit, Stutter, vars, taskVars
    <3>4. \A s \in CloneTasks : s \in Tasks /\ ~ ContentTask(s) /\ ~ MetadataTask(s)
      BY <2>0, <2>1 DEF TaskStep, CloneTasks, ContentTasks, MetadataTasks
    <3> QED BY <1>1, <2>1, <3>1, <3>2, <3>3, <3>4 DEF Next, TaskStep, CloneTasks, HttpTasks
  <2>3. t \in Current /\ TaskInv(t) /\ Key(t) = HttpKey(t) /\ Key(t) = <<"http", t.url>>
    BY <1>1, <2>2 DEF HttpTask, Inv, Key, HttpKey
  <2>4. CASE HttpHit(t)
    <3>1. Key(t) \in DOMAIN store /\ clock - store[Key(t)].at <= MaxAge
      BY <2>3, <2>4 DEF HttpHit, ReadEntry, TaskInv, TransferInv
    <3>2. got'[t][1] = store[Key(t)].data
      BY <1>1, <2>0, <2>3, <2>4 DEF HttpHit, ReadEntry, Holds, WorldInv
    <3>3. IsKey(Key(t)) /\ store[Key(t)].at \in Nat /\ Genuine(Key(t), store[Key(t)].data, store[Key(t)].at)
      BY <2>0, <3>1 DEF StoreInv
    <3>4. Genuine(Key(t), store[Key(t)].data, clock - MaxAge)
      BY <2>0, <3>1, <3>3, GenuineWhenOlder
    <3> QED BY <2>3, <3>2, <3>4 DEF Genuine
  <2>5. CASE HttpPublish(t)
    <3>1. pc[t] = "rename" /\ got' = got
      BY <2>5 DEF HttpPublish, Publish
    <3>2. Genuine(Key(t), got[t][1], clock) /\ IsKey(Key(t))
      BY <1>1, <2>0, <2>3, <3>1, KeyOfTask DEF Inv, TaskInv, TransferInv, Writing
    <3>3. Genuine(Key(t), got[t][1], clock - MaxAge)
      BY <2>0, <3>2, GenuineWhenOlder
    <3> QED BY <2>3, <3>1, <3>3 DEF Genuine
  <2>6. CASE ~ HttpHit(t) /\ ~ HttpPublish(t)
    <3>1. pc'[t] # "done"
      BY <1>1, <2>0, <2>2, <2>6
         DEF HttpTask, HttpStep, HttpLookup, Lookup, RequestSucceeds, RequestFails,
             CreateTemp, WriteTemp, SetFails, Goto, WorldInv
    <3> QED BY <1>1, <3>1
  <2> QED BY <2>4, <2>5, <2>6
<1>2. Inv /\ [Next]_vars =>
        [\A t \in HttpTasks \cap plan.tasks :
           pc[t] # "done" /\ pc'[t] = "done" => CurrentSince(t.url, got'[t][1], clock - MaxAge)]_vars
  BY <1>1
<1> QED BY <1>2, Invariance, PTL DEF Spec, AnswersAreFresh
=============================================================================

---------------------------- MODULE CloneCache ----------------------------
(***************************************************************************)
(* Working trees and histories of one remote repository, and the entries   *)
(* of the cache that hold them: git_resolve, git_clone_content,            *)
(* git_clone_published_content and git_clone_metadata of src/dag-impl with *)
(* clone_cache.go, clone_content.go and clone_metadata.go of src/git.      *)
(*                                                                         *)
(* The remote's default branch moves forward while runs look at it.  Every *)
(* package has directories of its own, which outlive the run: HEAD's tree, *)
(* the tree of the published version, and none for the history, which is   *)
(* removed at once.  A tree is a function from the paths of its files to   *)
(* what they hold: the content of a regular file, or a symbolic link.      *)
(* Paths are numbered in the order in which filepath.WalkDir visits them.  *)
(* A link to a directory is a link at every path below it.                 *)
(***************************************************************************)
EXTENDS FileStore

CONSTANTS
  Packages,     \* packages of the repository, each analysed by itself
  Tree,         \* the tree of each commit, a sequence of functions
  Target        \* where each symbolic link leads, a path by what stands for the link

Commits == DOMAIN Tree
NoCommit == 0

\* A tree is the function that it is on its paths, and nothing besides.
IsTree(tree) == tree = [p \in DOMAIN tree |-> tree[p]]

IsLink(x) == x \in DOMAIN Target
LinksOf(tree) == {p \in DOMAIN tree : IsLink(tree[p])}
Regular(tree) == DOMAIN tree \ LinksOf(tree)

\* No link leads to another one.
Straight(tree) == \A p \in LinksOf(tree) : Target[tree[p]] \notin LinksOf(tree)

ASSUME CloneAssumption ==
  /\ Commits \subseteq Nat \ {0}
  /\ \A c \in Commits : DOMAIN Tree[c] \subseteq Nat /\ IsTree(Tree[c]) /\ Straight(Tree[c])

VARIABLES
  head,         \* the newest commit of the remote
  resolved,     \* what git_resolve of a package found in this run
  trees         \* the working tree in each directory

cloneVars == <<head, resolved, trees>>

ContentTasks == {t \in Tasks : t.kind = "content"}
MetadataTasks == {t \in Tasks : t.kind = "metadata"}
CloneTasks == ContentTasks \cup MetadataTasks

\* RepoWorkPath: by package and by node, so that HEAD's tree and the published
\* one of a package are never in one directory.
RepoDirs == Packages \X {"repo", "repo-published"}
RepoDir(t) == <<t.package, t.dir>>

\* The commit a task is to get: the pin of a published version, or HEAD as
\* git_resolve saw it.
Wanted(t) == IF t.kind = "content" /\ t.pin # NoCommit THEN t.pin ELSE resolved[t.package]

\* cloneCacheKey and metadataCacheKey, both by commit; the URL and the
\* patterns are the same for all.
ContentKey(c) == <<"content", c>>
MetadataKey(c) == <<"metadata", c>>
CloneKey(t) == IF t.kind = "content" THEN ContentKey(Wanted(t)) ELSE MetadataKey(Wanted(t))

\* Entries for a commit last 365 days, longer than the clock runs here.
NeverTooOld == 1000000
UseCache(t) == ~t.private
FirstStep(t) == IF UseCache(t) THEN "lookup" ELSE "fetch"

Update(tree, path, blob) ==
  [p \in DOMAIN tree \cup {path} |-> IF p = path THEN blob ELSE tree[p]]
Empty == [p \in {} |-> p]
\* The paths that a tree does not yet hold as another one does.
Missing(tree, from) == {p \in DOMAIN from : p \notin DOMAIN tree \/ tree[p] # from[p]}
SetTree(d, tree) == trees' = [trees EXCEPT ![d] = tree]

-----------------------------------------------------------------------------
(* git_resolve: one ls-remote for all tasks of a package *)

OfPackage(p) == {t \in CloneTasks : t.package = p}

Resolve(p, waiting) ==
  /\ waiting # {}
  /\ resolved' = [resolved EXCEPT ![p] = head]
  /\ pc' = [t \in DOMAIN pc |-> IF t \in waiting THEN FirstStep(t) ELSE pc[t]]
  /\ UNCHANGED <<storeVars, got, head, trees>>

\* The remote is unreachable, gone or private: no task of the package runs.
ResolveFails(p, waiting) ==
  /\ waiting # {}
  /\ pc' = [t \in DOMAIN pc |-> IF t \in waiting THEN "failed" ELSE pc[t]]
  /\ UNCHANGED <<storeVars, got, cloneVars>>

-----------------------------------------------------------------------------
(* git_clone_content and git_clone_published_content: Materialize *)

CloneLookup(t) == Lookup(t, CloneKey(t), NeverTooOld) /\ UNCHANGED cloneVars

\* tryCloneCache: the archive goes to a temporary file and is then unpacked.
ContentHit(t) == ReadEntry(t, CloneKey(t), "extract") /\ UNCHANGED cloneVars

\* Opening a path to write it follows the symbolic link that stands there.
Opened(tree, p) ==
  IF p \in LinksOf(tree) THEN Target[tree[p]] ELSE p

\* The entry the archive is read to, and what is left of it.
NextEntry(archive, p) == p \in DOMAIN archive /\ \A q \in DOMAIN archive : p <= q
After(archive, p) == [q \in DOMAIN archive \ {p} |-> archive[q]]

\* A bug: a file that exists already is left alone.
ExtractMissing(t) ==
  /\ pc[t] = "extract"
  /\ LET tree == trees[RepoDir(t)] IN
     \/ DOMAIN Held(t) = {} /\ Goto(t, "done") /\ UNCHANGED <<got, trees>>
     \/ \E p \in DOMAIN Held(t) :
          /\ NextEntry(Held(t), p)
          /\ SetTree(RepoDir(t), IF p \in DOMAIN tree THEN tree ELSE Update(tree, p, Held(t)[p]))
          /\ Holds(t, After(Held(t), p)) /\ UNCHANGED pc
  /\ UNCHANGED <<storeVars, head, resolved>>

\* ExtractCachedRepo: entry by entry into the directory as it is.  Nothing is
\* removed from it, and a file is written through the link that an earlier
\* clone left at its path.
Extract(t) ==
  /\ pc[t] = "extract"
  /\ LET tree == trees[RepoDir(t)] IN
     \/ DOMAIN Held(t) = {} /\ Goto(t, "done") /\ UNCHANGED <<got, trees>>
     \/ \E p \in DOMAIN Held(t) :
          /\ NextEntry(Held(t), p)
          /\ SetTree(RepoDir(t), Update(tree, Opened(tree, p), Held(t)[p]))
          /\ Holds(t, After(Held(t), p)) /\ UNCHANGED pc
  /\ UNCHANGED <<storeVars, head, resolved>>

\* CloneContentOnly removes what is in the directory before it clones.
Clone(t) ==
  /\ pc[t] = "fetch"
  /\ SetTree(RepoDir(t), Empty)
  /\ Goto(t, "checkout")
  /\ UNCHANGED <<storeVars, got, head, resolved>>

\* fetchAndCheckoutSHA: the files of exactly the commit that was asked for.
Checkout(t) ==
  /\ pc[t] = "checkout"
  /\ LET missing == Missing(trees[RepoDir(t)], Tree[Wanted(t)]) IN
     IF missing = {}
       THEN Goto(t, IF UseCache(t) THEN "archive" ELSE "done") /\ UNCHANGED trees
       ELSE /\ \E p \in missing : SetTree(RepoDir(t), Update(trees[RepoDir(t)], p, Tree[Wanted(t)][p]))
            /\ UNCHANGED pc
  /\ UNCHANGED <<storeVars, got, head, resolved>>

\* A clone, fetch or checkout that fails or times out leaves no directory.
CloneFails(t) ==
  /\ pc[t] \in {"fetch", "checkout"}
  /\ SetTree(RepoDir(t), Empty)
  /\ Goto(t, "failed")
  /\ UNCHANGED <<storeVars, got, head, resolved>>

\* CreateTarGz skips what is not a regular file.
Archived(tree) == [p \in Regular(tree) |-> tree[p]]

\* PutCachedClone packs the directory, under the commit that is checked out.
Archive(t) ==
  /\ pc[t] = "archive"
  /\ Holds(t, Archived(trees[RepoDir(t)]))
  /\ Goto(t, "store")
  /\ UNCHANGED <<storeVars, cloneVars>>

\* An entry that cannot be unpacked or packed fails the node and leaves the
\* directory as it is by then.
ContentFails(t) ==
  /\ pc[t] \in {"extract", "archive"}
  /\ Goto(t, "failed")
  /\ UNCHANGED <<storeVars, got, cloneVars>>

-----------------------------------------------------------------------------
(* git_clone_metadata *)

MetadataHit(t) == ReadEntry(t, CloneKey(t), "done") /\ UNCHANGED cloneVars

\* CloneMetadataOnly takes the default branch as it is now, not as it was
\* when git_resolve saw it; AnalyzeRepository reads its history.
CloneHistory(t) ==
  /\ pc[t] = "fetch"
  /\ Holds(t, head)
  /\ Goto(t, IF UseCache(t) THEN "store" ELSE "done")
  /\ UNCHANGED <<storeVars, cloneVars>>

CloneHistoryFails(t) ==
  /\ pc[t] = "fetch"
  /\ Goto(t, "failed")
  /\ UNCHANGED <<storeVars, got, cloneVars>>

-----------------------------------------------------------------------------
ClonePublish(t) == Publish(t, CloneKey(t)) /\ UNCHANGED cloneVars

CloneSet(t) == (CreateTemp(t, CloneKey(t)) \/ WriteTemp(t) \/ SetFails(t)) /\ UNCHANGED cloneVars

ContentStep(t) ==
  \/ CloneLookup(t) \/ ContentHit(t) \/ Extract(t)
  \/ Clone(t) \/ Checkout(t) \/ CloneFails(t) \/ Archive(t) \/ ContentFails(t)
  \/ CloneSet(t) \/ ClonePublish(t)

MetadataStep(t) ==
  \/ CloneLookup(t) \/ MetadataHit(t)
  \/ CloneHistory(t) \/ CloneHistoryFails(t)
  \/ CloneSet(t) \/ ClonePublish(t)
=============================================================================

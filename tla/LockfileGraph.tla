----------------------------- MODULE LockfileGraph -----------------------------
(* What a manifest and its lockfile say a tree depends on (src/ecosystem): the *)
(* lockfile that belongs to a manifest, the edges it lists in each of four     *)
(* formats, and the line of the manifest that each edge is attributed to.      *)
(*                                                                             *)
(* A directory, and a place in a lockfile, is a sequence of names.  A package  *)
(* is named by its analysis name; a key is that name with the version as its   *)
(* query, and NoKey stands for the tree itself.  An edge is a record [parent,  *)
(* child, location], a location {} or {[file, line]}.  What a map of the code  *)
(* ranges over comes in no order, so edges are sets.                           *)
EXTENDS Naturals, FiniteSetsExt, SequencesExt

CONSTANTS
  RootKey,     \* the key of the source tree, "source/<path>"
  NoKey        \* the empty key

NoVersion == ""

MakeKey(name, version) ==
  [name |-> name, query |-> IF version = NoVersion THEN {} ELSE {<<"version", version>>}]

Edge(parent, child) == [parent |-> parent, child |-> child, location |-> {}]

-------------------------------------------------------------------------------
(* The lockfile of a manifest: the closest one, upwards, of the manifest's     *)
(* ecosystem, a record [ecosystem, dir, rank, parses, content]; rank orders    *)
(* the package managers that are asked.                                        *)

Above(dir, lockfiles) == {l \in lockfiles : IsPrefix(l.dir, dir)}

ClosestLockfile(dir, lockfiles) ==
  {l \in Above(dir, lockfiles) : \A k \in Above(dir, lockfiles) \ {l} :
     \/ Len(k.dir) < Len(l.dir)
     \/ Len(k.dir) = Len(l.dir) /\ l.rank < k.rank}

\* Both walks over a lockfile's places try each directory above, nearest first.
Nearest(from, steps, places) ==
  LET lengths == {n \in 0..Len(from) : SubSeq(from, 1, n) \o steps \in places}
  IN  IF lengths = {} THEN {} ELSE {SubSeq(from, 1, Max(lengths)) \o steps}

-------------------------------------------------------------------------------
(* package-lock.json from version 2: [place -> [name, version, link, resolved, *)
(* dependencies, dev, optional]], where name has at most one element, resolved *)
(* is where a link leads and the last three are sets of names.                 *)

NodeModules == "node_modules"
Installed(place) == NodeModules \in ToSet(place)
MaxLinks == 10

\* The real name of an aliased package is in its entry.
CanonicalName(label, pkg) == IF pkg.name = {} THEN label ELSE CHOOSE n \in pkg.name : TRUE

\* The names an entry goes by: a folder of the tree may have none.
NamesOf(place, pkg) ==
  IF Installed(place) THEN {CanonicalName(Last(place), pkg)} ELSE pkg.name

FindRoots(packages) ==
  {p \in DOMAIN packages : p = <<>> \/ (~ Installed(p) /\ packages[p].name # {})}

RootOf(place, packages) ==
  CHOOSE r \in FindRoots(packages) :
    /\ IsStrictPrefix(r, place)
    /\ \A q \in FindRoots(packages) : IsStrictPrefix(q, place) => Len(q) <= Len(r)

\* Declared by the root that the package is installed under, at its first level;
\* a workspace package is always direct.
IsDirectDep(place, packages) ==
  IF ~ Installed(place) THEN packages[place].name # {}
  ELSE LET root == RootOf(place, packages)
           pkg  == packages[root]
       IN  /\ place = root \o <<NodeModules, Last(place)>>
           /\ Last(place) \in pkg.dependencies \cup pkg.dev \cup pkg.optional

IsLink(place, packages) == place \in DOMAIN packages /\ packages[place].link

\* The package at the end of at most MaxLinks links.
ResolvePackage(place, packages) ==
  LET at[n \in 0..MaxLinks] ==
        IF n = 0 THEN place
        ELSE LET p == at[n - 1] IN IF IsLink(p, packages) THEN packages[p].resolved ELSE p
  IN  {p \in DOMAIN packages : p = at[MaxLinks] /\ ~ IsLink(p, packages)}

\* As Node looks a package up: in each node_modules above.
ResolvePackageByName(from, name, packages) ==
  LET places == {p \in DOMAIN packages : ResolvePackage(p, packages) # {}}
  IN  UNION {ResolvePackage(p, packages) : p \in Nearest(from, <<NodeModules, name>>, places)}

NpmEdgesOf(place, packages) ==
  UNION {LET key == MakeKey(name, packages[place].version)
         IN  (IF IsDirectDep(place, packages) THEN {Edge(NoKey, key)} ELSE {})
               \cup UNION {{Edge(key, MakeKey(CanonicalName(d, packages[p]), packages[p].version)) :
                              p \in ResolvePackageByName(place, d, packages)} :
                             d \in packages[place].dependencies}
         : name \in NamesOf(place, packages[place])}

ParsePackages(packages) ==
  IF <<>> \notin DOMAIN packages THEN {}
  ELSE UNION {NpmEdgesOf(p, packages) :
                p \in {p \in DOMAIN packages : p # <<>> /\ ~ packages[p].link}}

-------------------------------------------------------------------------------
(* package-lock.json of version 1: nested tables of names, here a function     *)
(* from places to versions.  All that lies at the top counts as direct.        *)

ParseDependenciesV1(tree) ==
  {Edge(IF Len(p) = 1 THEN NoKey ELSE MakeKey(Last(Front(p)), tree[Front(p)]),
        MakeKey(Last(p), tree[p])) : p \in DOMAIN tree}

(* bun.lock: what each workspace declares, and [place -> [name, version,       *)
(* dependencies]].  A name that is not in the table belongs to the tree.       *)

BunKey(pkg) == MakeKey(pkg.name, pkg.version)

ParseBun(workspaces, packages) ==
  {Edge(NoKey, BunKey(packages[p])) :
     p \in {p \in DOMAIN packages : \E w \in workspaces : \E d \in w : p = <<d>>}}
  \cup UNION {UNION {{Edge(BunKey(packages[p]), BunKey(packages[q])) :
                        q \in Nearest(p, <<d>>, DOMAIN packages)} :
                       d \in packages[p].dependencies} :
                p \in DOMAIN packages}

(* uv.lock: a sequence of [name, version, root, dependencies]; a dependency    *)
(* has the version of the last entry of its name.                              *)

ResolveVersion(name, entries) ==
  LET at == {i \in DOMAIN entries : entries[i].name = name}
  IN  IF at = {} THEN NoVersion ELSE entries[Max(at)].version

ParseUv(entries) ==
  UNION {{Edge(IF e.root THEN NoKey ELSE MakeKey(e.name, e.version),
               MakeKey(d, ResolveVersion(d, entries))) : d \in e.dependencies} :
           e \in ToSet(entries)}

\* Lockfiles of other managers are found and never read.
ParseLockfile(l) ==
  CASE ~ l.parses -> {}
    [] l.parses /\ l.format = "npm" -> ParsePackages(l.packages)
    [] l.parses /\ l.format = "npm1" -> ParseDependenciesV1(l.tree)
    [] l.parses /\ l.format = "bun" -> ParseBun(l.workspaces, l.packages)
    [] l.parses /\ l.format = "uv" -> ParseUv(l.entries)
    [] l.parses /\ l.format = "other" -> {}

-------------------------------------------------------------------------------
(* Attribution.  A manifest's own declarations are a sequence of [child,       *)
(* location] without versions.                                                 *)

\* The last declaration of a name that has a line.
DeclaredLocation(declared, name) ==
  LET at == {i \in DOMAIN declared : declared[i].child.name = name /\ declared[i].location # {}}
  IN  IF at = {} THEN {} ELSE declared[Max(at)].location

\* The lines of the direct dependencies that a package is reached from.
AncestorLocations(edges, declared) ==
  LET reached[n \in 0..Cardinality(edges)] ==
        IF n = 0
        THEN UNION {{<<e.child, l>> : l \in DeclaredLocation(declared, e.child.name)} :
                      e \in {e \in edges : e.parent = NoKey}}
        ELSE LET known == reached[n - 1]
             IN  known \cup
                 UNION {{<<e.child, r[2]>> : r \in {r \in known : r[1] = e.parent}} : e \in edges}
  IN  reached[Cardinality(edges)]

\* A transitive edge takes the line of one of them, whichever comes first.
AttachManifestLocations(edges, declared) ==
  LET ancestors == AncestorLocations(edges, declared)
      above(key) == {r[2] : r \in {r \in ancestors : r[1] = key}}
  IN  {[e EXCEPT !.location =
          IF e.parent = NoKey THEN DeclaredLocation(declared, e.child.name)
          ELSE {l \in above(e.parent) : l = CHOOSE k \in above(e.parent) : TRUE}] : e \in edges}

\* The edges of a manifest's lockfile.
LockfileDependencies(m) ==
  UNION {AttachManifestLocations(ParseLockfile(l), m.declared) :
           l \in ClosestLockfile(m.dir, m.lockfiles)}
===============================================================================

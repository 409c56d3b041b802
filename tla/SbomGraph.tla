------------------------------ MODULE SbomGraph ------------------------------
(* From the manifests of a source tree to the direct dependencies that are     *)
(* audited (cmd/risk-guard/sbom*.go, src/lib/common/sbom): manifests under an  *)
(* ignored directory are dropped, the others become edges, nodes and a         *)
(* document in one of two formats, which is read back into keys and the places *)
(* where they are declared.                                                    *)
(*                                                                             *)
(* A manifest is [paths, parses, dir, lockfiles, declared]: parses is FALSE    *)
(* when it cannot be read at all, lockfiles are those of the tree in its       *)
(* ecosystem, declared what the manifest names itself.                         *)
EXTENDS LockfileGraph

CONSTANTS
  PurlOf,      \* [key -> {the purl built for it}, or {} for the root]
  KeyOfPurl,   \* [purl -> the key it converts to]
  Covers       \* [pattern of .riskguardignore -> the paths it excludes]

ASSUME PurlAssumption == \A key \in DOMAIN PurlOf : \A p, q \in PurlOf[key] : p = q

\* Whether a pattern of the ignore file covers the path.
IgnoreMatch(path, ignored) == \E i \in ignored : path \in Covers[i]

\* A manifest is dropped when every file of it is ignored.
ManifestIgnored(m, ignored) ==
  m.paths # {} /\ \A p \in m.paths : IgnoreMatch(p, ignored)

\* The manifests that are kept, by their place in the list.
KeptManifests(manifests, ignored) ==
  {i \in DOMAIN manifests : ~ ManifestIgnored(manifests[i], ignored)}

\* An edge that is listed is a record [at, parent, child, location], at its place
\* in the list: what the manifest declares comes in order, what a lockfile lists
\* in any, all at 0.
LockedEdges(m) ==
  {[at |-> 0, parent |-> IF e.parent = NoKey THEN RootKey ELSE e.parent,
    child |-> e.child, location |-> e.location] : e \in LockfileDependencies(m)}

DeclaredEdges(m) ==
  {[at |-> j, parent |-> RootKey, child |-> m.declared[j].child, location |-> m.declared[j].location] :
     j \in {j \in DOMAIN m.declared : m.declared[j].child # NoKey}}

\* A lockfile that lists anything replaces what the manifest declares.
ManifestEdges(m) ==
  IF ~ m.parses THEN {} ELSE IF LockedEdges(m) # {} THEN LockedEdges(m) ELSE DeclaredEdges(m)

Edges(manifests, kept) ==
  UNION {{[e EXCEPT !.at = <<i, @>>] : e \in ManifestEdges(manifests[i])} : i \in kept}

Sooner(a, b) == a[1] < b[1] \/ (a[1] = b[1] /\ a[2] < b[2])

\* Where the source tree itself declares the package.
LocatedAt(edges, key) ==
  {e \in edges : e.parent = RootKey /\ e.child = key /\ e.location # {}}

\* The first such place.  A lockfile's edges to one package have one place.
FirstLocation(edges, key) ==
  UNION {e.location : e \in {e \in LocatedAt(edges, key) :
                              \A f \in LocatedAt(edges, key) : ~ Sooner(f.at, e.at)}}

\* The nodes: [key -> [deps, location]].
Nodes(edges) ==
  [key \in {RootKey} \cup UNION {{e.parent, e.child} : e \in edges} |->
     [deps |-> {e.child : e \in {e \in edges : e.parent = key}},
      location |-> FirstLocation(edges, key)]]

-------------------------------------------------------------------------------
(* Identifiers.  A node is published under its purl only when that converts    *)
(* back to the node's key, so no two nodes claim one purl.                     *)

NodePURL(key) == PurlOf[key]

StableNodePURL(key) == {p \in NodePURL(key) : KeyOfPurl[p] = key}

RefOf(key) ==
  IF StableNodePURL(key) # {} THEN [purl |-> CHOOSE p \in StableNodePURL(key) : TRUE]
                              ELSE [key |-> key]

\* The key of an element: the one its reference encodes, else that of its purl.
ResolveRef(ref, purl) ==
  IF "key" \in DOMAIN ref THEN {ref.key} ELSE {KeyOfPurl[p] : p \in purl}

-------------------------------------------------------------------------------
(* SPDX 3.0: packages and relationships.                                       *)

SpdxDocument(nodes) ==
  [root |-> RefOf(RootKey),
   packages |-> {[ref |-> RefOf(key), purl |-> NodePURL(key)] : key \in DOMAIN nodes},
   dependsOn |-> UNION {{[from |-> RefOf(key), to |-> RefOf(d)] : d \in nodes[key].deps} :
                          key \in DOMAIN nodes},
   manifestOf |-> UNION {{[from |-> RefOf(key), to |-> l] : l \in nodes[key].location} :
                           key \in DOMAIN nodes}]

\* What the root depends on; without any such edge every package.
SpdxRootChildren(doc) ==
  LET direct == {r.to : r \in {r \in doc.dependsOn : r.from = doc.root}}
  IN  IF direct # {} THEN direct ELSE {p.ref : p \in doc.packages} \ {doc.root}

SpdxLocation(doc, ref) == {r.to : r \in {r \in doc.manifestOf : r.from = ref}}

SpdxDirectDeps(doc) ==
  UNION {{[key |-> key, location |-> SpdxLocation(doc, p.ref)] : key \in ResolveRef(p.ref, p.purl)} :
           p \in {p \in doc.packages : p.ref \in SpdxRootChildren(doc)}}

(* CycloneDX 1.6: components with their occurrence, and dependencies.          *)

CdxDocument(nodes) ==
  [root |-> RefOf(RootKey),
   components |-> {[ref |-> RefOf(key), purl |-> NodePURL(key), occurrences |-> nodes[key].location] :
                     key \in DOMAIN nodes},
   dependencies |-> {[ref |-> RefOf(key), dependsOn |-> {RefOf(d) : d \in nodes[key].deps}] :
                       key \in DOMAIN nodes}]

CdxDependedOn(doc) == UNION {d.dependsOn : d \in doc.dependencies}

\* Without an edge from the root: the components nothing else depends on.
CdxRootRefs(doc) ==
  LET direct == UNION {d.dependsOn : d \in {d \in doc.dependencies : d.ref = doc.root}}
  IN  IF direct # {} THEN direct
      ELSE {c.ref : c \in doc.components} \ (CdxDependedOn(doc) \cup {doc.root})

CdxDirectDeps(doc) ==
  UNION {{[key |-> key, location |-> c.occurrences] : key \in ResolveRef(c.ref, c.purl)} :
           c \in {c \in doc.components : c.ref \in CdxRootRefs(doc)}}

-------------------------------------------------------------------------------
\* The direct dependencies, each with its location, as read from the document.
DirectDeps(manifests, ignored, format) ==
  LET nodes == Nodes(Edges(manifests, KeptManifests(manifests, ignored)))
  IN  IF format = "spdx" THEN SpdxDirectDeps(SpdxDocument(nodes))
                         ELSE CdxDirectDeps(CdxDocument(nodes))

Keys(deps) == {d.key : d \in deps}

LocationOf(deps, key) == UNION {d.location : d \in {d \in deps : d.key = key}}
=============================================================================

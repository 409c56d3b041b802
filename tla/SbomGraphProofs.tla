-------------------------- MODULE SbomGraphProofs --------------------------
(* Proofs about SbomGraph, for any keys, purls and graphs: identifiers tell    *)
(* nodes apart, and either format of the document gives back exactly what the  *)
(* root depends on, each at its own line.                                      *)
EXTENDS SbomGraph, TLAPS

\* A graph as buildSBOMNodes makes it: closed under dependencies, each node
\* with at most one purl.
IsGraph(nodes) ==
  /\ RootKey \in DOMAIN nodes
  /\ \A key \in DOMAIN nodes : nodes[key].deps \subseteq DOMAIN nodes
  /\ \A key \in DOMAIN nodes : \A p, q \in PurlOf[key] : p = q

\* What a reader should find: the root's dependencies with their lines.
Expected(nodes) ==
  {[key |-> key, location |-> nodes[key].location] : key \in nodes[RootKey].deps}

LEMMA RefForms ==
  ASSUME NEW key
  PROVE  \/ /\ \E p \in NodePURL(key) : KeyOfPurl[p] = key /\ RefOf(key) = [purl |-> p]
            /\ "key" \notin DOMAIN RefOf(key)
         \/ /\ RefOf(key) = [key |-> key] /\ "key" \in DOMAIN RefOf(key)
            /\ "purl" \notin DOMAIN RefOf(key)
<1>1. CASE StableNodePURL(key) # {}
  <2>1. PICK p \in StableNodePURL(key) : RefOf(key) = [purl |-> p]
    BY <1>1 DEF RefOf
  <2>2. p \in NodePURL(key) /\ KeyOfPurl[p] = key
    BY <2>1 DEF StableNodePURL
  <2> QED BY <2>1, <2>2
<1>2. CASE StableNodePURL(key) = {}
  BY <1>2 DEF RefOf
<1> QED BY <1>1, <1>2

\* No two nodes are published under one identifier (sbomkey.go:48): a purl is
\* used only by the node that it converts back to.
THEOREM RefsTellNodesApart ==
  ASSUME NEW a, NEW b, RefOf(a) = RefOf(b)
  PROVE  a = b
<1>0. \A x, y : /\ [key |-> x] = [key |-> y] => x = y
               /\ [purl |-> x] = [purl |-> y] => x = y
  <2>1. \A x : [key |-> x].key = x /\ [purl |-> x].purl = x
    OBVIOUS
  <2> QED BY <2>1
<1>1. CASE RefOf(a) = [key |-> a] /\ RefOf(b) = [key |-> b]
  BY <1>0, <1>1
<1>2. CASE "key" \notin DOMAIN RefOf(a)
  <2>1. PICK p : KeyOfPurl[p] = a /\ RefOf(a) = [purl |-> p]
    BY <1>2, RefForms
  <2>2. PICK q : KeyOfPurl[q] = b /\ RefOf(b) = [purl |-> q]
    BY <1>2, RefForms
  <2>3. p = q
    BY <1>0, <2>1, <2>2
  <2> QED BY <2>1, <2>2, <2>3
<1>3. CASE "key" \in DOMAIN RefOf(a)
  BY <1>1, <1>3, RefForms
<1> QED BY <1>2, <1>3

\* Reading an element gives back the key of the node it was written for.
LEMMA KeyReadBack ==
  ASSUME NEW nodes, IsGraph(nodes), NEW key \in DOMAIN nodes
  PROVE  ResolveRef(RefOf(key), NodePURL(key)) = {key}
<1>1. CASE "key" \in DOMAIN RefOf(key)
  <2>1. RefOf(key) = [key |-> key]
    BY <1>1, RefForms
  <2> QED BY <1>1, <2>1 DEF ResolveRef
<1>2. CASE "key" \notin DOMAIN RefOf(key)
  <2>1. PICK p \in NodePURL(key) : KeyOfPurl[p] = key
    BY <1>2, RefForms
  <2>2. \A q \in NodePURL(key) : q = p
    BY <2>1 DEF IsGraph, NodePURL
  <2>3. {KeyOfPurl[q] : q \in NodePURL(key)} = {key}
    BY <2>1, <2>2
  <2> QED BY <1>2, <2>3 DEF ResolveRef
<1> QED BY <1>1, <1>2

LEMMA SpdxRoot ==
  ASSUME NEW nodes, IsGraph(nodes), nodes[RootKey].deps # {}
  PROVE  SpdxRootChildren(SpdxDocument(nodes)) = {RefOf(d) : d \in nodes[RootKey].deps}
<1> DEFINE doc == SpdxDocument(nodes)
           direct == {r.to : r \in {r \in doc.dependsOn : r.from = doc.root}}
<1>1. /\ doc.root = RefOf(RootKey)
      /\ doc.dependsOn = UNION {{[from |-> RefOf(key), to |-> RefOf(d)] : d \in nodes[key].deps} :
                                  key \in DOMAIN nodes}
  BY DEF SpdxDocument
<1>2. ASSUME NEW x \in direct
      PROVE  x \in {RefOf(d) : d \in nodes[RootKey].deps}
  <2>1. PICK r \in doc.dependsOn : r.from = RefOf(RootKey) /\ x = r.to
    BY <1>1
  <2>2. PICK key \in DOMAIN nodes : \E d \in nodes[key].deps : r = [from |-> RefOf(key), to |-> RefOf(d)]
    BY <1>1
  <2>3. key = RootKey
    BY <2>1, <2>2, RefsTellNodesApart
  <2> QED BY <2>1, <2>2, <2>3
<1>3. ASSUME NEW d \in nodes[RootKey].deps
      PROVE  RefOf(d) \in direct
  <2>1. [from |-> RefOf(RootKey), to |-> RefOf(d)] \in doc.dependsOn
    BY <1>1 DEF IsGraph
  <2>2. [from |-> RefOf(RootKey), to |-> RefOf(d)] \in {r \in doc.dependsOn : r.from = doc.root}
    BY <1>1, <2>1
  <2> QED BY <2>2
<1>4. direct = {RefOf(d) : d \in nodes[RootKey].deps}
  BY <1>2, <1>3
<1>5. direct # {}
  BY <1>4
<1> QED BY <1>4, <1>5 DEF SpdxRootChildren

LEMMA SpdxLine ==
  ASSUME NEW nodes, IsGraph(nodes), NEW key \in DOMAIN nodes
  PROVE  SpdxLocation(SpdxDocument(nodes), RefOf(key)) = nodes[key].location
<1> DEFINE doc == SpdxDocument(nodes)
           lines == {r.to : r \in {r \in doc.manifestOf : r.from = RefOf(key)}}
<1>1. doc.manifestOf = UNION {{[from |-> RefOf(k), to |-> l] : l \in nodes[k].location} :
                                k \in DOMAIN nodes}
  BY DEF SpdxDocument
<1>2. ASSUME NEW x \in lines
      PROVE  x \in nodes[key].location
  <2>1. PICK r \in doc.manifestOf : r.from = RefOf(key) /\ x = r.to
    OBVIOUS
  <2>2. PICK k \in DOMAIN nodes : \E l \in nodes[k].location : r = [from |-> RefOf(k), to |-> l]
    BY <1>1
  <2>3. k = key
    BY <2>1, <2>2, RefsTellNodesApart
  <2> QED BY <2>1, <2>2, <2>3
<1>3. ASSUME NEW l \in nodes[key].location
      PROVE  l \in lines
  <2>1. [from |-> RefOf(key), to |-> l] \in doc.manifestOf
    BY <1>1
  <2>2. [from |-> RefOf(key), to |-> l] \in {r \in doc.manifestOf : r.from = RefOf(key)}
    BY <2>1
  <2> QED BY <2>2
<1>4. lines = nodes[key].location
  BY <1>2, <1>3
<1> QED BY <1>4 DEF SpdxLocation

\* An SPDX document gives back the root's dependencies, with their lines.
THEOREM SpdxReadsBack ==
  ASSUME NEW nodes, IsGraph(nodes), nodes[RootKey].deps # {}
  PROVE  SpdxDirectDeps(SpdxDocument(nodes)) = Expected(nodes)
<1> DEFINE doc == SpdxDocument(nodes)
           children == SpdxRootChildren(doc)
           read(p) == {[key |-> key, location |-> SpdxLocation(doc, p.ref)] : key \in ResolveRef(p.ref, p.purl)}
<1>1. /\ doc.packages = {[ref |-> RefOf(key), purl |-> NodePURL(key)] : key \in DOMAIN nodes}
      /\ children = {RefOf(d) : d \in nodes[RootKey].deps}
      /\ nodes[RootKey].deps \subseteq DOMAIN nodes
  BY SpdxRoot DEF SpdxDocument, IsGraph
<1>2. ASSUME NEW key \in DOMAIN nodes
      PROVE  read([ref |-> RefOf(key), purl |-> NodePURL(key)])
               = {[key |-> key, location |-> nodes[key].location]}
  BY SpdxLine, KeyReadBack
<1>3. ASSUME NEW x \in SpdxDirectDeps(doc)
      PROVE  x \in Expected(nodes)
  <2>1. PICK p \in doc.packages : p.ref \in children /\ x \in read(p)
    BY DEF SpdxDirectDeps
  <2>2. PICK key \in DOMAIN nodes : p = [ref |-> RefOf(key), purl |-> NodePURL(key)]
    BY <1>1
  <2>3. key \in nodes[RootKey].deps
    BY <1>1, <2>1, <2>2, RefsTellNodesApart
  <2> QED BY <1>2, <2>1, <2>2, <2>3 DEF Expected
<1>4. ASSUME NEW key \in nodes[RootKey].deps
      PROVE  [key |-> key, location |-> nodes[key].location] \in SpdxDirectDeps(doc)
  <2> DEFINE p == [ref |-> RefOf(key), purl |-> NodePURL(key)]
  <2>1. p \in doc.packages /\ p.ref \in children /\ key \in DOMAIN nodes
    BY <1>1
  <2>2. [key |-> key, location |-> nodes[key].location] \in read(p)
    BY <1>2, <2>1
  <2> HIDE DEF p
  <2> QED BY <2>1, <2>2 DEF SpdxDirectDeps
<1> QED BY <1>3, <1>4 DEF Expected

LEMMA CdxRoot ==
  ASSUME NEW nodes, IsGraph(nodes), nodes[RootKey].deps # {}
  PROVE  CdxRootRefs(CdxDocument(nodes)) = {RefOf(d) : d \in nodes[RootKey].deps}
<1> DEFINE doc == CdxDocument(nodes)
           entry(key) == [ref |-> RefOf(key), dependsOn |-> {RefOf(d) : d \in nodes[key].deps}]
           roots == {d \in doc.dependencies : d.ref = doc.root}
           direct == UNION {d.dependsOn : d \in roots}
<1>1. doc.root = RefOf(RootKey) /\ doc.dependencies = {entry(key) : key \in DOMAIN nodes}
  BY DEF CdxDocument
<1>2. \A key : entry(key).ref = RefOf(key)
                /\ entry(key).dependsOn = {RefOf(d) : d \in nodes[key].deps}
  OBVIOUS
<1> HIDE DEF entry
<1>3. roots = {entry(RootKey)}
  <2>1. ASSUME NEW d \in roots
        PROVE  d = entry(RootKey)
    <3>1. PICK key \in DOMAIN nodes : d = entry(key)
      BY <1>1
    <3>2. RefOf(key) = RefOf(RootKey)
      BY <1>1, <1>2, <3>1
    <3> QED BY <3>1, <3>2, RefsTellNodesApart
  <2>2. entry(RootKey) \in roots
    BY <1>1, <1>2 DEF IsGraph
  <2> QED BY <2>1, <2>2
<1>4. direct = {RefOf(d) : d \in nodes[RootKey].deps}
  BY <1>2, <1>3
<1>5. direct # {}
  BY <1>4
<1> QED BY <1>4, <1>5 DEF CdxRootRefs

\* A CycloneDX document gives back the same dependencies and lines as an SPDX one.
THEOREM CdxReadsBack ==
  ASSUME NEW nodes, IsGraph(nodes), nodes[RootKey].deps # {}
  PROVE  CdxDirectDeps(CdxDocument(nodes)) = Expected(nodes)
<1> DEFINE doc == CdxDocument(nodes)
           refs == CdxRootRefs(doc)
           part(key) == [ref |-> RefOf(key), purl |-> NodePURL(key), occurrences |-> nodes[key].location]
           read(c) == {[key |-> key, location |-> c.occurrences] : key \in ResolveRef(c.ref, c.purl)}
<1>1. /\ doc.components = {part(key) : key \in DOMAIN nodes}
      /\ refs = {RefOf(d) : d \in nodes[RootKey].deps}
      /\ nodes[RootKey].deps \subseteq DOMAIN nodes
  BY CdxRoot DEF CdxDocument, IsGraph
<1>2. ASSUME NEW key \in DOMAIN nodes
      PROVE  /\ read(part(key)) = {[key |-> key, location |-> nodes[key].location]}
             /\ part(key).ref = RefOf(key)
  BY KeyReadBack
<1> HIDE DEF part
<1>3. ASSUME NEW x \in CdxDirectDeps(doc)
      PROVE  x \in Expected(nodes)
  <2>1. PICK c \in doc.components : c.ref \in refs /\ x \in read(c)
    BY DEF CdxDirectDeps
  <2>2. PICK key \in DOMAIN nodes : c = part(key)
    BY <1>1
  <2>3. key \in nodes[RootKey].deps
    BY <1>1, <1>2, <2>1, <2>2, RefsTellNodesApart
  <2>4. x = [key |-> key, location |-> nodes[key].location]
    BY <1>2, <2>1, <2>2
  <2> QED BY <2>3, <2>4 DEF Expected
<1>4. ASSUME NEW key \in nodes[RootKey].deps
      PROVE  [key |-> key, location |-> nodes[key].location] \in CdxDirectDeps(doc)
  <2>1. part(key) \in doc.components /\ part(key).ref \in refs /\ key \in DOMAIN nodes
    BY <1>1, <1>2
  <2>2. [key |-> key, location |-> nodes[key].location] \in read(part(key))
    BY <1>2, <2>1
  <2> QED BY <2>1, <2>2 DEF CdxDirectDeps
<1> QED BY <1>3, <1>4 DEF Expected

\* Without a dependency of the root, whatever is read is some other node.
LEMMA SpdxReadsNodes ==
  ASSUME NEW nodes, IsGraph(nodes), RootKey \notin nodes[RootKey].deps,
         NEW d \in SpdxDirectDeps(SpdxDocument(nodes))
  PROVE  d.key \in DOMAIN nodes \ {RootKey}
<1> DEFINE doc == SpdxDocument(nodes)
           direct == {r.to : r \in {r \in doc.dependsOn : r.from = doc.root}}
<1>1. CASE nodes[RootKey].deps # {}
  BY <1>1, SpdxReadsBack DEF Expected, IsGraph
<1>2. CASE nodes[RootKey].deps = {}
  <2>1. /\ doc.root = RefOf(RootKey)
        /\ doc.packages = {[ref |-> RefOf(key), purl |-> NodePURL(key)] : key \in DOMAIN nodes}
        /\ doc.dependsOn = UNION {{[from |-> RefOf(key), to |-> RefOf(e)] : e \in nodes[key].deps} :
                                    key \in DOMAIN nodes}
    BY DEF SpdxDocument
  <2>2. direct = {}
    <3>1. SUFFICES ASSUME NEW r \in doc.dependsOn, r.from = doc.root PROVE FALSE
      OBVIOUS
    <3>2. PICK key \in DOMAIN nodes : \E e \in nodes[key].deps : r = [from |-> RefOf(key), to |-> RefOf(e)]
      BY <2>1
    <3>3. key = RootKey
      BY <2>1, <3>1, <3>2, RefsTellNodesApart
    <3> QED BY <1>2, <3>2, <3>3
  <2>3. SpdxRootChildren(doc) = {p.ref : p \in doc.packages} \ {doc.root}
    BY <2>2 DEF SpdxRootChildren
  <2>4. PICK p \in doc.packages : /\ p.ref \in SpdxRootChildren(doc)
                                 /\ \E key \in ResolveRef(p.ref, p.purl) : d.key = key
    BY DEF SpdxDirectDeps
  <2>5. PICK key \in DOMAIN nodes : p = [ref |-> RefOf(key), purl |-> NodePURL(key)]
    BY <2>1, <2>4
  <2>6. d.key = key /\ RefOf(key) # RefOf(RootKey)
    BY <2>1, <2>3, <2>4, <2>5, KeyReadBack
  <2> QED BY <2>6
<1> QED BY <1>1, <1>2

LEMMA CdxReadsNodes ==
  ASSUME NEW nodes, IsGraph(nodes), RootKey \notin nodes[RootKey].deps,
         NEW d \in CdxDirectDeps(CdxDocument(nodes))
  PROVE  d.key \in DOMAIN nodes \ {RootKey}
<1> DEFINE doc == CdxDocument(nodes)
           entry(key) == [ref |-> RefOf(key), dependsOn |-> {RefOf(e) : e \in nodes[key].deps}]
           direct == UNION {e.dependsOn : e \in {e \in doc.dependencies : e.ref = doc.root}}
<1>1. CASE nodes[RootKey].deps # {}
  BY <1>1, CdxReadsBack DEF Expected, IsGraph
<1>2. CASE nodes[RootKey].deps = {}
  <2>1. /\ doc.root = RefOf(RootKey)
        /\ doc.components = {[ref |-> RefOf(key), purl |-> NodePURL(key), occurrences |-> nodes[key].location] :
                               key \in DOMAIN nodes}
        /\ doc.dependencies = {entry(key) : key \in DOMAIN nodes}
    BY DEF CdxDocument
  <2>2. direct = {}
    <3>1. SUFFICES ASSUME NEW e \in doc.dependencies, e.ref = doc.root PROVE e.dependsOn = {}
      OBVIOUS
    <3>2. PICK key \in DOMAIN nodes : e = entry(key)
      BY <2>1
    <3>3. key = RootKey
      BY <2>1, <3>1, <3>2, RefsTellNodesApart
    <3> QED BY <1>2, <3>2, <3>3
  <2>3. CdxRootRefs(doc) = {c.ref : c \in doc.components} \ (CdxDependedOn(doc) \cup {doc.root})
    BY <2>2 DEF CdxRootRefs
  <2>4. PICK c \in doc.components : /\ c.ref \in CdxRootRefs(doc)
                                   /\ \E key \in ResolveRef(c.ref, c.purl) : d.key = key
    BY DEF CdxDirectDeps
  <2>5. PICK key \in DOMAIN nodes :
          c = [ref |-> RefOf(key), purl |-> NodePURL(key), occurrences |-> nodes[key].location]
    BY <2>1, <2>4
  <2>6. d.key = key /\ RefOf(key) # RefOf(RootKey)
    BY <2>1, <2>3, <2>4, <2>5, KeyReadBack
  <2> QED BY <2>6
<1> QED BY <1>1, <1>2

LEMMA NodesAreAGraph ==
  ASSUME NEW edges, DOMAIN Nodes(edges) \subseteq DOMAIN PurlOf
  PROVE  IsGraph(Nodes(edges))
<1> DEFINE nodes == Nodes(edges)
<1>1. DOMAIN nodes = {RootKey} \cup UNION {{e.parent, e.child} : e \in edges}
  BY DEF Nodes
<1>2. \A key \in DOMAIN nodes :
        nodes[key].deps = {e.child : e \in {e \in edges : e.parent = key}}
  BY DEF Nodes
<1>3. ASSUME NEW key \in DOMAIN nodes, NEW d \in nodes[key].deps
      PROVE  d \in DOMAIN nodes
  <2>1. PICK e \in edges : d = e.child
    BY <1>2
  <2> QED BY <1>1, <2>1
<1>4. RootKey \in DOMAIN nodes
  BY <1>1
<1>5. \A key \in DOMAIN nodes : \A p, q \in PurlOf[key] : p = q
  BY PurlAssumption
<1> QED BY <1>3, <1>4, <1>5 DEF IsGraph

\* Which format the document has makes no difference to what is audited and to
\* where it is reported, as long as the root depends on anything at all
\* (reader.go:39); without any edge from the root the two readers differ.
THEOREM FormatsAgree ==
  ASSUME NEW manifests, NEW ignored,
         DOMAIN Nodes(Edges(manifests, KeptManifests(manifests, ignored))) \subseteq DOMAIN PurlOf,
         Nodes(Edges(manifests, KeptManifests(manifests, ignored)))[RootKey].deps # {}
  PROVE  DirectDeps(manifests, ignored, "spdx") = DirectDeps(manifests, ignored, "cyclonedx")
<1> DEFINE nodes == Nodes(Edges(manifests, KeptManifests(manifests, ignored)))
<1>1. IsGraph(nodes)
  BY NodesAreAGraph
<1>2. DirectDeps(manifests, ignored, "spdx") = SpdxDirectDeps(SpdxDocument(nodes))
  BY DEF DirectDeps
<1>3. DirectDeps(manifests, ignored, "cyclonedx") = CdxDirectDeps(CdxDocument(nodes))
  BY DEF DirectDeps
<1> HIDE DEF nodes
<1> QED BY <1>1, <1>2, <1>3, SpdxReadsBack, CdxReadsBack DEF nodes
=============================================================================

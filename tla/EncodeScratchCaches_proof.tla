----------------------- MODULE EncodeScratchCaches_proof -----------------------
(***************************************************************************)
(* The caches never give an encode anything stale: for any number of       *)
(* goroutines, scratches, meshes, faces and points, whatever is edited     *)
(* between two encodes and wherever an encode gives up.                    *)
(***************************************************************************)
EXTENDS EncodeScratchCaches, SequenceTheorems, TLAPS

-----------------------------------------------------------------------------
(* The inductive invariant.                                                *)

(* Two geometries have an attribute in common.                             *)
Shares(g, h) ==
  \E i \in DOMAIN g.attributes, j \in DOMAIN h.attributes :
    g.attributes[i].pointer = h.attributes[j].pointer

(* All that happened to the faces and points of g on the way to h is that  *)
(* faces were appended.                                                    *)
GrewInto(g, h) ==
  /\ g.numPoints = h.numPoints
  /\ Len(g.faces) <= Len(h.faces)
  /\ \A i \in 1 .. Len(g.faces) : g.faces[i] = h.faces[i]

PointersMade(g) == \A i \in DOMAIN g.attributes : g.attributes[i].pointer <= pointersMade

(* The geometry g an entry was made from is of some use: as long as mesh m *)
(* keeps one of its attributes, no face it had was changed and no point    *)
(* was added or removed.                                                   *)
Recognizable(m, g) ==
  /\ HasPosition(g)
  /\ PointersMade(g)
  /\ Shares(g, geometry[m]) => GrewInto(g, geometry[m])

(* An entry is filed under the key of the geometry it was made from, and   *)
(* holds what an encode would make of that geometry.                       *)
CanonicalEntryOK(entry) ==
  LET g == entry.value.of  m == entry.key.mesh IN
  /\ entry.key = KeyOf(m, g)
  /\ entry.value = WorkingFaces(g, TRUE)
  /\ Recognizable(m, g)

BaseEntryOK(entry) ==
  LET g == entry.value.of  m == entry.key.mesh.mesh IN
  /\ entry.key.mesh = KeyOf(m, g)
  /\ entry.value = BaseTable(g, WorkingFaces(g, entry.key.facesCanonical),
                             entry.key.splitOnSeams)
  /\ Recognizable(m, g)

MappingEntryOK(entry) ==
  LET g == entry.value.of  m == entry.key.mesh.mesh IN
  /\ entry.key.mesh = KeyOf(m, g)
  /\ entry.value =
       PointMapping(g, BaseTable(g, WorkingFaces(g, entry.key.facesCanonical),
                                 entry.key.splitOnSeams), FALSE)
  /\ Recognizable(m, g)

CanonicalOK == \A s \in Scratches : canonicalCache[s] # None => CanonicalEntryOK(canonicalCache[s])
BaseOK == \A s \in Scratches : baseCache[s] # None => BaseEntryOK(baseCache[s])
MappingOK ==
  \A s \in Scratches : decodedMappingCache[s] # None => MappingEntryOK(decodedMappingCache[s])

MeshesOK == \A m \in Meshes : PointersMade(geometry[m])

EncodedMeshesOK ==
  \A e \in Encoders : encode[e].step # "idle" => HasPosition(geometry[encode[e].mesh])

CacheInv ==
  /\ TypeOK /\ MeshesOK /\ EncodedMeshesOK
  /\ CanonicalOK /\ BaseOK /\ MappingOK
  /\ FacesAreCurrent /\ TableIsCurrent /\ MappingIsCurrent

-----------------------------------------------------------------------------

(* An entry whose key matches the mesh as it is now was made from the mesh *)
(* as it is now.                                                           *)
LEMMA SameKeySameMesh ==
  ASSUME NEW m \in Meshes, NEW g \in Geometry, NEW h \in Geometry,
         HasPosition(g), Shares(g, h) => GrewInto(g, h), KeyOf(m, g) = KeyOf(m, h)
  PROVE  g = h
<1>1. /\ g.attributes = h.attributes
      /\ Len(g.faces) = Len(h.faces)
      /\ g.numPoints = h.numPoints
  BY DEF KeyOf
<1>2. Shares(g, h)
  BY <1>1 DEF Shares, HasPosition
<1>3. g.faces = h.faces
  <2>1. g.faces \in Seq(Faces) /\ h.faces \in Seq(Faces)
    BY DEF Geometry
  <2>2. \A i \in 1 .. Len(g.faces) : g.faces[i] = h.faces[i]
    BY <1>2 DEF GrewInto
  <2> QED
    BY <1>1, <2>1, <2>2, SeqEqual
<1> QED
  BY <1>1, <1>3 DEF Geometry

(* What every method of a mesh does: it appends faces and keeps            *)
(* attributes, or it replaces every attribute by a new one.                *)
Edited(m) ==
  /\ geometry' = [geometry EXCEPT ![m] = geometry'[m]]
  /\ geometry'[m] \in Geometry
  /\ pointersMade' \in pointersMade .. MaxPointers
  /\ PointersMade(geometry[m])'
  /\ \A i \in DOMAIN geometry'[m].attributes :
       \/ geometry'[m].attributes[i].pointer > pointersMade
       \/ /\ GrewInto(geometry[m], geometry'[m])
          /\ \E j \in DOMAIN geometry[m].attributes :
               geometry'[m].attributes[i].pointer = geometry[m].attributes[j].pointer
  /\ ~ BeingEncoded(m)
  /\ UNCHANGED <<pool, canonicalCache, baseCache, decodedMappingCache, encode>>

(* A function on 1 .. n with values in S is a sequence over S.             *)
LEMMA FunctionIsSequence ==
  ASSUME NEW S, NEW n \in Nat, NEW f \in [1 .. n -> S]
  PROVE  f \in Seq(S)
  OBVIOUS

LEMMA FreshAttributes ==
  ASSUME BoundsAssumption, pointersMade \in 0 .. MaxPointers,
         NEW types \in Seq(AttributeTypes), pointersMade + Len(types) <= MaxPointers
  PROVE  /\ Fresh(types) \in Seq(Attributes)
         /\ Len(Fresh(types)) = Len(types)
         /\ \A i \in DOMAIN Fresh(types) :
              /\ Fresh(types)[i].pointer > pointersMade
              /\ Fresh(types)[i].pointer <= pointersMade + Len(types)
<1>1. DOMAIN types = 1 .. Len(types) /\ Len(types) \in Nat
  OBVIOUS
<1>2. \A i \in 1 .. Len(types) :
        [pointer |-> pointersMade + i, type |-> types[i]] \in Attributes
  BY <1>1 DEF Attributes, BoundsAssumption
<1>3. Fresh(types) \in [1 .. Len(types) -> Attributes]
  BY <1>1, <1>2 DEF Fresh
<1>4. Fresh(types) \in Seq(Attributes) /\ Len(Fresh(types)) = Len(types)
  BY <1>1, <1>3, LenProperties
<1>5. \A i \in DOMAIN Fresh(types) :
        Fresh(types)[i].pointer = pointersMade + i /\ i \in 1 .. Len(types)
  BY <1>1 DEF Fresh
<1> QED
  BY <1>1, <1>4, <1>5 DEF BoundsAssumption

LEMMA RebuildEdits ==
  ASSUME BoundsAssumption, TypeOK, NEW m \in Meshes, NEW faces \in Seq(Faces), NEW n \in 0 .. MaxPoints,
         NEW types \in Seq(AttributeTypes), Rebuild(m, faces, n, types)
  PROVE  Edited(m)
<1>1. pointersMade \in 0 .. MaxPointers /\ MaxPointers \in Nat /\ Len(types) \in Nat
      /\ geometry \in [Meshes -> Geometry]
  BY DEF TypeOK, BoundsAssumption
<1>2. /\ pointersMade' = pointersMade + Len(types)
      /\ pointersMade + Len(types) <= MaxPointers
      /\ Edit(m, faces, n, Fresh(types))
  BY DEF Rebuild, CopiesOf
<1> DEFINE new == [faces |-> faces, numPoints |-> n, attributes |-> Fresh(types)]
<1>3. /\ Fresh(types) \in Seq(Attributes)
      /\ \A i \in DOMAIN Fresh(types) :
           /\ Fresh(types)[i].pointer > pointersMade
           /\ Fresh(types)[i].pointer <= pointersMade + Len(types)
  BY <1>1, <1>2, FreshAttributes
<1>4. /\ geometry' = [geometry EXCEPT ![m] = new] /\ geometry'[m] = new
      /\ ~ BeingEncoded(m)
      /\ UNCHANGED <<pool, canonicalCache, baseCache, decodedMappingCache, encode>>
  BY <1>1, <1>2 DEF Edit
<1>5. new \in Geometry
  BY <1>3 DEF Geometry
<1>6. PointersMade(geometry[m])'
  BY <1>2, <1>3, <1>4 DEF PointersMade
<1>7. \A i \in DOMAIN new.attributes : new.attributes[i].pointer > pointersMade
  BY <1>3
<1>8. pointersMade' \in pointersMade .. MaxPointers
  BY <1>1, <1>2
<1> HIDE DEF new
<1> QED
  BY <1>4, <1>5, <1>6, <1>7, <1>8 DEF Edited

LEMMA MeshParts ==
  ASSUME TypeOK, NEW m \in Meshes
  PROVE  /\ geometry[m].faces \in Seq(Faces)
         /\ geometry[m].numPoints \in 0 .. MaxPoints
         /\ geometry[m].attributes \in Seq(Attributes)
         /\ TypesOf(geometry[m].attributes) \in Seq(AttributeTypes)
         /\ DOMAIN geometry[m].faces = 1 .. Len(geometry[m].faces)
         /\ Len(geometry[m].faces) \in Nat
<1>1. geometry[m] \in Geometry
  BY DEF TypeOK
<1>2. /\ geometry[m].faces \in Seq(Faces)
      /\ geometry[m].numPoints \in 0 .. MaxPoints
      /\ geometry[m].attributes \in Seq(Attributes)
  BY <1>1 DEF Geometry
<1>3. \A i \in DOMAIN geometry[m].attributes : geometry[m].attributes[i] \in Attributes
  BY <1>2, ElementOfSeq, LenProperties
<1>4. \A i \in DOMAIN geometry[m].attributes :
        geometry[m].attributes[i].type \in AttributeTypes
  BY <1>3 DEF Attributes
<1>5. TypesOf(geometry[m].attributes)
        \in [1 .. Len(geometry[m].attributes) -> AttributeTypes]
  BY <1>2, <1>4, LenProperties DEF TypesOf
<1> QED
  BY <1>2, <1>5, LenProperties

(* One action of Next on the mesh m.                                       *)
EditStep(m) ==
  \/ \E f \in Faces : AddFace(m, f)
  \/ \E t \in AttributeTypes : AddAttribute(m, t) \/ AddAttributeWithConnectivity(m, t)
  \/ \E i \in DOMAIN geometry[m].attributes : DeleteAttribute(m, i)
  \/ RemoveIsolatedPoints(m)
  \/ Cleanup(m)

LEMMA EditsAreEdits ==
  ASSUME BoundsAssumption, TypeOK, MeshesOK, NEW m \in Meshes, EditStep(m)
  PROVE  Edited(m)
<1> DEFINE g == geometry[m]
<1>1. /\ geometry \in [Meshes -> Geometry] /\ pointersMade \in 0 .. MaxPointers
      /\ MaxPointers \in Nat /\ MaxPoints \in Nat /\ PointersMade(g)
  BY DEF TypeOK, MeshesOK, BoundsAssumption
<1>2. /\ g.faces \in Seq(Faces) /\ g.numPoints \in 0 .. MaxPoints
      /\ g.attributes \in Seq(Attributes) /\ TypesOf(g.attributes) \in Seq(AttributeTypes)
      /\ DOMAIN g.faces = 1 .. Len(g.faces) /\ Len(g.faces) \in Nat
  BY MeshParts
<1>3. ASSUME NEW f \in Faces, AddFace(m, f) PROVE Edited(m)
  <2> DEFINE new == [faces |-> Append(g.faces, f), numPoints |-> g.numPoints,
                     attributes |-> g.attributes]
  <2>1. /\ geometry' = [geometry EXCEPT ![m] = new] /\ geometry'[m] = new
        /\ pointersMade' = pointersMade /\ ~ BeingEncoded(m)
        /\ UNCHANGED <<pool, canonicalCache, baseCache, decodedMappingCache, encode>>
    BY <1>1, <1>3 DEF AddFace, Edit
  <2>2. /\ Append(g.faces, f) \in Seq(Faces) /\ Len(Append(g.faces, f)) = Len(g.faces) + 1
        /\ \A i \in 1 .. Len(g.faces) : Append(g.faces, f)[i] = g.faces[i]
    BY <1>2, AppendProperties
  <2>3. new \in Geometry
    BY <1>2, <2>2 DEF Geometry
  <2>4. GrewInto(g, new)
    BY <1>2, <2>2 DEF GrewInto
  <2>5. \A i \in DOMAIN new.attributes : \E j \in DOMAIN g.attributes :
          new.attributes[i].pointer = g.attributes[j].pointer
    OBVIOUS
  <2>6. PointersMade(geometry[m])'
    BY <1>1, <2>1 DEF PointersMade
  <2>7. pointersMade' \in pointersMade .. MaxPointers
    BY <1>1, <2>1
  <2> HIDE DEF new
  <2> QED
    BY <2>1, <2>3, <2>4, <2>5, <2>6, <2>7 DEF Edited
<1>4. ASSUME NEW t \in AttributeTypes, AddAttribute(m, t) PROVE Edited(m)
  <2> DEFINE fresh == Fresh(<<t>>)
             new == [faces |-> g.faces, numPoints |-> g.numPoints,
                     attributes |-> g.attributes \o fresh]
  <2>1. /\ pointersMade < MaxPointers /\ pointersMade' = pointersMade + 1
        /\ geometry' = [geometry EXCEPT ![m] = new] /\ geometry'[m] = new
        /\ ~ BeingEncoded(m)
        /\ UNCHANGED <<pool, canonicalCache, baseCache, decodedMappingCache, encode>>
    BY <1>1, <1>4 DEF AddAttribute, Edit
  <2>2. <<t>> \in Seq(AttributeTypes) /\ pointersMade + Len(<<t>>) = pointersMade + 1
    OBVIOUS
  <2>3. /\ fresh \in Seq(Attributes)
        /\ \A i \in DOMAIN fresh : /\ fresh[i].pointer > pointersMade
                                  /\ fresh[i].pointer <= pointersMade + 1
    <3>1. pointersMade + Len(<<t>>) <= MaxPointers
      BY <1>1, <2>1, <2>2
    <3>2. /\ fresh \in Seq(Attributes)
          /\ \A i \in DOMAIN fresh :
               fresh[i].pointer > pointersMade /\ fresh[i].pointer <= pointersMade + Len(<<t>>)
      BY <1>1, <2>2, <3>1, FreshAttributes
    <3> QED
      BY <2>2, <3>2
  <2> HIDE DEF fresh
  <2>4. /\ g.attributes \o fresh \in Seq(Attributes)
        /\ \A i \in DOMAIN (g.attributes \o fresh) :
             \/ \E j \in DOMAIN g.attributes : (g.attributes \o fresh)[i] = g.attributes[j]
             \/ \E j \in DOMAIN fresh : (g.attributes \o fresh)[i] = fresh[j]
    <3>1. /\ Len(g.attributes) \in Nat /\ DOMAIN g.attributes = 1 .. Len(g.attributes)
          /\ Len(fresh) \in Nat /\ DOMAIN fresh = 1 .. Len(fresh)
      BY <1>2, <2>3
    <3>2. /\ g.attributes \o fresh \in Seq(Attributes)
          /\ Len(g.attributes \o fresh) = Len(g.attributes) + Len(fresh)
          /\ \A i \in 1 .. Len(g.attributes) + Len(fresh) :
               (g.attributes \o fresh)[i] =
                 IF i <= Len(g.attributes) THEN g.attributes[i] ELSE fresh[i - Len(g.attributes)]
      BY <1>2, <2>3, ConcatProperties
    <3>3. DOMAIN (g.attributes \o fresh) = 1 .. Len(g.attributes) + Len(fresh)
      BY <3>2
    <3>4. ASSUME NEW i \in 1 .. Len(g.attributes) + Len(fresh)
          PROVE  \/ \E j \in DOMAIN g.attributes :
                        (g.attributes \o fresh)[i] = g.attributes[j]
                 \/ \E j \in DOMAIN fresh : (g.attributes \o fresh)[i] = fresh[j]
      <4>1. CASE i <= Len(g.attributes)
        BY <3>1, <3>2, <4>1
      <4>2. CASE ~ i <= Len(g.attributes)
        <5>1. i - Len(g.attributes) \in DOMAIN fresh
          BY <3>1, <4>2
        <5>2. (g.attributes \o fresh)[i] = fresh[i - Len(g.attributes)]
          BY <3>2, <4>2
        <5> QED
          BY <5>1, <5>2
      <4> QED
        BY <4>1, <4>2
    <3> QED
      BY <3>2, <3>3, <3>4
  <2>5. new \in Geometry
    BY <1>2, <2>4 DEF Geometry
  <2>6. GrewInto(g, new)
    BY <1>2 DEF GrewInto
  <2>7. \A i \in DOMAIN new.attributes :
          /\ \/ new.attributes[i].pointer > pointersMade
             \/ \E j \in DOMAIN g.attributes :
                  new.attributes[i].pointer = g.attributes[j].pointer
          /\ new.attributes[i].pointer <= pointersMade + 1
    <3>1. \A j \in DOMAIN g.attributes : g.attributes[j] \in Attributes
      BY <1>2, ElementOfSeq, LenProperties
    <3>2. \A j \in DOMAIN g.attributes : g.attributes[j].pointer \in Nat
      BY <1>1, <3>1 DEF Attributes
    <3>3. \A j \in DOMAIN g.attributes : g.attributes[j].pointer <= pointersMade + 1
      BY <1>1, <1>2, <3>2 DEF PointersMade
    <3> QED
      BY <2>3, <2>4, <3>3
  <2>8. PointersMade(geometry[m])'
    BY <2>1, <2>7 DEF PointersMade
  <2>9. pointersMade' \in pointersMade .. MaxPointers
    BY <1>1, <2>1
  <2> HIDE DEF new
  <2> QED
    BY <2>1, <2>5, <2>6, <2>7, <2>8, <2>9 DEF Edited
<1>5. ASSUME NEW i \in DOMAIN g.attributes, DeleteAttribute(m, i) PROVE Edited(m)
  <2> DEFINE kept == [j \in 1 .. Len(g.attributes) - 1 |->
                        g.attributes[IF j < i THEN j ELSE j + 1]]
             new == [faces |-> g.faces, numPoints |-> g.numPoints, attributes |-> kept]
  <2>1. /\ geometry' = [geometry EXCEPT ![m] = new] /\ geometry'[m] = new
        /\ pointersMade' = pointersMade /\ ~ BeingEncoded(m)
        /\ UNCHANGED <<pool, canonicalCache, baseCache, decodedMappingCache, encode>>
    BY <1>1, <1>5 DEF DeleteAttribute, Edit
  <2>2. Len(g.attributes) \in Nat \ {0} /\ DOMAIN g.attributes = 1 .. Len(g.attributes)
    BY <1>2
  <2>3. \A j \in 1 .. Len(g.attributes) - 1 :
          \E k \in DOMAIN g.attributes : kept[j] = g.attributes[k]
    <3> SUFFICES ASSUME NEW j \in 1 .. Len(g.attributes) - 1
                 PROVE  \E k \in DOMAIN g.attributes : kept[j] = g.attributes[k]
      OBVIOUS
    <3> DEFINE k == IF j < i THEN j ELSE j + 1
    <3>1. k \in DOMAIN g.attributes
      BY <2>2
    <3>2. kept[j] = g.attributes[k]
      OBVIOUS
    <3> HIDE DEF kept, k
    <3> QED
      BY <3>1, <3>2
  <2>4. kept \in [1 .. Len(g.attributes) - 1 -> Attributes]
    BY <1>2, <2>2
  <2>5. DOMAIN kept = 1 .. Len(g.attributes) - 1
    OBVIOUS
  <2> HIDE DEF kept
  <2>6. kept \in Seq(Attributes)
    BY <2>2, <2>4
  <2>7. new \in Geometry
    BY <1>2, <2>6 DEF Geometry
  <2>8. GrewInto(g, new)
    BY <1>2 DEF GrewInto
  <2>9. \A j \in DOMAIN new.attributes :
          /\ \E k \in DOMAIN g.attributes : new.attributes[j].pointer = g.attributes[k].pointer
          /\ new.attributes[j].pointer <= pointersMade
    BY <1>1, <2>3, <2>5 DEF PointersMade
  <2>10. PointersMade(geometry[m])'
    BY <2>1, <2>9 DEF PointersMade
  <2>11. pointersMade' \in pointersMade .. MaxPointers
    BY <1>1, <2>1
  <2> HIDE DEF new
  <2> QED
    BY <2>1, <2>7, <2>8, <2>9, <2>10, <2>11 DEF Edited
<1>6. ASSUME RemoveIsolatedPoints(m) PROVE Edited(m)
  <2>1. PICK renumbered \in [DOMAIN g.faces -> Faces], n \in 0 .. g.numPoints :
          Rebuild(m, renumbered, n, TypesOf(g.attributes))
    BY <1>6 DEF RemoveIsolatedPoints
  <2>2. renumbered \in Seq(Faces) /\ n \in 0 .. MaxPoints
    <3>1. n \in 0 .. MaxPoints
      BY <1>1, <1>2, <2>1
    <3>2. Len(g.faces) \in Nat /\ DOMAIN g.faces = 1 .. Len(g.faces)
      BY <1>2
    <3>3. renumbered \in [1 .. Len(g.faces) -> Faces]
      BY <2>1, <3>2
    <3>4. renumbered \in Seq(Faces)
      BY <3>2, <3>3, FunctionIsSequence
    <3> QED
      BY <3>1, <3>4
  <2> QED
    BY <1>2, <2>1, <2>2, RebuildEdits
<1>7. ASSUME Cleanup(m) PROVE Edited(m)
  <2>1. PICK k \in 0 .. Len(g.faces), n \in 0 .. g.numPoints :
          \E kept \in [1 .. k -> Faces] : Rebuild(m, kept, n, TypesOf(g.attributes))
    BY <1>7 DEF Cleanup
  <2>2. PICK kept \in [1 .. k -> Faces] : Rebuild(m, kept, n, TypesOf(g.attributes))
    BY <2>1
  <2>3. kept \in Seq(Faces) /\ n \in 0 .. MaxPoints
    BY <1>1, <1>2, <2>1, <2>2
  <2> QED
    BY <1>2, <2>2, <2>3, RebuildEdits
<1>8. ASSUME NEW t \in AttributeTypes, AddAttributeWithConnectivity(m, t) PROVE Edited(m)
  <2>1. PICK renumbered \in [DOMAIN g.faces -> Faces], n \in g.numPoints .. MaxPoints :
          Rebuild(m, renumbered, n, Append(TypesOf(g.attributes), t))
    BY <1>8 DEF AddAttributeWithConnectivity
  <2>2. renumbered \in Seq(Faces) /\ n \in 0 .. MaxPoints
    <3>1. n \in 0 .. MaxPoints
      BY <1>1, <1>2, <2>1
    <3>2. Len(g.faces) \in Nat /\ DOMAIN g.faces = 1 .. Len(g.faces)
      BY <1>2
    <3>3. renumbered \in [1 .. Len(g.faces) -> Faces]
      BY <2>1, <3>2
    <3>4. renumbered \in Seq(Faces)
      BY <3>2, <3>3, FunctionIsSequence
    <3> QED
      BY <3>1, <3>4
  <2>3. Append(TypesOf(g.attributes), t) \in Seq(AttributeTypes)
    BY <1>2, AppendProperties
  <2> QED
    BY <2>1, <2>2, <2>3, RebuildEdits
<1> QED
  BY <1>3, <1>4, <1>5, <1>6, <1>7, <1>8 DEF EditStep

-----------------------------------------------------------------------------

(* No edit of a mesh makes an entry mistakable for the edited mesh.        *)
LEMMA EditsKeepEntries ==
  ASSUME BoundsAssumption, TypeOK, NEW m \in Meshes, Edited(m),
         NEW k \in Meshes, NEW g \in Geometry, Recognizable(k, g)
  PROVE  Recognizable(k, g)'
<1> DEFINE old == geometry[m]
           new == geometry'[m]
<1>1. /\ geometry \in [Meshes -> Geometry] /\ old \in Geometry /\ new \in Geometry
      /\ pointersMade \in Nat /\ pointersMade' \in Nat /\ pointersMade <= pointersMade'
      /\ geometry' = [geometry EXCEPT ![m] = new]
  BY DEF TypeOK, Edited, BoundsAssumption
<1>2. \A i \in DOMAIN g.attributes : g.attributes[i].pointer \in Nat
  <2>1. g.attributes \in Seq(Attributes)
    BY DEF Geometry
  <2>2. \A i \in DOMAIN g.attributes : g.attributes[i] \in Attributes
    BY <2>1, ElementOfSeq, LenProperties
  <2> QED
    BY <2>2 DEF Attributes, BoundsAssumption
<1>3. HasPosition(g) /\ PointersMade(g)'
  BY <1>1, <1>2 DEF Recognizable, PointersMade
<1>4. CASE k # m
  <2>1. geometry'[k] = geometry[k]
    BY <1>1, <1>4
  <2> QED
    BY <1>3, <2>1 DEF Recognizable
<1>5. CASE k = m
  <2>1. ASSUME Shares(g, new) PROVE GrewInto(g, new)
    <3>1. PICK i \in DOMAIN g.attributes, j \in DOMAIN new.attributes :
            g.attributes[i].pointer = new.attributes[j].pointer
      BY <2>1 DEF Shares
    <3>2. ~ new.attributes[j].pointer > pointersMade
      BY <1>1, <1>2, <3>1 DEF Recognizable, PointersMade
    <3>3. /\ GrewInto(old, new)
          /\ \E n \in DOMAIN old.attributes :
               new.attributes[j].pointer = old.attributes[n].pointer
      BY <3>2 DEF Edited
    <3>4. Shares(g, old)
      BY <3>1, <3>3 DEF Shares
    <3>5. GrewInto(g, old)
      BY <1>5, <3>4 DEF Recognizable
    <3>6. Len(g.faces) \in Nat /\ Len(old.faces) \in Nat /\ Len(new.faces) \in Nat
      BY <1>1, LenProperties DEF Geometry
    <3> QED
      BY <3>3, <3>5, <3>6 DEF GrewInto
  <2> QED
    BY <1>3, <1>5, <2>1 DEF Recognizable
<1> QED
  BY <1>4, <1>5

LEMMA EditStepKeepsInv ==
  ASSUME BoundsAssumption, CacheInv, NEW m \in Meshes, EditStep(m)
  PROVE  CacheInv'
<1>1. Edited(m)
  BY EditsAreEdits DEF CacheInv
<1>2. /\ geometry \in [Meshes -> Geometry] /\ pointersMade \in 0 .. MaxPointers
      /\ MaxPointers \in Nat /\ geometry'[m] \in Geometry
      /\ geometry' = [geometry EXCEPT ![m] = geometry'[m]]
      /\ pointersMade' \in pointersMade .. MaxPointers
      /\ UNCHANGED <<pool, canonicalCache, baseCache, decodedMappingCache, encode>>
  BY <1>1 DEF CacheInv, TypeOK, Edited, BoundsAssumption
<1>3. TypeOK'
  <2>1. geometry' \in [Meshes -> Geometry] /\ pointersMade' \in 0 .. MaxPointers
    BY <1>2
  <2> QED
    BY <1>2, <2>1 DEF CacheInv, TypeOK
<1>4. MeshesOK'
  <2> SUFFICES ASSUME NEW k \in Meshes PROVE PointersMade(geometry[k])'
    BY DEF MeshesOK
  <2>1. CASE k = m
    BY <1>1, <2>1 DEF Edited
  <2>2. CASE k # m
    <3>1. geometry'[k] = geometry[k] /\ PointersMade(geometry[k])
      BY <1>2, <2>2 DEF CacheInv, MeshesOK
    <3>2. geometry[k].attributes \in Seq(Attributes)
      BY <1>2 DEF Geometry
    <3>3. \A i \in DOMAIN geometry[k].attributes : geometry[k].attributes[i] \in Attributes
      BY <3>2, ElementOfSeq, LenProperties
    <3>4. \A i \in DOMAIN geometry[k].attributes : geometry[k].attributes[i].pointer \in Nat
      BY <1>2, <3>3 DEF Attributes
    <3> QED
      BY <1>2, <3>1, <3>4 DEF PointersMade
  <2> QED
    BY <2>1, <2>2
<1>5. \A e \in Encoders : encode[e].step # "idle" => Source(e)' = Source(e)
  <2> SUFFICES ASSUME NEW e \in Encoders, encode[e].step # "idle" PROVE Source(e)' = Source(e)
    OBVIOUS
  <2>1. encode[e].mesh \in Meshes /\ encode[e].mesh # m
    BY <1>1 DEF CacheInv, TypeOK, Edited, BeingEncoded, Encodes, Idle
  <2> QED
    BY <1>2, <2>1 DEF Source
<1>6. EncodedMeshesOK'
  BY <1>2, <1>5 DEF CacheInv, EncodedMeshesOK, Source
<1>7. \A k \in Meshes, g \in Geometry : Recognizable(k, g) => Recognizable(k, g)'
  BY <1>1, EditsKeepEntries DEF CacheInv
<1>8. CanonicalOK'
  <2> SUFFICES ASSUME NEW s \in Scratches, canonicalCache[s] # None
               PROVE  CanonicalEntryOK(canonicalCache[s])'
    BY <1>2 DEF CanonicalOK
  <2>1. canonicalCache[s].value.of \in Geometry /\ canonicalCache[s].key.mesh \in Meshes
    BY DEF CacheInv, TypeOK, FaceLists, MeshKeys
  <2>2. CanonicalEntryOK(canonicalCache[s])
    BY DEF CacheInv, CanonicalOK
  <2> QED
    BY <1>2, <1>7, <2>1, <2>2 DEF CanonicalEntryOK
<1>9. BaseOK'
  <2> SUFFICES ASSUME NEW s \in Scratches, baseCache[s] # None
               PROVE  BaseEntryOK(baseCache[s])'
    BY <1>2 DEF BaseOK
  <2>1. baseCache[s].value.of \in Geometry /\ baseCache[s].key.mesh.mesh \in Meshes
    BY DEF CacheInv, TypeOK, BaseTables, BaseKeys, MeshKeys
  <2>2. BaseEntryOK(baseCache[s])
    BY DEF CacheInv, BaseOK
  <2> QED
    BY <1>2, <1>7, <2>1, <2>2 DEF BaseEntryOK
<1>10. MappingOK'
  <2> SUFFICES ASSUME NEW s \in Scratches, decodedMappingCache[s] # None
               PROVE  MappingEntryOK(decodedMappingCache[s])'
    BY <1>2 DEF MappingOK
  <2>1. /\ decodedMappingCache[s].value.of \in Geometry
        /\ decodedMappingCache[s].key.mesh.mesh \in Meshes
    BY DEF CacheInv, TypeOK, PointMappings, MappingKeys, MeshKeys
  <2>2. MappingEntryOK(decodedMappingCache[s])
    BY DEF CacheInv, MappingOK
  <2> QED
    BY <1>2, <1>7, <2>1, <2>2 DEF MappingEntryOK
<1>11. FacesAreCurrent'
  BY <1>2, <1>5 DEF CacheInv, FacesAreCurrent, FacesCanonical
<1>12. TableIsCurrent'
  BY <1>2, <1>5 DEF CacheInv, TableIsCurrent, FacesCanonical
<1>13. MappingIsCurrent'
  BY <1>2, <1>5 DEF CacheInv, MappingIsCurrent, FacesCanonical
<1> QED
  BY <1>3, <1>4, <1>6, <1>8, <1>9, <1>10, <1>11, <1>12, <1>13 DEF CacheInv

-----------------------------------------------------------------------------

LEMMA EncodeParts ==
  ASSUME TypeOK, NEW e \in Encoders, encode[e].step # "idle"
  PROVE  /\ encode[e] \in Encodes
         /\ encode[e].mesh \in Meshes /\ encode[e].scratch \in Scratches
         /\ encode[e].splitOnSeams \in BOOLEAN /\ encode[e].native \in BOOLEAN
         /\ encode[e].method \in Methods
         /\ FacesCanonical(e) \in BOOLEAN
         /\ Source(e) \in Geometry
         /\ Key(e) \in MeshKeys
         /\ Key(e) = KeyOf(encode[e].mesh, Source(e)) /\ Key(e).mesh = encode[e].mesh
<1>1. encode[e] \in Encodes
  BY DEF TypeOK, Idle
<1>2. encode[e].mesh \in Meshes /\ Source(e) \in Geometry
  BY <1>1 DEF TypeOK, Encodes, Source
<1>3. Len(Source(e).faces) \in Nat
  BY <1>2, LenProperties DEF Geometry
<1>4. Key(e) \in MeshKeys
  BY <1>2, <1>3 DEF Key, KeyOf, MeshKeys, Geometry
<1> QED
  BY <1>1, <1>2, <1>4 DEF Encodes, Key, KeyOf, FacesCanonical

(* What a goroutine is about to file is not mistakable for anything else.  *)
LEMMA SourceIsRecognizable ==
  ASSUME TypeOK, MeshesOK, EncodedMeshesOK, NEW e \in Encoders, encode[e].step # "idle"
  PROVE  Recognizable(encode[e].mesh, Source(e))
<1>1. encode[e].mesh \in Meshes /\ Source(e) \in Geometry
  BY EncodeParts
<1>2. Len(Source(e).faces) \in Nat
  BY <1>1, LenProperties DEF Geometry
<1>3. GrewInto(Source(e), Source(e))
  BY <1>2 DEF GrewInto
<1> QED
  BY <1>1, <1>3 DEF Recognizable, MeshesOK, EncodedMeshesOK, Source

(* A hit gives what the encode would have computed.                        *)
LEMMA CanonicalHit ==
  ASSUME CacheInv, NEW e \in Encoders, encode[e].step # "idle",
         Hit(canonicalCache, e, CanonicalKey(e))
  PROVE  canonicalCache[encode[e].scratch].value = WorkingFaces(Source(e), TRUE)
<1> DEFINE entry == canonicalCache[encode[e].scratch]
<1>1. entry # None /\ entry.key = Key(e) /\ encode[e].scratch \in Scratches
  BY EncodeParts DEF Hit, CanonicalKey, CacheInv
<1>2. CanonicalEntryOK(entry) /\ entry.value.of \in Geometry
  BY <1>1 DEF CacheInv, CanonicalOK, TypeOK, FaceLists
<1>3. /\ encode[e].mesh \in Meshes /\ Source(e) \in Geometry
      /\ Key(e) = KeyOf(encode[e].mesh, Source(e)) /\ Key(e).mesh = encode[e].mesh
  BY EncodeParts DEF CacheInv
<1>4. entry.value.of = Source(e)
  BY <1>1, <1>2, <1>3, SameKeySameMesh DEF CanonicalEntryOK, Recognizable, Source
<1> QED
  BY <1>2, <1>4 DEF CanonicalEntryOK

LEMMA BaseHit ==
  ASSUME CacheInv, NEW e \in Encoders, encode[e].step # "idle", Hit(baseCache, e, BaseKey(e))
  PROVE  baseCache[encode[e].scratch].value =
           BaseTable(Source(e), WorkingFaces(Source(e), FacesCanonical(e)),
                     encode[e].splitOnSeams)
<1> DEFINE entry == baseCache[encode[e].scratch]
<1>1. /\ entry # None /\ entry.key.mesh = Key(e) /\ encode[e].scratch \in Scratches
      /\ entry.key.splitOnSeams = encode[e].splitOnSeams
      /\ entry.key.facesCanonical = FacesCanonical(e)
  BY EncodeParts DEF Hit, BaseKey, CacheInv
<1>2. BaseEntryOK(entry) /\ entry.value.of \in Geometry
  BY <1>1 DEF CacheInv, BaseOK, TypeOK, BaseTables
<1>3. /\ encode[e].mesh \in Meshes /\ Source(e) \in Geometry
      /\ Key(e) = KeyOf(encode[e].mesh, Source(e)) /\ Key(e).mesh = encode[e].mesh
  BY EncodeParts DEF CacheInv
<1>4. entry.value.of = Source(e)
  BY <1>1, <1>2, <1>3, SameKeySameMesh DEF BaseEntryOK, Recognizable, Source
<1> QED
  BY <1>1, <1>2, <1>4 DEF BaseEntryOK

LEMMA MappingHit ==
  ASSUME CacheInv, NEW e \in Encoders, encode[e].step # "idle",
         Hit(decodedMappingCache, e, MappingKey(e))
  PROVE  decodedMappingCache[encode[e].scratch].value =
           PointMapping(Source(e),
                        BaseTable(Source(e), WorkingFaces(Source(e), FacesCanonical(e)),
                                  encode[e].splitOnSeams), FALSE)
<1> DEFINE entry == decodedMappingCache[encode[e].scratch]
<1>1. /\ entry # None /\ entry.key.mesh = Key(e) /\ encode[e].scratch \in Scratches
      /\ entry.key.splitOnSeams = encode[e].splitOnSeams
      /\ entry.key.facesCanonical = FacesCanonical(e)
  BY EncodeParts DEF Hit, MappingKey, CacheInv
<1>2. MappingEntryOK(entry) /\ entry.value.of \in Geometry
  BY <1>1 DEF CacheInv, MappingOK, TypeOK, PointMappings
<1>3. /\ encode[e].mesh \in Meshes /\ Source(e) \in Geometry
      /\ Key(e) = KeyOf(encode[e].mesh, Source(e)) /\ Key(e).mesh = encode[e].mesh
  BY EncodeParts DEF CacheInv
<1>4. entry.value.of = Source(e)
  BY <1>1, <1>2, <1>3, SameKeySameMesh DEF MappingEntryOK, Recognizable, Source
<1> QED
  BY <1>1, <1>2, <1>4 DEF MappingEntryOK

-----------------------------------------------------------------------------
(* The steps of an encode leave the meshes alone.                          *)

LEMMA MeshesUntouched ==
  ASSUME UNCHANGED <<geometry, pointersMade>>
  PROVE  /\ MeshesOK => MeshesOK'
         /\ \A m, g : Recognizable(m, g) => Recognizable(m, g)'
         /\ UNCHANGED canonicalCache => (CanonicalOK => CanonicalOK')
         /\ UNCHANGED baseCache => (BaseOK => BaseOK')
         /\ UNCHANGED decodedMappingCache => (MappingOK => MappingOK')
<1>1. MeshesOK => MeshesOK'
  BY DEF MeshesOK, PointersMade
<1>2. \A m, g : Recognizable(m, g) => Recognizable(m, g)'
  BY DEF Recognizable, PointersMade
<1>3. UNCHANGED canonicalCache => (CanonicalOK => CanonicalOK')
  BY <1>2 DEF CanonicalOK, CanonicalEntryOK
<1>4. UNCHANGED baseCache => (BaseOK => BaseOK')
  BY <1>2 DEF BaseOK, BaseEntryOK
<1>5. UNCHANGED decodedMappingCache => (MappingOK => MappingOK')
  BY <1>2 DEF MappingOK, MappingEntryOK
<1> QED
  BY <1>1, <1>2, <1>3, <1>4, <1>5

(* Filing a recognizable geometry under its own key.                       *)
LEMMA CanonicalFiled ==
  ASSUME UNCHANGED <<geometry, pointersMade>>, CanonicalOK,
         DOMAIN canonicalCache = Scratches, NEW t \in Scratches, NEW m, NEW g, Recognizable(m, g),
         NEW key, NEW value, key = KeyOf(m, g),
         value = WorkingFaces(g, TRUE),
         canonicalCache' = [canonicalCache EXCEPT ![t] = [key |-> key, value |-> value]]
  PROVE  CanonicalOK'
<1>1. Recognizable(m, g)'
  BY MeshesUntouched
<1>2. canonicalCache'[t].key = key /\ canonicalCache'[t].value = value
  OBVIOUS
<1>3. value.of = g /\ key.mesh = m
  BY DEF WorkingFaces, KeyOf
<1>4. CanonicalEntryOK(canonicalCache[t])'
  BY <1>1, <1>2, <1>3 DEF CanonicalEntryOK
<1>5. ASSUME NEW x \in Scratches \ {t}, canonicalCache'[x] # None
      PROVE  CanonicalEntryOK(canonicalCache[x])'
  <2>1. canonicalCache'[x] = canonicalCache[x] /\ CanonicalEntryOK(canonicalCache[x])
    BY <1>5 DEF CanonicalOK
  <2> QED
    BY <2>1, MeshesUntouched DEF CanonicalEntryOK
<1> QED
  BY <1>4, <1>5 DEF CanonicalOK

LEMMA BaseFiled ==
  ASSUME UNCHANGED <<geometry, pointersMade>>, BaseOK,
         DOMAIN baseCache = Scratches, NEW t \in Scratches, NEW m, NEW g, Recognizable(m, g),
         NEW key, NEW value, key.mesh = KeyOf(m, g),
         value = BaseTable(g, WorkingFaces(g, key.facesCanonical), key.splitOnSeams),
         baseCache' = [baseCache EXCEPT ![t] = [key |-> key, value |-> value]]
  PROVE  BaseOK'
<1>1. Recognizable(m, g)'
  BY MeshesUntouched
<1>2. baseCache'[t].key = key /\ baseCache'[t].value = value
  OBVIOUS
<1>3. value.of = g /\ key.mesh.mesh = m
  BY DEF BaseTable, KeyOf
<1>4. BaseEntryOK(baseCache[t])'
  BY <1>1, <1>2, <1>3 DEF BaseEntryOK
<1>5. ASSUME NEW x \in Scratches \ {t}, baseCache'[x] # None
      PROVE  BaseEntryOK(baseCache[x])'
  <2>1. baseCache'[x] = baseCache[x] /\ BaseEntryOK(baseCache[x])
    BY <1>5 DEF BaseOK
  <2> QED
    BY <2>1, MeshesUntouched DEF BaseEntryOK
<1> QED
  BY <1>4, <1>5 DEF BaseOK

LEMMA MappingFiled ==
  ASSUME UNCHANGED <<geometry, pointersMade>>, MappingOK,
         DOMAIN decodedMappingCache = Scratches, NEW t \in Scratches, NEW m, NEW g, Recognizable(m, g),
         NEW key, NEW value, key.mesh = KeyOf(m, g),
         value = PointMapping(g, BaseTable(g, WorkingFaces(g, key.facesCanonical), key.splitOnSeams), FALSE),
         decodedMappingCache' = [decodedMappingCache EXCEPT ![t] = [key |-> key, value |-> value]]
  PROVE  MappingOK'
<1>1. Recognizable(m, g)'
  BY MeshesUntouched
<1>2. decodedMappingCache'[t].key = key /\ decodedMappingCache'[t].value = value
  OBVIOUS
<1>3. value.of = g /\ key.mesh.mesh = m
  BY DEF PointMapping, KeyOf
<1>4. MappingEntryOK(decodedMappingCache[t])'
  BY <1>1, <1>2, <1>3 DEF MappingEntryOK
<1>5. ASSUME NEW x \in Scratches \ {t}, decodedMappingCache'[x] # None
      PROVE  MappingEntryOK(decodedMappingCache[x])'
  <2>1. decodedMappingCache'[x] = decodedMappingCache[x] /\ MappingEntryOK(decodedMappingCache[x])
    BY <1>5 DEF MappingOK
  <2> QED
    BY <2>1, MeshesUntouched DEF MappingEntryOK
<1> QED
  BY <1>4, <1>5 DEF MappingOK

LEMMA CanonicalizeKeepsInv ==
  ASSUME CacheInv, NEW e \in Encoders, Canonicalize(e)
  PROVE  CacheInv'
<1> DEFINE s == encode[e].scratch
           hit == Hit(canonicalCache, e, CanonicalKey(e))
           faces == IF FacesCanonical(e) /\ hit THEN canonicalCache[s].value
                    ELSE WorkingFaces(Source(e), FacesCanonical(e))
<1>1. /\ encode[e].step = "canonicalize" /\ encode[e].step # "idle"
      /\ encode' = [encode EXCEPT ![e].faces = faces, ![e].step = "table"]
      /\ canonicalCache' = IF FacesCanonical(e) /\ ~ hit
                           THEN Stored(canonicalCache, e, CanonicalKey(e), faces)
                           ELSE canonicalCache
      /\ UNCHANGED <<geometry, pointersMade, pool, baseCache, decodedMappingCache>>
  BY DEF Canonicalize
<1>2. /\ encode[e] \in Encodes /\ s \in Scratches /\ encode[e].mesh \in Meshes
      /\ FacesCanonical(e) \in BOOLEAN /\ Source(e) \in Geometry
      /\ Key(e) \in MeshKeys /\ Key(e) = KeyOf(encode[e].mesh, Source(e))
      /\ Key(e).mesh = encode[e].mesh
  BY <1>1, EncodeParts DEF CacheInv
<1>3. faces = WorkingFaces(Source(e), FacesCanonical(e))
  BY <1>1, <1>2, CanonicalHit
<1>4. faces \in FaceLists
  BY <1>2, <1>3 DEF WorkingFaces, FaceLists
<1> HIDE DEF faces
<1>5. /\ encode'[e] \in Encodes /\ encode'[e].step = "table" /\ encode'[e].faces = faces
      /\ encode'[e].scratch = s /\ encode'[e].mesh = encode[e].mesh
      /\ encode'[e].splitOnSeams = encode[e].splitOnSeams
      /\ encode'[e].native = encode[e].native
      /\ encode' \in [Encoders -> Encodes \cup {Idle}]
      /\ \A x \in Encoders \ {e} : encode'[x] = encode[x]
  BY <1>1, <1>2, <1>4 DEF CacheInv, TypeOK, Encodes
<1>6. canonicalCache' \in [Scratches -> [key : MeshKeys, value : FaceLists] \cup {None}]
  BY <1>1, <1>2, <1>4 DEF CacheInv, TypeOK, Stored, CanonicalKey
<1>7. TypeOK'
  BY <1>1, <1>5, <1>6 DEF CacheInv, TypeOK
<1>8. CanonicalOK'
  <2>1. CASE ~ (FacesCanonical(e) /\ ~ hit)
    BY <1>1, <2>1, MeshesUntouched DEF CacheInv
  <2>2. CASE FacesCanonical(e) /\ ~ hit
    <3>1. PICK m \in Meshes, g \in Geometry, t \in Scratches, key \in MeshKeys, value \in FaceLists :
            m = encode[e].mesh /\ g = Source(e) /\ t = s /\ key = Key(e) /\ value = faces
      BY <1>2, <1>4
    <3>2. Recognizable(m, g)
      BY <1>1, <3>1, SourceIsRecognizable DEF CacheInv
    <3>3. canonicalCache' = [canonicalCache EXCEPT ![t] = [key |-> key, value |-> value]]
      BY <1>1, <2>2, <3>1 DEF Stored, CanonicalKey
    <3>4. key = KeyOf(m, g) /\ value = WorkingFaces(g, TRUE)
      BY <1>2, <1>3, <2>2, <3>1
    <3>5. CanonicalOK /\ DOMAIN canonicalCache = Scratches
      BY DEF CacheInv, TypeOK
    <3>6. UNCHANGED <<geometry, pointersMade>>
      BY <1>1
    <3> QED
      BY <3>2, <3>3, <3>4, <3>5, <3>6, CanonicalFiled
  <2> QED
    BY <2>1, <2>2
<1>9. EncodedMeshesOK'
  BY <1>1, <1>5 DEF CacheInv, EncodedMeshesOK
<1>10. FacesAreCurrent'
  BY <1>1, <1>3, <1>5 DEF CacheInv, FacesAreCurrent, Source, FacesCanonical
<1>11. TableIsCurrent' /\ MappingIsCurrent'
  BY <1>1, <1>5 DEF CacheInv, TableIsCurrent, MappingIsCurrent, Source, FacesCanonical
<1> QED
  BY <1>1, <1>7, <1>8, <1>9, <1>10, <1>11, MeshesUntouched DEF CacheInv

LEMMA PrepareBaseKeepsInv ==
  ASSUME CacheInv, NEW e \in Encoders, PrepareBase(e)
  PROVE  CacheInv'
<1> DEFINE s == encode[e].scratch
           hit == Hit(baseCache, e, BaseKey(e))
           table == IF hit THEN baseCache[s].value
                    ELSE BaseTable(Source(e), encode[e].faces, encode[e].splitOnSeams)
<1>1. /\ encode[e].step = "table" /\ encode[e].step # "idle"
      /\ encode' = [encode EXCEPT ![e].table = table, ![e].step = "mapping"]
      /\ baseCache' = IF hit THEN baseCache ELSE Stored(baseCache, e, BaseKey(e), table)
      /\ UNCHANGED <<geometry, pointersMade, pool, canonicalCache, decodedMappingCache>>
  BY DEF PrepareBase
<1>2. /\ encode[e] \in Encodes /\ s \in Scratches /\ encode[e].mesh \in Meshes
      /\ encode[e].splitOnSeams \in BOOLEAN
      /\ FacesCanonical(e) \in BOOLEAN /\ Source(e) \in Geometry
      /\ Key(e) \in MeshKeys /\ Key(e) = KeyOf(encode[e].mesh, Source(e))
      /\ Key(e).mesh = encode[e].mesh
  BY <1>1, EncodeParts DEF CacheInv
<1>3. table = BaseTable(Source(e), WorkingFaces(Source(e), FacesCanonical(e)),
                        encode[e].splitOnSeams)
  <2>1. encode[e].faces = WorkingFaces(Source(e), FacesCanonical(e))
    BY <1>1 DEF CacheInv, FacesAreCurrent
  <2> QED
    BY <1>1, <2>1, BaseHit
<1>4. table \in BaseTables /\ BaseKey(e) \in BaseKeys
  BY <1>2, <1>3 DEF WorkingFaces, FaceLists, BaseTable, BaseTables, BaseKey, BaseKeys
<1> HIDE DEF table
<1>5. /\ encode'[e] \in Encodes /\ encode'[e].step = "mapping" /\ encode'[e].table = table
      /\ encode'[e].faces = encode[e].faces
      /\ encode'[e].scratch = s /\ encode'[e].mesh = encode[e].mesh
      /\ encode'[e].splitOnSeams = encode[e].splitOnSeams
      /\ encode'[e].native = encode[e].native
      /\ encode' \in [Encoders -> Encodes \cup {Idle}]
      /\ \A x \in Encoders \ {e} : encode'[x] = encode[x]
  BY <1>1, <1>2, <1>4 DEF CacheInv, TypeOK, Encodes
<1>6. baseCache' \in [Scratches -> [key : BaseKeys, value : BaseTables] \cup {None}]
  BY <1>1, <1>2, <1>4 DEF CacheInv, TypeOK, Stored
<1>7. TypeOK'
  BY <1>1, <1>5, <1>6 DEF CacheInv, TypeOK
<1>8. BaseOK'
  <2>1. CASE hit
    BY <1>1, <2>1, MeshesUntouched DEF CacheInv
  <2>2. CASE ~ hit
    <3>1. PICK m \in Meshes, g \in Geometry, t \in Scratches, key \in BaseKeys, value \in BaseTables :
            m = encode[e].mesh /\ g = Source(e) /\ t = s /\ key = BaseKey(e) /\ value = table
      BY <1>2, <1>4
    <3>2. Recognizable(m, g)
      BY <1>1, <3>1, SourceIsRecognizable DEF CacheInv
    <3>3. baseCache' = [baseCache EXCEPT ![t] = [key |-> key, value |-> value]]
      BY <1>1, <2>2, <3>1 DEF Stored
    <3>4. /\ key.mesh = KeyOf(m, g)
          /\ value = BaseTable(g, WorkingFaces(g, key.facesCanonical), key.splitOnSeams)
      BY <1>2, <1>3, <3>1 DEF BaseKey
    <3>5. BaseOK /\ DOMAIN baseCache = Scratches
      BY DEF CacheInv, TypeOK
    <3>6. UNCHANGED <<geometry, pointersMade>>
      BY <1>1
    <3> QED
      BY <3>2, <3>3, <3>4, <3>5, <3>6, BaseFiled
  <2> QED
    BY <2>1, <2>2
<1>9. EncodedMeshesOK'
  BY <1>1, <1>5 DEF CacheInv, EncodedMeshesOK
<1>10. TableIsCurrent'
  BY <1>1, <1>3, <1>5 DEF CacheInv, TableIsCurrent, Source, FacesCanonical
<1>11. FacesAreCurrent' /\ MappingIsCurrent'
  BY <1>1, <1>5 DEF CacheInv, FacesAreCurrent, MappingIsCurrent, Source, FacesCanonical
<1> QED
  BY <1>1, <1>7, <1>8, <1>9, <1>10, <1>11, MeshesUntouched DEF CacheInv

LEMMA MapPointsKeepsInv ==
  ASSUME CacheInv, NEW e \in Encoders, MapPoints(e)
  PROVE  CacheInv'
<1> DEFINE s == encode[e].scratch
           hit == UsesMappingCache(e) /\ Hit(decodedMappingCache, e, MappingKey(e))
           mapping == IF hit THEN decodedMappingCache[s].value
                      ELSE PointMapping(Source(e), encode[e].table, encode[e].native)
<1>1. /\ encode[e].step = "mapping" /\ encode[e].step # "idle"
      /\ encode' = [encode EXCEPT ![e].mapping = mapping, ![e].step = "values"]
      /\ decodedMappingCache' = IF UsesMappingCache(e) /\ ~ hit
                                THEN Stored(decodedMappingCache, e, MappingKey(e), mapping)
                                ELSE decodedMappingCache
      /\ UNCHANGED <<geometry, pointersMade, pool, canonicalCache, baseCache>>
  BY DEF MapPoints
<1>2. /\ encode[e] \in Encodes /\ s \in Scratches /\ encode[e].mesh \in Meshes
      /\ encode[e].splitOnSeams \in BOOLEAN /\ encode[e].native \in BOOLEAN
      /\ encode[e].method \in Methods
      /\ FacesCanonical(e) \in BOOLEAN /\ Source(e) \in Geometry
      /\ Key(e) \in MeshKeys /\ Key(e) = KeyOf(encode[e].mesh, Source(e))
      /\ Key(e).mesh = encode[e].mesh
  BY <1>1, EncodeParts DEF CacheInv
<1> DEFINE current == BaseTable(Source(e), WorkingFaces(Source(e), FacesCanonical(e)),
                                encode[e].splitOnSeams)
<1>3. mapping = PointMapping(Source(e), current, encode[e].native)
  <2>1. encode[e].table = current
    BY <1>1 DEF CacheInv, TableIsCurrent
  <2>2. CASE hit
    <3>1. encode[e].native = FALSE
      BY <1>2, <2>2 DEF UsesMappingCache
    <3>2. decodedMappingCache[s].value = PointMapping(Source(e), current, FALSE)
      BY <1>1, <2>2, MappingHit
    <3> QED
      BY <2>2, <3>1, <3>2
  <2>3. CASE ~ hit
    BY <2>1, <2>3
  <2> QED
    BY <2>2, <2>3
<1>4. mapping \in PointMappings /\ MappingKey(e) \in MappingKeys
  BY <1>2, <1>3 DEF WorkingFaces, FaceLists, BaseTable, BaseTables, PointMapping, PointMappings,
                    MappingKey, MappingKeys
<1> HIDE DEF mapping
<1>5. /\ encode'[e] \in Encodes /\ encode'[e].step = "values" /\ encode'[e].mapping = mapping
      /\ encode'[e].faces = encode[e].faces /\ encode'[e].table = encode[e].table
      /\ encode'[e].scratch = s /\ encode'[e].mesh = encode[e].mesh
      /\ encode'[e].splitOnSeams = encode[e].splitOnSeams
      /\ encode'[e].native = encode[e].native
      /\ encode' \in [Encoders -> Encodes \cup {Idle}]
      /\ \A x \in Encoders \ {e} : encode'[x] = encode[x]
  BY <1>1, <1>2, <1>4 DEF CacheInv, TypeOK, Encodes
<1>6. decodedMappingCache' \in [Scratches -> [key : MappingKeys, value : PointMappings] \cup {None}]
  BY <1>1, <1>2, <1>4 DEF CacheInv, TypeOK, Stored
<1>7. TypeOK'
  BY <1>1, <1>5, <1>6 DEF CacheInv, TypeOK
<1>8. MappingOK'
  <2>1. CASE ~ (UsesMappingCache(e) /\ ~ hit)
    BY <1>1, <2>1, MeshesUntouched DEF CacheInv
  <2>2. CASE UsesMappingCache(e) /\ ~ hit
    <3>1. PICK m \in Meshes, g \in Geometry, t \in Scratches, key \in MappingKeys, value \in PointMappings :
            m = encode[e].mesh /\ g = Source(e) /\ t = s /\ key = MappingKey(e) /\ value = mapping
      BY <1>2, <1>4
    <3>2. Recognizable(m, g)
      BY <1>1, <3>1, SourceIsRecognizable DEF CacheInv
    <3>3. decodedMappingCache' = [decodedMappingCache EXCEPT ![t] = [key |-> key, value |-> value]]
      BY <1>1, <2>2, <3>1 DEF Stored
    <3>4. /\ key.mesh = KeyOf(m, g)
          /\ value = PointMapping(g, BaseTable(g, WorkingFaces(g, key.facesCanonical),
                                               key.splitOnSeams), FALSE)
      <4>1. encode[e].native = FALSE
        BY <1>2, <2>2 DEF UsesMappingCache
      <4> QED
        BY <1>2, <1>3, <3>1, <4>1 DEF MappingKey
    <3>5. MappingOK /\ DOMAIN decodedMappingCache = Scratches
      BY DEF CacheInv, TypeOK
    <3>6. UNCHANGED <<geometry, pointersMade>>
      BY <1>1
    <3> QED
      BY <3>2, <3>3, <3>4, <3>5, <3>6, MappingFiled
  <2> QED
    BY <2>1, <2>2
<1>9. EncodedMeshesOK'
  BY <1>1, <1>5 DEF CacheInv, EncodedMeshesOK
<1>10. MappingIsCurrent'
  BY <1>1, <1>3, <1>5 DEF CacheInv, MappingIsCurrent, Source, FacesCanonical
<1>11. FacesAreCurrent' /\ TableIsCurrent'
  BY <1>1, <1>5 DEF CacheInv, FacesAreCurrent, TableIsCurrent, Source, FacesCanonical
<1> QED
  BY <1>1, <1>7, <1>8, <1>9, <1>10, <1>11, MeshesUntouched DEF CacheInv

LEMMA BeginKeepsInv ==
  ASSUME CacheInv, NEW e \in Encoders, NEW m \in Meshes, NEW split \in BOOLEAN, NEW native \in BOOLEAN,
         NEW method \in Methods, NEW s \in Scratches, Begin(e, m, split, native, method, s)
  PROVE  CacheInv'
<1> DEFINE begun == [step |-> "canonicalize", mesh |-> m, scratch |-> s, splitOnSeams |-> split,
                     native |-> native, method |-> method, faces |-> None, table |-> None,
                     mapping |-> None]
<1>1. /\ encode[e].step = "idle" /\ HasPosition(geometry[m])
      /\ s \notin InUse \/ s \in pool
      /\ pool' = pool \ {s} /\ encode' = [encode EXCEPT ![e] = begun]
      /\ UNCHANGED <<geometry, pointersMade>>
  BY DEF Begin, TakenFrom
<1>2. begun \in Encodes /\ begun.step = "canonicalize" /\ begun.mesh = m /\ begun.scratch = s
  BY DEF Encodes
<1> HIDE DEF begun
<1>3. /\ encode' \in [Encoders -> Encodes \cup {Idle}] /\ encode'[e] = begun
      /\ \A x \in Encoders \ {e} : encode'[x] = encode[x]
  BY <1>1, <1>2 DEF CacheInv, TypeOK
<1>4. \A x \in Encoders : encode[x].step # "idle" => encode[x].scratch # s
  BY <1>1 DEF CacheInv, TypeOK, InUse
<1>5. \/ UNCHANGED <<canonicalCache, baseCache, decodedMappingCache>>
      \/ /\ canonicalCache' = [canonicalCache EXCEPT ![s] = None]
         /\ baseCache' = [baseCache EXCEPT ![s] = None]
         /\ decodedMappingCache' = [decodedMappingCache EXCEPT ![s] = None]
  BY DEF Begin
<1>6. /\ canonicalCache' \in [Scratches -> [key : MeshKeys, value : FaceLists] \cup {None}]
      /\ baseCache' \in [Scratches -> [key : BaseKeys, value : BaseTables] \cup {None}]
      /\ decodedMappingCache' \in
           [Scratches -> [key : MappingKeys, value : PointMappings] \cup {None}]
  BY <1>5 DEF CacheInv, TypeOK
<1>7. /\ geometry' \in [Meshes -> Geometry] /\ pointersMade' \in 0 .. MaxPointers
      /\ pool' \subseteq Scratches
  BY <1>1 DEF CacheInv, TypeOK
<1>8. ASSUME NEW x \in Encoders, encode'[x].step # "idle"
      PROVE  /\ encode'[x].scratch \notin pool'
             /\ \A y \in Encoders \ {x} :
                  encode'[y].step # "idle" => encode'[y].scratch # encode'[x].scratch
  <2>1. CASE x = e
    BY <1>1, <1>2, <1>3, <1>4, <2>1
  <2>2. CASE x # e
    BY <1>1, <1>2, <1>3, <1>4, <1>8, <2>2 DEF CacheInv, TypeOK
  <2> QED
    BY <2>1, <2>2
<1>9. TypeOK'
  BY <1>3, <1>6, <1>7, <1>8 DEF TypeOK
<1>10. \A x \in Scratches :
        /\ canonicalCache'[x] # None => canonicalCache'[x] = canonicalCache[x]
        /\ baseCache'[x] # None => baseCache'[x] = baseCache[x]
        /\ decodedMappingCache'[x] # None => decodedMappingCache'[x] = decodedMappingCache[x]
  BY <1>5 DEF CacheInv, TypeOK
<1>11. CanonicalOK'
  <2> SUFFICES ASSUME NEW x \in Scratches, canonicalCache'[x] # None
               PROVE  CanonicalEntryOK(canonicalCache[x])'
    BY DEF CanonicalOK
  <2>1. canonicalCache'[x] = canonicalCache[x] /\ CanonicalEntryOK(canonicalCache[x])
    BY <1>10 DEF CacheInv, CanonicalOK
  <2> QED
    BY <1>1, <2>1, MeshesUntouched DEF CanonicalEntryOK
<1>12. BaseOK'
  <2> SUFFICES ASSUME NEW x \in Scratches, baseCache'[x] # None
               PROVE  BaseEntryOK(baseCache[x])'
    BY DEF BaseOK
  <2>1. baseCache'[x] = baseCache[x] /\ BaseEntryOK(baseCache[x])
    BY <1>10 DEF CacheInv, BaseOK
  <2> QED
    BY <1>1, <2>1, MeshesUntouched DEF BaseEntryOK
<1>13. MappingOK'
  <2> SUFFICES ASSUME NEW x \in Scratches, decodedMappingCache'[x] # None
               PROVE  MappingEntryOK(decodedMappingCache[x])'
    BY DEF MappingOK
  <2>1. decodedMappingCache'[x] = decodedMappingCache[x] /\ MappingEntryOK(decodedMappingCache[x])
    BY <1>10 DEF CacheInv, MappingOK
  <2> QED
    BY <1>1, <2>1, MeshesUntouched DEF MappingEntryOK
<1>14. EncodedMeshesOK'
  <2>1. HasPosition(geometry[encode[e].mesh])'
    <3>1. geometry'[encode'[e].mesh] = geometry[m]
      BY <1>1, <1>2, <1>3
    <3> QED
      BY <1>1, <3>1
  <2>2. \A x \in Encoders \ {e} :
          encode'[x].step # "idle" => HasPosition(geometry[encode[x].mesh])'
    BY <1>1, <1>3 DEF CacheInv, EncodedMeshesOK
  <2> QED
    BY <2>1, <2>2 DEF EncodedMeshesOK
<1>15. FacesAreCurrent' /\ TableIsCurrent' /\ MappingIsCurrent'
  BY <1>1, <1>2, <1>3 DEF CacheInv, FacesAreCurrent, TableIsCurrent, MappingIsCurrent, Source,
                          FacesCanonical
<1> QED
  BY <1>1, <1>9, <1>11, <1>12, <1>13, <1>14, <1>15, MeshesUntouched DEF CacheInv

LEMMA ReleaseKeepsInv ==
  ASSUME CacheInv, NEW e \in Encoders, Release(e)
  PROVE  CacheInv'
<1>1. /\ encode[e].step # "idle" /\ pool' = pool \cup {encode[e].scratch}
      /\ encode' = [encode EXCEPT ![e] = Idle]
      /\ UNCHANGED <<geometry, pointersMade, canonicalCache, baseCache, decodedMappingCache>>
  BY DEF Release
<1>2. encode[e].scratch \in Scratches
  BY <1>1, EncodeParts DEF CacheInv
<1>3. /\ encode' \in [Encoders -> Encodes \cup {Idle}] /\ encode'[e].step = "idle"
      /\ \A x \in Encoders \ {e} : encode'[x] = encode[x]
  BY <1>1 DEF CacheInv, TypeOK, Idle
<1>4. TypeOK'
  BY <1>1, <1>2, <1>3 DEF CacheInv, TypeOK
<1>5. EncodedMeshesOK'
  BY <1>1, <1>3 DEF CacheInv, EncodedMeshesOK
<1>6. FacesAreCurrent' /\ TableIsCurrent' /\ MappingIsCurrent'
  BY <1>1, <1>3 DEF CacheInv, FacesAreCurrent, TableIsCurrent, MappingIsCurrent, Source,
                    FacesCanonical
<1> QED
  BY <1>1, <1>4, <1>5, <1>6, MeshesUntouched DEF CacheInv

LEMMA CollectKeepsInv ==
  ASSUME CacheInv, NEW s \in Scratches, Collect(s)
  PROVE  CacheInv'
<1>1. /\ pool' = pool \ {s}
      /\ UNCHANGED <<geometry, pointersMade, canonicalCache, baseCache, decodedMappingCache,
                     encode>>
  BY DEF Collect
<1>2. TypeOK'
  BY <1>1 DEF CacheInv, TypeOK
<1>3. EncodedMeshesOK' /\ FacesAreCurrent' /\ TableIsCurrent' /\ MappingIsCurrent'
  BY <1>1 DEF CacheInv, EncodedMeshesOK, FacesAreCurrent, TableIsCurrent, MappingIsCurrent,
              Source, FacesCanonical
<1> QED
  BY <1>1, <1>2, <1>3, MeshesUntouched DEF CacheInv

LEMMA StutterKeepsInv ==
  ASSUME CacheInv, UNCHANGED vars
  PROVE  CacheInv'
<1>1. UNCHANGED <<geometry, pointersMade, pool, canonicalCache, baseCache,
                  decodedMappingCache, encode>>
  BY DEF vars
<1>2. TypeOK'
  BY <1>1 DEF CacheInv, TypeOK
<1>3. EncodedMeshesOK' /\ FacesAreCurrent' /\ TableIsCurrent' /\ MappingIsCurrent'
  BY <1>1 DEF CacheInv, EncodedMeshesOK, FacesAreCurrent, TableIsCurrent, MappingIsCurrent,
              Source, FacesCanonical
<1> QED
  BY <1>1, <1>2, <1>3, MeshesUntouched DEF CacheInv

-----------------------------------------------------------------------------

LEMMA InitCacheInv ==
  ASSUME Init
  PROVE  CacheInv
<1>1. /\ pointersMade = 0 /\ pool = {}
      /\ canonicalCache = [s \in Scratches |-> None]
      /\ baseCache = [s \in Scratches |-> None]
      /\ decodedMappingCache = [s \in Scratches |-> None]
      /\ encode = [e \in Encoders |-> Idle]
      /\ geometry \in [Meshes -> {[faces |-> <<f>>, numPoints |-> MaxPoints,
                                    attributes |-> <<>>] : f \in Faces}]
  BY DEF Init
<1>2. /\ geometry \in [Meshes -> Geometry]
      /\ \A m \in Meshes : geometry[m].attributes = <<>>
  <2>1. \A f \in Faces :
          [faces |-> <<f>>, numPoints |-> MaxPoints, attributes |-> <<>>] \in Geometry
    BY BoundsAssumption DEF Geometry
  <2> QED
    BY <1>1, <2>1
<1>3. \A e \in Encoders : encode[e].step = "idle"
  BY <1>1 DEF Idle
<1>4. TypeOK
  BY <1>1, <1>2, <1>3, BoundsAssumption DEF TypeOK
<1>5. MeshesOK
  BY <1>2 DEF MeshesOK, PointersMade
<1>6. CanonicalOK /\ BaseOK /\ MappingOK
  BY <1>1 DEF CanonicalOK, BaseOK, MappingOK
<1>7. EncodedMeshesOK /\ FacesAreCurrent /\ TableIsCurrent /\ MappingIsCurrent
  BY <1>3 DEF EncodedMeshesOK, FacesAreCurrent, TableIsCurrent, MappingIsCurrent
<1> QED
  BY <1>4, <1>5, <1>6, <1>7 DEF CacheInv

LEMMA StepCacheInv ==
  ASSUME CacheInv, [Next]_vars
  PROVE  CacheInv'
<1>1. ASSUME NEW m \in Meshes, EditStep(m) PROVE CacheInv'
  BY <1>1, BoundsAssumption, EditStepKeepsInv
<1>2. ASSUME NEW e \in Encoders, NEW m \in Meshes, NEW split \in BOOLEAN, NEW native \in BOOLEAN,
             NEW method \in Methods, NEW s \in Scratches, Begin(e, m, split, native, method, s)
      PROVE  CacheInv'
  BY <1>2, BeginKeepsInv
<1>3. ASSUME NEW e \in Encoders, Canonicalize(e) PROVE CacheInv'
  BY <1>3, CanonicalizeKeepsInv
<1>4. ASSUME NEW e \in Encoders, PrepareBase(e) PROVE CacheInv'
  BY <1>4, PrepareBaseKeepsInv
<1>5. ASSUME NEW e \in Encoders, MapPoints(e) PROVE CacheInv'
  BY <1>5, MapPointsKeepsInv
<1>6. ASSUME NEW e \in Encoders, Release(e) PROVE CacheInv'
  BY <1>6, ReleaseKeepsInv
<1>7. ASSUME NEW s \in Scratches, Collect(s) PROVE CacheInv'
  BY <1>7, CollectKeepsInv
<1>8. CASE UNCHANGED vars
  BY <1>8, StutterKeepsInv
<1> QED
  BY <1>1, <1>2, <1>3, <1>4, <1>5, <1>6, <1>7, <1>8 DEF Next, EditStep

LEMMA CacheInvariant == Spec => []CacheInv
<1>1. Init => CacheInv
  BY InitCacheInv
<1>2. CacheInv /\ [Next]_vars => CacheInv'
  BY StepCacheInv
<1> QED
  BY <1>1, <1>2, PTL DEF Spec

(* Types, and no scratch is ever in two hands (sync.Pool, encoder.go).     *)
THEOREM CacheTypeCorrect == Spec => []TypeOK
<1>1. CacheInv => TypeOK
  BY DEF CacheInv
<1> QED
  BY <1>1, CacheInvariant, PTL

(* The faces an encode works on, cached or not, are those it would make of *)
(* the mesh as it is now (canonicalizeEdgebreakerWorkingMesh).             *)
THEOREM CachedFacesAreCurrent == Spec => []FacesAreCurrent
<1>1. CacheInv => FacesAreCurrent
  BY DEF CacheInv
<1> QED
  BY <1>1, CacheInvariant, PTL

(* So is its corner table (prepareEdgebreakerBaseEncodingState).           *)
THEOREM CachedTableIsCurrent == Spec => []TableIsCurrent
<1>1. CacheInv => TableIsCurrent
  BY DEF CacheInv
<1> QED
  BY <1>1, CacheInvariant, PTL

(* So is the order its attribute values are written in                     *)
(* (computeDecodedPointMapping).                                           *)
THEOREM CachedMappingIsCurrent == Spec => []MappingIsCurrent
<1>1. CacheInv => MappingIsCurrent
  BY DEF CacheInv
<1> QED
  BY <1>1, CacheInvariant, PTL

=============================================================================

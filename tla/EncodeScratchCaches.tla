-------------------------- MODULE EncodeScratchCaches --------------------------
(***************************************************************************)
(* The caches an edgebreaker encode leaves in its scratch for the next one *)
(* (edgebreaker_encode.go: edgebreakerCanonicalMeshCache,                  *)
(* edgebreakerBaseTableCache, edgebreakerDecodedMappingCache).             *)
(*                                                                         *)
(* A scratch goes from a pool to one Encode call and back; reset clears    *)
(* its buffers and leaves the three caches alone.  Nothing tells a cache   *)
(* that a mesh was edited: an entry is taken for current when the mesh it  *)
(* was made from has the same pointer, counts and attribute pointers.      *)
(* Between encodes a mesh may be edited by any of its methods.             *)
(*                                                                         *)
(* What an encode computes is named by what it was computed from.  An      *)
(* attribute never changes once a mesh owns it (the accessors hand out     *)
(* copies), so its pointer stands for its contents; a face stands for the  *)
(* three points it names.                                                  *)
(***************************************************************************)
EXTENDS Integers, Sequences, FiniteSets

CONSTANTS
  Meshes,           \* the meshes a program keeps encoding
  Encoders,         \* goroutines in Encode
  Scratches,        \* scratches that may exist at a time
  Methods,          \* traversal methods
  Faces,
  MaxFaces,         \* bound on the faces of a mesh
  MaxPoints,        \* bound on its points
  MaxPointers       \* bound on the attributes ever allocated

ASSUME BoundsAssumption ==
  MaxFaces \in Nat /\ MaxPoints \in Nat /\ MaxPointers \in Nat

ASSUME MethodsAssumption == "standard" \in Methods

CONSTANT None
ASSUME NoneAssumption == None \notin Scratches

AttributeTypes == {"position", "other"}

VARIABLES
  geometry,         \* per mesh its faces, point count and attributes
  pointersMade,     \* attributes allocated so far
  pool,             \* the scratches nobody uses
  canonicalCache, baseCache, decodedMappingCache,    \* per scratch, one entry or none
  encode            \* per goroutine, the encode it is in

vars == <<geometry, pointersMade, pool, canonicalCache, baseCache,
          decodedMappingCache, encode>>

Attributes == [pointer : 1 .. MaxPointers, type : AttributeTypes]
Geometry == [faces : Seq(Faces), numPoints : 0 .. MaxPoints, attributes : Seq(Attributes)]

HasPosition(g) == \E i \in DOMAIN g.attributes : g.attributes[i].type = "position"

-----------------------------------------------------------------------------
(* What is computed, from the geometry g of the mesh as it was then.       *)

(* canonicalizeEdgebreakerWorkingMesh: faces turned and sorted by the      *)
(* ranks of their points, or the faces of the mesh.                        *)
WorkingFaces(g, canonical) == [canonical |-> canonical, of |-> g]

(* buildEdgebreakerBaseTable and findEdgebreakerHoles.                     *)
BaseTable(g, faces, splitOnSeams) ==
  [of |-> g, faces |-> faces, splitOnSeams |-> splitOnSeams]

(* computeDecodedPointMapping follows the order of the seeds.              *)
PointMapping(g, table, nativeOrder) ==
  [of |-> g, table |-> table, nativeOrder |-> nativeOrder]

(* The key all three caches share, taken from the mesh as it is now.       *)
KeyOf(m, g) ==
  [mesh |-> m, pointCount |-> g.numPoints, faceCount |-> Len(g.faces), attrs |-> g.attributes]

Idle == [step |-> "idle"]

Init ==
  /\ geometry \in [Meshes -> {[faces |-> <<f>>, numPoints |-> MaxPoints,
                               attributes |-> <<>>] : f \in Faces}]
  /\ pointersMade = 0
  /\ pool = {}
  /\ canonicalCache = [s \in Scratches |-> None]
  /\ baseCache = [s \in Scratches |-> None]
  /\ decodedMappingCache = [s \in Scratches |-> None]
  /\ encode = [e \in Encoders |-> Idle]

-----------------------------------------------------------------------------
(* The methods of a mesh.  A mesh is not edited while it is encoded: its   *)
(* methods take no lock.                                                   *)

BeingEncoded(m) == \E e \in Encoders : encode[e].step # "idle" /\ encode[e].mesh = m

Fresh(types) ==
  [i \in DOMAIN types |-> [pointer |-> pointersMade + i, type |-> types[i]]]

TypesOf(attributes) == [i \in DOMAIN attributes |-> attributes[i].type]

Edit(m, faces, numPoints, attributes) ==
  /\ ~ BeingEncoded(m)
  /\ geometry' = [geometry EXCEPT ![m] =
         [faces |-> faces, numPoints |-> numPoints, attributes |-> attributes]]
  /\ UNCHANGED <<pool, canonicalCache, baseCache, decodedMappingCache, encode>>

AddFace(m, face) ==
  /\ Len(geometry[m].faces) < MaxFaces
  /\ Edit(m, Append(geometry[m].faces, face), geometry[m].numPoints, geometry[m].attributes)
  /\ UNCHANGED pointersMade

(* AddAttribute keeps a copy, at an address of its own.                    *)
AddAttribute(m, type) ==
  /\ pointersMade < MaxPointers
  /\ Edit(m, geometry[m].faces, geometry[m].numPoints,
          geometry[m].attributes \o Fresh(<<type>>))
  /\ pointersMade' = pointersMade + 1

DeleteAttribute(m, i) ==
  /\ i \in DOMAIN geometry[m].attributes
  /\ Edit(m, geometry[m].faces, geometry[m].numPoints,
          [j \in 1 .. Len(geometry[m].attributes) - 1 |->
             geometry[m].attributes[IF j < i THEN j ELSE j + 1]])
  /\ UNCHANGED pointersMade

(* RemoveIsolatedPoints, Cleanup and AddAttributeWithConnectivity replace  *)
(* every attribute, whether or not its contents change.                    *)
CopiesKeptInPlace(types, m) ==              \* replaces nothing that is still there
  [i \in DOMAIN types |->
     IF i \in DOMAIN geometry[m].attributes THEN geometry[m].attributes[i] ELSE Fresh(types)[i]]
CopiesOf(types, m) == Fresh(types)

Rebuild(m, faces, numPoints, types) ==
  /\ pointersMade + Len(types) <= MaxPointers
  /\ Edit(m, faces, numPoints, CopiesOf(types, m))
  /\ pointersMade' = pointersMade + Len(types)

(* Points no face uses are dropped, the faces name the others anew.        *)
RemoveIsolatedPoints(m) ==
  \E renumbered \in [DOMAIN geometry[m].faces -> Faces], n \in 0 .. geometry[m].numPoints :
     Rebuild(m, renumbered, n, TypesOf(geometry[m].attributes))

(* Degenerate and duplicate faces may go as well.                          *)
Cleanup(m) ==
  /\ HasPosition(geometry[m])
  /\ \E k \in 0 .. Len(geometry[m].faces), n \in 0 .. geometry[m].numPoints :
       \E kept \in [1 .. k -> Faces] :
          Rebuild(m, kept, n, TypesOf(geometry[m].attributes))

(* A point whose corners get different values is duplicated.               *)
AddAttributeWithConnectivity(m, type) ==
  \E renumbered \in [DOMAIN geometry[m].faces -> Faces],
     n \in geometry[m].numPoints .. MaxPoints :
     Rebuild(m, renumbered, n, Append(TypesOf(geometry[m].attributes), type))

-----------------------------------------------------------------------------
(* Encode.                                                                 *)

InUse == {encode[e].scratch : e \in {x \in Encoders : encode[x].step # "idle"}}

LeftInPool(s) == pool                       \* hands a scratch out twice
TakenFrom(s) == pool \ {s}

(* EncodeWithStats acquires a scratch: a pooled one or, when the pool has  *)
(* none to give, a new one.                                                *)
Begin(e, m, splitOnSeams, native, method, s) ==
  /\ encode[e].step = "idle"
  /\ HasPosition(geometry[m])
  /\ s \notin InUse \/ s \in pool
  /\ pool' = TakenFrom(s)
  /\ IF s \in pool
     THEN UNCHANGED <<canonicalCache, baseCache, decodedMappingCache>>
     ELSE /\ canonicalCache' = [canonicalCache EXCEPT ![s] = None]
          /\ baseCache' = [baseCache EXCEPT ![s] = None]
          /\ decodedMappingCache' = [decodedMappingCache EXCEPT ![s] = None]
  /\ encode' = [encode EXCEPT ![e] =
         [step |-> "canonicalize", mesh |-> m, scratch |-> s, splitOnSeams |-> splitOnSeams,
          native |-> native, method |-> method, faces |-> None, table |-> None,
          mapping |-> None]]
  /\ UNCHANGED <<geometry, pointersMade>>

(* The faces are canonical only when the mesh is split on its seams and    *)
(* the traversal does not keep the native order.                           *)
FacesCanonical(e) == encode[e].splitOnSeams /\ ~ encode[e].native
Source(e) == geometry[encode[e].mesh]
Key(e) == KeyOf(encode[e].mesh, Source(e))

CanonicalKey(e) == Key(e)

BaseKeyOfAnyInput(e) ==                     \* forgets what the table was built from
  [mesh |-> Key(e), splitOnSeams |-> encode[e].splitOnSeams, facesCanonical |-> FALSE]
BaseKey(e) ==
  [mesh |-> Key(e), splitOnSeams |-> encode[e].splitOnSeams, facesCanonical |-> FacesCanonical(e)]

MappingKey(e) ==
  [mesh |-> Key(e), splitOnSeams |-> encode[e].splitOnSeams,
   facesCanonical |-> FacesCanonical(e), method |-> encode[e].method]

Hit(cache, e, key) ==
  LET entry == cache[encode[e].scratch] IN entry # None /\ entry.key = key

Stored(cache, e, key, value) ==
  [cache EXCEPT ![encode[e].scratch] = [key |-> key, value |-> value]]

Canonicalize(e) ==
  /\ encode[e].step = "canonicalize"
  /\ LET hit == Hit(canonicalCache, e, CanonicalKey(e))
         faces == IF FacesCanonical(e) /\ hit
                  THEN canonicalCache[encode[e].scratch].value
                  ELSE WorkingFaces(Source(e), FacesCanonical(e))
     IN  /\ encode' = [encode EXCEPT ![e].faces = faces, ![e].step = "table"]
         /\ canonicalCache' = IF FacesCanonical(e) /\ ~ hit
                              THEN Stored(canonicalCache, e, CanonicalKey(e), faces)
                              ELSE canonicalCache
  /\ UNCHANGED <<geometry, pointersMade, pool, baseCache, decodedMappingCache>>

(* prepareEdgebreakerBaseEncodingState works on the canonical mesh and     *)
(* files the table under the mesh that was passed to Encode.               *)
PrepareBase(e) ==
  /\ encode[e].step = "table"
  /\ LET hit == Hit(baseCache, e, BaseKey(e))
         table == IF hit THEN baseCache[encode[e].scratch].value
                  ELSE BaseTable(Source(e), encode[e].faces, encode[e].splitOnSeams)
     IN  /\ encode' = [encode EXCEPT ![e].table = table, ![e].step = "mapping"]
         /\ baseCache' = IF hit THEN baseCache ELSE Stored(baseCache, e, BaseKey(e), table)
  /\ UNCHANGED <<geometry, pointersMade, pool, canonicalCache, decodedMappingCache>>

(* Only standard traversals in canonical seed order share their mapping.   *)
UsesMappingCacheAlways(e) == encode[e].method = "standard"     \* in any seed order
UsesMappingCache(e) == encode[e].method = "standard" /\ ~ encode[e].native

MapPoints(e) ==
  /\ encode[e].step = "mapping"
  /\ LET hit == UsesMappingCache(e) /\ Hit(decodedMappingCache, e, MappingKey(e))
         mapping == IF hit THEN decodedMappingCache[encode[e].scratch].value
                    ELSE PointMapping(Source(e), encode[e].table, encode[e].native)
     IN  /\ encode' = [encode EXCEPT ![e].mapping = mapping, ![e].step = "values"]
         /\ decodedMappingCache' = IF UsesMappingCache(e) /\ ~ hit
                                   THEN Stored(decodedMappingCache, e, MappingKey(e), mapping)
                                   ELSE decodedMappingCache
  /\ UNCHANGED <<geometry, pointersMade, pool, canonicalCache, baseCache>>

(* The deferred release, after the attribute values are written or after   *)
(* an error or a cancelled context in any step: what was stored by then    *)
(* stays in the scratch.                                                   *)
Release(e) ==
  /\ encode[e].step # "idle"
  /\ pool' = pool \cup {encode[e].scratch}
  /\ encode' = [encode EXCEPT ![e] = Idle]
  /\ UNCHANGED <<geometry, pointersMade, canonicalCache, baseCache, decodedMappingCache>>

(* The garbage collector empties the pool when it likes.                   *)
Collect(s) ==
  /\ s \in pool
  /\ pool' = pool \ {s}
  /\ UNCHANGED <<geometry, pointersMade, canonicalCache, baseCache, decodedMappingCache,
                 encode>>

Next ==
  \/ \E m \in Meshes :
        \/ \E f \in Faces : AddFace(m, f)
        \/ \E t \in AttributeTypes : AddAttribute(m, t) \/ AddAttributeWithConnectivity(m, t)
        \/ \E i \in DOMAIN geometry[m].attributes : DeleteAttribute(m, i)
        \/ RemoveIsolatedPoints(m)
        \/ Cleanup(m)
  \/ \E e \in Encoders, m \in Meshes, split, native \in BOOLEAN, method \in Methods,
        s \in Scratches : Begin(e, m, split, native, method, s)
  \/ \E e \in Encoders : Canonicalize(e) \/ PrepareBase(e) \/ MapPoints(e) \/ Release(e)
  \/ \E s \in Scratches : Collect(s)

Spec == Init /\ [][Next]_vars

-----------------------------------------------------------------------------

MeshKeys == [mesh : Meshes, pointCount : 0 .. MaxPoints, faceCount : Nat, attrs : Seq(Attributes)]
BaseKeys == [mesh : MeshKeys, splitOnSeams : BOOLEAN, facesCanonical : BOOLEAN]
MappingKeys ==
  [mesh : MeshKeys, splitOnSeams : BOOLEAN, facesCanonical : BOOLEAN, method : Methods]

FaceLists == [canonical : BOOLEAN, of : Geometry]
BaseTables == [of : Geometry, faces : FaceLists, splitOnSeams : BOOLEAN]
PointMappings == [of : Geometry, table : BaseTables, nativeOrder : BOOLEAN]

Encodes ==
  [step : {"canonicalize", "table", "mapping", "values"}, mesh : Meshes, scratch : Scratches,
   splitOnSeams : BOOLEAN, native : BOOLEAN, method : Methods, faces : FaceLists \cup {None},
   table : BaseTables \cup {None}, mapping : PointMappings \cup {None}]

(* Types; a scratch is in the pool, in one encode, or does not exist.      *)
TypeOK ==
  /\ geometry \in [Meshes -> Geometry]
  /\ pointersMade \in 0 .. MaxPointers
  /\ pool \subseteq Scratches
  /\ canonicalCache \in [Scratches -> [key : MeshKeys, value : FaceLists] \cup {None}]
  /\ baseCache \in [Scratches -> [key : BaseKeys, value : BaseTables] \cup {None}]
  /\ decodedMappingCache \in
       [Scratches -> [key : MappingKeys, value : PointMappings] \cup {None}]
  /\ encode \in [Encoders -> Encodes \cup {Idle}]
  /\ \A e \in Encoders :
       encode[e].step # "idle" =>
         /\ encode[e].scratch \notin pool
         /\ \A x \in Encoders \ {e} :
              encode[x].step # "idle" => encode[x].scratch # encode[e].scratch

(* Whatever was encoded and edited before, and whatever failed half-way:   *)
(* the faces an encode works on are those it would compute from the mesh   *)
(* as it is now.                                                           *)
FacesAreCurrent ==
  \A e \in Encoders :
    encode[e].step \in {"table", "mapping", "values"} =>
      encode[e].faces = WorkingFaces(Source(e), FacesCanonical(e))

(* So is its corner table: built from the present mesh, and from faces in  *)
(* the order this encode's options ask for.                                *)
TableIsCurrent ==
  \A e \in Encoders :
    encode[e].step \in {"mapping", "values"} =>
      encode[e].table = BaseTable(Source(e), WorkingFaces(Source(e), FacesCanonical(e)),
                                  encode[e].splitOnSeams)

(* And so is the order its attribute values are written in, which a reader *)
(* can only reproduce for this mesh and this seed order.                   *)
MappingIsCurrent ==
  \A e \in Encoders :
    encode[e].step = "values" =>
      encode[e].mapping =
        PointMapping(Source(e),
                     BaseTable(Source(e), WorkingFaces(Source(e), FacesCanonical(e)),
                               encode[e].splitOnSeams),
                     encode[e].native)

=============================================================================

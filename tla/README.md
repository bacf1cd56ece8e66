# A verification model of go-draco

go-draco encodes and decodes Draco bitstreams in pure Go.  The heart of it is the
edgebreaker codec (`src/edgebreaker_*.go`, about a third of the code): it turns the
connectivity of a triangle mesh into a string over C, L, E, R, S and back.  The rest of
the library is arranged around it: attribute values are written in the order in which the
*reader* will meet the corners of the mesh, so an error of the connectivity coder does not
fail, it silently attaches values to the wrong points.  Beside it stand two smaller codecs,
the sequential one and the kd-tree one, and the entropy coders all three write through.

These modules model the edgebreaker codec from its half-edges to the attribute values on
the rebuilt mesh, the caches that let one encode reuse the work of another, the sequential
codec with prediction, the kd-tree codec with its quantized and shifted attributes, and
the entropy coders.  TLC checks them on small instances; TLAPS proves, for all values of
the constants, that **every mesh the edgebreaker codec accepts comes back**: its table is right
from its half-edges to its holes, the decoder takes every stream the encoder writes and rebuilds
the same connectivity, and on any other stream it builds a sound table.  Also that **every cloud
the kd-tree coder writes is read back**, each point as often as it was given, though the decoder
refuses some of them afterwards, when all points are read ([Findings](#findings)); that the coder's
scratch serves every node; that the caches are never stale; and that the sequential codec gives
back the corners of every mesh, and the values it sent wherever both sides predict alike and no
sum turns over.  Where they do not is in the [Findings](#findings) too.

- [Inventory](#inventory)
- [Modules](#modules)
- [Runs](#runs)
- [Proofs](#proofs)
- [Findings](#findings)
- [Not modelled](#not-modelled)
- [Plan](#plan)


## Inventory

| component | source | state it keeps | operations | status |
|---|---|---|---|---|
| base table | `edgebreaker_encode.go` 2870-3211 | corner table under construction, open half-edges per vertex, visited corners, hole numbers | load faces, match half-edges, split non-manifold vertices, number the boundary loops | modelled, proved |
| connectivity encoder | `edgebreaker_encode.go` 1728-1951, 2480-2640, 2802-2852 | visited faces, vertices and holes, traversal stack, split events | seed a component, five symbols, pop a branch, write the stream | partly: the choice of method and seed order is left to the instances; the round trip proved |
| connectivity decoder | `edgebreaker_decode.go` 658-1290 | decoded table, stack of active corners, split corners, merged vertices, hole flags | five symbols, start faces, compaction, completeness, hole pass | partly: bitstream 2.2 only; the round trip, and soundness on any stream, proved |
| attribute connectivity | `edgebreaker_topology.go` 440-621, `edgebreaker_decode.go` 1292-1490, 1650-1958, `edgebreaker_encode.go` 2071-2478, 3129-3160 | seam edges, attribute vertices, point of every corner, attribute sequences | mark a seam, recompute vertices, assign points, depth-first and prediction-degree orders | partly: layout and order, not the numbers |
| symbol coders | `edgebreaker_encode.go` 30-430, 3380-3540, `edgebreaker_decode.go` 188-526 | last symbol, valences, per-context symbols | encode or decode a symbol, predict it | partly: bitstream 2.2 only |
| encoder scratch and caches | `edgebreaker_encode.go` 500-850, `encoder.go` 30-62 | pool of scratches; per scratch the canonical faces, the base table, the decoded mapping | acquire, hit or compute and store, release | partly: pool and caches, proved; not the buffers |
| sequential codec | `encoder.go`, `decoder.go`, `sequential_codec_helpers.go`, `integer_codec.go` | portable values, prediction state, flags per context | write and read indices, integer and generic attributes | partly, proved: one attribute, four of the prediction methods |
| mesh prediction | `mesh_prediction*.go` | corner walks over decoded values | parallelogram and its variants, texture coordinates, normals | partly: the parallelogram methods |
| transforms | `internal/transform`, `octahedron.go` | bounds | wrap, octahedron | partly: wrap, proved |
| entropy coders | `internal/entropy` | rANS state, bit buffers, a decoder's tables | bits and symbols in, out | partly |
| kd-tree codec | `internal/codec/kdtree`, `kd_tree.go`, `quantization.go` | stack of cells, scratch of bases and levels | split, choose an axis, encode, decode, shift and quantize attributes | partly: bitstream 2.2 only; scratch, rows and the points that come back proved, attributes around them model-checked |
| byte and bit streams | `internal/core`, `internal/entropy/direct_bit.go` | a cursor | read, write, varints | partly: the packing of bits |
| mesh queries | `internal/topology/corner_table.go` | a manifold corner table | build, swing, AddFace, valence | partly: building and swinging |
| public API | `codec_api.go`, `decoder.go`, `encoder.go`, `decode_guards.go` | context, decoder scratch, limits | Encode, Decode, Peek, guards | not modelled |
| meshes and point clouds | `mesh*.go`, `point_cloud.go`, `attribute*.go`, `geometry_*.go`, `view.go` | faces, points, attributes | validating setters, cleanup, split, equivalence | not modelled; their edits as the caches see them |
| metadata, materials, options | `metadata/`, `material_texture.go`, `options.go` | records | setters, byte encoding | not modelled |
| fixtures and examples | `internal/fixtures`, `examples` | none | command line | not modelled |

### How the parts interact

`Encode` takes a scratch from a `sync.Pool`, orders and turns the faces of the mesh
(canonical order, unless the speed is 10), builds the base table of corners and opposite
corners, walks it with the traversal encoder, and then **runs the decoder on its own
symbols** (`computeDecodedPointMapping`) to learn where the reader will see each corner.
Only then are attribute values written.  `Decode` reads counts, split events, symbols,
start-face bits and seam bits from separate streams, last symbol first, rebuilds the
table, and lays points and attribute sequences out from the corner it has stored for each
vertex.  Encoder and decoder share no state but the stream; the two tables number faces,
corners and vertices differently, and everything rests on the walks visiting corresponding
corners in the same order.

The sequential codec writes faces as differences of indices, and each value of an
attribute as the difference to a prediction made from the values *before* it.  The encoder
walks the entries from the last to the first, the decoder from the first to the last; they
share the order, the transform's bounds and the crease flags.  The kd-tree codec writes the
points of a cloud as a tree of cells, reorders them as it goes, and keeps the state of all
open cells in a scratch both sides index by depth.  All of them end in the entropy coders:
bits packed into words, bits through rANS with one probability per coder, symbols through
rANS tables made from their frequencies.

The code has almost no concurrency of its own: no locks, no channels.  The shared state is
the pool of scratches.  What makes it hard is:

- *order*: split events are stored while later symbols are written, sent as unsigned
  differences and consumed backwards; seam bits name no edge at all; rANS gives bits and
  symbols back in reverse; crease flags are pushed by one walk and taken by the opposite one;
- *two sides that keep one count*: valences, contexts, axes, levels and sequences are never
  sent; each side computes them, and a difference shows up as wrong data and not as an error;
- *protocol sequences*: boundaries, handles, several components, non-manifold vertices and
  holes that touch combine in ways a test of a few meshes does not reach;
- *stale state*: the left side of an S waits on a stack while the right side is walked;
  vertices are merged at S and renumbered later, while hole flags and stored corners still
  carry the old numbers; caches, tables and scratches outlive what they were made for;
- *bounds*: vertex budgets (`max(vertices, 3F)` in the base table, `vertices + splits` in
  the decoder), scratch depths, state ranges and probabilities at 0 and 1.

`PROJECT.json` lists these hazards at their lines, with the property that watches each of
them, or the reason why none does.

### What makes each part correct

- *base table*: opposite corners are mutual, face one edge from its two sides, and no two
  matching half-edges stay open; in the end each vertex has one fan, with its leftmost
  corner stored; holes are the boundary loops; no proper mesh is turned away.
- *encoder*: every face is removed once; the walk never steps outside the mesh; events can
  be expressed in the stream.
- *decoder*: accepts what the encoder wrote; never merges vertices that were different;
  gives back the connectivity, its boundary flags and the leftmost corners; on any other
  stream it fails or keeps a table that can be walked.
- *attributes*: each corner of the decoded mesh has the values of its source corner; both
  sides walk a table of the same corners in the same order and store no value twice.
- *symbol coders*: at every step the reader finds the symbol the encoder wrote, and its
  streams are empty at the end.
- *caches*: an encode never uses faces, a table or a mapping that it would not have
  computed from the mesh as it is now.
- *sequential codec*: every value sent comes back; both sides predict the same; no flag and no
  symbol is left over.
- *kd-tree codec*: the points come back, in some order; the scratch is deep enough and no
  cell sees another's state; rows are as many and as wide as announced, whatever the stream.
- *entropy coders*: what goes in comes out, in the words, states and buffers the code has;
  a coder refuses only what it may refuse.


## Modules

| module | what it is |
|---|---|
| `CornerTables` | corner arithmetic, swings, fans and gluing, shared by all tables |
| `SmallMeshes` | the meshes of the runs |
| `EdgebreakerBaseTable` | the three passes over the faces, one action per loop iteration |
| `CornerTables_proof` | what the walks around a vertex meet, for every table of paired corners |
| `EdgebreakerBaseTable_proof` | theorems about the three passes |
| `EdgebreakerWire` | the variables that cross the wire, and which split events the stream can express |
| `EdgebreakerEncoder` | the traversal, one action per symbol, on top of the base table |
| `EdgebreakerDecoder` | the reader, one action per symbol and pass |
| `EdgebreakerRoundTrip` | encoder and decoder composed over one wire |
| `EdgebreakerRoundTrip_proof` | theorems about the encoder's walk, and the trace the walk leaves |
| `EdgebreakerMirror_proof` | the theorems of the round trip: the decoder mirrors the trace; the steps of `MeshTransfer` |
| `MeshTransfer` | the abstract promise of the codec, implemented by the round trip |
| `EdgebreakerStreams` | the decoder alone on streams no encoder need have written |
| `EdgebreakerStreams_proof` | theorems about the decoder on any stream; what each symbol does to a table that is being rebuilt |
| `AttributeLayout` | seams, attribute vertices, points and walks as operators on a table |
| `EdgebreakerAttributes` | both sides' attribute passes, on top of the round trip |
| `EdgebreakerSymbolCoders` | the standard, predictive and valence coders, beside the round trip |
| `EncodeScratchCaches` | the pool, the caches of a scratch, and the edits of a mesh between encodes |
| `EncodeScratchCaches_proof` | theorems about the caches |
| `BitPacking` | fields of bits in words and bytes |
| `RansBitSteps`, `RansBits` | one step of the rANS bit coder; the coder and the bank of 33 |
| `RansSymbols` | symbols through rANS tables, raw and tagged |
| `EntropyCoders` | the three entropy coders side by side |
| `KdTreeWire`, `KdTreeEncoder`, `KdTreeDecoder` | the streams, the two loops over the stack |
| `KdTreeRoundTrip` | the two in a row, or the decoder on arbitrary streams |
| `KdTreeRoundTrip_proof` | theorems about the scratch, the rows and the points that come back |
| `Quantization`, `KdTreeAttributes` | a cloud's attributes as one vector per point, and back |
| `WrapTransform` | corrections within the range of the values |
| `MeshPrediction` | parallelogram predictions over a corner table of their own |
| `SequentialCodec` | one attribute through the sequential codec |
| `SequentialCodec_proof` | theorems about it and the wrap transform |
| `MC...` | the instances TLC checks |

**Base table.**  `phase` is where `buildEdgebreakerBaseTable` is ("faces", "opposites",
"vertices", "holes", then "ready" or "rejected") and `cursor` its loop variable.
`openEdges[v]` is the run of the open half-edge array that belongs to vertex v; the array's
moving up of later entries is removal from a sequence.  `MatchHalfEdge` and `OpenHalfEdge` are
the two ways through the loop body of `computeEdgebreakerBaseOpposites`; `VisitFan` and
`SkipVisitedCorner` those of `computeEdgebreakerBaseVertexCorners`; `NumberHole` walks one
loop of `findEdgebreakerHoles`.  A walk around a fan or a boundary is one step: nothing
runs between its iterations.  Positions matter only in so far as they are equal, so a
vertex is its number.

**Encoder.**  `SeedInteriorFace` and `SeedBoundaryFace` are the two branches of the seed loop of
`encode`, the `Symbol*` actions one iteration each of the inner loop of
`encodeConnectivityFromCorner`, `DropVisitedBranch`, `EnterBranch` and `ComponentDone` its outer
loop.  The canonical seed order depends on a sort by point data, so any next face is
allowed; with `nativeTraversalOrder` it is the order of the faces.  `WriteStream` is the end
of `encode`: reversed corner order, seams, counts.

**Decoder.**  `symbolID`, `activeCorners`, `topologySplitCorner`, `invalidVertices` and `isVertHole`
are the locals of `decodeEdgebreakerConnectivity`; `dCornerVertex`, `dOpposite`,
`dVertexCorners` and `dNumVertices` the decoded table.  Every error return is `Fail`.  `FinishConnectivity`
checks completeness and compacts; `UpdateHoleCorners` is the pass `decodeEdgebreakerMesh` runs
afterwards and the encoder's own simulation does not.  The bytes of the stream are left
out: symbols, flags and events cross the wire as sequences.

**Attributes.**  `AttributeLayout` writes seams, attribute vertices, points and the two walks
as operators on a table, because the code runs them on three tables: the encoder's source
table, its own rebuilding of the decoded one, and the reader's.  In `EdgebreakerAttributes`
the encoder goes through `InitAttributeData`, `EncodeSeams`, `ExpectTable`, `ExpectSeams`,
`ExpectPoints` and per group `PrepareGroup` and `WriteHeader`, the reader through
`ReadSeams`, `AssignPointsToCorners` and per group `GenerateSequence` and
`InstantiateAttribute`.  `ExpectTable` has two forms in the code: the canonical order replays the
decoder, the native order takes a shortcut (`NativeTable`) that builds the same table without
it.  A value is named by the source entry it was copied from.  The encoder always chooses the
depth-first walk; the reader also knows the prediction-degree one, so a writer of vertex groups
may choose either here.

**Symbol coders.**  One behaviour runs all three coders beside the traversal.  `EncodeAndCode`
is a step of the traversal with the predictive encoder's `EncodeSymbol`; `DecodeAndRecord` the
simulated decoder that puts each symbol on the list of its valence; `DecodeAndRead` the
reader of each method, asked at every step for the symbol the decoder takes.

**Caches.**  What an encode computes is named by what it was computed *from*
(`WorkingFaces(g, ...)`, `BaseTable(g, ...)`, `PointMapping(g, ...)`): a value is stale exactly
when its name does not carry the present geometry.  `Canonicalize`, `PrepareBase` and `MapPoints`
are the three places where the code asks a cache before it computes.  `Release` may happen
in any step, which covers every error return and a cancelled context.  `Collect` is the
freedom `sync.Pool` has to drop what it holds.  The edits are the methods of a mesh that
write faces, points or attributes: `AddFace`, `AddAttribute`, `DeleteAttribute`,
`RemoveIsolatedPoints`, `Cleanup`, `AddAttributeWithConnectivity`, with any result those could
have.  Two facts of the code are built in.  Attributes a mesh owns are never written
again: `AddAttribute` stores a clone and every accessor returns one.  And a mesh is not
edited while it is being encoded: its methods take no lock, so a program that did so would
be racing already.

**Entropy coders.**  `BitPacking` keeps words and bytes as numbers and makes every shift the
code makes, in words of `WordSize` bits.  `RansBits` has one action per bit written or read;
the words in which the encoder collects its bits are a sequence.  `RansSymbols` follows a
call of `EncodeSymbols` and `DecodeSymbols`: choose raw or tagged, count, make the table
(the floating-point rounding may go either way where it could), correct it pass by pass, write
the table and the symbols last first, and read them with a table taken from the decoder's
cache or built.  `EntropyCoders` starts one of the three; they share no state.

**Kd-tree.**  One action is one turn of the loop over the explicit stack: `EncodeKnownNode`,
`EncodeSmallNode`, `SplitNode` and their counterparts.  `encodeBase`, `encodeLevels` and the
decoder's pair are the scratch, indexed by `stackPos`, which the next encode finds as the last
one left it.  `CancelEncoding` and `CancelDecoding` are the look at the context every
`PollInterval` stack lengths.  Under one of `Headers` the decoder stands alone: every read
gives any value of its width, or fails.  `KdTreeAttributes` takes the codec as something that
gives rows back in any order (what `RoundTrip` checks) and models what `kd_tree.go` does around it.

**Sequential codec.**  `PredictEntry` and `RestoreEntry` are one iteration of the loops of
`integer_codec.go`; `history` records what the encoder predicted for each entry and is read by
no action.  The crease flags of a parallelogram are any choice: the code's cost estimate
decides only how long the stream is.  `ReadIndex` and `ReadBadIndex` read one corner of the
connectivity; `Fail` is every error return.


## Runs

| run | instance | what it asks |
|---|---|---|
| `base_table` | every mesh of up to two faces, of three faces on four vertices, of four faces (one rotation each) on four vertices; larger shapes; improper inputs | the base table is right when it is accepted, and it is accepted |
| `round_trip` | meshes of up to three faces and the larger shapes, any seed order and the native one, without and with an attribute | encoder and decoder fit together; the pair implements `MeshTransfer` |
| `streams` | streams of up to five symbols with split events, start faces and counts that fit or do not | the decoder alone never builds a table its later passes could not walk, and ends |
| `caches` | one mesh of up to two faces, two goroutines, one scratch, two traversal methods, three edits that allocate | nothing stale is ever used |
| `attributes` | eleven meshes with no, one or two attributes: all labelings of the corners of up to two faces, every chart of the faces, seams that end at a vertex, a second position attribute | values arrive, the two walks agree, nothing is stored twice |
| `symbol_coders` | meshes of up to two faces, the larger shapes, fans of five to seven faces both ways round, two bipyramids | each reader names the symbol that was written, and uses its streams up |
| `entropy` | up to three fields in words of three and bytes of two bits; bits and numbers in the rANS coder with the code's own constants; symbol tables of 8, 16 and 4096, five levels, calls that share a decoder | what goes in comes out; refusals have a reason; the correction of a table ends |
| `kd_tree` | points of one and two axes at the levels that differ, two jobs in a row, cancelled or not; the decoder on arbitrary streams under small headers | points come back, the scratch serves every node, rows are those announced, both loops end |
| `kd_tree_attributes` | clouds of all types alone, in twos and in threes, with mappings; streams no encoder wrote | the cloud comes back; what is decoded fits its type |
| `sequential` | small clouds, and meshes with none to six parallelograms at a vertex, all methods, both forms of connectivity and symbols, every choice of creases; foreign streams | corners come back, and with `Faithful` both sides predict the same, what was sent comes back and nothing is left over |
| `isolated_vertex` | two meshes with a vertex no face uses | a finding, below |
| `predictive_fan` | fans of five to seven faces | a finding, below |

**Why these bounds.**  Whatever two half-edges can do to each other happens within two
faces; a third face on an edge, mirrored faces, two fans in one vertex and touching
boundary loops need three or four.  Meshes are taken up to renaming of the vertices and,
for four faces, up to rotation of the faces.  The larger shapes are there for what
small meshes cannot do: a closed surface (tetrahedron, octahedron), two boundaries
(annulus, octahedron with two holes), handles, which are what split events are for
(torus, torus with one and with two faces cut out), a one-sided surface, a bow tie, a
closed fan, a disc with an S.  Three symbols are enough for every pair of symbols to follow
each other before an S joins them; four and five symbols are checked with fewer counts.

In `caches` three bounds matter.  `MaxPointers = 2` lets an attribute be replaced, or a
position be deleted and added again, while an entry still names the old one.
`MaxFaces = 2` and `MaxPoints = 1` let counts change and come back.  One scratch makes both
goroutines meet the same entries in turn; entries of different scratches never meet, and the
theorems hold for any number.

A seam matters where it ends, where it goes around and where it cuts a fan in two, so
`attributes` has closed and open fans, both with every way to mark the corners of one vertex,
and the charts, which make seams between whole faces.  Two attributes are enough to
disagree about where a point ends.

The valence coder clamps valences to 2..7 and the predictive coder compares with six, so
`symbol_coders` needs vertices with more than six edges: the fans and the bipyramids with five
and nine sides.

In `entropy` the widths of words are scaled, the arithmetic is not: with `WordSize = 3` and
three fields of up to three bits each, fields begin and end at every offset of a word and
straddle one.  The rANS bit coder and the tables keep the code's own constants, because their
ranges and roundings depend on them; the long inputs have runs on either side of 171 bits,
where the rarer bit falls to the least probability.  A cache of two tables and three calls in
a row let a table be found, replaced and found again.

In `kd_tree`, `WordBits = 2`, `AxisThreshold = 4` and `MinAxisBits = 1` stand for 32, 64 and 4;
with up to six points a node is a known one, a small one, a split one, and on either side of
the threshold.  Levels 0, 2, 4 and 6 are those at which a stream changes its coder or the axis
is chosen.  `PollInterval = 2` makes the context be looked at in small trees.  In
`kd_tree_attributes`, `NarrowBits = 2` and `WideBits = 4` stand for 8 and 32, `MaxBits = 3` for
30: values at both ends of a type, and ranges wider than the signed half of it, occur.

In `sequential`, `HalfRange = 8` is an int32 of four bits, so that sums that turn over occur;
`FitIn = <<3, 5, 9, 16>>` makes one, two, three and four bytes occur; `Leftovers` are what the
decoder's buffer may still hold from an earlier attribute.

**Fairness.**  `BaseSpec`, `Spec` of the round trip, `ReaderSpec`, `Spec` of `KdTreeRoundTrip` and
`CoderSpec` assume weak fairness of their next-state relation (`CoderSpec` of the symbol coder's
steps): one goroutine runs straight-line code without waiting for anything, so it takes its
next step as long as it has one.  The other specifications claim nothing that needs it.
`CHECK_DEADLOCK FALSE` is set where the program ends; the caches never stop, so there deadlock
is checked.

**Liveness.**  `BaseTerminates` (the passes end), `ReadingEnds` (the decoder ends on every
stream, with a mesh or an error), `CodingEnds` (every kd-tree encode and decode ends, also one
whose split puts all points in one half), `CorrectionEnds` (the correction of a frequency table
ends), and the last conjunct of `MeshTransfer`: a mesh is refused before anything is written,
or it arrives.

**Refinement.**  `MeshTransfer` knows two sets: the glued pairs of corners that were sent and
the glued pairs received so far.  The receiver may only add pairs that were sent, never
removes one, does not give up and delivers when it has all.  `EdgebreakerRoundTrip` maps the
decoder's opposite corners to it through `SourceCorner`, which says for every decoded corner
the encoder's corner it stands for.


## Proofs

What a proof assumes are the `ASSUME`s of its module, which TLC evaluates in the runs.  They
say what the constants range over: the meshes, streams, jobs and headers are finite and well
formed, the counts and widths are natural numbers.

**`CornerTables_proof`**, for every set of corners and every table in which opposite corners
come in pairs:

- the walk to the left around a vertex meets no corner twice and ends at a gap or where it
  began, and so does the walk to the right;
- an open fan has one leftmost and one rightmost corner, and turning around its vertex from the
  boundary corner on one side ends at the one on the other;
- a walk by a permutation is a loop, the least set its steps stay within;
- the fan of a corner is the same set whichever of its corners one starts from
  (so fans are classes, and two fans are equal or disjoint), and all its corners have
  one leftmost corner.

The walks are recursive functions on paths.  That such a function exists is itself proved; what it returns is proved by least counterexample (`LeastNumber`), because a
step that no two corners share can come back only to where it began.

**`EdgebreakerBaseTable_proof`**, for every mesh with finitely many faces, manifold or not:

- `BaseTypeCorrect`: the passes keep their types, in particular within the vertex budget;
- `Pairing`: opposite corners come in pairs at every step;
- `PairsAreEdges`: a pair faces one edge from its two sides, never a face and its mirrored
  copy;
- `MatchingIsMaximal`: after the matching no two open half-edges could have been glued;
- `FansAreAlwaysSound`: in the end each vertex number belongs to one fan and is stored with
  that fan's leftmost corner, and the budget of vertices is used up only by meshes
  with degenerate faces or unused vertices;
- `HolesAreAlwaysLoops`: the third pass numbers the vertices of the boundary and no others, each
  boundary loop has one number of its own, and no number is left out.

The inductive invariant is `MatchingInv`.  That pairs are mutual is not inductive, because the
matching glues a corner it finds *in a list*: one must know that whatever is in the list
is still open, ends at the vertex whose list it is in, and starts where the list says
(`OpenEdgesAreOpen`).  Maximality needs the converse: a corner that was read and is still
open is in its vertex's list (`UnmatchedAreListed`), and two listed corners never fit each
other (`NothingLeftBehind`).  After the matching the table only changes its vertex
numbers, and the statement is carried over in terms of the mesh (`PairedTable`).

For the fans `FanInv` adds that the second pass works fan by fan: the visited corners are a union
of whole fans (`VisitedFans`), a visited vertex is stored with the leftmost corner of a visited
fan (`VisitedVerticesAreStored`), and a corner not yet visited has the vertex the mesh gave
it (`NumbersInUse`).  The budget is a count: when the faces use all vertices, every number in use
has a corner of its own and the corner in hand is none of them, so fewer than `3F` numbers
are in use and one is left (`NumbersLeft`).

For the holes `HoleInv` adds that whole loops have numbers, one each (`NumberedLoops`).  It rests on
what the second pass has made of the table: a vertex has one fan, an open fan has one rightmost
and one leftmost corner (`OneRightmost`, `OneLeftmost`), so a vertex has one boundary corner that
comes before it and the turn around a boundary vertex, which ends at the other side
of its fan (`TurnEnds`), is a permutation of the boundary corners (`BoundaryTurns`).  A walk of
turns therefore comes back to where it began, and halts there because of the number it
has just given and not at a number of another loop (`LoopIsWalked`).  None of this holds
of the mesh as it was read: boundaries that touch in a vertex are apart only because the
second pass has split that vertex.

**`EdgebreakerStreams_proof`**, for streams of any length and content, with any counts in
their headers:

- `TablesAreAlwaysSound`: the decoder's table has only corners and vertices that exist, opposite
  corners in pairs, faces of symbols that share the edges they are glued at, and stored corners
  that are their vertex's;
- `DecodedMeshesAreComplete`: a decoder that ends without an error has decoded every
  announced face and given every corner a vertex within the count.

Neither is inductive.  `ReaderInv` adds where the corners the decoder holds on to can point (its
stack, its split corners, its stored corners: into the faces decoded so far, never into the one
that comes next, `CornersAreOfDecodedFaces`), and that the part on top of the stack grows at
the face decoded last (`TopIsTheLastFace`): the table may be too small for the faces of the stream, and whenever
it has room for the part on top it has room for the others, so no walk leaves it.  While symbols are read, the invariant has a simpler form
(`SymbolsSoFar`), with one lemma for each symbol; S is the hard one, because it merges a vertex
of one part into a vertex of another.  At the end `RanksCountUp` shows that
compacting leaves no number out.

The module also holds the lemmas about rebuilding a table that is known (`Cut`, `Rebuilt`): if a
table with m corners is the part of a table T between its first m corners, with vertices that are
exactly the fans of that part and stored corners at their left ends, then the next symbol
makes it that part with m + 3 corners, *provided the symbol tells the truth about T*.  `StepC`,
`StepSide`, `StepE`, `StepS` and `StepInterior` say what the truth is: C that the ring around
its tip is closed by the new face, S that it is not, and that the two parts it joins meet in two
vertices that are one in T (`PartsAreTwo`).

**`EdgebreakerRoundTrip_proof`**, for every mesh with finitely many faces, every seed order and
every order of the seeds:

- `WalkIsAlwaysSound`: the inner loop always stands on a corner of a face that is not removed yet, so
  C and S, which do not look whether a neighbour is there, never follow one that is not; in
  the end each face has been met once; and the state of both sides keeps its types to the end
  of decoding;
- `SplitEventsAreAlwaysEncodable`: the split events come out in an order whose differences the
  stream can express (the first half of `StreamIsAccepted`), so the encoder turns away no mesh its
  base table accepted.

The inductive invariant is `RoundTripInv`, of which `WalkInv` is the encoder's part.  That C finds a
fresh face to its right is an argument about vertices: the tip is not visited, but all vertices
of a removed face are (`VerticesOfVisitedFaces`), so no face at the tip is removed; and the tip is
not on a boundary, so no face at it is missing (`MissingFaceIsABoundary`).  To keep
that, the walk must have visited the other two vertices of a face before it enters it, the ends
of the edge it comes through: `GatesAreVisited`, for the corner in hand and for every branch on
the stack.  An interior start and every symbol pass this on to the neighbours; a boundary
start has it only because `encodeHole` visits the vertex on the other side of the boundary
edge, which takes the walk around the hole to its end (`HoleIsWalked`, from the permutation of
the boundary corners proved for the base table).  `HoleInv` is carried through the
three passes to the moment the walk begins, where `HolesMakeATable` turns it into what the walk
needs of the table (`TableIsReady`).  The split events rest on less: an event names the number of
the current symbol and one given before (`EventsFollowTheWalk`).  On the decoder's side the invariant is
`ReaderInv` of `EdgebreakerStreams_proof`; that the corners on its stack are corners of the table, which is
false of arbitrary streams, needs that the encoder writes no more symbols than faces.

The second half of the module proves what the walk leaves behind, as an invariant of the encoder
(`TraceIsKept`, `TraceInv`).  Step i removed the face of corner `Walked(i)` and wrote `symbols[i]`.
`SymbolsFit` says that the symbol is true of the face at that moment, and that the walk went on
where the symbol says.  `BranchesNest` says where it went on after an E: at the left side of an S
with everything between the two steps belonging to later S, or at the root of a component;
`StackWaits` keeps it, because what waits on the stack is just that.  `BitsAreOfRoots`: the start bits
are those of the roots, in order.  `EventsAreWritten` and `EventsAreTrue`: there is a split event for
every edge that leads from a later face back to the face of an S, and for no other.
`FrontierHasGates`: whatever part of the mesh is left and touches what is gone has a gate through
which the walk will still enter it; so nothing is left at the end.  `VerticesAreCounted`: the open
and closed fans of what is left, and the vertices the symbols so far stand for, are all
vertices and one more for each S; so the reader's budget is exact.

**`EdgebreakerMirror_proof`**, for every mesh with finitely many faces, every seed order and every
number of attributes:

- `StreamsAreAlwaysAccepted`: the decoder takes every stream the encoder writes to its end (the
  whole of `StreamIsAccepted`): no symbol finds an occupied edge, an empty stack, or too few
  vertices, and no face is missing;
- `MeshesAlwaysComeBack`: the decoded connectivity is the encoded one, faces, edges and vertices,
  and on the way no two corners share a vertex that do not share it in the source;
- `BoundariesAreAlwaysExact`: the hole flags name the boundary vertices of the source, and each vertex
  is stored with the left end of its fan;
- `HolePassNeverMovesACorner`: the pass over the boundary vertices, which the encoder's own run
  of the decoder leaves out, changes nothing, so both lay out attributes from one table;
- `SeamBitsAlwaysReachTheirEdges`: there are as many seam bits as the reader asks for, and each
  comes when its edge does;
- `TransferIsImplemented`: initial state and every step of the round trip are those of `MeshTransfer`.
  That a mesh arrives in the end is its liveness and is left to TLC.

The inductive invariant is `MirrorInv`: the trace, `RoundTripInv`, and `DecoderMirror` once the stream is
written.  The decoder names its corners in the order it decodes them, so the table it has to
arrive at can be written down before it starts (`WholeTable`, the source table under
`SourceCorner`).  While symbols are read (`SymbolsMirrored`)

- its table is the part of `WholeTable` between the corners decoded so far (`Rebuilt`);
- its stack is the ascending list of the *open gates* of that part: the first corners of decoded
  faces whose first edge is not glued yet (`OpenGates`);
- its vertices are as many as the symbols read stand for, so `VerticesAreCounted` bounds them;
- the corners remembered from split events are, for each S still to come, the edge of its left
  side if that is decoded and is no gate (`SplitLeft`), and the events not yet consumed are those
  of symbols still to come.

`SymbolsTell` turns what the trace says of a step into what the five lemmas on rebuilding ask for.  For
an S this takes the nesting of branches: the part on top is its right side because steps follow
each other, and the part below it, or the one a split event names, is its left side because what
was pushed between has been popped (`PopsWhatWasPushed`).  When the symbols end, the open gates
are those of the roots (`SymbolsEnd`); a set bit adds the start face with its three closed rings, a
clear one leaves the gate a boundary.  In the end the table is `WholeTable`, and compaction renames
vertices without merging any (`CompactionRenames`).

The seam bits (`SeamInv`) are two loops over the corners in the same order: the writer takes the
corners whose neighbour has not had its turn, the reader those whose opposite has a larger
number, and on `WholeTable` these are the same places (`BitsAreAskedFor`).  What such loops take is
an induction over their length (`LoopsAgree`).

**`EncodeScratchCaches_proof`**, for any number of meshes, goroutines and scratches and any bounds:

- `CacheTypeCorrect`: types, and a scratch is never in two hands;
- `CachedFacesAreCurrent`, `CachedTableIsCurrent`, `CachedMappingIsCurrent`: what an encode
  uses, cached or not, is what it would compute from the mesh as it is now.

The inductive invariant is `CacheInv`.  Its core is `Recognizable(m, g)`, a statement about an
entry made from geometry g and a mesh m that has been edited any number of times since:
*as long as m still owns one of the attributes g had, all that happened to the faces is
that some were appended, and the points are the same*.  It holds because the methods that
only append or drop (`AddFace`, `AddAttribute`, `DeleteAttribute`) change no old face, and the
methods that change faces or points replace every attribute by a new one
(`EditsAreEdits`).  A key match then means equal attributes, of which there is one at least
because encoding requires a position, so the faces are a prefix of the present ones and of
the same number: the geometry is the present one (`SameKeySameMesh`).  This is the argument
the three `match` functions rely on and nowhere state; a method of `Mesh` that moved
points or rewrote faces and kept the attributes would break it.

**`SequentialCodec_proof`**, for any meshes, clouds, values and methods, any width of the word,
and with everything the decoder's buffer may hold from before:

- `Invariance`: the inductive invariant holds;
- `GeometryAlwaysComesBack`: a decoded mesh has the corners that were written, always; the values
  that were sent come back in the cases named by `Faithful`, and the encoder's streams are decoded
  without an error in these cases at least, and with another method than the constrained one always;
- `PredictionsAlwaysAgree`: in the same cases the decoder predicts for each entry what the encoder
  predicted;
- `NothingIsEverLeftOver`: symbols stay below the span of the values, always, and in the same cases
  a decoded stream is used up, but for what a generic attribute without a mapping has
  beyond the points (`NoSurplus`).

`Faithful` leaves out two cases, and the code fails in both.  One is a range of values so wide
that sums of int32 turn over (`SumsFit`).  The other is a mesh method on a mesh whose points do not
each have the entry of their own number (`SameWalk`): the encoder walks it by entry, the
decoder by point.  And what comes back is what was *sent* (`ValuesSent`), which for numbers that
have a mapping is the first entries and not the values of the points.  Only for generic
attributes, and for numbers without a mapping, is it the value of every point.

The inductive invariant `IInv` has a conjunct per phase of the two programs.  The argument has
three parts.  Predictions look back only: the prediction for an entry depends on the values
before it and nothing else (`PredictionLooksBack`), so the decoder, which has restored just
those, computes what the encoder did when it knew all.  The wrap transform loses nothing
when both predict the same (`WrapIsReversible`).  And the crease flags, which are needed for
that, are stacks: the encoder pushes them from the last entry to the first, the decoder takes
them from the first to the last, and each group is turned round on the way
(`FlagsComeBack`).  `history` ties the two walks together: `WhileRestoring` says that the flags
the decoder has left are those of the entries it has still to restore.

The same module, about `WrapTransform`, for a word of any width:

- `SymbolsAreReversible`: a signed number becomes a symbol without sign and is itself again;
- `CorrectionsAreSmall`: a correction lies between the transform's two bounds;
- `WrapIsReversible`: whatever was predicted, the same prediction and the correction give the
  value back, *as long as value and correction fit in the word*.  `RoomForCorrections` is what
  that takes of the bounds, and it is needed: the code adds in int32 and does not look.

**`KdTreeRoundTrip_proof`**, for words of any width, clouds of any size and dimension, one or
several jobs on one scratch, and streams nobody need have written:

- `ScratchIsAlwaysSound`: every pending node finds in the scratch, at the position it names, the
  cell its points lie in, and no split wants a position `kdTreeScratchSizes` does not give;
- `RowsAreAlwaysAnnounced`: a decode that ends has emitted as many rows as the header announced,
  none with more bits than the header gives;
- `PointsAlwaysComeBack`: the decoder reads the encoder's streams to their end without an error,
  leaves no bit unread, and emits each point as often as it was encoded.  If it refuses the cloud,
  it does so after that, and because the numbers end unclean (`NumbersEndClean`, the model of
  `EndDecoding`).

The inductive invariant of the first two is `KdInv`.  Three ideas carry it.  A split makes one more bit
known and moves one half up by one position, so a node at position p knows p bits at least:
the positions end when the bits do (`NodesAreDeep`).  The positions of pending nodes rise
along the stack, so that a split, which is of the last node, writes no position an earlier
node still needs; and their ranges of points lie apart (`RangesAreApart`), so that reordering the
points of one moves none of another's.  And a cell
is a multiple of its own size that ends within the space, also in positions nothing uses
at the moment (`CellIsSound`): this also shows that `newBase[axis] += modifier` never turns
over its 32 bits, on streams of any content.  For the rows, what the pending nodes announce and
what was emitted add up to the header's count at every step, because the reader refuses halves
that do not add up.

`PointsAlwaysComeBack` speaks of a decoder that runs after the encoder, on streams the encoder
has long left.  `StreamInv` says what that decoder will do while they are still being written:
there is a sequence of decoder states, each the outcome of one turn of its loop on the streams so
far (`Turn`), and the last of them has the encoder's stack, bases and levels, has read all that
was written, and has as rows the points the encoder is done with (`Mirrors`).  Four facts carry it.
A turn stays a turn when the streams grow (`Extends`).  Each step of the encoder adds
one turn: a split writes the axis where it is chosen by counts, then the smaller half, and moves the same
bound to the same new position (`StackIsSplit`, `ScratchIsSplit`); it orders the points of one
range only, so the points it is done with stay (`Exchanges`).  Without a choice of axes
they take turns, and those that had theirs in this round know one bit more than the others
(`TakesTurns`): so a node of which one axis is known whole is known whole, and
its points need not be written.  And at a state from which
a turn is foreseen the decoder can do nothing else (`Forced`), so it follows the sequence to its
end, where what it emitted is a reordering of what was encoded (`ReorderedOccurrences`).

The assumptions are those of the code: a job's points have as many coordinates as its
dimension, each within the bit length, and the number of points and of the last axis can be
written in 32 bits.  The last is `Fits32(job.dimension - 1)` in `JobsAssumption`; the code needs
no more, since `kdTreeScratchSizes` refuses a dimension whose scratch passes the limit of
an allocation (`dynamic.go:436`), which is some thousand axes.

**Only model-checked**: the attributes and the symbol coders; the entropy coders; the
attributes around the kd-tree's points; liveness, that of `MeshTransfer` included.

- Liveness under fairness and ENABLED are out of the prover's reach.
- The attributes take their sequences from walks and from `SelectSeq`, which the prover cannot
  expand.  That they start from the same tables is `MeshesAlwaysComeBack` and
  `HolePassNeverMovesACorner`, that they start from the same seams `SeamBitsAlwaysReachTheirEdges`.
- The bit packing uses `Bitwise`, which no theorem can be about, and the rANS tables are folds over
  sequences, whose unfolding the provers do not find.
- The library's induction theorems cannot be instantiated.  Where an induction was needed it
  was made by hand from the least counterexample, once for each recursive function (powers of
  two, walks around a vertex, turns and walks along a boundary); folds and sequences built by recursion on sequences are left.


## Findings

`isolated_vertex` checks `ProperTrianglesAreAccepted` and finds it violated.  The base table has
`max(numVertices, 3F)` vertices, which is enough for one vertex per fan when faces use
all vertices (`RoomForEveryFan`, part of `FansAreSound`, checked in `base_table`), but isolated
vertices use up the same budget.  A bow tie of two faces with one vertex no face uses is
refused ("failed to split non-manifold edgebreaker vertex"), the same two faces without it are
encoded.  `TestMeshEdgebreakerIsolatedPointCleanup` says of a mesh with isolated points that it
is encoded and decodes as the cleaned-up mesh.

`predictive_fan` checks `PredictiveNamesEachSymbol` and finds it violated.  The predictive encoder
starts from `Valence` (`edgebreaker_topology.go` 400-425), which counts the *faces* around a
vertex: for a boundary vertex one less than its edges, which is what the reader counts
(`edgebreaker_decode.go` 483).  Seven faces around a boundary vertex are enough for the encoder
to guess R, find it right and write only a bit, where the reader guesses C.  On closed surfaces
the two agree (`ClosedSurfacesPredict`, part of `EachSymbolIsNamed`).

Other disagreements met while modelling, which no document contradicts plainly enough for a run:

- every attribute of the position type is skipped when groups are made, though only the first is
  the mesh's position: a second one is silently dropped (`edgebreaker_encode.go` 2305);
- `EndDecoding` of the bit decoder reports an unclean end after a rare last bit
  (`rans_bit.go` 231); `UncleanOnlyAfterRareLastBit` shows this to be the only case;
- the kd-tree decoder takes such an end for an error (`dynamic.go` 666): a cloud whose numbers are
  written with rANS (levels 2 and up) and end in a bit of probability 1/256, after some 170 equal ones, is
  encoded and then refused, with all its points already read.  `PointsAlwaysComeBack` has the
  only case; the bounds of `kd_tree` are too small to meet it;
- a kd-tree cloud whose INT32 values lie further apart than 2^31 - 1 is encoded, and refused when
  decoded (`kd_tree.go` 1004); `NarrowSpansDecode` shows that narrower ones are decoded;
- sequential integer attributes are written by point number and ignore an explicit mapping, or
  fail with fewer entries than points (`encoder.go` 509, `integer_codec.go` 448); with a mesh
  method the two sides then predict from different corners as well, so that values change and
  constrained flags can run out (`mesh_prediction.go` 437);
- a generic attribute with the identity mapping and more entries than points is written whole
  and shifts the rest of the stream (`encoder.go` 483-492);
- the sum of prediction and correction turns over near the limits of int32 (`wrap.go` 119); the
  proof's `RoomForCorrections` says when it does not.

None of these is caught by a property.  `ValuesArrive` follows the code and skips a second position
attribute too; `CloudComesBack` and `GeometryComesBack` name the cases in their conditions.


## Not modelled

- Formatting, wording of errors, allocation and reuse of buffers inside a scratch: every
  buffer is sized and filled before use (`grow...Slice`).  `sequentialDataUsed` of a decoder,
  which is never set back between calls (`decoder.go` 88), costs memory only.
- Headers, varints and the order of the parts of a stream: straight-line code whose two sides
  mirror each other line by line.
- Bitstreams older than 2.2: their layouts differ in where parts lie, not in how they are
  used; modelling each would double the readers for files this encoder does not write.
- The traversal's safety limit of `(4F + 1) * F` iterations, which `EachFaceIsWalkedOnce` (part of
  `WalkIsSound`) shows to be out of reach.
- Texture coordinate and geometric normal prediction, the octahedral transforms and the
  float32 rounding of quantization: numerics of square roots, cross products and floating
  point, which TLC has no numbers for.
- Several sequential attributes in one stream, the portable copies behind quantized ones, the
  widths of `storeDecodedInt32Values`, streams of zero points.  One attribute is enough for
  what the walks share; the copies follow them value by value.
- The public API: guards on sizes, checks of a context between passes, `Peek`.  The context
  checks are modelled where they leave something behind (the scratch of the kd-tree coder, the
  pool).
- Meshes and point clouds: containers whose setters copy what they are given; their edits are
  in `EncodeScratchCaches`, cleanup itself is in the plan.
- `AddFace`, valence and neighbour queries of the public corner table.
- Metadata, materials, options: records with setters and a byte encoding.
- Fixture generator and examples: pure I/O.


## Plan

Done: base table, encoder, decoder, round trip, streams, attributes, symbol coders, caches,
entropy coders, kd-tree codec, sequential codec, and the theorems above.  Left, in order:

1. Theorems: from the same table and seams both sides lay out the same points (`WalksAgree`); the
   kd-tree's attributes (`DecodedCloudIsSound`).
2. `MeshEdits`: cleanup, isolated points and attributes with connectivity on concrete meshes,
   shown to implement the edits of `EncodeScratchCaches`.
3. `CornerTableQueries` (`internal/topology`), with what `AddFace` leaves behind after an error.
4. `DecoderSession`: decoder scratch, context and guards of the public API.
5. The octahedral transform on its integer grid.

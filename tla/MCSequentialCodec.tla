-------------------------- MODULE MCSequentialCodec --------------------------
(***************************************************************************)
(* Small attributes for SequentialCodec, on meshes whose last vertex has   *)
(* none to five parallelograms to be predicted from.                       *)
(***************************************************************************)
EXTENDS SequentialCodec

S == INSTANCE SmallMeshes

Identity(n) == [p \in 0 .. n - 1 |-> p]

Integers(mesh, isCloud, by, given) ==
  [mesh |-> mesh, cloud |-> isCloud, points |-> mesh.numVertices, kind |-> "integer",
   method |-> by, mapped |-> FALSE, entryOf |-> Identity(mesh.numVertices),
   entries |-> Cardinality(DOMAIN given), values |-> given]

Mapped(it, entryOf) == [it EXCEPT !.mapped = TRUE, !.entryOf = entryOf]
Generic(it) == [it EXCEPT !.kind = "generic"]

(* Bytes so narrow that numbers of one to four of them occur.              *)
MCFitIn == <<3, 5, 9, 16>>

CloudOf(n) == S!MeshOf(n, <<>>)
Pair == S!MeshOf(4, <<<<0, 1, 2>>, <<2, 1, 3>>>>)
PairTurned == S!MeshOf(4, <<<<0, 1, 2>>, <<1, 2, 3>>>>)
LastFirst == S!MeshOf(4, <<<<3, 2, 1>>, <<1, 2, 0>>>>)
ThreeOnAnEdge == S!MeshOf(5, <<<<0, 1, 2>>, <<2, 1, 3>>, <<1, 2, 4>>>>)
Degenerate == S!MeshOf(3, <<<<0, 1, 1>>>>)
(* Five and six triangles around a last vertex, with more behind them.     *)
Rim(n) ==
  S!MeshOf(n + 2, [i \in 1 .. 2 * n |->
     IF i <= n THEN <<n + 1, i, (i % n) + 1>> ELSE <<0, ((i - n) % n) + 1, i - n>>])

SmallValues == {-3, 0, 3}
AllOn(n, some) == [0 .. n - 1 -> some]
Wave(n, a, b) == [e \in 0 .. n - 1 |-> ((a * e + b * (e \div 2)) % 7) - 3]
Waves(n) == {Wave(n, a, b) : a \in {0, 1, 3}, b \in {0, 2, 5}}

MCJobs ==
  {Integers(CloudOf(n), TRUE, by, given) :
      n \in {3}, by \in Methods \ {"multi", "constrained"}, given \in AllOn(3, {-8, -3, 2, 7})}
  \cup {Integers(mesh, FALSE, by, given) :
      mesh \in {Pair, PairTurned, LastFirst}, by \in Methods, given \in AllOn(4, SmallValues)}
  \cup {Integers(mesh, FALSE, by, given) :
      mesh \in {Rim(4), S!Octahedron}, by \in {"parallelogram", "multi"}, given \in Waves(6)}
  \cup {Integers(mesh, FALSE, by, Wave(mesh.numVertices, 3, 5)) :
      mesh \in {Rim(3), Rim(4), Rim(5)}, by \in MeshMethods}
  \cup {Integers(mesh, FALSE, by, Wave(5, 1, 2)) :
      mesh \in {ThreeOnAnEdge, Degenerate}, by \in MeshMethods \cup {None}}
  \cup {Integers(CloudOf(0), TRUE, "difference", <<>>)}
  \cup UNION {{it, Generic(it)} : it \in
      {Mapped(Integers(Pair, FALSE, by, Wave(n, 1, 2)), [p \in 0 .. 3 |-> IF p < 2 THEN 1 - p ELSE 2]) :
          n \in {3, 4, 5}, by \in {"difference", "parallelogram", "constrained"}}
      \cup {Integers(Pair, FALSE, None, Wave(n, 1, 2)) : n \in {4, 5}}}

Sent(method_, sent, flags_) ==
  [points |-> 4, compressed |-> TRUE, indices |-> <<0, 2, 2, 0, 3, 4>>, kind |-> "integer",
   cloud |-> FALSE, method |-> method_, width |-> 0, symbols |-> sent, min |-> -3, max |-> 3,
   flags |-> flags_]

SomeSymbols == [e \in 0 .. 3 |-> e]

MCStreams ==
  {[Sent("difference", SomeSymbols, NoCreases) EXCEPT !.indices = list] :
      list \in {<<0, 2, 7>>, <<0, 2, 8>>}}
  \cup {[Sent("difference", SomeSymbols, NoCreases) EXCEPT !.width = 5],
        [Sent("difference", SomeSymbols, NoCreases) EXCEPT !.min = 4],
        [Sent("parallelogram", SomeSymbols, NoCreases) EXCEPT !.max = 7],
        Sent("difference", [e \in 0 .. 2 |-> e], NoCreases),
        Sent("constrained", SomeSymbols, NoCreases),
        Sent("constrained", SomeSymbols, [NoCreases EXCEPT ![1] = <<<<>>>>]),
        Sent("constrained", SomeSymbols, [NoCreases EXCEPT ![1] = <<<<TRUE>>, <<FALSE>>>>])}

=============================================================================

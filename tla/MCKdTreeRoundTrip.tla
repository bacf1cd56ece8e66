-------------------------- MODULE MCKdTreeRoundTrip --------------------------
EXTENDS KdTreeRoundTrip

P1(x) == [a \in {0} |-> x]
P2(x, y) == [a \in 0 .. 1 |-> IF a = 0 THEN x ELSE y]

MCJob(ps, d, b, l) == [points |-> ps, dimension |-> d, bitLength |-> b, level |-> l]

(* Clouds on a line, of every shape up to three points, and in the plane:  *)
(* a corner with many points, a diagonal, equal points, a cloud that fills *)
(* one half of each axis.                                                  *)
Lines == UNION {[1 .. n -> {P1(x) : x \in 0 .. 3}] : n \in 0 .. 3}
Planes ==
  {<<P2(0, 0), P2(0, 1), P2(1, 0), P2(3, 3), P2(0, 0)>>,
   <<P2(0, 0), P2(1, 1), P2(2, 2), P2(3, 3)>>,
   <<P2(2, 1), P2(2, 1), P2(2, 1), P2(2, 1), P2(2, 1)>>,
   <<P2(2, 0), P2(3, 1), P2(2, 1), P2(3, 0), P2(2, 3), P2(0, 2)>>,
   <<P2(3, 0), P2(0, 3)>>,
   <<P2(1, 3), P2(0, 3), P2(1, 2), P2(3, 3)>>}

MCLevels == {0, 2, 4, 6}
First == {MCJob(ps, 1, 2, 0) : ps \in {<<P1(0), P1(3), P1(1), P1(1), P1(3)>>}}
         \cup {MCJob(ps, 2, 2, l) : ps \in Planes, l \in {0, 6}}
Second == {MCJob(ps, 1, 2, l) : ps \in Lines, l \in {4, 6}}
          \cup {MCJob(ps, 2, 2, l) : ps \in Planes, l \in MCLevels}

MCJobs ==
  {<<j, MCJob(<<P1(1), P1(0), P1(1)>>, 1, 1, l)>> : j \in First, l \in {0, 6}} \cup
  {<<j, k>> : j \in First, k \in {MCJob(ps, 2, 2, l) : ps \in Planes, l \in MCLevels}}
  \cup {<<j>> : j \in Second}
  \cup {<<MCJob(<<>>, 1, 0, 7)>>, <<MCJob(<<P1(0), P1(0), P1(0)>>, 1, 0, 0)>>}

(* Headers of streams no encoder wrote: 3 points and more of two axes are  *)
(* left to one bit each, for the streams' sake.                            *)
MCHeader(b, n, l, d) == [bitLength |-> b, numPoints |-> n, level |-> l, dimension |-> d]
MCHeaders ==
  {MCHeader(b, n, 6, 1) : b \in 0 .. 3, n \in 0 .. 4}
  \cup {MCHeader(1, n, l, 2) : n \in 1 .. 5, l \in {0, 6}}
  \cup {MCHeader(2, n, 6, 2) : n \in 1 .. 3}
  \cup {MCHeader(2, 3, 0, 1), MCHeader(1, 1, 7, 1), MCHeader(1, 1, 0, 0)}

=============================================================================

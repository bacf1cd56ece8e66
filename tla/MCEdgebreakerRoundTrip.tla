----------------------- MODULE MCEdgebreakerRoundTrip -----------------------
EXTENDS EdgebreakerRoundTrip, SmallMeshes

MCMeshes == UpToTwoFaces \cup ThreeFaces(0 .. 3) \cup LargerMeshes

=============================================================================

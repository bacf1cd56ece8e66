------------------------ MODULE MCEncodeScratchCaches ------------------------
EXTENDS EncodeScratchCaches, TLC

Symmetric == Permutations(Encoders)

=============================================================================

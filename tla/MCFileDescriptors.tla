------------------------- MODULE MCFileDescriptors -------------------------
(* Instances of module FileDescriptors for TLC. *)
EXTENDS FileDescriptors

FileSymmetry == Permutations(Descs)

\* dup, and dup2 to a number that m_NextIndex reaches later.
SomeRequests == {-1, 8}

NoRequests == {}

\* Opened with O_PATH: neither read nor write.
NoModes == {{}}

NoPositions == {}

SomePositions == {-1, 2}

AllModes == {{"read"}, {"read", "write"}}
=============================================================================

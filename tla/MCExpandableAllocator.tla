------------------------ MODULE MCExpandableAllocator -----------------------
(* Instances of ExpandableAllocator for TLC. *)
EXTENDS ExpandableAllocator, TLC

MiB == kMiB             \* in units of 512 bytes
MiBytes == 1048576

StreamSymmetry == Permutations(Streams)

\* ExpandableAllocator.cfg: a small request; a quarter of a large chunk; exactly
\* one large chunk, with its padding; both large chunks of the device; and more
\* than the addresses of a segment.  A segment reserves 60 MiB of addresses for
\* large blocks, 46 MiB for small ones.
SafetyRequests == {1000, 5 * MiBytes, 20 * MiBytes - 32, 30 * MiBytes, 70 * MiBytes}
SafetyBases    == {0, 60 * MiB}
SafetyMemory   == 40 * MiB

\* ExpandableReturns.cfg: with a request beyond the addresses of a segment.
ReturnsRequests == {5 * MiBytes, 30 * MiBytes, 70 * MiBytes}
ReturnsBases    == {0, 60 * MiB, 120 * MiB}

\* ExpandableLimit.cfg: a limit of 30 MiB, on a device of 40, and a request below
\* it that takes a second large chunk.
LimitRequests  == {5 * MiBytes, 25 * MiBytes}
LimitFractions == {30 * MiB}
=============================================================================

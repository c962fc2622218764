------------------------- MODULE MCCachingAllocator -------------------------
(* Instances of CachingAllocator for TLC. *)
EXTENDS CachingAllocator, TLC

MiB == kMiB             \* in units of 512 bytes
MiBytes == 1048576

StreamSymmetry == Permutations(Streams)

\* CachingAllocator.cfg: a small request, 3 units of a 2 MiB buffer, and one
\* that takes a quarter of a 20 MiB buffer; room for a segment of each kind, or
\* two small ones.
SafetyRequests == {1000, 5 * MiBytes}
SafetyBases    == {0, 20 * MiB}
SafetyMemory   == 22 * MiB

\* Options.cfg: max_split_size_mb:21, the lowest value that is accepted.  The
\* smallest large request; one just below it, whose segment of 22 MiB is above
\* it; and one that takes two such segments.  The limit holds a segment of 20 MiB
\* and not two, on a device that holds two; collection starts above half of it.
MaxSplit         == 21 * MiB
MaxSplitRequests == {MiBytes + 1000, 20 * MiBytes + 1000, 40 * MiBytes}
MaxSplitBases    == {0, 22 * MiB}
MaxSplitMemory   == 44 * MiB
LimitsFractions  == {30 * MiB}

\* Returns.cfg: every option on, requests of every kind.
ReturnsRequests == {1000, 5 * MiBytes, 40 * MiBytes}
=============================================================================

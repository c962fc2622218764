------------------------- MODULE MCAllocatorFrontEnd -------------------------
(* Instances of AllocatorFrontEnd for TLC: two devices; s3 is a stream of the   *)
(* second, and the other stream of the first.  The two addresses are on the    *)
(* first device, and share its allocator.                                      *)
EXTENDS AllocatorFrontEnd, TLC

CONSTANTS s3, p1, p2, t1, t2

MCDevices  == {0, 1}
MCDeviceOf == [s \in Streams |-> IF s = s3 THEN 1 ELSE 0]
MCHomeOf   == [p \in Addresses |-> 0]

Symmetry == Permutations({t1, t2}) \cup Permutations({p1, p2})
=============================================================================

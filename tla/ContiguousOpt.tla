---------------------------- MODULE ContiguousOpt ----------------------------
(* How a view that is not contiguous is made contiguous: the optimizers of   *)
(* backends/npu/framework/contiguous, each of which recognises a pattern in  *)
(* the sizes, strides and offset of the view against those of its storage,   *)
(* and then has an operator of the device copy it.                           *)
(*                                                                           *)
(* A tensor is a record: sizes, strides, offset, and base_sizes and          *)
(* base_strides, the shape its storage was last described with.  A copy is   *)
(* the sequence of the places of the storage it reads, so that what is       *)
(* copied can be compared with what should be, whatever the values are.  An  *)
(* operator that may not apply returns a set, empty or of one element.       *)
EXTENDS Integers, Sequences, FiniteSets, SequencesExt, FiniteSetsExt

multiply_integers(s) ==
  LET product[i \in 0 .. Len(s)] == IF i = 0 THEN 1 ELSE product[i - 1] * s[i]
  IN  product[Len(s)]

Added(s) ==
  LET sum[i \in 0 .. Len(s)] == IF i = 0 THEN 0 ELSE sum[i - 1] + s[i]
  IN  sum[Len(s)]

ComputeStrideFromShape(sizes) ==
  [i \in DOMAIN sizes |-> multiply_integers(SubSeq(sizes, i + 1, Len(sizes)))]

\* The places of a view, in the order of its elements: what a copy should read.
Elements(sizes, strides, offset) ==
  LET inner == ComputeStrideFromShape(sizes)
  IN  [p \in 1 .. multiply_integers(sizes) |->
         offset + Added([i \in DOMAIN sizes |->
                           strides[i] * (((p - 1) \div inner[i]) % sizes[i])])]

is_contiguous(d) ==
  \A i \in DOMAIN d.sizes :
    d.sizes[i] # 1 => d.strides[i] = ComputeStrideFromShape(d.sizes)[i]

find_match_optimization_cases(d) ==
  IF \E i \in DOMAIN d.strides : d.strides[i] = 0 THEN <<"broadcast">>
  ELSE IF \E i \in 2 .. Len(d.strides) : d.strides[i - 1] < d.strides[i]
    THEN <<"permute">>
  ELSE IF multiply_integers(d.sizes) < multiply_integers(d.base_sizes)
    THEN <<"slice", "select", "indexing">>
  ELSE <<>>

------------------------------------------------------------------------------
(* Slices.  An offset is taken apart with the strides, largest first.        *)

Left(offset, strides) ==
  LET left[i \in 0 .. Len(strides)] ==
        IF i = 0 THEN offset ELSE left[i - 1] % strides[i]
  IN  left

Location(offset, strides) ==
  [i \in DOMAIN strides |-> Left(offset, strides)[i - 1] \div strides[i]]

SelectsLast(d) ==
  LET n == Len(d.base_sizes)
  IN  /\ Last(d.strides) # 1 /\ Len(d.strides) < n
      /\ multiply_integers(d.sizes)
           < multiply_integers(d.base_sizes) \div d.base_sizes[n]

\* The view that is looked for, with that dimension back.
Sliced(d) == [sizes |-> IF SelectsLast(d) THEN Append(d.sizes, 1) ELSE d.sizes,
              strides |-> IF SelectsLast(d) THEN Append(d.strides, 1) ELSE d.strides]

SmallerSlice(d) ==
  LET v == Sliced(d)
  IN  /\ v.strides = d.base_strides /\ Len(v.sizes) = Len(d.base_sizes)
      /\ \A i \in DOMAIN v.sizes : v.sizes[i] <= d.base_sizes[i]

\* The offset is then divided by every stride: integers, so the process dies.
Divides0(d) == SmallerSlice(d) /\ 0 \in Range(d.base_strides)

can_use_slice(d) ==
  LET v == Sliced(d)
      offsets == Location(d.offset, v.strides)
  IN  IF /\ SmallerSlice(d) /\ ~Divides0(d)
         /\ Left(d.offset, v.strides)[Len(v.strides)] = 0
         /\ \A i \in DOMAIN v.sizes :
              /\ offsets[i] + v.sizes[i] <= d.base_sizes[i]
              /\ offsets[i] # 0 => v.sizes[i] # d.base_sizes[i]
      THEN {[offsets |-> offsets, sizes |-> v.sizes]} ELSE {}

slice_to_contiguous(d, p) ==
  Elements(p.sizes, d.base_strides,
           Added([i \in DOMAIN p.sizes |-> p.offsets[i] * d.base_strides[i]]))

\* npu_indexing_out: every step-th place of each dimension from start to end.
StridedSlice(d, start, end, step) ==
  Elements([i \in DOMAIN start |->
              LET stop == Min({end[i], d.base_sizes[i]})
              IN  Max({0, (stop - start[i] + step[i] - 1) \div step[i]})],
           [i \in DOMAIN start |-> step[i] * d.base_strides[i]],
           Added([i \in DOMAIN start |-> start[i] * d.base_strides[i]]))

(* A selection lacks one dimension of the base: the first that differs.      *)

can_use_select(d) ==
  LET differ == {i \in DOMAIN d.sizes : \/ d.base_sizes[i] # d.sizes[i]
                                        \/ d.base_strides[i] # d.strides[i]}
      dim == Min(differ \union {Len(d.base_sizes)})
  IN  IF /\ Len(d.base_sizes) = Len(d.sizes) + 1
         /\ InsertAt(d.sizes, dim, d.base_sizes[dim]) = d.base_sizes
         /\ InsertAt(d.strides, dim, d.base_strides[dim]) = d.base_strides
      THEN {[start |-> [i \in DOMAIN d.base_sizes |->
                          IF i = dim THEN d.offset \div d.base_strides[dim] ELSE 0],
             length |-> [d.base_sizes EXCEPT ![dim] = 1]]}
      ELSE {}

select_to_contiguous(d, p) ==
  StridedSlice(d, p.start, [i \in DOMAIN p.start |-> p.start[i] + p.length[i]],
               [i \in DOMAIN p.start |-> 1])

(* Steps: views of which a stride is a multiple of the base's.               *)

can_use_indexing(d) ==
  LET n == Len(d.sizes)
      step == [i \in 1 .. n |-> d.strides[i] \div d.base_strides[i]]
      start == Location(d.offset, d.base_strides)
      end == [i \in 1 .. n |-> start[i] + d.sizes[i] * step[i]]
  IN  IF /\ multiply_integers(d.sizes) < multiply_integers(d.base_sizes)
         /\ n = Len(d.base_sizes)
         /\ \A i \in 1 .. n : /\ d.base_strides[i] # 0
                              /\ d.strides[i] >= d.base_strides[i]
                              /\ d.strides[i] % d.base_strides[i] = 0
         /\ \A i \in 1 .. n : end[i] - step[i] <= d.base_sizes[i]
         /\ multiply_integers(step) # 1 /\ step[n] = 1
         /\ \A i \in 1 .. n : step[i] = 1 => d.sizes[i] = d.base_sizes[i]
         /\ \A i \in 1 .. n - 1 :
              step[i] # 1 =>
                /\ d.sizes[i] # 1
                /\ step[i + 1] = 1 =>
                     d.strides[i] = d.sizes[i + 1] * d.strides[i + 1] * step[i]
      THEN {[start |-> start, end |-> end, step |-> step]} ELSE {}

indexing_to_contiguous(d, p) == StridedSlice(d, p.start, p.end, p.step)

------------------------------------------------------------------------------
(* Permutations: in the order of decreasing strides (of equal ones, of       *)
(* decreasing sizes) the view must be contiguous.                            *)

\* The order of the dimensions; what is equal stays as it was.
Before(d, i, j) ==
  \/ d.strides[i] > d.strides[j]
  \/ d.strides[i] = d.strides[j] /\ d.sizes[i] > d.sizes[j]
  \/ d.strides[i] = d.strides[j] /\ d.sizes[i] = d.sizes[j] /\ i < j

\* The dimension at each place of that order: k - 1 dimensions are before it.
Reordered(d) ==
  [k \in DOMAIN d.sizes |->
     CHOOSE i \in DOMAIN d.sizes :
       Cardinality({j \in DOMAIN d.sizes : Before(d, j, i)}) = k - 1]

\* Mutant of Placed: the permutation is not inverted.
PlacedNot(indexes) == indexes

\* perm[indexes[i]] = i
Placed(indexes) ==
  [k \in DOMAIN indexes |-> CHOOSE i \in DOMAIN indexes : indexes[i] = k]

can_use_permute(d) ==
  LET indexes == Reordered(d)
      sizes == [i \in DOMAIN indexes |-> d.sizes[indexes[i]]]
  IN  IF /\ multiply_integers(d.sizes) = multiply_integers(d.base_sizes)
         /\ [i \in DOMAIN indexes |-> d.strides[indexes[i]]]
              = ComputeStrideFromShape(sizes)
      THEN {[sizes |-> sizes, perm |-> Placed(indexes)]}
      ELSE {}

permute_to_contiguous(d, p) ==
  LET strides == ComputeStrideFromShape(p.sizes)
  IN  Elements([k \in DOMAIN p.perm |-> p.sizes[p.perm[k]]],
               [k \in DOMAIN p.perm |-> strides[p.perm[k]]], d.offset)

(* Expanded views: dimensions in front, and dimensions that had size 1.      *)

can_use_broadcast(d) ==
  LET expand == Len(d.sizes) - Len(d.base_sizes)
      src_size == [i \in DOMAIN d.sizes |-> IF d.strides[i] = 0 THEN 1 ELSE d.sizes[i]]
  IN  IF /\ expand >= 0
         /\ \A i \in DOMAIN d.base_sizes :
              IF d.strides[i + expand] = 0
              THEN d.base_sizes[i] = 1 /\ d.sizes[i + expand] # 1
              ELSE /\ d.sizes[i + expand] = d.base_sizes[i]
                   /\ d.strides[i + expand] = d.base_strides[i]
         /\ \A i \in 1 .. expand : d.sizes[i] = 1 \/ d.strides[i] = 0
         /\ expand > 0 \/ \E i \in DOMAIN d.strides : d.strides[i] = 0
         /\ is_contiguous([sizes |-> src_size, strides |-> d.strides])
      THEN {[src_size |-> src_size]} ELSE {}

broadcast_to_contiguous(d, p) ==
  Elements(d.sizes, [i \in DOMAIN d.sizes |->
                       IF p.src_size[i] = 1 THEN 0
                       ELSE ComputeStrideFromShape(p.src_size)[i]], d.offset)

check_reshape_match(d) == IF is_contiguous(d) THEN {[sizes |-> d.sizes]} ELSE {}

reshape_out(d, p) == Elements(p.sizes, ComputeStrideFromShape(p.sizes), d.offset)
=============================================================================

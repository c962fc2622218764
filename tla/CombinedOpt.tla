----------------------------- MODULE CombinedOpt -----------------------------
(* The optimizer for a view of a view: it infers a first view whose copy     *)
(* makes the second a plain case, and copies twice.  Both copies go through  *)
(* the cache, under descriptions that the storage of the view, or a tensor   *)
(* made for the purpose, has only in the meantime.                           *)
EXTENDS ContiguousCache

can_be_optimize_from_default_cases(d) ==
  \E c \in {"reshape", "slice", "select"} : PlainMatch(c, d) # {}

------------------------------------------------------------------------------
maybe_permute(d) == \E i \in 2 .. Len(d.strides) : d.strides[i - 1] < d.strides[i]

maybe_select(d) ==
  \A i \in 2 .. Len(d.sizes) :
    LET span == d.sizes[i] * d.strides[i]
    IN  /\ d.strides[i - 1] % span = 0
        /\ d.strides[i - 1] # span =>
             d.offset % span = 0 /\ d.strides[1] = d.base_strides[1]

maybe_slice(d) ==
  /\ multiply_integers(d.sizes) < multiply_integers(d.base_sizes)
  /\ \A i \in 1 .. Len(d.sizes) - 2 : d.strides[i] % d.strides[i + 1] = 0

\* The base of a permuted view: its dimensions in the order of their strides.
\* The size of a stride is that of the last dimension that has it and is not 1.
InferPermute(d) ==
  LET strides == [k \in DOMAIN d.strides |-> d.strides[Reordered(d)[k]]]
      wide(s) == {i \in 2 .. Len(d.sizes) : d.strides[i] = s /\ d.sizes[i] # 1}
      size(s) == IF wide(s) # {} THEN d.sizes[Max(wide(s))]
                 ELSE IF d.strides[1] = s THEN d.sizes[1] ELSE 1
  IN  [strides |-> strides, offset |-> 0,
       sizes |-> [i \in DOMAIN strides |->
                    IF i > 1 /\ strides[i] = strides[i - 1] THEN 1
                    ELSE size(strides[i])]]

\* The base of a selection: a dimension more, where the strides leave a gap.
InferSelect(d) ==
  LET span(i) == IF i = Len(d.sizes) THEN 1 ELSE d.sizes[i + 1] * d.strides[i + 1]
      gap == Max({i \in DOMAIN d.sizes : d.strides[i] # span(i)})
  IN  [sizes |-> InsertAt(d.sizes, gap + 1, d.strides[gap] \div span(gap)),
       strides |-> InsertAt(d.strides, gap + 1, span(gap)),
       offset |-> d.offset % d.strides[gap]]

\* The base of a slice: the sizes that the strides speak of.
InferSlice(d) ==
  LET inner == [i \in 2 .. Len(d.sizes) |-> d.strides[i - 1] \div d.strides[i]]
      sizes == [i \in DOMAIN d.sizes |-> IF i = 1 THEN 1 ELSE inner[i]]
  IN  [sizes |-> [sizes EXCEPT ![1] = multiply_integers(d.base_sizes)
                                        \div multiply_integers(sizes)],
       strides |-> d.strides, offset |-> d.offset]

OnBase(v, base) ==
  [sizes |-> v.sizes, strides |-> v.strides, offset |-> v.offset,
   base_sizes |-> base.sizes, base_strides |-> base.strides]

can_infer_view_tensor(d) ==
  IF maybe_permute(d) THEN {InferPermute(d)}
  ELSE IF maybe_select(d)
    THEN {b \in {InferSelect(d)} : maybe_select(OnBase(d, b))}
  ELSE IF /\ maybe_slice(d)
          /\ \A i \in 2 .. Len(d.sizes) : d.strides[i - 1] % d.strides[i] = 0
    THEN {b \in {InferSlice(d)} : maybe_slice(OnBase(d, b))}
  ELSE {}

\* The views to copy: the one inferred, from the storage as it is, and then
\* this one, from what the first copy has made.
can_use_combined(d) ==
  IF is_contiguous(d) \/ (\E i \in DOMAIN d.strides : d.strides[i] = 0) THEN {}
  ELSE LET stack(b) == [outer |-> [sizes |-> d.sizes, strides |-> d.strides,
                                   offset |-> b.offset],
                        inner |-> [b EXCEPT !.offset = d.offset - b.offset]]
           base == [sizes |-> d.base_sizes, strides |-> d.base_strides]
       IN  {s \in {stack(b) : b \in can_infer_view_tensor(d)} :
              can_be_optimize_from_default_cases(OnBase(s.inner, base))}

------------------------------------------------------------------------------
Described(sizes) == [sizes |-> sizes, strides |-> ComputeStrideFromShape(sizes)]

\* Places that a view needs, and the description of a storage set_ enlarges.
Reach(v) == v.offset + 1 + Added([i \in DOMAIN v.sizes |->
                                    (v.sizes[i] - 1) * v.strides[i]])

UpdateDesc(numel, sizes) ==
  Described(IF numel > multiply_integers(sizes) THEN <<numel>> ELSE sizes)

\* A storage: how many places, and how it is described.
SetView(v, storage) ==
  IF Reach(v) > storage.numel
  THEN [numel |-> Reach(v), base |-> UpdateDesc(Reach(v), v.sizes)]
  ELSE storage

\* The strides of the second view, in what the first copy makes of a slice.
reconstruct_tensor(outer, inner) ==
  LET computed == ComputeStrideFromShape(inner.sizes)
      at(k) == {i \in DOMAIN outer.sizes : inner.sizes[i] * inner.strides[i] = k}
  IN  [outer EXCEPT !.strides =
         [i \in DOMAIN outer.sizes |->
            LET k == outer.sizes[i] * outer.strides[i]
            IN  IF at(k) = {} THEN 0 ELSE computed[Max(at(k))]]]

FirstCases == <<"reshape", "slice", "select">>
LastCases == <<"reshape", "permute", "slice", "select">>

\* A copy within a combined one.  An entry for an equal description is used,
\* whatever its case; that of a combined copy would have it combine again, which
\* never happens (NeverNested) and is left out.
CopyByGivenCases(cache, d, cases) ==
  LET entry == cache[GetHash_(d)]
  IN  IF Hit(cache, d)
      THEN [copies |-> IF entry.case \in Plain
                       THEN {PlainCopy(entry.case, d, entry.params)} ELSE {},
            cache |-> cache]
      ELSE FirstPlain(cache, d, cases)

\* The second copy: of outer, in a storage that set_ may have to enlarge for it.
SecondDesc(outer, storage) == OnBase(outer, SetView(outer, storage).base)
SecondCopy(cache, outer, storage) ==
  CopyByGivenCases(cache, SecondDesc(outer, storage), LastCases)

\* The first view is the whole of its storage, as it is described or nearly so:
\* the storage is described by it, and nothing copied.
AsItIs(inner, storage) ==
  /\ is_contiguous(inner) /\ inner.offset = 0
  /\ multiply_integers(inner.sizes) = multiply_integers(storage.base.sizes)

Refreshed(inner, storage) ==
  [storage EXCEPT !.base = [sizes |-> inner.sizes, strides |-> inner.strides]]

\* Otherwise the first copy makes a tensor, with the sizes of the inner view.
Transfer(inner) ==
  [numel |-> multiply_integers(inner.sizes), base |-> Described(inner.sizes)]

\* The second copy reads it, in the places where the first has put what it read.
Composed(A, B) == {[k \in DOMAIN x[2] |-> x[1][x[2][k] + 1]] : x \in A \X B}

BothCopies(first, second) ==
  [copies |-> Composed(first.copies, second.copies), cache |-> second.cache]

AfterFirst(first, outer, inner) ==
  IF first.copies = {} THEN first
  ELSE BothCopies(first, SecondCopy(first.cache, outer, Transfer(inner)))

ThroughTransfer(cache, outer, inner, storage) ==
  AfterFirst(CopyByGivenCases(cache, OnBase(inner, storage.base), FirstCases), outer, inner)

TwoCopies(cache, outer, inner, storage) ==
  IF AsItIs(inner, storage) THEN SecondCopy(cache, outer, Refreshed(inner, storage))
  ELSE IF can_be_optimize_from_default_cases(OnBase(inner, storage.base))
    THEN ThroughTransfer(cache, outer, inner, storage)
  ELSE [copies |-> {}, cache |-> cache]

\* The second view, after the first is set on the storage.
OuterOf(p, storage) ==
  IF maybe_slice(OnBase(p.inner, storage.base))
  THEN reconstruct_tensor(p.outer, p.inner) ELSE p.outer

\* The storage with the first view set on it, and the places it has afterwards.
WithInner(d, p, numel) ==
  SetView(p.inner, [numel |-> numel,
                    base |-> [sizes |-> d.base_sizes, strides |-> d.base_strides]])

PlacesAfter(p, storage) ==
  IF AsItIs(p.inner, storage)
  THEN SetView(OuterOf(p, storage), Refreshed(p.inner, storage)).numel
  ELSE storage.numel

WithPlaces(two, numel) == [copies |-> two.copies, cache |-> two.cache, numel |-> numel]

\* The copies (none when it fails half way), what the cache holds and the places
\* the storage of the source has afterwards.  Its description is put back.
combined_to_contiguous(cache, d, p, numel) ==
  LET storage == WithInner(d, p, numel)
  IN  WithPlaces(TwoCopies(cache, OuterOf(p, storage), p.inner, storage),
                 PlacesAfter(p, storage))

\* The descriptions under which it copies, in the order in which it does.
Meantime(d, p, numel) ==
  LET storage == WithInner(d, p, numel)
      outer == OuterOf(p, storage)
  IN  IF AsItIs(p.inner, storage) THEN {SecondDesc(outer, Refreshed(p.inner, storage))}
      ELSE {OnBase(p.inner, storage.base), SecondDesc(outer, Transfer(p.inner))}

------------------------------------------------------------------------------
Match(case, d) == IF case = "combined" THEN can_use_combined(d) ELSE PlainMatch(case, d)

\* CachedRun of what an entry holds, and Run: what an optimizer copies with the
\* parameters p, what the cache holds then, and the places of the storage.
Run(cache, case, d, p, numel) ==
  IF case = "combined" THEN combined_to_contiguous(cache, d, p, numel)
  ELSE [copies |-> {PlainCopy(case, d, p)}, cache |-> cache, numel |-> numel]
=============================================================================

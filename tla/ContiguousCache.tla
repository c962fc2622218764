--------------------------- MODULE ContiguousCache ---------------------------
(* The optimizers of a single pattern, by the names they are registered      *)
(* with, and the cache of what they have found: by the hash of a view's      *)
(* description, the case that took it and the parameters of its copy.        *)
EXTENDS ContiguousOpt

CONSTANTS
  Buckets,         \* values of the hash: few, so that descriptions collide
  CachedMaxSize

ASSUME CacheAssumption == Buckets \in Nat \ {0} /\ CachedMaxSize \in Nat

\* What an optimizer extracts from the view, and what it then copies.
Plain == {"slice", "select", "indexing", "permute", "broadcast", "reshape"}

PlainMatch(case, d) ==
  CASE case = "slice"     -> can_use_slice(d)
    [] case = "select"    -> can_use_select(d)
    [] case = "indexing"  -> can_use_indexing(d)
    [] case = "permute"   -> can_use_permute(d)
    [] case = "broadcast" -> can_use_broadcast(d)
    [] case = "reshape"   -> check_reshape_match(d)

PlainCopy(case, d, p) ==
  CASE case = "slice"     -> slice_to_contiguous(d, p)
    [] case = "select"    -> select_to_contiguous(d, p)
    [] case = "indexing"  -> indexing_to_contiguous(d, p)
    [] case = "permute"   -> permute_to_contiguous(d, p)
    [] case = "broadcast" -> broadcast_to_contiguous(d, p)
    [] case = "reshape"   -> reshape_out(d, p)

------------------------------------------------------------------------------
GetHash_(d) == (Added(d.sizes) + Added(d.strides) + 3 * d.offset) % Buckets

\* Mutants of equalDesc: the offset, or what describes the storage, is left out.
equalDescNot(a, b) == [a EXCEPT !.offset = b.offset] = b
equalDescBase(a, b) ==
  [a EXCEPT !.base_sizes = b.base_sizes, !.base_strides = b.base_strides] = b

equalDesc(a, b) == a = b

\* The hash is taken; and it is so by an entry for an equal description.
Taken(cache, d) == GetHash_(d) \in DOMAIN cache
Hit(cache, d) == Taken(cache, d) /\ equalDesc(d, cache[GetHash_(d)].desc)

\* Mutant of HasRoom: one entry too many.
HasRoomNot(cache) == Cardinality(DOMAIN cache) <= CachedMaxSize

HasRoom(cache) == Cardinality(DOMAIN cache) < CachedMaxSize

\* cached_contiguous_opt[hash] = cached_opt, whatever is there.
Put(cache, d, case, p) ==
  [h \in DOMAIN cache \union {GetHash_(d)} |->
     IF h = GetHash_(d) THEN [desc |-> d, case |-> case, params |-> p] ELSE cache[h]]

\* The case is tried with the cache, to store what it finds.
MayStore(cache, d) == ~Taken(cache, d) /\ HasRoom(cache)

\* Slices and permutations are stored, before they are copied.
Stored(cache, d, case, p) ==
  IF case \in {"slice", "permute"} /\ MayStore(cache, d)
  THEN Put(cache, d, case, p) ELSE cache

\* The parameters that the test of the case has extracted.
Chosen(case, d) == CHOOSE q \in PlainMatch(case, d) : TRUE

RunCase(cache, d, case, p) ==
  [case |-> case, copies |-> {PlainCopy(case, d, p)}, cache |-> Stored(cache, d, case, p)]

\* No hit: the first case of the list that applies copies, if one does.
RunFirst(cache, d, cases, able) ==
  IF able = {} THEN [case |-> "none", copies |-> {}, cache |-> cache]
  ELSE LET case == cases[Min(able)]
       IN  RunCase(cache, d, case, Chosen(case, d))

FirstPlain(cache, d, cases) ==
  RunFirst(cache, d, cases, {k \in DOMAIN cases : PlainMatch(cases[k], d) # {}})
=============================================================================

------------------------------ MODULE ViewCopy ------------------------------
(* A tensor of base format and its views: the operations that make views,   *)
(* those that rewrite the description of the storage (an operand, resize_), *)
(* and the copies (copy_, contiguous, clone) of a view, which look for an   *)
(* optimizer by that description, and in a cache by its hash.               *)
EXTENDS CombinedOpt

CONSTANTS
  Bases,           \* sizes a tensor is made with
  Resizes,         \* sizes given to resize_
  MaxDims,         \* dimensions of a view
  MaxNumel,        \* elements of a view
  MaxOps,          \* operations other than copies
  CombinedEnable   \* COMBINED_ENABLE

ASSUME ViewAssumption ==
  /\ \A s \in Bases \union Resizes : s \in Seq(Nat \ {0}) /\ Len(s) \in 1 .. MaxDims
  /\ MaxDims \in Nat /\ MaxNumel \in Nat /\ MaxOps \in Nat
  /\ CombinedEnable \in BOOLEAN

VARIABLES
  storage,   \* its places (numel), and npu_desc_: base sizes and base strides
  view,      \* the tensor at hand: sizes, strides and offset
  reshaped,  \* it is not a view of the described tensor, or a reshape of one
  cache,     \* cached_contiguous_opt, by hash
  copy,      \* the last copy, of the view at hand: the case, and the places read
  ops

vars == <<storage, view, reshaped, cache, copy, ops>>

WholeOf(base) == [sizes |-> base.sizes, strides |-> base.strides, offset |-> 0]

NoCopy == [case |-> "none", elements |-> <<>>]

Init ==
  \E s \in Bases :
    /\ storage = [numel |-> multiply_integers(s), base |-> Described(s)]
    /\ view = WholeOf(Described(s))
    /\ reshaped = FALSE /\ cache = <<>> /\ copy = NoCopy /\ ops = 0

------------------------------------------------------------------------------
(* Views.                                                                    *)

Becomes(sizes, strides, offset) ==
  /\ ops < MaxOps /\ ops' = ops + 1
  /\ Len(sizes) \in 1 .. MaxDims /\ multiply_integers(sizes) \in 1 .. MaxNumel
  /\ view' = [sizes |-> sizes, strides |-> strides, offset |-> offset]
  /\ copy' = NoCopy
  /\ UNCHANGED <<storage, cache>>

Keeps == UNCHANGED reshaped
Reshapes == reshaped' = TRUE

\* The tensor that the storage describes is taken up again.
Whole ==
  /\ Becomes(storage.base.sizes, storage.base.strides, 0)
  /\ reshaped' = (storage.base # Described(storage.base.sizes))

Narrow(i, a, b, step) ==
  /\ Becomes([view.sizes EXCEPT ![i] = (b - a + step - 1) \div step],
             [view.strides EXCEPT ![i] = @ * step],
             view.offset + a * view.strides[i])
  /\ Keeps

Select(i, k) ==
  /\ Becomes(RemoveAt(view.sizes, i), RemoveAt(view.strides, i),
             view.offset + k * view.strides[i])
  /\ Keeps

Transpose(i, j) ==
  LET swapped(s) == [s EXCEPT ![i] = s[j], ![j] = s[i]]
  IN  Becomes(swapped(view.sizes), swapped(view.strides), view.offset) /\ Keeps

\* A dimension of size 1, or a new one in front, repeats the same places.
Expand(i) ==
  /\ view.sizes[i] = 1
  /\ Becomes([view.sizes EXCEPT ![i] = 2], [view.strides EXCEPT ![i] = 0], view.offset)
  /\ Keeps

ExpandFront ==
  Becomes(<<2>> \o view.sizes, <<0>> \o view.strides, view.offset) /\ Keeps

squeeze(i) ==
  /\ view.sizes[i] = 1
  /\ Becomes(RemoveAt(view.sizes, i), RemoveAt(view.strides, i), view.offset)
  /\ Keeps

unsqueeze(i) ==
  /\ Becomes(InsertAt(view.sizes, i, 1),
             InsertAt(view.strides, i, IF i > Len(view.sizes) THEN 1
                                       ELSE view.sizes[i] * view.strides[i]),
             view.offset)
  /\ Keeps

\* view() with two dimensions made one, or one made two.
Merge(i) ==
  /\ view.strides[i] = view.strides[i + 1] * view.sizes[i + 1]
  /\ Becomes(RemoveAt([view.sizes EXCEPT ![i + 1] = @ * view.sizes[i]], i),
             RemoveAt(view.strides, i), view.offset)
  /\ Reshapes

Split(i, a) ==
  /\ view.sizes[i] % a = 0
  /\ LET b == view.sizes[i] \div a
     IN  Becomes(InsertAt([view.sizes EXCEPT ![i] = b], i, a),
                 InsertAt(view.strides, i, b * view.strides[i]), view.offset)
  /\ Reshapes

\* An operand whose sizes or strides are not the described ones, but contiguous
\* and as many elements: metadata_convert_match_with_copy_optimize.
AsOperand ==
  /\ ops < MaxOps /\ ops' = ops + 1
  /\ is_contiguous(view)
  /\ [sizes |-> view.sizes, strides |-> view.strides] # storage.base
  /\ multiply_integers(view.sizes) = multiply_integers(storage.base.sizes)
  /\ storage' = [storage EXCEPT !.base = [sizes |-> view.sizes, strides |-> view.strides]]
  /\ reshaped' = (view # WholeOf(Described(view.sizes)))
  /\ copy' = NoCopy
  /\ UNCHANGED <<view, cache>>

\* Mutant of Needed: the offset of the view is forgotten.
NeededNot(sizes) == multiply_integers(sizes)

\* The places resize_ needs.
Needed(sizes) == multiply_integers(sizes) + view.offset

resize_(sizes) ==
  /\ ops < MaxOps /\ ops' = ops + 1
  /\ view.sizes # sizes
  /\ view' = [view EXCEPT !.sizes = sizes, !.strides = ComputeStrideFromShape(sizes)]
  /\ storage' = IF Needed(sizes) > storage.numel
                THEN [numel |-> Needed(sizes), base |-> UpdateDesc(Needed(sizes), sizes)]
                ELSE storage
  /\ reshaped' = (view' # WholeOf(storage'.base))
  /\ copy' = NoCopy
  /\ UNCHANGED cache

------------------------------------------------------------------------------
(* Copies.                                                                   *)

desc == OnBase(view, storage.base)

Done(case, elements) == copy' = [case |-> case, elements |-> elements]

\* npu_stride_copy_out, and aclrtMemcpy of a contiguous view.
General(case) == Done(case, Elements(view.sizes, view.strides, view.offset))

\* A copy by the case, if it has copied; what it has stored, and made of the
\* storage on the way, stays as it is if it has not.
Attempted(case, run) ==
  /\ IF run.copies = {} THEN General("general") ELSE \E c \in run.copies : Done(case, c)
  /\ storage' = [storage EXCEPT !.numel = run.numel]

\* A hit: the case and the parameters that were found for an equal description.
RunCached ==
  /\ Hit(cache, desc)
  /\ \E entry \in {cache[GetHash_(desc)]} :
       \E run \in {Run(cache, entry.case, desc, entry.params, storage.numel)} :
         Attempted(entry.case, run) /\ cache' = run.cache

\* The first of the cases that applies.
RunPlain(cases) ==
  /\ ~Hit(cache, desc)
  /\ \E run \in {FirstPlain(cache, desc, cases)} :
       /\ \E c \in run.copies : Done(run.case, c)
       /\ cache' = run.cache
  /\ UNCHANGED storage

NoPlain(cases) == ~Hit(cache, desc) /\ FirstPlain(cache, desc, cases).copies = {}

\* What a combined copy stores when it has copied, over what it may have stored
\* itself at that hash, and whether or not there is still room.
StoredCombined(p, run) ==
  IF run.copies # {} /\ MayStore(cache, desc)
  THEN Put(run.cache, desc, "combined", p) ELSE run.cache

\* The combined optimizer, which is the last to be tried.
RunCombined(cases) ==
  /\ NoPlain(cases)
  /\ \E p \in can_use_combined(desc) :
       \E run \in {combined_to_contiguous(cache, desc, p, storage.numel)} :
         Attempted("combined", run) /\ cache' = StoredCombined(p, run)

RunNone(cases) ==
  /\ NoPlain(cases) /\ General("general")
  /\ UNCHANGED <<storage, cache>>

cached_contiguous_optimize(cases, combined) ==
  /\ \/ RunCached
     \/ RunPlain(cases)
     \/ combined /\ RunCombined(cases)
     \/ ~(combined /\ can_use_combined(desc) # {}) /\ RunNone(cases)
  /\ UNCHANGED <<view, reshaped, ops>>

\* CheckClone: the destination is as it was made (fresh), or it is a tensor whose
\* storage is described otherwise.
copy_d2d_dtype_baseformat(fresh) ==
  \/ /\ ~is_contiguous(view) /\ fresh
     /\ cached_contiguous_optimize(find_match_optimization_cases(desc), CombinedEnable)
  \/ /\ is_contiguous(view) \/ ~fresh
     /\ General(IF is_contiguous(view) THEN "memcpy" ELSE "general")
     /\ UNCHANGED <<storage, view, reshaped, cache, ops>>

optCasesAnyFormat == <<"reshape", "slice">>

\* The test for a slice ends the process.
Dies == ~is_contiguous(view) /\ Divides0(desc)
DivideByZero ==
  /\ Dies /\ Done("divided by zero", <<>>)
  /\ UNCHANGED <<storage, view, reshaped, cache, ops>>

AnyFormat == FirstPlain(cache, desc, optCasesAnyFormat)
CanOptimize == ~Dies /\ AnyFormat.copies # {}

\* copy_d2d_dtype_format: the cases of any format first, and without the cache.
Copy(fresh) ==
  \/ fresh /\ DivideByZero
  \/ /\ fresh /\ CanOptimize /\ \E c \in AnyFormat.copies : Done(AnyFormat.case, c)
     /\ UNCHANGED <<storage, view, reshaped, cache, ops>>
  \/ ~(fresh /\ (Dies \/ CanOptimize)) /\ copy_d2d_dtype_baseformat(fresh)

clone ==
  \/ DivideByZero
  \/ CanOptimize /\ cached_contiguous_optimize(optCasesAnyFormat, FALSE)
  \/ ~Dies /\ ~CanOptimize /\ copy_d2d_dtype_baseformat(TRUE)

Dims == DOMAIN view.sizes

\* A process that divided by zero does nothing more.
Next ==
  /\ copy.case # "divided by zero"
  /\ \/ Whole \/ ExpandFront \/ AsOperand \/ clone
     \/ \E i \in Dims :
          \/ Expand(i) \/ squeeze(i)
          \/ \E a \in 0 .. view.sizes[i] - 1 :
               \/ Len(view.sizes) > 1 /\ Select(i, a)
               \/ \E b \in a + 1 .. view.sizes[i], step \in 1 .. 2 : Narrow(i, a, b, step)
          \/ \E j \in Dims : i < j /\ Transpose(i, j)
          \/ i + 1 \in Dims /\ Merge(i)
          \/ \E a \in 2 .. view.sizes[i] - 1 : Split(i, a)
     \/ \E i \in 1 .. Len(view.sizes) + 1 : unsqueeze(i)
     \/ \E s \in Resizes : resize_(s)
     \/ \E fresh \in BOOLEAN : Copy(fresh)

Spec == Init /\ [][Next]_vars

------------------------------------------------------------------------------
(* Properties.                                                               *)

\* The storage description, the view and the cache are well formed: sizes are
\* positive, sizes and strides go together, and the cache is at most one entry
\* over its limit: that of a combined copy whose own copies took the last room.
TypeOK ==
  /\ storage.numel \in Nat \ {0}
  /\ \A v \in {view, storage.base} :
       /\ v.sizes \in Seq(Nat \ {0}) /\ v.strides \in Seq(Nat)
       /\ Len(v.sizes) = Len(v.strides) /\ Len(v.sizes) \in 1 .. MaxDims
  /\ view.offset \in Nat /\ reshaped \in BOOLEAN /\ ops \in 0 .. MaxOps
  /\ DOMAIN cache \subseteq 0 .. Buckets - 1
  /\ Cardinality(DOMAIN cache) <= CachedMaxSize + 1

\* Whichever optimizer takes a view, and whether or not from the cache, it copies
\* the elements of the view in their order, when the view comes of the described
\* tensor by narrowing, selecting, transposing, expanding, squeezing.
CopyOfViewExact ==
  copy # NoCopy /\ ~reshaped =>
    copy.elements = Elements(view.sizes, view.strides, view.offset)

\* The same of every view that the program can make: a test compares what is
\* computed of a view on the device with what the host computes of it.
CopyExact ==
  copy # NoCopy => copy.elements = Elements(view.sizes, view.strides, view.offset)

\* A copy of the case, had nothing been stored before.
Afresh(case) ==
  UNION {Run(<<>>, case, desc, p, storage.numel).copies : p \in Match(case, desc)}

\* Whatever was stored, by copies of views or by copies within combined ones, a
\* copy reads what its optimizer would read of the view had nothing been: an entry
\* that only has the same hash, or was stored for a view that the storage was
\* described otherwise for, also for the time of a combined copy, is never used.
CacheTransparent ==
  [][copy'.case \in Plain \union {"combined"} => copy'.elements \in Afresh(copy'.case)]_vars

\* No copy within a combined one finds the entry of a combined copy, which would
\* have it combine again: OpenCombined = false, said to avoid recursion, keeps
\* such copies from trying that optimizer, but not from using what it has stored.
NeverNested ==
  \A p \in can_use_combined(desc) :
    \A d \in Meantime(desc, p, storage.numel) :
      Hit(cache, d) => cache[GetHash_(d)].case # "combined"

\* The storage holds the view and what it is described as, whatever was resized,
\* and no copy, exact or not, reads a place outside of it.
StorageHolds ==
  /\ Reach(view) <= storage.numel
  /\ Reach(WholeOf(storage.base)) <= storage.numel
  /\ \A i \in DOMAIN copy.elements : copy.elements[i] \in 0 .. storage.numel - 1
=============================================================================

----------------------------- MODULE MCViewCopy -----------------------------
(* Tensors of two and three dimensions, one of them of size 1, and sizes of  *)
(* resize_ that need as many places, fewer, or more, with or without offset. *)
EXTENDS ViewCopy

MCBases == {<<2, 1, 2>>, <<3, 2>>}
MCResizes == {<<2, 2>>, <<6>>}

\* For the views that reshape.
MCReshaped == {<<2, 2, 2>>}
MCNoResize == {}
=============================================================================

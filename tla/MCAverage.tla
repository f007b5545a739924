----------------------------- MODULE MCAverage -----------------------------
(***************************************************************************)
(* HcclAverage with one thread, as no state is shared between threads, on  *)
(* two devices and two handles, one for its own stream and one for the     *)
(* default stream.                                                         *)
(***************************************************************************)
EXTENDS HcclAverage, TLC

CONSTANTS t1, s1, s2, b1, b2

Average(buf, n, h) == [buf |-> buf, n |-> n, avg |-> TRUE, type |-> "fp16",
                       count |-> "some", stream |-> h]

\* Averages on two buffers and communicators of two sizes, on either stream,
\* and one of each kind that needs no plan or gets none: over a single rank or
\* none, of nothing, of too many elements, of a type that cannot be averaged, a sum.
MCCalls ==
  {Average(b1, 2, s1), Average(b1, 3, s1),
   Average(b2, 2, Null), Average(b1, 1, s1), Average(b1, 0, s1),
   [Average(b1, 2, s1) EXCEPT !.avg = FALSE],
   [Average(b2, 2, Null) EXCEPT !.type = "int32"],
   [Average(b1, 2, s1) EXCEPT !.count = "tooMany"],
   [Average(b2, 2, Null) EXCEPT !.count = "none"]}

MCBufferOf == t1 :> {b1, b2}
MCMaxCalls == t1 :> 4
=============================================================================

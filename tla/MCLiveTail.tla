----------------------------- MODULE MCLiveTail -----------------------------
(* Values for LiveTail: three records, two of which have the same text.     *)
EXTENDS LiveTail, TLC

CONSTANTS r1, r2, r3, A, B

MCTextOf == (r1 :> A) @@ (r2 :> A) @@ (r3 :> B)
=============================================================================

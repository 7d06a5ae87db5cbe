---------------------------- MODULE MCFlushLoop ----------------------------
(* Values for FlushLoop: three lines, two of them sharing a term.           *)
EXTENDS FlushLoop, TLC

CONSTANTS l1, l2, l3, t1, t2

MCTokensOf == (l1 :> {t1}) @@ (l2 :> {t1, t2}) @@ (l3 :> {})
=============================================================================

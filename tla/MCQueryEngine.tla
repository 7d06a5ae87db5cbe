--------------------------- MODULE MCQueryEngine ---------------------------
(* Values for QueryEngine.  One term is enough: a search reads the postings *)
(* and the keys of a single term.  A line without the term shares the batch *)
(* with the others.                                                         *)
EXTENDS QueryEngine, TLC

CONSTANTS l1, l2, l3, t1

MCTokensOf == (l1 :> {t1}) @@ (l2 :> {t1}) @@ (l3 :> {})
MCAllMatch == (l1 :> {t1}) @@ (l2 :> {t1}) @@ (l3 :> {t1})
=============================================================================

----------------------------- MODULE MCPipeline -----------------------------
(* Values for Pipeline: one datagram and a POST with an empty line between  *)
(* two others; every line has the one term.  f2 and f3 are pieces of the    *)
(* lines l2 and l3.                                                         *)
EXTENDS Pipeline, TLC

CONSTANTS l1, l2, l3, f2, f3, t1, p1

MCTokensOf == [l \in Logs |-> {t1}]
MCFacilityOf == [l \in Logs |-> 1]
MCBodyOf == p1 :> <<l2, Blank, l3>>
MCCutOf == p1 :> <<{f2}, {}, {f3}>>
MCShortBody == p1 :> <<l2>>
MCShortCut == p1 :> <<{f2}>>

MCSymmetry == Permutations(Buffers) \cup Permutations(Workers)
=============================================================================

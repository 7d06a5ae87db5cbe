---------------------------- MODULE MCNodeServer -----------------------------
(* Values for NodeServer: requests without parameters, with good ones, and  *)
(* with each parameter at or beyond the bound that makes it bad.            *)
EXTENDS NodeServer

Request(s, e, l) == [start |-> s, end |-> e, limit |-> l]

MCRequests ==
  {Request(Absent, Absent, Absent), Request(0, 0, 1), Request(1, 2, 0), Request(1, 2, 3),
   Request(-1, 2, 1), Request(2, 1, 1), Request(3, Absent, 1),
   Request(NaN, 2, 1), Request(1, NaN, 1), Request(1, 2, NaN)}
=============================================================================

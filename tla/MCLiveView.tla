----------------------------- MODULE MCLiveView ------------------------------
EXTENDS LiveView

(* A query with a pipe finds both records, and its labels keep one of them; *)
(* one without a pipe has no term and finds none.                           *)
MCFinds == [q \in Queries |-> IF q = "piped" THEN Records ELSE {}]
MCKeeps == [q \in Queries |-> IF q = "piped" THEN {1} ELSE Records]

=============================================================================

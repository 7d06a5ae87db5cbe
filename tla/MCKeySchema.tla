----------------------------- MODULE MCKeySchema ----------------------------
(* Values for KeySchema: four byte values and two bytes a number.  Terms    *)
(* begin like each other and hold the largest byte; the numbers need a      *)
(* carry from one byte to the next, hold zero bytes and the largest ones.   *)
EXTENDS KeySchema

MCTerms == {<<1>>, <<1, 1>>, <<1, 3>>, <<2>>}
MCStamps == {0, 3, 4, 7}
MCFacilities == {-1, 0, 4}
=============================================================================

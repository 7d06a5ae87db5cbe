----------------------------- MODULE MCTextPath -----------------------------
(* Values for TextPath: lines with and without a timestamp, one to three    *)
(* words behind it, among them a word of two fields and one of a single     *)
(* letter, and lines whose words happen to look like a timestamp.           *)
EXTENDS TextPath, TLC

CONSTANTS sep, d24, hms, gw, router, err, x
CONSTANTS fSep, f24, f16, fGw, fRouter, fErr, fErrUpper, fX

MCLengthOf == (sep :> 3) @@ (d24 :> 2) @@ (hms :> 8) @@ (gw :> 6) @@ (router :> 7) @@ (err :> 9)
                @@ (x :> 1)
MCFieldsOf == (sep :> {fSep}) @@ (d24 :> {f24}) @@ (hms :> {f16}) @@ (gw :> {fGw})
                @@ (router :> {fRouter}) @@ (err :> {fErrUpper, fX}) @@ (x :> {fX})
MCSizeOf == [f \in Fields |-> IF f = fX THEN 1 ELSE 2]
MCLowerOf == [f \in Fields |-> IF f = fErrUpper THEN fErr ELSE f]

Texts == UNION {[1 .. n -> {gw, router, err, x, d24}] : n \in 1 .. 3}
MCLines == [pri : {34, -3, NoPri, BadPri},
            words : Texts \cup {stamp \o t : stamp \in {<<sep, d24, hms>>, <<x, x, d24, hms>>}, t \in Texts}]
MCQueries == [form : {"quoted", "bare", "no pipe"},
              terms : {<<>>, <<fErr>>, <<fRouter, fErr>>, <<fX>>, <<fErrUpper>>},
              labels : {{}, {<<"host", gw>>}}]
=============================================================================

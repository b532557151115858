--------------------------- MODULE MCBridgeSender ---------------------------
(* Small instances of BridgeSender: two requests with one id, and one with *)
(* none.                                                                   *)
EXTENDS BridgeSender, TLC

CONSTANTS r1, r2, r3, p1

PaysMC == (r1 :> p1) @@ (r2 :> p1) @@ (r3 :> r3)

\* Both by the standard protocol, or the second through compliance.
ProtocolsMC == {[r \in Requests |-> "standard"],
                [r \in Requests |-> IF r = r2 THEN "compliance" ELSE "standard"]}
=============================================================================

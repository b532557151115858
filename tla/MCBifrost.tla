----------------------------- MODULE MCBifrost -----------------------------
(* Small instances of Bifrost: a deposit in each of the first blocks.      *)
EXTENDS Bifrost, TLC

CONSTANTS d1, d2, a1, a2

\* Both deposits go to one account, or each to its own.
TogetherOrApart == {(d1 :> a1) @@ (d2 :> a1), (d1 :> a1) @@ (d2 :> a2)}

FirstBlocks == (d1 :> 1) @@ (d2 :> 2)
=============================================================================

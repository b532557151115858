---------------------------- MODULE MCIngestion ----------------------------
(* Small instances of Ingestion: every ledger has transactions; one of the *)
(* early ones has trades.                                                  *)
EXTENDS Ingestion, TLC

SomeTrades == [t \in Tables |-> IF t = "trades" THEN {2} ELSE Ledgers]

\* One ledger, and two in a row; a range backwards is that of ReingestAll.
SomeRanges == {<<1, 1>>, <<2, 3>>}

(* The properties of the run claim nothing once operators have strayed, so *)
(* what follows is not explored; that they claim it only until then is in  *)
(* their definitions, and the proofs have no such bound.                   *)
NotAstray == strayed = {}
=============================================================================

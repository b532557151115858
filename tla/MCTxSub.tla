------------------------------ MODULE MCTxSub ------------------------------
(* Small instances of TxSub: an account with a few transactions in a row.  *)
EXTENDS TxSub, TLC

CONSTANTS s1, s2, alice, t1, t2

\* Two consecutive transactions of one account.
SourceTwo == (t1 :> alice) @@ (t2 :> alice)
SeqNumTwo == (t1 :> 1) @@ (t2 :> 2)

\* Requests are interchangeable.
Symmetry == Permutations(Requests)
=============================================================================

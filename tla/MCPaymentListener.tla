------------------------- MODULE MCPaymentListener -------------------------
(* A small instance of PaymentListener.                                    *)
EXTENDS PaymentListener
=============================================================================

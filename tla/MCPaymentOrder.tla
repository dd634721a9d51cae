--------------------------- MODULE MCPaymentOrder ---------------------------
(* Instances of PaymentOrder for TLC. *)
EXTENDS PaymentOrder, TLC
=============================================================================

-------------------------- MODULE MCResultDelivery --------------------------
(* ResultDelivery for TLC: a model of the fair specification.              *)
EXTENDS ResultDelivery
=============================================================================

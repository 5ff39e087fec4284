------------------------------ MODULE MCRaopNtp -----------------------------
(* The sender's clock may be behind.                                       *)
EXTENDS RaopNtp
Behind == -3
=============================================================================

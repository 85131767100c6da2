--------------------------- MODULE MCLocalAccount ---------------------------
(* LocalAccount on small sets of operations, attempts and tokens.          *)
EXTENDS LocalAccount
=============================================================================

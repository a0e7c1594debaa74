----------------------------- MODULE MCSessions -----------------------------
(* Sessions with more requests than connections.                           *)
EXTENDS Sessions
=============================================================================

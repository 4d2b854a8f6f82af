----------------------------- MODULE MCSessionTurns -----------------------------
(* The session store shared by two processes. *)
EXTENDS SessionTurns
=================================================================================

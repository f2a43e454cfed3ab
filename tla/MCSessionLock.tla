----------------------------- MODULE MCSessionLock -----------------------------
(* Four tasks over two sessions: enough for a holder, a queue of two behind it,
   and a lock that is popped and created again meanwhile. *)
EXTENDS SessionLock
===============================================================================

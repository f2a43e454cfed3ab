---------------------------- MODULE MCSessionWaiter ----------------------------
(* Two messages of one session that may each leave a waiter, a third that they
   may get, and a message of a second session whose waiter shares FILTERS. *)
EXTENDS SessionWaiter

CONSTANTS e1, e2, e3, d1, U, V
MCOf == [e \in Input |-> IF e = d1 THEN V ELSE U]
===============================================================================

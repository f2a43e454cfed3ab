------------------------------ MODULE MCFollowUps ------------------------------
(* Two messages, one that runs and one that is captured.  A run calls the model at
   most twice. *)
EXTENDS FollowUps
===============================================================================

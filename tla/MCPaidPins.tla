------------------------------ MODULE MCPaidPins -------------------------------
(* One post whose payment may be confirmed twice, so that two pins of it may
   overlap in time; two handlers that overlap; one restart.  The runs that look
   for a disagreement with the bot's texts have two payments. *)
EXTENDS PaidPins
===============================================================================

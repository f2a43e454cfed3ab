-------------------------------- MODULE MCForms --------------------------------
(* Users share nothing in these forms, so one user is enough; two handlers of
   that user may overlap, and two vacancies may be created. *)
EXTENDS Forms
===============================================================================

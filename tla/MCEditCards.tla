------------------------------ MODULE MCEditCards ------------------------------
(* Two vacancies and one text, the three kinds of field (two columns, picked or
   typed, asked without a read), and one handler at a time: the disagreement it
   looks for needs no overlap. *)
EXTENDS EditCards
===============================================================================

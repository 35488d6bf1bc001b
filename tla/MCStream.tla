------------------------------ MODULE MCStream ------------------------------
(* Instances of Stream for TLC: every kind of limit alone and together,    *)
(* with a deadline before and after the timeout.                           *)
EXTENDS Stream

MCBudgets ==
  [turn : {1, NoLimit}, token : {1, NoLimit}, deadline : {1, 4, NoLimit}]
    \ {[turn |-> NoLimit, token |-> NoLimit, deadline |-> NoLimit]}
=============================================================================

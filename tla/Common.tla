------------------------------- MODULE Common -------------------------------
(* What the modules of pure decisions share: the value that stands for an     *)
(* absent field or answer, distinct from every other value.                   *)
CONSTANT NONE
=============================================================================

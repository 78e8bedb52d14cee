--------------------------------- MODULE MCPwm ---------------------------------
(* Pwm with a long of four bits.  Twice an argument wraps to a negative value    *)
(* for 5 (10 becomes -6) and to a positive one for -7 (-14 becomes 2); 5 Hz is   *)
(* more than the period can express; 3 asks for periods above those new_pwm sets.*)
EXTENDS Pwm

MCArgs == {-7, 0, 1, 2, 3, 5}
==============================================================================

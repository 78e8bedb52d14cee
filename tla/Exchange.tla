-------------------------------- MODULE Exchange --------------------------------
(***************************************************************************)
(* What the drivers of this repository promise a caller that starts with   *)
(* nothing outstanding: a call asks its questions one at a time, the next  *)
(* only when the one before has been answered, and it reports success only *)
(* when each of them has been answered.  When it fails nothing is promised *)
(* of the answers.  A driver that lets its callers write what they like, or *)
(* takes what it likes for an answer, may have to give the promise up in   *)
(* the middle of a call.  Me909s and Pymodbus implement this module.       *)
(***************************************************************************)
EXTENDS Integers

CONSTANT MayForfeit  \* the driver may give the promise up

VARIABLES
    size,      \* questions of the call that runs, 0 when none does
    asked,     \* how many it has asked
    answered,  \* which of these have been answered
    result     \* of the latest call; "none" while it runs or promises nothing

vars == <<size, asked, answered, result>>

Over == size' = 0 /\ asked' = 0 /\ answered' = {}

Init == size = 0 /\ asked = 0 /\ answered = {} /\ result = "none"

\* The first question may go out at once.
Begin ==
    /\ size = 0
    /\ size' \in Nat \ {0} /\ asked' \in 0 .. 1 /\ answered' = {}
    /\ result' = "none"

Ask ==
    /\ asked < size /\ answered = 1 .. asked
    /\ asked' = asked + 1
    /\ UNCHANGED <<size, answered, result>>

Answer ==
    /\ asked > 0
    /\ answered' = answered \cup {asked}
    /\ UNCHANGED <<size, asked, result>>

Succeed ==
    /\ size > 0 /\ answered = 1 .. size
    /\ Over /\ result' = "ok"

Fail ==
    /\ size > 0
    /\ Over /\ result' \in {"failed", "raised"}

\* What was written, or read, makes it a call for which nothing can be promised.
Forfeit == MayForfeit /\ size > 0 /\ Over /\ result' = "none"

\* Arguments are refused, or a call begins for which nothing is promised.
Refuse == size = 0 /\ Over /\ result' \in {"raised", "none"}

Next == Begin \/ Ask \/ Answer \/ Succeed \/ Fail \/ Forfeit \/ Refuse

Spec == Init /\ [][Next]_vars
==============================================================================

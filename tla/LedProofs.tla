------------------------------- MODULE LedProofs -------------------------------
(***************************************************************************)
(* Proofs about Led, for any number of files.                              *)
(***************************************************************************)
EXTENDS Led, TLAPS

\* The order of led_exit names files.
LEMMA OrderFacts ==
    /\ Len(Order) \in Nat
    /\ \A x \in 1 .. Len(Order) : Order[x] \in Files
  BY OrderAssumption

\* What makes the invariants inductive: an exception is pending only inside a call, and
\* a call that runs has no result yet.
LedInv ==
    /\ TypeOK
    /\ PrefixDark
    /\ call \in {"none", "dead"} => error = "none"
    /\ call \in {"clear", "exit"} => result = "none"

\* One more file of the order is dark.
LEMMA DarkenStep ==
    ASSUME LedInv, Darken
    PROVE  PrefixDark'
  <1>1. /\ n \in 1 .. Len(Order) /\ n' = n + 1 /\ lit' = lit \ {Order[n]}
        /\ lit = before \ {Order[x] : x \in 1 .. n - 1}
        /\ UNCHANGED <<call, before>>
    BY OrderFacts DEF Darken, Going, LedInv, PrefixDark, TypeOK
  <1>2. \A x : x \in 1 .. n' - 1 <=> x \in 1 .. n - 1 \/ x = n
    BY <1>1, OrderFacts
  <1>3. {Order[x] : x \in 1 .. n' - 1} = {Order[x] : x \in 1 .. n - 1} \cup {Order[n]}
    BY <1>2
  <1> QED BY <1>1, <1>3 DEF PrefixDark

\* Every step of the driver keeps the invariant.
LEMMA LedStep ==
    ASSUME LedInv, [Next]_vars
    PROVE  LedInv'
  <1> USE OrderFacts
  <1>1. ASSUME NEW f \in Files, NEW status \in {0, 1}, Ioctl(f, status) PROVE LedInv'
    BY <1>1 DEF Ioctl, Light, LedInv, TypeOK, PrefixDark
  <1>2. ASSUME NEW f \in Files \cup Absent, IoctlRaises(f) PROVE LedInv'
    BY <1>2 DEF IoctlRaises, LedInv, TypeOK, PrefixDark
  <1>3. ASSUME NEW name \in {"clear", "exit"}, Begin(name) PROVE LedInv'
    <2>1. {Order[x] : x \in 1 .. 1 - 1} = {}
      OBVIOUS
    <2> QED BY <1>3, <2>1 DEF Begin, LedInv, TypeOK, PrefixDark
  <1>4. CASE Darken
    <2>1. TypeOK'
      BY <1>4 DEF Darken, Going, LedInv, TypeOK
    <2> QED BY <1>4, <2>1, DarkenStep DEF Darken, Going, LedInv
  <1>5. CASE GiveUp
    BY <1>5 DEF GiveUp, Going, LedInv, TypeOK, PrefixDark
  <1>6. CASE Return
    BY <1>6 DEF Return, LedInv, TypeOK, PrefixDark
  <1>7. CASE Killed \/ Load
    BY <1>7 DEF Killed, Load, LedInv, TypeOK, PrefixDark
  <1>8. CASE UNCHANGED vars
    BY <1>8 DEF vars, LedInv, TypeOK, PrefixDark
  <1> QED BY <1>1, <1>2, <1>3, <1>4, <1>5, <1>6, <1>7, <1>8 DEF Next, Clear, Exit

\* The invariant of the driver.
LEMMA LedInvCorrect == Spec => []LedInv
  <1>1. Init => LedInv
    BY OrderFacts DEF Init, LedInv, TypeOK, PrefixDark
  <1>2. LedInv /\ [Next]_vars => LedInv'
    BY LedStep
  <1> QED BY <1>1, <1>2, PTL DEF Spec

\* The loop of led_exit stays within the files there are.
THEOREM TypeCorrect == Spec => []TypeOK
  BY LedInvCorrect, PTL DEF LedInv

\* led_exit has darkened the files it has passed and no other, at every moment.
THEOREM PrefixDarkCorrect == Spec => []PrefixDark
  BY LedInvCorrect, PTL DEF LedInv

\* When clear returns True nothing is lit.
THEOREM TrueMeansDarkCorrect == Spec => TrueMeansDark
  <1>1. LedInv /\ [Next]_vars => [call = "clear" /\ result' = "True" => lit' = {}]_vars
    <2> SUFFICES ASSUME LedInv, Next, call = "clear", result' = "True" PROVE lit' = {}
      OBVIOUS
    <2>1. CASE Return
      <3>1. error = "none" /\ lit' = lit /\ ~Going
        BY <2>1 DEF Return, LedInv, TypeOK
      <3>2. n = Len(Order) + 1
        BY <3>1, OrderFacts DEF Going, LedInv, TypeOK
      <3>3. 1 .. n - 1 = 1 .. Len(Order)
        BY <3>2, OrderFacts
      <3>4. Files = {Order[x] : x \in 1 .. n - 1}
        <4>1. DOMAIN Order = 1 .. n - 1
          BY <3>3, OrderAssumption
        <4> QED BY <4>1 DEF Files, Range
      <3>5. lit = before \ {Order[x] : x \in 1 .. n - 1} /\ before \subseteq Files
        BY DEF LedInv, PrefixDark, TypeOK
      <3> QED BY <3>1, <3>4, <3>5
    <2>2. CASE Darken \/ GiveUp
      BY <2>2 DEF Darken, GiveUp, LedInv, TypeOK
    <2> QED BY <2>1, <2>2 DEF Next, Ioctl, IoctlRaises, Clear, Exit, Begin, Killed, Load
  <1> QED BY <1>1, LedInvCorrect, PTL DEF Spec, TrueMeansDark
==============================================================================

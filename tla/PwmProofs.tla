------------------------------- MODULE PwmProofs -------------------------------
(***************************************************************************)
(* Proofs about Pwm, for any number of chips, any width of a long and any  *)
(* arguments.                                                              *)
(***************************************************************************)
EXTENDS Pwm, TLAPS

-----------------------------------------------------------------------------
(* What one write does *)

Untouched(x) == Output(x)' = Output(x) /\ (x \in enabled' <=> x \in enabled)

\* A write concerns one chip, leaves the duty cycle within the period, and never
\* makes a period that was set vanish.
LEMMA StoreOneChip ==
    ASSUME TypeOK, NEW c \in exported, NEW w \in Writes, Store(c, w)
    PROVE  /\ exported' = exported /\ enabled' \in SUBSET exported
           /\ period' \in [Chips -> 0 .. Word - 1]
           /\ duty' \in [Chips -> 0 .. Word - 1]
           /\ \A x \in Chips : duty'[x] <= period'[x]
           /\ \A x \in Chips \ {c} : Untouched(x)
           /\ period[c] > 0 => period'[c] > 0
  <1>1. /\ c \in Chips /\ Word \in Nat /\ w.value \in -Word .. Word - 1
        /\ w.file \in {"period", "duty_cycle", "enable"}
        /\ period \in [Chips -> 0 .. Word - 1] /\ duty \in [Chips -> 0 .. Word - 1]
        /\ enabled \in SUBSET exported /\ exported \in SUBSET Chips
        /\ \A x \in Chips : duty[x] <= period[x]
    BY UnitsAssumption DEF TypeOK, Writes, Longs
  <1>2. CASE ~Accepts(c, w)
    <2>1. UNCHANGED kernel
      BY <1>2 DEF Store, kernel
    <2> QED BY <1>1, <2>1 DEF kernel, Untouched, Output
  <1>3. CASE Accepts(c, w) /\ w.file = "period"
    <2>1. w.value \in 1 .. Word - 1 /\ duty[c] <= w.value
      BY <1>1, <1>3 DEF Accepts
    <2>2. /\ exported' = exported /\ enabled' = enabled /\ duty' = duty
          /\ period' = [period EXCEPT ![c] = w.value]
      BY <1>1, <1>3 DEF Store
    <2> QED BY <1>1, <2>1, <2>2 DEF Untouched, Output
  <1>4. CASE Accepts(c, w) /\ w.file = "duty_cycle"
    <2>1. w.value \in 0 .. period[c]
      BY <1>1, <1>4 DEF Accepts
    <2>2. /\ exported' = exported /\ enabled' = enabled /\ period' = period
          /\ duty' = [duty EXCEPT ![c] = w.value]
      BY <1>1, <1>4 DEF Store
    <2> QED BY <1>1, <2>1, <2>2 DEF Untouched, Output
  <1>5. CASE Accepts(c, w) /\ w.file = "enable"
    <2>1. /\ exported' = exported /\ duty' = duty /\ period' = period
          /\ enabled' \in {enabled, enabled \cup {c}, enabled \ {c}}
      BY <1>1, <1>5 DEF Store
    <2> QED BY <1>1, <2>1 DEF Untouched, Output
  <1> QED BY <1>1, <1>2, <1>3, <1>4, <1>5

\* period takes what the duty cycle fits in.
LEMMA StorePeriod ==
    ASSUME TypeOK, NEW c \in exported, NEW v \in Int, v > 0, Store(c, Write("period", v))
    PROVE  /\ UNCHANGED <<enabled, duty>>
           /\ IF duty[c] <= v THEN period'[c] = v ELSE period' = period
  <1>1. c \in DOMAIN period
    BY DEF TypeOK
  <1> QED BY <1>1 DEF Store, Write, Accepts

\* duty_cycle takes what fits in a period that is set.
LEMMA StoreDuty ==
    ASSUME TypeOK, NEW c \in exported, NEW v \in Int, period[c] > 0, v \in 0 .. period[c],
           Store(c, Write("duty_cycle", v))
    PROVE  UNCHANGED <<enabled, period>> /\ duty'[c] = v
  <1>1. c \in DOMAIN duty
    BY DEF TypeOK
  <1> QED BY <1>1 DEF Store, Write, Accepts

\* enable 0 stops the chip; what enable does concerns no other file.
LEMMA StoreEnable ==
    ASSUME TypeOK, NEW c \in exported, NEW v \in {0, 1}, Store(c, Write("enable", v))
    PROVE  enabled' = IF v = 1 THEN enabled \cup {c} ELSE enabled \ {c}
  BY DEF Store, Write, Accepts

-----------------------------------------------------------------------------
(* The invariant *)

Period(p) == Write("period", p)
Duty(d)   == Write("duty_cycle", d)

\* How far new_pwm has come, and what holds of the chip from each write on.
NewInv ==
    call = "new_pwm" =>
       /\ opened = NoPath
       /\ \/ todo = <<Period(NsPerSec), Duty(NsPerSec \div 2)>>
          \/ /\ todo = <<Duty(NsPerSec \div 2)>>
             /\ periodpath = devnum /\ period[devnum] >= NsPerSec
          \/ /\ todo = <<>>
             /\ periodpath = devnum /\ cyclespath = devnum
             /\ period[devnum] >= NsPerSec /\ duty[devnum] = NsPerSec \div 2

\* How far attrs or rate has come: each write has been accepted.
SettingInv ==
    Setting =>
       \/ todo = <<Duty(0), Period(want[1]), Duty(want[2])>> /\ Output(opened) = before
       \/ todo = <<Period(want[1]), Duty(want[2])>> /\ Output(opened) = <<before[1], 0>>
       \/ todo = <<Duty(want[2])>> /\ Output(opened) = <<want[1], 0>>
       \/ todo = <<>> /\ Output(opened) = want

\* The paths name the chip of a new_pwm that succeeded, and its period is set.
OpenedInv ==
    opened \in Chips =>
       /\ pwmdevpath = opened /\ periodpath = opened /\ cyclespath = opened
       /\ period[opened] > 0

\* What runs can be stopped through the path, unless new_pwm moved away from it.
EnabledInv ==
    /\ enabled \subseteq replaced \cup {pwmdevpath}
    /\ call = "exit" => \/ todo = <<Write("enable", 0)>>
                        \/ todo = <<>> /\ pwmdevpath \notin enabled

PwmInv == TypeOK /\ NewInv /\ SettingInv /\ OpenedInv /\ EnabledInv
-----------------------------------------------------------------------------
(* Arithmetic and types *)

\* The units of pwm.c fit in a long.
LEMMA Units ==
    /\ Word \in Nat /\ Word > 1 /\ NsPerMs \in Nat \ {0}
    /\ NsPerSec \in 1 .. Word - 1 /\ NsPerSec \in Nat
    /\ NsPerSec \div 2 \in 0 .. NsPerSec /\ NsPerSec \div 2 \in 0 .. Word - 1
    /\ Args \subseteq Int
    /\ NoPath \notin Chips
  BY UnitsAssumption, ChipsAssumption

\* A product that fits is what it is; any other is some long.
LEMMA WrapIsLong ==
    ASSUME NEW n \in Int
    PROVE  Wrap(n) \in Longs /\ (n \in 0 .. Word - 1 => Wrap(n) = n)
  <1> DEFINE m == n + Word
             b == 2 * Word
  <1>1. m \in Int /\ b \in Nat \ {0} /\ Word \in Nat
    BY Units
  <1>2. m % b \in 0 .. b - 1
    BY <1>1
  <1>3. Wrap(n) = (m % b) - Word
    BY DEF Wrap
  <1>4. ASSUME n \in 0 .. Word - 1 PROVE m % b = m
    <2>1. m \in 0 .. b - 1
      BY <1>1, <1>4
    <2>2. \A x \in Int, y \in Nat \ {0} : x \in 0 .. y - 1 => x % y = x
      OBVIOUS
    <2> HIDE DEF m, b
    <2> QED BY <1>1, <2>1, <2>2
  <1>5. Wrap(n) \in Longs
    BY <1>1, <1>2, <1>3 DEF Longs
  <1>6. n \in 0 .. Word - 1 => Wrap(n) = n
    BY <1>1, <1>3, <1>4
  <1> QED BY <1>5, <1>6

\* What the functions write is a write of the model.
LEMMA WriteTypes ==
    /\ \A v \in Longs : Period(v) \in Writes /\ Duty(v) \in Writes
    /\ \A v \in {0, 1} : Write("enable", v) \in Writes
    /\ 0 .. Word - 1 \subseteq Longs
  BY Units DEF Period, Duty, Write, Writes, Longs

\* The lists of writes that a call begins with.
LEMMA ListTypes ==
    /\ OneSecondHalfOn \in Seq(Writes) /\ Len(OneSecondHalfOn) <= 3
    /\ \A p, d \in Longs :
          SetPeriodAndDuty(p, d) \in Seq(Writes) /\ Len(SetPeriodAndDuty(p, d)) <= 3
    /\ \A v \in {0, 1} :
          <<Write("enable", v)>> \in Seq(Writes) /\ Len(<<Write("enable", v)>>) <= 3
    /\ <<>> \in Seq(Writes) /\ Len(<<>>) <= 3
  <1>1. NsPerSec \in Longs /\ NsPerSec \div 2 \in Longs /\ 0 \in Longs
    BY Units, WriteTypes
  <1>2. OneSecondHalfOn = <<Period(NsPerSec), Duty(NsPerSec \div 2)>>
    BY DEF OneSecondHalfOn, Period, Duty
  <1>3. OneSecondHalfOn \in Seq(Writes) /\ Len(OneSecondHalfOn) <= 3
    BY <1>1, <1>2, WriteTypes
  <1>4. ASSUME NEW p \in Longs, NEW d \in Longs
        PROVE  SetPeriodAndDuty(p, d) \in Seq(Writes) /\ Len(SetPeriodAndDuty(p, d)) <= 3
    <2>1. SetPeriodAndDuty(p, d) = <<Duty(0), Period(p), Duty(d)>>
      BY DEF SetPeriodAndDuty, Period, Duty
    <2> QED BY <1>1, <2>1, WriteTypes
  <1>5. \A v \in {0, 1} :
          <<Write("enable", v)>> \in Seq(Writes) /\ Len(<<Write("enable", v)>>) <= 3
    BY WriteTypes
  <1> QED BY <1>3, <1>4, <1>5

\* What is left of a list is a list, and its head a write.
LEMMA ListRest ==
    ASSUME TypeOK, todo # <<>>
    PROVE  Head(todo) \in Writes /\ Tail(todo) \in Seq(Writes) /\ Len(Tail(todo)) <= 3
  <1>1. todo \in Seq(Writes) /\ Len(todo) <= 3
    BY DEF TypeOK
  <1> QED BY <1>1

\* Heads and tails of the lists of writes.
LEMMA Rests ==
    /\ \A a : Head(<<a>>) = a /\ Tail(<<a>>) = <<>> /\ <<a>> # <<>>
    /\ \A a, b : Head(<<a, b>>) = a /\ Tail(<<a, b>>) = <<b>> /\ <<a, b>> # <<>>
    /\ \A a, b, c : Head(<<a, b, c>>) = a /\ Tail(<<a, b, c>>) = <<b, c>> /\ <<a, b, c>> # <<>>
  OBVIOUS

\* One list is not a later part of another.
LEMMA Lengths ==
    \A a, b, c : /\ <<a>> # <<>> /\ <<a, b>> # <<>> /\ <<a, b, c>> # <<>>
                 /\ \A x : <<a, b>> # <<x>>
  OBVIOUS

-----------------------------------------------------------------------------
(* new_pwm *)

\* new_pwm names its chip.
LEMMA NewPwmStep ==
    ASSUME PwmInv, NEW c \in Chips, NewPwm(c)
    PROVE  PwmInv'
  <1>1. /\ call' = "new_pwm" /\ devnum' = c /\ opened' = NoPath
        /\ todo' = OneSecondHalfOn
        /\ exported' \in {exported, exported \cup {c}}
        /\ UNCHANGED <<pwmdevpath, periodpath, cyclespath, enabled, period, duty,
                       want, before, replaced>>
    BY DEF NewPwm, paths
  <1>2. TypeOK'
    BY <1>1, ListTypes DEF PwmInv, TypeOK
  <1>3. NewInv'
    BY <1>1 DEF NewInv, OneSecondHalfOn, Period, Duty
  <1> QED BY <1>1, <1>2, <1>3, Units DEF PwmInv, SettingInv, Setting, OpenedInv, EnabledInv

\* A write of new_pwm touches its chip only.
LEMMA NewPwmWriteStep ==
    ASSUME PwmInv, NewPwmWrite
    PROVE  PwmInv' /\ \A x \in Chips \ {devnum} : Untouched(x)
  <1> USE DEF PwmInv
  <1>1. /\ call = "new_pwm" /\ todo # <<>> /\ devnum \in exported /\ devnum \in Chips
        /\ Store(devnum, Head(todo)) /\ todo' = Tail(todo) /\ opened = NoPath
        /\ UNCHANGED <<pwmdevpath, call, devnum, opened, want, before, replaced>>
    BY DEF NewPwmWrite, BuildPath, TypeOK, NewInv, history
  <1>2. Head(todo) \in Writes /\ Tail(todo) \in Seq(Writes) /\ Len(Tail(todo)) <= 3
    BY <1>1, ListRest
  <1>3. /\ exported' = exported /\ enabled' \in SUBSET exported
        /\ period' \in [Chips -> 0 .. Word - 1] /\ duty' \in [Chips -> 0 .. Word - 1]
        /\ \A x \in Chips : duty'[x] <= period'[x]
        /\ \A x \in Chips \ {devnum} : Untouched(x)
    BY <1>1, <1>2, StoreOneChip
  <1>4. CASE todo = <<Period(NsPerSec), Duty(NsPerSec \div 2)>>
    <2>1. Head(todo) = Write("period", NsPerSec) /\ todo' = <<Duty(NsPerSec \div 2)>>
      BY <1>1, <1>4, Rests DEF Period
    <2>2. periodpath' = devnum /\ cyclespath' = cyclespath
      BY <2>1 DEF NewPwmWrite, BuildPath, Write
    <2>3. /\ enabled' = enabled
          /\ IF duty[devnum] <= NsPerSec THEN period'[devnum] = NsPerSec
                                         ELSE period' = period
      BY <1>1, <2>1, Units, StorePeriod
    <2>4. duty[devnum] <= period[devnum] /\ duty[devnum] \in Nat /\ period[devnum] \in Nat
      BY <1>1, Units DEF TypeOK
    <2>5. period'[devnum] >= NsPerSec
      BY <2>3, <2>4, Units
    <2>6. NewInv'
      BY <1>1, <2>1, <2>2, <2>5 DEF NewInv
    <2>7. TypeOK'
      BY <1>1, <1>2, <1>3, <2>2, Units DEF TypeOK
    <2> QED BY <1>1, <1>3, <2>3, <2>6, <2>7, Units
            DEF SettingInv, Setting, OpenedInv, EnabledInv
  <1>5. CASE todo = <<Duty(NsPerSec \div 2)>> /\ periodpath = devnum /\ period[devnum] >= NsPerSec
    <2>1. Head(todo) = Write("duty_cycle", NsPerSec \div 2) /\ todo' = <<>>
      BY <1>1, <1>5, Rests DEF Duty
    <2>2. cyclespath' = devnum /\ periodpath' = devnum
      BY <1>5, <2>1 DEF NewPwmWrite, BuildPath, Write
    <2>3. period[devnum] \in Nat
      BY <1>1, Units DEF TypeOK
    <2>4. NsPerSec \div 2 \in 0 .. period[devnum] /\ period[devnum] > 0
      BY <1>5, <2>3, Units
    <2>5. enabled' = enabled /\ period' = period /\ duty'[devnum] = NsPerSec \div 2
      BY <1>1, <2>1, <2>4, Units, StoreDuty
    <2>6. NewInv'
      BY <1>1, <1>5, <2>1, <2>2, <2>5 DEF NewInv
    <2>7. TypeOK'
      BY <1>1, <1>2, <1>3, <2>2, Units DEF TypeOK
    <2> QED BY <1>1, <1>3, <2>5, <2>6, <2>7, Units
            DEF SettingInv, Setting, OpenedInv, EnabledInv
  <1> QED BY <1>1, <1>4, <1>5 DEF NewInv

\* The paths built so far keep their order.
LEMMA NewPwmRaisesStep ==
    ASSUME PwmInv, NewPwmRaises
    PROVE  PwmInv'
  <1> USE DEF PwmInv
  <1>1. /\ call = "new_pwm" /\ todo # <<>> /\ call' = "none" /\ todo' = <<>> /\ opened = NoPath
        /\ UNCHANGED <<pwmdevpath, exported, enabled, period, duty, devnum, opened,
                       want, before, replaced>>
    BY DEF NewPwmRaises, BuildPath, NewInv, kernel, history
  <1>2. /\ periodpath' \in {periodpath, devnum} /\ cyclespath' \in {cyclespath, devnum}
        /\ cyclespath' # cyclespath => periodpath = devnum
    <2>1. CASE todo = <<Period(NsPerSec), Duty(NsPerSec \div 2)>>
      BY <2>1, Rests DEF NewPwmRaises, BuildPath, Period, Write
    <2>2. CASE periodpath = devnum
      BY <2>2 DEF NewPwmRaises, BuildPath
    <2> QED BY <1>1, <2>1, <2>2 DEF NewInv
  <1>3. TypeOK'
    BY <1>1, <1>2, Units, ListTypes DEF TypeOK
  <1> QED BY <1>1, <1>3, Units DEF NewInv, SettingInv, Setting, OpenedInv, EnabledInv

\* new_pwm returns, or raises half way.
LEMMA NewPwmReturnsStep ==
    ASSUME PwmInv, NewPwmReturns
    PROVE  PwmInv'
  <1> USE DEF PwmInv
  <1>1. /\ call = "new_pwm" /\ todo = <<>> /\ call' = "none" /\ devnum \in Chips
        /\ pwmdevpath' = devnum /\ opened' = devnum
        /\ replaced' = (replaced \cup (enabled \cap {pwmdevpath})) \ {devnum}
        /\ UNCHANGED <<periodpath, cyclespath, exported, enabled, period, duty, devnum,
                       todo, want, before>>
    BY DEF NewPwmReturns, TypeOK, kernel
  <1>2. /\ periodpath = devnum /\ cyclespath = devnum
        /\ period[devnum] >= NsPerSec /\ period[devnum] \in Nat
    BY <1>1, Units, Lengths DEF NewInv, TypeOK
  <1>3. TypeOK'
    BY <1>1, <1>2, Units DEF TypeOK
  <1>4. OpenedInv'
    BY <1>1, <1>2, Units DEF OpenedInv
  <1>5. EnabledInv'
    BY <1>1 DEF EnabledInv
  <1> QED BY <1>1, <1>3, <1>4, <1>5 DEF NewInv, SettingInv, Setting

-----------------------------------------------------------------------------
(* The calls that write through the paths *)

\* What every call that begins has in common: the kernel and the paths stay.
LEMMA BeginStep ==
    ASSUME PwmInv, NEW name \in {"start", "stop", "exit", "attrs", "rate"},
           NEW writes \in Seq(Writes), Len(writes) <= 3, NEW p \in Int, NEW d \in Int,
           Begin(name, writes, p, d),
           name = "exit" => writes = <<Write("enable", 0)>>,
           name \in {"attrs", "rate"} /\ InRange(<<p, d>>) =>
              writes = <<Duty(0), Period(p), Duty(d)>>
    PROVE  PwmInv'
  <1> USE DEF PwmInv
  <1>1. /\ call = "none" /\ call' = name /\ todo' = writes /\ want' = <<p, d>>
        /\ before' = IF opened \in Chips THEN Output(opened) ELSE <<0, 0>>
        /\ UNCHANGED <<pwmdevpath, periodpath, cyclespath, exported, enabled, period, duty,
                       devnum, opened, replaced>>
    BY DEF Begin, paths, kernel
  <1>2. before' \in (0 .. Word - 1) \X (0 .. Word - 1)
    BY <1>1, Units DEF TypeOK, Output
  <1>3. TypeOK'
    BY <1>1, <1>2 DEF TypeOK
  <1>4. SettingInv'
    <2> SUFFICES ASSUME Setting' PROVE todo' = <<Duty(0), Period(p), Duty(d)>>
                                       /\ Output(opened)' = before'
      BY <1>1 DEF SettingInv
    <2>1. name \in {"attrs", "rate"} /\ opened \in Chips /\ InRange(<<p, d>>)
      BY <1>1 DEF Setting, InRange
    <2> QED BY <1>1, <2>1 DEF Output
  <1>5. EnabledInv'
    BY <1>1 DEF EnabledInv
  <1> QED BY <1>1, <1>3, <1>4, <1>5 DEF NewInv, OpenedInv

\* start, stop and the exit begin their one write.
LEMMA StartStopStep ==
    ASSUME PwmInv, Start \/ Stop \/ Exit
    PROVE  PwmInv'
  <1>1. \A v \in {0, 1} :
           <<Write("enable", v)>> \in Seq(Writes) /\ Len(<<Write("enable", v)>>) <= 3
    BY ListTypes
  <1>2. 0 \in Int
    OBVIOUS
  <1>3. CASE Start
    BY <1>1, <1>2, <1>3, BeginStep DEF Start
  <1>4. CASE Stop
    BY <1>1, <1>2, <1>4, BeginStep DEF Stop
  <1>5. CASE Exit
    BY <1>1, <1>2, <1>5, BeginStep DEF Exit
  <1> QED BY <1>3, <1>4, <1>5

\* Values in range reach the kernel as they were asked for.
LEMMA AttrsStep ==
    ASSUME PwmInv, Attrs
    PROVE  PwmInv'
  <1>1. PICK p \in Args, d \in Args :
           Begin("attrs", SetPeriodAndDuty(Wrap(p * NsPerMs), Wrap(d * NsPerMs)),
                 p * NsPerMs, d * NsPerMs)
    BY DEF Attrs
  <1> DEFINE v == p * NsPerMs
             w == d * NsPerMs
  <1>2. v \in Int /\ w \in Int
    BY Units
  <1>3. Begin("attrs", SetPeriodAndDuty(Wrap(v), Wrap(w)), v, w)
    BY <1>1
  <1> HIDE DEF v, w
  <1>4. Wrap(v) \in Longs /\ Wrap(w) \in Longs
    BY <1>2, WrapIsLong
  <1>5. SetPeriodAndDuty(Wrap(v), Wrap(w)) \in Seq(Writes)
        /\ Len(SetPeriodAndDuty(Wrap(v), Wrap(w))) <= 3
    BY <1>4, ListTypes
  <1>6. ASSUME InRange(<<v, w>>)
        PROVE  SetPeriodAndDuty(Wrap(v), Wrap(w)) = <<Duty(0), Period(v), Duty(w)>>
    <2>1. v \in 0 .. Word - 1 /\ w \in 0 .. Word - 1
      BY <1>2, <1>6, Units DEF InRange
    <2>2. Wrap(v) = v /\ Wrap(w) = w
      BY <1>2, <2>1, WrapIsLong
    <2> QED BY <2>2 DEF SetPeriodAndDuty, Period, Duty
  <1> QED BY <1>2, <1>3, <1>5, <1>6, BeginStep

\* rate begins its three writes.
LEMMA RateStep ==
    ASSUME PwmInv, Rate
    PROVE  PwmInv'
  <1>1. PICK r \in Args :
           r > 0 /\ Begin("rate", SetPeriodAndDuty(NsPerSec \div r, (NsPerSec \div r) \div 2),
                          NsPerSec \div r, (NsPerSec \div r) \div 2)
    BY DEF Rate
  <1>2. r \in Nat \ {0} /\ NsPerSec \in Nat
    BY <1>1, Units
  <1>3. PICK p \in 0 .. NsPerSec : p = NsPerSec \div r
    <2>1. \A n \in Nat, m \in Nat \ {0} : n \div m \in 0 .. n
      <3> SUFFICES ASSUME NEW n \in Nat, NEW m \in Nat \ {0} PROVE n \div m \in 0 .. n
        OBVIOUS
      <3>1. PICK q \in Int : q = n \div m
        OBVIOUS
      <3>2. m * q <= n /\ n < m * q + m
        BY <3>1
      <3>3. q >= 0
        BY <3>2
      <3>4. q <= m * q
        BY <3>3
      <3> QED BY <3>1, <3>2, <3>3, <3>4
    <2> QED BY <1>2, <2>1
  <1>4. PICK d \in 0 .. NsPerSec : d = p \div 2
    BY <1>2
  <1>5. p \in Longs /\ d \in Longs /\ p \in Int /\ d \in Int
    BY <1>2, Units, WriteTypes DEF Longs
  <1>6. Begin("rate", SetPeriodAndDuty(p, d), p, d)
    BY <1>1, <1>3, <1>4
  <1>7. SetPeriodAndDuty(p, d) = <<Duty(0), Period(p), Duty(d)>>
    BY DEF SetPeriodAndDuty, Period, Duty
  <1> QED BY <1>5, <1>6, <1>7, ListTypes, BeginStep

\* Writes through the paths reach the chip that was opened and no other.
LEMMA WriteFileTarget ==
    ASSUME PwmInv, WriteFile, opened \in Chips
    PROVE  PathOf(Head(todo).file) = opened
  <1>1. Head(todo).file \in {"period", "duty_cycle", "enable"}
    BY ListRest DEF WriteFile, PwmInv, Writes
  <1> QED BY <1>1 DEF PwmInv, OpenedInv, PathOf

\* A write of the other functions touches the chip last opened only.
LEMMA WriteFileStep ==
    ASSUME PwmInv, WriteFile
    PROVE  PwmInv' /\ (opened \in Chips => \A x \in Chips \ {opened} : Untouched(x))
  <1> USE DEF PwmInv
  <1>1. /\ call \in {"start", "stop", "exit", "attrs", "rate"} /\ todo # <<>>
        /\ todo' = Tail(todo)
        /\ UNCHANGED <<pwmdevpath, periodpath, cyclespath, call, devnum, opened, want,
                       before, replaced>>
    BY DEF WriteFile, paths, history
  <1>2. PICK c \in exported : c = PathOf(Head(todo).file)
    BY DEF WriteFile
  <1>3. Store(c, Head(todo)) /\ c \in Chips
    BY <1>2 DEF WriteFile, TypeOK
  <1>4. Head(todo) \in Writes /\ Tail(todo) \in Seq(Writes) /\ Len(Tail(todo)) <= 3
    BY <1>1, ListRest
  <1>5. /\ exported' = exported /\ enabled' \in SUBSET exported
        /\ period' \in [Chips -> 0 .. Word - 1] /\ duty' \in [Chips -> 0 .. Word - 1]
        /\ \A x \in Chips : duty'[x] <= period'[x]
        /\ \A x \in Chips \ {c} : Untouched(x)
        /\ period[c] > 0 => period'[c] > 0
    BY <1>3, <1>4, StoreOneChip
  <1>6. opened \in Chips => c = opened
    BY <1>2, WriteFileTarget
  <1>7. TypeOK'
    BY <1>1, <1>4, <1>5 DEF TypeOK
  <1>8. OpenedInv'
    BY <1>1, <1>5, <1>6 DEF OpenedInv
  <1>9. NewInv'
    BY <1>1 DEF NewInv
  <1>10. EnabledInv'
    <2>1. CASE Head(todo).file = "enable"
      <3>1. c = pwmdevpath
        BY <1>2, <2>1 DEF PathOf
      <3>2. enabled' \subseteq replaced' \cup {pwmdevpath'}
        BY <1>1, <1>5, <3>1 DEF EnabledInv, TypeOK, Untouched
      <3>3. ASSUME call = "exit" PROVE todo' = <<>> /\ pwmdevpath' \notin enabled'
        <4>1. Head(todo) = Write("enable", 0) /\ Tail(todo) = <<>>
          BY <1>1, <3>3, Rests DEF EnabledInv
        <4>2. enabled' = enabled \ {c}
          BY <1>3, <4>1, StoreEnable
        <4> QED BY <1>1, <3>1, <4>1, <4>2
      <3> QED BY <1>1, <3>2, <3>3 DEF EnabledInv
    <2>2. CASE Head(todo).file # "enable"
      <3>1. enabled' = enabled
        BY <1>3, <2>2 DEF Store
      <3>2. call # "exit"
        BY <1>1, <2>2, Rests DEF EnabledInv, Write
      <3> QED BY <1>1, <3>1, <3>2 DEF EnabledInv
    <2> QED BY <2>1, <2>2
  <1>11. SettingInv'
    <2> SUFFICES ASSUME Setting PROVE SettingInv'
      BY <1>1 DEF SettingInv, Setting, InRange
    <2>1. /\ opened \in Chips /\ opened \in exported /\ Store(opened, Head(todo))
          /\ period[opened] \in Nat /\ period[opened] > 0 /\ duty[opened] \in Nat
      BY <1>3, <1>6, Units DEF Setting, OpenedInv, TypeOK
    <2>2. /\ want[1] \in Int /\ want[1] > 0 /\ want[2] \in Int /\ want[2] \in 0 .. want[1]
          /\ want = <<want[1], want[2]>> /\ before = <<before[1], before[2]>>
      BY Units DEF Setting, InRange, TypeOK
    <2>3. CASE todo = <<Duty(0), Period(want[1]), Duty(want[2])>> /\ Output(opened) = before
      <3>1. Head(todo) = Write("duty_cycle", 0)
            /\ todo' = <<Period(want[1]), Duty(want[2])>>
        BY <1>1, <2>3, Rests DEF Duty
      <3>2. 0 \in Int /\ 0 \in 0 .. period[opened]
        BY <2>1
      <3>3. period' = period /\ duty'[opened] = 0
        BY <2>1, <3>1, <3>2, StoreDuty
      <3>4. period[opened] = before[1]
        BY <2>2, <2>3 DEF Output
      <3> QED BY <1>1, <3>1, <3>3, <3>4 DEF SettingInv, Output
    <2>4. CASE todo = <<Period(want[1]), Duty(want[2])>> /\ Output(opened) = <<before[1], 0>>
      <3>1. Head(todo) = Write("period", want[1]) /\ todo' = <<Duty(want[2])>>
        BY <1>1, <2>4, Rests DEF Period
      <3>2. duty[opened] = 0 /\ duty[opened] <= want[1]
        BY <2>2, <2>4 DEF Output
      <3>3. duty' = duty /\ period'[opened] = want[1]
        BY <2>1, <2>2, <3>1, <3>2, StorePeriod
      <3> QED BY <1>1, <3>1, <3>2, <3>3 DEF SettingInv, Output
    <2>5. CASE todo = <<Duty(want[2])>> /\ Output(opened) = <<want[1], 0>>
      <3>1. Head(todo) = Write("duty_cycle", want[2]) /\ todo' = <<>>
        BY <1>1, <2>5, Rests DEF Duty
      <3>2. period[opened] = want[1]
        BY <2>5 DEF Output
      <3>3. want[2] \in 0 .. period[opened]
        BY <2>2, <3>2
      <3>4. period' = period /\ duty'[opened] = want[2]
        BY <2>1, <2>2, <3>1, <3>3, StoreDuty
      <3> QED BY <1>1, <2>2, <3>1, <3>2, <3>4 DEF SettingInv, Output
    <2> QED BY <1>1, <2>3, <2>4, <2>5 DEF SettingInv
  <1> QED BY <1>5, <1>6, <1>7, <1>8, <1>9, <1>10, <1>11

\* A function returns, the process dies, or the next one loads the module.
LEMMA EndStep ==
    ASSUME PwmInv, Returns \/ Dies \/ Load
    PROVE  PwmInv'
  <1> USE DEF PwmInv
  <1>1. CASE Returns \/ Dies
    <2>1. /\ call' \in {"none", "dead"} /\ todo' = <<>>
          /\ UNCHANGED <<pwmdevpath, periodpath, cyclespath, exported, enabled, period, duty,
                         devnum, opened, replaced>>
          /\ want' \in {want, <<0, 0>>} /\ before' \in {before, <<0, 0>>}
      BY <1>1 DEF Returns, Dies, paths, kernel, history
    <2>2. <<0, 0>> \in Int \X Int /\ <<0, 0>> \in (0 .. Word - 1) \X (0 .. Word - 1)
      BY Units
    <2>3. TypeOK'
      BY <2>1, <2>2, ListTypes DEF TypeOK
    <2> QED BY <2>1, <2>3 DEF NewInv, SettingInv, Setting, OpenedInv, EnabledInv
  <1>2. CASE Load
    <2>1. /\ pwmdevpath' = NoPath /\ periodpath' = NoPath /\ cyclespath' = NoPath
          /\ call' = "none" /\ todo' = <<>> /\ opened' = NoPath /\ replaced' = enabled
          /\ want' = <<0, 0>> /\ before' = <<0, 0>>
          /\ UNCHANGED <<exported, enabled, period, duty, devnum>>
      BY <1>2 DEF Load, kernel
    <2>2. <<0, 0>> \in Int \X Int /\ <<0, 0>> \in (0 .. Word - 1) \X (0 .. Word - 1)
      BY Units
    <2>3. TypeOK'
      BY <2>1, <2>2, ListTypes DEF TypeOK
    <2> QED BY <2>1, <2>3, Units DEF NewInv, SettingInv, Setting, OpenedInv, EnabledInv
  <1> QED BY <1>1, <1>2

-----------------------------------------------------------------------------
(* The theorems *)

\* The invariant holds for whatever an earlier process left.
LEMMA PwmInit == Init => PwmInv
  <1> SUFFICES ASSUME Init PROVE PwmInv
    OBVIOUS
  <1>1. TypeOK
    BY Units, ListTypes DEF Init, TypeOK
  <1> QED BY <1>1, Units DEF Init, PwmInv, NewInv, SettingInv, Setting, OpenedInv, EnabledInv

\* Every step keeps the invariant.
LEMMA PwmStep == PwmInv /\ [Next]_vars => PwmInv'
  <1> SUFFICES ASSUME PwmInv, [Next]_vars PROVE PwmInv'
    OBVIOUS
  <1>1. ASSUME NEW c \in Chips, NewPwm(c) PROVE PwmInv'
    BY <1>1, NewPwmStep
  <1>2. CASE NewPwmWrite
    BY <1>2, NewPwmWriteStep
  <1>3. CASE NewPwmRaises
    BY <1>3, NewPwmRaisesStep
  <1>4. CASE NewPwmReturns
    BY <1>4, NewPwmReturnsStep
  <1>5. CASE Start \/ Stop \/ Exit
    BY <1>5, StartStopStep
  <1>6. CASE Attrs
    BY <1>6, AttrsStep
  <1>7. CASE Rate
    BY <1>7, RateStep
  <1>8. CASE WriteFile
    BY <1>8, WriteFileStep
  <1>9. CASE Returns \/ Dies \/ Load
    BY <1>9, EndStep
  <1>10. CASE UNCHANGED vars
    BY <1>10 DEF vars, paths, kernel, history, PwmInv, TypeOK, NewInv, SettingInv, Setting,
                InRange, Output, OpenedInv, EnabledInv
  <1> QED BY <1>1, <1>2, <1>3, <1>4, <1>5, <1>6, <1>7, <1>8, <1>9, <1>10 DEF Next

\* The invariant of pwm.c.
LEMMA PwmInvCorrect == Spec => []PwmInv
  BY PwmInit, PwmStep, PTL DEF Spec

\* Types, the order in which the paths appear, and the kernel's duty cycle within
\* its period, in every state of pwm.c.
THEOREM TypeCorrect == Spec => []TypeOK
  BY PwmInvCorrect, PTL DEF PwmInv

\* attrs and rate have set what was asked of them when they return: none of their
\* three writes is refused, whatever the kernel held before.
THEOREM AppliedCorrect == Spec => []Applied
  <1>1. PwmInv => Applied
    BY Lengths DEF PwmInv, SettingInv, Applied
  <1> QED BY <1>1, PwmInvCorrect, PTL

\* No duty cycle of another period is ever on the line while they run.
THEOREM NoForeignRatioCorrect == Spec => []NoForeignRatio
  <1>1. PwmInv => NoForeignRatio
    BY DEF PwmInv, SettingInv, NoForeignRatio
  <1> QED BY <1>1, PwmInvCorrect, PTL

\* A new_pwm that succeeds leaves half a second on in a second or more.
THEOREM OneSecondOrLongerCorrect == Spec => []OneSecondOrLonger
  <1>1. PwmInv => OneSecondOrLonger
    BY Lengths DEF PwmInv, NewInv, OneSecondOrLonger
  <1> QED BY <1>1, PwmInvCorrect, PTL

\* del_pwm at exit stops what the process started, but for chips it moved away from.
THEOREM StoppedAtExitCorrect == Spec => []StoppedAtExit
  <1>1. PwmInv => StoppedAtExit
    BY Lengths DEF PwmInv, EnabledInv, StoppedAtExit
  <1> QED BY <1>1, PwmInvCorrect, PTL

\* Each call touches the chip of the latest new_pwm only.
THEOREM OneChipCorrect == Spec => OneChip
  <1>1. PwmInv /\ [Next]_vars =>
           [\A c \in Chips \ Target :
               Output(c)' = Output(c) /\ (c \in enabled' <=> c \in enabled)]_vars
    <2> SUFFICES ASSUME PwmInv, Next, NEW x \in Chips \ Target PROVE Untouched(x)
      BY DEF Untouched
    <2>1. CASE NewPwmWrite
      <3>1. Target = {devnum}
        BY <2>1 DEF Target, NewPwmWrite
      <3> QED BY <2>1, <3>1, NewPwmWriteStep
    <2>2. CASE WriteFile
      <3>1. opened \in Chips /\ Target = {opened}
        BY <2>2 DEF Target, WriteFile
      <3> QED BY <2>2, <3>1, WriteFileStep
    <2>3. CASE UNCHANGED <<period, duty>> /\ UNCHANGED enabled
      BY <2>3 DEF Untouched, Output
    <2>4. ASSUME NEW c \in Chips, NewPwm(c) PROVE UNCHANGED <<period, duty>> /\ UNCHANGED enabled
      BY <2>4 DEF NewPwm
    <2>5. Start \/ Stop \/ Exit \/ Attrs \/ Rate => UNCHANGED <<period, duty>> /\ UNCHANGED enabled
      BY DEF Start, Stop, Exit, Attrs, Rate, Begin, kernel
    <2>6. NewPwmRaises \/ NewPwmReturns => UNCHANGED <<period, duty>> /\ UNCHANGED enabled
      BY DEF NewPwmRaises, NewPwmReturns, kernel
    <2>7. Returns \/ Dies \/ Load => UNCHANGED <<period, duty>> /\ UNCHANGED enabled
      BY DEF Returns, Dies, Load, kernel
    <2> QED BY <2>1, <2>2, <2>3, <2>4, <2>5, <2>6, <2>7 DEF Next
  <1> QED BY <1>1, PwmInvCorrect, PTL DEF Spec, OneChip
==============================================================================

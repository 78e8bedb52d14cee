---------------------------------- MODULE Pwm ----------------------------------
(***************************************************************************)
(* pwm.c: the sysfs files of the PWM chips as one Python process writes    *)
(* them.  Every file write is a step of its own: the process can be killed *)
(* between two of them, and what was written stays in the kernel.          *)
(*                                                                         *)
(* A call is the list of the writes it has still to do.  fwrite only fills *)
(* the stdio buffer, so it never fails; the kernel sees the value when     *)
(* fclose flushes it, and fclose's result is not read: what the kernel     *)
(* refuses, the call reports as done.                                      *)
(***************************************************************************)
EXTENDS Integers, Sequences

CONSTANTS
    Chips,      \* pwmchip0, pwmchip1
    NoPath,     \* the empty string, of which fopen makes nothing
    Word,       \* 2^31 in the code: long holds -Word .. Word - 1
    NsPerMs,    \* nanoseconds in a unit of attrs's arguments: 1000 * 1000
    NsPerSec,   \* nanoseconds in a second: 1000 * 1000 * 1000
    Args        \* the longs that callers pass to attrs and rate

ASSUME ChipsAssumption == NoPath \notin Chips
ASSUME UnitsAssumption ==
    /\ Word \in Nat /\ NsPerMs \in Nat \ {0}
    /\ NsPerSec \in 1 .. Word - 1
    /\ Args \subseteq -Word .. Word - 1

VARIABLES
    pwmdevpath, periodpath, cyclespath,  \* the static paths, by their chip
    exported, enabled,                   \* kernel: chips with pwm0; chips that run
    period, duty,                        \* kernel: nanoseconds, per chip
    call,       \* the function running, "none", or "dead": there is no process
    devnum,     \* new_pwm's argument
    todo,       \* the writes that call has still to do
    \* history, read by the properties only:
    opened,     \* the chip that the latest new_pwm set up, if that one succeeded
    want,       \* period and duty cycle that the caller of attrs or rate asked for
    before,     \* the output of opened when that call began
    replaced    \* chips started by this process before new_pwm moved to another

paths   == <<pwmdevpath, periodpath, cyclespath>>
kernel  == <<exported, enabled, period, duty>>
history == <<opened, want, before, replaced>>
vars    == <<paths, kernel, call, devnum, todo, history>>

\* Variant: a product of unlimited width.
NoWrap(n) == n

\* What a long makes of a product that does not fit.
Wrap(n) == ((n + Word) % (2 * Word)) - Word

Write(f, v) == [file |-> f, value |-> v]

Output(c) == <<period[c], duty[c]>>

-----------------------------------------------------------------------------
(* The kernel's side *)

\* period takes a positive value that the duty cycle fits in; duty_cycle takes
\* one that fits in the period; enable takes 0 and 1.  Anything else is refused.
Accepts(c, w) ==
    CASE w.file = "period"     -> w.value > 0 /\ duty[c] <= w.value
      [] w.file = "duty_cycle" -> period[c] > 0 /\ w.value \in 0 .. period[c]
      [] w.file = "enable"     -> TRUE

Store(c, w) ==
    /\ UNCHANGED exported
    /\ IF Accepts(c, w)
       THEN /\ period'  = IF w.file = "period" THEN [period EXCEPT ![c] = w.value] ELSE period
            /\ duty'    = IF w.file = "duty_cycle" THEN [duty EXCEPT ![c] = w.value] ELSE duty
            /\ enabled' = CASE w.file = "enable" /\ w.value = 1 -> enabled \cup {c}
                            [] w.file = "enable" /\ w.value = 0 -> enabled \ {c}
                            [] OTHER -> enabled
       ELSE UNCHANGED <<enabled, period, duty>>

-----------------------------------------------------------------------------
(* new_pwm *)

\* Variant: the duty cycle before the period it has to fit in.
DutyCycleFirst ==
    <<Write("duty_cycle", NsPerSec \div 2), Write("period", NsPerSec)>>

OneSecondHalfOn ==
    <<Write("period", NsPerSec), Write("duty_cycle", NsPerSec \div 2)>>

\* export takes the chip (or refuses it); a chip that has its directory already is
\* left as it was found.
NewPwm(c) ==
    /\ call = "none"
    /\ exported' \in {exported, exported \cup {c}}
    /\ call' = "new_pwm" /\ devnum' = c
    /\ todo' = OneSecondHalfOn
    /\ opened' = NoPath
    /\ UNCHANGED <<paths, enabled, period, duty, want, before, replaced>>

\* Variant: the path of a file is built only the first time.
BuildPathOnce(f) ==
    /\ periodpath' = IF f = "period" /\ periodpath = NoPath THEN devnum ELSE periodpath
    /\ cyclespath' = IF f = "duty_cycle" /\ cyclespath = NoPath THEN devnum ELSE cyclespath
    /\ UNCHANGED pwmdevpath

\* Variant: all three paths are built before the files are written.
BuildPathsEarly(f) ==
    pwmdevpath' = devnum /\ periodpath' = devnum /\ cyclespath' = devnum

BuildPath(f) ==
    /\ periodpath' = IF f = "period" THEN devnum ELSE periodpath
    /\ cyclespath' = IF f = "duty_cycle" THEN devnum ELSE cyclespath
    /\ UNCHANGED pwmdevpath

\* The path is built, then the file opened and written.
NewPwmWrite ==
    /\ call = "new_pwm" /\ todo # <<>>
    /\ devnum \in exported
    /\ BuildPath(Head(todo).file)
    /\ Store(devnum, Head(todo))
    /\ todo' = Tail(todo)
    /\ UNCHANGED <<call, devnum, history>>

\* The file cannot be opened: the call raises, with the paths built so far.
NewPwmRaises ==
    /\ call = "new_pwm" /\ todo # <<>>
    /\ BuildPath(Head(todo).file)
    /\ call' = "none" /\ todo' = <<>>
    /\ UNCHANGED <<kernel, devnum, history>>

NewPwmReturns ==
    /\ call = "new_pwm" /\ todo = <<>>
    /\ pwmdevpath' = devnum
    /\ opened' = devnum
    /\ replaced' = (replaced \cup (enabled \cap {pwmdevpath})) \ {devnum}
    /\ call' = "none"
    /\ UNCHANGED <<periodpath, cyclespath, kernel, devnum, todo, want, before>>

-----------------------------------------------------------------------------
(* start, attrs, rate, stop, and del_pwm when the interpreter ends *)

Begin(name, writes, p, d) ==
    /\ call = "none"
    /\ call' = name /\ todo' = writes
    /\ want' = <<p, d>>
    /\ before' = IF opened \in Chips THEN Output(opened) ELSE <<0, 0>>
    /\ UNCHANGED <<paths, kernel, devnum, opened, replaced>>

Start == Begin("start", <<Write("enable", 1)>>, 0, 0)
Stop  == Begin("stop", <<Write("enable", 0)>>, 0, 0)
Exit  == Begin("exit", <<Write("enable", 0)>>, 0, 0)

\* Variants: the old duty cycle is not taken away first; or it is, but the new one
\* comes before the period.
SetWithoutZero(p, d) == <<Write("period", p), Write("duty_cycle", d)>>
SetDutyFirst(p, d) ==
    <<Write("duty_cycle", 0), Write("duty_cycle", d), Write("period", p)>>

SetPeriodAndDuty(p, d) ==
    <<Write("duty_cycle", 0), Write("period", p), Write("duty_cycle", d)>>

\* The arguments are milliseconds.
Attrs ==
    \E p, d \in Args :
       Begin("attrs", SetPeriodAndDuty(Wrap(p * NsPerMs), Wrap(d * NsPerMs)),
             p * NsPerMs, d * NsPerMs)

\* The argument is a frequency; half of the period is on.
Rate ==
    \E r \in Args :
       /\ r > 0
       /\ LET p == NsPerSec \div r
          IN  Begin("rate", SetPeriodAndDuty(p, p \div 2), p, p \div 2)

PathOf(f) ==
    CASE f = "period" -> periodpath [] f = "duty_cycle" -> cyclespath [] f = "enable" -> pwmdevpath

WriteFile ==
    /\ call \in {"start", "stop", "exit", "attrs", "rate"} /\ todo # <<>>
    /\ PathOf(Head(todo).file) \in exported
    /\ Store(PathOf(Head(todo).file), Head(todo))
    /\ todo' = Tail(todo)
    /\ UNCHANGED <<paths, call, devnum, history>>

\* The file cannot be opened and fwrite takes the NULL that fopen returned; or
\* the process is killed, at any moment.
Dies ==
    /\ call # "dead"
    /\ call' = "dead" /\ todo' = <<>>
    /\ UNCHANGED <<paths, kernel, devnum, history>>

Returns ==
    /\ call \in {"start", "stop", "exit", "attrs", "rate"} /\ todo = <<>>
    /\ call' = IF call = "exit" THEN "dead" ELSE "none"
    /\ want' = <<0, 0>> /\ before' = <<0, 0>>
    /\ UNCHANGED <<paths, kernel, devnum, todo, opened, replaced>>

\* A new process: the statics are empty, the kernel is as it was left.
Load ==
    /\ call = "dead"
    /\ pwmdevpath' = NoPath /\ periodpath' = NoPath /\ cyclespath' = NoPath
    /\ call' = "none" /\ todo' = <<>> /\ UNCHANGED devnum
    /\ opened' = NoPath /\ replaced' = enabled
    /\ want' = <<0, 0>> /\ before' = <<0, 0>>
    /\ UNCHANGED kernel

-----------------------------------------------------------------------------
Init ==
    /\ pwmdevpath = NoPath /\ periodpath = NoPath /\ cyclespath = NoPath
    /\ exported = {} /\ enabled = {}
    /\ period = [c \in Chips |-> 0] /\ duty = [c \in Chips |-> 0]
    /\ call = "none" /\ devnum \in Chips /\ todo = <<>>
    /\ opened = NoPath /\ want = <<0, 0>> /\ before = <<0, 0>> /\ replaced = {}

Next ==
    \/ \E c \in Chips : NewPwm(c)
    \/ NewPwmWrite \/ NewPwmRaises \/ NewPwmReturns
    \/ Start \/ Stop \/ Exit \/ Attrs \/ Rate
    \/ WriteFile \/ Returns
    \/ Dies \/ Load

Spec == Init /\ [][Next]_vars

-----------------------------------------------------------------------------
(* Properties *)

Longs  == -Word .. Word - 1
Writes == [file : {"period", "duty_cycle", "enable"}, value : Longs]

\* Types, and the order in which new_pwm builds the paths: a path that is there has
\* the earlier ones with it.  The kernel keeps the duty cycle within the period.
TypeOK ==
    /\ pwmdevpath \in Chips \cup {NoPath}
    /\ periodpath \in Chips \cup {NoPath}
    /\ cyclespath \in Chips \cup {NoPath}
    /\ pwmdevpath # NoPath => cyclespath # NoPath
    /\ cyclespath # NoPath => periodpath # NoPath
    /\ exported \in SUBSET Chips /\ enabled \in SUBSET exported
    /\ period \in [Chips -> 0 .. Word - 1]
    /\ duty \in [Chips -> 0 .. Word - 1]
    /\ \A c \in Chips : duty[c] <= period[c]
    /\ call \in {"none", "dead", "new_pwm", "start", "stop", "exit", "attrs", "rate"}
    /\ devnum \in Chips
    /\ todo \in Seq(Writes) /\ Len(todo) <= 3
    /\ opened \in Chips \cup {NoPath}
    /\ want \in Int \X Int
    /\ before \in (0 .. Word - 1) \X (0 .. Word - 1)
    /\ replaced \in SUBSET Chips

\* A period and a duty cycle that a caller can mean: they fit in a long and the
\* duty cycle fits in the period.
InRange(w) == w[1] \in 1 .. Word - 1 /\ w[2] \in 0 .. w[1]

\* The caller of attrs or rate asks for values in range and the latest new_pwm
\* succeeded.
Setting == call \in {"attrs", "rate"} /\ opened \in Chips /\ InRange(want)

\* attrs and rate set what they were asked to set: although no refusal of the
\* kernel is noticed, none happens, whatever output an earlier process left.
Applied == Setting /\ todo = <<>> => Output(opened) = want

\* While they do it the line never carries a duty cycle that belongs to another
\* period than the one in force: it goes from the old pair to the new one through 0.
NoForeignRatio ==
    Setting => Output(opened) \in {before, <<before[1], 0>>, <<want[1], 0>>, want}

\* What new_pwm leaves when it succeeds, over any output it finds: half a second on,
\* in a period of one second.  The period is not asked for again: when the kernel
\* refuses it, because the duty cycle it found is longer than a second, the old and
\* longer period stays.
OneSecondOrLonger ==
    call = "new_pwm" /\ todo = <<>> =>
       duty[devnum] = NsPerSec \div 2 /\ period[devnum] >= NsPerSec

\* Only the chip of the latest new_pwm is touched, unless that one raised half way:
\* then the paths can name two chips.
Target == IF call = "new_pwm" THEN {devnum} ELSE IF opened \in Chips THEN {opened} ELSE Chips

OneChip ==
    [][\A c \in Chips \ Target :
          Output(c)' = Output(c) /\ (c \in enabled' <=> c \in enabled)]_vars

\* When the interpreter ends, del_pwm stops what this process started, but for a
\* chip it moved away from with a later new_pwm: a new_pwm that raised does not
\* make it lose the chip that runs.
StoppedAtExit == call = "exit" /\ todo = <<>> => enabled \subseteq replaced
==============================================================================

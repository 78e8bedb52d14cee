---------------------------------- MODULE Led ----------------------------------
(***************************************************************************)
(* imx6_ixora_led.c: the brightness files of the board's LEDs, written one *)
(* at a time by ioctl and all in a row by led_exit, which is clear and the *)
(* end of the module at once.  Any file may be impossible to open, and the *)
(* process can be killed between two files; what is lit stays lit.         *)
(***************************************************************************)
EXTENDS Integers, Sequences, Functions

CONSTANTS
    Order,     \* the files in the order of led_exit: LED 4 and 5, RED and GREEN
    Absent     \* what ioctl takes for an LED and the board does not have: 0 .. 3

Files == Range(Order)

ASSUME OrderAssumption ==
    /\ Order \in Seq(Files) /\ IsInjective(Order)
    /\ Absent \cap Files = {}

VARIABLES
    lit,       \* the files whose brightness is not 0
    call,      \* "none", "clear", "exit", or "dead": there is no process
    n,         \* led_exit: the index of the next file
    error,     \* the exception that led_exit has set: "none" or "set"
    result,    \* of the latest call: "none", "True", "raised", "SystemError"
    before     \* history: what was lit when led_exit began

vars == <<lit, call, n, error, result, before>>

-----------------------------------------------------------------------------
Light(f, status) == IF status = 1 THEN lit \cup {f} ELSE lit \ {f}

Ioctl(f, status) ==
    /\ call = "none" /\ f \in Files
    /\ lit' = Light(f, status)
    /\ result' = "True"
    /\ UNCHANGED <<call, n, error, before>>

\* The file is not there, or cannot be opened.
IoctlRaises(f) ==
    /\ call = "none" /\ f \in Files \cup Absent
    /\ result' = "raised"
    /\ UNCHANGED <<lit, call, n, error, before>>

\* Variant: the loop begins before the first file.
BeginAtZero(name) ==
    /\ call = "none"
    /\ call' = name /\ n' = 0 /\ before' = lit /\ result' = "none"
    /\ UNCHANGED <<lit, error>>

Begin(name) ==
    /\ call = "none"
    /\ call' = name /\ n' = 1 /\ before' = lit /\ result' = "none"
    /\ UNCHANGED <<lit, error>>

Clear == Begin("clear")
Exit  == Begin("exit")

Going == call \in {"clear", "exit"} /\ n <= Len(Order) /\ error = "none"

\* Variant: the two colours share one step of the loop.
DarkenEveryOther ==
    /\ Going
    /\ lit' = lit \ {Order[n]} /\ n' = n + 2
    /\ UNCHANGED <<call, error, result, before>>

Darken ==
    /\ Going
    /\ lit' = lit \ {Order[n]} /\ n' = n + 1
    /\ UNCHANGED <<call, error, result, before>>

\* Variant: the file is skipped and nothing is said.
SkipFile ==
    /\ Going
    /\ n' = n + 1
    /\ UNCHANGED <<lit, call, error, result, before>>

\* led_exit gives up at the first file that cannot be opened.
GiveUp ==
    /\ Going
    /\ error' = "set"
    /\ UNCHANGED <<lit, call, n, result, before>>

\* clear returns True whatever led_exit did; the interpreter makes a SystemError of
\* a result that comes with an exception.
Return ==
    /\ call \in {"clear", "exit"} /\ ~Going
    /\ call' = IF call = "exit" THEN "dead" ELSE "none"
    /\ result' = IF call = "exit" THEN "none" ELSE IF error = "set" THEN "SystemError" ELSE "True"
    /\ error' = "none"
    /\ UNCHANGED <<lit, n, before>>

Killed ==
    /\ call # "dead"
    /\ call' = "dead" /\ error' = "none" /\ result' = "none"
    /\ UNCHANGED <<lit, n, before>>

Load ==
    /\ call = "dead"
    /\ call' = "none" /\ n' = 1 /\ before' = {}
    /\ UNCHANGED <<lit, error, result>>

-----------------------------------------------------------------------------
Init ==
    /\ lit = {} /\ call = "none" /\ n = 1
    /\ error = "none" /\ result = "none" /\ before = {}

Next ==
    \/ \E f \in Files, status \in {0, 1} : Ioctl(f, status)
    \/ \E f \in Files \cup Absent : IoctlRaises(f)
    \/ Clear \/ Exit \/ Darken \/ GiveUp \/ Return
    \/ Killed \/ Load

Spec == Init /\ [][Next]_vars

-----------------------------------------------------------------------------
(* Properties *)

\* Types; the loop stays within the files there are.
TypeOK ==
    /\ lit \in SUBSET Files /\ before \in SUBSET Files
    /\ call \in {"none", "clear", "exit", "dead"}
    /\ n \in 1 .. Len(Order) + 1
    /\ error \in {"none", "set"}
    /\ result \in {"none", "True", "raised", "SystemError"}

\* led_exit leaves dark exactly the files it has passed and the others as they were,
\* whether it ends, gives up or is still on its way.
PrefixDark ==
    call \in {"clear", "exit"} => lit = before \ {Order[x] : x \in 1 .. n - 1}

\* A clear that returns True has left nothing lit, although led_exit's failure has no
\* result: a file it could not open shows as a SystemError.
TrueMeansDark ==
    [][call = "clear" /\ result' = "True" => lit' = {}]_vars
==============================================================================

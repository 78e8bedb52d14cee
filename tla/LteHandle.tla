------------------------------ MODULE LteHandle ------------------------------
(***************************************************************************)
(* The life of the serial handle of the me909s extension module: the       *)
(* static pointer ctx of me909s.c, the module_t objects CoraSerial.c       *)
(* allocates for it, the descriptors they hold and the settings of the     *)
(* terminal line they drive.                                               *)
(*                                                                         *)
(* Every function of the module runs with the interpreter lock held and    *)
(* never yields in these paths, so one call is one step.                   *)
(***************************************************************************)
EXTENDS Integers, Sequences

CONSTANTS
    Handles,      \* the addresses malloc can return; also names the
                  \* descriptor the object at that address opened
    NULL,
    Configs,      \* the arguments callers pass to new_lte
    OrigLine      \* settings of the line before anybody opens it

ASSUME HandleAssumption == NULL \notin Handles
ASSUME ConfigAssumption ==
    Configs \subseteq [named : BOOLEAN, baud : Nat, parity : STRING,
                       data_bit : Int, stop_bit : Int]

VARIABLES
    ctx,      \* me909s.c's static module_t *ctx
    live,     \* addresses that are allocated
    s,        \* s[h]: the field ctx->s holds a descriptor, not -1
    uart,     \* uart[h]: the cora_serial_t behind h: settings asked for
              \* and old_tios
    opened,   \* the open descriptors of the device, oldest first
    line,     \* the termios settings in force
    last,     \* outcome of the last new_lte or del_lte, as the caller saw it; a
              \* new_lte that cannot parse its arguments changes nothing at all
    exited,   \* the interpreter has torn the module down
    fault     \* memory was used after it was freed: behaviour is undefined

handleVars == <<ctx, live, s, uart, opened, line, last, exited, fault>>

-----------------------------------------------------------------------------
(* Line settings *)

\* The baud rates _uarts_connect has a case for.
PosixBauds ==
    {110, 300, 600, 1200, 2400, 4800, 9600, 19200, 38400, 57600, 115200,
     230400, 460800, 500000, 576000, 921600, 1000000, 1152000, 1500000,
     2500000, 3000000, 3500000, 4000000}

\* Any other rate falls back to 9600 bauds.
Speed(baud) == IF baud \in PosixBauds THEN baud ELSE 9600

\* data_bit and stop_bit are stored in a uint8_t.
Byte(n) == n % 256

\* The character size: 8 bits unless 5, 6 or 7 were asked for.
CharSize(data_bit) == IF Byte(data_bit) \in 5 .. 7 THEN Byte(data_bit) ELSE 8

StopBits(stop_bit) == IF Byte(stop_bit) = 1 THEN 1 ELSE 2

\* The settings tcsetattr is given for a configuration.
LineOf(c) == [speed  |-> Speed(c.baud),
              bits   |-> CharSize(c.data_bit),
              stop   |-> StopBits(c.stop_bit),
              parity |-> c.parity,
              raw    |-> TRUE]

LineSettings == {OrigLine} \cup {LineOf(c) : c \in Configs}

\* Variants: the settings are saved after they were replaced; tcgetattr failed.
SavedTooLate(c) == LineOf(c)
SavedNothing(c) == NULL

\* What tcgetattr saves before configuration c is put in force.
Saved(c) == line

\* What module_new refuses before it allocates anything, and after.
GoodArgs(c)   == c.named /\ c.baud # 0
GoodParity(c) == c.parity \in {"N", "E", "O"}

-----------------------------------------------------------------------------
(* new_lte *)

Running == ~exited /\ ~fault

\* ctx points to freed memory.
Dangling == ctx # NULL /\ ctx \notin live

\* module_new refuses the arguments: it returns NULL, new_lte stores it.
NewLteRefused(c) ==
    /\ Running
    /\ ~GoodArgs(c)
    /\ ctx' = NULL
    /\ last' = "new_failed"
    /\ UNCHANGED <<live, s, uart, opened, line, exited, fault>>

\* Variant: new_lte sets ctx only when it has a handle.
AbsentKeepsHandle(c, h) ==
    /\ Running
    /\ GoodArgs(c)
    /\ h \notin live
    /\ live' = live \cup {h}
    /\ s' = [s EXCEPT ![h] = FALSE]
    /\ last' = "new_failed"
    /\ UNCHANGED <<ctx, uart, opened, line, exited, fault>>

\* No Huawei modem answers lsusb: module_new returns NULL and keeps the
\* module_t it has just allocated.
NewLteAbsent(c, h) ==
    /\ Running
    /\ GoodArgs(c)
    /\ h \notin live
    /\ live' = live \cup {h}
    /\ s' = [s EXCEPT ![h] = FALSE]
    /\ ctx' = NULL
    /\ last' = "new_failed"
    /\ UNCHANGED <<uart, opened, line, exited, fault>>

\* Variant: the object module_new has freed is returned.
BadParityReturned(c, h) ==
    /\ Running
    /\ GoodArgs(c) /\ ~GoodParity(c)
    /\ h \notin live
    /\ ctx' = h
    /\ last' = "new_failed"
    /\ UNCHANGED <<live, s, uart, opened, line, exited, fault>>

\* The parity is refused after the allocation: module_new frees what it has
\* allocated and returns NULL.
NewLteBadParity(c, h) ==
    /\ Running
    /\ GoodArgs(c) /\ ~GoodParity(c)
    /\ h \notin live
    /\ ctx' = NULL
    /\ last' = "new_failed"
    /\ UNCHANGED <<live, s, uart, opened, line, exited, fault>>

\* open fails in _uarts_connect: new_lte frees the object; ctx keeps its
\* address.
NewLteOpenFails(c, h) ==
    /\ Running
    /\ GoodArgs(c) /\ GoodParity(c)
    /\ h \notin live
    /\ ctx' = h
    /\ s' = [s EXCEPT ![h] = FALSE]
    /\ last' = "connect_failed"
    /\ UNCHANGED <<live, uart, opened, line, exited, fault>>

\* Variant: the error path of tcsetattr forgets to close.
SetupFailureLeaks(c, h) ==
    /\ Running
    /\ GoodArgs(c) /\ GoodParity(c)
    /\ h \notin live
    /\ ctx' = h
    /\ opened' = Append(opened, h)
    /\ uart' = [uart EXCEPT ![h] = [conf |-> LineOf(c), old_tios |-> Saved(c)]]
    /\ last' = "connect_failed"
    /\ UNCHANGED <<live, s, line, exited, fault>>

\* The settings are refused after open: _uarts_connect closes the descriptor
\* it has just opened, without touching the line, and new_lte frees the object.
NewLteSetupFails(c, h) ==
    /\ Running
    /\ GoodArgs(c) /\ GoodParity(c)
    /\ h \notin live
    /\ ctx' = h
    /\ s' = [s EXCEPT ![h] = FALSE]
    /\ uart' = [uart EXCEPT ![h] = [conf |-> LineOf(c), old_tios |-> Saved(c)]]
    /\ last' = "connect_failed"
    /\ UNCHANGED <<live, opened, line, exited, fault>>

\* The settings in force are saved, then replaced by those asked for.
NewLte(c, h) ==
    /\ Running
    /\ GoodArgs(c) /\ GoodParity(c)
    /\ h \notin live
    /\ live' = live \cup {h}
    /\ ctx' = h
    /\ s' = [s EXCEPT ![h] = TRUE]
    /\ opened' = Append(opened, h)
    /\ uart' = [uart EXCEPT ![h] = [conf |-> LineOf(c), old_tios |-> Saved(c)]]
    /\ line' = LineOf(c)
    /\ last' = "connected"
    /\ UNCHANGED <<exited, fault>>

-----------------------------------------------------------------------------
(* Use and release *)

\* module_close(ctx); module_free(ctx): both do nothing for NULL; a connected
\* handle gets its line back as it found it, and is freed.
CloseAndFree ==
    /\ IF ctx \in live /\ s[ctx]
       THEN /\ line' = uart[ctx].old_tios
            /\ \E k \in 1 .. Len(opened) :
                  /\ opened[k] = ctx
                  /\ opened' = SubSeq(opened, 1, k - 1)
                               \o SubSeq(opened, k + 1, Len(opened))
            /\ s' = [s EXCEPT ![ctx] = FALSE]
       ELSE UNCHANGED <<line, opened, s>>
    /\ live' = live \ {ctx}
    /\ fault' = Dangling
    /\ UNCHANGED <<ctx, uart>>

DelLte ==
    /\ Running
    /\ CloseAndFree
    /\ last' = "deleted"
    /\ UNCHANGED exited

\* free_lte, the m_free slot of the module definition, at interpreter exit.
Exit ==
    /\ Running
    /\ CloseAndFree
    /\ exited' = TRUE
    /\ UNCHANGED last

\* Any AT function on a dangling handle: module_send reads ctx->backend from
\* freed memory. On NULL it returns -1 and on a connected handle it writes to
\* the line; neither changes this module's state.
UseDangling ==
    /\ Running
    /\ Dangling
    /\ fault' = TRUE
    /\ UNCHANGED <<ctx, live, s, uart, opened, line, last, exited>>

-----------------------------------------------------------------------------
HandleInit ==
    /\ ctx = NULL
    /\ live = {}
    /\ s = [h \in Handles |-> FALSE]
    /\ uart = [h \in Handles |-> [conf |-> OrigLine, old_tios |-> OrigLine]]
    /\ opened = <<>>
    /\ line = OrigLine
    /\ last = "none"
    /\ exited = FALSE
    /\ fault = FALSE

HandleNext ==
    \/ \E c \in Configs :
          \/ NewLteRefused(c)
          \/ \E h \in Handles :
                \/ NewLteAbsent(c, h)
                \/ NewLteBadParity(c, h)
                \/ NewLteOpenFails(c, h)
                \/ NewLteSetupFails(c, h)
                \/ NewLte(c, h)
    \/ DelLte
    \/ Exit
    \/ UseDangling

HandleSpec == HandleInit /\ [][HandleNext]_handleVars

-----------------------------------------------------------------------------
(* Properties *)

\* Types of the variables of me909s.c and CoraSerial.c modelled here.
HandleTypeOK ==
    /\ ctx \in Handles \cup {NULL}
    /\ live \subseteq Handles
    /\ s \in [Handles -> BOOLEAN]
    /\ uart \in [Handles -> [conf : LineSettings, old_tios : LineSettings]]
    /\ opened \in Seq(Handles)
    /\ line \in LineSettings
    /\ last \in {"none", "connected", "new_failed", "connect_failed", "deleted"}
    /\ exited \in BOOLEAN
    /\ fault \in BOOLEAN

\* The line settings form a stack: each open descriptor has saved the settings
\* of the one opened before it, the first one the original settings, and the
\* newest one's settings are in force. So when the last descriptor is closed
\* (_uarts_close) the line is as it was before the module touched it, however
\* often new_lte was called or failed in between.
SettingsStack ==
    /\ \A k \in 1 .. Len(opened) :
          uart[opened[k]].old_tios =
             IF k = 1 THEN OrigLine ELSE uart[opened[k-1]].conf
    /\ line = IF opened = <<>> THEN OrigLine
              ELSE uart[opened[Len(opened)]].conf

\* A descriptor is open exactly while its handle is allocated and knows it, and
\* a live ctx is the newest connected handle: no error path of new_lte leaves a
\* descriptor behind or a half-initialised handle for module_send to find.
NoOrphanDescriptor ==
    /\ \A h \in Handles :
          (\E k \in 1 .. Len(opened) : opened[k] = h) <=> (h \in live /\ s[h])
    /\ ctx \in live => opened # <<>> /\ opened[Len(opened)] = ctx

\* The module is connected exactly when the last new_lte that could parse its arguments,
\* or del_lte, told its caller so: the AT functions after a failed new_lte fail too, and
\* never talk through an earlier handle, though its descriptor may still be open and its
\* address in use again.
OutcomeHolds == ~exited => (last = "connected" <=> ctx \in live /\ s[ctx])

\* Memory is used after it was freed (by del_lte, an AT function or the teardown
\* at interpreter exit) only if the last new_lte or del_lte was a del_lte or a
\* new_lte that module_connect failed: those two leave ctx as it was.  Every
\* other failure of new_lte leaves it NULL, which CoraSerial.c checks for.
NoUseAfterFree ==
    [][fault' /\ ~fault => last \in {"connect_failed", "deleted"}]_handleVars
==============================================================================

---------------------------------- MODULE Lte ----------------------------------
(***************************************************************************)
(* The whole me909s module: the handles of LteHandle and the dialogue of   *)
(* Me909s over one terminal.  Whether a call can write, and whether what   *)
(* arrives is kept, follows here from the descriptors that new_lte and     *)
(* del_lte have left open.                                                 *)
(*                                                                         *)
(* restart is left out, and so is a reset by a string of cmd_lte: the      *)
(* device that comes back after it is a new one, with line settings of its *)
(* own.                                                                    *)
(***************************************************************************)
EXTENDS Integers, Sequences

CONSTANTS
    Handles, NULL, Configs, OrigLine,                   \* as in LteHandle
    Calls, InitCount, MaxCmd, MaxLines, RxCap, LineCap  \* as in Me909s

VARIABLES
    ctx, live, s, uart, opened, termios, last, exited, fault,  \* LteHandle's;
                                                               \* termios is its line
    pc, op, tries, ret, line, avail,                           \* Me909s's
    n, queue, stub, rebooting, link,
    accepted, base, clean, misled, seen, unread

handle   == <<ctx, live, s, uart, opened, termios, last, exited, fault>>
terminal == <<line, avail>>
dialogue == <<pc, op, tries, ret, n, queue, stub, rebooting, link,
              accepted, base, clean, misled, seen, unread>>
lteVars  == <<handle, terminal, dialogue>>

\* module_send and module_recv use the descriptor in ctx, if it has one.  A
\* descriptor whose handle is lost keeps the terminal open.
Connected == ctx \in live /\ s[ctx]

Tty == IF Connected THEN "open" ELSE IF opened # <<>> THEN "held" ELSE "closed"

Serial   == INSTANCE LteHandle WITH line <- termios
Dialogue == INSTANCE Me909s WITH tty <- Tty

ASSUME LteAssumption ==
    /\ NULL \notin Handles
    /\ Configs \subseteq [named : BOOLEAN, baud : Nat, parity : STRING,
                          data_bit : Int, stop_bit : Int]
    /\ Calls \subseteq Dialogue!AllCalls \ {"restart"}
    /\ InitCount \in Nat \ {0} /\ MaxCmd \in Nat /\ MaxLines \in Nat \ {0}
    /\ RxCap \in Nat \ {0} /\ LineCap \in Nat

-----------------------------------------------------------------------------
\* Variant: nothing is discarded.
KeepInput == UNCHANGED terminal

\* The terminal discards what arrived when its last descriptor closes.
Discard ==
    IF opened # <<>> /\ opened' = <<>>
    THEN line' = SubSeq(line, avail + 1, Len(line)) /\ avail' = 0
    ELSE UNCHANGED terminal

\* new_lte, del_lte, the interpreter's exit, and AT functions on a freed handle;
\* while an AT function runs nothing else does, for it keeps the interpreter lock.
Manage ==
    /\ pc = "idle"
    /\ Serial!HandleNext
    /\ Discard
    /\ UNCHANGED dialogue

\* A function that finds its arguments right goes on to ctx.
Call(o) ==
    /\ Serial!Running
    /\ UNCHANGED handle
    /\ \/ Dialogue!BadArguments(o)
       \/ ~Serial!Dangling /\ Dialogue!Begin(o)

Proceed == UNCHANGED handle /\ Dialogue!CallStep

Outside ==
    /\ UNCHANGED handle
    /\ \/ Dialogue!Answer \/ Dialogue!LinkChange \/ Dialogue!Announce
       \/ Dialogue!Deliver \/ Dialogue!Drop

-----------------------------------------------------------------------------
LteInit == Serial!HandleInit /\ Dialogue!Init

LteNext ==
    \/ Manage
    \/ \E o \in Calls : Call(o)
    \/ Proceed
    \/ Outside

LteSpec == LteInit /\ [][LteNext]_lteVars

-----------------------------------------------------------------------------
(* Properties *)

\* Both halves keep their types, and a terminal that nobody has open holds nothing to
\* read.  A new handle may still see what arrived for an earlier one: when a lost
\* descriptor has kept the terminal open, or when it arrives after the new one opened.
LteTypeOK == Serial!HandleTypeOK /\ Dialogue!TypeOK

\* The terminal that the dialogue was modelled and checked on is the one that the
\* handles provide, in whatever order new_lte and del_lte are called and fail: a call
\* writes through an open descriptor or fails, a lost handle keeps the terminal's
\* input and a deleted one drops it, and no handle changes hands during a call.
ImplementsDialogue == Dialogue!Spec

\* A command, or the beginning of one, is written only by a call that follows a new_lte
\* that connected: once new_lte has failed (in module_new or module_connect) or del_lte
\* was called, nothing reaches the modem, also when an earlier handle's descriptor is
\* still open.
CommandsFollowConnect ==
    [][n' # n \/ stub' # stub => last = "connected" /\ ~exited]_lteVars
==============================================================================

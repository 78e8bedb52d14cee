-------------------------------- MODULE Me909s --------------------------------
(***************************************************************************)
(* The AT dialogue of the me909s extension module over the serial line:    *)
(* every function writes a command with module_send, waits for bytes with  *)
(* module_recv (select with a timeout, then one read of whatever has       *)
(* arrived) and looks for a pattern in what one read returned.             *)
(*                                                                         *)
(* The modem answers commands in order, in its own time, and announces     *)
(* link changes by itself; its messages reach the reader in pieces.  The   *)
(* module never discards what it has not read, so an answer can be read by *)
(* a later call.                                                           *)
(***************************************************************************)
EXTENDS Integers, Sequences

CONSTANTS
    Calls,      \* the functions callers use, a subset of AllCalls
    InitCount,  \* number of commands init sends (7 in the code)
    MaxCmd,     \* bound: commands written in a behaviour
    MaxLines,   \* bound: command lines in a string that a caller gives
    RxCap,      \* half messages one read takes (256 bytes in the code)
    LineCap     \* bound: nothing comes unasked while the line holds this many cells

\* Functions that wait for OK, that wait for a report, and that do not wait.
SyncCalls  == {"init", "cmd", "led"}
PollCalls  == {"status", "online", "offline"}
AsyncCalls == {"restart", "call", "hangup"}
AllCalls   == SyncCalls \cup PollCalls \cup AsyncCalls

ASSUME CallsAssumption == Calls \subseteq AllCalls
ASSUME BoundsAssumption ==
    /\ InitCount \in Nat \ {0}
    /\ MaxCmd \in Nat
    /\ MaxLines \in Nat \ {0}
    /\ RxCap \in Nat \ {0}
    /\ LineCap \in Nat

VARIABLES
    \* the caller's thread, inside the module
    pc,         \* where the running function is
    op,         \* the function running, or the last one that ran
    tries,      \* loop index i of init, status, online and offline
    ret,        \* what the last function returned
    \* the serial line
    line,       \* half messages sent by the modem and not read yet
    avail,      \* how many of them are in the terminal's input buffer
    tty,        \* "open" by the handle, "held" open by a lost one only, or "closed"
    \* the modem
    n,          \* number of commands written: the last one's identity
    queue,      \* commands received and not answered
    stub,       \* an unfinished command line is waiting for its end
    rebooting,  \* AT^RESET was accepted
    link,       \* the data connection: 1 up, 0 down, as the modem reports it
    \* history, read by properties only
    accepted,   \* commands the modem answered OK
    base,       \* n when the call began
    clean,      \* nothing was outstanding when the call began
    misled,     \* the call has read what looks like the answer and is none
    seen,       \* values of link since the call began
    unread      \* link states whose report lay unread when the call began

caller  == <<pc, op, tries, ret>>
modem   == <<n, queue, stub, rebooting, link>>
history == <<accepted, base, clean, misled, seen, unread>>
vars == <<caller, line, avail, tty, modem, history>>

-----------------------------------------------------------------------------
(* Messages *)

\* "word" is a text or a report with the patterns in it that the module looks for, where
\* they mean something else: a text message, a name or an echo that holds an OK, and
\* perhaps the words of a link report with either digit.
Kinds == {"ok", "err", "text", "word", "qry", "stat"}

\* A message is sent as two cells, so that a read can end inside it, and inside the
\* pattern.  "of" is the command it answers, 0 when it comes unasked; "digit" is the
\* state a report carries.
Cell == [kind : Kinds, of : 0 .. MaxCmd, digit : 0 .. 1, half : 1 .. 2]

Message(kind, of, digit) ==
    <<[kind |-> kind, of |-> of, digit |-> digit, half |-> 1],
      [kind |-> kind, of |-> of, digit |-> digit, half |-> 2]>>

\* The final result code of an answer.
Final(cell) == cell.kind \in {"ok", "err"}

\* Commands that are, or contain, a caller's text; "garbled" is a command line that
\* began with the rest of an earlier one.
FreeText == {"cmd", "call", "garbled"}

\* What the modem may answer to a command line: its text if it has one, an echo
\* included, and one result code, a word as long as nobody has sent ATV0.
Answers(q) ==
    LET ok    == Message("ok", q.id, 0)
        err   == Message("err", q.id, 0)
        texts == {Message("text", q.id, 0)}
                 \cup (IF q.op \in {"status"} \cup FreeText
                       THEN {Message("qry", q.id, link)} ELSE {})
                 \cup (IF q.op \in FreeText THEN {Message("word", q.id, 0)} ELSE {})
    IN  {ok, err} \cup {t \o ok : t \in texts} \cup {t \o err : t \in texts}

\* KMP_Match finds a message that lies in the buffer whole.
WholeAt(buf, k) == k < Len(buf) /\ buf[k].half = 1

\* Variant: the first bytes of the pattern are enough.
FoundPrefix(buf, kinds) == \E k \in 1 .. Len(buf) : buf[k].kind \in kinds

\* The pattern that messages of these kinds hold is found.
Found(buf, kinds) ==
    \E k \in 1 .. Len(buf) : WholeAt(buf, k) /\ buf[k].kind \in kinds

\* init, cmd_lte and led look for OK, in whatever text it stands.
FoundOk(buf) == Found(buf, {"ok", "word"})

\* Variant: the pattern has no digit.
FoundAnyStat(buf, digit) == Found(buf, {"stat"})

\* online and offline look for the report with the digit they want.
FoundStat(buf, digit) ==
    \E k \in 1 .. Len(buf) :
       WholeAt(buf, k) /\ buf[k].kind = "stat" /\ buf[k].digit = digit

NoQryBefore(buf, k) ==
    \A j \in 1 .. k - 1 : ~(WholeAt(buf, j) /\ buf[j].kind \in {"qry", "word"})

\* status reads the digit after the first report of the query.
FirstQry(buf, digit) ==
    \E k \in 1 .. Len(buf) :
       /\ WholeAt(buf, k) /\ buf[k].kind = "qry" /\ buf[k].digit = digit
       /\ NoQryBefore(buf, k)

\* That report ends with a full buffer, perhaps just before its digit: status then
\* takes the byte behind the buffer for it.
DigitBehind(buf) ==
    /\ Len(buf) = RxCap
    /\ buf[RxCap].kind \in {"qry", "word"} /\ buf[RxCap].half = 1
    /\ NoQryBefore(buf, RxCap)

\* The cell is of a report, of the kind the function looks for, of the state digit.
Reports(cell, o, digit) ==
    /\ \/ o = "status" /\ cell.kind = "qry"
       \/ o \in {"online", "offline"} /\ cell.kind = "stat"
    /\ cell.digit = digit

\* A command has not been answered, or the result code of an answer not been read.
Outstanding ==
    \/ queue # <<>>
    \/ \E k \in 1 .. Len(line) : Final(line[k])

-----------------------------------------------------------------------------
(* The caller's side *)

\* Commands a call writes.
Commands(o) == IF o = "init" THEN InitCount ELSE 1

\* Variant: the result of module_send is passed on.
SendErrorPassed(o) == "-1"

\* A synchronous call that can trust the OK it reads: it began with nothing outstanding
\* and no unfinished line in the modem, it has written one command at a time, and no
\* text or report with an OK in it was taken for the answer.
InStep == clean /\ ~misled /\ n <= base + Commands(op) /\ op \in SyncCalls
InStepNow == InStep /\ pc # "idle"

\* What a call returns when it cannot write its command.
SendError(o) == IF o \in {"init", "cmd"} THEN "raised" ELSE "failed"

\* What status returns for a digit; True stands for it in online and offline.
Word(digit) == IF digit = 1 THEN "online" ELSE "offline"

Return(value) == pc' = "idle" /\ ret' = value

\* What a call writes at a time, in command lines and perhaps the beginning of one
\* more: one command, but whatever its caller likes in cmd_lte, and one command or
\* more in call, whose number may hold line ends.  The NULs that init writes behind its
\* commands mean nothing to the modem.
Strings(o) ==
    CASE o = "cmd"  -> [lines : 0 .. MaxLines, rest : BOOLEAN]
      [] o = "call" -> [lines : 1 .. MaxLines, rest : {FALSE}]
      [] OTHER      -> {[lines |-> 1, rest |-> FALSE]}

\* What a write that does not take all of s may have taken: nothing, a part, or even
\* every line of it, when only what follows the last CR stays behind.
Beginnings(s) ==
    {w \in [lines : 0 .. s.lines, rest : BOOLEAN] :
        w.rest /\ w.lines = s.lines => s.rest}

\* The modem gets w; the first line ends the unfinished one if there is one.
Receives(w) ==
    /\ n + w.lines <= MaxCmd
    /\ n' = n + w.lines
    /\ queue' = queue \o [i \in 1 .. w.lines |->
                             [id |-> n + i,
                              op |-> IF stub /\ i = 1 THEN "garbled" ELSE op]]
    /\ stub' = (w.rest \/ (stub /\ w.lines = 0))

\* A function with arguments refuses them before it does anything: the wrong
\* type, or an LED status other than LED_OFF and LED_ON.
BadArguments(o) ==
    /\ pc = "idle"
    /\ o \in {"cmd", "led", "call"}
    /\ op' = o
    /\ ret' = "raised"
    /\ UNCHANGED <<pc, tries, line, avail, tty, modem, history>>

Begin(o) ==
    /\ pc = "idle"
    /\ n + Commands(o) <= MaxCmd
    /\ pc' = "send"
    /\ op' = o
    /\ tries' = 0
    /\ ret' = "none"
    /\ base' = n
    /\ clean' = (~Outstanding /\ ~stub)
    /\ misled' = FALSE
    /\ seen' = {link}
    /\ unread' = {d \in 0 .. 1 : \E k \in 1 .. Len(line) : Reports(line[k], o, d)}
    /\ UNCHANGED <<line, avail, tty, modem, accepted>>

\* write took the whole string.
Send ==
    /\ pc = "send"
    /\ tty = "open"
    /\ \E s \in Strings(op) : Receives(s)
    /\ IF op \in AsyncCalls
       THEN Return("ok")
       ELSE pc' = "recv" /\ UNCHANGED ret
    /\ UNCHANGED <<op, tries, line, avail, tty, rebooting, link, history>>

\* write failed, or (the descriptor does not block) did not take all.
SendFails ==
    /\ pc = "send"
    /\ \/ tty = "open" /\ \E s \in Strings(op) : \E w \in Beginnings(s) : Receives(w)
       \/ tty # "open" /\ UNCHANGED <<n, queue, stub>>
    /\ Return(SendError(op))
    /\ UNCHANGED <<op, tries, line, avail, tty, rebooting, link, history>>

\* Variant: init goes on to its next command whatever the answer was.
HandleUnread(buf) ==
    /\ op \in SyncCalls
    /\ IF op = "init" /\ tries + 1 < InitCount
       THEN pc' = "send" /\ tries' = tries + 1 /\ UNCHANGED ret
       ELSE Return(IF FoundOk(buf) THEN "ok" ELSE "failed") /\ UNCHANGED tries

\* What the function does with buf, the result of module_recv; empty when
\* select timed out or read failed.
HandleSync(buf) ==
    /\ op \in SyncCalls
    /\ IF ~FoundOk(buf)
       THEN Return("failed") /\ UNCHANGED tries
       ELSE IF op = "init" /\ tries + 1 < InitCount
       THEN pc' = "send" /\ tries' = tries + 1 /\ UNCHANGED ret
       ELSE Return("ok") /\ UNCHANGED tries

\* The link states that a function may return.
Wanted(o) == CASE o = "status" -> 0 .. 1 [] o = "online" -> {1} [] o = "offline" -> {0}

\* Those of them that buf reports.
Reported(buf) ==
    {d \in Wanted(op) : IF op = "status" THEN FirstQry(buf, d) ELSE FoundStat(buf, d)}

\* What the function looks for is not in buf, but may seem to be: a text holds its words,
\* or the digit is read behind the buffer.
Misleads(buf) ==
    /\ IF op \in SyncCalls THEN ~Found(buf, {"ok"}) ELSE Reported(buf) = {}
    /\ Found(buf, {"word"}) \/ (op = "status" /\ DigitBehind(buf))

HandlePoll(buf) ==
    /\ op \in PollCalls
    /\ \/ \E d \in Reported(buf) : Return(Word(d))
       \/ Misleads(buf) /\ \E d \in Wanted(op) : Return(Word(d))
       \/ Reported(buf) = {} /\ pc' = "sleep" /\ UNCHANGED ret
    /\ UNCHANGED tries

Handle(buf) == HandleSync(buf) \/ HandlePoll(buf)

\* read returns what there is, up to its buffer's size.
Taken == IF avail <= RxCap THEN avail ELSE RxCap

\* select found bytes, read takes what there is up to its buffer's size.
Read ==
    /\ pc = "recv"
    /\ avail > 0
    /\ Handle(SubSeq(line, 1, Taken))
    /\ line' = SubSeq(line, Taken + 1, Len(line))
    /\ avail' = avail - Taken
    /\ misled' = (misled \/ (Misleads(SubSeq(line, 1, Taken)) /\ pc' # "sleep"))
    /\ UNCHANGED <<op, tty, modem, accepted, base, clean, seen, unread>>

\* Nothing arrived for response_timeout, or the device is gone.
ReadFails ==
    /\ pc = "recv"
    /\ avail = 0
    /\ Handle(<<>>)
    /\ UNCHANGED <<op, line, avail, tty, modem, history>>

\* Variant: the loop index stays.
SleepAgain ==
    /\ pc = "sleep"
    /\ IF tries < 3
       THEN pc' = "recv" /\ UNCHANGED ret
       ELSE Return("failed")
    /\ UNCHANGED <<op, tries, line, avail, tty, modem, history>>

\* usleep, and the loop's next turn.
Sleep ==
    /\ pc = "sleep"
    /\ tries' = tries + 1
    /\ IF tries + 1 < 3
       THEN pc' = "recv" /\ UNCHANGED ret
       ELSE Return("failed")
    /\ UNCHANGED <<op, line, avail, tty, modem, history>>

\* del_lte.  The terminal discards what arrived when its last descriptor closes; a
\* handle that a second new_lte replaced keeps it open.
Close ==
    /\ pc = "idle"
    /\ tty = "open"
    /\ \/ tty' = "closed" /\ line' = SubSeq(line, avail + 1, Len(line)) /\ avail' = 0
       \/ tty' = "held" /\ UNCHANGED <<line, avail>>
    /\ UNCHANGED <<caller, modem, history>>

\* new_lte that connects; when a descriptor is open already it changes nothing.
Open ==
    /\ pc = "idle"
    /\ tty # "open"
    /\ tty' = "open"
    /\ UNCHANGED <<caller, line, avail, modem, history>>

-----------------------------------------------------------------------------
(* The modem and the line *)

\* A caller's string may be AT^RESET too.
Answer ==
    /\ queue # <<>>
    /\ queue' = Tail(queue)
    /\ \E a \in Answers(Head(queue)) :
          LET ok == a[Len(a)].kind = "ok" IN
          /\ line' = line \o a
          /\ accepted' = IF ok THEN accepted \cup {Head(queue).id} ELSE accepted
          /\ \/ ok /\ Head(queue).op \in {"restart"} \cup FreeText /\ rebooting' = TRUE
             \/ ~(ok /\ Head(queue).op = "restart") /\ UNCHANGED rebooting
    /\ UNCHANGED <<caller, avail, tty, n, stub, link, base, clean, misled, seen,
                   unread>>

LinkChange ==
    /\ Len(line) < LineCap
    /\ link' = 1 - link
    /\ seen' = seen \cup {1 - link}
    /\ line' = line \o Message("stat", 0, 1 - link)
    /\ UNCHANGED <<caller, avail, tty, n, queue, stub, rebooting, accepted,
                   base, clean, misled, unread>>

\* A report of something else: a call, a text message, the registration.
Announce ==
    /\ Len(line) < LineCap
    /\ line' = line \o Message("word", 0, 0)
    /\ UNCHANGED <<caller, avail, tty, modem, history>>

Deliver ==
    /\ tty # "closed"
    /\ avail < Len(line)
    /\ avail' = avail + 1
    /\ UNCHANGED <<caller, line, tty, modem, history>>

\* What arrives while nobody has the terminal open is lost.
Drop ==
    /\ tty = "closed"
    /\ line # <<>>
    /\ line' = Tail(line)
    /\ UNCHANGED <<caller, avail, tty, modem, history>>

\* The device disappears from the bus with everything it had not handled.
Reboot ==
    /\ rebooting
    /\ rebooting' = FALSE
    /\ tty' = "closed"
    /\ line' = <<>>
    /\ avail' = 0
    /\ queue' = <<>>
    /\ stub' = FALSE
    /\ link' = 0
    /\ seen' = seen \cup {0}
    /\ UNCHANGED <<caller, n, accepted, base, clean, misled, unread>>

-----------------------------------------------------------------------------
Init ==
    /\ pc = "idle" /\ op = "init" /\ tries = 0 /\ ret = "none"
    /\ line = <<>> /\ avail = 0 /\ tty = "closed"
    /\ n = 0 /\ queue = <<>> /\ stub = FALSE /\ rebooting = FALSE
    /\ link \in 0 .. 1
    /\ accepted = {} /\ base = 0 /\ clean = TRUE /\ misled = FALSE
    /\ seen = {link} /\ unread = {}

\* What the running function does next.
CallStep == Send \/ SendFails \/ Read \/ ReadFails \/ Sleep

Environment == Answer \/ LinkChange \/ Announce \/ Deliver \/ Drop \/ Reboot

Next ==
    \/ \E o \in Calls : Begin(o) \/ BadArguments(o)
    \/ CallStep
    \/ Close \/ Open
    \/ Environment

Spec == Init /\ [][Next]_vars

\* A function that was entered keeps running; nothing is assumed of the modem.
FairSpec == Spec /\ WF_vars(CallStep)

-----------------------------------------------------------------------------
(* Properties *)

\* Types of the variables, and the bounds that tie them: the terminal's buffer
\* holds a part of the line, identities are those of commands written.
TypeOK ==
    /\ pc \in {"idle", "send", "recv", "sleep"}
    /\ op \in AllCalls
    /\ tries \in Nat
    /\ ret \in {"none", "raised", "failed", "ok", "online", "offline"}
    /\ line \in Seq(Cell)
    /\ avail \in 0 .. Len(line)
    /\ tty \in {"open", "held", "closed"}
    /\ tty = "closed" => avail = 0
    /\ n \in 0 .. MaxCmd
    /\ queue \in Seq([id : 1 .. MaxCmd, op : AllCalls \cup {"garbled"}])
    /\ stub \in BOOLEAN
    /\ rebooting \in BOOLEAN
    /\ link \in 0 .. 1
    /\ accepted \subseteq 1 .. MaxCmd
    /\ base \in 0 .. MaxCmd
    /\ clean \in BOOLEAN
    /\ misled \in BOOLEAN
    /\ seen \subseteq 0 .. 1
    /\ unread \subseteq 0 .. 1

\* init, cmd_lte and led believe any OK they read.  The belief is right for a call in
\* step: when it reports success, the modem has accepted each command it wrote, and
\* every answer is read.  It is wrong for a text that holds an OK and for a string of
\* several lines, whose later answers stay behind.  A string without a whole line
\* never succeeds.
InSync ==
    pc = "idle" /\ InStep /\ ret = "ok" =>
       /\ base + 1 .. n \subseteq accepted
       /\ n = base + Commands(op)
       /\ ~Outstanding

Size     == IF InStepNow THEN Commands(op) ELSE 0
Asked    == IF InStepNow THEN n - base ELSE 0
Answered == IF InStepNow THEN {c \in 1 .. n - base : base + c \in accepted} ELSE {}
Result   == IF InStep THEN ret ELSE "none"

Promise == INSTANCE Exchange WITH
    MayForfeit <- TRUE,
    size <- Size, asked <- Asked, answered <- Answered, result <- Result

\* At every moment of such a call, and not only when it returns, the modem has
\* accepted all its commands but the last one written: init and its likes exchange
\* commands and answers in lock step, whatever arrives unasked or in pieces, as long
\* as the call stays in step.
ImplementsExchange == Promise!Spec

\* status, online and offline return a link state that was true at some moment
\* of the call, unless a report of that state lay unread when they were called, they
\* met the report's words in another text, or status took its digit from behind a full
\* buffer.
StateReport ==
    pc = "idle" /\ op \in PollCalls /\ ~misled =>
       \A d \in 0 .. 1 :
          ret = Word(d) =>
             d \in seen \cup unread

\* Every function returns, whatever the modem answers or fails to answer: the
\* timeout of select and the loops' three turns bound the wait.
CallReturns == pc # "idle" ~> pc = "idle"

\* What is left of the running call, in writes, waits and sleeps: a wait and a write
\* for each command of a synchronous call, three waits and three sleeps after the
\* write of status and its likes.
StepsLeft ==
    CASE pc = "idle"  -> 0
      [] pc = "send"  -> IF op \in PollCalls THEN 7
                         ELSE IF op \in SyncCalls THEN 2 * (Commands(op) - tries) ELSE 1
      [] pc = "recv"  -> IF op \in PollCalls THEN 2 * (3 - tries)
                         ELSE 2 * (Commands(op) - tries) - 1
      [] pc = "sleep" -> 2 * (3 - tries) - 1

\* How long a call holds the interpreter lock: each write, wait and sleep uses up one
\* of a number of steps fixed at its beginning, and nothing the modem sends meanwhile,
\* be it link reports without end or an answer in pieces, starts a wait or a turn anew.
BoundedWait ==
    [][/\ CallStep => StepsLeft' \in 0 .. StepsLeft - 1
       /\ pc # "idle" /\ ~CallStep => StepsLeft' = StepsLeft]_vars

\* What the documentation string of status says it returns: the connection's
\* status, during the call and not before it; the digit behind a full buffer and other
\* texts are set aside.
StatusIsCurrent ==
    pc = "idle" /\ op = "status" /\ ~misled =>
       \A d \in 0 .. 1 : ret = Word(d) => d \in seen
==============================================================================
